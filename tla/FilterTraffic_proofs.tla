----------------------- MODULE FilterTraffic_proofs -----------------------
(***************************************************************************)
(* For any number of delivery threads and workers, any limits and any      *)
(* clock: what the meters count, and how far above the limits.  Then the   *)
(* theorems of TrapInfoList, in which the workers look numbers up.         *)
(***************************************************************************)
EXTENDS FilterTraffic, TrapInfoList, FiniteSetTheorems, SequenceTheorems, TLAPS

(***************************************************************************)
(* handle_discard_ lives on from item to item; between the take and the    *)
(* end of an item it says whether this item was discarded.                 *)
(***************************************************************************)
FlagIsOfThisItem ==
    /\ worker \in [Workers -> WorkerStates]
    /\ handleDiscard \in [Workers -> BOOLEAN]
    /\ \A w \in Workers : /\ worker[w] \in {"test", "passed"} => ~handleDiscard[w]
                          /\ worker[w] = "discarded" => handleDiscard[w]

LEMMA InitFlag == TrafficInit => FlagIsOfThisItem
BY DEF TrafficInit, FlagIsOfThisItem, WorkerStates

LEMMA NextFlag == FlagIsOfThisItem /\ [TrafficNext]_trafficVars => FlagIsOfThisItem'
<1> SUFFICES ASSUME FlagIsOfThisItem, [TrafficNext]_trafficVars PROVE FlagIsOfThisItem'
  OBVIOUS
<1> USE DEF FlagIsOfThisItem, WorkerStates, WorkerStep
<1>1. CASE UNCHANGED <<worker, handleDiscard>>
  BY <1>1
<1>2. ASSUME NEW w \in Workers, Take(w) PROVE FlagIsOfThisItem'
  BY <1>2 DEF Take
<1>3. ASSUME NEW w \in Workers, PassOut(w) PROVE FlagIsOfThisItem'
  BY <1>3 DEF PassOut
<1>4. ASSUME NEW w \in Workers, DiscardOut(w) PROVE FlagIsOfThisItem'
  BY <1>4 DEF DiscardOut
<1>5. ASSUME NEW w \in Workers, ItemEnds(w) PROVE FlagIsOfThisItem'
  BY <1>5 DEF ItemEnds
<1>6. ASSUME NEW d \in Receivers, Receive(d) \/ PushProgress(d)
      PROVE  UNCHANGED <<worker, handleDiscard>>
  BY <1>6 DEF Receive, PushProgress, PassIn, DiscardIn, CountIn, Push, workVars
<1>7. ASSUME Tick \/ SetBack \/ UNCHANGED trafficVars
      PROVE  UNCHANGED <<worker, handleDiscard>>
  BY <1>7 DEF Tick, SetBack, trafficVars, workVars
<1> QED
  BY <1>1, <1>2, <1>3, <1>4, <1>5, <1>6, <1>7 DEF TrafficNext, WorkerProgress

(***************************************************************************)
(* The out meter counts the items that passed, and only those.             *)
(***************************************************************************)
THEOREM CountsWhatPassedCorrect == TrafficSpec => CountsWhatPassed
<1> DEFINE Counted == \A w \in Workers : worker[w] # "pop" /\ worker'[w] = "pop"
                         => tpsOut' = IF worker[w] = "passed" THEN Add(tpsOut) ELSE tpsOut
<1>1. ASSUME FlagIsOfThisItem, [TrafficNext]_trafficVars PROVE [Counted]_trafficVars
  <2> SUFFICES ASSUME NEW w \in Workers, worker[w] # "pop", worker'[w] = "pop"
               PROVE  tpsOut' = IF worker[w] = "passed" THEN Add(tpsOut) ELSE tpsOut
    OBVIOUS
  <2>1. ItemEnds(w)
    <3>1. ASSUME NEW v \in Workers, WorkerProgress(v) PROVE ItemEnds(w)
      BY <1>1, <3>1 DEF FlagIsOfThisItem, WorkerProgress, Take, PassOut, DiscardOut, ItemEnds, WorkerStep
    <3>2. ASSUME NEW d \in Receivers, Receive(d) \/ PushProgress(d) PROVE worker' = worker
      BY <3>2 DEF Receive, PushProgress, PassIn, DiscardIn, CountIn, Push, workVars
    <3>3. ASSUME Tick \/ SetBack \/ UNCHANGED trafficVars PROVE worker' = worker
      BY <3>3 DEF Tick, SetBack, trafficVars, workVars
    <3> QED BY <1>1, <3>1, <3>2, <3>3 DEF TrafficNext
  <2>2. handleDiscard[w] <=> worker[w] = "discarded"
    BY <1>1, <2>1 DEF FlagIsOfThisItem, ItemEnds
  <2> QED BY <2>1, <2>2 DEF ItemEnds
<1> QED
  BY <1>1, InitFlag, NextFlag, PTL DEF TrafficSpec, CountsWhatPassed

-----------------------------------------------------------------------------
(***************************************************************************)
(* The meters: only add_transaction makes one longer, and by one entry.    *)
(***************************************************************************)
LEMMA NewerIsAPosition ==
    ASSUME NEW meter \in Seq(Int), NEW age \in Int
    PROVE  Newer(meter, age) \in 0..Len(meter)
<1> DEFINE newer == {i \in 1..Len(meter) : meter[i] < age}
<1>1. /\ IsFiniteSet(1..Len(meter))
      /\ Cardinality(1..Len(meter)) = Len(meter)
  <2>1. ASSUME NEW n \in Nat PROVE IsFiniteSet(1..n) /\ Cardinality(1..n) = n
    BY FS_Interval
  <2>2. Len(meter) \in Nat
    OBVIOUS
  <2> QED
    BY <2>1, <2>2
<1>2. newer \in SUBSET (1..Len(meter))
  OBVIOUS
<1>3. /\ IsFiniteSet(newer)
      /\ Cardinality(newer) <= Len(meter)
  BY <1>1, <1>2, FS_Subset
<1>4. Cardinality(newer) \in Nat
  BY <1>3, FS_CardinalityType
<1> QED
  BY <1>3, <1>4 DEF Newer

LEMMA PrefixOfMeter ==
    ASSUME NEW meter \in Seq(Int), NEW n \in 0..Len(meter)
    PROVE  SubSeq(meter, 1, n) \in Seq(Int) /\ Len(SubSeq(meter, 1, n)) = n
<1>1. \A i \in 1..n : meter[i] \in Int
  OBVIOUS
<1> QED
  BY <1>1, SubSeqProperties

LEMMA RestOfMeter ==
    ASSUME NEW meter \in Seq(Int), NEW n \in 0..Len(meter)
    PROVE  /\ SubSeq(meter, n + 1, Len(meter)) \in Seq(Int)
           /\ Len(SubSeq(meter, n + 1, Len(meter))) = Len(meter) - n
<1>1. \A i \in (n + 1)..Len(meter) : meter[i] \in Int
  OBVIOUS
<1> QED
  BY <1>1, SubSeqProperties

LEMMA CleanupShortens ==
    ASSUME NEW meter \in Seq(Int)
    PROVE  Cleanup(meter) \in Seq(Int) /\ Size(Cleanup(meter)) \in 0..Size(meter)
<1>1. Newer(meter, Window) \in 0..Len(meter)
  BY NewerIsAPosition, WindowAssumption
<1> QED
  BY <1>1, PrefixOfMeter DEF Cleanup, Size

LEMMA AddLengthens ==
    ASSUME NEW meter \in Seq(Int)
    PROVE  Add(meter) \in Seq(Int) /\ Size(Add(meter)) \in 0..(Size(meter) + 1)
<1> DEFINE n      == Newer(meter, 0)
           later  == SubSeq(meter, 1, n) \o <<0>>
           rest   == SubSeq(meter, n + 1, Len(meter))
           longer == later \o rest
<1>1. n \in 0..Len(meter)
  BY NewerIsAPosition
<1> HIDE DEF n
<1>2. later \in Seq(Int) /\ Len(later) = n + 1
  BY <1>1, PrefixOfMeter
<1>3. rest \in Seq(Int) /\ Len(rest) = Len(meter) - n
  BY <1>1, RestOfMeter
<1>4. longer \in Seq(Int) /\ Len(longer) = Len(meter) + 1
  <2> HIDE DEF later, rest
  <2>1. longer \in Seq(Int) /\ Len(longer) = Len(later) + Len(rest)
    BY <1>2, <1>3, ConcatProperties DEF longer
  <2> QED
    BY <1>1, <1>2, <1>3, <2>1
<1>5. Add(meter) = Cleanup(longer)
  <2>1. (n + 1) - 1 = n
    BY <1>1
  <2>2. Add(meter) = Cleanup(SubSeq(meter, 1, (n + 1) - 1) \o <<0>> \o SubSeq(meter, n + 1, Len(meter)))
    BY DEF Add, InsertAt, n
  <2> QED
    BY <2>1, <2>2
<1> HIDE DEF longer
<1> QED
  BY <1>4, <1>5, CleanupShortens DEF Size

LEMMA ClockKeepsSize ==
    ASSUME NEW meter \in Seq(Int)
    PROVE  /\ Older(meter) \in Seq(Int) /\ Size(Older(meter)) = Size(meter)
           /\ \A younger \in Younger(meter) :
                younger \in Seq(Int) /\ Size(younger) = Size(meter)
BY WindowAssumption DEF Older, Younger, Size

(***************************************************************************)
(* Counting the threads between the test of a limit and the count.         *)
(***************************************************************************)
InState(S, f, s) == {x \in S : f[x] = s}

LEMMA InStateCount ==
    ASSUME NEW S, IsFiniteSet(S), NEW f, NEW s
    PROVE  /\ IsFiniteSet(InState(S, f, s))
           /\ Cardinality(InState(S, f, s)) \in Nat
           /\ Cardinality(InState(S, f, s)) <= Cardinality(S)
<1>1. InState(S, f, s) \in SUBSET S
  BY DEF InState
<1> QED
  BY <1>1, FS_Subset, FS_CardinalityType

LEMMA InStateLeft ==
    ASSUME NEW S, IsFiniteSet(S), NEW f, NEW g, NEW s, NEW x \in S,
           f[x] = s, g[x] # s, \A y \in S \ {x} : g[y] = f[y]
    PROVE  Cardinality(InState(S, g, s)) = Cardinality(InState(S, f, s)) - 1
<1>1. InState(S, g, s) = InState(S, f, s) \ {x} /\ x \in InState(S, f, s)
  BY DEF InState
<1> QED
  BY <1>1, InStateCount, FS_RemoveElement

LEMMA InStateNotMore ==
    ASSUME NEW S, IsFiniteSet(S), NEW f, NEW g, NEW s,
           \A y \in S : g[y] = s => f[y] = s
    PROVE  Cardinality(InState(S, g, s)) <= Cardinality(InState(S, f, s))
<1>1. InState(S, g, s) \in SUBSET InState(S, f, s)
  BY DEF InState
<1> QED
  BY <1>1, InStateCount, FS_Subset

(***************************************************************************)
(* The strengthening of LimitsHold: whoever has passed the test and has    *)
(* not counted yet takes its place above the limit already.                *)
(***************************************************************************)
Counting == Cardinality(InState(Receivers, receiver, "count"))
Passed == Cardinality(InState(Workers, worker, "passed"))

InLimit == /\ tpsIn \in Seq(Int)
           /\ receiver \in [Receivers -> ReceiverStates]
           /\ Size(tpsIn) + Counting < LimitIn + Cardinality(Receivers)

OutLimit == /\ tpsOut \in Seq(Int)
            /\ Size(tpsOut) + Passed < LimitOut + Cardinality(Workers)

LEMMA InitLimits == TrafficInit => InLimit /\ OutLimit
<1> SUFFICES ASSUME TrafficInit PROVE InLimit /\ OutLimit
  OBVIOUS
<1>1. InState(Receivers, receiver, "count") = {} /\ InState(Workers, worker, "passed") = {}
  BY DEF InState, TrafficInit
<1>2. Counting = 0 /\ Passed = 0
  BY <1>1, FS_EmptySet DEF Counting, Passed
<1>3. Cardinality(Receivers) \in Nat /\ Cardinality(Workers) \in Nat
  BY TrafficAssumption, FS_CardinalityType
<1>4. Size(tpsIn) = 0 /\ Size(tpsOut) = 0 /\ tpsIn \in Seq(Int) /\ tpsOut \in Seq(Int)
  BY DEF TrafficInit, NoTransactions, Size
<1> QED
  BY <1>2, <1>3, <1>4, TrafficAssumption DEF InLimit, OutLimit, TrafficInit, ReceiverStates

LEMMA NextInLimit == InLimit /\ [TrafficNext]_trafficVars => InLimit'
<1> SUFFICES ASSUME InLimit, [TrafficNext]_trafficVars PROVE InLimit'
  OBVIOUS
<1> DEFINE later == Cardinality(InState(Receivers, receiver', "count"))
<1>a. /\ Counting \in Nat /\ later \in Nat
      /\ Counting <= Cardinality(Receivers) /\ later <= Cardinality(Receivers)
      /\ Cardinality(Receivers) \in Nat
      /\ LimitIn \in Nat
      /\ Counting' = later
  BY InStateCount, FS_CardinalityType, TrafficAssumption DEF Counting
<1>b. /\ tpsIn \in Seq(Int) /\ Size(tpsIn) \in Nat
      /\ receiver \in [Receivers -> ReceiverStates]
      /\ Size(tpsIn) + Counting < LimitIn + Cardinality(Receivers)
  BY DEF InLimit, Size
<1> HIDE DEF later
\* A step that counts nothing, and after which nobody more has still to count.
<1>c. ASSUME receiver' \in [Receivers -> ReceiverStates],
             \A y \in Receivers : receiver'[y] = "count" => receiver[y] = "count",
             tpsIn' \in Seq(Int), Size(tpsIn') \in 0..Size(tpsIn)
      PROVE  InLimit'
  <2>1. later <= Counting
    BY <1>c, TrafficAssumption, InStateNotMore DEF Counting, later
  <2> QED
    BY <1>a, <1>b, <1>c, <2>1 DEF InLimit
<1>1. ASSUME NEW d \in Receivers, Receive(d) PROVE InLimit'
  BY <1>1, <1>b, <1>c DEF Receive, ReceiverStep, ReceiverStates, Size
<1>2. ASSUME NEW d \in Receivers, PassIn(d) PROVE InLimit'
  <2>1. tpsIn' \in Seq(Int) /\ Size(tpsIn') \in Nat /\ Size(tpsIn') < LimitIn
    BY <1>2, <1>b, CleanupShortens DEF PassIn, Look
  <2>2. receiver' \in [Receivers -> ReceiverStates]
    BY <1>2, <1>b DEF PassIn, ReceiverStep, ReceiverStates
  <2> QED
    BY <2>1, <2>2, <1>a DEF InLimit
<1>3. ASSUME NEW d \in Receivers, DiscardIn(d) PROVE InLimit'
  <2>1. tpsIn' \in Seq(Int) /\ Size(tpsIn') \in 0..Size(tpsIn)
    BY <1>3, <1>b, CleanupShortens DEF DiscardIn, Look
  <2> QED
    BY <1>3, <2>1, <1>b, <1>c DEF DiscardIn, ReceiverStep, ReceiverStates
<1>4. ASSUME NEW d \in Receivers, CountIn(d) PROVE InLimit'
  <2>1. tpsIn' \in Seq(Int) /\ Size(tpsIn') \in 0..(Size(tpsIn) + 1)
    BY <1>4, <1>b, AddLengthens DEF CountIn
  <2>2. /\ receiver[d] = "count" /\ receiver'[d] # "count"
        /\ \A y \in Receivers \ {d} : receiver'[y] = receiver[y]
        /\ receiver' \in [Receivers -> ReceiverStates]
    BY <1>4, <1>b DEF CountIn, ReceiverStep, ReceiverStates
  <2>3. later = Counting - 1
    BY <2>2, TrafficAssumption, InStateLeft DEF Counting, later
  <2> QED
    BY <2>1, <2>2, <2>3, <1>a, <1>b DEF InLimit
<1>5. ASSUME NEW d \in Receivers, NEW w \in Workers, Push(d, w) PROVE InLimit'
  BY <1>5, <1>b, <1>c DEF Push, ReceiverStep, ReceiverStates, Size
<1>6. ASSUME NEW w \in Workers, WorkerProgress(w) PROVE InLimit'
  BY <1>6, <1>b, <1>c DEF WorkerProgress, Take, PassOut, DiscardOut, ItemEnds, Size
<1>7. CASE Tick
  BY <1>7, <1>b, <1>c, ClockKeepsSize DEF Tick
<1>8. CASE SetBack
  BY <1>8, <1>b, <1>c, ClockKeepsSize DEF SetBack
<1>9. CASE UNCHANGED trafficVars
  BY <1>9, <1>b, <1>c DEF trafficVars, Size
<1> QED
  BY <1>1, <1>2, <1>3, <1>4, <1>5, <1>6, <1>7, <1>8, <1>9 DEF TrafficNext, PushProgress

LEMMA NextOutLimit == FlagIsOfThisItem /\ OutLimit /\ [TrafficNext]_trafficVars => OutLimit'
<1> SUFFICES ASSUME FlagIsOfThisItem, OutLimit, [TrafficNext]_trafficVars PROVE OutLimit'
  OBVIOUS
<1> DEFINE later == Cardinality(InState(Workers, worker', "passed"))
<1>a. /\ Passed \in Nat /\ later \in Nat
      /\ Passed <= Cardinality(Workers) /\ later <= Cardinality(Workers)
      /\ Cardinality(Workers) \in Nat
      /\ LimitOut \in Nat
      /\ Passed' = later
  BY InStateCount, FS_CardinalityType, TrafficAssumption DEF Passed
<1>b. /\ tpsOut \in Seq(Int) /\ Size(tpsOut) \in Nat
      /\ worker \in [Workers -> WorkerStates]
      /\ \A w \in Workers : worker[w] = "discarded" <=> worker[w] \in {"passed", "discarded"} /\ handleDiscard[w]
      /\ Size(tpsOut) + Passed < LimitOut + Cardinality(Workers)
  BY DEF OutLimit, Size, FlagIsOfThisItem
<1> HIDE DEF later
\* A step that counts nothing, and after which nobody more has still to count.
<1>c. ASSUME \A y \in Workers : worker'[y] = "passed" => worker[y] = "passed",
             tpsOut' \in Seq(Int), Size(tpsOut') \in 0..Size(tpsOut)
      PROVE  OutLimit'
  <2>1. later <= Passed
    BY <1>c, TrafficAssumption, InStateNotMore DEF Passed, later
  <2> QED
    BY <1>a, <1>b, <1>c, <2>1 DEF OutLimit
<1>d. Look(tpsOut) \in Seq(Int) /\ Size(Look(tpsOut)) \in 0..Size(tpsOut)
  BY <1>b, CleanupShortens DEF Look
<1>1. ASSUME NEW w \in Workers, Take(w) PROVE OutLimit'
  BY <1>1, <1>b, <1>c DEF Take, WorkerStep, WorkerStates, Size
<1>2. ASSUME NEW w \in Workers, PassOut(w) PROVE OutLimit'
  <2>1. tpsOut' \in Seq(Int) /\ Size(tpsOut') \in Nat /\ Size(tpsOut') < LimitOut
    BY <1>2, <1>d DEF PassOut
  <2> QED
    BY <2>1, <1>a DEF OutLimit
<1>3. ASSUME NEW w \in Workers, DiscardOut(w) PROVE OutLimit'
  BY <1>3, <1>b, <1>c, <1>d DEF DiscardOut, WorkerStep, WorkerStates
<1>4. ASSUME NEW w \in Workers, ItemEnds(w), worker[w] = "discarded" PROVE OutLimit'
  BY <1>4, <1>b, <1>c DEF ItemEnds, WorkerStates, Size
<1>5. ASSUME NEW w \in Workers, ItemEnds(w), worker[w] = "passed" PROVE OutLimit'
  <2>1. tpsOut' \in Seq(Int) /\ Size(tpsOut') \in 0..(Size(tpsOut) + 1)
    BY <1>5, <1>b, AddLengthens DEF ItemEnds
  <2>2. /\ worker[w] = "passed" /\ worker'[w] # "passed"
        /\ \A y \in Workers \ {w} : worker'[y] = worker[y]
    BY <1>5, <1>b DEF ItemEnds, WorkerStates
  <2>3. later = Passed - 1
    BY <2>2, TrafficAssumption, InStateLeft DEF Passed, later
  <2> QED
    BY <2>1, <2>3, <1>a, <1>b DEF OutLimit
<1>6. ASSUME NEW d \in Receivers, Receive(d) \/ PushProgress(d) PROVE OutLimit'
  BY <1>6, <1>b, <1>c, <1>d
     DEF Receive, PushProgress, PassIn, DiscardIn, CountIn, Push, workVars, Size
<1>7. CASE Tick
  BY <1>7, <1>b, <1>c, ClockKeepsSize DEF Tick, workVars
<1>8. CASE SetBack
  BY <1>8, <1>b, <1>c, ClockKeepsSize DEF SetBack, workVars
<1>9. CASE UNCHANGED trafficVars
  BY <1>9, <1>b, <1>c DEF trafficVars, workVars, Size
<1> QED
  BY <1>1, <1>2, <1>3, <1>4, <1>5, <1>6, <1>7, <1>8, <1>9
     DEF TrafficNext, WorkerProgress, ItemEnds

(***************************************************************************)
(* No window of a second holds more than the limit and one for each other  *)
(* thread, for any limits, any number of threads and any clock.            *)
(***************************************************************************)
THEOREM LimitsHoldCorrect == TrafficSpec => []LimitsHold
<1>1. InLimit /\ OutLimit => LimitsHold
  <2>1. Counting \in Nat /\ Passed \in Nat
    BY TrafficAssumption, InStateCount DEF Counting, Passed
  <2>2. Cardinality(Receivers) \in Nat /\ Cardinality(Workers) \in Nat
    BY TrafficAssumption, FS_CardinalityType
  <2> QED
    BY <2>1, <2>2, TrafficAssumption DEF InLimit, OutLimit, LimitsHold, Size
<1> QED
  BY <1>1, InitFlag, NextFlag, InitLimits, NextInLimit, NextOutLimit, PTL DEF TrafficSpec

-----------------------------------------------------------------------------
(***************************************************************************)
(* The trap list that the workers look numbers up in: for every set of     *)
(* contents and any number of changes and outages, the list served is one  *)
(* the table held, and its checksum is not ahead of it.                    *)
(***************************************************************************)
\* What the table holds or has held: all that update_container can have read.
Seen == past \cup {table}

\* At a place of update_container where sum, or loaded, has been read.
HasSum == update \in {"load", "store", "swap"}
HasList == update \in {"store", "swap"}

ReadFromTheTable == /\ HasSum => sum \in Seen
                    /\ HasList => loaded \in Seen
                    /\ checksum \in Seen \cup {NotLoaded}
                    /\ caller = "run" => numbers \in Seen

\* The thread is there only once start() has swapped a list in.
ThreadAfterLoad == thread \in {"on", "ended"} => caller = "run"

\* A content the table has never left is one it held at both queries.
SameContent == /\ HasList /\ sum = table /\ ~Reverted => loaded = table
               /\ update = "swap" => checksum = sum
               /\ update # "swap" /\ checksum = table /\ ~Reverted => numbers = table

TrapInv == ListTypeOK /\ ReadFromTheTable /\ ThreadAfterLoad /\ SameContent

USE DEF Seen, HasSum, HasList, Reverted, Known

(***************************************************************************)
(* The invariant holds when the object is made.                            *)
(***************************************************************************)
LEMMA TrapInit == ListInit => TrapInv
  <1> SUFFICES ASSUME ListInit PROVE TrapInv
    OBVIOUS
  <1> USE TrapAssumption DEF ListInit
  <1>1. ListTypeOK
    <2>1. writes \in 0..MaxWrites /\ faults \in 0..MaxFaults
      OBVIOUS
    <2>2. table \in Contents /\ past \subseteq Contents
      OBVIOUS
    <2> QED BY <2>1, <2>2 DEF ListTypeOK
  <1>2. ReadFromTheTable /\ ThreadAfterLoad
    BY DEF ReadFromTheTable, ThreadAfterLoad
  <1>3. SameContent
    BY DEF SameContent
  <1> QED BY <1>1, <1>2, <1>3 DEF TrapInv

(***************************************************************************)
(* Every step preserves the invariant.  A change of the table puts what    *)
(* was read so far into its past, which is what SameContent needs.         *)
(***************************************************************************)
LEMMA TrapNext == TrapInv /\ [ListNext]_trapVars => TrapInv'
  <1> SUFFICES ASSUME TrapInv, [ListNext]_trapVars PROVE TrapInv'
    OBVIOUS
  <1> USE TrapAssumption DEF TrapInv, ListTypeOK
  <1>1. CASE WriteTable
    <2>1. ListTypeOK' /\ ThreadAfterLoad'
      BY <1>1 DEF WriteTable, listVars, lifeVars, ThreadAfterLoad
    <2>2. ReadFromTheTable'
      BY <1>1 DEF WriteTable, listVars, lifeVars, ReadFromTheTable
    <2>3. SameContent'
      BY <1>1 DEF WriteTable, listVars, lifeVars, ReadFromTheTable, SameContent
    <2> QED BY <2>1, <2>2, <2>3
  <1>2. CASE DbFails
    <2>1. faults' \in 0..MaxFaults
      BY <1>2 DEF DbFails
    <2>2. ListTypeOK'
      BY <1>2, <2>1 DEF DbFails, listVars, lifeVars
    <2> QED
      BY <1>2, <2>2 DEF DbFails, listVars, lifeVars, ReadFromTheTable, ThreadAfterLoad, SameContent
  <1>3. CASE DbRecovers
    BY <1>3 DEF DbRecovers, listVars, lifeVars, ReadFromTheTable, ThreadAfterLoad, SameContent
  <1>4. CASE GetChecksum
    <2>1. CASE dbUp /\ table # checksum
      BY <1>4, <2>1 DEF GetChecksum, dbVars, lifeVars, ReadFromTheTable, ThreadAfterLoad, SameContent
    <2>2. CASE ~(dbUp /\ table # checksum)
      BY <1>4, <2>2 DEF GetChecksum, UpdateReturns, dbVars, lifeVars, ReadFromTheTable, ThreadAfterLoad, SameContent
    <2> QED BY <2>1, <2>2
  <1>5. CASE LoadData
    <2>1. CASE dbUp
      BY <1>5, <2>1 DEF LoadData, dbVars, lifeVars, ReadFromTheTable, ThreadAfterLoad, SameContent
    <2>2. CASE ~dbUp
      BY <1>5, <2>2 DEF LoadData, UpdateReturns, dbVars, ReadFromTheTable, ThreadAfterLoad, SameContent
    <2> QED BY <2>1, <2>2
  <1>6. CASE StoreChecksum
    BY <1>6 DEF StoreChecksum, dbVars, lifeVars, ReadFromTheTable, ThreadAfterLoad, SameContent
  <1>7. CASE SwapNumbers
    BY <1>7 DEF SwapNumbers, UpdateReturns, dbVars, ReadFromTheTable, ThreadAfterLoad, SameContent
  <1>8. CASE Start \/ Poll
    BY <1>8 DEF Start, Poll, dbVars, lifeVars, ReadFromTheTable, ThreadAfterLoad, SameContent
  <1>9. CASE Stop \/ RunEnds
    BY <1>9 DEF Stop, RunEnds, dbVars, listVars, ReadFromTheTable, ThreadAfterLoad, SameContent
  <1>10. CASE UNCHANGED trapVars
    BY <1>10 DEF trapVars, dbVars, listVars, lifeVars, ReadFromTheTable, ThreadAfterLoad, SameContent
  <1> QED
    BY <1>1, <1>2, <1>3, <1>4, <1>5, <1>6, <1>7, <1>8, <1>9, <1>10 DEF ListNext, UpdateStep

LEMMA TrapAlways == ListSpec => []TrapInv
  BY TrapInit, TrapNext, PTL DEF ListSpec

(***************************************************************************)
(* The variables keep their types, whatever the table holds and however    *)
(* often it changes.                                                       *)
(***************************************************************************)
THEOREM TrapTypeCorrect == ListSpec => []ListTypeOK
  BY TrapAlways, PTL DEF TrapInv

(***************************************************************************)
(* Once start() has returned true, contains() looks into a list that the   *)
(* table holds or has held.                                                *)
(***************************************************************************)
THEOREM ServesARealListCorrect == ListSpec => []ServesARealList
  <1>1. TrapInv => ServesARealList
    BY DEF TrapInv, ReadFromTheTable, ThreadAfterLoad, ServesARealList
  <1> QED BY <1>1, TrapAlways, PTL

(***************************************************************************)
(* A list that is out of date has a checksum that is, too, unless the      *)
(* table went back to an earlier content.                                  *)
(***************************************************************************)
THEOREM ChecksumNotAheadCorrect == ListSpec => []ChecksumNotAhead
  <1>1. TrapInv => ChecksumNotAhead
    BY DEF TrapInv, SameContent, ChecksumNotAhead
  <1> QED BY <1>1, TrapAlways, PTL
=============================================================================
