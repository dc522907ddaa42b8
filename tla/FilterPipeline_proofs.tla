------------------------ MODULE FilterPipeline_proofs ------------------------
(***************************************************************************)
(* Proofs about FilterPipeline, for every number of messages, clients,     *)
(* workers, delivery threads and publishers and every size of the queues:  *)
(* every message is answered once and comes to one end (first part); the   *)
(* order in which main starts and stops the parts keeps every pool up as   *)
(* long as someone publishes and turns no message away (second part).      *)
(***************************************************************************)
EXTENDS FilterPipeline, TLAPS, FiniteSetTheorems, SequenceTheorems, WellFoundedInduction

Callback == [pc : CallbackPlaces, msg : Messages \cup {NoMsg},
             best : Nat, next : Nat, left : Nat]
Worker == [pc : WorkerPlaces, msg : Messages \cup {NoMsg}]
Publisher == [pc : PublisherPlaces, msg : Messages \cup {NoMsg}]

\* The types of what is on its way to a decision, ...
FrontTypes ==
    /\ server \in SUBSET Messages
    /\ cb \in [CallbackSet -> Callback]
    /\ \A b \in CallbackSet : /\ Pool(b) # <<>> => cb[b].best \in 1..Len(Pool(b))
                              /\ cb[b].pc \in {"try", "admitted"} => Pool(b) # <<>>
                              /\ cb[b].next > 0
                              /\ cb[b].pc = "idle" <=> cb[b].msg = NoMsg
    /\ queue \in [WorkerSet -> Seq(Messages)]
    /\ worker \in [WorkerSet -> Worker]
    /\ \A w \in WorkerSet : worker[w].pc \in {"pop", "missed", "exited"} <=> worker[w].msg = NoMsg

\* ... of what is to be published, ...
BackTypes ==
    /\ outbox \in [PublisherSet -> Seq(Messages)]
    /\ publisher \in [PublisherSet -> Publisher]
    /\ \A p \in PublisherSet : publisher[p].pc # "send" <=> publisher[p].msg = NoMsg

\* ... and of what became of it.
OutcomeTypes ==
    /\ requested \in [Messages -> Nat]
    /\ fate \in [Messages -> SUBSET Fates]

NoRepeats(s) == \A i, j \in 1..Len(s) : s[i] = s[j] => i = j

\* What is on its way to a decision is in one place, ...
FrontOnce(m) ==
    /\ m \in server => ~Undecided(m)
    /\ \A b, d \in CallbackSet : cb[b].msg = m /\ cb[d].msg = m => b = d
    /\ \A w, v \in WorkerSet : worker[w].msg = m /\ worker[v].msg = m => w = v
    /\ \A w, v \in WorkerSet : Contains(queue[w], m) /\ Contains(queue[v], m) => w = v
    /\ \A b \in CallbackSet, w \in WorkerSet :
          cb[b].msg = m => worker[w].msg # m /\ ~Contains(queue[w], m)
    /\ \A w, v \in WorkerSet : worker[w].msg = m => ~Contains(queue[v], m)

FrontUnique == /\ \A w \in WorkerSet : NoRepeats(queue[w])
               /\ \A m \in Messages : FrontOnce(m)

\* ... and so is what is to be published.
BackOnce(m) ==
    /\ \A p, r \in PublisherSet : publisher[p].msg = m /\ publisher[r].msg = m => p = r
    /\ \A p, r \in PublisherSet : Contains(outbox[p], m) /\ Contains(outbox[r], m) => p = r
    /\ \A p, r \in PublisherSet : publisher[p].msg = m => ~Contains(outbox[r], m)

BackUnique == /\ \A p \in PublisherSet : NoRepeats(outbox[p])
              /\ \A m \in Messages : BackOnce(m)

Early(m) == m \in server \/ Undecided(m)

(***************************************************************************)
(* The life of a message: undecided, then being published, then at its     *)
(* end; or refused, which is an end too.                                   *)
(***************************************************************************)
Stage(m) ==
    \/ Early(m) /\ ~Sending(m) /\ requested[m] = 0 /\ fate[m] = {}
    \/ ~Early(m) /\ Sending(m) /\ requested[m] = 1 /\ fate[m] = {}
    \/ ~Early(m) /\ ~Sending(m) /\ requested[m] = 0 /\ \E f \in Refused : fate[m] = {f}
    \/ ~Early(m) /\ ~Sending(m) /\ requested[m] = 1 /\ \E f \in Fates \ Refused : fate[m] = {f}

FrontInv == FrontTypes /\ FrontUnique
BackInv == BackTypes /\ BackUnique
StageInv == OutcomeTypes /\ \A m \in Messages : Stage(m)
Inv == FrontInv /\ BackInv /\ StageInv

\* What a step does to the sets of messages on either side.
FrontStill == \A m \in Messages : Early(m)' <=> Early(m)
FrontLoses(n) == Early(n) /\ \A m \in Messages : Early(m)' <=> Early(m) /\ m # n
BackStill == \A m \in Messages : Sending(m)' <=> Sending(m)
BackGains(n) == \A m \in Messages : Sending(m)' <=> Sending(m) \/ m = n
BackLoses(n) == Sending(n) /\ \A m \in Messages : Sending(m)' <=> Sending(m) /\ m # n
-----------------------------------------------------------------------------
(* Lines of messages *)

LEMMA Joins ==
  ASSUME NEW s \in Seq(Messages), NEW m \in Messages
  PROVE  /\ Append(s, m) \in Seq(Messages)
         /\ \A n : Contains(Append(s, m), n) <=> Contains(s, n) \/ n = m
         /\ NoRepeats(s) /\ ~Contains(s, m) => NoRepeats(Append(s, m))
<1> DEFINE t == Append(s, m)
<1>1. /\ t \in Seq(Messages) /\ Len(s) \in Nat /\ Len(t) = Len(s) + 1
      /\ \A i \in 1..Len(s) : t[i] = s[i]
      /\ t[Len(s) + 1] = m
  BY AppendProperties
<1> HIDE DEF t
<1>2. ASSUME NEW n PROVE Contains(t, n) <=> Contains(s, n) \/ n = m
  BY <1>1 DEF Contains
<1>3. ASSUME NoRepeats(s), ~Contains(s, m) PROVE NoRepeats(t)
  BY <1>1, <1>3 DEF Contains, NoRepeats
<1> QED
  BY <1>1, <1>2, <1>3 DEF t

LEMMA Leaves ==
  ASSUME NEW s \in Seq(Messages), s # <<>>
  PROVE  /\ Tail(s) \in Seq(Messages)
         /\ Head(s) \in Messages
         /\ Contains(s, Head(s))
         /\ \A n : Contains(Tail(s), n) => Contains(s, n)
         /\ \A n : Contains(s, n) => Contains(Tail(s), n) \/ n = Head(s)
         /\ NoRepeats(s) => NoRepeats(Tail(s)) /\ ~Contains(Tail(s), Head(s))
<1> DEFINE t == Tail(s) h == Head(s)
<1>1. /\ t \in Seq(Messages) /\ h \in Messages
      /\ Len(s) \in Nat \ {0} /\ Len(t) = Len(s) - 1
      /\ \A i \in 1..Len(t) : t[i] = s[i + 1]
      /\ h = s[1]
  BY HeadTailProperties, EmptySeq
<1> HIDE DEF t, h
<1>2. Contains(s, h)
  BY <1>1 DEF Contains
<1>3. ASSUME NEW n, Contains(t, n) PROVE Contains(s, n)
  BY <1>1, <1>3 DEF Contains
<1>4. ASSUME NEW n, Contains(s, n) PROVE Contains(t, n) \/ n = h
  <2>1. PICK i \in 1..Len(s) : s[i] = n
    BY <1>4 DEF Contains
  <2>2. CASE i # 1
    <3>1. i - 1 \in 1..Len(t) /\ t[i - 1] = n
      BY <1>1, <2>1, <2>2
    <3> QED BY <3>1 DEF Contains
  <2> QED BY <1>1, <2>1, <2>2
<1>5. ASSUME NoRepeats(s) PROVE NoRepeats(t) /\ ~Contains(t, h)
  <2>1. ASSUME NEW i \in 1..Len(t), NEW j \in 1..Len(t), t[i] = t[j] PROVE i = j
    <3>1. i + 1 \in 1..Len(s) /\ j + 1 \in 1..Len(s) /\ s[i + 1] = s[j + 1]
      BY <1>1, <2>1
    <3> QED BY <1>5, <3>1 DEF NoRepeats
  <2>2. ASSUME NEW i \in 1..Len(t), t[i] = h PROVE FALSE
    <3>1. i + 1 \in 1..Len(s) /\ 1 \in 1..Len(s) /\ s[i + 1] = s[1] /\ i + 1 # 1
      BY <1>1, <2>2
    <3> QED BY <1>5, <3>1 DEF NoRepeats
  <2> QED BY <2>1, <2>2 DEF NoRepeats, Contains
<1> QED
  BY <1>1, <1>2, <1>3, <1>4, <1>5 DEF t, h
-----------------------------------------------------------------------------
(* The delivery threads *)

LEMMA PoolIsOfWorkers ==
  ASSUME NEW b \in CallbackSet
  PROVE  /\ Pool(b) \in Seq(WorkerSet)
         /\ Len(Pool(b)) \in Nat
         /\ Pool(b) # <<>> <=> Len(Pool(b)) > 0
<1>1. ClientOf(b) \in ToSet(Clients)
  BY DEF ClientOf, CallbackSet
<1>2. Pool(b) \in Seq(WorkerSet)
  BY <1>1, ObjectsAssumption DEF Pool
<1> QED
  BY <1>2, EmptySeq

LEMMA ChosenIsAWorker ==
  ASSUME FrontTypes, NEW b \in CallbackSet, Pool(b) # <<>>
  PROVE  Chosen(b) \in WorkerSet
BY PoolIsOfWorkers, ElementOfSeq DEF FrontTypes, Chosen

LEMMA DeliverMoves ==
  ASSUME FrontInv, NEW b \in CallbackSet, Deliver(b)
  PROVE  FrontInv' /\ FrontStill
<1>1. PICK m \in server : /\ server' = server \ {m}
                          /\ cb' = [cb EXCEPT ![b].pc = "pick", ![b].msg = m]
  BY DEF Deliver
<1>2. cb[b].pc = "idle" /\ UNCHANGED <<queue, worker>>
  BY DEF Deliver, workVars
<1>3. m \in Messages /\ m # NoMsg /\ cb[b].msg = NoMsg
  BY <1>2, MessageAssumption DEF FrontInv, FrontTypes, Callback
<1>4. \A d \in CallbackSet : cb'[d].msg = IF d = b THEN m ELSE cb[d].msg
  BY <1>1 DEF FrontInv, FrontTypes, Callback
<1>5. FrontTypes'
  <2>1. cb \in [CallbackSet -> Callback] /\ cb[b] \in Callback
    BY DEF FrontInv, FrontTypes
  <2>2. cb'[b] = [cb[b] EXCEPT !.pc = "pick", !.msg = m]
    BY <1>1, <2>1
  <2>3. /\ cb'[b] \in Callback /\ cb'[b].pc = "pick" /\ cb'[b].msg = m
        /\ cb'[b].best = cb[b].best /\ cb'[b].next = cb[b].next
        /\ cb'[b].pc \notin {"try", "admitted"}
    BY <1>3, <2>1, <2>2 DEF Callback, CallbackPlaces
  <2>4. PICK place : cb' = [cb EXCEPT ![b] = place]
    BY <1>1
  <2> QED
    BY <1>1, <1>2, <1>3, <2>1, <2>3, <2>4 DEF FrontInv, FrontTypes, Pool
<1>6. \A n \in Messages : n \in server' <=> n \in server /\ n # m
  BY <1>1
<1>7. FrontUnique'
  BY <1>2, <1>3, <1>4, <1>6 DEF FrontInv, FrontUnique, FrontOnce, Undecided
<1>8. ASSUME NEW n \in Messages PROVE Early(n)' <=> Early(n)
  BY <1>2, <1>3, <1>4, <1>6, MessageAssumption DEF Early, Undecided
<1> QED
  BY <1>5, <1>7, <1>8 DEF FrontInv, FrontStill

\* A callback goes on with its message.
LEMMA CallbackGoesOn ==
  ASSUME FrontInv, NEW b \in CallbackSet,
         \/ Pick(b)
         \/ /\ cb[b].pc # "idle" /\ Pool(b) # <<>>
            /\ \/ \E pc \in CallbackPlaces \ {"idle"} : Goto(b, pc)
               \/ cb' = [cb EXCEPT ![b].pc = "try", ![b].left = @ - 1] /\ cb[b].left > 1
            /\ UNCHANGED <<server, queue, worker>>
  PROVE  FrontInv' /\ FrontStill
<1>1. UNCHANGED <<server, queue, worker>>
  BY DEF Pick, workVars
<1>2. \A d \in CallbackSet : cb'[d].msg = cb[d].msg
  <2>1. \A d \in CallbackSet : d # b => cb'[d] = cb[d]
    BY DEF FrontInv, FrontTypes, Callback, Pick, Goto
  <2>2. cb'[b].msg = cb[b].msg
    BY DEF FrontInv, FrontTypes, Callback, Pick, Goto
  <2> QED
    BY <2>1, <2>2
<1>3. /\ cb \in [CallbackSet -> Callback]
      /\ cb[b] \in Callback /\ cb[b].next > 0
      /\ Pool(b) # <<>> => cb[b].best \in 1..Len(Pool(b))
  BY DEF FrontInv, FrontTypes, Callback
<1>4. /\ cb'[b] \in Callback /\ cb'[b].best \in 1..Len(Pool(b)) /\ cb'[b].next > 0
      /\ cb'[b].pc # "idle" /\ cb[b].pc # "idle" /\ Pool(b) # <<>>
  <2>1. CASE Pick(b)
    <3>1. PICK best \in {cb[b].next, cb[b].best} :
             cb' = [cb EXCEPT ![b].next = cb[b].next + 1, ![b].best = best]
      BY <2>1 DEF Pick
    <3>2. cb[b].next \in 1..Len(Pool(b)) /\ Pool(b) # <<>>
      BY <1>3, <2>1, PoolIsOfWorkers DEF Pick, Picked, Callback
    <3>3. best \in 1..Len(Pool(b)) /\ best \in Nat
      BY <1>3, <3>1, <3>2
    <3>4. cb'[b] = [cb[b] EXCEPT !.next = cb[b].next + 1, !.best = best]
      BY <1>3, <3>1
    <3>5. cb[b].next + 1 \in Nat /\ cb[b].next + 1 > 0
      BY <3>2
    <3>6. cb[b].pc = "pick"
      BY <2>1 DEF Pick
    <3> QED
      BY <1>3, <3>2, <3>3, <3>4, <3>5, <3>6 DEF Callback
  <2>2. ASSUME cb[b].pc # "idle", NEW pc \in CallbackPlaces \ {"idle"}, Goto(b, pc)
        PROVE  /\ cb'[b] \in Callback /\ cb'[b].pc = pc
               /\ cb'[b].best = cb[b].best /\ cb'[b].next = cb[b].next
    BY <1>3, <2>2 DEF Goto, Callback
  <2>3. ASSUME cb[b].pc # "idle", cb[b].left > 1,
               cb' = [cb EXCEPT ![b].pc = "try", ![b].left = @ - 1]
        PROVE  /\ cb'[b] \in Callback /\ cb'[b].pc = "try"
               /\ cb'[b].best = cb[b].best /\ cb'[b].next = cb[b].next
    <3>1. cb'[b] = [cb[b] EXCEPT !.pc = "try", !.left = @ - 1]
      BY <1>3, <2>3
    <3>2. cb[b].left - 1 \in Nat
      BY <1>3, <2>3 DEF Callback
    <3> QED
      BY <1>3, <3>1, <3>2 DEF Callback, CallbackPlaces
  <2> QED
    BY <1>3, <2>1, <2>2, <2>3
<1>5. PICK place : cb' = [cb EXCEPT ![b] = place]
  BY DEF Pick, Goto
<1>6. FrontTypes'
  BY <1>1, <1>2, <1>3, <1>4, <1>5 DEF FrontInv, FrontTypes, Callback, Pool
<1>7. FrontUnique'
  BY <1>1, <1>2 DEF FrontInv, FrontUnique, FrontOnce, Undecided
<1>8. FrontStill
  BY <1>1, <1>2 DEF FrontStill, Early, Undecided
<1> QED
  BY <1>6, <1>7, <1>8 DEF FrontInv

LEMMA CallbackFinishes ==
  ASSUME FrontInv, NEW b \in CallbackSet, cb[b].pc # "idle", Finish(b)
  PROVE  /\ \A d \in CallbackSet : cb'[d].msg = IF d = b THEN NoMsg ELSE cb[d].msg
         /\ cb[b].msg \in Messages
         /\ UNCHANGED <<server, queue, worker>> => FrontInv' /\ FrontLoses(cb[b].msg)
<1>1. \A d \in CallbackSet : cb'[d].msg = IF d = b THEN NoMsg ELSE cb[d].msg
  BY DEF FrontInv, FrontTypes, Callback, Finish, IdleCallback
<1>2. cb[b].msg \in Messages
  BY DEF FrontInv, FrontTypes, Callback
<1>3. ASSUME UNCHANGED <<server, queue, worker>>
      PROVE  FrontInv' /\ FrontLoses(cb[b].msg)
  <2>1. FrontTypes'
    BY <1>3, PoolIsOfWorkers, PipelineAssumption
       DEF FrontInv, FrontTypes, Callback, Finish, IdleCallback, CallbackPlaces, Pool
  <2>2. FrontUnique'
    BY <1>1, <1>3, MessageAssumption DEF FrontInv, FrontUnique, FrontOnce, Undecided
  <2>3. FrontLoses(cb[b].msg)
    BY <1>1, <1>2, <1>3, MessageAssumption DEF FrontInv, FrontUnique, FrontOnce, FrontLoses, Early, Undecided
  <2> QED
    BY <2>1, <2>2, <2>3 DEF FrontInv
<1> QED
  BY <1>1, <1>2, <1>3

LEMMA StoreMoves ==
  ASSUME FrontInv, NEW b \in CallbackSet, Store(b)
  PROVE  FrontInv' /\ FrontStill
<1> DEFINE m == cb[b].msg
           w == Chosen(b)
<1>1. /\ cb[b].pc = "admitted" /\ Finish(b)
      /\ UNCHANGED <<server, worker>>
      /\ queue' = [queue EXCEPT ![w] = Append(@, m)]
  BY DEF Store
<1>2. w \in WorkerSet /\ Pool(b) # <<>>
  BY <1>1, ChosenIsAWorker DEF FrontInv, FrontTypes
<1>3. m \in Messages /\ m # NoMsg
  BY <1>1, CallbackFinishes, MessageAssumption
<1>4. \A d \in CallbackSet : cb'[d].msg = IF d = b THEN NoMsg ELSE cb[d].msg
  BY <1>1, CallbackFinishes
<1>5. /\ queue \in [WorkerSet -> Seq(Messages)]
      /\ queue'[w] = Append(queue[w], m)
      /\ \A v \in WorkerSet \ {w} : queue'[v] = queue[v]
  BY <1>1, <1>2 DEF FrontInv, FrontTypes, Callback
<1>6. /\ queue'[w] \in Seq(Messages)
      /\ \A n : Contains(queue'[w], n) <=> Contains(queue[w], n) \/ n = m
      /\ NoRepeats(queue[w]) /\ ~Contains(queue[w], m) => NoRepeats(queue'[w])
  BY <1>2, <1>3, <1>5, Joins
<1>7. FrontTypes'
  <2>1. /\ cb' = [cb EXCEPT ![b] = IdleCallback]
        /\ IdleCallback \in Callback
        /\ IdleCallback.best \in 1..Len(Pool(b)) /\ IdleCallback.next > 0
        /\ IdleCallback.pc = "idle" /\ IdleCallback.msg = NoMsg
    BY <1>1, <1>2, PoolIsOfWorkers, PipelineAssumption DEF FrontInv, Finish, IdleCallback, Callback, CallbackPlaces
  <2>2. queue' \in [WorkerSet -> Seq(Messages)]
    BY <1>1, <1>5, <1>6
  <2> QED
    BY <1>1, <2>1, <2>2 DEF FrontInv, FrontTypes, Callback, Pool
<1> HIDE DEF w
<1>8. /\ \A v \in WorkerSet : NoRepeats(queue'[v])
      /\ \A v \in WorkerSet, n \in Messages :
            Contains(queue'[v], n) <=> Contains(queue[v], n) \/ (v = w /\ n = m)
  BY <1>2, <1>3, <1>5, <1>6 DEF FrontInv, FrontUnique, FrontOnce
<1>9. UNCHANGED <<server, worker>>
  BY <1>1
<1> HIDE DEF m
<1>10. cb[b].msg = m
  BY DEF m
<1>11. FrontUnique'
  BY <1>2, <1>3, <1>4, <1>8, <1>9, <1>10, MessageAssumption DEF FrontInv, FrontUnique, FrontOnce, Undecided
<1>12. ASSUME NEW n \in Messages PROVE Early(n)' <=> Early(n)
  BY <1>2, <1>3, <1>4, <1>8, <1>9, <1>10, MessageAssumption DEF Early, Undecided
<1> QED
  BY <1>7, <1>11, <1>12 DEF FrontInv, FrontStill
-----------------------------------------------------------------------------
(* The workers *)

LEMMA WorkerPopMoves ==
  ASSUME FrontInv, NEW w \in WorkerSet, WorkerPop(w)
  PROVE  FrontInv' /\ FrontStill
<1>0. PICK m : m = Head(queue[w])
  OBVIOUS
<1>1. /\ queue[w] # <<>> /\ worker[w].pc = "pop"
      /\ worker' = [worker EXCEPT ![w] = [pc |-> "discard", msg |-> m]]
      /\ queue' = [queue EXCEPT ![w] = Tail(@)]
      /\ UNCHANGED <<server, cb>>
  BY <1>0 DEF WorkerPop, callVars
<1>2. /\ queue \in [WorkerSet -> Seq(Messages)] /\ worker \in [WorkerSet -> Worker]
      /\ queue[w] \in Seq(Messages) /\ worker[w].msg = NoMsg /\ NoRepeats(queue[w])
  BY <1>1 DEF FrontInv, FrontTypes, FrontUnique
<1>3. /\ queue'[w] = Tail(queue[w])
      /\ \A v \in WorkerSet \ {w} : queue'[v] = queue[v]
  BY <1>1, <1>2
<1>4. /\ queue'[w] \in Seq(Messages) /\ m \in Messages /\ Contains(queue[w], m)
      /\ \A n : Contains(queue'[w], n) => Contains(queue[w], n)
      /\ \A n : Contains(queue[w], n) => Contains(queue'[w], n) \/ n = m
      /\ NoRepeats(queue'[w]) /\ ~Contains(queue'[w], m)
  BY <1>0, <1>1, <1>2, <1>3, Leaves
<1>5. FrontTypes'
  <2>1. queue' \in [WorkerSet -> Seq(Messages)]
    BY <1>1, <1>2, <1>3, <1>4
  <2>2. [pc |-> "discard", msg |-> m] \in Worker /\ m # NoMsg
    BY <1>4, MessageAssumption DEF Worker, WorkerPlaces
  <2>3. /\ worker' \in [WorkerSet -> Worker]
        /\ worker'[w].pc = "discard" /\ worker'[w].msg = m
        /\ \A v \in WorkerSet \ {w} : worker'[v] = worker[v]
    BY <1>1, <1>2, <2>2
  <2> QED
    BY <1>1, <2>1, <2>2, <2>3 DEF FrontInv, FrontTypes, Pool
<1>6. \A v \in WorkerSet : worker'[v].msg = IF v = w THEN m ELSE worker[v].msg
  BY <1>1, <1>2
<1>7. /\ \A v \in WorkerSet : NoRepeats(queue'[v])
      /\ \A v \in WorkerSet, n \in Messages :
            Contains(queue'[v], n) <=> Contains(queue[v], n) /\ ~(v = w /\ n = m)
  BY <1>3, <1>4 DEF FrontInv, FrontUnique
<1>8. UNCHANGED <<server, cb>>
  BY <1>1
<1>9. FrontUnique'
  <2>1. FrontOnce(m)'
    <3>1. FrontOnce(m)
      BY <1>4 DEF FrontInv, FrontUnique
    <3>2. /\ m \notin server
          /\ \A b \in CallbackSet : cb[b].msg # m
          /\ \A v \in WorkerSet : worker[v].msg # m /\ (Contains(queue[v], m) => v = w)
      BY <1>4, <3>1 DEF FrontOnce, Undecided
    <3>3. \A v \in WorkerSet : /\ worker'[v].msg = m <=> v = w
                               /\ ~Contains(queue'[v], m)
      BY <1>4, <1>6, <1>7, <3>2
    <3> QED
      BY <1>8, <3>2, <3>3 DEF FrontOnce, Undecided
  <2>2. ASSUME NEW n \in Messages, n # m PROVE FrontOnce(n)'
    <3>1. \A v \in WorkerSet : /\ worker'[v].msg = n <=> worker[v].msg = n
                               /\ Contains(queue'[v], n) <=> Contains(queue[v], n)
      BY <1>2, <1>6, <1>7, <2>2, MessageAssumption
    <3>2. FrontOnce(n)
      BY DEF FrontInv, FrontUnique
    <3> QED
      BY <1>8, <3>1, <3>2 DEF FrontOnce, Undecided
  <2>3. \A n \in Messages : FrontOnce(n)'
    BY <2>1, <2>2
  <2> QED
    BY <1>7, <2>3 DEF FrontUnique, FrontOnce
<1>10. ASSUME NEW n \in Messages PROVE Early(n)' <=> Early(n)
  BY <1>2, <1>4, <1>6, <1>7, <1>8, MessageAssumption DEF Early, Undecided
<1> QED
  BY <1>5, <1>9, <1>10 DEF FrontInv, FrontStill

\* A worker goes on with its message, or without any.
LEMMA WorkerGoesOn ==
  ASSUME FrontInv, NEW w \in WorkerSet, NEW from, NEW to \in WorkerPlaces, WorkerGoto(w, from, to),
         from \in {"pop", "missed", "exited"} <=> to \in {"pop", "missed", "exited"},
         UNCHANGED <<server, cb, queue>>
  PROVE  FrontInv' /\ FrontStill
<1>1. worker \in [WorkerSet -> Worker] /\ worker[w].pc = from
  BY DEF FrontInv, FrontTypes, WorkerGoto
<1>2. worker'[w] = [worker[w] EXCEPT !.pc = to]
  BY <1>1 DEF WorkerGoto
<1>3. worker'[w] \in Worker /\ worker'[w].msg = worker[w].msg /\ worker'[w].pc = to
  BY <1>1, <1>2 DEF Worker
<1>4. PICK place : worker' = [worker EXCEPT ![w] = place]
  BY DEF WorkerGoto
<1>5. \A v \in WorkerSet : worker'[v].msg = worker[v].msg
  BY <1>1, <1>3, <1>4
<1>6. FrontTypes'
  BY <1>1, <1>3, <1>4 DEF FrontInv, FrontTypes, Pool
<1>7. FrontUnique'
  BY <1>5 DEF FrontInv, FrontUnique, FrontOnce, Undecided
<1>8. FrontStill
  BY <1>5 DEF FrontStill, Early, Undecided
<1> QED
  BY <1>6, <1>7, <1>8 DEF FrontInv

\* A worker is done with its message.
LEMMA WorkerFinishes ==
  ASSUME FrontInv, NEW w \in WorkerSet, worker[w].pc \notin {"pop", "missed", "exited"},
         worker' = [worker EXCEPT ![w] = IdleThread],
         UNCHANGED <<server, cb, queue>>
  PROVE  FrontInv' /\ worker[w].msg \in Messages /\ FrontLoses(worker[w].msg)
<1>1. /\ worker \in [WorkerSet -> Worker] /\ worker[w] \in Worker /\ worker[w].msg # NoMsg
      /\ IdleThread \in Worker /\ IdleThread.pc = "pop" /\ IdleThread.msg = NoMsg
  BY DEF FrontInv, FrontTypes, Worker, WorkerPlaces, IdleThread
<1>2. worker[w].msg \in Messages
  BY <1>1 DEF Worker
<1>3. \A v \in WorkerSet : worker'[v].msg = IF v = w THEN NoMsg ELSE worker[v].msg
  BY <1>1
<1>4. FrontTypes'
  BY <1>1 DEF FrontInv, FrontTypes, Pool
<1>5. FrontUnique'
  BY <1>3, MessageAssumption DEF FrontInv, FrontUnique, FrontOnce, Undecided
<1>6. ASSUME NEW n \in Messages PROVE Early(n)' <=> Early(n) /\ n # worker[w].msg
  BY <1>2, <1>3, MessageAssumption DEF FrontInv, FrontUnique, FrontOnce, Early, Undecided
<1> QED
  BY <1>2, <1>4, <1>5, <1>6 DEF FrontInv, FrontLoses, Early, Undecided
-----------------------------------------------------------------------------
(* The publishers *)

(***************************************************************************)
(* publish() gives the message to a publisher or comes to an end with it.  *)
(***************************************************************************)
LEMMA PublishMoves ==
  ASSUME BackInv, OutcomeTypes, NEW m \in Messages, ~Sending(m), NEW pool \in Pools,
         Publish(m, pool)
  PROVE  /\ BackInv'
         /\ requested' = [requested EXCEPT ![m] = @ + 1]
         /\ \/ BackStill /\ \E f \in Fates \ Refused : fate' = [fate EXCEPT ![m] = @ \cup {f}]
            \/ BackGains(m) /\ UNCHANGED fate
<1>1. requested' = [requested EXCEPT ![m] = @ + 1] /\ UNCHANGED publisher
  BY DEF Publish
<1>2. ASSUME UNCHANGED outbox PROVE BackInv' /\ BackStill
  BY <1>1, <1>2 DEF BackInv, BackTypes, BackUnique, BackOnce, BackStill, Sending
<1>3. ASSUME NEW how \in {"no pool", "publisher closed", "publisher full"}, Ends(m, how)
      PROVE  \E f \in Fates \ Refused : fate' = [fate EXCEPT ![m] = @ \cup {f}]
  BY <1>3 DEF Ends, Fates, Refused
<1>4. ASSUME NEW p \in ToSet(Publishers[pool]), outbox' = [outbox EXCEPT ![p] = Append(@, m)]
      PROVE  BackInv' /\ BackGains(m)
  <2>1. p \in PublisherSet
    BY DEF PublisherSet
  <2>2. outbox \in [PublisherSet -> Seq(Messages)] /\ outbox[p] \in Seq(Messages)
    BY <2>1 DEF BackInv, BackTypes
  <2>3. /\ outbox'[p] = Append(outbox[p], m)
        /\ \A r \in PublisherSet \ {p} : outbox'[r] = outbox[r]
    BY <1>4, <2>1, <2>2
  <2>4. /\ outbox'[p] \in Seq(Messages)
        /\ \A n : Contains(outbox'[p], n) <=> Contains(outbox[p], n) \/ n = m
        /\ NoRepeats(outbox[p]) /\ ~Contains(outbox[p], m) => NoRepeats(outbox'[p])
    BY <2>2, <2>3, Joins
  <2>5. outbox' \in [PublisherSet -> Seq(Messages)]
    BY <1>4, <2>2, <2>3, <2>4
  <2>6. BackTypes'
    BY <1>1, <2>5 DEF BackInv, BackTypes
  <2>7. /\ \A r \in PublisherSet : NoRepeats(outbox'[r])
        /\ \A r \in PublisherSet, n \in Messages :
              Contains(outbox'[r], n) <=> Contains(outbox[r], n) \/ (r = p /\ n = m)
    BY <2>1, <2>3, <2>4 DEF BackInv, BackUnique, BackOnce, Sending
  <2>8. BackUnique'
    BY <1>1, <2>1, <2>7 DEF BackInv, BackUnique, BackOnce, Sending
  <2>9. ASSUME NEW n \in Messages PROVE Sending(n)' <=> Sending(n) \/ n = m
    BY <1>1, <2>1, <2>7 DEF Sending
  <2> QED
    BY <2>6, <2>8, <2>9 DEF BackInv, BackGains
<1> QED
  BY <1>1, <1>2, <1>3, <1>4 DEF Publish

LEMMA PublisherPopMoves ==
  ASSUME BackInv, NEW p \in PublisherSet, PublisherPop(p)
  PROVE  BackInv' /\ BackStill
<1>0. PICK m : m = Head(outbox[p])
  OBVIOUS
<1>1. /\ outbox[p] # <<>> /\ publisher[p].pc = "pop"
      /\ publisher' = [publisher EXCEPT ![p] = [pc |-> "send", msg |-> m]]
      /\ outbox' = [outbox EXCEPT ![p] = Tail(@)]
  BY <1>0 DEF PublisherPop
<1>2. /\ outbox \in [PublisherSet -> Seq(Messages)] /\ publisher \in [PublisherSet -> Publisher]
      /\ outbox[p] \in Seq(Messages) /\ publisher[p].msg = NoMsg /\ NoRepeats(outbox[p])
  BY <1>1 DEF BackInv, BackTypes, BackUnique, BackOnce
<1>3. /\ outbox'[p] = Tail(outbox[p])
      /\ \A r \in PublisherSet \ {p} : outbox'[r] = outbox[r]
  BY <1>1, <1>2
<1>4. /\ outbox'[p] \in Seq(Messages) /\ m \in Messages /\ Contains(outbox[p], m)
      /\ \A n : Contains(outbox'[p], n) => Contains(outbox[p], n)
      /\ \A n : Contains(outbox[p], n) => Contains(outbox'[p], n) \/ n = m
      /\ NoRepeats(outbox'[p]) /\ ~Contains(outbox'[p], m)
  BY <1>0, <1>1, <1>2, <1>3, Leaves
<1>5. BackTypes'
  <2>1. outbox' \in [PublisherSet -> Seq(Messages)]
    BY <1>1, <1>2, <1>3, <1>4
  <2>2. [pc |-> "send", msg |-> m] \in Publisher /\ m # NoMsg
    BY <1>4, MessageAssumption DEF Publisher, PublisherPlaces
  <2>3. /\ publisher' \in [PublisherSet -> Publisher]
        /\ publisher'[p].pc = "send" /\ publisher'[p].msg = m
        /\ \A r \in PublisherSet \ {p} : publisher'[r] = publisher[r]
    BY <1>1, <1>2, <2>2
  <2> QED
    BY <2>1, <2>2, <2>3 DEF BackInv, BackTypes
<1>6. \A r \in PublisherSet : publisher'[r].msg = IF r = p THEN m ELSE publisher[r].msg
  BY <1>1, <1>2
<1>7. /\ \A r \in PublisherSet : NoRepeats(outbox'[r])
      /\ \A r \in PublisherSet, n \in Messages :
            Contains(outbox'[r], n) <=> Contains(outbox[r], n) /\ ~(r = p /\ n = m)
  BY <1>3, <1>4 DEF BackInv, BackUnique, BackOnce
<1>8. BackUnique'
  <2>1. BackOnce(m)'
    <3>1. BackOnce(m)
      BY <1>4 DEF BackInv, BackUnique
    <3>2. \A r \in PublisherSet : publisher[r].msg # m /\ (Contains(outbox[r], m) => r = p)
      BY <1>4, <3>1 DEF BackOnce
    <3>3. \A r \in PublisherSet : /\ publisher'[r].msg = m <=> r = p
                                  /\ ~Contains(outbox'[r], m)
      BY <1>4, <1>6, <1>7, <3>2
    <3> QED
      BY <3>3 DEF BackOnce
  <2>2. ASSUME NEW n \in Messages, n # m PROVE BackOnce(n)'
    <3>1. \A r \in PublisherSet : /\ publisher'[r].msg = n <=> publisher[r].msg = n
                                  /\ Contains(outbox'[r], n) <=> Contains(outbox[r], n)
      BY <1>2, <1>6, <1>7, <2>2, MessageAssumption
    <3>2. BackOnce(n)
      BY DEF BackInv, BackUnique
    <3> QED
      BY <3>1, <3>2 DEF BackOnce
  <2>3. \A n \in Messages : BackOnce(n)'
    BY <2>1, <2>2
  <2> QED
    BY <1>7, <2>3 DEF BackUnique, BackOnce
<1>9. ASSUME NEW n \in Messages PROVE Sending(n)' <=> Sending(n)
  BY <1>2, <1>4, <1>6, <1>7, MessageAssumption DEF Sending
<1> QED
  BY <1>5, <1>8, <1>9 DEF BackInv, BackStill

\* A publisher without a message looks for the next one.
LEMMA PublisherGoesOn ==
  ASSUME BackInv, NEW p \in PublisherSet, NEW from \in {"pop", "missed", "exited"},
         NEW to \in {"pop", "missed", "exited"}, PublisherGoto(p, from, to), UNCHANGED outbox
  PROVE  BackInv' /\ BackStill
<1>1. publisher \in [PublisherSet -> Publisher] /\ publisher[p].pc = from
  BY DEF BackInv, BackTypes, PublisherGoto
<1>2. publisher'[p] = [publisher[p] EXCEPT !.pc = to]
  BY <1>1 DEF PublisherGoto
<1>3. publisher'[p] \in Publisher /\ publisher'[p].msg = publisher[p].msg /\ publisher'[p].pc = to
  BY <1>1, <1>2 DEF Publisher, PublisherPlaces
<1>4. PICK place : publisher' = [publisher EXCEPT ![p] = place]
  BY DEF PublisherGoto
<1>5. \A r \in PublisherSet : publisher'[r].msg = publisher[r].msg
  BY <1>1, <1>3, <1>4
<1>6. BackTypes'
  BY <1>1, <1>3, <1>4 DEF BackInv, BackTypes
<1>7. BackUnique'
  BY <1>5 DEF BackInv, BackUnique, BackOnce
<1>8. BackStill
  BY <1>5 DEF BackStill, Sending
<1> QED
  BY <1>6, <1>7, <1>8 DEF BackInv

LEMMA PublisherSendMoves ==
  ASSUME BackInv, NEW p \in PublisherSet, PublisherSend(p)
  PROVE  /\ BackInv' /\ publisher[p].msg \in Messages
         /\ BackLoses(publisher[p].msg)
         /\ \E f \in Fates \ Refused : Ends(publisher[p].msg, f)
<1> DEFINE m == publisher[p].msg
<1>1. /\ publisher[p].pc = "send" /\ UNCHANGED outbox
      /\ publisher' = [publisher EXCEPT ![p] = IdleThread]
  BY DEF PublisherSend
<1>2. /\ publisher \in [PublisherSet -> Publisher] /\ publisher[p] \in Publisher /\ m # NoMsg
      /\ IdleThread \in Publisher /\ IdleThread.pc = "pop" /\ IdleThread.msg = NoMsg
  BY <1>1 DEF BackInv, BackTypes, Publisher, PublisherPlaces, IdleThread
<1>3. m \in Messages
  BY <1>2 DEF Publisher
<1>4. \A r \in PublisherSet : publisher'[r].msg = IF r = p THEN NoMsg ELSE publisher[r].msg
  BY <1>1, <1>2
<1>5. PoolOf(p) \in Pools
  BY DEF PoolOf, PublisherSet
<1>6. \E f \in Fates \ Refused : Ends(m, f)
  BY <1>5 DEF PublisherSend, Fates, Refused, Pools
<1>7. BackTypes'
  BY <1>1, <1>2 DEF BackInv, BackTypes
<1> HIDE DEF m
<1>8. m = publisher[p].msg
  BY DEF m
<1>9. BackUnique'
  BY <1>1, <1>4, MessageAssumption DEF BackInv, BackUnique, BackOnce
<1>10. ASSUME NEW n \in Messages PROVE Sending(n)' <=> Sending(n) /\ n # m
  BY <1>1, <1>3, <1>4, <1>8, MessageAssumption DEF BackInv, BackUnique, BackOnce, Sending
<1>11. Sending(m)
  BY <1>8 DEF Sending
<1> QED
  BY <1>3, <1>6, <1>7, <1>8, <1>9, <1>10, <1>11 DEF BackInv, BackLoses
-----------------------------------------------------------------------------
(* The life of a message *)

LEMMA FrontFrame ==
  ASSUME FrontInv, UNCHANGED <<server, cb, queue, worker>>
  PROVE  FrontInv' /\ FrontStill
<1>1. FrontTypes'
  BY DEF FrontInv, FrontTypes, Pool
<1>2. FrontUnique'
  BY DEF FrontInv, FrontUnique, FrontOnce, Undecided
<1>3. FrontStill
  BY DEF FrontStill, Early, Undecided
<1> QED
  BY <1>1, <1>2, <1>3 DEF FrontInv

LEMMA BackFrame ==
  ASSUME BackInv, UNCHANGED <<outbox, publisher>>
  PROVE  BackInv' /\ BackStill
BY DEF BackInv, BackTypes, BackUnique, BackOnce, BackStill, Sending

LEMMA StillKeepsStages ==
  ASSUME StageInv, FrontStill, BackStill, UNCHANGED <<requested, fate>>
  PROVE  StageInv'
<1>1. ASSUME NEW m \in Messages PROVE Stage(m)'
  BY <1>1 DEF StageInv, Stage, FrontStill, BackStill
<1> QED
  BY <1>1 DEF StageInv, OutcomeTypes

\* The message n is refused.
LEMMA RefusalKeepsStages ==
  ASSUME StageInv, NEW n \in Messages, FrontLoses(n), BackStill,
         NEW f \in Refused, Ends(n, f), UNCHANGED requested
  PROVE  StageInv'
<1>1. OutcomeTypes'
  BY DEF StageInv, OutcomeTypes, Ends, Refused, Fates
<1>2. ASSUME NEW m \in Messages PROVE Stage(m)'
  <2>1. CASE m = n
    <3>1. fate'[m] = {f} /\ requested[m] = 0 /\ ~Sending(m)
      BY <2>1 DEF StageInv, OutcomeTypes, Stage, FrontLoses, Ends
    <3> QED
      BY <2>1, <3>1 DEF Stage, FrontLoses, BackStill
  <2>2. CASE m # n
    <3>1. fate'[m] = fate[m]
      BY <2>2 DEF StageInv, OutcomeTypes, Ends
    <3> QED
      BY <2>2, <3>1 DEF StageInv, Stage, FrontLoses, BackStill
  <2> QED
    BY <2>1, <2>2
<1> QED
  BY <1>1, <1>2 DEF StageInv

\* The message n is handed to a pool.
LEMMA PublishKeepsStages ==
  ASSUME StageInv, BackInv, NEW n \in Messages, FrontLoses(n), NEW pool \in Pools, Publish(n, pool)
  PROVE  StageInv' /\ BackInv'
<1>1. ~Sending(n) /\ requested[n] = 0 /\ fate[n] = {}
  BY DEF StageInv, Stage, FrontLoses
<1>2. /\ BackInv'
      /\ requested' = [requested EXCEPT ![n] = @ + 1]
      /\ \/ BackStill /\ \E f \in Fates \ Refused : fate' = [fate EXCEPT ![n] = @ \cup {f}]
         \/ BackGains(n) /\ UNCHANGED fate
  BY <1>1, PublishMoves DEF StageInv
<1>3. /\ requested' \in [Messages -> Nat] /\ requested'[n] = 1
      /\ \A m \in Messages \ {n} : requested'[m] = requested[m]
  BY <1>1, <1>2 DEF StageInv, OutcomeTypes
<1>4. CASE BackStill /\ \E f \in Fates \ Refused : fate' = [fate EXCEPT ![n] = @ \cup {f}]
  <2>1. PICK f \in Fates \ Refused : fate' = [fate EXCEPT ![n] = @ \cup {f}]
    BY <1>4
  <2>2. /\ fate' \in [Messages -> SUBSET Fates] /\ fate'[n] = {f}
        /\ \A m \in Messages \ {n} : fate'[m] = fate[m]
    BY <1>1, <2>1 DEF StageInv, OutcomeTypes
  <2>3. Stage(n)'
    BY <1>1, <1>3, <1>4, <2>2 DEF Stage, FrontLoses, BackStill
  <2>4. ASSUME NEW m \in Messages, m # n PROVE Stage(m)'
    <3>1. requested'[m] = requested[m] /\ fate'[m] = fate[m]
      BY <1>3, <2>2, <2>4
    <3> QED
      BY <1>4, <2>4, <3>1 DEF StageInv, Stage, FrontLoses, BackStill
  <2>5. \A m \in Messages : Stage(m)'
    BY <2>3, <2>4
  <2> QED
    BY <1>2, <1>3, <2>2, <2>5 DEF StageInv, OutcomeTypes
<1>5. CASE BackGains(n) /\ UNCHANGED fate
  <2>1. Stage(n)'
    BY <1>1, <1>3, <1>5 DEF Stage, FrontLoses, BackGains
  <2>2. ASSUME NEW m \in Messages, m # n PROVE Stage(m)'
    <3>1. requested'[m] = requested[m] /\ fate'[m] = fate[m]
      BY <1>3, <1>5, <2>2
    <3> QED
      BY <1>5, <2>2, <3>1 DEF StageInv, Stage, FrontLoses, BackGains
  <2>3. \A m \in Messages : Stage(m)'
    BY <2>1, <2>2
  <2> QED
    BY <1>2, <1>3, <1>5, <2>3 DEF StageInv, OutcomeTypes
<1> QED
  BY <1>2, <1>4, <1>5

\* A publisher is done with the message n.
LEMMA SendKeepsStages ==
  ASSUME StageInv, NEW n \in Messages, FrontStill, BackLoses(n),
         NEW f \in Fates \ Refused, Ends(n, f), UNCHANGED requested
  PROVE  StageInv'
<1>1. OutcomeTypes'
  BY DEF StageInv, OutcomeTypes, Ends
<1>2. ASSUME NEW m \in Messages PROVE Stage(m)'
  <2>1. CASE m = n
    <3>1. fate'[m] = {f} /\ requested[m] = 1 /\ ~Early(m)
      BY <2>1 DEF StageInv, OutcomeTypes, Stage, BackLoses, Ends
    <3> QED
      BY <2>1, <3>1 DEF Stage, FrontStill, BackLoses
  <2>2. CASE m # n
    <3>1. fate'[m] = fate[m]
      BY <2>2 DEF StageInv, OutcomeTypes, Ends
    <3> QED
      BY <2>2, <3>1 DEF StageInv, Stage, FrontStill, BackLoses
  <2> QED
    BY <2>1, <2>2
<1> QED
  BY <1>1, <1>2 DEF StageInv
-----------------------------------------------------------------------------
(* Every step *)

LEMMA DeliveryKeepsInv ==
  ASSUME Inv, NEW b \in CallbackSet, Deliver(b) \/ CallbackProgress(b)
  PROVE  Inv'
<1> USE DEF Inv
<1>1. CASE Deliver(b)
  BY <1>1, DeliverMoves, BackFrame, StillKeepsStages DEF Deliver, sendVars, outcomeVars
<1>2. CASE Pick(b)
  BY <1>2, CallbackGoesOn, BackFrame, StillKeepsStages DEF Pick, sendVars, outcomeVars
<1>3. CASE Store(b)
  BY <1>3, StoreMoves, BackFrame, StillKeepsStages DEF Store, sendVars, outcomeVars
<1>4. ASSUME cb[b].pc # "idle", Finish(b), UNCHANGED <<server, queue, worker>>,
             \/ UNCHANGED <<sendVars, requested>> /\ \E f \in Refused : Ends(cb[b].msg, f)
             \/ Publish(cb[b].msg, "result")
      PROVE  Inv'
  <2>1. FrontInv' /\ cb[b].msg \in Messages /\ FrontLoses(cb[b].msg)
    BY <1>4, CallbackFinishes
  <2>2. CASE UNCHANGED <<sendVars, requested>> /\ \E f \in Refused : Ends(cb[b].msg, f)
    BY <2>1, <2>2, BackFrame, RefusalKeepsStages DEF sendVars
  <2>3. CASE Publish(cb[b].msg, "result")
    BY <2>1, <2>3, PublishKeepsStages DEF Pools
  <2> QED
    BY <1>4, <2>2, <2>3
<1>5. ASSUME NEW pc \in CallbackPlaces \ {"idle"}, cb[b].pc # "idle", Pool(b) # <<>>, Goto(b, pc),
             UNCHANGED <<server, workVars, sendVars, outcomeVars>>
      PROVE  Inv'
  BY <1>5, CallbackGoesOn, BackFrame, StillKeepsStages DEF workVars, sendVars, outcomeVars
<1>6. CASE Examine(b)
  BY <1>4, <1>5, <1>6 DEF Examine, workVars, Refused, CallbackPlaces
<1>7. CASE TryPush(b)
  <2>1. Pool(b) # <<>>
    BY <1>7 DEF TryPush, FrontInv, FrontTypes
  <2> QED
    BY <1>4, <1>5, <1>7, <2>1 DEF TryPush, workVars, Refused, CallbackPlaces, outcomeVars
<1>8. CASE QueueFull(b)
  <2>1. cb[b].pc # "idle" /\ Pool(b) # <<>> /\ UNCHANGED <<server, queue, worker>>
    BY <1>8 DEF QueueFull, workVars, FrontInv, FrontTypes
  <2>2. CASE /\ cb[b].left > 1
             /\ cb' = [cb EXCEPT ![b].pc = "try", ![b].left = @ - 1]
             /\ UNCHANGED <<outcomeVars, sendVars>>
    BY <2>1, <2>2, CallbackGoesOn, BackFrame, StillKeepsStages DEF sendVars, outcomeVars
  <2>3. CASE Publish(cb[b].msg, "result") /\ Finish(b)
    BY <1>4, <2>1, <2>3
  <2> QED
    BY <1>8, <2>2, <2>3 DEF QueueFull
<1>9. CASE NoWorker(b)
  BY <1>4, <1>9 DEF NoWorker, workVars, Refused
<1> QED
  BY <1>1, <1>2, <1>3, <1>6, <1>7, <1>8, <1>9 DEF CallbackProgress

LEMMA WorkerKeepsInv ==
  ASSUME Inv, NEW w \in WorkerSet, WorkerProgress(w)
  PROVE  Inv'
<1> USE DEF Inv
<1>1. CASE WorkerPop(w)
  BY <1>1, WorkerPopMoves, BackFrame, StillKeepsStages DEF WorkerPop, sendVars, outcomeVars
<1>2. ASSUME NEW from, NEW to \in WorkerPlaces, WorkerGoto(w, from, to),
             from \in {"pop", "missed", "exited"} <=> to \in {"pop", "missed", "exited"},
             UNCHANGED <<callVars, queue, sendVars, outcomeVars>>
      PROVE  Inv'
  BY <1>2, WorkerGoesOn, BackFrame, StillKeepsStages DEF callVars, sendVars, outcomeVars
<1>3. ASSUME NEW from \in WorkerPlaces \ {"pop", "missed", "exited"}, NEW pool \in Pools,
             Answer(w, from, pool), UNCHANGED <<callVars, queue>>
      PROVE  Inv'
  <2>1. FrontInv' /\ worker[w].msg \in Messages /\ FrontLoses(worker[w].msg)
    BY <1>3, WorkerFinishes DEF Answer, callVars
  <2> QED
    BY <1>3, <2>1, PublishKeepsStages DEF Answer
<1>4. CASE WorkerMiss(w)
  BY <1>2, <1>4 DEF WorkerMiss, WorkerPlaces
<1>5. CASE WorkerLook(w)
  BY <1>2, <1>5 DEF WorkerLook, WorkerPlaces
<1>6. CASE HandleFilter(w)
  BY <1>2, <1>3, <1>6 DEF HandleFilter, WorkerPlaces, Pools
<1> QED
  BY <1>1, <1>4, <1>5, <1>6 DEF WorkerProgress

LEMMA PublisherKeepsInv ==
  ASSUME Inv, NEW p \in PublisherSet, PublisherProgress(p)
  PROVE  Inv'
<1> USE DEF Inv
<1>1. UNCHANGED <<server, cb, queue, worker>>
  BY DEF PublisherProgress, PublisherPop, PublisherMiss, PublisherLook, PublisherSend, callVars, workVars
<1>2. FrontInv' /\ FrontStill
  BY <1>1, FrontFrame
<1>3. CASE PublisherPop(p)
  BY <1>2, <1>3, PublisherPopMoves, StillKeepsStages DEF PublisherPop, outcomeVars
<1>4. CASE PublisherMiss(p) \/ PublisherLook(p)
  <2>1. BackInv' /\ BackStill
    BY <1>4, PublisherGoesOn DEF PublisherMiss, PublisherLook
  <2> QED
    BY <1>2, <1>4, <2>1, StillKeepsStages DEF PublisherMiss, PublisherLook, outcomeVars
<1>5. CASE PublisherSend(p)
  <2>1. /\ BackInv' /\ publisher[p].msg \in Messages /\ BackLoses(publisher[p].msg)
        /\ \E f \in Fates \ Refused : Ends(publisher[p].msg, f)
    BY <1>5, PublisherSendMoves
  <2>2. UNCHANGED requested
    BY <1>5 DEF PublisherSend
  <2> QED
    BY <1>2, <2>1, <2>2, SendKeepsStages
<1> QED
  BY <1>3, <1>4, <1>5 DEF PublisherProgress

LEMMA InvInit == Init => Inv
<1> SUFFICES ASSUME Init PROVE Inv
  OBVIOUS
<1>1. FrontInv
  <2>1. \A b \in CallbackSet : Pool(b) # <<>> => 1 \in 1..Len(Pool(b))
    BY PoolIsOfWorkers
  <2>2. IdleCallback \in Callback /\ IdleThread \in Worker
    BY PipelineAssumption DEF IdleCallback, Callback, CallbackPlaces, IdleThread, Worker, WorkerPlaces
  <2>3. FrontTypes
    BY <2>1, <2>2, EmptySeq DEF Init, FrontTypes, IdleCallback, IdleThread
  <2>4. \A m \in Messages : ~Undecided(m)
    BY MessageAssumption, EmptySeq DEF Init, Undecided, Contains, IdleCallback, IdleThread
  <2>5. FrontUnique
    BY <2>4, EmptySeq DEF Init, FrontUnique, FrontOnce, NoRepeats, Undecided
  <2> QED
    BY <2>3, <2>5 DEF FrontInv
<1>2. BackInv /\ \A m \in Messages : ~Sending(m)
  <2>1. IdleThread \in Publisher
    BY DEF IdleThread, Publisher, PublisherPlaces
  <2>2. BackTypes
    BY <2>1, EmptySeq DEF Init, BackTypes, IdleThread
  <2>3. \A m \in Messages : ~Sending(m)
    BY MessageAssumption, EmptySeq DEF Init, Sending, Contains, IdleThread
  <2>4. BackUnique
    BY <2>3, EmptySeq DEF Init, BackUnique, BackOnce, NoRepeats, Sending
  <2> QED
    BY <2>2, <2>3, <2>4 DEF BackInv
<1>3. StageInv
  BY <1>2 DEF Init, StageInv, OutcomeTypes, Stage, Early
<1> QED
  BY <1>1, <1>2, <1>3 DEF Inv

LEMMA InvNext == Inv /\ [Next]_vars => Inv'
<1> SUFFICES ASSUME Inv, [Next]_vars PROVE Inv'
  OBVIOUS
<1>1. ASSUME UNCHANGED <<callVars, workVars, sendVars, outcomeVars>> PROVE Inv'
  BY <1>1, FrontFrame, BackFrame, StillKeepsStages
     DEF Inv, callVars, workVars, sendVars, outcomeVars
<1>2. CASE StartStep \/ StopStep
  BY <1>1, <1>2 DEF StartStep, StopStep
<1>3. CASE Terminated \/ UNCHANGED vars
  BY <1>1, <1>3 DEF Terminated, vars
<1> QED
  BY <1>2, <1>3, DeliveryKeepsInv, WorkerKeepsInv, PublisherKeepsInv DEF Next

LEMMA InvCorrect == SafeSpec => []Inv
BY InvInit, InvNext, PTL DEF SafeSpec

(***************************************************************************)
(* FilterWorker answers every message once, ...                            *)
(***************************************************************************)
THEOREM AnsweredOnceCorrect == SafeSpec => []AnsweredOnce
<1>1. Inv => AnsweredOnce
  <2> SUFFICES ASSUME Inv, NEW m \in Messages
               PROVE  /\ requested[m] <= 1
                      /\ requested[m] = 1 => ~Undecided(m)
                      /\ m \notin server /\ ~Undecided(m) =>
                            (requested[m] = 1) # (fate[m] \cap Refused # {})
    BY DEF AnsweredOnce, Refused
  <2>1. requested[m] \in Nat /\ Stage(m)
    BY DEF Inv, StageInv, OutcomeTypes
  <2>2. ASSUME NEW f, fate[m] = {f} PROVE fate[m] \cap Refused # {} <=> f \in Refused
    BY <2>2
  <2>3. CASE Early(m)
    BY <2>1, <2>3 DEF Stage, Early
  <2>4. CASE ~Early(m) /\ Sending(m)
    BY <2>1, <2>4 DEF Stage, Early
  <2>5. CASE ~Early(m) /\ ~Sending(m)
    BY <2>1, <2>2, <2>5 DEF Stage, Early
  <2> QED
    BY <2>3, <2>4, <2>5
<1> QED
  BY <1>1, InvCorrect, PTL

(***************************************************************************)
(* ... and it comes to one end.                                            *)
(***************************************************************************)
THEOREM OneFateCorrect == SafeSpec => []OneFate
<1>1. Inv => OneFate
  <2> SUFFICES ASSUME Inv, NEW m \in Messages
               PROVE  /\ Cardinality(fate[m]) <= 1
                      /\ requested[m] = 1 /\ ~Sending(m) => fate[m] # {}
    BY DEF OneFate
  <2>1. fate[m] = {} \/ \E f : fate[m] = {f}
    BY DEF Inv, StageInv, Stage
  <2>2. Cardinality(fate[m]) <= 1
    BY <2>1, FS_EmptySet, FS_Singleton
  <2> QED
    BY <2>2 DEF Inv, StageInv, Stage
<1> QED
  BY <1>1, InvCorrect, PTL
-----------------------------------------------------------------------------
(* Sequences that are joined from others *)

\* Induction over the natural numbers, for a set of them.
LEMMA SetInduction ==
  ASSUME NEW S, 0 \in S, \A n \in Nat : n \in S => n + 1 \in S
  PROVE  Nat \subseteq S
<1> SUFFICES ASSUME Nat \ S # {} PROVE FALSE
  OBVIOUS
<1>1. PICK x \in Nat \ S : \A y \in Nat \ S : <<y, x>> \notin OpToRel(<, Nat)
  BY NatLessThanWellFounded, WFMin
<1>2. x # 0 /\ x - 1 \in Nat /\ (x - 1) + 1 = x
  OBVIOUS
<1>3. x - 1 \in Nat \ S
  BY <1>2
<1>4. <<x - 1, x>> \in OpToRel(<, Nat)
  BY <1>2 DEF OpToRel
<1> QED
  BY <1>1, <1>3, <1>4

\* The definition of FlattenSeq: the first i sequences of ss, joined, for every i up to n.
Joined(g, ss, n) == g = [i \in 1..n |-> IF i = 1 THEN ss[i] ELSE g[i - 1] \o ss[i]]

\* The recursive function in FlattenSeq exists, ...
LEMMA JoinedExists ==
  ASSUME NEW ss
  PROVE  \A n \in Nat : \E g : Joined(g, ss, n)
<1> DEFINE T == {n \in Nat : \E g : Joined(g, ss, n)}
<1>1. 0 \in T
  <2> DEFINE e == [i \in 1..0 |-> 0]
  <2>1. Joined(e, ss, 0)
    BY DEF Joined
  <2> QED
    BY <2>1
<1>2. ASSUME NEW n \in Nat, n \in T PROVE n + 1 \in T
  <2>1. PICK g : Joined(g, ss, n)
    BY <1>2
  <2> DEFINE last == IF n + 1 = 1 THEN ss[n + 1] ELSE g[n] \o ss[n + 1]
             h == [i \in 1..(n + 1) |-> IF i = n + 1 THEN last ELSE g[i]]
             new == [i \in 1..(n + 1) |-> IF i = 1 THEN ss[i] ELSE h[i - 1] \o ss[i]]
  <2>2. ASSUME NEW i \in 1..n PROVE h[i] = new[i]
    <3>1. h[i] = g[i] /\ i \in 1..(n + 1)
      BY <2>2
    <3>2. g[i] = IF i = 1 THEN ss[i] ELSE g[i - 1] \o ss[i]
      BY <2>1 DEF Joined
    <3>3. i # 1 => h[i - 1] = g[i - 1]
      OBVIOUS
    <3> HIDE DEF h
    <3> QED
      BY <3>1, <3>2, <3>3
  <2>3. h[n + 1] = new[n + 1]
    <3>1. n + 1 \in 1..(n + 1) /\ h[n + 1] = last
      OBVIOUS
    <3>2. n + 1 # 1 => h[(n + 1) - 1] = g[n]
      OBVIOUS
    <3> HIDE DEF h
    <3> QED
      BY <3>1, <3>2
  <2>4. h = new
    <3>1. DOMAIN h = 1..(n + 1) /\ DOMAIN new = 1..(n + 1) /\ 1..(n + 1) = 1..n \cup {n + 1}
      OBVIOUS
    <3> QED
      BY <2>2, <2>3, <3>1
  <2>5. Joined(h, ss, n + 1)
    BY <2>4 DEF Joined
  <2> QED
    BY <2>5
<1>3. Nat \subseteq T
  <2> HIDE DEF T
  <2> QED
    BY <1>1, <1>2, SetInduction
<1> QED
  BY <1>3

\* ... so FlattenSeq joins one sequence after the other.
LEMMA FlattenJoins ==
  ASSUME NEW ss, Len(ss) \in Nat \ {0}
  PROVE  \E g : /\ g[1] = ss[1]
                /\ \A i \in 1..Len(ss) : i + 1 \in 1..Len(ss) => g[i + 1] = g[i] \o ss[i + 1]
                /\ FlattenSeq(ss) = g[Len(ss)]
<1> DEFINE f == CHOOSE g : g = [i \in 1..Len(ss) |-> IF i = 1 THEN ss[i] ELSE g[i - 1] \o ss[i]]
<1>1. f = [i \in 1..Len(ss) |-> IF i = 1 THEN ss[i] ELSE f[i - 1] \o ss[i]]
  BY JoinedExists DEF Joined
<1>2. FlattenSeq(ss) = f[Len(ss)]
  BY DEF FlattenSeq
<1> HIDE DEF f
<1>3. \A i \in 1..Len(ss) : f[i] = IF i = 1 THEN ss[i] ELSE f[i - 1] \o ss[i]
  BY <1>1
<1>4. f[1] = ss[1]
  BY <1>3
<1>5. ASSUME NEW i \in 1..Len(ss), i + 1 \in 1..Len(ss)
      PROVE  f[i + 1] = f[i] \o ss[i + 1]
  <2>1. i + 1 # 1 /\ (i + 1) - 1 = i
    OBVIOUS
  <2> QED
    BY <1>3, <1>5, <2>1
<1> QED
  BY <1>2, <1>4, <1>5

\* No a comes after a b.
Before(plan, a, b) == \A i, j \in 1..Len(plan) : plan[i] = a /\ plan[j] = b => i < j

LEMMA ConcatElements ==
  ASSUME NEW S, NEW s \in Seq(S), NEW t \in Seq(S)
  PROVE  s \o t \in Seq(S) /\ \A x : x \in ToSet(s \o t) <=> x \in ToSet(s) \/ x \in ToSet(t)
<1> DEFINE u == s \o t
<1>1. /\ u \in Seq(S) /\ Len(u) = Len(s) + Len(t) /\ Len(s) \in Nat /\ Len(t) \in Nat
      /\ \A i \in 1..Len(u) : u[i] = IF i <= Len(s) THEN s[i] ELSE t[i - Len(s)]
      /\ DOMAIN u = 1..Len(u) /\ DOMAIN s = 1..Len(s) /\ DOMAIN t = 1..Len(t)
  BY ConcatProperties, LenProperties
<1> HIDE DEF u
<1>2. ASSUME NEW x, x \in ToSet(u) PROVE x \in ToSet(s) \/ x \in ToSet(t)
  <2>1. PICK i \in 1..Len(u) : u[i] = x
    BY <1>1, <1>2 DEF ToSet
  <2>2. CASE i <= Len(s)
    BY <1>1, <2>1, <2>2 DEF ToSet
  <2>3. CASE i > Len(s)
    <3>1. i - Len(s) \in 1..Len(t) /\ t[i - Len(s)] = x
      BY <1>1, <2>1, <2>3
    <3> QED BY <1>1, <3>1 DEF ToSet
  <2> QED BY <1>1, <2>2, <2>3
<1>3. ASSUME NEW x, x \in ToSet(s) PROVE x \in ToSet(u)
  <2>1. PICK i \in 1..Len(s) : s[i] = x
    BY <1>1, <1>3 DEF ToSet
  <2>2. i \in 1..Len(u) /\ u[i] = x
    BY <1>1, <2>1
  <2> QED BY <1>1, <2>2 DEF ToSet
<1>4. ASSUME NEW x, x \in ToSet(t) PROVE x \in ToSet(u)
  <2>1. PICK i \in 1..Len(t) : t[i] = x
    BY <1>1, <1>4 DEF ToSet
  <2>2. i + Len(s) \in 1..Len(u) /\ u[i + Len(s)] = x
    BY <1>1, <2>1
  <2> QED BY <1>1, <2>2 DEF ToSet
<1> QED
  BY <1>1, <1>2, <1>3, <1>4 DEF u

LEMMA ConcatBefore ==
  ASSUME NEW S, NEW s \in Seq(S), NEW t \in Seq(S), NEW a, NEW b,
         Before(s, a, b), Before(t, a, b), ~(b \in ToSet(s) /\ a \in ToSet(t))
  PROVE  Before(s \o t, a, b)
<1> DEFINE u == s \o t
<1>1. /\ u \in Seq(S) /\ Len(u) = Len(s) + Len(t) /\ Len(s) \in Nat /\ Len(t) \in Nat
      /\ \A i \in 1..Len(u) : u[i] = IF i <= Len(s) THEN s[i] ELSE t[i - Len(s)]
      /\ DOMAIN s = 1..Len(s) /\ DOMAIN t = 1..Len(t)
  BY ConcatProperties, LenProperties
<1> HIDE DEF u
<1>2. ASSUME NEW i \in 1..Len(u), NEW j \in 1..Len(u), u[i] = a, u[j] = b PROVE i < j
  <2>1. CASE i <= Len(s) /\ j <= Len(s)
    BY <1>1, <1>2, <2>1 DEF Before
  <2>2. CASE i > Len(s) /\ j > Len(s)
    <3>1. /\ i - Len(s) \in 1..Len(t) /\ j - Len(s) \in 1..Len(t)
          /\ t[i - Len(s)] = a /\ t[j - Len(s)] = b
      BY <1>1, <1>2, <2>2
    <3>2. i - Len(s) < j - Len(s)
      BY <3>1 DEF Before
    <3> QED BY <1>1, <3>2
  <2>3. CASE i > Len(s) /\ j <= Len(s)
    <3>1. i - Len(s) \in 1..Len(t) /\ t[i - Len(s)] = a /\ j \in 1..Len(s) /\ s[j] = b
      BY <1>1, <1>2, <2>3
    <3> QED BY <1>1, <3>1 DEF ToSet
  <2> QED BY <1>1, <2>1, <2>2, <2>3
<1> QED
  BY <1>2 DEF Before, u

\* No a comes after a b in the first k sequences of ss.
InOrder(ss, k, a, b) ==
    /\ \A i \in 1..k : Before(ss[i], a, b)
    /\ \A i, j \in 1..k : b \in ToSet(ss[i]) /\ a \in ToSet(ss[j]) => i >= j

\* s has the elements of the first k sequences of ss, in the same order.
Keeps(s, ss, k, S) ==
    /\ s \in Seq(S)
    /\ \A x : x \in ToSet(s) <=> \E i \in 1..k : x \in ToSet(ss[i])
    /\ \A a, b : InOrder(ss, k, a, b) => Before(s, a, b)

LEMMA KeepsOneMore ==
  ASSUME NEW S, NEW ss, NEW k \in Nat, NEW s, Keeps(s, ss, k, S), ss[k + 1] \in Seq(S)
  PROVE  Keeps(s \o ss[k + 1], ss, k + 1, S)
<1>1. 1..(k + 1) = 1..k \cup {k + 1}
  OBVIOUS
<1>2. /\ s \o ss[k + 1] \in Seq(S)
      /\ \A x : x \in ToSet(s \o ss[k + 1]) <=> \E i \in 1..(k + 1) : x \in ToSet(ss[i])
  BY <1>1, ConcatElements DEF Keeps
<1>3. ASSUME NEW a, NEW b, InOrder(ss, k + 1, a, b) PROVE Before(s \o ss[k + 1], a, b)
  <2>1. InOrder(ss, k, a, b) /\ Before(ss[k + 1], a, b)
    BY <1>1, <1>3 DEF InOrder
  <2>2. ASSUME b \in ToSet(s), a \in ToSet(ss[k + 1]) PROVE FALSE
    <3>1. PICK i \in 1..k : b \in ToSet(ss[i])
      BY <2>2 DEF Keeps
    <3>2. i \in 1..(k + 1) /\ k + 1 \in 1..(k + 1) /\ ~(i >= k + 1)
      OBVIOUS
    <3> QED
      BY <1>3, <2>2, <3>1, <3>2 DEF InOrder
  <2> QED
    BY <2>1, <2>2, ConcatBefore DEF Keeps
<1> QED
  BY <1>2, <1>3 DEF Keeps

\* FlattenSeq joins a line of sequences and keeps their order.
LEMMA FlattenKeeps ==
  ASSUME NEW S, NEW ss \in Seq(Seq(S))
  PROVE  Keeps(FlattenSeq(ss), ss, Len(ss), S)
<1> DEFINE n == Len(ss)
<1>1. n \in Nat /\ \A i \in 1..n : ss[i] \in Seq(S)
  BY LenProperties, ElementOfSeq
<1>2. CASE n = 0
  <2>1. FlattenSeq(ss) = <<>> /\ ToSet(<<>>) = {}
    BY <1>2, EmptySeq DEF FlattenSeq, ToSet
  <2> QED
    BY <1>2, <2>1, EmptySeq DEF Keeps, Before
<1>3. CASE n # 0
  <2>1. PICK g : /\ g[1] = ss[1]
                 /\ \A i \in 1..n : i + 1 \in 1..n => g[i + 1] = g[i] \o ss[i + 1]
                 /\ FlattenSeq(ss) = g[n]
    BY <1>1, <1>3, FlattenJoins
  <2> DEFINE T == {k \in Nat : k \in 1..n => Keeps(g[k], ss, k, S)}
  <2>2. 0 \in T
    OBVIOUS
  <2>3. ASSUME NEW k \in Nat, k \in T PROVE k + 1 \in T
    <3>1. SUFFICES ASSUME k + 1 \in 1..n PROVE Keeps(g[k + 1], ss, k + 1, S)
      OBVIOUS
    <3>2. CASE k = 0
      BY <1>1, <2>1, <3>1, <3>2 DEF Keeps, InOrder
    <3>3. CASE k # 0
      <4>1. k \in 1..n
        BY <1>1, <3>1, <3>3
      <4>2. Keeps(g[k], ss, k, S)
        BY <2>3, <4>1
      <4>3. g[k + 1] = g[k] \o ss[k + 1]
        BY <2>1, <3>1, <4>1
      <4> QED
        BY <1>1, <3>1, <4>2, <4>3, KeepsOneMore
    <3> QED
      BY <3>2, <3>3
  <2>4. n \in T
    <3> HIDE DEF T
    <3> QED
      BY <1>1, <2>2, <2>3, SetInduction
  <2> QED
    BY <1>1, <1>3, <2>1, <2>4
<1> QED
  BY <1>2, <1>3
-----------------------------------------------------------------------------
(* The plans: what is in them, and in which order *)

\* What a step of a plan is about.
Things == {"clients"} \cup Pools \cup ToSet(Clients) \cup WorkerSet \cup CallbackSet \cup PublisherSet
StepNames == {"fill", "publisher", "resize", "make", "worker", "connect", "subscribe",
              "drain", "drained", "close", "join", "reset", "clear"}
Steps == StepNames \X Things

LEMMA StepTypes == \A op \in StepNames, x \in Things : <<op, x>> \in Steps
BY DEF Steps

\* a is a step of the plan, and no a comes after a b.
Leads(plan, a, b) == a \in ToSet(plan) /\ Before(plan, a, b)

LEMMA AbsentBefore ==
  ASSUME NEW s \in Seq(Steps), NEW a, NEW b, a \notin ToSet(s) \/ b \notin ToSet(s)
  PROVE  Before(s, a, b)
<1>1. DOMAIN s = 1..Len(s)
  BY LenProperties
<1> QED
  BY <1>1 DEF Before, ToSet

LEMMA PositionsKeepOrder ==
  ASSUME NEW plan \in Seq(Steps)
  PROVE  /\ DOMAIN Positions(plan) = ToSet(plan)
         /\ \A a \in ToSet(plan) : Positions(plan)[a] \in 1..Len(plan) /\ plan[Positions(plan)[a]] = a
         /\ \A a, b \in ToSet(plan) : Before(plan, a, b) => Positions(plan)[a] < Positions(plan)[b]
<1>1. \A a \in ToSet(plan) : \E i \in 1..Len(plan) : plan[i] = a
  BY LenProperties DEF ToSet
<1>2. /\ DOMAIN Positions(plan) = ToSet(plan)
      /\ \A a \in ToSet(plan) : Positions(plan)[a] \in 1..Len(plan) /\ plan[Positions(plan)[a]] = a
  BY <1>1 DEF Positions
<1> QED
  BY <1>2 DEF Before

LEMMA EachElements ==
  ASSUME NEW op \in StepNames, NEW T, NEW things \in Seq(T), T \subseteq Things
  PROVE  /\ Each(op, things) \in Seq(Steps)
         /\ \A x : x \in ToSet(Each(op, things)) <=> \E y \in ToSet(things) : x = <<op, y>>
<1> DEFINE n == Len(things)
<1>1. n \in Nat /\ DOMAIN things = 1..n /\ \A i \in 1..n : things[i] \in Things
  BY LenProperties, ElementOfSeq
<1>2. Each(op, things) = [i \in 1..n |-> <<op, things[i]>>]
  BY DEF Each
<1>3. Each(op, things) \in Seq(Steps)
  BY <1>1, <1>2, IsASeq, StepTypes
<1>4. \A x : x \in ToSet(Each(op, things)) <=> \E i \in 1..n : x = <<op, things[i]>>
  BY <1>2 DEF ToSet
<1> QED
  BY <1>1, <1>3, <1>4 DEF ToSet

LEMMA Single ==
  ASSUME NEW x \in Steps
  PROVE  /\ <<x>> \in Seq(Steps) /\ \A y : y \in ToSet(<<x>>) <=> y = x
         /\ \A a, b : a # b => Before(<<x>>, a, b)
BY DEF ToSet, Before

LEMMA Double ==
  ASSUME NEW x \in Steps, NEW z \in Steps
  PROVE  /\ <<x, z>> \in Seq(Steps) /\ \A y : y \in ToSet(<<x, z>>) <=> y = x \/ y = z
         /\ x # z => Before(<<x, z>>, x, z)
<1>1. <<x, z>> \in Seq(Steps) /\ Len(<<x, z>>) = 2 /\ <<x, z>>[1] = x /\ <<x, z>>[2] = z
      /\ DOMAIN <<x, z>> = {1, 2}
  OBVIOUS
<1>2. \A y : y \in ToSet(<<x, z>>) <=> y = x \/ y = z
  BY <1>1 DEF ToSet
<1>3. x # z => Before(<<x, z>>, x, z)
  BY <1>1 DEF Before
<1> QED
  BY <1>1, <1>2, <1>3

LEMMA StopThreadsKeeps ==
  ASSUME NEW T, NEW threads \in Seq(T), T \subseteq Things
  PROVE  /\ StopThreads(threads) \in Seq(Steps)
         /\ \A x : x \in ToSet(StopThreads(threads)) <=>
                     \E t \in ToSet(threads) : x \in {<<"close", t>>, <<"join", t>>}
<1> DEFINE n == Len(threads)
           ss == [i \in 1..n |-> << <<"close", threads[i]>>, <<"join", threads[i]>> >>]
<1>1. n \in Nat /\ DOMAIN threads = 1..n /\ \A i \in 1..n : threads[i] \in Things
  BY LenProperties, ElementOfSeq
<1>2. ASSUME NEW i \in 1..n
      PROVE  /\ <<"close", threads[i]>> \in Steps /\ <<"join", threads[i]>> \in Steps
             /\ ss[i] = << <<"close", threads[i]>>, <<"join", threads[i]>> >>
  <2>1. threads[i] \in Things
    BY <1>1
  <2> QED
    BY <2>1, StepTypes DEF StepNames
<1>3. \A i \in 1..n : /\ ss[i] \in Seq(Steps)
                      /\ \A y : y \in ToSet(ss[i]) <=> y = <<"close", threads[i]>> \/ y = <<"join", threads[i]>>
  BY <1>2, Double
<1>4. ss \in Seq(Seq(Steps)) /\ Len(ss) = n
  <2>1. ss \in [1..n -> Seq(Steps)]
    BY <1>3
  <2> HIDE DEF ss
  <2> QED
    BY <1>1, <2>1
<1>5. StopThreads(threads) = FlattenSeq(ss)
  BY DEF StopThreads
<1> HIDE DEF ss
<1>6. Keeps(FlattenSeq(ss), ss, n, Steps)
  BY <1>4, FlattenKeeps
<1>7. \A x : x \in ToSet(StopThreads(threads)) <=> \E i \in 1..n : x \in {<<"close", threads[i]>>, <<"join", threads[i]>>}
  BY <1>3, <1>5, <1>6 DEF Keeps
<1> QED
  BY <1>1, <1>5, <1>6, <1>7 DEF Keeps, ToSet

\* Every block of a plan is a sequence of steps.
LEMMA Owned ==
  /\ \A i \in 1..Len(Clients) : Clients[i] \in ToSet(Clients)
  /\ \A c \in ToSet(Clients) : /\ Workers[c] \in Seq(WorkerSet) /\ ToSet(Workers[c]) \subseteq WorkerSet
                               /\ Callbacks[c] \in Seq(CallbackSet) /\ ToSet(Callbacks[c]) \subseteq CallbackSet
  /\ \A x \in Pools : Publishers[x] \in Seq(PublisherSet) /\ ToSet(Publishers[x]) \subseteq PublisherSet
  /\ WorkerSet \subseteq Things /\ CallbackSet \subseteq Things /\ PublisherSet \subseteq Things
<1>1. \A i \in 1..Len(Clients) : Clients[i] \in ToSet(Clients)
  BY ObjectsAssumption, LenProperties DEF ToSet
<1>2. \A c \in ToSet(Clients) : ToSet(Workers[c]) \subseteq WorkerSet /\ ToSet(Callbacks[c]) \subseteq CallbackSet
  BY DEF WorkerSet, CallbackSet
<1>3. \A x \in Pools : ToSet(Publishers[x]) \subseteq PublisherSet
  BY DEF PublisherSet
<1> QED
  BY <1>1, <1>2, <1>3, ObjectsAssumption DEF Things

LEMMA StartPoolKeeps ==
  ASSUME NEW pool \in Pools
  PROVE  /\ StartPool(pool) \in Seq(Steps)
         /\ \A x : x \in ToSet(StartPool(pool)) <=>
                     \/ x = <<"fill", pool>>
                     \/ \E p \in ToSet(Publishers[pool]) : x = <<"publisher", p>>
<1>1. <<"fill", pool>> \in Steps
  BY StepTypes DEF StepNames, Things
<1>2. /\ Each("publisher", Publishers[pool]) \in Seq(Steps)
      /\ \A x : x \in ToSet(Each("publisher", Publishers[pool])) <=>
                  \E p \in ToSet(Publishers[pool]) : x = <<"publisher", p>>
  BY Owned, EachElements DEF StepNames
<1>3. /\ << <<"fill", pool>> >> \in Seq(Steps)
      /\ \A x : x \in ToSet(<< <<"fill", pool>> >>) <=> x = <<"fill", pool>>
  BY <1>1, Single
<1> DEFINE s == << <<"fill", pool>> >>
           t == Each("publisher", Publishers[pool])
<1> HIDE DEF s, t
<1>4. s \o t \in Seq(Steps) /\ \A x : x \in ToSet(s \o t) <=> x \in ToSet(s) \/ x \in ToSet(t)
  BY <1>2, <1>3, ConcatElements DEF s, t
<1>5. StartPool(pool) = s \o t
  BY DEF StartPool, s, t
<1> QED
  BY <1>2, <1>3, <1>4, <1>5 DEF s, t

ClientStarts(i) ==
    << <<"make", Clients[i]>> >>
    \o Each("worker", Workers[Clients[i]])
    \o << <<"connect", Clients[i]>> >>
    \o Each("subscribe", Callbacks[Clients[i]])

LEMMA ClientStartsKeeps ==
  ASSUME NEW i \in 1..Len(Clients)
  PROVE  /\ ClientStarts(i) \in Seq(Steps)
         /\ \A x : x \in ToSet(ClientStarts(i)) <=>
                     \/ x \in {<<"make", Clients[i]>>, <<"connect", Clients[i]>>}
                     \/ \E w \in ToSet(Workers[Clients[i]]) : x = <<"worker", w>>
                     \/ \E b \in ToSet(Callbacks[Clients[i]]) : x = <<"subscribe", b>>
         /\ \A w, b : Before(ClientStarts(i), <<"worker", w>>, <<"subscribe", b>>)
<1> DEFINE c == Clients[i]
           r == << <<"make", c>> >>
           s == Each("worker", Workers[c])
           t == << <<"connect", c>> >>
           u == Each("subscribe", Callbacks[c])
<1>1. c \in ToSet(Clients)
  BY Owned
<1>2. <<"make", c>> \in Steps /\ <<"connect", c>> \in Steps
  BY <1>1, StepTypes DEF StepNames, Things
<1>3. /\ r \in Seq(Steps) /\ \A x : x \in ToSet(r) <=> x = <<"make", c>>
      /\ t \in Seq(Steps) /\ \A x : x \in ToSet(t) <=> x = <<"connect", c>>
  BY <1>2, Single
<1>4. /\ s \in Seq(Steps) /\ \A x : x \in ToSet(s) <=> \E w \in ToSet(Workers[c]) : x = <<"worker", w>>
      /\ u \in Seq(Steps) /\ \A x : x \in ToSet(u) <=> \E b \in ToSet(Callbacks[c]) : x = <<"subscribe", b>>
  BY <1>1, Owned, EachElements DEF StepNames
<1>5. ClientStarts(i) = ((r \o s) \o t) \o u
  BY DEF ClientStarts
<1> HIDE DEF r, s, t, u
<1>6. /\ r \o s \in Seq(Steps) /\ \A x : x \in ToSet(r \o s) <=> x \in ToSet(r) \/ x \in ToSet(s)
  BY <1>3, <1>4, ConcatElements
<1> DEFINE q == (r \o s) \o t
<1>7. q \in Seq(Steps) /\ \A x : x \in ToSet(q) <=> x \in ToSet(r \o s) \/ x \in ToSet(t)
  BY <1>3, <1>6, ConcatElements
<1>8. ClientStarts(i) = q \o u
  BY <1>5
<1> HIDE DEF q
<1>9. q \o u \in Seq(Steps) /\ \A x : x \in ToSet(q \o u) <=> x \in ToSet(q) \/ x \in ToSet(u)
  BY <1>4, <1>7, ConcatElements
<1>10. ASSUME NEW w, NEW b
      PROVE  Before(q \o u, <<"worker", w>>, <<"subscribe", b>>)
  <2>1. <<"subscribe", b>> \notin ToSet(q)
    BY <1>3, <1>4, <1>6, <1>7
  <2>2. <<"worker", w>> \notin ToSet(u)
    BY <1>4
  <2> QED
    BY <1>4, <1>7, <2>1, <2>2, AbsentBefore, ConcatBefore
<1>11. \A x : x \in ToSet(ClientStarts(i)) <=>
                     \/ x \in {<<"make", c>>, <<"connect", c>>}
                     \/ \E w \in ToSet(Workers[c]) : x = <<"worker", w>>
                     \/ \E b \in ToSet(Callbacks[c]) : x = <<"subscribe", b>>
  BY <1>3, <1>4, <1>8, <1>6, <1>7, <1>9
<1> QED
  BY <1>8, <1>9, <1>10, <1>11

ClientStops(i) ==
    << <<"drain", Clients[i]>>, <<"drained", Clients[i]>> >>
    \o StopThreads(Workers[Clients[i]])
    \o << <<"reset", Clients[i]>> >>

LEMMA ClientStopsKeeps ==
  ASSUME NEW i \in 1..Len(Clients)
  PROVE  /\ ClientStops(i) \in Seq(Steps)
         /\ \A x : x \in ToSet(ClientStops(i)) <=>
                     \/ x \in {<<"drain", Clients[i]>>, <<"drained", Clients[i]>>, <<"reset", Clients[i]>>}
                     \/ \E w \in ToSet(Workers[Clients[i]]) : x \in {<<"close", w>>, <<"join", w>>}
         /\ \A c : Before(ClientStops(i), <<"drain", c>>, <<"drained", c>>)
         /\ \A c, w : Before(ClientStops(i), <<"drained", c>>, <<"close", w>>)
<1> DEFINE e == Clients[i]
           r == << <<"drain", e>>, <<"drained", e>> >>
           s == StopThreads(Workers[e])
           t == << <<"reset", e>> >>
<1>1. e \in ToSet(Clients)
  BY Owned
<1>2. <<"drain", e>> \in Steps /\ <<"drained", e>> \in Steps /\ <<"reset", e>> \in Steps
  BY <1>1, StepTypes DEF StepNames, Things
<1>3. /\ r \in Seq(Steps) /\ \A x : x \in ToSet(r) <=> x = <<"drain", e>> \/ x = <<"drained", e>>
      /\ Before(r, <<"drain", e>>, <<"drained", e>>)
      /\ t \in Seq(Steps) /\ \A x : x \in ToSet(t) <=> x = <<"reset", e>>
  BY <1>2, Single, Double
<1>4. /\ s \in Seq(Steps)
      /\ \A x : x \in ToSet(s) <=> \E w \in ToSet(Workers[e]) : x \in {<<"close", w>>, <<"join", w>>}
  BY <1>1, Owned, StopThreadsKeeps
<1>5. ClientStops(i) = (r \o s) \o t
  BY DEF ClientStops
<1> HIDE DEF r, s, t
<1>6. /\ r \o s \in Seq(Steps) /\ \A x : x \in ToSet(r \o s) <=> x \in ToSet(r) \/ x \in ToSet(s)
  BY <1>3, <1>4, ConcatElements
<1>7. /\ (r \o s) \o t \in Seq(Steps)
      /\ \A x : x \in ToSet((r \o s) \o t) <=> x \in ToSet(r \o s) \/ x \in ToSet(t)
  BY <1>3, <1>6, ConcatElements
<1>8. ASSUME NEW c PROVE Before((r \o s) \o t, <<"drain", c>>, <<"drained", c>>)
  <2>1. Before(r, <<"drain", c>>, <<"drained", c>>)
    <3>1. CASE c # e
      <4>1. <<"drain", c>> # <<"drain", e>> /\ <<"drain", c>> # <<"drained", e>>
        BY <3>1
      <4> QED
        BY <1>3, <4>1, AbsentBefore
    <3> QED
      BY <1>3, <3>1
  <2>2. <<"drain", c>> \notin ToSet(s) /\ <<"drain", c>> \notin ToSet(t)
    BY <1>3, <1>4
  <2> QED
    BY <1>3, <1>4, <1>6, <2>1, <2>2, AbsentBefore, ConcatBefore
<1>9. ASSUME NEW c, NEW w PROVE Before((r \o s) \o t, <<"drained", c>>, <<"close", w>>)
  <2>1. <<"close", w>> \notin ToSet(r) /\ <<"drained", c>> \notin ToSet(s) /\ <<"drained", c>> \notin ToSet(t)
    BY <1>3, <1>4
  <2> QED
    BY <1>3, <1>4, <1>6, <2>1, AbsentBefore, ConcatBefore
<1>10. \A x : x \in ToSet(ClientStops(i)) <=>
                     \/ x \in {<<"drain", e>>, <<"drained", e>>, <<"reset", e>>}
                     \/ \E w \in ToSet(Workers[e]) : x \in {<<"close", w>>, <<"join", w>>}
  BY <1>3, <1>4, <1>5, <1>6, <1>7
<1> QED
  BY <1>5, <1>7, <1>8, <1>9, <1>10
-----------------------------------------------------------------------------
LEMMA StartReceiversKeeps ==
  /\ StartReceivers \in Seq(Steps)
  /\ \A b \in CallbackSet : <<"subscribe", b>> \in ToSet(StartReceivers)
  /\ \A w \in WorkerSet : <<"worker", w>> \in ToSet(StartReceivers)
  /\ \A x : /\ <<"fill", x>> \notin ToSet(StartReceivers) /\ <<"publisher", x>> \notin ToSet(StartReceivers)
            /\ <<"worker", x>> \in ToSet(StartReceivers) => x \in WorkerSet
  /\ \A b \in CallbackSet : \A w \in ToSet(Pool(b)) :
        Before(StartReceivers, <<"worker", w>>, <<"subscribe", b>>)
<1> DEFINE n == Len(Clients)
           ss == [i \in 1..n |-> ClientStarts(i)]
           r == << <<"resize", "clients">> >>
<1>1. n \in Nat /\ \A c \in ToSet(Clients) : \E i \in 1..n : c = Clients[i]
  BY ObjectsAssumption, LenProperties DEF ToSet
<1>2. r \in Seq(Steps) /\ \A x : x \in ToSet(r) <=> x = <<"resize", "clients">>
  <2>1. <<"resize", "clients">> \in Steps
    BY StepTypes DEF StepNames, Things
  <2> QED
    BY <2>1, Single
<1>3. ss \in [1..n -> Seq(Steps)]
  BY ClientStartsKeeps
<1>4. StartReceivers = r \o FlattenSeq(ss)
  BY DEF StartReceivers, ClientStarts
<1>5. \A i \in 1..n : ss[i] = ClientStarts(i)
  OBVIOUS
<1> HIDE DEF ss, r
<1>6. ss \in Seq(Seq(Steps)) /\ Len(ss) = n
  BY <1>1, <1>3
<1> DEFINE t == FlattenSeq(ss)
<1>7. Keeps(t, ss, n, Steps)
  BY <1>6, FlattenKeeps
<1> HIDE DEF t
<1>8. /\ r \o t \in Seq(Steps)
      /\ \A x : x \in ToSet(r \o t) <=> x \in ToSet(r) \/ x \in ToSet(t)
  BY <1>2, <1>7, ConcatElements DEF Keeps
<1>9. \A x : x \in ToSet(t) <=> \E i \in 1..n : x \in ToSet(ClientStarts(i))
  BY <1>5, <1>7 DEF Keeps
<1>10. ASSUME NEW b \in CallbackSet PROVE <<"subscribe", b>> \in ToSet(r \o t)
  <2>1. PICK i \in 1..n : b \in ToSet(Callbacks[Clients[i]])
    BY <1>1 DEF CallbackSet
  <2> QED
    BY <1>8, <1>9, <2>1, ClientStartsKeeps
<1>11. ASSUME NEW w \in WorkerSet PROVE <<"worker", w>> \in ToSet(r \o t)
  <2>1. PICK i \in 1..n : w \in ToSet(Workers[Clients[i]])
    BY <1>1 DEF WorkerSet
  <2> QED
    BY <1>8, <1>9, <2>1, ClientStartsKeeps
<1>12. ASSUME NEW x PROVE <<"fill", x>> \notin ToSet(r \o t) /\ <<"publisher", x>> \notin ToSet(r \o t)
  <2>1. \A i \in 1..n : <<"fill", x>> \notin ToSet(ClientStarts(i)) /\ <<"publisher", x>> \notin ToSet(ClientStarts(i))
    BY ClientStartsKeeps
  <2>2. <<"fill", x>> # <<"resize", "clients">> /\ <<"publisher", x>> # <<"resize", "clients">>
    OBVIOUS
  <2>3. <<"fill", x>> \notin ToSet(r) /\ <<"publisher", x>> \notin ToSet(r)
    BY <1>2, <2>2
  <2>4. <<"fill", x>> \notin ToSet(t) /\ <<"publisher", x>> \notin ToSet(t)
    BY <1>9, <2>1
  <2> QED
    BY <1>8, <2>3, <2>4
<1>13. ASSUME NEW b \in CallbackSet, NEW w \in ToSet(Pool(b))
       PROVE  Before(r \o t, <<"worker", w>>, <<"subscribe", b>>)
  <2> DEFINE c == ClientOf(b)
  <2>1. c \in ToSet(Clients) /\ b \in ToSet(Callbacks[c]) /\ w \in ToSet(Workers[c])
    BY DEF ClientOf, CallbackSet, Pool
  <2> HIDE DEF c
  <2>2. ASSUME NEW i \in 1..n, <<"worker", w>> \in ToSet(ClientStarts(i)) PROVE Clients[i] = c
    <3>1. w \in ToSet(Workers[Clients[i]]) /\ Clients[i] \in ToSet(Clients)
      BY <2>2, ClientStartsKeeps, Owned
    <3> QED
      BY <2>1, <3>1, ObjectsAssumption
  <2>3. ASSUME NEW i \in 1..n, <<"subscribe", b>> \in ToSet(ClientStarts(i)) PROVE Clients[i] = c
    <3>1. b \in ToSet(Callbacks[Clients[i]]) /\ Clients[i] \in ToSet(Clients)
      BY <2>3, ClientStartsKeeps, Owned
    <3> QED
      BY <2>1, <3>1, ObjectsAssumption
  <2>4. InOrder(ss, n, <<"worker", w>>, <<"subscribe", b>>)
    <3>1. ASSUME NEW i \in 1..n, NEW j \in 1..n,
                 <<"subscribe", b>> \in ToSet(ss[i]), <<"worker", w>> \in ToSet(ss[j])
          PROVE  i = j
      BY <1>5, <2>2, <2>3, <3>1, ObjectsAssumption
    <3> QED
      BY <1>1, <1>5, <3>1, ClientStartsKeeps DEF InOrder
  <2>5. Before(t, <<"worker", w>>, <<"subscribe", b>>)
    BY <1>7, <2>4 DEF Keeps
  <2>6. <<"worker", w>> \notin ToSet(r) /\ <<"subscribe", b>> \notin ToSet(r)
    BY <1>2
  <2> QED
    BY <1>2, <1>7, <2>5, <2>6, AbsentBefore, ConcatBefore DEF Keeps
<1>14. ASSUME NEW x, <<"worker", x>> \in ToSet(r \o t) PROVE x \in WorkerSet
  <2>1. <<"worker", x>> # <<"resize", "clients">>
    OBVIOUS
  <2>2. PICK i \in 1..n : <<"worker", x>> \in ToSet(ClientStarts(i))
    BY <1>2, <1>8, <1>9, <1>14, <2>1
  <2>3. x \in ToSet(Workers[Clients[i]])
    BY <2>2, ClientStartsKeeps
  <2> QED
    BY <2>3, Owned
<1> QED
  BY <1>4, <1>8, <1>10, <1>11, <1>12, <1>13, <1>14 DEF t

LEMMA StopReceiversKeeps ==
  /\ StopReceivers \in Seq(Steps)
  /\ \A c \in ToSet(Clients) : {<<"drain", c>>, <<"drained", c>>, <<"reset", c>>} \subseteq ToSet(StopReceivers)
  /\ \A w \in WorkerSet : <<"join", w>> \in ToSet(StopReceivers)
  /\ \A x : <<"clear", x>> \notin ToSet(StopReceivers)
  /\ \A p \in PublisherSet : <<"close", p>> \notin ToSet(StopReceivers)
  /\ \A c \in ToSet(Clients) : Before(StopReceivers, <<"drain", c>>, <<"drained", c>>)
  /\ \A c \in ToSet(Clients) : \A w \in ToSet(Workers[c]) :
        Before(StopReceivers, <<"drained", c>>, <<"close", w>>)
<1> DEFINE n == Len(Clients)
           ss == [i \in 1..n |-> ClientStops(i)]
<1>1. n \in Nat /\ \A c \in ToSet(Clients) : \E i \in 1..n : c = Clients[i]
  BY ObjectsAssumption, LenProperties DEF ToSet
<1>2. ss \in [1..n -> Seq(Steps)]
  BY ClientStopsKeeps
<1>3. StopReceivers = FlattenSeq(ss)
  BY DEF StopReceivers, ClientStops
<1>4. \A i \in 1..n : ss[i] = ClientStops(i)
  OBVIOUS
<1> HIDE DEF ss
<1>5. ss \in Seq(Seq(Steps)) /\ Len(ss) = n
  BY <1>1, <1>2
<1>6. Keeps(StopReceivers, ss, n, Steps)
  BY <1>3, <1>5, FlattenKeeps
<1>7. \A x : x \in ToSet(StopReceivers) <=> \E i \in 1..n : x \in ToSet(ClientStops(i))
  BY <1>4, <1>6 DEF Keeps
<1>8. ASSUME NEW c \in ToSet(Clients)
      PROVE  {<<"drain", c>>, <<"drained", c>>, <<"reset", c>>} \subseteq ToSet(StopReceivers)
  BY <1>1, <1>7, ClientStopsKeeps
<1>9. ASSUME NEW w \in WorkerSet PROVE <<"join", w>> \in ToSet(StopReceivers)
  <2>1. PICK i \in 1..n : w \in ToSet(Workers[Clients[i]])
    BY <1>1 DEF WorkerSet
  <2> QED
    BY <1>7, <2>1, ClientStopsKeeps
<1>10. ASSUME NEW x PROVE <<"clear", x>> \notin ToSet(StopReceivers)
  <2>1. \A i \in 1..n : <<"clear", x>> \notin ToSet(ClientStops(i))
    BY ClientStopsKeeps
  <2> QED
    BY <1>7, <2>1
<1>11. ASSUME NEW p \in PublisherSet PROVE <<"close", p>> \notin ToSet(StopReceivers)
  <2>1. p \notin WorkerSet
    BY ObjectsAssumption
  <2>2. \A i \in 1..n : <<"close", p>> \notin ToSet(ClientStops(i))
    BY <2>1, ClientStopsKeeps, Owned
  <2> QED
    BY <1>7, <2>2
<1>12. ASSUME NEW c, NEW i \in 1..n,
              <<"drain", c>> \in ToSet(ss[i]) \/ <<"drained", c>> \in ToSet(ss[i])
       PROVE  Clients[i] = c
  BY <1>4, <1>12, ClientStopsKeeps
<1>13. ASSUME NEW c \in ToSet(Clients)
       PROVE  Before(StopReceivers, <<"drain", c>>, <<"drained", c>>)
  <2>1. ASSUME NEW i \in 1..n, NEW j \in 1..n,
               <<"drained", c>> \in ToSet(ss[i]), <<"drain", c>> \in ToSet(ss[j])
        PROVE  i = j
    BY <1>12, <2>1, ObjectsAssumption
  <2>2. \A i \in 1..n : Before(ss[i], <<"drain", c>>, <<"drained", c>>)
    BY <1>4, ClientStopsKeeps
  <2>3. InOrder(ss, n, <<"drain", c>>, <<"drained", c>>)
    BY <1>1, <2>1, <2>2 DEF InOrder
  <2> QED
    BY <1>6, <2>3 DEF Keeps
<1>14. ASSUME NEW c \in ToSet(Clients), NEW w \in ToSet(Workers[c])
       PROVE  Before(StopReceivers, <<"drained", c>>, <<"close", w>>)
  <2>1. ASSUME NEW i \in 1..n, <<"close", w>> \in ToSet(ss[i]) PROVE Clients[i] = c
    <3>1. <<"close", w>> \in ToSet(ClientStops(i))
      BY <1>4, <2>1
    <3>2. PICK v \in ToSet(Workers[Clients[i]]) : <<"close", w>> \in {<<"close", v>>, <<"join", v>>}
      BY <3>1, ClientStopsKeeps
    <3>3. v = w /\ Clients[i] \in ToSet(Clients)
      BY <3>2, Owned
    <3> QED
      BY <1>14, <3>2, <3>3, ObjectsAssumption
  <2>2. ASSUME NEW i \in 1..n, NEW j \in 1..n,
               <<"close", w>> \in ToSet(ss[i]), <<"drained", c>> \in ToSet(ss[j])
        PROVE  i = j
    BY <1>12, <2>1, <2>2, ObjectsAssumption
  <2>3. \A i \in 1..n : Before(ss[i], <<"drained", c>>, <<"close", w>>)
    BY <1>4, ClientStopsKeeps
  <2>4. InOrder(ss, n, <<"drained", c>>, <<"close", w>>)
    BY <1>1, <2>2, <2>3 DEF InOrder
  <2> QED
    BY <1>6, <2>4 DEF Keeps
<1> QED
  BY <1>6, <1>8, <1>9, <1>10, <1>11, <1>13, <1>14 DEF Keeps
LEMMA StartPlanKeeps ==
  /\ \A x : /\ <<"publisher", x>> \in ToSet(StartPlan) => x \in PublisherSet
            /\ <<"worker", x>> \in ToSet(StartPlan) => x \in WorkerSet
  /\ StartPlan \in Seq(Steps)
  /\ \A b \in CallbackSet : \A w \in ToSet(Pool(b)) :
        Leads(StartPlan, <<"worker", w>>, <<"subscribe", b>>)
  /\ \A pool \in Pools : \A a \in {<<"fill", pool>>} \cup {<<"publisher", p>> : p \in ToSet(Publishers[pool])} :
        /\ \A b \in CallbackSet : Leads(StartPlan, a, <<"subscribe", b>>)
        /\ \A w \in WorkerSet : Leads(StartPlan, a, <<"worker", w>>)
<1> DEFINE r == StartPool("sender") \o StartPool("result")
           t == StartReceivers
<1>1. /\ r \in Seq(Steps)
      /\ \A x : x \in ToSet(r) <=> \E pool \in Pools : x \in ToSet(StartPool(pool))
  BY StartPoolKeeps, ConcatElements DEF Pools
<1>2. StartPlan = r \o t
  BY DEF StartPlan
<1> HIDE DEF r, t
<1>3. t \in Seq(Steps)
  BY StartReceiversKeeps DEF t
<1>4. StartPlan \in Seq(Steps) /\ \A x : x \in ToSet(StartPlan) <=> x \in ToSet(r) \/ x \in ToSet(t)
  BY <1>1, <1>2, <1>3, ConcatElements
<1>5. \A x : <<"subscribe", x>> \notin ToSet(r) /\ <<"worker", x>> \notin ToSet(r)
  BY <1>1, StartPoolKeeps
<1>6. ASSUME NEW b \in CallbackSet, NEW w \in ToSet(Pool(b))
      PROVE  Leads(StartPlan, <<"worker", w>>, <<"subscribe", b>>)
  <2>1. Before(r, <<"worker", w>>, <<"subscribe", b>>)
    BY <1>1, <1>5, AbsentBefore
  <2>2. Before(t, <<"worker", w>>, <<"subscribe", b>>)
    BY StartReceiversKeeps DEF t
  <2>3. w \in WorkerSet
    BY Owned DEF ClientOf, CallbackSet, Pool
  <2>4. <<"worker", w>> \in ToSet(StartPlan)
    BY <1>4, <2>3, StartReceiversKeeps DEF t
  <2> QED
    BY <1>1, <1>2, <1>3, <1>5, <2>1, <2>2, <2>4, ConcatBefore DEF Leads
<1>7. ASSUME NEW pool \in Pools,
             NEW a \in {<<"fill", pool>>} \cup {<<"publisher", p>> : p \in ToSet(Publishers[pool])},
             NEW op \in {"subscribe", "worker"}, NEW x
      PROVE  Leads(StartPlan, a, <<op, x>>)
  <2>1. a \in ToSet(r)
    BY <1>1, StartPoolKeeps
  <2>2. a \notin ToSet(t)
    BY StartReceiversKeeps DEF t
  <2>3. <<op, x>> \notin ToSet(r)
    BY <1>5
  <2>4. Before(r, a, <<op, x>>) /\ Before(t, a, <<op, x>>)
    BY <1>1, <1>3, <2>2, <2>3, AbsentBefore
  <2> QED
    BY <1>1, <1>2, <1>3, <1>4, <2>1, <2>2, <2>4, ConcatBefore DEF Leads
<1>8. ASSUME NEW x, <<"publisher", x>> \in ToSet(StartPlan) PROVE x \in PublisherSet
  <2>1. <<"publisher", x>> \in ToSet(r)
    BY <1>4, <1>8, StartReceiversKeeps DEF t
  <2>2. PICK pool \in Pools : <<"publisher", x>> \in ToSet(StartPool(pool))
    BY <1>1, <2>1
  <2>3. x \in ToSet(Publishers[pool])
    BY <2>2, StartPoolKeeps
  <2> QED
    BY <2>3, Owned
<1>9. ASSUME NEW x, <<"worker", x>> \in ToSet(StartPlan) PROVE x \in WorkerSet
  BY <1>4, <1>5, <1>9, StartReceiversKeeps DEF t
<1> QED
  BY <1>4, <1>6, <1>7, <1>8, <1>9

LEMMA StopPoolKeeps ==
  ASSUME NEW pool \in Pools
  PROVE  /\ StopPool(pool) \in Seq(Steps)
         /\ \A x : x \in ToSet(StopPool(pool)) <=>
                     \/ x = <<"clear", pool>>
                     \/ \E p \in ToSet(Publishers[pool]) : x \in {<<"close", p>>, <<"join", p>>}
<1> DEFINE s == StopThreads(Publishers[pool])
           t == << <<"clear", pool>> >>
<1>1. <<"clear", pool>> \in Steps
  BY StepTypes DEF StepNames, Things
<1>2. t \in Seq(Steps) /\ \A x : x \in ToSet(t) <=> x = <<"clear", pool>>
  BY <1>1, Single
<1>3. /\ s \in Seq(Steps)
      /\ \A x : x \in ToSet(s) <=> \E p \in ToSet(Publishers[pool]) : x \in {<<"close", p>>, <<"join", p>>}
  BY Owned, StopThreadsKeeps
<1>4. StopPool(pool) = s \o t
  BY DEF StopPool
<1> HIDE DEF s, t
<1>5. s \o t \in Seq(Steps) /\ \A x : x \in ToSet(s \o t) <=> x \in ToSet(s) \/ x \in ToSet(t)
  BY <1>2, <1>3, ConcatElements
<1> QED
  BY <1>2, <1>3, <1>4, <1>5

LEMMA StopPlanKeeps ==
  /\ StopPlan \in Seq(Steps)
  /\ \A c \in ToSet(Clients) : /\ Leads(StopPlan, <<"drain", c>>, <<"drained", c>>)
                               /\ \A w \in ToSet(Workers[c]) : Leads(StopPlan, <<"drained", c>>, <<"close", w>>)
  /\ \A a \in {<<"join", w>> : w \in WorkerSet} \cup {<<"reset", c>> : c \in ToSet(Clients)} :
        /\ \A pool \in Pools : Leads(StopPlan, a, <<"clear", pool>>)
        /\ \A p \in PublisherSet : Leads(StopPlan, a, <<"close", p>>)
  /\ \A t \in WorkerSet \cup PublisherSet : <<"join", t>> \in ToSet(StopPlan)
  /\ \A c \in ToSet(Clients) : <<"reset", c>> \in ToSet(StopPlan)
<1> DEFINE r == StopReceivers
           s == StopPool("result")
           t == StopPool("sender")
<1>1. /\ r \in Seq(Steps) /\ s \in Seq(Steps) /\ t \in Seq(Steps)
      /\ \A x : (x \in ToSet(s) \/ x \in ToSet(t)) <=> \E pool \in Pools : x \in ToSet(StopPool(pool))
  BY StopReceiversKeeps, StopPoolKeeps DEF Pools
<1>2. StopPlan = (r \o s) \o t
  BY DEF StopPlan
<1> HIDE DEF r, s, t
<1>3. r \o s \in Seq(Steps) /\ \A x : x \in ToSet(r \o s) <=> x \in ToSet(r) \/ x \in ToSet(s)
  BY <1>1, ConcatElements
<1>4. /\ StopPlan \in Seq(Steps)
      /\ \A x : x \in ToSet(StopPlan) <=> x \in ToSet(r) \/ x \in ToSet(s) \/ x \in ToSet(t)
  BY <1>1, <1>2, <1>3, ConcatElements
<1>5. ASSUME NEW a, NEW b, a \in ToSet(r), Before(r, a, b), a \notin ToSet(s), a \notin ToSet(t)
      PROVE  Leads(StopPlan, a, b)
  <2>1. Before(r \o s, a, b)
    BY <1>1, <1>5, AbsentBefore, ConcatBefore
  <2>2. Before((r \o s) \o t, a, b)
    BY <1>1, <1>3, <1>5, <2>1, AbsentBefore, ConcatBefore
  <2> QED
    BY <1>2, <1>4, <1>5, <2>2 DEF Leads
<1>6. \A x : /\ <<"drain", x>> \notin ToSet(s) /\ <<"drain", x>> \notin ToSet(t)
             /\ <<"drained", x>> \notin ToSet(s) /\ <<"drained", x>> \notin ToSet(t)
             /\ <<"reset", x>> \notin ToSet(s) /\ <<"reset", x>> \notin ToSet(t)
  <2>1. ASSUME NEW op \in {"drain", "drained", "reset"}, NEW x, NEW pool \in Pools
        PROVE  <<op, x>> \notin ToSet(StopPool(pool))
    BY StopPoolKeeps
  <2>2. ASSUME NEW op \in {"drain", "drained", "reset"}, NEW x
        PROVE  <<op, x>> \notin ToSet(s) /\ <<op, x>> \notin ToSet(t)
    BY <1>1, <2>1
  <2> QED
    BY <2>2
<1>7. \A w \in WorkerSet : <<"join", w>> \notin ToSet(s) /\ <<"join", w>> \notin ToSet(t)
  <2>1. \A pool \in Pools : \A w \in WorkerSet : w \notin ToSet(Publishers[pool])
    BY Owned, ObjectsAssumption
  <2> QED
    BY <1>1, <2>1, StopPoolKeeps
<1>8. ASSUME NEW c \in ToSet(Clients)
      PROVE  /\ Leads(StopPlan, <<"drain", c>>, <<"drained", c>>)
             /\ \A w \in ToSet(Workers[c]) : Leads(StopPlan, <<"drained", c>>, <<"close", w>>)
  BY <1>5, <1>6, StopReceiversKeeps DEF r
<1>9. ASSUME NEW a \in {<<"join", w>> : w \in WorkerSet} \cup {<<"reset", c>> : c \in ToSet(Clients)},
             NEW b \in {<<"clear", pool>> : pool \in Pools} \cup {<<"close", p>> : p \in PublisherSet}
      PROVE  Leads(StopPlan, a, b)
  <2>1. a \in ToSet(r) /\ b \notin ToSet(r)
    BY StopReceiversKeeps DEF r
  <2>2. a \notin ToSet(s) /\ a \notin ToSet(t)
    BY <1>6, <1>7
  <2>3. Before(r, a, b)
    BY <1>1, <2>1, AbsentBefore
  <2> QED
    BY <1>5, <2>1, <2>2, <2>3
<1>10. ASSUME NEW p \in PublisherSet PROVE <<"join", p>> \in ToSet(StopPlan)
  <2>1. PICK pool \in Pools : p \in ToSet(Publishers[pool])
    BY DEF PublisherSet
  <2>2. <<"join", p>> \in ToSet(StopPool(pool))
    BY <2>1, StopPoolKeeps
  <2> QED
    BY <1>1, <1>4, <2>2
<1>11. /\ \A w \in WorkerSet : <<"join", w>> \in ToSet(StopPlan)
       /\ \A c \in ToSet(Clients) : <<"reset", c>> \in ToSet(StopPlan)
  BY <1>4, StopReceiversKeeps DEF r
<1> QED
  BY <1>4, <1>8, <1>9, <1>10, <1>11
-----------------------------------------------------------------------------
(* What has happened when *)

\* What is done first was done when what comes later is done.
LEMMA StartedInOrder ==
  ASSUME start \in Nat, NEW op, NEW x, NEW op2, NEW y, Leads(StartPlan, <<op, x>>, <<op2, y>>), Has(op2, y)
  PROVE  Has(op, x)
BY StartPlanKeeps, PositionsKeepOrder DEF Has, StartAt, Leads

LEMMA StoppedInOrder ==
  ASSUME stop \in Nat, NEW op, NEW x, NEW op2, NEW y, Leads(StopPlan, <<op, x>>, <<op2, y>>), Done(op2, y)
  PROVE  Done(op, x)
BY StopPlanKeeps, PositionsKeepOrder DEF Done, StopAt, Leads

MainTypes == /\ start \in Nat
             /\ stop \in 0..Len(StopPlan)
             /\ stop > 0 => Started \/ failed

\* A callback holds a message only while its client is subscribed, and after
\* the end of drain() only if the client is hasty.
CallbackStage(b) ==
    cb[b].pc # "idle" => /\ Has("subscribe", b)
                         /\ ~Done("reset", ClientOf(b))
                         /\ ClientOf(b) \notin hasty => ~Done("drained", ClientOf(b))

\* A thread works only if it was started, and was joined when it had ended.
WorkerStage(w) == /\ worker[w].pc # "pop" => Has("worker", w)
                  /\ Done("join", w) => worker[w].pc = "exited" \/ ~Has("worker", w)

PublisherStage(p) == /\ publisher[p].pc # "pop" => Has("publisher", p)
                     /\ Done("join", p) => publisher[p].pc = "exited" \/ ~Has("publisher", p)

Answered(m) == /\ HavePublishers => fate[m] \cap {"no pool", "publisher closed"} = {}
               /\ hasty = {} => "worker closed" \notin fate[m]

ShutdownInv == /\ MainTypes
               /\ \A b \in CallbackSet : CallbackStage(b)
               /\ \A w \in WorkerSet : WorkerStage(w)
               /\ \A p \in PublisherSet : PublisherStage(p)
               /\ \A m \in Messages : Answered(m)

\* While a callback or a worker is busy, no publisher is closed and no pool is cleared.
LEMMA PoolsStand ==
  ASSUME Inv, ShutdownInv, NEW pool \in Pools,
         \/ \E b \in CallbackSet : cb[b].pc # "idle"
         \/ \E w \in WorkerSet : worker[w].pc \notin {"pop", "exited"}
  PROVE  Ready(pool) /\ \A p \in ToSet(Publishers[pool]) : Open(p)
<1>1. start \in Nat /\ stop \in Nat
  BY StopPlanKeeps, LenProperties DEF ShutdownInv, MainTypes
<1>2. ASSUME NEW later, NEW x, Has(later, x),
             \A a \in {<<"fill", pool>>} \cup {<<"publisher", p>> : p \in ToSet(Publishers[pool])} :
                Leads(StartPlan, a, <<later, x>>),
             NEW earlier, NEW y, ~Done(earlier, y),
             Leads(StopPlan, <<earlier, y>>, <<"clear", pool>>),
             \A p \in PublisherSet : Leads(StopPlan, <<earlier, y>>, <<"close", p>>)
      PROVE  Ready(pool) /\ \A p \in ToSet(Publishers[pool]) : Open(p)
  <2>1. Has("fill", pool) /\ ~Done("clear", pool)
    BY <1>1, <1>2, StartedInOrder, StoppedInOrder
  <2>2. ASSUME NEW p \in ToSet(Publishers[pool]) PROVE Has("publisher", p) /\ ~Done("close", p)
    <3>1. p \in PublisherSet
      BY Owned
    <3> QED
      BY <1>1, <1>2, <3>1, StartedInOrder, StoppedInOrder
  <2> QED
    BY <2>1, <2>2 DEF Ready, Open, Runs
<1>3. CASE \E b \in CallbackSet : cb[b].pc # "idle"
  <2>1. PICK b \in CallbackSet : cb[b].pc # "idle"
    BY <1>3
  <2>2. Has("subscribe", b) /\ ~Done("reset", ClientOf(b)) /\ ClientOf(b) \in ToSet(Clients)
    BY <2>1 DEF ShutdownInv, CallbackStage, ClientOf, CallbackSet
  <2>3. /\ Leads(StopPlan, <<"reset", ClientOf(b)>>, <<"clear", pool>>)
        /\ \A p \in PublisherSet : Leads(StopPlan, <<"reset", ClientOf(b)>>, <<"close", p>>)
    BY <2>2, StopPlanKeeps
  <2>4. \A a \in {<<"fill", pool>>} \cup {<<"publisher", p>> : p \in ToSet(Publishers[pool])} :
           Leads(StartPlan, a, <<"subscribe", b>>)
    BY StartPlanKeeps
  <2> QED
    BY <1>2, <2>2, <2>3, <2>4
<1>4. CASE \E w \in WorkerSet : worker[w].pc \notin {"pop", "exited"}
  <2>1. PICK w \in WorkerSet : worker[w].pc \notin {"pop", "exited"}
    BY <1>4
  <2>2. Has("worker", w) /\ ~Done("join", w)
    BY <2>1 DEF ShutdownInv, WorkerStage
  <2>3. /\ Leads(StopPlan, <<"join", w>>, <<"clear", pool>>)
        /\ \A p \in PublisherSet : Leads(StopPlan, <<"join", w>>, <<"close", p>>)
    BY StopPlanKeeps
  <2>4. \A a \in {<<"fill", pool>>} \cup {<<"publisher", p>> : p \in ToSet(Publishers[pool])} :
           Leads(StartPlan, a, <<"worker", w>>)
    BY StartPlanKeeps
  <2> QED
    BY <1>2, <2>2, <2>3, <2>4
<1> QED
  BY <1>3, <1>4

\* Only a callback whose client is hasty meets a closed worker.
LEMMA WorkersStand ==
  ASSUME Inv, ShutdownInv, NEW b \in CallbackSet, cb[b].pc = "try", ~Open(Chosen(b))
  PROVE  hasty # {}
<1>1. start \in Nat /\ stop \in Nat
  BY StopPlanKeeps, LenProperties DEF ShutdownInv, MainTypes
<1> DEFINE c == ClientOf(b)
           w == Chosen(b)
<1>2. c \in ToSet(Clients) /\ b \in ToSet(Callbacks[c])
  BY DEF ClientOf, CallbackSet
<1>3. w \in ToSet(Pool(b)) /\ w \in ToSet(Workers[c])
  BY PoolIsOfWorkers, LenProperties DEF Inv, FrontInv, FrontTypes, Chosen, Pool, ToSet
<1>4. Has("worker", w)
  BY <1>1, <1>3, StartedInOrder, StartPlanKeeps DEF ShutdownInv, CallbackStage
<1>5. Done("close", w)
  BY <1>4 DEF Open, Runs
<1>6. Done("drained", c)
  BY <1>1, <1>2, <1>3, <1>5, StoppedInOrder, StopPlanKeeps
<1> QED
  BY <1>6 DEF ShutdownInv, CallbackStage
-----------------------------------------------------------------------------
(* The steps of the shutdown *)

LEMMA MainFrame ==
  ASSUME UNCHANGED <<start, stop>>
  PROVE  \A op, x : (Has(op, x)' <=> Has(op, x)) /\ (Done(op, x)' <=> Done(op, x))
BY DEF Has, Done, StartAt, StopAt

\* A step of another thread than main that tells the outcome how of a message.
LEMMA OutcomeKeepsAnswered ==
  ASSUME Inv, ShutdownInv, UNCHANGED hasty,
         \/ UNCHANGED fate
         \/ \E m \in Messages, how \in Fates :
               /\ Ends(m, how)
               /\ how = "worker closed" => hasty # {}
               /\ how \in {"no pool", "publisher closed"} => ~HavePublishers
  PROVE  \A m \in Messages : Answered(m)'
<1>1. CASE UNCHANGED fate
  BY <1>1 DEF ShutdownInv, Answered
<1>2. ASSUME NEW n \in Messages, NEW how \in Fates, Ends(n, how),
             how = "worker closed" => hasty # {},
             how \in {"no pool", "publisher closed"} => ~HavePublishers, NEW m \in Messages
      PROVE  Answered(m)'
  <2>1. fate'[m] = IF m = n THEN fate[m] \cup {how} ELSE fate[m]
    BY <1>2 DEF Ends, Inv, StageInv, OutcomeTypes
  <2>2. Answered(m) /\ UNCHANGED hasty
    BY DEF ShutdownInv
  <2> QED
    BY <1>2, <2>1, <2>2 DEF Answered
<1> QED
  BY <1>1, <1>2

LEMMA PublishKeepsAnswered ==
  ASSUME Inv, ShutdownInv, UNCHANGED hasty, NEW n \in Messages, NEW pool \in Pools, Publish(n, pool),
         \/ \E b \in CallbackSet : cb[b].pc # "idle"
         \/ \E w \in WorkerSet : worker[w].pc \notin {"pop", "exited"}
  PROVE  \A m \in Messages : Answered(m)'
<1>1. Ready(pool) /\ \A p \in ToSet(Publishers[pool]) : Open(p)
  BY PoolsStand
<1>2. \/ Ends(n, "publisher full") \/ UNCHANGED fate
      \/ Ends(n, "no pool") /\ ~HavePublishers
  BY <1>1 DEF Publish, HavePublishers
<1>3. /\ {"publisher full", "no pool"} \subseteq Fates
      /\ "publisher full" \notin {"no pool", "publisher closed", "worker closed"} /\ "no pool" # "worker closed"
  BY DEF Fates
<1> QED
  BY <1>2, <1>3, OutcomeKeepsAnswered

LEMMA CallbackStagesKept ==
  ASSUME Inv, ShutdownInv, UNCHANGED <<start, stop, hasty>>, NEW b \in CallbackSet,
         cb[b].pc # "idle", \A d \in CallbackSet \ {b} : cb'[d] = cb[d]
  PROVE  \A d \in CallbackSet : CallbackStage(d)'
<1>1. ASSUME NEW d \in CallbackSet PROVE CallbackStage(d)'
  <2>1. CallbackStage(d) /\ CallbackStage(b)
    BY DEF ShutdownInv
  <2>2. cb'[d].pc # "idle" => cb[d].pc # "idle"
    OBVIOUS
  <2> QED
    BY <2>1, <2>2, MainFrame DEF CallbackStage, ClientOf
<1> QED
  BY <1>1

LEMMA ThreadStagesKept ==
  ASSUME ShutdownInv, UNCHANGED <<start, stop, worker>>
  PROVE  \A w \in WorkerSet : WorkerStage(w)'
BY MainFrame DEF ShutdownInv, WorkerStage

LEMMA PublisherStagesKept ==
  ASSUME ShutdownInv, UNCHANGED <<start, stop, publisher>>
  PROVE  \A p \in PublisherSet : PublisherStage(p)'
BY MainFrame DEF ShutdownInv, PublisherStage

LEMMA MainTypesKept ==
  ASSUME ShutdownInv, UNCHANGED <<start, failed, stop>>
  PROVE  MainTypes'
BY DEF ShutdownInv, MainTypes, Started

LEMMA DeliveryKeepsShutdown ==
  ASSUME Inv, ShutdownInv, NEW b \in CallbackSet, Deliver(b) \/ CallbackProgress(b)
  PROVE  ShutdownInv'
<1>1. UNCHANGED <<start, failed, stop, hasty, worker, publisher>>
  BY DEF Deliver, CallbackProgress, NoWorker, Pick, Examine, TryPush, Store, QueueFull, Publish,
         mainVars, workVars, sendVars
<1>2. \A d \in CallbackSet \ {b} : cb'[d] = cb[d]
  BY DEF Deliver, CallbackProgress, NoWorker, Pick, Examine, TryPush, Store, QueueFull, Finish, Goto,
         Inv, FrontInv, FrontTypes
<1>3. \A d \in CallbackSet : CallbackStage(d)'
  <2>1. CASE Deliver(b)
    <3>1. Subscribed(b) /\ (Done("drain", ClientOf(b)) => ClientOf(b) \in hasty)
      BY <2>1 DEF Deliver
    <3>2. ClientOf(b) \in ToSet(Clients) /\ stop \in Nat
      BY StopPlanKeeps, LenProperties DEF ClientOf, CallbackSet, ShutdownInv, MainTypes
    <3>3. Done("drained", ClientOf(b)) => Done("drain", ClientOf(b))
      BY <3>2, StoppedInOrder, StopPlanKeeps
    <3>4. CallbackStage(b)'
      BY <1>1, <3>1, <3>3, MainFrame DEF CallbackStage, Subscribed, ClientOf
    <3>5. ASSUME NEW d \in CallbackSet \ {b} PROVE CallbackStage(d)'
      BY <1>1, <1>2, MainFrame DEF ShutdownInv, CallbackStage, ClientOf
    <3> QED
      BY <3>4, <3>5
  <2>2. CASE CallbackProgress(b)
    <3>1. cb[b].pc # "idle"
      BY <2>2 DEF CallbackProgress, NoWorker, Pick, Examine, TryPush, Store, QueueFull
    <3> QED
      BY <1>1, <1>2, <3>1, CallbackStagesKept
  <2> QED
    BY <2>1, <2>2
<1>4. \A m \in Messages : Answered(m)'
  <2>1. CASE Deliver(b) \/ Pick(b) \/ Store(b)
    BY <1>1, <2>1, OutcomeKeepsAnswered DEF Deliver, Pick, Store, outcomeVars
  <2>2. ASSUME ~(Deliver(b) \/ Pick(b) \/ Store(b)) PROVE cb[b].pc # "idle" /\ cb[b].msg \in Messages
    <3>1. cb[b].pc # "idle"
      BY <2>2 DEF CallbackProgress, NoWorker, Examine, TryPush, QueueFull
    <3> QED
      BY <3>1 DEF Inv, FrontInv, FrontTypes, Callback
  <2>3. CASE Examine(b)
    <3>1. cb[b].pc # "idle" /\ cb[b].msg \in Messages
      BY <2>3 DEF Examine, Inv, FrontInv, FrontTypes, Callback
    <3>2. "unparsable" \in Fates /\ "unparsable" \notin {"no pool", "publisher closed", "worker closed"}
      BY DEF Fates
    <3>3. CASE Publish(cb[b].msg, "result")
      BY <1>1, <3>1, <3>3, PublishKeepsAnswered DEF Pools
    <3> QED
      BY <1>1, <2>3, <3>1, <3>2, <3>3, OutcomeKeepsAnswered DEF Examine, outcomeVars
  <2>4. CASE TryPush(b)
    <3>1. CASE ~Open(Chosen(b)) /\ Ends(cb[b].msg, "worker closed")
      <4>1. cb[b].pc # "idle" /\ cb[b].msg \in Messages
        BY <2>4 DEF TryPush, Inv, FrontInv, FrontTypes, Callback
      <4> QED
        BY <1>1, <2>4, <3>1, <4>1, OutcomeKeepsAnswered, WorkersStand DEF Fates, TryPush
    <3> QED
      BY <1>1, <2>4, <3>1, OutcomeKeepsAnswered DEF TryPush, outcomeVars
  <2>5. CASE QueueFull(b)
    BY <1>1, <2>1, <2>2, <2>5, OutcomeKeepsAnswered, PublishKeepsAnswered
       DEF QueueFull, Pools, outcomeVars
  <2>6. CASE NoWorker(b)
    <3>1. Ends(cb[b].msg, "no worker") /\ cb[b].msg \in Messages
      BY <2>2, <2>6 DEF NoWorker, Inv, FrontInv, FrontTypes, Callback
    <3>2. "no worker" \in Fates /\ "no worker" \notin {"no pool", "publisher closed", "worker closed"}
      BY DEF Fates
    <3> QED
      BY <1>1, <3>1, <3>2, OutcomeKeepsAnswered
  <2> QED
    BY <2>1, <2>3, <2>4, <2>5, <2>6 DEF CallbackProgress
<1> QED
  BY <1>1, <1>3, <1>4, ThreadStagesKept, PublisherStagesKept, MainTypesKept DEF ShutdownInv

LEMMA WorkerKeepsShutdown ==
  ASSUME Inv, ShutdownInv, NEW w \in WorkerSet, WorkerProgress(w)
  PROVE  ShutdownInv'
<1>1. UNCHANGED <<start, failed, stop, hasty, cb, publisher>>
  BY DEF WorkerProgress, WorkerPop, WorkerMiss, WorkerLook, HandleFilter, Answer, Publish,
         mainVars, callVars, sendVars
<1>2. \A v \in WorkerSet \ {w} : worker'[v] = worker[v]
  BY DEF WorkerProgress, WorkerPop, WorkerMiss, WorkerLook, HandleFilter, Answer, WorkerGoto,
         Inv, FrontInv, FrontTypes
<1>3. worker[w].pc # "exited" /\ (worker[w].pc = "pop" => Runs(w))
  BY DEF WorkerProgress, WorkerPop, WorkerMiss, WorkerLook, HandleFilter, Answer, WorkerGoto
<1>4. Has("worker", w)
  <2>1. ~Has("publisher", w)
    <3>1. w \notin PublisherSet
      BY ObjectsAssumption
    <3> QED
      BY <3>1, StartPlanKeeps, PositionsKeepOrder DEF Has, StartAt
  <2> QED
    BY <1>3, <2>1 DEF ShutdownInv, WorkerStage, Runs
<1>5. WorkerStage(w)'
  <2>1. ~Done("join", w)
    BY <1>3, <1>4 DEF ShutdownInv, WorkerStage
  <2> QED
    BY <1>1, <1>4, <2>1, MainFrame DEF WorkerStage
<1>6. \A v \in WorkerSet \ {w} : WorkerStage(v)'
  BY <1>1, <1>2, MainFrame DEF ShutdownInv, WorkerStage
<1>7. \A m \in Messages : Answered(m)'
  <2>1. ASSUME NEW from \in WorkerPlaces \ {"pop", "missed", "exited"}, NEW pool \in Pools, Answer(w, from, pool)
        PROVE  \A m \in Messages : Answered(m)'
    <3>1. worker[w].pc \notin {"pop", "exited"} /\ worker[w].msg \in Messages
      BY <2>1 DEF Answer, Inv, FrontInv, FrontTypes, Worker
    <3> QED
      BY <1>1, <2>1, <3>1, PublishKeepsAnswered DEF Answer
  <2>2. CASE UNCHANGED fate
    BY <1>1, <2>2, OutcomeKeepsAnswered
  <2> QED
    BY <2>1, <2>2 DEF WorkerProgress, WorkerPop, WorkerMiss, WorkerLook, HandleFilter, outcomeVars, WorkerPlaces, Pools
<1>8. \A b \in CallbackSet : CallbackStage(b)'
  BY <1>1, MainFrame DEF ShutdownInv, CallbackStage, ClientOf
<1> QED
  BY <1>1, <1>5, <1>6, <1>7, <1>8, PublisherStagesKept, MainTypesKept DEF ShutdownInv
LEMMA PublisherKeepsShutdown ==
  ASSUME Inv, ShutdownInv, NEW p \in PublisherSet, PublisherProgress(p)
  PROVE  ShutdownInv'
<1>1. UNCHANGED <<start, failed, stop, hasty, cb, worker>>
  BY DEF PublisherProgress, PublisherPop, PublisherMiss, PublisherLook, PublisherSend,
         mainVars, callVars, workVars
<1>2. \A r \in PublisherSet \ {p} : publisher'[r] = publisher[r]
  BY DEF PublisherProgress, PublisherPop, PublisherMiss, PublisherLook, PublisherSend, PublisherGoto,
         Inv, BackInv, BackTypes
<1>3. publisher[p].pc # "exited" /\ (publisher[p].pc = "pop" => Runs(p))
  BY DEF PublisherProgress, PublisherPop, PublisherMiss, PublisherLook, PublisherSend, PublisherGoto
<1>4. Has("publisher", p)
  <2>1. p \notin WorkerSet
    BY ObjectsAssumption
  <2>2. ~Has("worker", p)
    BY <2>1, StartPlanKeeps, PositionsKeepOrder DEF Has, StartAt
  <2> QED
    BY <1>3, <2>2 DEF ShutdownInv, PublisherStage, Runs
<1>5. PublisherStage(p)'
  <2>1. ~Done("join", p)
    BY <1>3, <1>4 DEF ShutdownInv, PublisherStage
  <2> QED
    BY <1>1, <1>4, <2>1, MainFrame DEF PublisherStage
<1>6. \A r \in PublisherSet \ {p} : PublisherStage(r)'
  BY <1>1, <1>2, MainFrame DEF ShutdownInv, PublisherStage
<1>7. \A m \in Messages : Answered(m)'
  <2>1. CASE UNCHANGED fate
    BY <1>1, <2>1, OutcomeKeepsAnswered
  <2>2. CASE PublisherSend(p)
    <3>1. publisher[p].msg \in Messages
      BY <2>2 DEF PublisherSend, Inv, BackInv, BackTypes, Publisher
    <3>2. PICK how \in {PoolOf(p), "send failed"} : Ends(publisher[p].msg, how)
      BY <2>2 DEF PublisherSend
    <3>3. PoolOf(p) \in Pools
      BY DEF PoolOf, PublisherSet
    <3>4. how \in Fates /\ how \notin {"no pool", "publisher closed", "worker closed"}
      BY <3>3 DEF Fates, Pools
    <3> QED
      BY <1>1, <3>1, <3>2, <3>4, OutcomeKeepsAnswered
  <2> QED
    BY <2>1, <2>2 DEF PublisherProgress, PublisherPop, PublisherMiss, PublisherLook, outcomeVars
<1>8. \A b \in CallbackSet : CallbackStage(b)'
  BY <1>1, MainFrame DEF ShutdownInv, CallbackStage, ClientOf
<1> QED
  BY <1>1, <1>5, <1>6, <1>7, <1>8, ThreadStagesKept, MainTypesKept DEF ShutdownInv

LEMMA StartKeepsShutdown ==
  ASSUME Inv, ShutdownInv, StartStep
  PROVE  ShutdownInv'
<1>1. /\ start' \in {start, start + 1} /\ UNCHANGED <<stop, hasty, cb, worker, publisher, fate>>
      /\ ~Started /\ ~failed
  BY DEF StartStep, callVars, workVars, sendVars, outcomeVars
<1>2. start \in Nat /\ stop = 0 /\ stop' = 0 /\ start' >= start /\ start' \in Nat
  BY <1>1 DEF ShutdownInv, MainTypes
<1>3. \A op, x : Has(op, x) => Has(op, x)'
  BY <1>2, StartPlanKeeps, PositionsKeepOrder DEF Has, StartAt
<1>4. \A op, x : ~Done(op, x) /\ ~Done(op, x)'
  BY <1>2, StopPlanKeeps, PositionsKeepOrder DEF Done, StopAt
<1>5. MainTypes'
  BY <1>2 DEF ShutdownInv, MainTypes
<1>6. ASSUME NEW b \in CallbackSet PROVE CallbackStage(b)'
  BY <1>1, <1>3, <1>4 DEF ShutdownInv, CallbackStage, ClientOf
<1>7. ASSUME NEW w \in WorkerSet PROVE WorkerStage(w)'
  BY <1>1, <1>3, <1>4 DEF ShutdownInv, WorkerStage
<1>8. ASSUME NEW p \in PublisherSet PROVE PublisherStage(p)'
  BY <1>1, <1>3, <1>4 DEF ShutdownInv, PublisherStage
<1>9. \A m \in Messages : Answered(m)'
  BY <1>1, OutcomeKeepsAnswered
<1> QED
  BY <1>5, <1>6, <1>7, <1>8, <1>9 DEF ShutdownInv

\* The step that main takes is the only one that is done now and was not before.
LEMMA OneStepDone ==
  ASSUME stop \in 0..Len(StopPlan), stop # Len(StopPlan), stop' = stop + 1,
         NEW op, NEW x, Done(op, x)', ~Done(op, x)
  PROVE  StopPlan[stop + 1] = <<op, x>>
<1>1. <<op, x>> \in ToSet(StopPlan) /\ StopAt[<<op, x>>] \in 1..Len(StopPlan)
      /\ StopPlan[StopAt[<<op, x>>]] = <<op, x>>
  BY StopPlanKeeps, PositionsKeepOrder DEF Done, StopAt
<1>2. Len(StopPlan) \in Nat
  BY StopPlanKeeps, LenProperties
<1>3. StopAt[<<op, x>>] = stop + 1
  BY <1>1, <1>2, StopPlanKeeps, PositionsKeepOrder DEF Done, StopAt
<1> QED
  BY <1>1, <1>3

LEMMA StopKeepsShutdown ==
  ASSUME Inv, ShutdownInv, StopStep
  PROVE  ShutdownInv'
<1> DEFINE o == StopPlan[stop + 1][1]
           x == StopPlan[stop + 1][2]
<1>1. /\ Started \/ failed
      /\ stop # Len(StopPlan)
      /\ UNCHANGED <<start, failed, cb, worker, publisher, fate>>
      /\ \/ UNCHANGED <<stop, hasty>>
         \/ /\ stop' = stop + 1
            /\ o = "join" => Exited(x) \/ ~Runs(x)
            /\ o = "reset" \/ (o = "drained" /\ x \notin hasty) => Quiet(x)
            /\ hasty \subseteq hasty'
            /\ o # "drain" => UNCHANGED hasty
  BY DEF StopStep, Stopped, callVars, workVars, sendVars, outcomeVars
<1> HIDE DEF o, x
<1>2. stop \in 0..Len(StopPlan) /\ Len(StopPlan) \in Nat /\ start \in Nat
  BY StopPlanKeeps, LenProperties DEF ShutdownInv, MainTypes
<1>3. MainTypes'
  BY <1>1, <1>2 DEF ShutdownInv, MainTypes, Started
<1>4. \A op, y : Has(op, y)' <=> Has(op, y)
  BY <1>1 DEF Has, StartAt
<1>5. ASSUME NEW op, NEW y, Done(op, y)', ~Done(op, y)
      PROVE  o = op /\ x = y /\ stop' = stop + 1
  <2>1. stop' = stop + 1
    BY <1>1, <1>5 DEF Done, StopAt
  <2> QED
    BY <1>1, <1>2, <1>5, <2>1, OneStepDone DEF o, x
<1>6. ASSUME NEW b \in CallbackSet PROVE CallbackStage(b)'
  <2>1. CallbackStage(b) /\ UNCHANGED cb
    BY <1>1 DEF ShutdownInv
  <2>2. b \in ToSet(Callbacks[ClientOf(b)])
    BY DEF ClientOf, CallbackSet
  <2>3. ASSUME cb[b].pc # "idle", Done("reset", ClientOf(b))' PROVE FALSE
    <3>1. ~Done("reset", ClientOf(b))
      BY <2>1, <2>3 DEF CallbackStage
    <3>2. o = "reset" /\ x = ClientOf(b) /\ stop' = stop + 1
      BY <1>5, <2>3, <3>1
    <3> QED
      BY <1>1, <1>2, <2>2, <2>3, <3>2 DEF Quiet
  <2>4. ASSUME cb[b].pc # "idle", ClientOf(b) \notin hasty', Done("drained", ClientOf(b))' PROVE FALSE
    <3>1. ClientOf(b) \notin hasty /\ ~Done("drained", ClientOf(b))
      BY <1>1, <2>1, <2>4 DEF CallbackStage
    <3>2. o = "drained" /\ x = ClientOf(b) /\ stop' = stop + 1
      BY <1>5, <2>4, <3>1
    <3> QED
      BY <1>1, <1>2, <2>2, <2>4, <3>1, <3>2 DEF Quiet
  <2> QED
    BY <1>4, <2>1, <2>3, <2>4 DEF CallbackStage, ClientOf
<1>7. ASSUME NEW w \in WorkerSet PROVE WorkerStage(w)'
  <2>1. WorkerStage(w) /\ UNCHANGED worker /\ w \notin PublisherSet
    BY <1>1, ObjectsAssumption DEF ShutdownInv
  <2>2. ASSUME Done("join", w)' PROVE worker[w].pc = "exited" \/ ~Has("worker", w)
    <3>1. CASE Done("join", w)
      BY <2>1, <3>1 DEF WorkerStage
    <3>2. CASE ~Done("join", w)
      BY <1>1, <1>2, <1>5, <2>1, <2>2, <3>2 DEF Exited, Runs
    <3> QED
      BY <3>1, <3>2
  <2> QED
    BY <1>4, <2>1, <2>2 DEF WorkerStage
<1>8. ASSUME NEW p \in PublisherSet PROVE PublisherStage(p)'
  <2>1. PublisherStage(p) /\ UNCHANGED publisher /\ p \notin WorkerSet
    BY <1>1, ObjectsAssumption DEF ShutdownInv
  <2>2. ASSUME Done("join", p)' PROVE publisher[p].pc = "exited" \/ ~Has("publisher", p)
    <3>1. CASE Done("join", p)
      BY <2>1, <3>1 DEF PublisherStage
    <3>2. CASE ~Done("join", p)
      BY <1>1, <1>2, <1>5, <2>1, <2>2, <3>2 DEF Exited, Runs
    <3> QED
      BY <3>1, <3>2
  <2> QED
    BY <1>4, <2>1, <2>2 DEF PublisherStage
<1>9. ASSUME NEW m \in Messages PROVE Answered(m)'
  BY <1>1 DEF ShutdownInv, Answered
<1> QED
  BY <1>3, <1>6, <1>7, <1>8, <1>9 DEF ShutdownInv

LEMMA ShutdownInvInit == Init => ShutdownInv
<1> SUFFICES ASSUME Init PROVE ShutdownInv
  OBVIOUS
<1>1. MainTypes
  BY StopPlanKeeps, LenProperties DEF Init, MainTypes
<1>2. \A op, x : ~Done(op, x)
  BY StopPlanKeeps, PositionsKeepOrder DEF Init, Done, StopAt
<1> QED
  BY <1>1, <1>2 DEF Init, ShutdownInv, CallbackStage, WorkerStage, PublisherStage, Answered,
                    IdleCallback, IdleThread

LEMMA ShutdownInvNext == Inv /\ ShutdownInv /\ [Next]_vars => ShutdownInv'
<1> SUFFICES ASSUME Inv, ShutdownInv, [Next]_vars PROVE ShutdownInv'
  OBVIOUS
<1>1. CASE Terminated \/ UNCHANGED vars
  <2>1. UNCHANGED <<start, failed, stop, hasty, cb, worker, publisher, fate>>
    BY <1>1 DEF Terminated, vars, callVars, workVars, sendVars, outcomeVars, mainVars
  <2>2. \A b \in CallbackSet : CallbackStage(b)'
    BY <2>1, MainFrame DEF ShutdownInv, CallbackStage, ClientOf
  <2> QED
    BY <2>1, <2>2, MainTypesKept, ThreadStagesKept, PublisherStagesKept, OutcomeKeepsAnswered
       DEF ShutdownInv
<1> QED
  BY <1>1, DeliveryKeepsShutdown, WorkerKeepsShutdown, PublisherKeepsShutdown,
     StartKeepsShutdown, StopKeepsShutdown DEF Next

THEOREM ShutdownInvCorrect == SafeSpec => []ShutdownInv
BY InvCorrect, ShutdownInvInit, ShutdownInvNext, PTL DEF SafeSpec

(***************************************************************************)
(* If every pool is configured with at least one publisher, nobody         *)
(* publishes through a pool that was not filled or was cleared.            *)
(***************************************************************************)
THEOREM PoolsOutliveWorkersCorrect ==
  ASSUME HavePublishers
  PROVE  SafeSpec => []PoolsOutliveWorkers
<1>1. ShutdownInv => PoolsOutliveWorkers
  BY HavePublishers DEF ShutdownInv, Answered, PoolsOutliveWorkers
<1> QED
  BY <1>1, ShutdownInvCorrect, PTL

(***************************************************************************)
(* The shutdown turns no message away, and leaves none with a thread.      *)
(***************************************************************************)
THEOREM ShutdownTurnsNothingAwayCorrect == SafeSpec => []ShutdownTurnsNothingAway
<1>1. Inv /\ ShutdownInv => ShutdownTurnsNothingAway
  <2> SUFFICES ASSUME Inv, ShutdownInv PROVE ShutdownTurnsNothingAway
    OBVIOUS
  <2>1. hasty = {} => \A m \in Messages : "worker closed" \notin fate[m]
    BY DEF ShutdownInv, Answered
  <2>2. ASSUME Stopped, NEW op, NEW x, <<op, x>> \in ToSet(StopPlan) PROVE Done(op, x)
    BY <2>2, StopPlanKeeps, PositionsKeepOrder DEF Done, StopAt, Stopped
  <2>3. ASSUME Stopped, NEW b \in CallbackSet PROVE cb[b].msg = NoMsg
    <3>1. ClientOf(b) \in ToSet(Clients)
      BY DEF ClientOf, CallbackSet
    <3>2. cb[b].pc = "idle"
      BY <2>2, <2>3, <3>1, StopPlanKeeps DEF ShutdownInv, CallbackStage
    <3> QED
      BY <3>2 DEF Inv, FrontInv, FrontTypes
  <2>4. ASSUME Stopped, NEW w \in WorkerSet PROVE worker[w].msg = NoMsg
    <3>1. worker[w].pc \in {"pop", "exited"}
      BY <2>2, <2>4, StopPlanKeeps DEF ShutdownInv, WorkerStage
    <3> QED
      BY <3>1 DEF Inv, FrontInv, FrontTypes
  <2>5. ASSUME Stopped, NEW p \in PublisherSet PROVE publisher[p].msg = NoMsg
    <3>1. publisher[p].pc \in {"pop", "exited"}
      BY <2>2, <2>5, StopPlanKeeps DEF ShutdownInv, PublisherStage
    <3> QED
      BY <3>1 DEF Inv, BackInv, BackTypes
  <2> QED
    BY <2>1, <2>3, <2>4, <2>5 DEF ShutdownTurnsNothingAway
<1> QED
  BY <1>1, InvCorrect, ShutdownInvCorrect, PTL
=============================================================================
