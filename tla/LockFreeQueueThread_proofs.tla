--------------------- MODULE LockFreeQueueThread_proofs ---------------------
(***************************************************************************)
(* Theorems about LockFreeQueueThread for one controller, as the classes   *)
(* of the repository have it, any set of producers and any capacity,       *)
(* whether or not creating the thread may fail; and, below, about the      *)
(* records that StreamLogger passes through it, for any number of them.    *)
(***************************************************************************)
EXTENDS StreamLogger, FiniteSetTheorems, SequenceTheorems, TLAPS

\* Workers, publishers and the logger are each started and stopped by one thread.
OneController == \E c \in Controllers : Controllers = {c}

Types == /\ open \in BOOLEAN
         /\ call \in [Controllers -> CallStates]
         /\ ctl \in [Controllers -> T!CtlStates]

NoThread == ~started /\ ~running /\ exec = "none" /\ pop = "ended"

\* The thread is there and will pop as long as the queue is open.
Popping == started /\ running /\ exec = "running" /\ pop # "ended"
Created == started /\ ~running /\ exec = "created" /\ pop = "ended"

\* The queue is closed, and the thread may be at any place of its end.
Leaving == /\ started
           /\ \/ running /\ exec = "running"
              \/ running /\ exec = "returned" /\ pop = "ended"
              \/ ~running /\ exec = "exited" /\ pop = "ended"

(***************************************************************************)
(* Where the controller is tells the state of queue and thread: nobody     *)
(* else opens or closes the one or starts the other.                       *)
(***************************************************************************)
Stopped(c) == call[c] = "none" /\ ctl[c] = "idle" /\ ~open /\ NoThread
Serving(c) == call[c] = "none" /\ ctl[c] = "idle" /\ open /\ (Popping \/ NoThread)
Opening(c) == call[c] = "open" /\ ctl[c] = "idle" /\ ~open /\ NoThread
Starting(c) == /\ call[c] = "start"
               /\ open
               /\ \/ ctl[c] = "start" /\ NoThread
                  \/ ctl[c] \in T!StartWaits /\ (Created \/ Popping)
Closing(c) == call[c] = "close" /\ ctl[c] = "idle" /\ open /\ (Popping \/ NoThread)
Joining(c) == /\ call[c] = "join"
              /\ ~open
              /\ \/ ctl[c] = "join" /\ (Leaving \/ NoThread)
                 \/ ctl[c] \in T!JoinWaits /\ Leaving
                 \/ ctl[c] = "reaping" /\ Leaving

Phases(c) == \/ Stopped(c) \/ Serving(c) \/ Opening(c)
             \/ Starting(c) \/ Closing(c) \/ Joining(c)
Inv == Types /\ \A c \in Controllers : Phases(c)

(***************************************************************************)
(* Nothing is open and no thread there when the object is made.            *)
(***************************************************************************)
LEMMA InitInv == Init => Inv
<1> SUFFICES ASSUME Init PROVE Inv
  OBVIOUS
<1>1. Types
  BY DEF Init, Q!Init, T!Init, Types, CallStates, T!CtlStates
<1>2. ASSUME NEW c \in Controllers PROVE Stopped(c)
  BY DEF Init, Q!Init, T!Init, Stopped, NoThread
<1> QED
  BY <1>1, <1>2 DEF Inv, Phases

(***************************************************************************)
(* The phases a controller goes through inside start().                    *)
(***************************************************************************)
LEMMA StartKeepsInv ==
  ASSUME Inv, NEW c \in Controllers, Controllers = {c},
         \/ StartAlreadyOpen(c) \/ StartSeesClosed(c) \/ StartOpens(c)
         \/ StartCreates(c) \/ StartFails(c) \/ StartWaits(c)
  PROVE  Inv'
<1> SUFFICES Types' /\ Phases(c)'
  BY DEF Inv
<1> USE DEF Inv, Types, Goto, queueVars, threadVars, callVars
<1>1. CASE StartAlreadyOpen(c)
  BY <1>1 DEF StartAlreadyOpen, Phases, Stopped, Serving, Opening, Starting, Closing, Joining,
              NoThread, Popping, Created, Leaving
<1>2. CASE StartSeesClosed(c)
  <2>1. Stopped(c)
    BY <1>2 DEF StartSeesClosed, Phases, Stopped, Serving, Opening, Starting, Closing, Joining
  <2>2. Opening(c)' /\ Types'
    BY <1>2, <2>1 DEF StartSeesClosed, Stopped, Opening, NoThread, CallStates
  <2> QED BY <2>2 DEF Phases
<1>3. CASE StartOpens(c)
  <2>1. Opening(c)
    BY <1>3 DEF StartOpens, Phases, Stopped, Serving, Opening, Starting, Closing, Joining
  <2>2. open' = TRUE /\ UNCHANGED <<pop, started, running, exec>>
    BY <1>3, <2>1 DEF StartOpens, Opening, Q!Open
  <2>3. Starting(c)' /\ Types'
    BY <1>3, <2>1, <2>2 DEF StartOpens, Opening, Starting, NoThread, CallStates,
       T!CtlStep, T!CtlStates
  <2> QED BY <2>3 DEF Phases
<1>4. CASE StartCreates(c)
  <2>1. Starting(c) /\ NoThread
    BY <1>4 DEF StartCreates, T!StartCreate, T!CtlStep, Phases, Stopped, Serving, Opening,
       Starting, Closing, Joining, T!StartWaits, T!JoinWaits
  <2>2. Created'
    BY <1>4, <2>1 DEF StartCreates, T!StartCreate, T!sigVars, NoThread, Created
  <2>3. Starting(c)' /\ Types'
    BY <1>4, <2>1, <2>2 DEF StartCreates, T!StartCreate, T!CtlStep, Starting, T!StartWaits, T!CtlStates
  <2> QED BY <2>3 DEF Phases
<1>5. CASE StartFails(c)
  <2>1. Starting(c) /\ NoThread
    BY <1>5 DEF StartFails, T!StartFails, T!CtlStep, Phases, Stopped, Serving, Opening,
       Starting, Closing, Joining, T!StartWaits, T!JoinWaits
  <2>2. Serving(c)' /\ Types'
    BY <1>5, <2>1 DEF StartFails, T!StartFails, T!CtlStep, T!sigVars, Starting, Serving, NoThread,
       CallStates, T!CtlStates
  <2> QED BY <2>2 DEF Phases
<1>6. CASE StartWaits(c)
  <2>1. Starting(c) /\ ctl[c] \in T!StartWaits /\ (Created \/ Popping)
    BY <1>6 DEF StartWaits, T!StartWait, Phases, Stopped, Serving, Opening,
       Starting, Closing, Joining, T!StartWaits, T!JoinWaits
  <2>2. UNCHANGED <<open, pop, started, running, exec>>
    BY <1>6 DEF StartWaits, T!StartWait
  <2>3. CASE c \in blocked'
    <3>1. ctl'[c] = "start_wait" /\ call' = call
      BY <1>6, <2>3 DEF StartWaits, T!StartWait
    <3>2. Starting(c)' /\ Types'
      BY <1>6, <2>1, <2>2, <2>3, <3>1 DEF StartWaits, T!StartWait, Starting, Created, Popping,
         T!StartWaits, T!CtlStates
    <3> QED BY <3>2 DEF Phases
  <2>4. CASE c \notin blocked'
    <3>1. running
      BY <1>6, <2>4 DEF StartWaits, T!StartWait, T!Sig!EvalFunc
    <3>2. ctl'[c] = "idle" /\ call'[c] = "none"
      BY <1>6, <2>4 DEF StartWaits, T!StartWait
    <3>3. Serving(c)' /\ Types'
      BY <1>6, <2>1, <2>2, <2>4, <3>1, <3>2 DEF StartWaits, T!StartWait, Starting, Serving, Created,
         Popping, CallStates, T!CtlStates
    <3> QED BY <3>3 DEF Phases
  <2> QED BY <2>3, <2>4
<1> QED
  BY <1>1, <1>2, <1>3, <1>4, <1>5, <1>6

(***************************************************************************)
(* The phases a controller goes through inside stop().                     *)
(***************************************************************************)
LEMMA StopKeepsInv ==
  ASSUME Inv, NEW c \in Controllers, Controllers = {c},
         \/ StopAlreadyClosed(c) \/ StopSeesOpen(c) \/ StopCloses(c)
         \/ StopEnters(c) \/ StopWaits(c) \/ StopReaps(c) \/ SpuriousWake(c)
  PROVE  Inv'
<1> SUFFICES Types' /\ Phases(c)'
  BY DEF Inv
<1> USE DEF Inv, Types, Goto, queueVars, threadVars, callVars
<1>1. CASE StopAlreadyClosed(c) \/ SpuriousWake(c)
  BY <1>1 DEF StopAlreadyClosed, SpuriousWake, T!SpuriousWake, Phases, Stopped, Serving, Opening,
              Starting, Closing, Joining, NoThread, Popping, Created, Leaving
<1>2. CASE StopSeesOpen(c)
  <2>1. Serving(c)
    BY <1>2 DEF StopSeesOpen, Phases, Stopped, Serving, Opening, Starting, Closing, Joining
  <2>2. Closing(c)' /\ Types'
    BY <1>2, <2>1 DEF StopSeesOpen, Serving, Closing, NoThread, Popping, CallStates
  <2> QED BY <2>2 DEF Phases
<1>3. CASE StopCloses(c)
  <2>1. Closing(c)
    BY <1>3 DEF StopCloses, Phases, Stopped, Serving, Opening, Starting, Closing, Joining
  <2>2. open' = FALSE /\ UNCHANGED <<pop, started, running, exec>>
    BY <1>3, <2>1 DEF StopCloses, Closing, Q!Close
  <2>3. call'[c] = "join" /\ ctl'[c] = "join" /\ Types'
    BY <1>3, <2>2 DEF StopCloses, CallStates, T!CtlStep, T!CtlStates
  <2>4. (Leaving \/ NoThread)'
    BY <2>1, <2>2 DEF Closing, NoThread, Popping, Leaving
  <2> QED BY <2>2, <2>3, <2>4 DEF Phases, Joining
<1>4. CASE StopEnters(c)
  <2>1. Joining(c) /\ (Leaving \/ NoThread)
    BY <1>4 DEF StopEnters, T!JoinEnter, T!CtlStep, Phases, Stopped, Serving, Opening,
       Starting, Closing, Joining, T!StartWaits, T!JoinWaits
  <2>2. UNCHANGED <<open, pop, started, running, exec>>
    BY <1>4 DEF StopEnters, T!JoinEnter
  <2>3. CASE started
    <3>1. Joining(c)' /\ Types'
      BY <1>4, <2>1, <2>2, <2>3 DEF StopEnters, T!JoinEnter, T!CtlStep, Joining, NoThread, Leaving,
         T!JoinWaits, T!CtlStates
    <3> QED BY <3>1 DEF Phases
  <2>4. CASE ~started
    <3>1. Stopped(c)' /\ Types'
      BY <1>4, <2>1, <2>2, <2>4 DEF StopEnters, T!JoinEnter, T!CtlStep, Joining, Stopped, NoThread,
         Leaving, CallStates, T!CtlStates
    <3> QED BY <3>1 DEF Phases
  <2> QED BY <2>3, <2>4
<1>5. CASE StopWaits(c)
  <2>1. Joining(c) /\ Leaving
    BY <1>5 DEF StopWaits, T!JoinWait, Phases, Stopped, Serving, Opening,
       Starting, Closing, Joining, T!StartWaits, T!JoinWaits
  <2>2. ctl'[c] \in {"join_wait", "reaping"} /\ UNCHANGED <<open, pop, started, running, exec, call>>
    BY <1>5 DEF StopWaits, T!JoinWait
  <2>3. Joining(c)' /\ Types'
    BY <1>5, <2>1, <2>2 DEF StopWaits, T!JoinWait, Joining, Leaving, T!JoinWaits, T!CtlStates
  <2> QED BY <2>3 DEF Phases
<1>6. CASE StopReaps(c)
  <2>1. Joining(c) /\ Leaving
    BY <1>6 DEF StopReaps, T!JoinReap, T!CtlStep, Phases, Stopped, Serving, Opening,
       Starting, Closing, Joining, T!StartWaits, T!JoinWaits
  <2>2. Stopped(c)' /\ Types'
    BY <1>6, <2>1 DEF StopReaps, T!JoinReap, T!CtlStep, T!sigVars, Joining, Stopped, Leaving,
       NoThread, CallStates, T!CtlStates
  <2> QED BY <2>2 DEF Phases
<1> QED
  BY <1>1, <1>2, <1>3, <1>4, <1>5, <1>6

\* What the adaptive pop does to its place: it ends over a closed queue only.
LEMMA PopMoves ==
  ASSUME Q!PopProgress
  PROVE  open' = open /\ pop # "ended" /\ (pop' = "ended" => ~open)
BY DEF Q!PopProgress, Q!PopTake, Q!PopCount, Q!PopMiss, Q!AdaptivePop, Q!SignaledPop,
       Q!PopWake, Q!PopSleep, Q!Handled, Q!PopStep

(***************************************************************************)
(* The thread leaves its loop only when the controller is in stop().       *)
(***************************************************************************)
LEMMA ExecutorKeepsInv ==
  ASSUME Inv, ExecProgress
  PROVE  Inv'
<1> USE DEF Inv, Types, queueVars, threadVars, callVars
<1>1. ctl' = ctl /\ call' = call /\ open' = open
  BY PopMoves DEF ExecProgress, ExecBegin, ExecPops, ExecReturns, ExecEnd, T!ExecBegin, T!RunReturns,
     T!ExecEnd, Q!PopBegin
<1> SUFFICES ASSUME NEW c \in Controllers PROVE Phases(c)'
  BY <1>1
<1>2. CASE ExecBegin
  <2>1. Starting(c) /\ ctl[c] \in T!StartWaits /\ Created
    BY <1>2 DEF ExecBegin, T!ExecBegin, Phases, Stopped, Serving, Opening, Starting, Closing, Joining,
       NoThread, Popping, Created, Leaving
  <2>2. Popping'
    BY <1>2, <2>1 DEF ExecBegin, T!ExecBegin, Q!PopBegin, Q!PopStep, Created, Popping
  <2> QED BY <1>1, <2>1, <2>2 DEF Phases, Starting
<1>3. CASE ExecPops
  <2>1. pop # "ended" /\ (pop' = "ended" => ~open) /\ UNCHANGED <<started, running, exec>>
    BY <1>3, PopMoves DEF ExecPops
  <2> QED
    BY <1>1, <2>1 DEF Phases, Stopped, Serving, Opening, Starting, Closing, Joining,
       NoThread, Popping, Created, Leaving
<1>4. CASE ExecReturns
  <2>1. Joining(c) /\ Leaving /\ exec = "running"
    BY <1>4 DEF ExecReturns, T!RunReturns, Phases, Stopped, Serving, Opening, Starting, Closing, Joining,
       NoThread, Popping, Created, Leaving
  <2>2. Leaving'
    BY <1>4, <2>1 DEF ExecReturns, T!RunReturns, Leaving
  <2> QED BY <1>1, <2>1, <2>2 DEF Phases, Joining, NoThread, Leaving
<1>5. CASE ExecEnd
  <2>1. Joining(c) /\ Leaving /\ exec = "returned"
    BY <1>5 DEF ExecEnd, T!ExecEnd, Phases, Stopped, Serving, Opening, Starting, Closing, Joining,
       NoThread, Popping, Created, Leaving
  <2>2. Leaving'
    BY <1>5, <2>1 DEF ExecEnd, T!ExecEnd, Leaving
  <2> QED BY <1>1, <2>1, <2>2 DEF Phases, Joining, NoThread, Leaving
<1> QED
  BY <1>2, <1>3, <1>4, <1>5 DEF ExecProgress

LEMMA PushKeepsInv ==
  ASSUME Inv, NEW p \in Producers, Push(p)
  PROVE  Inv'
<1>1. UNCHANGED <<open, pop, threadVars, call>>
  BY DEF Push, Q!PushAdmit, Q!PushProgress, Q!PushFull, Q!PushStore, Q!PushCount, Q!PushCheck,
     Q!PushNotify, callVars
<1> QED
  BY <1>1 DEF Inv, Types, threadVars, Phases, Stopped, Serving, Opening, Starting, Closing, Joining,
     NoThread, Popping, Created, Leaving

LEMMA InvNext == OneController /\ Inv /\ [Next]_vars => Inv'
<1> SUFFICES ASSUME OneController, Inv, [Next]_vars PROVE Inv'
  OBVIOUS
<1>1. PICK c \in Controllers : Controllers = {c}
  BY DEF OneController
<1>2. CASE UNCHANGED vars
  BY <1>2 DEF vars, queueVars, threadVars, callVars, Inv, Types, Phases, Stopped, Serving, Opening,
     Starting, Closing, Joining, NoThread, Popping, Created, Leaving
<1>3. CASE ExecProgress \/ \E p \in Producers : Push(p)
  BY <1>3, ExecutorKeepsInv, PushKeepsInv
<1>4. CASE \E d \in Controllers :
              \/ StartAlreadyOpen(d) \/ StartSeesClosed(d)
              \/ StopAlreadyClosed(d) \/ StopSeesOpen(d)
              \/ CtlProgress(d) \/ SpuriousWake(d)
  <2>1. \/ StartAlreadyOpen(c) \/ StartSeesClosed(c)
        \/ StopAlreadyClosed(c) \/ StopSeesOpen(c)
        \/ CtlProgress(c) \/ SpuriousWake(c)
    BY <1>1, <1>4
  <2> QED BY <1>1, <2>1, StartKeepsInv, StopKeepsInv DEF CtlProgress
<1> QED
  BY <1>2, <1>3, <1>4 DEF Next

LEMMA InvCorrect == ASSUME OneController PROVE SafeSpec => []Inv
BY InitInv, InvNext, PTL DEF SafeSpec

(***************************************************************************)
(* After stop() no thread of the object is left that could still pop.      *)
(***************************************************************************)
THEOREM StoppedMeansNoThreadCorrect ==
  ASSUME OneController PROVE SafeSpec => []StoppedMeansNoThread
<1>1. Inv => StoppedMeansNoThread
  <2> SUFFICES ASSUME Inv, Idle, ~open PROVE exec = "none" /\ pop = "ended"
    BY DEF StoppedMeansNoThread
  <2>1. PICK c \in Controllers : Controllers = {c}
    BY DEF OneController
  <2>2. Stopped(c)
    BY <2>1 DEF Inv, Idle, Phases, Stopped, Serving, Opening, Starting, Closing, Joining
  <2> QED BY <2>2 DEF Stopped, NoThread
<1> QED
  BY <1>1, InvCorrect, PTL

(***************************************************************************)
(* run() never returns while the start() that waits for it has not seen    *)
(* it: the queue is closed only by the stop() that comes after.            *)
(***************************************************************************)
THEOREM UsesThreadWithinLimitsCorrect ==
  ASSUME OneController PROVE SafeSpec => UsesThreadWithinLimits
<1>1. Init => TF!Init
  BY DEF Init, T!Init, TF!Init, T!Sig!SigInit, TF!Sig!SigInit
<1>2. ASSUME Inv, [Next]_vars PROVE [TF!Next]_(TF!vars)
  <2>1. CASE UNCHANGED threadVars
    BY <2>1 DEF threadVars, TF!vars
  <2>2. CASE ExecReturns
    <3>1. ~TF!Starting
      BY <1>2, <2>2 DEF ExecReturns, T!RunReturns, TF!Starting, TF!StartWaits, T!StartWaits, T!JoinWaits,
         Inv, Phases, Stopped, Serving, Opening, Starting, Closing, Joining, NoThread, Popping, Created
    <3>2. TF!RunReturns
      BY <2>2, <3>1 DEF ExecReturns, T!RunReturns, TF!RunReturns, T!sigVars, TF!sigVars
    <3> QED BY <3>2 DEF TF!Next
  <2>3. CASE ExecBegin \/ ExecEnd
    BY <2>3 DEF ExecBegin, ExecEnd, T!ExecBegin, T!ExecEnd, TF!ExecBegin, TF!ExecEnd, TF!Next,
       T!Sig!NotifyOne, TF!Sig!NotifyOne, T!Sig!WakeOne, TF!Sig!WakeOne
  <2>4. ASSUME NEW c \in Controllers, StartOpens(c) \/ StopCloses(c)
        PROVE  TF!Next
    <3>1. TF!Call(c)
      BY <2>4 DEF StartOpens, StopCloses, T!CtlStep, TF!CtlStep, TF!Call, TF!sigVars
    <3> QED BY <3>1 DEF TF!Next
  <2>5. ASSUME NEW c \in Controllers, StartCreates(c) \/ StartFails(c) \/ StopEnters(c)
        PROVE  TF!Next
    <3>1. TF!StartCreate(c) \/ TF!StartFails(c) \/ TF!JoinEnter(c)
      BY <2>5 DEF StartCreates, StartFails, StopEnters, T!StartCreate, T!StartFails, T!JoinEnter,
         TF!StartCreate, TF!StartFails, TF!JoinEnter, T!CtlStep, TF!CtlStep, T!sigVars, TF!sigVars,
         T!LockFree, TF!LockFree, T!Holds, TF!Holds, T!StartWaits, TF!StartWaits, T!JoinWaits, TF!JoinWaits
    <3> QED BY <3>1 DEF TF!Next
  <2>6. ASSUME NEW c \in Controllers, StartWaits(c) \/ StopWaits(c) \/ StopReaps(c) \/ SpuriousWake(c)
        PROVE  TF!Next
    <3>1. TF!CtlProgress(c) \/ TF!SpuriousWake(c)
      BY <2>6 DEF StartWaits, StopWaits, StopReaps, SpuriousWake, T!StartWait, T!JoinWait, T!JoinReap,
         T!SpuriousWake, TF!StartWait, TF!JoinWait, TF!JoinReap, TF!SpuriousWake, TF!CtlProgress,
         T!CtlStep, TF!CtlStep, T!sigVars, TF!sigVars, T!StartWaits, TF!StartWaits,
         T!JoinWaits, TF!JoinWaits, T!Sig!EvalFunc, TF!Sig!EvalFunc, T!Sig!SpuriousWake, TF!Sig!SpuriousWake
    <3> QED BY <3>1 DEF TF!Next
  <2>7. ASSUME NEW c \in Controllers,
               \/ StartAlreadyOpen(c) \/ StartSeesClosed(c)
               \/ StopAlreadyClosed(c) \/ StopSeesOpen(c)
        PROVE  UNCHANGED threadVars
    BY <2>7 DEF StartAlreadyOpen, StartSeesClosed, StopAlreadyClosed, StopSeesOpen
  <2>8. ASSUME ExecPops \/ \E p \in Producers : Push(p)
        PROVE  UNCHANGED threadVars
    BY <2>8 DEF ExecPops, Push
  <2> QED
    BY <1>2, <2>1, <2>2, <2>3, <2>4, <2>5, <2>6, <2>7, <2>8 DEF Next, CtlProgress, ExecProgress, vars
<1> QED
  BY <1>1, <1>2, InvCorrect, PTL DEF SafeSpec, UsesThreadWithinLimits, TF!SafeSpec

-----------------------------------------------------------------------------
(***************************************************************************)
(* StreamLogger.  Where a record can be: in a handler, in a push(), in the *)
(* queue or with run().                                                    *)
(***************************************************************************)
Held(r) == \E p \in Producers : data[p] = r
Pushed(r) == \E p \in Producers : data[p] = r /\ push[p] # "idle"
Admitted(r) == \E p \in Producers : data[p] = r /\ push[p] = "admitted"
InFifo(r) == \E i \in 1..Len(fifo) : fifo[i] = r
Waits(r) == InFifo(r) \/ item = r
Unpushed(r) == \E p \in Producers : data[p] = r /\ push[p] # "stored"

One(b) == IF b THEN 1 ELSE 0

LoggerTypes == /\ data \in [Producers -> Records \cup {NoRecord}]
               /\ push \in [Producers -> {"idle", "admitted", "stored"}]
               /\ fifo \in Seq(Records)
               /\ queued = Len(fifo)
               /\ item \in Records \cup {NoRecord}
               /\ item # NoRecord <=> pop \in {"taken", "handling"}
               /\ refs \in [Records -> Int]
               /\ lines \in [Records -> Int]
               /\ failed_push \in SUBSET Producers

\* No record is twice in one place, and none is in two places but its pusher and
\* the queue, or the writer, before the push returns.
Apart == /\ \A p, q \in Producers : p # q /\ data[p] = data[q] => data[p] = NoRecord
         /\ \A i, j \in 1..Len(fifo) : i # j => fifo[i] # fifo[j]
         /\ \A i \in 1..Len(fifo) : fifo[i] # item
         /\ \A p \in Producers : push[p] # "idle" => data[p] # NoRecord /\ p \notin failed_push
         /\ \A p \in failed_push : data[p] # NoRecord
         /\ \A p \in Producers : data[p] # NoRecord /\ Waits(data[p]) => push[p] = "stored"

Counted == \A r \in Records :
              refs[r] = One(Held(r)) + One(Pushed(r)) + One(Admitted(r))
                        + One(InFifo(r)) + One(item = r)

Written == \A r \in Records : lines[r] = IF Waits(r) \/ Unpushed(r) THEN 0 ELSE 1

LoggerInv == LoggerTypes /\ Apart /\ Counted /\ Written

LEMMA InitLogger == LoggerInit => LoggerInv
<1> SUFFICES ASSUME LoggerInit PROVE LoggerInv
  OBVIOUS
<1>1. /\ LoggerTypes /\ Apart
  BY RecordAssumption DEF LoggerInit, Init, Q!Init, LoggerTypes, Apart, Waits, InFifo
<1>2. ASSUME NEW r \in Records
      PROVE  ~Held(r) /\ ~Pushed(r) /\ ~Admitted(r) /\ ~InFifo(r) /\ item # r /\ ~Unpushed(r)
  BY RecordAssumption DEF LoggerInit, Held, Pushed, Admitted, InFifo, Unpushed
<1> QED
  BY <1>1, <1>2 DEF LoggerInv, Counted, Written, Waits, LoggerInit, One

\* A step after which every record is where it was.
LEMMA RecordsStay ==
    ASSUME LoggerInv, LoggerTypes', UNCHANGED <<data, push, fifo, item, refs, lines>>,
           failed_push' = failed_push
    PROVE  LoggerInv'
<1>1. ASSUME NEW r
      PROVE  /\ Held(r)' <=> Held(r)
             /\ Pushed(r)' <=> Pushed(r)
             /\ Admitted(r)' <=> Admitted(r)
             /\ InFifo(r)' <=> InFifo(r)
             /\ Unpushed(r)' <=> Unpushed(r)
  BY DEF Held, Pushed, Admitted, InFifo, Unpushed
<1>2. Apart'
  BY <1>1 DEF LoggerInv, Apart, Waits
<1>3. Counted' /\ Written'
  BY <1>1 DEF LoggerInv, Counted, Written, Waits, One
<1> QED
  BY <1>2, <1>3 DEF LoggerInv

LEMMA BuildKeeps ==
    ASSUME LoggerInv, NEW p \in Producers, Build(p)
    PROVE  LoggerInv'
<1>1. CASE UNCHANGED <<data, refs, lines>>
  BY <1>1, RecordsStay DEF Build, LoggerInv, LoggerTypes, vars, queueVars
<1>2. ASSUME NEW r \in Records, refs[r] = 0,
             data' = [data EXCEPT ![p] = r],
             AddRefs(r, 1),
             lines' = [lines EXCEPT ![r] = 0]
      PROVE  LoggerInv'
  <2>0. /\ UNCHANGED <<push, pop, queued, fifo, item, failed_push>>
        /\ data[p] = NoRecord
        /\ refs' = [refs EXCEPT ![r] = @ + 1]
    BY <1>2 DEF Build, vars, queueVars, AddRefs
  <2>1. LoggerTypes'
    BY <1>2, <2>0 DEF LoggerInv, LoggerTypes
  <2>2. ~Held(r) /\ ~Pushed(r) /\ ~Admitted(r) /\ ~InFifo(r) /\ item # r /\ ~Unpushed(r)
    <3>1. One(Held(r)) + One(Pushed(r)) + One(Admitted(r)) + One(InFifo(r)) + One(item = r) = 0
      BY <1>2 DEF LoggerInv, Counted
    <3>2. ~Held(r) /\ ~Pushed(r) /\ ~Admitted(r) /\ ~InFifo(r) /\ item # r
      BY <3>1 DEF One
    <3> QED
      BY <3>2 DEF Held, Unpushed
  <2>3. push[p] = "idle" /\ p \notin failed_push
    BY <2>0 DEF LoggerInv, Apart
  <2>a. \A q \in Producers : data'[q] = IF q = p THEN r ELSE data[q]
    BY <1>2 DEF LoggerInv, LoggerTypes
  <2>4. Apart'
    BY <1>2, <2>0, <2>2, <2>3, <2>a, RecordAssumption
       DEF LoggerInv, Apart, Held, Waits, InFifo
  <2>5. ASSUME NEW s \in Records
        PROVE  /\ Held(s)' <=> Held(s) \/ s = r
               /\ Pushed(s)' <=> Pushed(s)
               /\ Admitted(s)' <=> Admitted(s)
               /\ InFifo(s)' <=> InFifo(s)
               /\ Unpushed(s)' <=> Unpushed(s) \/ s = r
    BY <2>0, <2>3, <2>a, RecordAssumption DEF Held, Pushed, Admitted, InFifo, Unpushed
  <2>6. Counted' /\ Written'
    BY <1>2, <2>0, <2>2, <2>5 DEF LoggerInv, LoggerTypes, Counted, Written, Waits, One
  <2> QED
    BY <2>1, <2>4, <2>6 DEF LoggerInv
<1> QED
  BY <1>1, <1>2 DEF Build

LEMMA PushStepsKeep ==
    ASSUME LoggerInv, NEW p \in Producers,
           PushAdmitted(p) \/ PushClosed(p) \/ PushRejected(p)
    PROVE  LoggerInv'
<1> USE DEF LoggerInv
<1>0. /\ UNCHANGED <<data, fifo, item, lines, queued, pop>>
      /\ push[p] \in {"idle", "admitted"}
      /\ \A q \in Producers \ {p} : push'[q] = push[q]
      /\ data[p] \in Records
      /\ push' \in [Producers -> {"idle", "admitted", "stored"}]
      /\ push[p] = "idle" => p \notin failed_push \/ UNCHANGED <<push, refs, failed_push>>
  BY DEF PushAdmitted, PushClosed, PushRejected, Q!PushAdmit, Q!PushFull, Q!PushStep,
         LoggerTypes, Apart, vars, queueVars
<1>1. \/ /\ push[p] = "idle" /\ push'[p] = "admitted" /\ failed_push' = failed_push
         /\ refs' = [refs EXCEPT ![data[p]] = @ + 2]
      \/ /\ push' = push /\ push[p] = "idle" /\ failed_push' = failed_push \cup {p}
         /\ refs' = refs
      \/ /\ push[p] = "admitted" /\ push'[p] = "idle" /\ failed_push' = failed_push \cup {p}
         /\ refs' = [refs EXCEPT ![data[p]] = @ - 2]
  BY DEF PushAdmitted, PushClosed, PushRejected, Q!PushAdmit, Q!PushFull, Q!PushStep,
         LoggerTypes, vars, queueVars, AddRefs
<1>2. LoggerTypes'
  BY <1>0, <1>1 DEF LoggerTypes
<1>3. p \notin failed_push
  BY <1>0 DEF PushAdmitted, PushClosed, PushRejected, Apart, Q!PushFull, Q!PushStep
<1>4. ASSUME NEW r \in Records
      PROVE  /\ Held(r)' <=> Held(r)
             /\ InFifo(r)' <=> InFifo(r)
             /\ Unpushed(r)' <=> Unpushed(r)
             /\ r # data[p] => (Pushed(r)' <=> Pushed(r)) /\ (Admitted(r)' <=> Admitted(r))
             /\ Pushed(data[p]) <=> push[p] # "idle"
             /\ Pushed(data[p])' <=> push'[p] # "idle"
             /\ Admitted(data[p]) <=> push[p] = "admitted"
             /\ Admitted(data[p])' <=> push'[p] = "admitted"
  BY <1>0, <1>1, RecordAssumption DEF Held, InFifo, Unpushed, Pushed, Admitted, Apart
<1>5. Apart'
  <2>1. /\ \A q, t \in Producers : q # t /\ data'[q] = data'[t] => data'[q] = NoRecord
        /\ \A i, j \in 1..Len(fifo') : i # j => fifo'[i] # fifo'[j]
        /\ \A i \in 1..Len(fifo') : fifo'[i] # item'
    BY <1>0 DEF Apart
  <2>2. /\ \A q \in Producers : push'[q] # "idle" => data'[q] # NoRecord /\ q \notin failed_push'
        /\ \A q \in failed_push' : data'[q] # NoRecord
    BY <1>0, <1>1, <1>3, RecordAssumption DEF Apart
  <2>3. ~Waits(data[p])
    BY <1>0, RecordAssumption DEF Apart
  <2>4. ASSUME NEW q \in Producers, data'[q] # NoRecord, Waits(data[q])'
        PROVE  push'[q] = "stored"
    <3>1. Waits(data[q])
      BY <1>0, <2>4 DEF Waits, InFifo
    <3> QED
      BY <1>0, <2>3, <2>4, <3>1 DEF Apart
  <2> QED
    BY <1>0, <2>1, <2>2, <2>4 DEF Apart
<1>6. Counted'
  BY <1>0, <1>1, <1>4 DEF Counted, LoggerTypes, One
<1>7. Written'
  BY <1>0, <1>4 DEF Written, Waits
<1> QED
  BY <1>2, <1>5, <1>6, <1>7

LEMMA PushStoredKeeps ==
    ASSUME LoggerInv, NEW p \in Producers, PushStored(p)
    PROVE  LoggerInv'
<1> USE DEF LoggerInv
<1>r. PICK r \in Records : r = data[p]
  BY DEF PushStored, Q!PushStore, Q!PushStep, LoggerTypes, Apart
<1>0. /\ UNCHANGED <<data, item, lines, refs, failed_push, pop>>
      /\ push[p] = "admitted" /\ push'[p] = "stored"
      /\ push' \in [Producers -> {"idle", "admitted", "stored"}]
      /\ \A q \in Producers \ {p} : push'[q] = push[q]
      /\ r = data[p]
      /\ queued' = queued + 1
      /\ fifo' = Append(fifo, r)
  BY <1>r DEF PushStored, Q!PushStore, Q!PushStep, LoggerTypes, Apart
<1>a. /\ fifo' \in Seq(Records) /\ Len(fifo') = Len(fifo) + 1
      /\ fifo'[Len(fifo) + 1] = r
      /\ \A i \in 1..Len(fifo) : fifo'[i] = fifo[i]
  BY <1>0 DEF LoggerTypes
<1>b. Len(fifo) \in Nat
  BY DEF LoggerTypes
<1>1. LoggerTypes'
  BY <1>0, <1>a DEF LoggerTypes
<1>2. ~Waits(r)
  BY <1>0, RecordAssumption DEF Apart
<1>3. ASSUME NEW s \in Records
      PROVE  /\ Held(s)' <=> Held(s)
             /\ Pushed(s)' <=> Pushed(s)
             /\ s # r => (Admitted(s)' <=> Admitted(s)) /\ (Unpushed(s)' <=> Unpushed(s))
             /\ Admitted(r) /\ ~Admitted(r)'
             /\ Unpushed(r)
  BY <1>0, RecordAssumption DEF Held, Pushed, Admitted, Unpushed, Apart
<1>4. ASSUME NEW s
      PROVE  InFifo(s)' <=> InFifo(s) \/ s = r
  <2>1. ASSUME NEW i \in 1..Len(fifo') PROVE i \in 1..Len(fifo) \/ i = Len(fifo) + 1
    BY <1>a, <1>b
  <2>2. Len(fifo) + 1 \in 1..Len(fifo') /\ \A i \in 1..Len(fifo) : i \in 1..Len(fifo')
    BY <1>a, <1>b
  <2> QED
    BY <1>a, <2>1, <2>2 DEF InFifo
<1>5. Apart'
  <2>1. /\ \A i, j \in 1..Len(fifo') : i # j => fifo'[i] # fifo'[j]
        /\ \A i \in 1..Len(fifo') : fifo'[i] # item'
    <3>1. ASSUME NEW i \in 1..Len(fifo') PROVE i \in 1..Len(fifo) \/ i = Len(fifo) + 1
      BY <1>a, <1>b
    <3>2. \A i \in 1..Len(fifo) : fifo[i] # r
      BY <1>2 DEF Waits, InFifo
    <3> QED
      BY <1>0, <1>a, <1>2, <3>1, <3>2 DEF Apart, Waits
  <2>2. /\ \A q, t \in Producers : q # t /\ data'[q] = data'[t] => data'[q] = NoRecord
        /\ \A q \in Producers : push'[q] # "idle" => data'[q] # NoRecord /\ q \notin failed_push'
        /\ \A q \in failed_push' : data'[q] # NoRecord
    BY <1>0 DEF Apart
  <2>3. ASSUME NEW q \in Producers, data'[q] # NoRecord, Waits(data[q])'
        PROVE  push'[q] = "stored"
    BY <1>0, <1>4, <2>3 DEF Apart, Waits
  <2> QED
    BY <1>0, <2>1, <2>2, <2>3 DEF Apart
<1>6. Counted'
  <2> SUFFICES ASSUME NEW s \in Records
               PROVE  refs[s] = One(Held(s)') + One(Pushed(s)') + One(Admitted(s)')
                                + One(InFifo(s)') + One(item = s)
    BY <1>0 DEF Counted
  <2>1. CASE s = r
    <3>1. ~InFifo(r)
      BY <1>2 DEF Waits
    <3> QED
      BY <1>3, <1>4, <2>1, <3>1 DEF Counted, One, LoggerTypes
  <2>2. CASE s # r
    BY <1>3, <1>4, <2>2 DEF Counted, One, LoggerTypes
  <2> QED
    BY <2>1, <2>2
<1>7. Written'
  BY <1>0, <1>2, <1>3, <1>4 DEF Written, LoggerTypes, Waits
<1> QED
  BY <1>1, <1>5, <1>6, <1>7

LEMMA HandlerEndsKeeps ==
    ASSUME LoggerInv, NEW p \in Producers, PushReturns(p) \/ PrintHere(p)
    PROVE  LoggerInv'
<1> USE DEF LoggerInv
<1>r. PICK r \in Records : r = data[p]
  BY DEF PushReturns, PrintHere, Q!PushCount, Q!PushStep, LoggerTypes, Apart
<1>0. /\ UNCHANGED <<item, fifo, queued, pop>>
      /\ r = data[p]
      /\ push' \in [Producers -> {"idle", "admitted", "stored"}]
      /\ \A q \in Producers \ {p} : push'[q] = push[q]
      /\ push'[p] = "idle"
      /\ data' = [data EXCEPT ![p] = NoRecord]
  BY <1>r DEF PushReturns, PrintHere, Q!PushCount, Q!PushStep, LoggerTypes, Apart, vars, queueVars
<1>1. \/ /\ push[p] = "stored" /\ UNCHANGED <<lines, failed_push>>
         /\ refs' = [refs EXCEPT ![r] = @ - 2]
      \/ /\ push[p] = "idle" /\ p \in failed_push /\ failed_push' = failed_push \ {p}
         /\ lines' = [lines EXCEPT ![r] = @ + 1]
         /\ refs' = [refs EXCEPT ![r] = @ - 1]
  <2>1. CASE PushReturns(p)
    BY <2>1, <1>0 DEF PushReturns, Q!PushCount, Q!PushStep, LoggerTypes, AddRefs
  <2>2. CASE PrintHere(p)
    BY <2>2, <1>0 DEF PrintHere, Apart, LoggerTypes, AddRefs, Write, vars, queueVars
  <2> QED
    BY <2>1, <2>2
<1>a. \A q \in Producers : data'[q] = IF q = p THEN NoRecord ELSE data[q]
  BY <1>0 DEF LoggerTypes
<1>2. LoggerTypes'
  BY <1>0, <1>1 DEF LoggerTypes
<1>3. ASSUME NEW s \in Records
      PROVE  /\ s # r => (Held(s)' <=> Held(s)) /\ (Pushed(s)' <=> Pushed(s))
             /\ s # r => (Admitted(s)' <=> Admitted(s)) /\ (Unpushed(s)' <=> Unpushed(s))
             /\ ~Held(r)' /\ ~Pushed(r)' /\ ~Admitted(r)' /\ ~Unpushed(r)'
             /\ Held(r)
             /\ Pushed(r) <=> push[p] = "stored"
             /\ ~Admitted(r)
             /\ Unpushed(r) <=> push[p] = "idle"
             /\ InFifo(s)' <=> InFifo(s)
  <2>1. \A q \in Producers : q # p => data[q] # r
    BY <1>0, RecordAssumption DEF Apart
  <2>2. /\ ~Held(r)' /\ ~Pushed(r)' /\ ~Admitted(r)' /\ ~Unpushed(r)'
        /\ Held(r)
        /\ Pushed(r) <=> push[p] = "stored"
        /\ ~Admitted(r)
        /\ Unpushed(r) <=> push[p] = "idle"
    BY <1>0, <1>1, <1>a, <2>1, RecordAssumption DEF Held, Pushed, Admitted, Unpushed
  <2>3. ASSUME s # r
        PROVE  /\ (Held(s)' <=> Held(s)) /\ (Pushed(s)' <=> Pushed(s))
               /\ (Admitted(s)' <=> Admitted(s)) /\ (Unpushed(s)' <=> Unpushed(s))
    BY <1>0, <1>a, <2>3, RecordAssumption DEF Held, Pushed, Admitted, Unpushed
  <2>4. InFifo(s)' <=> InFifo(s)
    BY <1>0 DEF InFifo
  <2> QED
    BY <2>2, <2>3, <2>4
<1>4. Apart'
  BY <1>0, <1>1, <1>a, RecordAssumption DEF Apart, Waits, InFifo
<1>5. Counted'
  <2> SUFFICES ASSUME NEW s \in Records
               PROVE  refs'[s] = One(Held(s)') + One(Pushed(s)') + One(Admitted(s)')
                                 + One(InFifo(s)') + One(item = s)
    BY <1>0 DEF Counted
  <2>1. CASE s = r
    BY <1>0, <1>1, <1>3, <2>1 DEF Counted, One, LoggerTypes
  <2>2. CASE s # r
    BY <1>0, <1>1, <1>3, <2>2 DEF Counted, One, LoggerTypes
  <2> QED
    BY <2>1, <2>2
<1>6. Waits(r) => push[p] = "stored"
  BY <1>0, RecordAssumption DEF Apart
<1>7. Written'
  <2> SUFFICES ASSUME NEW s \in Records
               PROVE  lines'[s] = IF InFifo(s)' \/ item = s \/ Unpushed(s)' THEN 0 ELSE 1
    BY <1>0 DEF Written, Waits
  <2>1. CASE s = r
    BY <1>0, <1>1, <1>3, <1>6, <2>1 DEF Written, LoggerTypes, Waits
  <2>2. CASE s # r
    BY <1>0, <1>1, <1>3, <2>2 DEF Written, LoggerTypes, Waits
  <2> QED
    BY <2>1, <2>2
<1> QED
  BY <1>2, <1>4, <1>5, <1>7

LEMMA TakeKeeps ==
    ASSUME LoggerInv, Take
    PROVE  LoggerInv'
<1> USE DEF LoggerInv
<1>0. /\ UNCHANGED <<data, push, lines, refs, failed_push>>
      /\ pop = "try" /\ pop' = "taken"
      /\ queued > 0 /\ queued' = queued - 1
      /\ item = NoRecord /\ item' = Head(fifo)
      /\ fifo' = Tail(fifo)
  BY DEF Take, Q!PopTake, Q!PopStep, LoggerTypes
<1>1. PICK r \in Records : r = fifo[1] /\ item' = r
  BY <1>0 DEF LoggerTypes
<1>a. /\ Len(fifo) \in Nat \ {0}
      /\ fifo' \in Seq(Records) /\ Len(fifo') = Len(fifo) - 1
      /\ \A i \in 1..Len(fifo') : fifo'[i] = fifo[i + 1] /\ i + 1 \in 2..Len(fifo)
      /\ \A j \in 2..Len(fifo) : j - 1 \in 1..Len(fifo') /\ fifo'[j - 1] = fifo[j]
  BY <1>0, HeadTailProperties DEF LoggerTypes
<1>2. LoggerTypes'
  BY <1>0, <1>1, <1>a, RecordAssumption DEF LoggerTypes
<1>3. \A i \in 2..Len(fifo) : fifo[i] # r
  BY <1>1, <1>a DEF Apart
<1>4. ASSUME NEW s \in Records
      PROVE  InFifo(s)' <=> InFifo(s) /\ s # r
  <2>1. ASSUME NEW i \in 1..Len(fifo) PROVE i = 1 \/ i \in 2..Len(fifo)
    BY <1>a
  <2>2. \A j \in 2..Len(fifo) : j \in 1..Len(fifo)
    OBVIOUS
  <2>3. InFifo(s)' => InFifo(s) /\ s # r
    BY <1>3, <1>a, <2>2 DEF InFifo
  <2>4. ASSUME InFifo(s), s # r PROVE InFifo(s)'
    <3>1. PICK i \in 1..Len(fifo) : fifo[i] = s
      BY <2>4 DEF InFifo
    <3>2. i \in 2..Len(fifo)
      BY <1>1, <2>1, <2>4, <3>1
    <3>3. i - 1 \in 1..Len(fifo') /\ fifo'[i - 1] = s
      BY <1>a, <3>1, <3>2
    <3> QED
      BY <3>3 DEF InFifo
  <2> QED
    BY <2>3, <2>4
<1>5. InFifo(r)
  BY <1>1, <1>a DEF InFifo
<1>6. ASSUME NEW s \in Records
      PROVE  /\ Held(s)' <=> Held(s)
             /\ Pushed(s)' <=> Pushed(s)
             /\ Admitted(s)' <=> Admitted(s)
             /\ Unpushed(s)' <=> Unpushed(s)
             /\ Waits(s)' <=> Waits(s)
  BY <1>0, <1>1, <1>4, <1>5, RecordAssumption DEF Held, Pushed, Admitted, Unpushed, Waits
<1>7. Apart'
  <2>1. \A q, t \in Producers : q # t /\ data'[q] = data'[t] => data'[q] = NoRecord
    BY <1>0 DEF Apart
  <2>2. ASSUME NEW i \in 1..Len(fifo'), NEW j \in 1..Len(fifo'), i # j
        PROVE  fifo'[i] # fifo'[j]
    <3>1. i + 1 \in 1..Len(fifo) /\ j + 1 \in 1..Len(fifo) /\ i + 1 # j + 1
      BY <1>a, <2>2
    <3> QED
      BY <1>a, <2>2, <3>1 DEF Apart
  <2>3. \A i \in 1..Len(fifo') : fifo'[i] # item'
    BY <1>1, <1>3, <1>a
  <2>4. /\ \A q \in Producers : push'[q] # "idle" => data'[q] # NoRecord /\ q \notin failed_push'
        /\ \A q \in failed_push' : data'[q] # NoRecord
    BY <1>0 DEF Apart
  <2>5. \A q \in Producers : data'[q] # NoRecord /\ Waits(data[q])' => push'[q] = "stored"
    <3>1. \A q \in Producers : data[q] # NoRecord => data[q] \in Records
      BY DEF LoggerTypes
    <3> QED
      BY <1>0, <1>1, <1>4, <1>5, <3>1 DEF Apart, Waits
  <2> QED
    BY <2>1, <2>2, <2>3, <2>4, <2>5 DEF Apart
<1>8. Counted'
  <2> SUFFICES ASSUME NEW s \in Records
               PROVE  refs[s] = One(Held(s)') + One(Pushed(s)') + One(Admitted(s)')
                                + One(InFifo(s)') + One(r = s)
    BY <1>0, <1>1 DEF Counted
  <2>1. item # s
    BY <1>0, RecordAssumption
  <2> QED
    BY <1>4, <1>5, <1>6, <2>1 DEF Counted, One, LoggerTypes
<1>9. Written'
  BY <1>0, <1>6 DEF Written
<1> QED
  BY <1>2, <1>7, <1>8, <1>9

LEMMA PrintTakenKeeps ==
    ASSUME LoggerInv, PrintTaken
    PROVE  LoggerInv'
<1> USE DEF LoggerInv
<1>0. /\ UNCHANGED <<data, push, fifo, queued, failed_push>>
      /\ pop = "handling" /\ pop' = "try"
      /\ item' = NoRecord
  BY DEF PrintTaken, Q!Handled, Q!PopStep
<1>1. PICK r \in Records : r = item
  BY <1>0 DEF LoggerTypes
<1>2. /\ refs' = [refs EXCEPT ![r] = @ - 1]
      /\ lines' = [lines EXCEPT ![r] = @ + 1]
  BY <1>1 DEF PrintTaken, AddRefs, Write, LoggerTypes
<1>3. LoggerTypes'
  BY <1>0, <1>2 DEF LoggerTypes
<1>4. ASSUME NEW s \in Records
      PROVE  /\ Held(s)' <=> Held(s)
             /\ Pushed(s)' <=> Pushed(s)
             /\ Admitted(s)' <=> Admitted(s)
             /\ Unpushed(s)' <=> Unpushed(s)
             /\ InFifo(s)' <=> InFifo(s)
             /\ ~(item = s)'
  BY <1>0, RecordAssumption DEF Held, Pushed, Admitted, Unpushed, InFifo
<1>5. ~InFifo(r)
  BY <1>1 DEF Apart, InFifo
<1>6. ~Unpushed(r)
  BY <1>1, RecordAssumption DEF Unpushed, Apart, Waits
<1>7. Apart'
  <2>1. \A q \in Producers : data'[q] # NoRecord /\ Waits(data[q])' => push'[q] = "stored"
    <3>1. \A q \in Producers : data[q] # NoRecord => data[q] \in Records
      BY DEF LoggerTypes
    <3> QED
      BY <1>0, <1>4, <3>1 DEF Apart, Waits
  <2>2. \A i \in 1..Len(fifo') : fifo'[i] # item'
    BY <1>0, RecordAssumption DEF LoggerTypes
  <2> QED
    BY <1>0, <2>1, <2>2 DEF Apart
<1>8. Counted'
  <2> SUFFICES ASSUME NEW s \in Records
               PROVE  refs'[s] = One(Held(s)) + One(Pushed(s)) + One(Admitted(s)) + One(InFifo(s))
    BY <1>4 DEF Counted, One, LoggerTypes
  <2> QED
    BY <1>1, <1>2, <1>5 DEF Counted, One, LoggerTypes
<1>9. Written'
  <2> SUFFICES ASSUME NEW s \in Records
               PROVE  lines'[s] = IF InFifo(s) \/ Unpushed(s) THEN 0 ELSE 1
    BY <1>4 DEF Written, Waits
  <2> QED
    BY <1>1, <1>2, <1>5, <1>6 DEF Written, Waits, LoggerTypes
<1> QED
  BY <1>3, <1>7, <1>8, <1>9

LEMMA NextLogger == LoggerInv /\ [LoggerNext]_loggerVars => LoggerInv'
<1> SUFFICES ASSUME LoggerInv, [LoggerNext]_loggerVars PROVE LoggerInv'
  OBVIOUS
<1> USE DEF LoggerInv, LoggerTypes
<1>1. CASE UNCHANGED loggerVars
  BY <1>1, RecordsStay DEF loggerVars, vars, queueVars, recordVars
<1>2. CASE WriterRuns
  <2>1. CASE Take \/ PrintTaken
    BY <2>1, TakeKeeps, PrintTakenKeeps
  <2>2. CASE (ExecBegin \/ ExecReturns \/ ExecEnd) /\ UNCHANGED recordVars
    BY <2>2, RecordsStay
       DEF ExecBegin, ExecReturns, ExecEnd, Q!PopBegin, Q!PopStep, queueVars, recordVars
  <2>3. CASE OtherPops /\ UNCHANGED recordVars
    BY <2>3, RecordsStay
       DEF OtherPops, Q!PopCount, Q!PopMiss, Q!AdaptivePop, Q!PopStep, recordVars
  <2> QED
    BY <1>2, <2>1, <2>2, <2>3 DEF WriterRuns
<1>3. ASSUME NEW c \in Controllers,
             \/ StartAlreadyOpen(c) \/ StartSeesClosed(c)
             \/ StopAlreadyClosed(c) \/ StopSeesOpen(c)
             \/ CtlProgress(c) \/ SpuriousWake(c),
             UNCHANGED recordVars
      PROVE  LoggerInv'
  <2>1. UNCHANGED <<queued, push, pop>>
    BY <1>3 DEF StartAlreadyOpen, StartSeesClosed, StopAlreadyClosed, StopSeesOpen, SpuriousWake,
       CtlProgress, StartOpens, StartCreates, StartFails, StartWaits, StopCloses, StopEnters,
       StopWaits, StopReaps, Q!Open, Q!Close, queueVars
  <2> QED
    BY <1>3, <2>1, RecordsStay DEF recordVars
<1>4. ASSUME NEW p \in Producers, Build(p) \/ PushAdmitted(p) \/ PushClosed(p) \/ LogProgress(p)
      PROVE  LoggerInv'
  BY <1>4, BuildKeeps, PushStepsKeep, PushStoredKeeps, HandlerEndsKeeps DEF LogProgress
<1> QED
  BY <1>1, <1>2, <1>3, <1>4 DEF LoggerNext

(***************************************************************************)
(* A set with at most one element has that many.                           *)
(***************************************************************************)
LEMMA AtMostOne ==
    ASSUME NEW S, \A x, y \in S : x = y
    PROVE  Cardinality(S) = One(S # {})
<1>1. CASE S = {}
  BY <1>1, FS_EmptySet DEF One
<1>2. CASE S # {}
  <2>1. PICK x : S = {x}
    BY <1>2
  <2> QED
    BY <2>1, FS_Singleton DEF One
<1> QED
  BY <1>1, <1>2

(***************************************************************************)
(* However many threads log, however many records there are and however    *)
(* the queue is opened and closed meanwhile: no record is freed while the  *)
(* queue or the writer has it, each is written once, none is kept.         *)
(***************************************************************************)
THEOREM EachRecordOnceCorrect == LoggerSpec => []EachRecordOnce
<1>1. LoggerInv => EachRecordOnce
  <2> SUFFICES ASSUME LoggerInv, NEW r \in Records
               PROVE  /\ refs[r] = Holders(r)
                      /\ refs[r] = 0 => lines[r] = 1
                      /\ r \in Range(fifo) \cup {item} => lines[r] = 0
    BY DEF EachRecordOnce
  <2> USE DEF LoggerInv
  <2> DEFINE held     == {p \in Producers : data[p] = r}
             pushed   == {p \in Producers : data[p] = r /\ push[p] # "idle"}
             admitted == {p \in Producers : data[p] = r /\ push[p] = "admitted"}
             places   == {i \in 1..Len(fifo) : fifo[i] = r}
  <2>1. /\ \A p, q \in held : p = q
        /\ \A p, q \in pushed : p = q
        /\ \A p, q \in admitted : p = q
        /\ \A i, j \in places : i = j
    BY RecordAssumption DEF Apart
  <2>2. /\ Held(r) <=> held # {}
        /\ Pushed(r) <=> pushed # {}
        /\ Admitted(r) <=> admitted # {}
        /\ InFifo(r) <=> places # {}
    BY DEF Held, Pushed, Admitted, InFifo
  <2> HIDE DEF held, pushed, admitted, places
  <2>3. /\ Cardinality(held) = One(Held(r))
        /\ Cardinality(pushed) = One(Pushed(r))
        /\ Cardinality(admitted) = One(Admitted(r))
        /\ Cardinality(places) = One(InFifo(r))
    BY <2>1, <2>2, AtMostOne DEF One
  <2>4. refs[r] = Holders(r)
    BY <2>3 DEF Holders, Counted, held, pushed, admitted, places, One
  <2>5. refs[r] = 0 => ~Held(r) /\ ~InFifo(r) /\ item # r
    BY DEF Counted, One
  <2>6. r \in Range(fifo) \cup {item} => Waits(r)
    BY DEF Range, Waits, InFifo, LoggerTypes
  <2> QED
    BY <2>4, <2>5, <2>6 DEF Written, Waits, Held, Unpushed
<1> QED
  BY <1>1, InitLogger, NextLogger, PTL DEF LoggerSpec

(***************************************************************************)
(* Whatever the logger does is a step of the thread it is made of, so what *)
(* is proved of LockFreeQueueThread above holds of the logger.             *)
(***************************************************************************)
THEOREM LoggerIsAQueueThread == LoggerSpec => SafeSpec
<1>1. LoggerInit => Init
  BY DEF LoggerInit
<1>2. [LoggerNext]_loggerVars => [Next]_vars
  <2> SUFFICES ASSUME LoggerNext PROVE Next \/ UNCHANGED vars
    BY DEF loggerVars
  <2>1. ASSUME NEW p \in Producers, Build(p) \/ PushAdmitted(p) \/ PushClosed(p) \/ LogProgress(p)
        PROVE  Push(p) \/ UNCHANGED vars
    BY <2>1 DEF Build, PushAdmitted, PushClosed, LogProgress, PushStored, PushRejected, PushReturns,
       PrintHere, Push, Q!PushProgress
  <2>2. CASE WriterRuns
    BY <2>2 DEF WriterRuns, Take, PrintTaken, OtherPops, Next, ExecProgress, ExecPops, Q!PopProgress
  <2> QED
    BY <2>1, <2>2 DEF LoggerNext, Next
<1> QED
  BY <1>1, <1>2, PTL DEF LoggerSpec, SafeSpec
=============================================================================
