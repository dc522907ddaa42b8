----------------------- MODULE BlockingThread_proofs -----------------------
(***************************************************************************)
(* Theorems about BlockingThread, with either container, any producers and *)
(* any bounds: a timeout is never told over an item that was notified or a *)
(* close, for any set of controllers; and for one controller a stopped     *)
(* object has no thread, and no items but those of a backoff_push or a     *)
(* swap() and those of a container whose thread could not be created.      *)
(***************************************************************************)
EXTENDS BlockingThread, TLAPS

USE BoundAssumption DEF BoundAssumption

(***************************************************************************)
(* What the container keeps, whoever uses it: the notification of an item  *)
(* or a close is pending for as long as the consumer waits.                *)
(***************************************************************************)
Notified == /\ queued \in Nat
            /\ signaled \in BOOLEAN
            /\ silent \in BOOLEAN
            /\ pop = "waiting" /\ ((queued > 0 /\ ~silent) \/ ~open) => signaled

LEMMA NotifyOneSignals ==
  ASSUME signaled \in BOOLEAN, W!Sig!NotifyOne PROVE signaled' \in BOOLEAN /\ signaled'
BY DEF W!Sig!NotifyOne

\* The steps of producers and controllers on the container.
OthersStep == \/ W!Open \/ W!Close \/ W!Push \/ W!Swap
              \/ W!VOpen \/ W!VClose \/ W!VPush
              \/ \E p \in Producers : W!BackoffPush(p)

\* The steps of the thread on the container.
ConsumerStep == \/ W!PopProgress \/ W!VPopProgress
                \/ W!PopTimeOut \/ W!SpuriousWake \/ W!PopBegin

LEMMA OthersKeepNotified == ASSUME Notified, OthersStep PROVE Notified' /\ pop' = pop
<1> USE DEF Notified
<1>1. CASE W!Open \/ W!Close \/ W!VClose
  BY <1>1, NotifyOneSignals DEF W!Open, W!Close, W!VClose, W!SetOpen
<1>2. CASE W!Push
  BY <1>2, NotifyOneSignals DEF W!Push
<1>3. CASE W!VOpen
  BY <1>3 DEF W!VOpen, W!sigVars
<1>6. CASE W!Swap
  <2>1. queued' \in Nat /\ UNCHANGED <<open, signaled, pop>>
    BY <1>6 DEF W!Swap, W!sigVars
  <2>2. silent' = (queued' > 0)
    BY <1>6 DEF W!Swap
  <2>3. silent' \in BOOLEAN
    BY <2>1, <2>2
  <2>4. queued' > 0 => silent'
    BY <2>1, <2>2
  <2> QED BY <2>1, <2>3, <2>4
<1>4. CASE W!VPush
  BY <1>4, NotifyOneSignals DEF W!VPush
<1>5. ASSUME NEW p \in Producers, W!BackoffPush(p) PROVE Notified' /\ pop' = pop
  BY <1>5, NotifyOneSignals DEF W!BackoffPush, W!BackoffStores, W!BackoffFails, W!BackoffReturns,
     W!BackoffSleeps, W!sigVars
<1> QED
  BY <1>1, <1>2, <1>3, <1>4, <1>5, <1>6 DEF OthersStep

LEMMA ConsumerKeepsNotified ==
  ASSUME Notified, ConsumerStep
  PROVE  /\ Notified'
         /\ open' = open
         /\ pop = "waiting" /\ pop' = "handling" => (queued = 0 \/ silent) /\ open
<1> USE DEF Notified, W!PopStep, W!sigVars
<1>1. CASE W!PopTake \/ W!VPopTake
  <2>1. queued' \in Nat
    BY <1>1 DEF W!PopTake, W!VPopTake
  <2>2. pop = "look" /\ pop' = "handling" /\ open' = open /\ signaled' \in BOOLEAN
    BY <1>1 DEF W!PopTake, W!VPopTake
  <2>3. silent' \in BOOLEAN
    BY <1>1 DEF W!PopTake, W!VPopTake
  <2>4. pop' # "waiting" /\ pop # "waiting"
    BY <2>2
  <2> QED BY <2>1, <2>2, <2>3, <2>4 DEF Notified
<1>2. CASE W!PopClosed \/ W!Handled \/ W!PopBegin
  BY <1>2 DEF W!PopClosed, W!Handled, W!PopBegin
<1>3. CASE W!PopWait \/ W!PopWake
  <2>1. UNCHANGED <<open, queued, silent>> /\ pop' # "handling"
    BY <1>3 DEF W!PopWait, W!PopWake
  <2>2. CASE W!Sig!TakeSignal("executor") /\ pop' = "look"
    BY <2>1, <2>2 DEF W!Sig!TakeSignal
  <2>3. CASE W!Sig!Block("executor") /\ pop' = "waiting"
    BY <1>3, <2>1, <2>3 DEF W!PopWait, W!PopWake, W!Sig!Block
  <2> QED BY <1>3, <2>2, <2>3 DEF W!PopWait, W!PopWake
<1>4. CASE W!PopTimeOut
  BY <1>4 DEF W!PopTimeOut, W!Sig!TimeOut
<1>5. CASE W!SpuriousWake
  BY <1>5 DEF W!SpuriousWake, W!Sig!SpuriousWake
<1> QED
  BY <1>1, <1>2, <1>3, <1>4, <1>5 DEF ConsumerStep, W!PopProgress, W!VPopProgress

(***************************************************************************)
(* Every step leaves the container alone or is one of the two kinds.       *)
(***************************************************************************)
LEMMA StepsOfTheContainer ==
  ASSUME [Next]_vars
  PROVE  UNCHANGED <<open, queued, signaled, pop, silent>> \/ OthersStep \/ ConsumerStep
<1>1. CASE UNCHANGED vars
  BY <1>1 DEF vars, waiterVars
<1>2. ASSUME NEW c \in Controllers, StartSeesClosed(c) \/ StopSeesOpen(c) \/ CtlProgress(c)
      PROVE  UNCHANGED <<open, queued, signaled, pop, silent>> \/ OthersStep
  BY <1>2 DEF StartSeesClosed, StopSeesOpen, CtlProgress, StartOpens, StartCreates, StartFails,
     StartWaits, StopCloses, StopJoins, waiterVars, OthersStep
<1>3. CASE ExecProgress \/ ExecTimesOut \/ SpuriousWake
  BY <1>3 DEF ExecProgress, ExecBegin, ExecPops, ExecReturns, ExecEnd, ExecTimesOut, SpuriousWake,
     waiterVars, ConsumerStep
<1>4. CASE Push \/ \E p \in Producers : Backoff(p)
  BY <1>4 DEF Push, Backoff, OthersStep
<1> QED
  BY <1>1, <1>2, <1>3, <1>4 DEF Next

LEMMA NotifiedInit == Init => Notified
<1> SUFFICES ASSUME Init PROVE Notified
  OBVIOUS
<1>1. signaled = FALSE /\ queued = 0 /\ pop = "ended" /\ silent = FALSE
  BY DEF Init, W!VInit, W!Init, W!Sig!SigInit
<1> QED
  BY <1>1 DEF Notified

LEMMA NotifiedNext == Notified /\ [Next]_vars => Notified'
<1> SUFFICES ASSUME Notified, [Next]_vars PROVE Notified'
  OBVIOUS
<1>1. CASE UNCHANGED <<open, queued, signaled, pop, silent>>
  BY <1>1 DEF Notified
<1> QED
  BY <1>1, StepsOfTheContainer, OthersKeepNotified, ConsumerKeepsNotified

LEMMA NotifiedCorrect == SafeSpec => []Notified
BY NotifiedInit, NotifiedNext, PTL DEF SafeSpec

(***************************************************************************)
(* ETIMEDOUT means that there was nothing that had been notified, and that *)
(* the container is open.                                                  *)
(***************************************************************************)
THEOREM TimeoutIsHonestCorrect == SafeSpec => TimeoutIsHonest
<1>1. ASSUME Notified, [Next]_vars
      PROVE  [pop = "waiting" /\ pop' = "handling" => (queued = 0 \/ silent) /\ open]_vars
  <2>1. CASE UNCHANGED <<open, queued, signaled, pop, silent>>
    BY <2>1
  <2> QED
    BY <1>1, <2>1, StepsOfTheContainer, OthersKeepNotified, ConsumerKeepsNotified
<1> QED
  BY <1>1, NotifiedCorrect, PTL DEF SafeSpec, TimeoutIsHonest
-----------------------------------------------------------------------------
(***************************************************************************)
(* One controller: where it is tells the state of container and thread.    *)
(***************************************************************************)
OneController == \E c \in Controllers : Controllers = {c}

Drained == queued = 0 \/ late = TRUE \/ silent = TRUE

NoThread == ~started /\ ~running /\ exec = "none" /\ pop = "ended"
Created == started /\ ~running /\ exec = "created" /\ pop = "ended"
Popping == started /\ running /\ exec = "running" /\ pop # "ended"

\* The container is closed, and the thread may be at any place of its end.
Leaving == /\ started
           /\ \/ running /\ exec = "running" /\ (pop = "ended" => Drained)
              \/ running /\ exec = "returned" /\ pop = "ended" /\ Drained
              \/ ~running /\ exec = "exited" /\ pop = "ended" /\ Drained

\* The thread could not be created, and none has been since.
Lonely == NoThread /\ failed = TRUE

Stopped(c) == /\ call[c] = "none"
              /\ ctl[c] = "idle"
              /\ ~open
              /\ NoThread
              /\ Drained \/ failed = TRUE
Serving(c) == call[c] = "none" /\ ctl[c] = "idle" /\ open /\ (Popping \/ Lonely)
Opening(c) == call[c] = "open" /\ ctl[c] = "idle" /\ ~open /\ NoThread
Starting(c) == /\ call[c] = "start"
               /\ open
               /\ \/ ctl[c] = "start" /\ NoThread
                  \/ ctl[c] \in T!StartWaits /\ (Created \/ Popping)
Closing(c) == call[c] = "close" /\ ctl[c] = "idle" /\ open /\ (Popping \/ Lonely)
Joining(c) == /\ call[c] = "join"
              /\ ~open
              /\ \/ ctl[c] \in {"join", "reaping"} \cup T!JoinWaits /\ Leaving
                 \/ ctl[c] = "join" /\ Lonely

Phases(c) == \/ Stopped(c) \/ Serving(c) \/ Opening(c)
             \/ Starting(c) \/ Closing(c) \/ Joining(c)
Types == /\ open \in BOOLEAN
         /\ call \in [Controllers -> CallStates]
         /\ ctl \in [Controllers -> T!CtlStates]
Inv == Types /\ \A c \in Controllers : Phases(c)

LEMMA InitInv == Init => Inv
<1> SUFFICES ASSUME Init PROVE Inv
  OBVIOUS
<1>1. Types
  BY DEF Init, T!Init, Types, CallStates, T!CtlStates
<1>2. ASSUME NEW c \in Controllers PROVE Stopped(c)
  BY DEF Init, W!VInit, W!Init, T!Init, Stopped, NoThread, Drained
<1> QED
  BY <1>1, <1>2 DEF Inv, Phases

(***************************************************************************)
(* The phases a controller goes through in start() and stop().             *)
(***************************************************************************)
LEMMA ControllerKeepsInv ==
  ASSUME Inv, NEW c \in Controllers, Controllers = {c},
         StartSeesClosed(c) \/ StopSeesOpen(c) \/ CtlProgress(c)
  PROVE  Inv'
<1> SUFFICES Types' /\ Phases(c)'
  BY DEF Inv
<1> USE DEF Inv, Types, Goto, waiterVars, threadVars, callVars
<1>1. CASE StartSeesClosed(c)
  <2>1. Stopped(c)
    BY <1>1 DEF StartSeesClosed, Phases, Stopped, Serving, Opening, Starting, Closing, Joining
  <2>2. Opening(c)' /\ Types'
    BY <1>1, <2>1 DEF StartSeesClosed, Stopped, Opening, NoThread, CallStates
  <2> QED BY <2>2 DEF Phases
<1>2. CASE StopSeesOpen(c)
  <2>1. Serving(c)
    BY <1>2 DEF StopSeesOpen, Phases, Stopped, Serving, Opening, Starting, Closing, Joining
  <2>2. Closing(c)' /\ Types'
    BY <1>2, <2>1 DEF StopSeesOpen, Serving, Closing, Popping, Lonely, NoThread, CallStates
  <2> QED BY <2>2 DEF Phases
<1>3. CASE StartOpens(c)
  <2>1. Opening(c)
    BY <1>3 DEF StartOpens, Phases, Stopped, Serving, Opening, Starting, Closing, Joining
  <2>2. open' = TRUE /\ UNCHANGED <<pop, started, running, exec>>
    BY <1>3 DEF StartOpens, W!Open, W!SetOpen, W!VOpen
  <2>3. call'[c] = "start" /\ ctl'[c] = "start" /\ Types'
    BY <1>3, <2>2 DEF StartOpens, CallStates, T!CtlStep, T!CtlStates
  <2> QED BY <2>1, <2>2, <2>3 DEF Phases, Opening, Starting, NoThread
<1>4. CASE StartCreates(c)
  <2>1. Starting(c) /\ NoThread
    BY <1>4 DEF StartCreates, T!StartCreate, T!CtlStep, Phases, Stopped, Serving, Opening,
       Starting, Closing, Joining, T!StartWaits, T!JoinWaits
  <2>2. Created'
    BY <1>4, <2>1 DEF StartCreates, T!StartCreate, T!sigVars, NoThread, Created
  <2>3. Starting(c)' /\ Types'
    BY <1>4, <2>1, <2>2 DEF StartCreates, T!StartCreate, T!CtlStep, Starting, T!StartWaits, T!CtlStates
  <2> QED BY <2>3 DEF Phases
<1>5. CASE StartWaits(c)
  <2>1. Starting(c) /\ ctl[c] \in T!StartWaits /\ (Created \/ Popping)
    BY <1>5 DEF StartWaits, T!StartWait, Phases, Stopped, Serving, Opening,
       Starting, Closing, Joining, T!StartWaits, T!JoinWaits
  <2>2. UNCHANGED <<open, pop, started, running, exec>>
    BY <1>5 DEF StartWaits, T!StartWait
  <2>3. CASE c \in runBlocked'
    <3>1. ctl'[c] = "start_wait" /\ call' = call
      BY <1>5, <2>3 DEF StartWaits, T!StartWait
    <3>2. Starting(c)' /\ Types'
      BY <1>5, <2>1, <2>2, <2>3, <3>1 DEF StartWaits, T!StartWait, Starting, Created, Popping,
         T!StartWaits, T!CtlStates
    <3> QED BY <3>2 DEF Phases
  <2>4. CASE c \notin runBlocked'
    <3>1. running
      BY <1>5, <2>4 DEF StartWaits, T!StartWait, T!Sig!EvalFunc
    <3>2. ctl'[c] = "idle" /\ call'[c] = "none"
      BY <1>5, <2>4 DEF StartWaits, T!StartWait
    <3>3. Serving(c)' /\ Types'
      BY <1>5, <2>1, <2>2, <2>4, <3>1, <3>2 DEF StartWaits, T!StartWait, Starting, Serving, Created,
         Popping, CallStates, T!CtlStates
    <3> QED BY <3>3 DEF Phases
  <2> QED BY <2>3, <2>4
<1>8. CASE StartFails(c)
  <2>1. Starting(c) /\ NoThread
    BY <1>8 DEF StartFails, T!StartFails, T!CtlStep, Phases, Stopped, Serving, Opening,
       Starting, Closing, Joining, T!StartWaits, T!JoinWaits
  <2>2. Lonely'
    BY <1>8, <2>1 DEF StartFails, T!StartFails, NoThread, Lonely
  <2>3. call'[c] = "none" /\ ctl'[c] = "idle" /\ open' = open /\ Types'
    BY <1>8 DEF StartFails, T!StartFails, T!CtlStep, CallStates, T!CtlStates
  <2> QED BY <2>1, <2>2, <2>3 DEF Phases, Starting, Serving
<1>6. CASE StopCloses(c)
  <2>1. Closing(c)
    BY <1>6 DEF StopCloses, Phases, Stopped, Serving, Opening, Starting, Closing, Joining
  <2>2. open' = FALSE /\ UNCHANGED <<pop, started, running, exec, failed>>
    BY <1>6 DEF StopCloses, W!Close, W!VClose, W!SetOpen
  <2>3. call'[c] = "join" /\ ctl'[c] = "join" /\ Types'
    BY <1>6, <2>2 DEF StopCloses, CallStates, T!CtlStep, T!CtlStates
  <2>4. Leaving' \/ Lonely'
    BY <2>1, <2>2 DEF Closing, Popping, Leaving, Lonely, NoThread
  <2> QED BY <2>2, <2>3, <2>4 DEF Phases, Joining
<1>7. CASE StopJoins(c)
  <2>1. Joining(c)
    BY <1>7 DEF StopJoins, T!JoinEnter, T!JoinWait, T!JoinReap, T!CtlStep, Phases, Stopped, Serving,
       Opening, Starting, Closing, Joining, T!StartWaits, T!JoinWaits
  <2>4. CASE ctl[c] = "join" /\ Lonely
    <3>1. T!JoinEnter(c) /\ ~started /\ Goto(c, "join", "none")
      BY <1>7, <2>4 DEF StopJoins, T!JoinEnter, T!JoinWait, T!JoinReap, T!CtlStep, T!JoinWaits,
         Lonely, NoThread
    <3>2. UNCHANGED <<open, queued, late, silent, failed, pop, started, running, exec>>
      BY <1>7, <3>1 DEF StopJoins, T!JoinEnter
    <3>3. call'[c] = "none" /\ ctl'[c] = "idle" /\ Types'
      BY <3>1, <3>2 DEF T!JoinEnter, T!CtlStep, CallStates, T!CtlStates
    <3> QED BY <2>1, <2>4, <3>2, <3>3 DEF Phases, Joining, Stopped, Lonely, NoThread
  <2> SUFFICES ASSUME ctl[c] \in {"join", "reaping"} \cup T!JoinWaits, Leaving
               PROVE  Types' /\ Phases(c)'
    BY <2>1, <2>4 DEF Joining
  <2>2. CASE T!JoinReap(c)
    <3>1. Goto(c, "join", "none")
      BY <1>7, <2>2 DEF StopJoins, T!JoinEnter, T!JoinWait, T!JoinReap, T!CtlStep, T!JoinWaits
    <3>2. NoThread' /\ Drained' /\ open' = open
      BY <1>7, <2>1, <2>2 DEF StopJoins, T!JoinReap, T!sigVars, Leaving, NoThread, Drained
    <3>3. call'[c] = "none" /\ ctl'[c] = "idle" /\ Types'
      BY <2>2, <3>1, <3>2 DEF T!JoinReap, T!CtlStep, CallStates, T!CtlStates
    <3> QED BY <2>1, <3>2, <3>3 DEF Phases, Joining, Stopped
  <2>3. CASE (T!JoinEnter(c) \/ T!JoinWait(c)) /\ started /\ UNCHANGED call
    <3>1. ctl'[c] \in {"reaping"} \cup T!JoinWaits /\ Types'
      BY <1>7, <2>3 DEF StopJoins, T!JoinEnter, T!JoinWait, T!CtlStep, T!JoinWaits, T!CtlStates
    <3>2. UNCHANGED <<open, queued, late, silent, pop, started, running, exec>>
      BY <1>7, <2>3 DEF StopJoins, T!JoinEnter, T!JoinWait
    <3> QED BY <2>1, <2>3, <3>1, <3>2 DEF Phases, Joining, Leaving, Drained
  <2> QED BY <1>7, <2>2, <2>3 DEF StopJoins, Leaving
<1> QED
  BY <1>1, <1>2, <1>3, <1>4, <1>5, <1>6, <1>7, <1>8 DEF CtlProgress

\* A pop ends over an empty and closed container only.
LEMMA PopMoves ==
  ASSUME ExecPops \/ ExecTimesOut
  PROVE  open' = open /\ pop # "ended" /\ (pop' = "ended" => ~open /\ queued' = 0)
BY DEF ExecPops, ExecTimesOut, W!PopProgress, W!VPopProgress, W!PopTake, W!VPopTake, W!PopClosed,
       W!PopWait, W!PopWake, W!PopTimeOut, W!Handled, W!PopStep

LEMMA ExecutorKeepsInv ==
  ASSUME Inv, ExecProgress \/ ExecTimesOut \/ SpuriousWake
  PROVE  Inv'
<1> USE DEF Inv, Types, waiterVars, threadVars, callVars
<1>1. ctl' = ctl /\ call' = call /\ open' = open /\ failed' = failed
  BY PopMoves DEF ExecProgress, ExecBegin, ExecPops, ExecReturns, ExecEnd, ExecTimesOut, SpuriousWake,
     T!ExecBegin, T!RunReturns, T!ExecEnd, W!PopBegin, W!SpuriousWake
<1> SUFFICES ASSUME NEW c \in Controllers PROVE Phases(c)'
  BY <1>1
<1> USE DEF Phases, Stopped, Serving, Opening, Starting, Closing, Joining
<1>2. CASE ExecBegin
  <2>1. Starting(c) /\ ctl[c] \in T!StartWaits /\ Created
    BY <1>2 DEF ExecBegin, T!ExecBegin, NoThread, Lonely, Popping, Created, Leaving
  <2>2. Popping'
    BY <1>2, <2>1 DEF ExecBegin, T!ExecBegin, W!PopBegin, W!PopStep, Created, Popping
  <2> QED BY <1>1, <2>1, <2>2
<1>3. CASE ExecPops \/ ExecTimesOut
  <2>1. pop # "ended" /\ (pop' = "ended" => ~open /\ queued' = 0) /\ UNCHANGED <<started, running, exec>>
    BY <1>3, PopMoves DEF ExecPops, ExecTimesOut
  <2> QED
    BY <1>1, <2>1 DEF NoThread, Lonely, Popping, Created, Leaving, Drained
<1>4. CASE ExecReturns
  <2>1. Joining(c) /\ Leaving /\ exec = "running"
    BY <1>4 DEF ExecReturns, T!RunReturns, NoThread, Lonely, Popping, Created, Leaving
  <2>2. Leaving'
    BY <1>4, <2>1 DEF ExecReturns, T!RunReturns, Leaving, Drained
  <2> QED BY <1>1, <2>1, <2>2
<1>5. CASE ExecEnd
  <2>1. Joining(c) /\ Leaving /\ exec = "returned"
    BY <1>5 DEF ExecEnd, T!ExecEnd, NoThread, Lonely, Popping, Created, Leaving
  <2>2. Leaving'
    BY <1>5, <2>1 DEF ExecEnd, T!ExecEnd, Leaving, Drained
  <2> QED BY <1>1, <2>1, <2>2
<1>6. CASE SpuriousWake
  BY <1>6 DEF SpuriousWake, W!SpuriousWake, NoThread, Lonely, Popping, Created, Leaving, Drained
<1> QED
  BY <1>2, <1>3, <1>4, <1>5, <1>6 DEF ExecProgress

\* A closed container refuses its producers, except backoff_push, which is late.
LEMMA ProducersKeepInv ==
  ASSUME Inv, Push \/ \E p \in Producers : Backoff(p)
  PROVE  Inv'
<1>1. UNCHANGED <<open, pop, threadVars, callVars>>
  BY DEF Push, Backoff, W!Push, W!Swap, W!VPush, W!BackoffPush, W!BackoffStores, W!BackoffFails,
     W!BackoffReturns, W!BackoffSleeps
<1>2. ~open /\ Drained => Drained'
  <2>1. CASE W!Swap
    <3>1. CASE queued' > 0
      BY <2>1, <3>1, Zenon DEF W!Swap, Drained
    <3>2. CASE ~(queued' > 0)
      BY <2>1, <3>2 DEF W!Swap, Drained
    <3> QED BY <3>1, <3>2
  <2>2. CASE ~W!Swap
    BY <2>2 DEF Push, Backoff, IsDeque, W!Push, W!VPush, W!BackoffPush, W!BackoffStores,
       W!BackoffFails, W!BackoffReturns, W!BackoffSleeps, Drained
  <2> QED BY <2>1, <2>2
<1> QED
  BY <1>1, <1>2 DEF Inv, Types, threadVars, callVars, Phases, Stopped, Serving, Opening, Starting, Closing,
     Joining, NoThread, Lonely, Popping, Created, Leaving

LEMMA InvNext == OneController /\ Inv /\ [Next]_vars => Inv'
<1> SUFFICES ASSUME OneController, Inv, [Next]_vars PROVE Inv'
  OBVIOUS
<1>1. PICK c \in Controllers : Controllers = {c}
  BY DEF OneController
<1>2. CASE UNCHANGED vars
  BY <1>2 DEF vars, waiterVars, threadVars, callVars, Inv, Types, Phases, Stopped, Serving, Opening,
     Starting, Closing, Joining, NoThread, Lonely, Popping, Created, Leaving, Drained
<1>3. CASE ExecProgress \/ ExecTimesOut \/ SpuriousWake
  BY <1>3, ExecutorKeepsInv
<1>4. CASE Push \/ \E p \in Producers : Backoff(p)
  BY <1>4, ProducersKeepInv
<1>5. CASE \E d \in Controllers : StartSeesClosed(d) \/ StopSeesOpen(d) \/ CtlProgress(d)
  <2>1. StartSeesClosed(c) \/ StopSeesOpen(c) \/ CtlProgress(c)
    BY <1>1, <1>5
  <2> QED BY <1>1, <2>1, ControllerKeepsInv
<1> QED
  BY <1>2, <1>3, <1>4, <1>5 DEF Next

LEMMA InvCorrect == ASSUME OneController PROVE SafeSpec => []Inv
BY InitInv, InvNext, PTL DEF SafeSpec

(***************************************************************************)
(* A stopped object has no thread, and nothing is left in its container    *)
(* but what backoff_push stored in a closed vector, what swap() put there, *)
(* and what was pushed after a start() that could not create its thread.   *)
(***************************************************************************)
THEOREM StoppedMeansDrainedCorrect ==
  ASSUME OneController PROVE SafeSpec => []StoppedMeansDrained
<1>1. Inv => StoppedMeansDrained
  <2> SUFFICES ASSUME Inv, Idle, ~open PROVE exec = "none" /\ (queued = 0 \/ late \/ silent \/ failed)
    BY DEF StoppedMeansDrained
  <2>1. PICK c \in Controllers : Controllers = {c}
    BY DEF OneController
  <2>2. Stopped(c)
    BY <2>1 DEF Inv, Idle, Phases, Stopped, Serving, Opening, Starting, Closing, Joining
  <2> QED BY <2>2 DEF Stopped, NoThread, Drained
<1> QED
  BY <1>1, InvCorrect, PTL
=============================================================================
