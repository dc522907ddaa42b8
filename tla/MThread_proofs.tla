--------------------------- MODULE MThread_proofs ---------------------------
(***************************************************************************)
(* Theorems about MThread, for any set of controllers, whether or not      *)
(* run() may return early.                                                 *)
(***************************************************************************)
EXTENDS MThread, TLAPS

(***************************************************************************)
(* The invariants need each other: that nobody else is inside start() or   *)
(* join() when the flags change is OneWaiter, and lock_ is what keeps it.  *)
(***************************************************************************)
Inv == TypeOK /\ OneWaiter /\ FlagsTellTheThread

LEMMA InvInit == Init => Inv
BY DEF Init, Inv, TypeOK, OneWaiter, FlagsTellTheThread, Holds, StartWaits, JoinWaits,
       CtlStates, ExecStates, Sig!SigInit

\* A controller moves and the others stay; it may enter only if lock_ is free.
LEMMA MoveKeepsOneWaiter ==
  ASSUME Inv, NEW c \in Controllers, NEW to \in CtlStates,
         ctl' = [ctl EXCEPT ![c] = to],
         LockFree \/ Holds(c) \/ to \in {"idle", "start", "join"}
  PROVE  OneWaiter' /\ ctl' \in [Controllers -> CtlStates]
BY DEF Inv, TypeOK, OneWaiter, LockFree, Holds, StartWaits, JoinWaits

\* What the steps of a controller keep.
LEMMA ControllerKeepsInv ==
  ASSUME Inv, NEW c \in Controllers,
         \/ Call(c) \/ StartCreate(c) \/ StartFails(c) \/ JoinEnter(c)
         \/ CtlProgress(c) \/ SpuriousWake(c)
  PROVE  Inv'
<1> USE DEF Inv, CtlStates, StartWaits, JoinWaits, CtlStep
<1>1. CASE Call(c) \/ StartFails(c)
  <2>1. OneWaiter' /\ ctl' \in [Controllers -> CtlStates]
    BY <1>1, MoveKeepsOneWaiter DEF Call, StartFails
  <2>2. \A d \in Controllers : Holds(d)' <=> Holds(d)
    BY <1>1 DEF Call, StartFails, Holds, TypeOK
  <2> QED
    BY <1>1, <2>1, <2>2 DEF Call, StartFails, sigVars, TypeOK, FlagsTellTheThread, Holds, Starting
<1>2. CASE StartCreate(c)
  <2>1. OneWaiter' /\ ctl' \in [Controllers -> CtlStates]
    BY <1>2, MoveKeepsOneWaiter DEF StartCreate
  <2>2. ctl'[c] = "starting" /\ \A d \in Controllers : ctl'[d] # "reaping"
    BY <1>2 DEF StartCreate, LockFree, Holds, TypeOK
  <2> QED
    BY <1>2, <2>1, <2>2
    DEF StartCreate, sigVars, TypeOK, ExecStates, FlagsTellTheThread, Holds, Starting
<1>3. CASE StartWait(c)
  <2> DEFINE to == IF c \in blocked' THEN "start_wait" ELSE "idle"
  <2>1. OneWaiter' /\ ctl' \in [Controllers -> CtlStates]
    BY <1>3, MoveKeepsOneWaiter DEF StartWait, Holds
  <2>2. to = "idle" => running
    BY <1>3 DEF StartWait, Sig!EvalFunc
  <2>3. \A d \in Controllers : d # c => ctl'[d] = ctl[d]
    BY <1>3 DEF StartWait
  <2>4. ctl'[c] = to
    BY <1>3 DEF StartWait, TypeOK
  <2>5. TypeOK'
    BY <1>3, <2>1, <2>3, <2>4 DEF StartWait, Sig!EvalFunc, TypeOK
  <2>6. FlagsTellTheThread'
    BY <1>3, <2>2, <2>3, <2>4 DEF StartWait, FlagsTellTheThread, Holds, Starting
  <2> QED
    BY <2>1, <2>5, <2>6
<1>4. CASE JoinEnter(c)
  <2> DEFINE to == IF started THEN "joining" ELSE "idle"
  <2>1. OneWaiter' /\ ctl' \in [Controllers -> CtlStates]
    BY <1>4, MoveKeepsOneWaiter DEF JoinEnter
  <2>2. ctl'[c] = to /\ \A d \in Controllers : ctl[d] \notin StartWaits \cup {"reaping"}
    BY <1>4 DEF JoinEnter, LockFree, Holds, TypeOK
  <2> QED
    BY <1>4, <2>1, <2>2 DEF JoinEnter, sigVars, TypeOK, FlagsTellTheThread, Holds, Starting
<1>5. CASE JoinWait(c)
  <2> DEFINE to == IF c \in blocked' THEN "join_wait" ELSE "reaping"
  <2>1. OneWaiter' /\ ctl' \in [Controllers -> CtlStates]
    BY <1>5, MoveKeepsOneWaiter DEF JoinWait, Holds
  <2>2. to = "reaping" => ~running
    BY <1>5 DEF JoinWait, Sig!EvalFunc
  <2>3. \A d \in Controllers : d # c => ctl'[d] = ctl[d]
    BY <1>5 DEF JoinWait
  <2>4. ctl'[c] = to
    BY <1>5 DEF JoinWait, TypeOK
  <2>5. TypeOK'
    BY <1>5, <2>1, <2>3, <2>4 DEF JoinWait, Sig!EvalFunc, TypeOK
  <2>6. FlagsTellTheThread'
    BY <1>5, <2>2, <2>3, <2>4 DEF JoinWait, FlagsTellTheThread, Holds, Starting, TypeOK
  <2> QED
    BY <2>1, <2>5, <2>6
<1>6. CASE JoinReap(c)
  <2>1. OneWaiter' /\ ctl' \in [Controllers -> CtlStates]
    BY <1>6, MoveKeepsOneWaiter DEF JoinReap
  <2>2. \A d \in Controllers : ~Holds(d)'
    BY <1>6 DEF JoinReap, OneWaiter, Holds, TypeOK
  <2> QED
    BY <1>6, <2>1, <2>2 DEF JoinReap, sigVars, TypeOK, ExecStates, FlagsTellTheThread, Holds
<1>7. CASE SpuriousWake(c)
  BY <1>7 DEF SpuriousWake, Sig!SpuriousWake, TypeOK, OneWaiter, FlagsTellTheThread, Holds, Starting
<1> QED
  BY <1>1, <1>2, <1>3, <1>4, <1>5, <1>6, <1>7 DEF CtlProgress

\* What the steps of the thread keep.
LEMMA ExecutorKeepsInv ==
  ASSUME Inv, ExecBegin \/ RunReturns \/ ExecEnd
  PROVE  Inv'
<1> USE DEF Inv, StartWaits, JoinWaits
<1>1. ctl' = ctl /\ started' = started
  BY DEF ExecBegin, RunReturns, ExecEnd
<1>2. OneWaiter'
  BY <1>1 DEF OneWaiter, Holds
<1>3. signaled' \in BOOLEAN /\ blocked' \subseteq blocked
  BY DEF ExecBegin, RunReturns, ExecEnd, sigVars, Sig!NotifyOne, Sig!WakeOne, TypeOK
<1>4. TypeOK'
  BY <1>1, <1>3 DEF ExecBegin, RunReturns, ExecEnd, TypeOK, ExecStates
<1>5. FlagsTellTheThread'
  <2>1. CASE ExecBegin
    <3>1. \A c \in Controllers : ctl[c] # "reaping"
      BY <2>1 DEF ExecBegin, FlagsTellTheThread, Starting, OneWaiter, Holds
    <3> QED
      BY <1>1, <2>1, <3>1 DEF ExecBegin, FlagsTellTheThread, Holds
  <2>2. CASE RunReturns \/ ExecEnd
    BY <1>1, <2>2 DEF RunReturns, ExecEnd, FlagsTellTheThread, Holds
  <2> QED
    BY <2>1, <2>2
<1> QED
  BY <1>2, <1>4, <1>5

LEMMA InvNext == Inv /\ [Next]_vars => Inv'
<1>1. ASSUME Inv, UNCHANGED vars PROVE Inv'
  BY <1>1 DEF vars, Inv, TypeOK, OneWaiter, FlagsTellTheThread, Holds, Starting,
              StartWaits, JoinWaits
<1> QED
  BY <1>1, ControllerKeepsInv, ExecutorKeepsInv DEF Next

LEMMA InvCorrect == SafeSpec => []Inv
BY InvInit, InvNext, PTL DEF SafeSpec

(***************************************************************************)
(* The variables keep their types: only controllers in a wait sleep.       *)
(***************************************************************************)
THEOREM TypeCorrect == SafeSpec => []TypeOK
<1>1. Inv => TypeOK
  BY DEF Inv
<1> QED
  BY <1>1, InvCorrect, PTL

(***************************************************************************)
(* However many controllers call start() and join(), at most one of them   *)
(* waits on run_signal_, as MSignal requires.                              *)
(***************************************************************************)
THEOREM OneWaiterCorrect == SafeSpec => []OneWaiter
<1>1. Inv => OneWaiter
  BY DEF Inv
<1> QED
  BY <1>1, InvCorrect, PTL

(***************************************************************************)
(* start_ and run_ say what the thread is doing, over any number of        *)
(* restarts.                                                               *)
(***************************************************************************)
THEOREM FlagsCorrect == SafeSpec => []FlagsTellTheThread
<1>1. Inv => FlagsTellTheThread
  BY DEF Inv
<1> QED
  BY <1>1, InvCorrect, PTL

(***************************************************************************)
(* start() leaves its wait only over a thread it has seen in run().        *)
(***************************************************************************)
THEOREM StartSeesTheThreadRunCorrect == SafeSpec => StartSeesTheThreadRun
<1> DEFINE Seen == \A c \in Controllers :
                      ctl[c] \in StartWaits /\ ctl'[c] = "idle" => exec \in {"running", "returned"}
<1>1. ASSUME Inv, [Next]_vars PROVE [Seen]_vars
  <2> SUFFICES ASSUME NEW c \in Controllers, ctl[c] \in StartWaits, ctl'[c] = "idle"
               PROVE  exec \in {"running", "returned"}
    OBVIOUS
  <2>1. StartWait(c)
    BY <1>1 DEF Next, vars, Call, StartCreate, StartFails, JoinEnter, JoinWait, JoinReap,
                SpuriousWake, CtlProgress, StartWait, ExecBegin, RunReturns, ExecEnd,
                CtlStep, StartWaits, JoinWaits, Inv, TypeOK
  <2>2. running
    BY <1>1, <2>1 DEF StartWait, Sig!EvalFunc, Inv, TypeOK
  <2> QED
    BY <1>1, <2>2 DEF Inv, FlagsTellTheThread
<1> QED
  BY <1>1, InvCorrect, PTL DEF SafeSpec, StartSeesTheThreadRun
=============================================================================
