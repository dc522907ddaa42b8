-------------------- MODULE BlockingLockFreeQueue_proofs --------------------
(***************************************************************************)
(* Theorems about BlockingLockFreeQueue, for any finite set of producers,  *)
(* any capacity, with and without signals.                                 *)
(***************************************************************************)
EXTENDS BlockingLockFreeQueue, FiniteSetTheorems, TLAPS

USE QueueAssumption DEF QueueAssumption

(***************************************************************************)
(* Every variable keeps its type; in particular the backlog never exceeds  *)
(* the capacity of the lock-free queue.                                    *)
(***************************************************************************)
LEMMA TypeInductive == TypeOK /\ [Next]_vars => TypeOK'
<1> SUFFICES ASSUME TypeOK, [Next]_vars PROVE TypeOK'
  OBVIOUS
<1> USE DEF TypeOK, PushStates, PopStates, sigVars, PushStep, PopStep
<1>1. CASE Open \/ Close
  BY <1>1 DEF Open, Close
<1>2. CASE CloseNotify
  BY <1>2 DEF CloseNotify, Sig!NotifyOne, Sig!WakeOne
<1>3. ASSUME NEW p \in Producers, PushAdmit(p) \/ PushProgress(p)
      PROVE  TypeOK'
  <2>1. CASE PushAdmit(p) \/ PushFull(p)
    BY <2>1 DEF PushAdmit, PushFull
  <2>2. CASE PushStore(p)
    BY <2>2 DEF PushStore
  <2>3. CASE PushCount(p) \/ PushCheck(p)
    BY <2>3 DEF PushCount, PushCheck
  <2>4. CASE PushNotify(p)
    BY <2>4 DEF PushNotify, Sig!NotifyOne, Sig!WakeOne
  <2> QED
    BY <1>3, <2>1, <2>2, <2>3, <2>4 DEF PushProgress
<1>4. CASE PopTake \/ PopCount \/ PopMiss
  BY <1>4 DEF PopTake, PopCount, PopMiss
<1>5. CASE AdaptivePop \/ SignaledPop \/ Handled \/ PopBegin
  BY <1>5 DEF AdaptivePop, SignaledPop, Handled, PopBegin
<1>6. CASE PopWake
  BY <1>6 DEF PopWake, Sig!TakeSignal
<1>7. CASE PopSleep \/ SpuriousWake
  BY <1>7 DEF PopSleep, SpuriousWake, Sig!Block, Sig!SpuriousWake
<1>8. CASE UNCHANGED vars
  BY <1>8 DEF vars
<1> QED
  BY <1>1, <1>2, <1>3, <1>4, <1>5, <1>6, <1>7, <1>8 DEF Next, PopProgress

THEOREM TypeCorrect == SafeSpec => []TypeOK
<1>1. Init => TypeOK
  <2> SUFFICES ASSUME Init PROVE TypeOK
    OBVIOUS
  <2>1. push \in [Producers -> PushStates]
    BY DEF Init, PushStates
  <2>2. queued \in 0..Capacity /\ size \in Int
    BY DEF Init
  <2>3. signaled \in BOOLEAN /\ blocked \in SUBSET {Consumer}
    BY DEF Init, Sig!SigInit
  <2> QED
    BY <2>1, <2>2, <2>3 DEF Init, TypeOK, PopStates
<1> QED
  BY <1>1, TypeInductive, PTL DEF SafeSpec

-----------------------------------------------------------------------------
(***************************************************************************)
(* Counting the producers at one place of push(): a producer that moves    *)
(* leaves one set and joins another.                                       *)
(***************************************************************************)
InState(f, s) == {p \in Producers : f[p] = s}

LEMMA InStateCount ==
    ASSUME NEW f, NEW s
    PROVE  /\ IsFiniteSet(InState(f, s))
           /\ Cardinality(InState(f, s)) \in Nat
<1>1. InState(f, s) \in SUBSET Producers
  BY DEF InState
<1> QED
  BY <1>1, FS_Subset, FS_CardinalityType

LEMMA InStateMove ==
    ASSUME TypeOK, NEW p \in Producers, NEW s, NEW t, s # t, PushStep(p, s, t)
    PROVE  /\ Cardinality(InState(push', s)) = Cardinality(InState(push, s)) - 1
           /\ Cardinality(InState(push', t)) = Cardinality(InState(push, t)) + 1
           /\ \A u : u # s /\ u # t => InState(push', u) = InState(push, u)
<1>0. /\ push[p] = s
      /\ \A q \in Producers : push'[q] = IF q = p THEN t ELSE push[q]
  BY DEF TypeOK, PushStep
<1>1. /\ InState(push', s) = InState(push, s) \ {p}
      /\ p \in InState(push, s)
  BY <1>0 DEF InState
<1>2. /\ InState(push', t) = InState(push, t) \cup {p}
      /\ p \notin InState(push, t)
  BY <1>0 DEF InState
<1>3. \A u : u # s /\ u # t => InState(push', u) = InState(push, u)
  BY <1>0 DEF InState
<1>4. Cardinality(InState(push', s)) = Cardinality(InState(push, s)) - 1
  <2>1. IsFiniteSet(InState(push, s))
    BY InStateCount
  <2>2. Cardinality(InState(push, s) \ {p}) = Cardinality(InState(push, s)) - 1
    BY <1>1, <2>1, FS_RemoveElement
  <2> QED
    BY <1>1, <2>2
<1>5. Cardinality(InState(push', t)) = Cardinality(InState(push, t)) + 1
  BY <1>2, InStateCount, FS_AddElement
<1> QED
  BY <1>3, <1>4, <1>5

(***************************************************************************)
(* size() is off by the pushes and the pop in between, and by no more, for *)
(* every number of producers.                                              *)
(***************************************************************************)
THEOREM SizeCorrect == SafeSpec => []SizeAccounting
<1> DEFINE S == Cardinality(InState(push, "stored"))
<1>0. SizeAccounting <=> size = queued - S + (IF pop = "taken" THEN 1 ELSE 0)
  BY DEF SizeAccounting, At, InState
<1>1. Init => SizeAccounting
  <2> SUFFICES ASSUME Init PROVE SizeAccounting
    OBVIOUS
  <2>1. InState(push, "stored") = {}
    BY DEF Init, InState
  <2> QED
    BY <1>0, <2>1, FS_EmptySet DEF Init
<1>2. TypeOK /\ SizeAccounting /\ [Next]_vars => SizeAccounting'
  <2> SUFFICES ASSUME TypeOK, SizeAccounting, [Next]_vars PROVE SizeAccounting'
    OBVIOUS
  <2> DEFINE T == Cardinality(InState(push', "stored"))
  <2>a. SizeAccounting' <=> size' = queued' - T + (IF pop' = "taken" THEN 1 ELSE 0)
    BY DEF SizeAccounting, At, InState
  <2>b. S \in Nat /\ T \in Nat
    BY InStateCount
  <2>c. size = queued - S + (IF pop = "taken" THEN 1 ELSE 0)
    BY <1>0
  <2>d. /\ push \in [Producers -> PushStates]
        /\ queued \in Int /\ size \in Int
    BY DEF TypeOK
  <2> HIDE DEF S, T
  <2>1. ASSUME push' = push PROVE T = S
    BY <2>1 DEF S, T
  <2>2. CASE Open \/ Close \/ CloseNotify
    BY <2>1, <2>2, <2>a, <2>c DEF Open, Close, CloseNotify
  <2>3. ASSUME NEW p \in Producers, PushAdmit(p) \/ PushProgress(p)
        PROVE  SizeAccounting'
    <3>1. ASSUME NEW s \in PushStates, NEW t \in PushStates, PushStep(p, s, t),
                 s # t
          PROVE  T = S - (IF s = "stored" THEN 1 ELSE 0) + (IF t = "stored" THEN 1 ELSE 0)
      <4>1. CASE s = "stored"
        <5>1. T = S - 1
          BY <3>1, <4>1, InStateMove DEF S, T
        <5> QED
          BY <3>1, <4>1, <5>1, <2>b
      <4>2. CASE t = "stored"
        <5>1. T = S + 1
          BY <3>1, <4>2, InStateMove DEF S, T
        <5> QED
          BY <3>1, <4>2, <5>1, <2>b
      <4>3. CASE s # "stored" /\ t # "stored"
        <5>1. InState(push', "stored") = InState(push, "stored")
          BY <3>1, <4>3, InStateMove
        <5> QED
          BY <4>3, <5>1, <2>b DEF S, T
      <4> QED
        BY <4>1, <4>2, <4>3
    <3>2. CASE PushAdmit(p)
      BY <3>2, <3>1, <2>a, <2>b, <2>c, <2>d DEF PushAdmit, PushStates
    <3>3. CASE PushFull(p)
      BY <3>3, <3>1, <2>a, <2>b, <2>c, <2>d DEF PushFull, PushStates
    <3>4. CASE PushStore(p)
      BY <3>4, <3>1, <2>a, <2>b, <2>c, <2>d DEF PushStore, PushStates
    <3>5. CASE PushCount(p)
      BY <3>5, <3>1, <2>a, <2>b, <2>c, <2>d DEF PushCount, PushStates
    <3>6. CASE PushCheck(p)
      BY <3>6, <3>1, <2>a, <2>b, <2>c, <2>d DEF PushCheck, PushStates
    <3>7. CASE PushNotify(p)
      BY <3>7, <3>1, <2>a, <2>b, <2>c, <2>d DEF PushNotify, PushStates
    <3> QED
      BY <2>3, <3>2, <3>3, <3>4, <3>5, <3>6, <3>7 DEF PushProgress
  <2>4. CASE PopTake \/ PopCount
    BY <2>1, <2>4, <2>a, <2>b, <2>c, <2>d DEF PopTake, PopCount, PopStep
  <2>5. CASE PopMiss \/ AdaptivePop \/ SignaledPop \/ Handled \/ PopBegin
    BY <2>1, <2>5, <2>a, <2>c DEF PopMiss, AdaptivePop, SignaledPop, Handled, PopBegin, PopStep
  <2>6. CASE PopWake \/ PopSleep \/ SpuriousWake
    BY <2>1, <2>6, <2>a, <2>c DEF PopWake, PopSleep, SpuriousWake, PopStep
  <2>7. CASE UNCHANGED vars
    BY <2>1, <2>7, <2>a, <2>c DEF vars
  <2> QED
    BY <2>2, <2>3, <2>4, <2>5, <2>6, <2>7 DEF Next, PopProgress
<1> QED
  BY <1>1, <1>2, TypeCorrect, PTL DEF SafeSpec

-----------------------------------------------------------------------------
(***************************************************************************)
(* A producer that has stored stays underway until it notifies or finds    *)
(* the queue empty, whatever the other producers do.                       *)
(***************************************************************************)
LEMMA UnderwayKept ==
    ASSUME TypeOK, NEW p \in Producers, NEW s, NEW t, PushStep(p, s, t),
           t \in {"stored", "counted", "nonempty"} \/ s \in {"idle", "admitted"}
    PROVE  PushUnderway => PushUnderway'
  BY DEF TypeOK, PushStep, PushUnderway

(***************************************************************************)
(* NoLostWakeup is not inductive: a signalled pop depends on the pending   *)
(* notification from its failed attempt on, and the adaptive pop has to be *)
(* known never to wait.                                                    *)
(***************************************************************************)
WakeupInv ==
    Signaled =>
    /\ (pop \in {"missed", "empty", "waiting"} /\ queued > 0)
          => (signaled \/ PushUnderway)
    /\ (pop = "waiting" /\ ~open)
          => (signaled \/ closing \/ (queued > 0 /\ PushUnderway))
    /\ blocked # {} => (pop = "waiting" /\ ~signaled)

AdaptiveInv == ~Signaled => pop \notin {"empty", "waiting"} /\ blocked = {}

\* The adaptive pop does not wait.
LEMMA AdaptiveNeverWaits ==
    ASSUME ~Signaled, pop \notin {"empty", "waiting"}, blocked = {}, [Next]_vars
    PROVE  pop' \notin {"empty", "waiting"} /\ blocked' = {}
<1>1. CASE Open \/ Close
  BY <1>1 DEF Open, Close, sigVars
<1>2. CASE CloseNotify
  BY <1>2 DEF CloseNotify, Sig!NotifyOne, Sig!WakeOne
<1>3. ASSUME NEW p \in Producers, PushAdmit(p) \/ PushProgress(p)
      PROVE  pop' = pop /\ blocked' = {}
  BY <1>3 DEF PushAdmit, PushProgress, PushFull, PushStore, PushCount, PushCheck,
              PushNotify, Sig!NotifyOne, Sig!WakeOne, sigVars
<1>4. CASE PopProgress \/ SpuriousWake \/ PopBegin
  BY <1>4 DEF PopProgress, PopTake, PopCount, PopMiss, AdaptivePop, SignaledPop, PopWake,
              PopSleep, Handled, SpuriousWake, PopBegin, PopStep, Sig!SpuriousWake, sigVars
<1>5. CASE UNCHANGED vars
  BY <1>5 DEF vars, sigVars
<1> QED
  BY <1>1, <1>2, <1>3, <1>4, <1>5 DEF Next

(***************************************************************************)
(* No notification is lost: the sleeping consumer always has a wakeup      *)
(* coming when there is an item or the queue is closed.                    *)
(***************************************************************************)
THEOREM WakeupsCorrect == SafeSpec => []NoLostWakeup
<1>1. Init => WakeupInv
  BY DEF Init, WakeupInv, Sig!SigInit
<1>2. TypeOK /\ WakeupInv /\ [Next]_vars => WakeupInv'
  <2> SUFFICES ASSUME TypeOK, WakeupInv, [Next]_vars, Signaled
               PROVE  WakeupInv'
    BY DEF WakeupInv
  <2> USE DEF WakeupInv
  <2>0. /\ queued \in Int /\ queued >= 0
        /\ blocked \in SUBSET {Consumer}
    BY DEF TypeOK
  <2>1. ASSUME push' = push PROVE PushUnderway' <=> PushUnderway
    BY <2>1 DEF PushUnderway
  <2>2. CASE Open \/ Close
    BY <2>1, <2>2 DEF Open, Close
  <2>3. CASE CloseNotify
    BY <2>0, <2>1, <2>3 DEF CloseNotify, Sig!NotifyOne, Sig!WakeOne
  <2>4. ASSUME NEW p \in Producers, PushAdmit(p) \/ PushProgress(p)
        PROVE  WakeupInv'
    <3>1. CASE PushAdmit(p)
      BY <3>1, UnderwayKept DEF PushAdmit, sigVars
    <3>2. CASE PushFull(p)
      BY <3>2, UnderwayKept DEF PushFull, sigVars
    <3>3. CASE PushStore(p)
      <4>1. PushUnderway'
        BY <3>3 DEF PushStore, PushStep, PushUnderway, TypeOK
      <4> QED
        BY <2>0, <3>3, <4>1 DEF PushStore, sigVars
    <3>4. CASE PushCount(p)
      <4>1. PushStep(p, "stored", "counted")
        BY <3>4 DEF PushCount
      <4>2. PushUnderway => PushUnderway'
        BY <4>1, UnderwayKept
      <4> QED
        BY <3>4, <4>2 DEF PushCount, sigVars
    <3>5. CASE PushCheck(p)
      <4>1. CASE queued = 0
        BY <2>0, <3>5, <4>1 DEF PushCheck, sigVars
      <4>2. CASE queued # 0
        <5>1. PushStep(p, "counted", "nonempty")
          BY <3>5, <4>2 DEF PushCheck
        <5>2. PushUnderway => PushUnderway'
          BY <5>1, UnderwayKept
        <5> QED
          BY <3>5, <5>2 DEF PushCheck, sigVars
      <4> QED
        BY <4>1, <4>2
    <3>6. CASE PushNotify(p)
      BY <2>0, <3>6 DEF PushNotify, Sig!NotifyOne, Sig!WakeOne
    <3> QED
      BY <2>4, <3>1, <3>2, <3>3, <3>4, <3>5, <3>6 DEF PushProgress
  <2>5. CASE PopTake \/ PopCount \/ PopMiss
    BY <2>0, <2>1, <2>5 DEF PopTake, PopCount, PopMiss, PopStep, sigVars
  <2>6. CASE AdaptivePop \/ Handled \/ PopBegin
    BY <2>1, <2>6 DEF AdaptivePop, Handled, PopBegin, PopStep, sigVars
  <2>7. CASE SignaledPop
    BY <2>0, <2>1, <2>7 DEF SignaledPop, PopStep, sigVars
  <2>8. CASE PopWake
    BY <2>0, <2>1, <2>8 DEF PopWake, PopStep, Sig!TakeSignal
  <2>9. CASE PopSleep \/ SpuriousWake
    BY <2>0, <2>1, <2>9 DEF PopSleep, SpuriousWake, Sig!Block, Sig!SpuriousWake
  <2>10. CASE UNCHANGED vars
    BY <2>1, <2>10 DEF vars
  <2> QED
    BY <2>2, <2>3, <2>4, <2>5, <2>6, <2>7, <2>8, <2>9, <2>10 DEF Next, PopProgress
<1>3. Init => AdaptiveInv
  BY DEF Init, AdaptiveInv, Sig!SigInit
<1>4. AdaptiveInv /\ [Next]_vars => AdaptiveInv'
  BY AdaptiveNeverWaits DEF AdaptiveInv
<1>5. WakeupInv /\ AdaptiveInv => NoLostWakeup
  BY DEF WakeupInv, AdaptiveInv, NoLostWakeup
<1> QED
  BY <1>1, <1>2, <1>3, <1>4, <1>5, TypeCorrect, PTL DEF SafeSpec

-----------------------------------------------------------------------------
(***************************************************************************)
(* Every step of push, pop, open and close is a step of ClosableQueue or   *)
(* leaves it alone: pushes that were admitted while the queue was open,    *)
(* and only those, add items, and pop says "closed" only after it found    *)
(* the queue empty.                                                        *)
(***************************************************************************)
THEOREM SafeRefinement == SafeSpec => ImplementsClosableQueue
<1> DEFINE A == Cardinality(InState(push, "admitted"))
<1>0. Cardinality(At("admitted")) = A
  BY DEF At, InState
<1>1. Init => CQ!Init
  <2> SUFFICES ASSUME Init PROVE CQ!Init
    OBVIOUS
  <2>1. InState(push, "admitted") = {}
    BY DEF Init, InState
  <2>2. Cardinality(At("admitted")) = 0
    BY <1>0, <2>1, FS_EmptySet
  <2> QED
    BY <2>2 DEF Init, CQ!Init
<1>2. TypeOK /\ [Next]_vars => [CQ!Next]_(CQ!vars)
  <2> SUFFICES ASSUME TypeOK, [Next]_vars PROVE CQ!Next \/ UNCHANGED CQ!vars
    OBVIOUS
  <2> DEFINE B == Cardinality(InState(push', "admitted"))
  <2>a. Cardinality(At("admitted"))' = B
    BY DEF At, InState
  <2>b. A \in Nat /\ B \in Nat
    BY InStateCount
  <2>c. queued \in Int /\ queued >= 0
    BY DEF TypeOK
  <2> HIDE DEF A, B
  <2>1. ASSUME push' = push PROVE B = A
    BY <2>1 DEF A, B
  <2>2. ASSUME NEW p \in Producers, NEW t, t # "admitted", PushStep(p, "admitted", t)
        PROVE  B = A - 1
    BY <2>2, InStateMove DEF A, B
  <2>3. ASSUME NEW p \in Producers, PushStep(p, "idle", "admitted")
        PROVE  B = A + 1
    BY <2>3, InStateMove DEF A, B
  <2>4. ASSUME NEW p \in Producers, NEW s, NEW t, s # "admitted", t # "admitted",
               s # t, PushStep(p, s, t)
        PROVE  B = A
    <3>1. InState(push', "admitted") = InState(push, "admitted")
      BY <2>4, InStateMove
    <3> QED
      BY <3>1 DEF A, B
  <2> USE <1>0, <2>a, <2>b, <2>c
  <2>5. CASE Open
    BY <2>1, <2>5 DEF Open, CQ!Next, CQ!Open
  <2>6. CASE Close
    BY <2>1, <2>6 DEF Close, CQ!Next, CQ!Close
  <2>7. CASE CloseNotify \/ PopSleep \/ SpuriousWake \/ UNCHANGED vars
    BY <2>1, <2>7 DEF CloseNotify, PopSleep, SpuriousWake, vars, CQ!vars
  <2>8. ASSUME NEW p \in Producers, PushAdmit(p) PROVE CQ!Admit
    BY <2>3, <2>8 DEF PushAdmit, CQ!Admit
  <2>9. ASSUME NEW p \in Producers, PushFull(p) PROVE CQ!Refuse
    <3>1. B = A - 1
      BY <2>2, <2>9 DEF PushFull
    <3> QED
      BY <2>9, <3>1 DEF PushFull, CQ!Refuse
  <2>10. ASSUME NEW p \in Producers, PushStore(p) PROVE CQ!Put
    <3>1. B = A - 1
      BY <2>2, <2>10 DEF PushStore
    <3> QED
      BY <2>10, <3>1 DEF PushStore, CQ!Put
  <2>11. ASSUME NEW p \in Producers, PushCount(p) \/ PushCheck(p) \/ PushNotify(p)
         PROVE  UNCHANGED CQ!vars
    <3>1. B = A
      BY <2>4, <2>11 DEF PushCount, PushCheck, PushNotify
    <3> QED
      BY <2>11, <3>1 DEF PushCount, PushCheck, PushNotify, CQ!vars
  <2>12. CASE PopTake
    BY <2>1, <2>12 DEF PopTake, PopStep, CQ!Next, CQ!Take
  <2>13. CASE PopCount \/ PopWake \/ Handled
    BY <2>1, <2>13 DEF PopCount, PopWake, Handled, PopStep, CQ!vars
  <2>14. CASE PopMiss
    BY <2>1, <2>14 DEF PopMiss, PopStep, CQ!Next, CQ!Miss
  <2>15. CASE AdaptivePop
    BY <2>1, <2>15 DEF AdaptivePop, PopStep, CQ!Next, CQ!End, CQ!Retry
  <2>16. CASE SignaledPop
    BY <2>1, <2>16 DEF SignaledPop, PopStep, CQ!Next, CQ!End, CQ!Retry, CQ!vars
  <2>17. CASE PopBegin
    BY <2>1, <2>17 DEF PopBegin, PopStep, CQ!Next, CQ!Restart
  <2> QED
    BY <2>5, <2>6, <2>7, <2>8, <2>9, <2>10, <2>11, <2>12, <2>13, <2>14, <2>15,
       <2>16, <2>17 DEF Next, PopProgress, PushProgress, CQ!Next
<1> QED
  BY <1>1, <1>2, TypeCorrect, PTL DEF SafeSpec, ImplementsClosableQueue, CQ!SafeSpec
=============================================================================
