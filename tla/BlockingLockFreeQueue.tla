----------------------- MODULE BlockingLockFreeQueue -----------------------
(***************************************************************************)
(* BlockingLockFreeQueue<SIGNALED, T> of filter-ground/extra: a lock-free  *)
(* queue, an open_ flag, a size_ counter and, when SIGNALED, an MSignal.   *)
(* push and pop take none of these together: every access to one of them   *)
(* is a step of its own.  boost::lockfree::queue is external and taken as  *)
(* a linearizable bounded queue; the items are interchangeable here, so    *)
(* it is represented by the number of items in it.                         *)
(*                                                                         *)
(* The callers are those of LockFreeQueueThread: any number of producers,  *)
(* one consumer thread that pops in a loop until pop returns -1 and is     *)
(* started again after the queue is reopened, and one controller that      *)
(* opens and closes.                                                       *)
(***************************************************************************)
EXTENDS Integers, FiniteSets

CONSTANTS Producers,  \* the threads that call push
          Consumer,   \* the thread that calls pop
          Capacity,   \* the fixed size of the lock-free queue
          Signaled,   \* the template parameter SIGNALED
          Timed       \* pop is called with timeout_ms > 0

ASSUME QueueAssumption == /\ IsFiniteSet(Producers)
                          /\ Capacity \in Nat \ {0}
                          /\ Signaled \in BOOLEAN
                          /\ Timed \in BOOLEAN

VARIABLES open,      \* open_
          queued,    \* number of items in queue_
          size,      \* size_
          signaled,  \* signal_.signaled_
          blocked,   \* {Consumer} while it sleeps on signal_, else {}
          push,      \* where each producer is in push()
          pop,       \* where the consumer is in pop() or in its own loop
          closing    \* close() has cleared open_ and not notified yet

sigVars == <<signaled, blocked>>
vars == <<open, queued, size, signaled, blocked, push, pop, closing>>

Sig == INSTANCE MSignal
-----------------------------------------------------------------------------
(***************************************************************************)
(* push: "idle" outside; "admitted" after open_ was seen true; "stored"    *)
(* after queue_.push; "counted" after ++size_; "nonempty" after            *)
(* queue_.empty() was seen false.                                          *)
(***************************************************************************)
PushStates == {"idle", "admitted", "stored", "counted", "nonempty"}

(***************************************************************************)
(* pop: "ended" when no thread pops or pop has returned -1; "try" before   *)
(* queue_.pop; "taken" before --size_; "handling" while the caller works   *)
(* on the item (or on ETIMEDOUT); "missed" after queue_.pop failed;        *)
(* "empty" after queue_.empty() was seen true; "waiting" in signal_.wait.  *)
(***************************************************************************)
PopStates == {"ended", "try", "taken", "handling", "missed", "empty", "waiting"}

Init == /\ open \in BOOLEAN
        /\ queued = 0
        /\ size = 0
        /\ Sig!SigInit
        /\ push = [p \in Producers |-> "idle"]
        /\ pop = "ended"
        /\ closing = FALSE
-----------------------------------------------------------------------------
(* open() and close() *)

Open == /\ ~open /\ ~closing
        /\ open' = TRUE
        /\ UNCHANGED <<queued, size, signaled, blocked, push, pop, closing>>

Close == /\ open
         /\ open' = FALSE
         /\ closing' = Signaled
         /\ UNCHANGED <<queued, size, signaled, blocked, push, pop>>

CloseNotify == /\ closing
               /\ closing' = FALSE
               /\ Sig!NotifyOne
               /\ UNCHANGED <<open, queued, size, push, pop>>
-----------------------------------------------------------------------------
(* push().  A push that finds open_ false returns -1 and changes nothing. *)

PushStep(p, from, to) == /\ push[p] = from
                         /\ push' = [push EXCEPT ![p] = to]

PushAdmit(p) == /\ open
                /\ PushStep(p, "idle", "admitted")
                /\ UNCHANGED <<open, queued, size, sigVars, pop, closing>>

\* queue_.push fails on a full queue: EAGAIN.
PushFull(p) == /\ queued = Capacity
               /\ PushStep(p, "admitted", "idle")
               /\ UNCHANGED <<open, queued, size, sigVars, pop, closing>>

PushStore(p) == /\ queued < Capacity
                /\ queued' = queued + 1
                /\ PushStep(p, "admitted", "stored")
                /\ UNCHANGED <<open, size, sigVars, pop, closing>>

PushCount(p) == /\ size' = size + 1
                /\ PushStep(p, "stored", IF Signaled THEN "counted" ELSE "idle")
                /\ UNCHANGED <<open, queued, sigVars, pop, closing>>

\* Seeded bug: only the push that made the queue nonempty notifies.
PushCheck_FirstItemOnly(p) ==
    /\ PushStep(p, "counted", IF queued # 1 THEN "idle" ELSE "nonempty")
    /\ UNCHANGED <<open, queued, size, sigVars, pop, closing>>

PushCheck(p) == /\ PushStep(p, "counted", IF queued = 0 THEN "idle" ELSE "nonempty")
                /\ UNCHANGED <<open, queued, size, sigVars, pop, closing>>

PushNotify(p) == /\ PushStep(p, "nonempty", "idle")
                 /\ Sig!NotifyOne
                 /\ UNCHANGED <<open, queued, size, pop, closing>>

\* What is left of a push that has begun.
PushProgress(p) == \/ PushFull(p) \/ PushStore(p) \/ PushCount(p)
                   \/ PushCheck(p) \/ PushNotify(p)
-----------------------------------------------------------------------------
(* pop() *)

PopStep(from, to) == pop = from /\ pop' = to

PopTake == /\ queued > 0
           /\ queued' = queued - 1
           /\ PopStep("try", "taken")
           /\ UNCHANGED <<open, size, sigVars, push, closing>>

\* Seeded bug: --size_ is missing.
PopCount_Forgotten == /\ PopStep("taken", "handling")
                      /\ UNCHANGED <<open, queued, size, sigVars, push, closing>>

PopCount == /\ size' = size - 1
            /\ PopStep("taken", "handling")
            /\ UNCHANGED <<open, queued, sigVars, push, closing>>

PopMiss == /\ queued = 0
           /\ PopStep("try", "missed")
           /\ UNCHANGED <<open, queued, size, sigVars, push, closing>>

\* Seeded bug: "while (open_)" around the attempts.
AdaptivePop_OpenFirst ==
    /\ ~Signaled
    /\ \/ ~open /\ PopStep("try", "ended")
       \/ ~open /\ PopStep("missed", "ended")
       \/ open /\ PopStep("missed", "try")
    /\ UNCHANGED <<open, queued, size, sigVars, push, closing>>

\* Seeded bug: a failed attempt spins and open_ is never looked at.
AdaptivePop_NeverEnds ==
    /\ ~Signaled
    /\ PopStep("missed", "try")
    /\ UNCHANGED <<open, queued, size, sigVars, push, closing>>

\* Seeded bug: a failed attempt returns -1 at once.
AdaptivePop_EndsWhenEmpty ==
    /\ ~Signaled
    /\ PopStep("missed", "ended")
    /\ UNCHANGED <<open, queued, size, sigVars, push, closing>>

\* adaptive_pop after a failed attempt: -1, ETIMEDOUT, or spin or sleep and
\* try again.
AdaptivePop ==
    /\ ~Signaled
    /\ \/ ~open /\ PopStep("missed", "ended")
       \/ open /\ Timed /\ PopStep("missed", "handling")
       \/ open /\ PopStep("missed", "try")
    /\ UNCHANGED <<open, queued, size, sigVars, push, closing>>

\* signaled_pop after a failed attempt: the two operands of
\* "queue_.empty() == true && open_ == false" are read one after the other.
SignaledPop ==
    /\ Signaled
    /\ \/ PopStep("missed", IF queued = 0 THEN "empty" ELSE "waiting")
       \/ PopStep("empty", IF open THEN "waiting" ELSE "ended")
    /\ UNCHANGED <<open, queued, size, sigVars, push, closing>>

\* signal_.wait() returns.
PopWake == /\ PopStep("waiting", "try")
           /\ Sig!TakeSignal(Consumer)
           /\ UNCHANGED <<open, queued, size, push, closing>>

PopSleep == /\ pop = "waiting"
            /\ Sig!Block(Consumer)
            /\ UNCHANGED <<open, queued, size, push, pop, closing>>

SpuriousWake == /\ Sig!SpuriousWake(Consumer)
                /\ UNCHANGED <<open, queued, size, push, pop, closing>>
-----------------------------------------------------------------------------
(* The loop around pop() *)

\* The body of "while (waiter_.pop(item) == 0)" is done.
Handled == /\ PopStep("handling", "try")
           /\ UNCHANGED <<open, queued, size, sigVars, push, closing>>

\* The thread of the next start() begins to pop; open_ is not looked at yet.
PopBegin == /\ PopStep("ended", "try")
            /\ UNCHANGED <<open, queued, size, sigVars, push, closing>>

PopProgress == \/ PopTake \/ PopCount \/ PopMiss \/ AdaptivePop \/ SignaledPop
               \/ PopWake \/ PopSleep \/ Handled

Next == \/ Open \/ Close \/ CloseNotify
        \/ \E p \in Producers : PushAdmit(p) \/ PushProgress(p)
        \/ PopProgress \/ SpuriousWake \/ PopBegin

\* A call that has begun keeps running, and so does the loop of the consumer
\* thread; nobody has to begin a push, a close, an open or a spurious wakeup.
Fairness == /\ WF_vars(CloseNotify)
            /\ \A p \in Producers : WF_vars(PushProgress(p))
            /\ WF_vars(PopProgress)

SafeSpec == Init /\ [][Next]_vars
Spec == SafeSpec /\ Fairness
-----------------------------------------------------------------------------
TypeOK == /\ open \in BOOLEAN
          /\ queued \in 0..Capacity
          /\ size \in Int
          /\ signaled \in BOOLEAN
          /\ blocked \in SUBSET {Consumer}
          /\ push \in [Producers -> PushStates]
          /\ pop \in PopStates
          /\ closing \in BOOLEAN

At(s) == {p \in Producers : push[p] = s}

(***************************************************************************)
(* size() is what WorkerPool balances on.  It differs from the number of   *)
(* items by exactly the pushes and the pop that are between their access   *)
(* to queue_ and their access to size_: it is exact whenever none is, and  *)
(* it is negative by at most the number of producers.                      *)
(***************************************************************************)
SizeAccounting ==
    size = queued - Cardinality(At("stored")) + (IF pop = "taken" THEN 1 ELSE 0)

\* A push that will still reach its notify_one.
PushUnderway == \E p \in Producers : push[p] \in {"stored", "counted", "nonempty"}

(***************************************************************************)
(* "Lost wakeup" of the comment at BlockingLockFreeQueue.h:71: a consumer  *)
(* on its way to sleep, or asleep, never depends on a notification that    *)
(* was given before.  If there is an item, or the queue is closed, then    *)
(* either the notification is pending or its sender is still on its way;   *)
(* and a consumer that sleeps has no notification pending.  The adaptive   *)
(* pop never comes near it.                                                *)
(***************************************************************************)
NoLostWakeup ==
    /\ (pop \in {"empty", "waiting"} /\ queued > 0)
          => (signaled \/ PushUnderway)
    /\ (pop = "waiting" /\ ~open)
          => (signaled \/ closing \/ (queued > 0 /\ PushUnderway))
    /\ blocked # {} => (pop = "waiting" /\ ~signaled)

CQ == INSTANCE ClosableQueue
          WITH backlog  <- queued,
               admitted <- Cardinality(At("admitted")),
               sawEmpty <- pop \in {"missed", "empty"},
               ended    <- pop = "ended"

(***************************************************************************)
(* The steps of the threads are steps of ClosableQueue: in particular only *)
(* a push that found the queue open adds an item, and pop returns -1 only  *)
(* if it found the queue empty first and closed afterwards.  It does not   *)
(* say that the queue is empty when pop returns -1: that is                *)
(* ClosedMeansDrained, below.                                              *)
(***************************************************************************)
ImplementsClosableQueue == CQ!SafeSpec

(***************************************************************************)
(* The comment at BlockingLockFreeQueue.h:18-19: after close(), pop        *)
(* returns -1 once all the data left in the queue has been popped.  The    *)
(* code does not keep it: between the failed attempt and the test of       *)
(* open_ (:130-133, :114-115) an admitted push may store its item and the  *)
(* queue be closed; pop then returns -1 with the item in the queue.        *)
(***************************************************************************)
ClosedMeansDrained == [][pop # "ended" /\ pop' = "ended" => queued = 0]_vars

(***************************************************************************)
(* No thread hangs in the queue: items are popped, pushes return, and a    *)
(* pop on a queue that stays closed returns -1, also when the consumer is  *)
(* about to sleep while the item or the close arrives.                     *)
(***************************************************************************)
ProgressesLikeClosableQueue == CQ!Progress
=============================================================================
