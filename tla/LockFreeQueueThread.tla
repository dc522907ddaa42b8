------------------------ MODULE LockFreeQueueThread ------------------------
(***************************************************************************)
(* LockFreeQueueThread<false, T> of filter-ground/extra, the base of       *)
(* Worker, NatsPublisher and StreamLoggerWriter: an MThread whose run()    *)
(* pops the queue waiter_ until pop returns -1.  start() opens the queue   *)
(* and starts the thread, stop() closes the queue and joins the thread.    *)
(* (No class of the repository passes SIGNALED = true.)                    *)
(*                                                                         *)
(* Composes MThread and BlockingLockFreeQueue: their variables are this    *)
(* module's, and each step is a step of one of them or of both.            *)
(***************************************************************************)
EXTENDS Integers, FiniteSets

CONSTANTS Producers,    \* the threads that push
          Controllers,  \* the threads that call start() and stop()
          Capacity,     \* the size of the queue
          CreateFails   \* the std::thread may fail to be created

ASSUME FailureAssumption == CreateFails \in BOOLEAN

VARIABLES open, queued, size, qSignaled, qBlocked, push, pop, closing,  \* waiter_
          started, running, signaled, blocked, ctl, exec,  \* MThread
          call,   \* where each controller is in start() or stop()
          ret,    \* what the last start() or stop() of each returned
          failed  \* start() has failed since the queue was closed

queueVars == <<open, queued, size, qSignaled, qBlocked, push, pop, closing>>
threadVars == <<started, running, signaled, blocked, ctl, exec>>
callVars == <<call, ret, failed>>
vars == <<queueVars, threadVars, callVars>>

Q == INSTANCE BlockingLockFreeQueue
         WITH Consumer <- "executor", Signaled <- FALSE, Timed <- FALSE,
              signaled <- qSignaled, blocked <- qBlocked

T == INSTANCE MThread WITH EarlyReturn <- TRUE
-----------------------------------------------------------------------------
\* "open" and "close": is_open() was read, open() or close() comes next;
\* "start" and "join": inside MThread::start() or MThread::join().
CallStates == {"none", "open", "start", "close", "join"}
Results == {"none", "true", "false"}

Init == /\ Q!Init
        /\ open = FALSE
        /\ T!Init
        /\ call = [c \in Controllers |-> "none"]
        /\ ret = [c \in Controllers |-> "none"]
        /\ failed = FALSE

Goto(c, from, to) == call[c] = from /\ call' = [call EXCEPT ![c] = to]
Return(c, result) == ret' = [ret EXCEPT ![c] = result]
-----------------------------------------------------------------------------
(* start() *)

\* The queue is open: start() returns true at once.
StartAlreadyOpen(c) == /\ call[c] = "none"
                       /\ open
                       /\ Return(c, "true")
                       /\ UNCHANGED <<queueVars, threadVars, call, failed>>

StartSeesClosed(c) == /\ ~open
                      /\ Goto(c, "none", "open")
                      /\ UNCHANGED <<queueVars, threadVars, ret, failed>>

\* Seeded bug: the thread is started on the closed queue.
StartOpens_StaysClosed(c) == /\ Goto(c, "open", "start")
                             /\ T!CtlStep(c, "idle", "start")
                             /\ UNCHANGED <<queueVars, started, running, signaled, blocked, exec, ret, failed>>

\* waiter_.open(), and MThread::start() is called.
StartOpens(c) == /\ Goto(c, "open", "start")
                 /\ IF open THEN UNCHANGED queueVars ELSE Q!Open
                 /\ T!CtlStep(c, "idle", "start")
                 /\ UNCHANGED <<started, running, signaled, blocked, exec, ret, failed>>

StartCreates(c) == /\ T!StartCreate(c)
                   /\ UNCHANGED <<queueVars, callVars>>

StartFails(c) == /\ started \/ CreateFails
                 /\ T!StartFails(c)
                 /\ Goto(c, "start", "none")
                 /\ Return(c, "false")
                 /\ failed' = TRUE
                 /\ UNCHANGED queueVars

StartWaits(c) == /\ T!StartWait(c)
                 /\ IF ctl'[c] = "idle"
                    THEN Goto(c, "start", "none") /\ Return(c, "true")
                    ELSE UNCHANGED <<call, ret>>
                 /\ UNCHANGED <<queueVars, failed>>
-----------------------------------------------------------------------------
(* stop() *)

\* The queue is closed: stop() returns true at once.
StopAlreadyClosed(c) == /\ call[c] = "none"
                        /\ ~open
                        /\ Return(c, "true")
                        /\ UNCHANGED <<queueVars, threadVars, call, failed>>

StopSeesOpen(c) == /\ open
                   /\ Goto(c, "none", "close")
                   /\ UNCHANGED <<queueVars, threadVars, ret, failed>>

\* Seeded bug: stop() joins without closing the queue.
StopCloses_OnlyJoins(c) == /\ Goto(c, "close", "join")
                           /\ T!CtlStep(c, "idle", "join")
                           /\ UNCHANGED <<queueVars, started, running, signaled, blocked, exec, ret, failed>>

\* Seeded bug: stop() closes the queue and does not join.
StopCloses_NoJoin(c) == /\ Goto(c, "close", "none")
                        /\ open' = FALSE
                        /\ Return(c, "true")
                        /\ failed' = FALSE
                        /\ UNCHANGED <<queued, size, qSignaled, qBlocked, push, pop, closing>>
                        /\ UNCHANGED threadVars

\* waiter_.close(), and MThread::join() is called.
StopCloses(c) == /\ Goto(c, "close", "join")
                 /\ IF open THEN Q!Close ELSE UNCHANGED queueVars
                 /\ T!CtlStep(c, "idle", "join")
                 /\ failed' = FALSE
                 /\ UNCHANGED <<started, running, signaled, blocked, exec, ret>>

StopEnters(c) == /\ T!JoinEnter(c)
                 /\ IF started
                    THEN UNCHANGED <<call, ret>>
                    ELSE Goto(c, "join", "none") /\ Return(c, "false")
                 /\ UNCHANGED <<queueVars, failed>>

StopWaits(c) == /\ T!JoinWait(c)
                /\ UNCHANGED <<queueVars, callVars>>

StopReaps(c) == /\ T!JoinReap(c)
                /\ Goto(c, "join", "none")
                /\ Return(c, "true")
                /\ UNCHANGED <<queueVars, failed>>

SpuriousWake(c) == /\ T!SpuriousWake(c)
                   /\ UNCHANGED <<queueVars, callVars>>

-----------------------------------------------------------------------------
(* The thread, and the producers *)

\* executor() sets run_ and enters run(), which begins to pop.
ExecBegin == /\ T!ExecBegin
             /\ Q!PopBegin
             /\ UNCHANGED callVars

ExecPops == /\ Q!PopProgress
            /\ UNCHANGED <<threadVars, callVars>>

\* run() returns when pop has returned -1.
ExecReturns == /\ pop = "ended"
               /\ T!RunReturns
               /\ UNCHANGED <<queueVars, callVars>>

ExecEnd == /\ T!ExecEnd
           /\ UNCHANGED <<queueVars, callVars>>

Push(p) == /\ Q!PushAdmit(p) \/ Q!PushProgress(p)
           /\ UNCHANGED <<threadVars, callVars>>

ExecProgress == ExecBegin \/ ExecPops \/ ExecReturns \/ ExecEnd

\* The steps a controller takes once it is inside start() or stop().
CtlProgress(c) == \/ StartOpens(c) \/ StartCreates(c) \/ StartFails(c) \/ StartWaits(c)
                  \/ StopCloses(c) \/ StopEnters(c)
                  \/ StopWaits(c) \/ StopReaps(c)

Next == \/ \E c \in Controllers :
              \/ StartAlreadyOpen(c) \/ StartSeesClosed(c)
              \/ StopAlreadyClosed(c) \/ StopSeesOpen(c)
              \/ CtlProgress(c) \/ SpuriousWake(c)
        \/ ExecProgress
        \/ \E p \in Producers : Push(p)

Fairness == /\ WF_vars(ExecProgress)
            /\ \A c \in Controllers : WF_vars(CtlProgress(c))
            /\ \A p \in Producers :
                  WF_vars(Q!PushProgress(p) /\ UNCHANGED <<threadVars, callVars>>)

SafeSpec == Init /\ [][Next]_vars
Spec == SafeSpec /\ Fairness
-----------------------------------------------------------------------------
TypeOK == /\ Q!TypeOK
          /\ T!TypeOK
          /\ call \in [Controllers -> CallStates]
          /\ ret \in [Controllers -> Results]
          /\ failed \in BOOLEAN

Idle == \A c \in Controllers : call[c] = "none"

(***************************************************************************)
(* LockFreeQueueThread.h:97: after stop() no thread of this object is left *)
(* that could still pop, whatever the producers do meanwhile.              *)
(***************************************************************************)
StoppedMeansNoThread == Idle /\ ~open => exec = "none" /\ pop = "ended"

(***************************************************************************)
(* With one controller, run() cannot return while start() waits for it:    *)
(* the thread it starts only ends after a stop(), and a stop() comes after *)
(* the start().  So this class uses MThread within its limits.             *)
(***************************************************************************)
TF == INSTANCE MThread WITH EarlyReturn <- FALSE
UsesThreadWithinLimits == TF!SafeSpec

(***************************************************************************)
(* Every start() and stop() of a lone controller comes back.               *)
(***************************************************************************)
CallsReturn == \A c \in Controllers : call[c] # "none" ~> call[c] = "none"

(***************************************************************************)
(* What is queued is popped unless the queue is closed, also what an       *)
(* earlier life of the thread left behind, by the next one.  Exempt is the *)
(* queue of a start() that could not create its thread: it is open without *)
(* a thread, and what is pushed stays there until stop() closes it.        *)
(* StartTellsOfAThread, below, is what the code says of that start().      *)
(***************************************************************************)
QueuedIsServed ==
    []<>(queued = 0 \/ ~open \/ failed) \/ []<><<Q!PopTake>>_queueVars

(***************************************************************************)
(* LockFreeQueueThread.h:83, "@return true on success, false on failure":  *)
(* a controller whose last start() returned true has a thread that was     *)
(* started, as long as the queue is open.  The code does not keep it:      *)
(* start() leaves the queue open when the thread cannot be created         *)
(* (:91-92), and the next start() returns true because the queue is open   *)
(* (:88-89).                                                               *)
(***************************************************************************)
StartTellsOfAThread ==
    \A c \in Controllers : Idle /\ open /\ ret[c] = "true" => started
=============================================================================
