--------------------------- MODULE BlockingThread ---------------------------
(***************************************************************************)
(* BlockingDequeThread and BlockingVectorThread of filter-ground/extra: an *)
(* MThread with a blocking container waiter_, whose run() pops until pop   *)
(* returns -1 (as TrapInfoList::run does).  start() opens the container    *)
(* and starts the thread, stop() closes it and joins.  The two classes     *)
(* differ in the container only: kind says which one it is.                *)
(***************************************************************************)
EXTENDS Naturals

CONSTANTS Kinds,        \* subset of {"deque", "vector"}
          Producers,    \* the threads that call backoff_push
          Controllers,  \* the threads that call start() and stop()
          MaxItems,     \* bound: how many items the container holds in the model
          Reserve,      \* reserve_size_ of the vector
          MaxRetries,   \* max_retries of backoff_push
          CreateFails   \* the std::thread may fail to be created

ASSUME KindAssumption == Kinds \subseteq {"deque", "vector"}
ASSUME BoundAssumption == /\ MaxItems \in Nat \ {0}
                          /\ Reserve \in 1..MaxItems
                          /\ MaxRetries \in Nat
ASSUME FailureAssumption == CreateFails \in BOOLEAN

VARIABLES kind,                                      \* the class of waiter_
          open, queued, signaled, blocked, pop, silent,  \* waiter_
          capacity, spare, sleeps, late,             \* a BlockingVector's
          started, running, runSignaled, runBlocked, ctl, exec,  \* MThread
          call,   \* where each controller is in start() or stop()
          failed  \* start() has failed since a thread was last created

waiterVars == <<open, queued, signaled, blocked, pop, silent, capacity, spare, sleeps, late>>
threadVars == <<started, running, runSignaled, runBlocked, ctl, exec>>
callVars == <<call, failed>>
vars == <<kind, waiterVars, threadVars, callVars>>

W == INSTANCE BlockingVector WITH Consumer <- "executor"
T == INSTANCE MThread WITH EarlyReturn <- TRUE, signaled <- runSignaled, blocked <- runBlocked
-----------------------------------------------------------------------------
\* "open", "close": is_open() was read, open() or close() comes next;
\* "start", "join": inside MThread::start() or MThread::join().
CallStates == {"none", "open", "start", "close", "join"}

Init == /\ kind \in Kinds
        /\ W!VInit
        /\ open = FALSE
        /\ T!Init
        /\ call = [c \in Controllers |-> "none"]
        /\ failed = FALSE

IsDeque == kind = "deque" /\ UNCHANGED <<kind, capacity, spare, sleeps, late>>
IsVector == kind = "vector" /\ UNCHANGED kind
Goto(c, from, to) == call[c] = from /\ call' = [call EXCEPT ![c] = to]
-----------------------------------------------------------------------------
(* start(), which does nothing if the container is open, and stop() *)

StartSeesClosed(c) == /\ ~open
                      /\ Goto(c, "none", "open")
                      /\ UNCHANGED <<kind, waiterVars, threadVars, failed>>

StartOpens(c) == /\ Goto(c, "open", "start")
                 /\ \/ IsDeque /\ W!Open
                    \/ IsVector /\ W!VOpen
                 /\ T!CtlStep(c, "idle", "start")
                 /\ UNCHANGED <<started, running, runSignaled, runBlocked, exec, failed>>

StartCreates(c) == /\ T!StartCreate(c)
                   /\ failed' = FALSE
                   /\ UNCHANGED <<kind, waiterVars, call>>

\* MThread::start() returns false, and the container stays open.
StartFails(c) == /\ started \/ CreateFails
                 /\ T!StartFails(c)
                 /\ Goto(c, "start", "none")
                 /\ failed' = TRUE
                 /\ UNCHANGED <<kind, waiterVars>>

StartWaits(c) == /\ T!StartWait(c)
                 /\ IF ctl'[c] = "idle" THEN Goto(c, "start", "none") ELSE UNCHANGED call
                 /\ UNCHANGED <<kind, waiterVars, failed>>

StopSeesOpen(c) == /\ open
                   /\ Goto(c, "none", "close")
                   /\ UNCHANGED <<kind, waiterVars, threadVars, failed>>

\* Seeded bug: stop() joins without closing the container.
StopCloses_OnlyJoins(c) == /\ Goto(c, "close", "join")
                           /\ T!CtlStep(c, "idle", "join")
                           /\ UNCHANGED <<kind, waiterVars, started, running, runSignaled, runBlocked, exec, failed>>

StopCloses(c) == /\ Goto(c, "close", "join")
                 /\ \/ IsDeque /\ W!Close
                    \/ IsVector /\ W!VClose
                 /\ T!CtlStep(c, "idle", "join")
                 /\ UNCHANGED <<started, running, runSignaled, runBlocked, exec, failed>>

\* MThread::join(), which returns at once if there is no thread.
StopJoins(c) == /\ \/ T!JoinEnter(c) /\ IF started THEN UNCHANGED call ELSE Goto(c, "join", "none")
                   \/ T!JoinWait(c) /\ UNCHANGED call
                   \/ T!JoinReap(c) /\ Goto(c, "join", "none")
                /\ UNCHANGED <<kind, waiterVars, failed>>
-----------------------------------------------------------------------------
(* The thread, and the producers *)

\* executor() sets run_ and enters run(), which begins to pop.
ExecBegin == /\ T!ExecBegin
             /\ W!PopBegin
             /\ UNCHANGED <<kind, capacity, spare, sleeps, late, callVars>>

ExecPops == /\ \/ IsDeque /\ W!PopProgress
               \/ IsVector /\ W!VPopProgress
            /\ UNCHANGED <<threadVars, callVars>>

ExecTimesOut == /\ W!PopTimeOut
                /\ UNCHANGED <<kind, capacity, spare, sleeps, late, threadVars, callVars>>

SpuriousWake == /\ W!SpuriousWake
                /\ UNCHANGED <<kind, capacity, spare, sleeps, late, threadVars, callVars>>

\* run() returns when pop has returned -1.
ExecReturns == /\ pop = "ended"
               /\ T!RunReturns
               /\ UNCHANGED <<kind, waiterVars, callVars>>

ExecEnd == /\ T!ExecEnd
           /\ UNCHANGED <<kind, waiterVars, callVars>>

Push == /\ \/ IsDeque /\ (W!Push \/ W!Swap)
           \/ IsVector /\ W!VPush
        /\ UNCHANGED <<threadVars, callVars>>

Backoff(p) == /\ IsVector /\ W!BackoffPush(p)
              /\ UNCHANGED <<threadVars, callVars>>

ExecProgress == ExecBegin \/ ExecPops \/ ExecReturns \/ ExecEnd
CtlProgress(c) == \/ StartOpens(c) \/ StartCreates(c) \/ StartFails(c) \/ StartWaits(c)
                  \/ StopCloses(c) \/ StopJoins(c)

Next == \/ \E c \in Controllers : StartSeesClosed(c) \/ StopSeesOpen(c) \/ CtlProgress(c)
        \/ ExecProgress \/ ExecTimesOut \/ SpuriousWake
        \/ Push \/ \E p \in Producers : Backoff(p)

\* The thread runs, and a controller inside start() or stop() goes on.
Fairness == /\ WF_vars(ExecProgress)
            /\ \A c \in Controllers : WF_vars(CtlProgress(c))

SafeSpec == Init /\ [][Next]_vars
Spec == SafeSpec /\ Fairness
-----------------------------------------------------------------------------
TypeOK == /\ kind \in Kinds
          /\ W!VTypeOK
          /\ T!TypeOK
          /\ call \in [Controllers -> CallStates]
          /\ failed \in BOOLEAN

(***************************************************************************)
(* The comment at BlockingDeque.h:44: ETIMEDOUT means there was nothing.   *)
(* pop decides it by the notification alone and does not look at the       *)
(* container again, and still it is never told over a close, nor over an   *)
(* item, unless swap() put it there, which notifies nobody.                *)
(***************************************************************************)
TimeoutIsHonest ==
    [][pop = "waiting" /\ pop' = "handling" => (queued = 0 \/ silent) /\ open]_vars

Idle == \A c \in Controllers : call[c] = "none"

(***************************************************************************)
(* Unlike the lock-free queue, these containers lose nothing at the stop:  *)
(* what was accepted before the close is taken before the thread ends, so  *)
(* that a stopped object is empty and has no thread.  Three exceptions:    *)
(* backoff_push does not look at open_ when there is room, swap() never    *)
(* does, and a start() that could not create its thread leaves the         *)
(* container open, where it accepts what nobody takes.                     *)
(***************************************************************************)
StoppedMeansDrained ==
    Idle /\ ~open => exec = "none" /\ (queued = 0 \/ late \/ silent \/ failed)

(***************************************************************************)
(* start() and stop() come back, unless backoff_push or swap() keeps       *)
(* filling a closed container, whose thread then never sees it empty.      *)
(***************************************************************************)
CallsReturn == \A c \in Controllers : []<>(call[c] = "none") \/ []<>(late \/ silent)

(***************************************************************************)
(* What is queued is taken as long as the container is open and has its    *)
(* thread, which after a failed start() it has not.  An item of swap()     *)
(* waits for the next notification.                                        *)
(***************************************************************************)
QueuedIsTaken ==
    []<>(queued = 0 \/ ~open \/ silent \/ failed) \/ []<>(pop = "handling")
=============================================================================
