------------------------------ MODULE MThread ------------------------------
(***************************************************************************)
(* MThread of filter-ground/extra: start() creates a std::thread and waits *)
(* on run_signal_ until the thread has set run_; join() waits until it has *)
(* cleared run_, reaps the std::thread and clears start_.  Both hold lock_ *)
(* throughout.  run() is the subclass; it returns when the environment     *)
(* says so, and before start() has returned only if EarlyReturn.           *)
(***************************************************************************)
EXTENDS Naturals

CONSTANTS Controllers,  \* the threads that call start() and join()
          EarlyReturn   \* run() may return while a start() is waiting

ASSUME ThreadAssumption == EarlyReturn \in BOOLEAN

VARIABLES started,   \* start_
          running,   \* run_
          signaled,  \* run_signal_.signaled_
          blocked,   \* controllers asleep on run_signal_
          ctl,       \* where each controller is in start() or join()
          exec       \* where the created std::thread is

vars == <<started, running, signaled, blocked, ctl, exec>>
sigVars == <<signaled, blocked>>

Sig == INSTANCE MSignal
-----------------------------------------------------------------------------
(***************************************************************************)
(* "start" and "join": called, lock_ not held yet.  "starting" and         *)
(* "joining": before the first evaluation of the wait's predicate;         *)
(* "start_wait" and "join_wait": before a later one (asleep while in       *)
(* blocked); "reaping": in thread_->join().                                *)
(***************************************************************************)
StartWaits == {"starting", "start_wait"}
JoinWaits == {"joining", "join_wait"}
CtlStates == {"idle", "start", "join", "reaping"} \cup StartWaits \cup JoinWaits

\* "created": executor() not begun; "running": in run(); "returned": run()
\* has returned; "exited": executor() is done, the std::thread is joinable.
ExecStates == {"none", "created", "running", "returned", "exited"}

\* lock_ is held from its acquisition to the return of start() or join().
Holds(c) == ctl[c] \in StartWaits \cup JoinWaits \cup {"reaping"}
LockFree == \A c \in Controllers : ~Holds(c)

CtlStep(c, from, to) == ctl[c] = from /\ ctl' = [ctl EXCEPT ![c] = to]

Init == /\ started = FALSE
        /\ running = FALSE
        /\ Sig!SigInit
        /\ ctl = [c \in Controllers |-> "idle"]
        /\ exec = "none"
-----------------------------------------------------------------------------
\* A controller calls start() or join().
Call(c) == /\ \/ CtlStep(c, "idle", "start")
              \/ CtlStep(c, "idle", "join")
           /\ UNCHANGED <<started, running, sigVars, exec>>

\* start() up to its wait.
StartCreate(c) == /\ LockFree
                  /\ ~started
                  /\ started' = TRUE
                  /\ exec' = "created"
                  /\ CtlStep(c, "start", "starting")
                  /\ UNCHANGED <<running, sigVars>>

\* start() returns false: start_ is set, or creating the std::thread threw.
StartFails(c) == /\ LockFree
                 /\ CtlStep(c, "start", "idle")
                 /\ UNCHANGED <<started, running, sigVars, exec>>

\* Seeded bug: the predicate is start_ instead of run_.
StartWait_WrongFlag(c) ==
    /\ ctl[c] \in StartWaits
    /\ Sig!EvalFunc(c, ctl[c] = "starting", started)
    /\ ctl' = [ctl EXCEPT ![c] = IF c \in blocked' THEN "start_wait" ELSE "idle"]
    /\ UNCHANGED <<started, running, exec>>

\* run_signal_.wait([&]() { return run_; }) and the return of start().
StartWait(c) ==
    /\ ctl[c] \in StartWaits
    /\ Sig!EvalFunc(c, ctl[c] = "starting", running)
    /\ ctl' = [ctl EXCEPT ![c] = IF c \in blocked' THEN "start_wait" ELSE "idle"]
    /\ UNCHANGED <<started, running, exec>>

\* Seeded bug: join() does not take lock_.
JoinEnter_Unlocked(c) == /\ CtlStep(c, "join", IF started THEN "joining" ELSE "idle")
                         /\ UNCHANGED <<started, running, sigVars, exec>>

\* join() up to its wait; it returns false if there is nothing to join.
JoinEnter(c) == /\ LockFree
                /\ CtlStep(c, "join", IF started THEN "joining" ELSE "idle")
                /\ UNCHANGED <<started, running, sigVars, exec>>

\* run_signal_.wait([&]() { return run_ == false; })
JoinWait(c) ==
    /\ ctl[c] \in JoinWaits
    /\ Sig!EvalFunc(c, ctl[c] = "joining", ~running)
    /\ ctl' = [ctl EXCEPT ![c] = IF c \in blocked' THEN "join_wait" ELSE "reaping"]
    /\ UNCHANGED <<started, running, exec>>

\* Seeded bug: join() leaves start_ set.
JoinReap_KeepsStart(c) == /\ exec = "exited"
                          /\ exec' = "none"
                          /\ CtlStep(c, "reaping", "idle")
                          /\ UNCHANGED <<started, running, sigVars>>

\* thread_->join() returns, start_ is cleared, join() returns true.
JoinReap(c) == /\ exec = "exited"
               /\ exec' = "none"
               /\ started' = FALSE
               /\ CtlStep(c, "reaping", "idle")
               /\ UNCHANGED <<running, sigVars>>

\* A condition variable may wake a controller for no reason.
SpuriousWake(c) == /\ Sig!SpuriousWake(c)
                   /\ UNCHANGED <<started, running, ctl, exec>>
-----------------------------------------------------------------------------
(* executor() *)

ExecBegin == /\ exec = "created"
             /\ exec' = "running"
             /\ running' = TRUE
             /\ Sig!NotifyOne
             /\ UNCHANGED <<started, ctl>>

Starting == \E c \in Controllers : ctl[c] \in StartWaits

RunReturns == /\ exec = "running"
              /\ EarlyReturn \/ ~Starting
              /\ exec' = "returned"
              /\ UNCHANGED <<started, running, sigVars, ctl>>

\* Seeded bug: executor() does not notify the join() that waits.
ExecEnd_Silent == /\ exec = "returned"
                  /\ exec' = "exited"
                  /\ running' = FALSE
                  /\ UNCHANGED <<started, sigVars, ctl>>

ExecEnd == /\ exec = "returned"
           /\ exec' = "exited"
           /\ running' = FALSE
           /\ Sig!NotifyOne
           /\ UNCHANGED <<started, ctl>>
-----------------------------------------------------------------------------
CtlProgress(c) == StartWait(c) \/ JoinWait(c) \/ JoinReap(c)

Next == \/ ExecBegin \/ RunReturns \/ ExecEnd
        \/ \E c \in Controllers :
              \/ Call(c) \/ StartCreate(c) \/ StartFails(c) \/ JoinEnter(c)
              \/ CtlProgress(c) \/ SpuriousWake(c)

\* Threads that can run do run, and run() returns.  Nobody has to call
\* start() or join(), no wakeup has to be spurious, and lock_ (a std::mutex)
\* is not given out fairly, so acquiring it is not in the list either.
Fairness == /\ WF_vars(ExecBegin) /\ WF_vars(RunReturns) /\ WF_vars(ExecEnd)
            /\ \A c \in Controllers : WF_vars(CtlProgress(c))

SafeSpec == Init /\ [][Next]_vars
Spec == SafeSpec /\ Fairness
-----------------------------------------------------------------------------
TypeOK == /\ started \in BOOLEAN
          /\ running \in BOOLEAN
          /\ signaled \in BOOLEAN
          /\ ctl \in [Controllers -> CtlStates]
          /\ blocked \in SUBSET {c \in Controllers : ctl[c] \in {"start_wait", "join_wait"}}
          /\ exec \in ExecStates

(***************************************************************************)
(* MSignal's header: it is safe only one to one.  lock_ sees to it: at     *)
(* most one controller is inside start() or join(), so at most one thread  *)
(* ever waits on run_signal_.                                              *)
(***************************************************************************)
OneWaiter == \A c, d \in Controllers : Holds(c) /\ Holds(d) => c = d

(***************************************************************************)
(* What start_ and run_ say of the thread across restarts: start_ is set   *)
(* exactly while there is a std::thread to reap, run_ exactly while it is  *)
(* inside run(), a join() past its wait has a thread that is leaving, and  *)
(* a thread that has not begun still has its start() waiting for it.       *)
(***************************************************************************)
FlagsTellTheThread ==
    /\ started <=> exec # "none"
    /\ running <=> exec \in {"running", "returned"}
    /\ \A c \in Controllers : Holds(c) => started
    /\ \A c \in Controllers : ctl[c] = "reaping" => ~running
    /\ exec = "created" => Starting

(***************************************************************************)
(* start() leaves its wait only when the thread of this very start has     *)
(* been seen in run(): a notification left over from an earlier life of    *)
(* the object does not let it through.                                     *)
(***************************************************************************)
StartSeesTheThreadRun ==
    [][\A c \in Controllers :
         ctl[c] \in StartWaits /\ ctl'[c] = "idle"
            => exec \in {"running", "returned"}]_vars

(***************************************************************************)
(* MThread.h:23 and 29: start() reports an error or the running thread,    *)
(* join() blocks until the thread is joined.  Once either holds lock_ it   *)
(* comes back: no notification it sleeps for is lost or taken by another,  *)
(* provided run() returns and outlives the start() that waits for it.      *)
(***************************************************************************)
CallsReturn == \A c \in Controllers : Holds(c) ~> ctl[c] = "idle"
=============================================================================
