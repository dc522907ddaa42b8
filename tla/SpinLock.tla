------------------------------ MODULE SpinLock ------------------------------
(***************************************************************************)
(* SpinLock of filter-ground/extra, for a set of locks: an atomic_flag and *)
(* a counter that lags behind it.  Each operator is one atomic access of   *)
(* the module that instantiates this one; a failed test_and_set spins and  *)
(* is no step.                                                             *)
(***************************************************************************)
EXTENDS Integers

CONSTANT Locks

VARIABLES flag,      \* spin_lock_ of each lock
          lockCount  \* lock_count_

SpinInit == /\ flag = [l \in Locks |-> FALSE]
            /\ lockCount = [l \in Locks |-> 0]

\* lock()
TestAndSet(l) == /\ ~flag[l]
                 /\ flag' = [flag EXCEPT ![l] = TRUE]
                 /\ UNCHANGED lockCount

CountUp(l) == /\ lockCount' = [lockCount EXCEPT ![l] = @ + 1]
              /\ UNCHANGED flag

\* unlock()
CountDown(l) == /\ lockCount' = [lockCount EXCEPT ![l] = @ - 1]
                /\ UNCHANGED flag

Clear(l) == /\ flag' = [flag EXCEPT ![l] = FALSE]
            /\ UNCHANGED lockCount

IsLock(l) == lockCount[l] > 0
=============================================================================
