------------------------------- MODULE Toggle -------------------------------
(***************************************************************************)
(* Toggle of filter-ground/extra, as its users have it: made with          *)
(* use_lock false, so that nothing orders two threads that turn it.  With  *)
(* use_lock nothing would either: SpinLockGuard(lock_, use_lock_) makes a  *)
(* temporary, which has released the lock before on_ is looked at.  The    *)
(* connectors' err_toggle belongs to one thread.                           *)
(***************************************************************************)
VARIABLE on

Init == on = FALSE

\* turn_on() returns true if it was off.
TurnOn == \/ on /\ UNCHANGED on
          \/ ~on /\ on' = TRUE

\* turn_off() returns true if it was on.
TurnOff == \/ ~on /\ UNCHANGED on
           \/ on /\ on' = FALSE
=============================================================================
