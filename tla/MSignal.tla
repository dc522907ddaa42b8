------------------------------ MODULE MSignal ------------------------------
(***************************************************************************)
(* The primitives of class MSignal (filter-ground/extra/MSignal.h): a      *)
(* condition variable with a sticky flag.  Every member function holds     *)
(* lock_ from its first to its last access, and cond_.wait releases it     *)
(* atomically, so each operator below is one indivisible step of the       *)
(* module that instantiates this one.                                      *)
(***************************************************************************)
VARIABLES signaled,  \* signaled_: a notification nobody has consumed yet
          blocked    \* threads inside cond_.wait that have not been woken

SigInit == /\ signaled = FALSE
           /\ blocked = {}

\* cond_.notify_one(): wakes one of the blocked threads, if there is one.
WakeOne == IF blocked = {} THEN UNCHANGED blocked
                           ELSE \E t \in blocked : blocked' = blocked \ {t}

\* notify_one_nolock(): a pending notification absorbs the new one.
NotifyOne == \/ /\ signaled
                /\ UNCHANGED <<signaled, blocked>>
             \/ /\ ~signaled
                /\ signaled' = TRUE
                /\ WakeOne

\* The predicate of wait() is true: the notification is consumed.
TakeSignal(t) == /\ t \notin blocked
                 /\ signaled
                 /\ signaled' = FALSE
                 /\ UNCHANGED blocked

\* The predicate of wait() is false: the thread sleeps, lock_ is released.
Block(t) == /\ t \notin blocked
            /\ ~signaled
            /\ blocked' = blocked \cup {t}
            /\ UNCHANGED signaled

\* wait(func) looks at func() on its first evaluation and then only when a
\* notification arrived; each evaluation clears signaled_.
EvalFunc(t, first, func) ==
    /\ t \notin blocked
    /\ signaled' = FALSE
    /\ blocked' = IF (first \/ signaled) /\ func THEN blocked ELSE blocked \cup {t}

\* A wakeup without a notification, which condition variables permit.
SpuriousWake(t) == /\ t \in blocked
                   /\ blocked' = blocked \ {t}
                   /\ UNCHANGED signaled

\* wait_for gives up: its predicate is false at the end of the time.
TimeOut(t) == /\ ~signaled
              /\ blocked' = blocked \ {t}
              /\ UNCHANGED signaled
=============================================================================
