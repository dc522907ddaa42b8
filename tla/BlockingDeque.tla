--------------------------- MODULE BlockingDeque ---------------------------
(***************************************************************************)
(* BlockingDeque of filter-ground/extra: a std::deque and open_ under the  *)
(* lock of an MSignal, for one consumer.  Every member holds the lock from *)
(* its first access to its last, or to the wait that releases it, so each  *)
(* is one step; only a pop that waits takes several.  Items are            *)
(* interchangeable: container_ is the number of its items.                 *)
(***************************************************************************)
EXTENDS Naturals

CONSTANTS Consumer,  \* the thread that pops
          MaxItems   \* bound: how many items the container holds in the model

VARIABLES open,      \* open_
          queued,    \* number of items in container_
          signaled,  \* signal_.signaled_
          blocked,   \* {Consumer} while it sleeps on signal_, else {}
          pop,       \* where the consumer is
          silent     \* container_ has items that came by swap(), not notified

sigVars == <<signaled, blocked>>
vars == <<open, queued, sigVars, pop, silent>>

Sig == INSTANCE MSignal
-----------------------------------------------------------------------------
(***************************************************************************)
(* "ended": no thread pops, or pop has returned -1; "look": at the head of *)
(* pop's loop, the lock not held; "waiting": in signal_.wait (asleep while *)
(* in blocked); "handling": pop has returned 0 or ETIMEDOUT.               *)
(***************************************************************************)
PopStates == {"ended", "look", "waiting", "handling"}
PopStep(from, to) == pop = from /\ pop' = to

Init == /\ open \in BOOLEAN
        /\ queued = 0
        /\ Sig!SigInit
        /\ pop = "ended"
        /\ silent = FALSE

\* open() and close() notify whether or not they change open_.
SetOpen(o) == /\ open' = o
              /\ Sig!NotifyOne
              /\ UNCHANGED <<queued, pop, silent>>

Open == SetOpen(TRUE)

Close == SetOpen(FALSE)

(***************************************************************************)
(* push_back, push_front, emplace_back, emplace_front: one item, or all of *)
(* another deque.  A closed deque refuses them, with a notification still. *)
(***************************************************************************)
Push == /\ \E n \in 1..MaxItems :
              /\ queued + n <= MaxItems
              /\ queued' = IF open THEN queued + n ELSE queued
        /\ Sig!NotifyOne
        /\ UNCHANGED <<open, pop, silent>>

(***************************************************************************)
(* swap() takes what there is and leaves the items of the caller's deque,  *)
(* whether or not the deque is open, and notifies nobody.                  *)
(***************************************************************************)
Swap == /\ queued' \in 0..MaxItems
        /\ silent' = (queued' > 0)
        /\ UNCHANGED <<open, sigVars, pop>>
-----------------------------------------------------------------------------
(* pop_front, pop_back, pop and wait *)

\* One item or all of them are taken.
PopTake == /\ queued > 0
           /\ queued' \in {queued - 1, 0}
           /\ PopStep("look", "handling")
           /\ silent' = (silent /\ queued' > 0)
           /\ UNCHANGED <<open, sigVars>>

\* Seeded bug: a closed deque ends the pop before its items are gone.
PopClosed_ItemsLeft == /\ ~open
                       /\ PopStep("look", "ended")
                       /\ UNCHANGED <<open, queued, sigVars, silent>>

PopClosed == /\ queued = 0
             /\ ~open
             /\ PopStep("look", "ended")
             /\ UNCHANGED <<open, queued, sigVars, silent>>

\* Seeded bug: a pending notification is kept for later.
PopWait_KeepsFlag == /\ queued = 0
                     /\ open
                     /\ PopStep("look", "waiting")
                     /\ blocked' = {Consumer}
                     /\ UNCHANGED <<open, queued, signaled, silent>>

\* Nothing yet: the first evaluation of the wait's predicate, under the same lock.
PopWait == /\ queued = 0
           /\ open
           /\ \/ PopStep("look", "look") /\ Sig!TakeSignal(Consumer)
              \/ PopStep("look", "waiting") /\ Sig!Block(Consumer)
           /\ UNCHANGED <<open, queued, silent>>

\* The predicate after a wakeup.
PopWake == /\ \/ PopStep("waiting", "look") /\ Sig!TakeSignal(Consumer)
              \/ PopStep("waiting", "waiting") /\ Sig!Block(Consumer)
           /\ UNCHANGED <<open, queued, silent>>

\* Seeded bug: wait_for tells a timeout without a last look at signaled_.
PopTimeOut_NoLastLook == /\ PopStep("waiting", "handling")
                         /\ blocked' = {}
                         /\ UNCHANGED <<open, queued, signaled, silent>>

\* ETIMEDOUT, when msec > 0.
PopTimeOut == /\ PopStep("waiting", "handling")
              /\ Sig!TimeOut(Consumer)
              /\ UNCHANGED <<open, queued, silent>>

SpuriousWake == /\ Sig!SpuriousWake(Consumer)
                /\ UNCHANGED <<open, queued, pop, silent>>

\* The consumer's loop calls pop again.
Handled == /\ PopStep("handling", "look")
           /\ UNCHANGED <<open, queued, sigVars, silent>>

PopBegin == /\ PopStep("ended", "look")
            /\ UNCHANGED <<open, queued, sigVars, silent>>

PopProgress == PopTake \/ PopClosed \/ PopWait \/ PopWake \/ Handled

Next == \/ Open \/ Close \/ Push \/ Swap
        \/ PopProgress \/ PopTimeOut \/ SpuriousWake \/ PopBegin
-----------------------------------------------------------------------------
TypeOK == /\ open \in BOOLEAN
          /\ queued \in 0..MaxItems
          /\ signaled \in BOOLEAN
          /\ blocked \in SUBSET {Consumer}
          /\ pop \in PopStates
          /\ silent \in BOOLEAN
=============================================================================
