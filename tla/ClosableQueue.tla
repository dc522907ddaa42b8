--------------------------- MODULE ClosableQueue ---------------------------
(***************************************************************************)
(* What BlockingLockFreeQueue keeps to its producers and its consumer,     *)
(* without threads, signals or counters: a bounded backlog that accepts a  *)
(* push admitted while the queue was open (even when the queue closes in   *)
(* between) and tells the consumer "closed" only after an attempt of the   *)
(* same pop found the backlog empty.  This is less than the comment at     *)
(* BlockingLockFreeQueue.h:18-19 promises: End looks at the backlog no     *)
(* more, so an item put after the attempt may be left behind.  The         *)
(* promise of the comment is ClosedMeansDrained of BlockingLockFreeQueue,  *)
(* which the code does not keep.                                           *)
(***************************************************************************)
EXTENDS Naturals

CONSTANT Capacity  \* how many items may wait, at least one

VARIABLES backlog,   \* number of items waiting
          admitted,  \* pushes that were let in and have not stored or failed yet
          open,      \* the queue accepts new pushes
          sawEmpty,  \* the running pop has found the backlog empty
          ended      \* pop has returned "closed"
vars == <<backlog, admitted, open, sawEmpty, ended>>

Init == /\ backlog = 0
        /\ admitted = 0
        /\ open \in BOOLEAN
        /\ sawEmpty = FALSE
        /\ ended = TRUE

Open == /\ ~open
        /\ open' = TRUE
        /\ UNCHANGED <<backlog, admitted, sawEmpty, ended>>

Close == /\ open
         /\ open' = FALSE
         /\ UNCHANGED <<backlog, admitted, sawEmpty, ended>>

Admit == /\ open
         /\ admitted' = admitted + 1
         /\ UNCHANGED <<backlog, open, sawEmpty, ended>>

Put == /\ admitted > 0
       /\ backlog < Capacity
       /\ admitted' = admitted - 1
       /\ backlog' = backlog + 1
       /\ UNCHANGED <<open, sawEmpty, ended>>

Refuse == /\ admitted > 0
          /\ backlog = Capacity
          /\ admitted' = admitted - 1
          /\ UNCHANGED <<backlog, open, sawEmpty, ended>>

Take == /\ ~ended
        /\ ~sawEmpty
        /\ backlog > 0
        /\ backlog' = backlog - 1
        /\ UNCHANGED <<admitted, open, sawEmpty, ended>>

Miss == /\ ~ended
        /\ ~sawEmpty
        /\ backlog = 0
        /\ sawEmpty' = TRUE
        /\ UNCHANGED <<backlog, admitted, open, ended>>

Retry == /\ sawEmpty
         /\ sawEmpty' = FALSE
         /\ UNCHANGED <<backlog, admitted, open, ended>>

End == /\ sawEmpty
       /\ ~open
       /\ sawEmpty' = FALSE
       /\ ended' = TRUE
       /\ UNCHANGED <<backlog, admitted, open>>

Restart == /\ ended
           /\ ended' = FALSE
           /\ UNCHANGED <<backlog, admitted, open, sawEmpty>>

Next == \/ Open \/ Close
        \/ Admit \/ Put \/ Refuse
        \/ Take \/ Miss \/ Retry \/ End \/ Restart

SafeSpec == Init /\ [][Next]_vars

(***************************************************************************)
(* Progress, with the enabling conditions written out: an item at the      *)
(* disposal of a pop is taken, a pop does not stay on its empty finding,   *)
(* a push that was let in stores or fails, and a consumer is told about a  *)
(* queue that stays closed.                                                *)
(***************************************************************************)
Progress == /\ []<>(ended \/ sawEmpty \/ backlog = 0) \/ []<><<Take>>_vars
            /\ []<>(~sawEmpty)
            /\ []<>(admitted = 0) \/ []<><<Put \/ Refuse>>_vars
            /\ []<>(open \/ ended)

Spec == SafeSpec /\ Progress
=============================================================================
