----------------------------- MODULE MCBlocking -----------------------------
(***************************************************************************)
(* An instance of BlockingThread for TLC: both containers.                 *)
(***************************************************************************)
EXTENDS BlockingThread

BothKinds == {"deque", "vector"}
=============================================================================
