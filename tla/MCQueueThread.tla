--------------------------- MODULE MCQueueThread ---------------------------
(***************************************************************************)
(* An instance of LockFreeQueueThread for TLC, in the class that adds most *)
(* to it: the thread of the stream logger.                                 *)
(***************************************************************************)
EXTENDS StreamLogger
=============================================================================
