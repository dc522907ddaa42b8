------------------------------ MODULE MCQueue ------------------------------
(***************************************************************************)
(* An instance of BlockingLockFreeQueue for TLC, of both variants: the     *)
(* signalled one with pops that wait without limit (the constants of this  *)
(* module), and the adaptive one with timed pops (the instance Adaptive).  *)
(***************************************************************************)
EXTENDS BlockingLockFreeQueue

VARIABLE variant

Adaptive == INSTANCE BlockingLockFreeQueue WITH Signaled <- FALSE, Timed <- TRUE

Either(signaledStep, adaptiveStep) ==
    /\ \/ variant = "signaled" /\ signaledStep
       \/ variant = "adaptive" /\ adaptiveStep
    /\ UNCHANGED variant

BothInit == Init /\ variant \in {"signaled", "adaptive"}
BothNext == Either(Next, Adaptive!Next)

bothVars == <<vars, variant>>
BothSpec ==
    /\ BothInit
    /\ [][BothNext]_bothVars
    /\ WF_bothVars(Either(CloseNotify, Adaptive!CloseNotify))
    /\ WF_bothVars(Either(PopProgress, Adaptive!PopProgress))
    /\ \A p \in Producers :
          WF_bothVars(Either(PushProgress(p), Adaptive!PushProgress(p)))
=============================================================================
