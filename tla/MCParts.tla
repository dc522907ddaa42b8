------------------------------ MODULE MCParts ------------------------------
(***************************************************************************)
(* Instances for TLC of the parts that depend on nothing but themselves:   *)
(* MThread, LockedObjects, FilterTraffic, TrapInfoList and MJsonProgram.   *)
(* They are checked side by side: one of them moves, the others stay in    *)
(* one state each.  The controllers of MThread, the threads of             *)
(* LockedObjects and the receivers of FilterTraffic have the same names,   *)
(* so that each stands for one thread in whichever part moves.             *)
(***************************************************************************)
EXTENDS MThread, LockedObjects, FilterTraffic, TrapInfoList

CONSTANTS Names, Indexes, Texts, MaxMade, MaxDepth

VARIABLES part, heap, made, other, document, reference, safe

J == INSTANCE MJsonProgram WITH at <- document, held <- reference

jsonVars == <<heap, made, other, document, reference, safe>>
partsVars == <<part, vars, lockedVars, trafficVars, trapVars, jsonVars>>

Value(t) == [type |-> "value", value |-> t, kids |-> <<>>]
Object(x) == [type |-> "object", value |-> "null", kids |-> [x |-> x]]
Array(kids) == [type |-> "array", value |-> "null", kids |-> kids]
NoMembers == [type |-> "object", value |-> "null", kids |-> <<>>]

TwoIndexes == <<"[0]", "[1]">>
TextsDef == {Object(Object(Value("string"))), Object(Array([i \in {"[0]"} |-> Value("number")])),
             Object(NoMembers)}

ListRests == ListInit /\ table = CHOOSE c \in Contents : TRUE
NoProgram == /\ heap = <<>> /\ made = 1 /\ other = <<>>
             /\ document = J!Begin(<<1>>) /\ reference = <<>> /\ safe = FALSE

PartsInit == /\ Init /\ LockedInit /\ TrafficInit
             /\ \/ part \in {"thread", "locked", "traffic"} /\ ListRests /\ NoProgram
                \/ part = "list" /\ ListInit /\ NoProgram
                \/ part = "json" /\ ListRests /\ J!Init

\* A step of the part that moves.
Thread(step) == part = "thread" /\ step /\ UNCHANGED <<part, lockedVars, trafficVars, trapVars, jsonVars>>
Locked(step) == part = "locked" /\ step /\ UNCHANGED <<part, vars, trafficVars, trapVars, jsonVars>>
Traffic(step) == part = "traffic" /\ step /\ UNCHANGED <<part, vars, lockedVars, trapVars, jsonVars>>
List(step) == part = "list" /\ step /\ UNCHANGED <<part, vars, lockedVars, trafficVars, jsonVars>>
Json(step) == part = "json" /\ step /\ UNCHANGED <<part, vars, lockedVars, trafficVars, trapVars>>

PartsNext == \/ Thread(Next) \/ Locked(LockedNext) \/ Traffic(TrafficNext)
             \/ List(ListNext) \/ Json(J!Next)

\* The threads that call, ...
Calls(t) == \/ Thread(t \in Controllers /\ CtlProgress(t))
            \/ Locked(t \in Threads /\ Progress(t))
            \/ Traffic(t \in Receivers /\ PushProgress(t))
\* ... the threads that the objects have, ...
Runs(w) == Traffic(WorkerProgress(w))
Executes == \/ Thread(ExecBegin \/ RunReturns \/ ExecEnd)
            \/ List(UpdateStep \/ Poll \/ RunEnds)
\* ... and what goes on around them.
Environment == Traffic(Tick) \/ List(DbRecovers)

\* The fairness of each part: what is listed there one by one and put together
\* here are the steps of one thread, of which one is possible at a time.
PartsSpec == /\ PartsInit
             /\ [][PartsNext]_partsVars
             /\ \A t \in Controllers \cup Threads \cup Receivers : WF_partsVars(Calls(t))
             /\ \A w \in Workers : WF_partsVars(Runs(w))
             /\ WF_partsVars(Executes)
             /\ WF_partsVars(Environment)
-----------------------------------------------------------------------------

(***************************************************************************)
(* A reference the program may rely on is to a node that exists:           *)
(* MJsonProgram.                                                           *)
(***************************************************************************)
ReferencesHold == J!ReferencesHold

(***************************************************************************)
(* Every node of MJson is in one place of one document: MJsonProgram.      *)
(***************************************************************************)
DocumentsAreTrees == J!DocumentsAreTrees
=============================================================================
