----------------------------- MODULE MCComments -----------------------------
(***************************************************************************)
(* A program with an instant of SysDateTime and a document of MJson, for   *)
(* TLC to look for a state of the two in which nothing is left of four     *)
(* comments of their headers.                                              *)
(***************************************************************************)
EXTENDS SysDateTime

CONSTANTS Names, Indexes, Texts, MaxMade, MaxDepth

VARIABLES heap, made, other, at, held, safe

J == INSTANCE MJsonProgram

jsonVars == <<heap, made, other, at, held, safe>>

StepsDef == {-1, 31}

Value(t) == [type |-> "value", value |-> t, kids |-> <<>>]
Object(x) == [type |-> "object", value |-> "null", kids |-> [x |-> x]]
Array(kids) == [type |-> "array", value |-> "null", kids |-> kids]

TwoIndexes == <<"[0]", "[1]">>
TextsDef == {Object(Array([i \in {"[0]"} |-> Value("number")]))}

BothInit == Init /\ J!Init
BothNext == \/ Next /\ UNCHANGED jsonVars
            \/ J!Next /\ UNCHANGED vars
BothSpec == BothInit /\ [][BothNext]_<<vars, jsonVars>>
-----------------------------------------------------------------------------
(***************************************************************************)
(* The comment on SysDateTime(date, time), SysDateTime.h:35-36 ("nanosec   *)
(* is zero"), and three in MJsonObject.h: as_..._or throw if the value is  *)
(* there and of another type (:241), required_for() throws if the array is *)
(* not there (:287 and :296), optional() of an index calls its handler for *)
(* an element that is there (:304).  That some one of the four holds in    *)
(* every state is asked of them together, because a single state in which  *)
(* none does refutes them all.                                             *)
(***************************************************************************)
SomeCommentHolds == JoinedToTheSecond \/ J!AsDocumented
=============================================================================
