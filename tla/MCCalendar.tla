----------------------------- MODULE MCCalendar -----------------------------
(***************************************************************************)
(* An instance of SysDateTime, with days of 32 ticks, and one of           *)
(* CompactFormat, which is taken apart before the clock is set.            *)
(***************************************************************************)
EXTENDS SysDateTime, CompactFormat

StepsDef == {-1, 31}
FieldsDef == {"Y", "m", "L", "K", "N"}

NoFormat == /\ format = <<"m">> /\ length = 2 /\ next = 2 /\ str_index = 3
            /\ reads = <<<<0, 1>>>> /\ result = "read"

BothInit == Init /\ (NoFormat \/ ScanInit)
BothNext == \/ NoFormat /\ Next /\ UNCHANGED formatVars
            \/ ScanNext /\ UNCHANGED vars
BothSpec == BothInit /\ [][BothNext]_<<vars, formatVars>>
=============================================================================
