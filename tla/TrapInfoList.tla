---------------------------- MODULE TrapInfoList ----------------------------
(***************************************************************************)
(* TrapInfoList of auth-filter: a copy of a database table in memory.      *)
(* start() loads it and starts a thread that polls the table's checksum    *)
(* every table_check_period_ms and reloads the list when it differs.       *)
(* Reading the checksum, reading the table, storing the checksum and       *)
(* swapping the list are separate steps; the table changes in between.     *)
(* The checksum is taken to tell contents apart.                           *)
(***************************************************************************)
EXTENDS Naturals

CONSTANTS Contents,   \* what the table can hold
          MaxWrites,  \* bound: how often the table changes
          MaxFaults   \* bound: how often the database becomes unreachable

NotLoaded == "not loaded"
ASSUME TrapAssumption == /\ MaxWrites \in Nat /\ MaxFaults \in Nat
                         /\ NotLoaded \notin Contents

VARIABLES table,     \* the table's content
          past,      \* contents it had before
          dbUp,      \* the database answers
          writes,    \* changes so far
          faults,    \* outages so far
          checksum,  \* checksum_, as the content it stands for
          numbers,   \* numbers_
          sum,       \* update_container's local checksum
          loaded,    \* update_container's local numbers
          update,    \* where update_container is
          caller,    \* who runs it: "start" or the thread ("run")
          thread,    \* the list's thread: "off", "failed", "on", "ended"
          open       \* waiter_ is open

dbVars == <<table, past, dbUp, writes, faults>>
listVars == <<checksum, numbers, sum, loaded, update, caller>>
lifeVars == <<thread, open>>
trapVars == <<dbVars, listVars, lifeVars>>

ListInit == /\ table \in Contents
            /\ past = {}
            /\ dbUp = TRUE
            /\ writes = 0 /\ faults = 0
            /\ checksum = NotLoaded
            /\ numbers = NotLoaded
            /\ sum = NotLoaded
            /\ loaded = NotLoaded
            /\ update = "idle"
            /\ caller = "start"
            /\ thread = "off"
            /\ open = FALSE
-----------------------------------------------------------------------------
(* The database, used through cnaps_db *)

WriteTable == /\ writes < MaxWrites
              /\ \E c \in Contents \ {table} : table' = c
              /\ past' = past \cup {table}
              /\ writes' = writes + 1
              /\ UNCHANGED <<dbUp, faults, listVars, lifeVars>>

DbFails == /\ dbUp
           /\ faults < MaxFaults
           /\ dbUp' = FALSE
           /\ faults' = faults + 1
           /\ UNCHANGED <<table, past, writes, listVars, lifeVars>>

DbRecovers == /\ ~dbUp
              /\ dbUp' = TRUE
              /\ UNCHANGED <<table, past, writes, faults, listVars, lifeVars>>
-----------------------------------------------------------------------------
(* update_container *)

\* update_container returns; start() goes on to open waiter_ and create the
\* thread, or fails, which with waiter_ open it does when the thread cannot be
\* created; the thread goes back to its wait.
UpdateReturns(result) ==
    /\ update' = "idle"
    /\ sum' = NotLoaded /\ loaded' = NotLoaded
    /\ IF caller = "start"
       THEN IF result THEN /\ open' = TRUE
                           /\ \/ thread' = "on" /\ caller' = "run"
                              \/ thread' = "failed" /\ UNCHANGED caller
                      ELSE /\ thread' = "failed"
                           /\ UNCHANGED <<open, caller>>
       ELSE UNCHANGED <<thread, open, caller>>

\* Seeded bug: an update that could not read the checksum counts as done.
GetChecksum_FailureIsNoChange ==
    /\ update = "check"
    /\ IF dbUp /\ table # checksum
       THEN /\ update' = "load"
            /\ sum' = table
            /\ UNCHANGED <<loaded, caller, lifeVars>>
       ELSE UpdateReturns(TRUE)
    /\ UNCHANGED <<dbVars, checksum, numbers>>

\* Seeded bug: the checksum is stored before the list is loaded.
GetChecksum_StoresEarly ==
    /\ update = "check"
    /\ IF dbUp /\ table # checksum
       THEN /\ update' = "load"
            /\ sum' = table
            /\ checksum' = table
            /\ UNCHANGED <<loaded, caller, lifeVars>>
       ELSE UpdateReturns(FALSE) /\ UNCHANGED checksum
    /\ UNCHANGED <<dbVars, numbers>>

\* get_checksum, and the comparison with checksum_; -1 when the query fails.
GetChecksum == /\ update = "check"
               /\ IF dbUp /\ table # checksum
                  THEN /\ update' = "load"
                       /\ sum' = table
                       /\ UNCHANGED <<loaded, caller, lifeVars>>
                  ELSE UpdateReturns(FALSE)
               /\ UNCHANGED <<dbVars, checksum, numbers>>

LoadData == /\ update = "load"
            /\ IF dbUp
               THEN /\ update' = "store"
                    /\ loaded' = table
                    /\ UNCHANGED <<sum, caller, lifeVars>>
               ELSE UpdateReturns(FALSE)
            /\ UNCHANGED <<dbVars, checksum, numbers>>

\* Seeded bug: the checksum is read again after the list.
StoreChecksum_ReadsAgain ==
    /\ update = "store"
    /\ checksum' = table
    /\ update' = "swap"
    /\ UNCHANGED <<dbVars, lifeVars, numbers, sum, loaded, caller>>

\* checksum_ = checksum, before lock_ is taken
StoreChecksum == /\ update = "store"
                 /\ checksum' = sum
                 /\ update' = "swap"
                 /\ UNCHANGED <<dbVars, lifeVars, numbers, sum, loaded, caller>>

SwapNumbers == /\ update = "swap"
               /\ numbers' = loaded
               /\ UpdateReturns(TRUE)
               /\ UNCHANGED <<dbVars, checksum>>

UpdateStep == GetChecksum \/ LoadData \/ StoreChecksum \/ SwapNumbers
-----------------------------------------------------------------------------
(* start(), run() and stop() *)

Start == /\ thread = "off"
         /\ update = "idle"
         /\ update' = "check"
         /\ UNCHANGED <<dbVars, lifeVars, checksum, numbers, sum, loaded, caller>>

\* The update at the head of run(), or pop_back timed out.
Poll == /\ thread = "on"
        /\ open
        /\ update = "idle"
        /\ update' = "check"
        /\ UNCHANGED <<dbVars, lifeVars, checksum, numbers, sum, loaded, caller>>

\* main stops the list also after its start() has failed.
Stop == /\ thread \in {"on", "failed"}
        /\ open
        /\ open' = FALSE
        /\ UNCHANGED <<dbVars, listVars, thread>>

\* pop_back returns -1.
RunEnds == /\ thread = "on"
           /\ ~open
           /\ update = "idle"
           /\ thread' = "ended"
           /\ UNCHANGED <<dbVars, listVars, open>>

ListNext == \/ WriteTable \/ DbFails \/ DbRecovers
            \/ UpdateStep
            \/ Start \/ Poll \/ Stop \/ RunEnds

\* An outage ends, the thread runs, its wait times out or is told to end.
ListFairness == /\ WF_trapVars(DbRecovers)
                /\ WF_trapVars(UpdateStep)
                /\ WF_trapVars(Poll)
                /\ WF_trapVars(RunEnds)

ListSpec == ListInit /\ [][ListNext]_trapVars /\ ListFairness
-----------------------------------------------------------------------------
Known == Contents \cup {NotLoaded}
ListTypeOK == /\ table \in Contents /\ past \subseteq Contents /\ dbUp \in BOOLEAN
              /\ writes \in 0..MaxWrites /\ faults \in 0..MaxFaults
              /\ checksum \in Known /\ numbers \in Known
              /\ update \in {"idle", "check", "load", "store", "swap"}
              /\ sum \in IF update \in {"load", "store", "swap"} THEN Contents ELSE {NotLoaded}
              /\ loaded \in IF update \in {"store", "swap"} THEN Contents ELSE {NotLoaded}
              /\ caller \in {"start", "run"}
              /\ thread \in {"off", "failed", "on", "ended"}
              /\ open \in BOOLEAN

Serving == thread = "on" /\ open

(***************************************************************************)
(* Messages are filtered against a list the table really held: once        *)
(* start() has returned true, and through outages, contains() works on a   *)
(* content that is or was the table's, never on an empty or partial list.  *)
(***************************************************************************)
ServesARealList == thread \in {"on", "ended"} => numbers \in past \cup {table}

\* The table has returned to a content it had before.
Reverted == table \in past

(***************************************************************************)
(* The stored checksum never runs ahead of the list: outside the two       *)
(* stores, a list that is out of date has a checksum that is, too, and     *)
(* will be found out.  (Not so when the table changed during an update and *)
(* then back again: the checksum of the one content stays with the list of *)
(* the other.)                                                             *)
(***************************************************************************)
ChecksumNotAhead ==
    update \in {"idle", "check", "load"} /\ numbers # table /\ ~Reverted
        => checksum # table

(***************************************************************************)
(* TrapInfoList.cpp:65: the list is brought up to date.  When the table    *)
(* has stopped changing, and is not back at an earlier content, the list   *)
(* of a serving process ends up equal to it, whatever outages there were.  *)
(***************************************************************************)
EventuallyFresh == <>[](numbers = table \/ Reverted \/ ~Serving)
=============================================================================
