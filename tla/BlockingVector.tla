--------------------------- MODULE BlockingVector ---------------------------
(***************************************************************************)
(* BlockingVector of filter-ground/extra: as BlockingDeque, with its       *)
(* consumer taking all items at once by swapping vectors, and with a       *)
(* backoff_push that sleeps, the lock released, while the vector is filled *)
(* to its capacity.  swap() and reserve() take no lock; nobody calls them  *)
(* on a vector in use, and they are left out.                              *)
(***************************************************************************)
EXTENDS BlockingDeque

CONSTANTS Producers,  \* the threads that call backoff_push
          Reserve,    \* reserve_size_
          MaxRetries  \* max_retries of backoff_push; 0: without end

VARIABLES capacity,  \* container_.capacity()
          spare,     \* the capacity of the vector that the consumer passes
          sleeps,    \* of each producer in backoff_push; 0 outside
          late       \* container_ has items stored while it was closed

vectorVars == <<capacity, spare, sleeps, late>>

VInit == /\ Init
         /\ capacity = Reserve
         /\ spare = Reserve
         /\ sleeps = [p \in Producers |-> 0]
         /\ late = FALSE
-----------------------------------------------------------------------------
\* open() does not notify, close() does.
VOpen == /\ open' = TRUE
         /\ UNCHANGED <<queued, sigVars, pop, silent, vectorVars>>

VClose == Close /\ UNCHANGED vectorVars

\* push(): a full vector grows to the double.
VPush == /\ queued < MaxItems
         /\ queued' = IF open THEN queued + 1 ELSE queued
         /\ capacity' = IF open /\ queued = capacity THEN 2 * capacity ELSE capacity
         /\ Sig!NotifyOne
         /\ UNCHANGED <<open, pop, silent, spare, sleeps, late>>

\* The end of backoff_push, which notifies whatever it returns.
BackoffReturns(p) == /\ sleeps' = [sleeps EXCEPT ![p] = 0]
                     /\ Sig!NotifyOne
                     /\ UNCHANGED <<open, pop, silent, capacity, spare>>

\* There is room.  open_ is not looked at.
BackoffStores(p) == /\ queued < capacity
                    /\ queued < MaxItems
                    /\ queued' = queued + 1
                    /\ late' = (late \/ ~open)
                    /\ BackoffReturns(p)

\* -1 or EAGAIN.
BackoffFails(p) == /\ queued >= capacity
                   /\ ~open \/ (MaxRetries > 0 /\ sleeps[p] >= MaxRetries)
                   /\ BackoffReturns(p)
                   /\ UNCHANGED <<queued, late>>

BackoffSleeps(p) == /\ queued >= capacity
                    /\ open
                    /\ MaxRetries = 0 \/ sleeps[p] < MaxRetries
                    /\ sleeps' = [sleeps EXCEPT ![p] = IF MaxRetries = 0 THEN 1 ELSE @ + 1]
                    /\ UNCHANGED <<open, queued, sigVars, pop, silent, capacity, spare, late>>

BackoffPush(p) == BackoffStores(p) \/ BackoffFails(p) \/ BackoffSleeps(p)
-----------------------------------------------------------------------------
\* pop() swaps the container with the vector of its caller, who has reserved it.
VPopTake == /\ queued > 0
            /\ queued' = 0
            /\ PopStep("look", "handling")
            /\ capacity' = spare
            /\ spare' = capacity
            /\ late' = FALSE
            /\ UNCHANGED <<open, sigVars, silent, sleeps>>

VPopProgress == \/ VPopTake
                \/ (PopClosed \/ PopWait \/ PopWake \/ Handled) /\ UNCHANGED vectorVars

VNext == \/ VOpen \/ VClose \/ VPush
         \/ \E p \in Producers : BackoffPush(p)
         \/ VPopProgress
         \/ (PopTimeOut \/ SpuriousWake \/ PopBegin) /\ UNCHANGED vectorVars
-----------------------------------------------------------------------------
VTypeOK == /\ TypeOK
           /\ capacity \in Reserve..(2 * MaxItems)
           /\ spare \in Reserve..(2 * MaxItems)
           /\ sleeps \in [Producers -> Nat]
           /\ late \in BOOLEAN
=============================================================================
