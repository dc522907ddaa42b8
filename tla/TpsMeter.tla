------------------------------ MODULE TpsMeter ------------------------------
(***************************************************************************)
(* TpsMeter of filter-ground/extra.  A meter is the multiset transactions_ *)
(* of the times it was told, the latest first as std::greater has them:    *)
(* here the age of each entry by the system clock, because only the ages   *)
(* count.  Window ticks are the second of cleanup_cutoff; an entry of age  *)
(* Window or more stays, not counted, until the next call removes it.  A   *)
(* clock that is set back makes entries of a negative age.                 *)
(***************************************************************************)
EXTENDS Integers, FiniteSets, Sequences, SequencesExt

CONSTANTS Window,   \* ticks in one second
          MaxBack   \* bound: how many ticks the clock is set back in all

ASSUME WindowAssumption == Window \in Nat \ {0} /\ MaxBack \in Nat

Ages == (-MaxBack)..Window

NoTransactions == <<>>

Size(meter) == Len(meter)

\* How many entries come before the lower_bound of an age.
Newer(meter, age) == Cardinality({i \in 1..Len(meter) : meter[i] < age})

\* cleanup_cutoff: from the lower_bound of the cutoff on, all is erased.
Cleanup(meter) == SubSeq(meter, 1, Newer(meter, Window))

\* Seeded bug: get_tps leaves the cleanup to add_transaction.
Look_NoCleanup(meter) == meter

\* get_tps, whose answer is the Size of what it leaves.
Look(meter) == Cleanup(meter)

\* add_transaction
Add(meter) == Cleanup(InsertAt(meter, Newer(meter, 0) + 1, 0))

\* The clock goes on by a tick.
Older(meter) == [i \in 1..Len(meter) |-> IF meter[i] < Window THEN meter[i] + 1 ELSE Window]

\* The clock is set back by a tick; some of the entries that had gone too old,
\* and nobody has removed, count again.
Younger(meter) ==
    { [i \in 1..Len(meter) |-> IF i <= counted THEN meter[i] - 1 ELSE Window] :
        counted \in Newer(meter, Window)..Len(meter) }

MeterType(limit) == {meter \in Seq(Ages) : Len(meter) <= limit /\ IsSorted(meter, <=)}
=============================================================================
