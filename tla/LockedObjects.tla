--------------------------- MODULE LockedObjects ---------------------------
(***************************************************************************)
(* LockedDeque and LockedObject of filter-ground/extra, used by several    *)
(* threads: each member acquires a SpinLock through a SpinLockGuard        *)
(* (lock_both for the swap of two deques), reads its object, writes it and *)
(* releases the lock.                                                      *)
(* Addresses are numbers.  Swapping a deque with itself is left out: it    *)
(* would wait for the lock it holds.                                       *)
(***************************************************************************)
EXTENDS Integers, Sequences

CONSTANTS Threads,
          Objects   \* the addresses of the deques and objects

ASSUME AddressAssumption == Objects \subseteq Nat \ {0}

VARIABLES flag, lockCount,  \* the locks
          content,          \* the items in container_ or value_
          op,               \* what each thread is doing
          at,               \* where it is in it
          todo,             \* locks it has to acquire before it goes on
          held,             \* locks its guards have to release, in order
          seen,             \* what it has read
          copied            \* the local copy that an assignment stores

lockVars == <<flag, lockCount>>
lockedVars == <<lockVars, content, op, at, todo, held, seen, copied>>

Spin == INSTANCE SpinLock WITH Locks <- Objects
-----------------------------------------------------------------------------
Places == {"idle", "acquire", "count", "read", "write", "release", "clear"}
Pairs == {p \in Objects \X Objects : p[1] # p[2]}

\* The operations: their kind, their object and, for swap and assign, the other one.
DequeOps == [kind : {"push", "extract"}, on : Objects, from : {0}]
            \cup {[kind |-> "swap", on |-> p[1], from |-> p[2]] : p \in Pairs}
ObjectOps == {[kind |-> "assign", on |-> p[1], from |-> p[2]] : p \in Pairs}
Ops == DequeOps \cup ObjectOps
\* The second half of an assignment; also LockedObject::store().
Stores == [kind : {"store"}, on : Objects, from : {0}]
NoOp == [kind |-> "none", on |-> 0, from |-> 0]

\* Seeded bug: lock_both takes the locks in the order of its arguments.
LockOrder_AsGiven(o) ==
    CASE o.kind = "swap"   -> <<o.on, o.from>>
      [] o.kind = "assign" -> <<o.from>>
      [] OTHER             -> <<o.on>>

\* lock_both acquires the lower address first; an assignment locks its source.
LockOrder(o) ==
    CASE o.kind = "swap"   -> IF o.on < o.from THEN <<o.on, o.from>> ELSE <<o.from, o.on>>
      [] o.kind = "assign" -> <<o.from>>
      [] OTHER             -> <<o.on>>

\* unlock_both releases the locks in the order of its arguments.
UnlockOrder(o) == IF o.kind = "swap" THEN <<o.on, o.from>> ELSE LockOrder(o)

LockedInit == /\ Spin!SpinInit
              /\ content = [o \in Objects |-> {}]
              /\ op = [t \in Threads |-> NoOp]
              /\ at = [t \in Threads |-> "idle"]
              /\ todo = [t \in Threads |-> <<>>]
              /\ held = [t \in Threads |-> <<>>]
              /\ seen = [t \in Threads |-> <<>>]
              /\ copied = [t \in Threads |-> {}]

Goto(t, to) == at' = [at EXCEPT ![t] = to]
-----------------------------------------------------------------------------
\* A thread calls a member, whose guard is constructed first.
LockedCall(t) == /\ at[t] = "idle"
                 /\ \E o \in Ops :
                       /\ op' = [op EXCEPT ![t] = o]
                       /\ todo' = [todo EXCEPT ![t] = LockOrder(o)]
                 /\ Goto(t, "acquire")
                 /\ UNCHANGED <<lockVars, content, held, seen, copied>>

\* Seeded bug: test_and_set is called once, not until it succeeds.
Acquire_Barges(t) ==
    /\ at[t] = "acquire"
    /\ flag' = [flag EXCEPT ![Head(todo[t])] = TRUE]
    /\ Goto(t, "count")
    /\ UNCHANGED <<lockCount, content, op, todo, held, seen, copied>>

Acquire(t) == /\ at[t] = "acquire"
              /\ Spin!TestAndSet(Head(todo[t]))
              /\ Goto(t, "count")
              /\ UNCHANGED <<content, op, todo, held, seen, copied>>

\* The end of lock(): another lock is next, or the object, or the temporary ends.
Count(t) == /\ at[t] = "count"
            /\ Spin!CountUp(Head(todo[t]))
            /\ todo' = [todo EXCEPT ![t] = Tail(@)]
            /\ held' = [held EXCEPT ![t] = IF todo'[t] = <<>> THEN UnlockOrder(op[t]) ELSE @]
            /\ Goto(t, IF todo'[t] = <<>> THEN "read" ELSE "acquire")
            /\ UNCHANGED <<content, op, seen, copied>>

\* A member reads the objects it works on.
Read(t) == /\ at[t] = "read"
           /\ seen' = [seen EXCEPT ![t] = [o \in {op[t].on, op[t].from} \cap Objects |-> content[o]]]
           /\ Goto(t, "write")
           /\ UNCHANGED <<lockVars, content, op, todo, held, copied>>

\* What the members make of the contents c of their objects.
DequeResults(t, o, c) ==
    CASE o.kind = "push"    -> {[c EXCEPT ![o.on] = @ \cup {t}]}
      [] o.kind = "extract" -> {[c EXCEPT ![o.on] = @ \ {i}] : i \in Threads}
      [] o.kind = "swap"    -> {[c EXCEPT ![o.on] = c[o.from], ![o.from] = c[o.on]]}

ObjectResults(t, o, c) ==
    CASE o.kind = "store"   -> {[c EXCEPT ![o.on] = copied[t]]}
      [] o.kind = "assign"  -> {c}

Results(t, o, c) == IF o \in DequeOps THEN DequeResults(t, o, c) ELSE ObjectResults(t, o, c)

\* What it has read it writes back; an assignment only keeps the copy.
WriteObject(t) ==
    /\ at[t] = "write"
    /\ \E c \in Results(t, op[t], seen[t]) :
          content' = [o \in Objects |->
                        IF o \in DOMAIN c /\ op[t].kind # "assign" THEN c[o] ELSE content[o]]
    /\ copied' = [copied EXCEPT ![t] = IF op[t].kind = "assign" THEN seen[t][op[t].from] ELSE {}]
    /\ seen' = [seen EXCEPT ![t] = <<>>]
    /\ Goto(t, "release")
    /\ UNCHANGED <<lockVars, op, todo, held>>

\* The beginning of unlock().
Release(t) == /\ at[t] = "release"
              /\ Spin!CountDown(Head(held[t]))
              /\ Goto(t, "clear")
              /\ UNCHANGED <<content, op, todo, held, seen, copied>>

\* The end of unlock(), and what follows it: unlock_both's other lock, the
\* store of an assignment, or the return of the member.
ClearLock(t) ==
    LET rest == Tail(held[t])
        again == rest = <<>> /\ op[t].kind = "assign"
        store == [kind |-> "store", on |-> op[t].on, from |-> 0]
    IN /\ at[t] = "clear"
       /\ Spin!Clear(Head(held[t]))
       /\ held' = [held EXCEPT ![t] = rest]
       /\ op' = [op EXCEPT ![t] = IF rest # <<>> THEN @ ELSE IF again THEN store ELSE NoOp]
       /\ todo' = [todo EXCEPT ![t] = IF again THEN LockOrder(store) ELSE <<>>]
       /\ Goto(t, IF rest # <<>> THEN "release" ELSE IF again THEN "acquire" ELSE "idle")
       /\ UNCHANGED <<content, seen, copied>>

Progress(t) == \/ Acquire(t) \/ Count(t) \/ Read(t) \/ WriteObject(t) \/ Release(t) \/ ClearLock(t)

LockedNext == \E t \in Threads : LockedCall(t) \/ Progress(t)

\* A thread inside a member goes on when it can; no lock is given out fairly.
LockedSafeSpec == LockedInit /\ [][LockedNext]_lockedVars
LockedSpec == LockedSafeSpec /\ \A t \in Threads : WF_lockedVars(Progress(t))
-----------------------------------------------------------------------------
LockedTypeOK == /\ flag \in [Objects -> BOOLEAN]
                /\ lockCount \in [Objects -> {0, 1}]
                /\ content \in [Objects -> SUBSET Threads]
                /\ op \in [Threads -> Ops \cup Stores \cup {NoOp}]
                /\ at \in [Threads -> Places]
                /\ \A t \in Threads : /\ todo[t] \in Seq(Objects)
                                      /\ held[t] \in Seq(Objects)
                /\ copied \in [Threads -> SUBSET Threads]

(***************************************************************************)
(* Reading an object and writing it back, or exchanging two, happens as if *)
(* at one moment: nothing another thread stored in between is overwritten. *)
(***************************************************************************)
AO == INSTANCE AtomicObjects WITH loaded <- copied
ImplementsAtomicObjects == AO!SafeSpec

(***************************************************************************)
(* Two swaps of the same deques in opposite directions, and assignments    *)
(* both ways, do not block each other: as long as a thread is in a member, *)
(* some thread completes one.                                              *)
(***************************************************************************)
SomeoneCompletes ==
    \/ []<>(\A t \in Threads : at[t] = "idle")
    \/ []<><<\E t \in Threads : at[t] # "idle" /\ at'[t] = "idle">>_lockedVars
=============================================================================
