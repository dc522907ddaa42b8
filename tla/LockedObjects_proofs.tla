------------------------ MODULE LockedObjects_proofs ------------------------
(***************************************************************************)
(* Proof that LockedObjects implements AtomicObjects, for every number of  *)
(* threads and objects.                                                    *)
(***************************************************************************)
EXTENDS LockedObjects, TLAPS, SequenceTheorems

Elements(s) == {s[i] : i \in DOMAIN s}

\* The objects whose locks an operation takes.
Mine(o) == IF o.kind = "swap" THEN {o.on, o.from}
           ELSE IF o.kind = "assign" THEN {o.from}
           ELSE {o.on}

\* The locks that a thread has.
Owns(t) == IF at[t] \in {"acquire", "count"}
           THEN (Mine(op[t]) \ Elements(todo[t])) \cup (IF at[t] = "count" THEN {Head(todo[t])} ELSE {})
           ELSE Elements(held[t])

\* One or two different objects of S, in a row.
Row(s, S) == \/ \E a, b \in S : a # b /\ s = <<a, b>>
             \/ \E a \in S : s = <<a>>

Phase(t) ==
    /\ at[t] = "idle" => held[t] = <<>>
    /\ at[t] # "idle" => op[t] \in Ops \cup Stores
    /\ at[t] \in {"acquire", "count"} => Row(todo[t], Mine(op[t])) /\ held[t] = <<>>
    /\ at[t] \in {"read", "write"} =>
          Row(held[t], Objects) /\ Elements(held[t]) = Mine(op[t])
    /\ at[t] \in {"release", "clear"} => Row(held[t], Objects)

\* What a thread has read is still so when it writes.
Fresh(t) == at[t] = "write" =>
                /\ seen[t] = [o \in {op[t].on, op[t].from} \cap Objects |-> seen[t][o]]
                /\ \A o \in Mine(op[t]) : seen[t][o] = content[o]

Exclusive == \A t \in Threads : \A o \in Owns(t) :
                 /\ o \in Objects /\ flag[o]
                 /\ \A u \in Threads \ {t} : o \notin Owns(u)

Types == /\ flag \in [Objects -> BOOLEAN]
         /\ content = [o \in Objects |-> content[o]]
         /\ op \in [Threads -> Ops \cup Stores \cup {NoOp}]
         /\ at \in [Threads -> Places]
         /\ todo = [t \in Threads |-> todo[t]]
         /\ held = [t \in Threads |-> held[t]]
         /\ seen = [t \in Threads |-> seen[t]]
         /\ copied = [t \in Threads |-> copied[t]]

Inv == /\ Types
       /\ Exclusive
       /\ \A t \in Threads : Phase(t) /\ Fresh(t)
-----------------------------------------------------------------------------
(* Rows of locks *)

LEMMA Singles ==
  ASSUME NEW a
  PROVE  Elements(<<a>>) = {a} /\ Head(<<a>>) = a /\ Tail(<<a>>) = <<>>
BY DEF Elements

LEMMA Doubles ==
  ASSUME NEW a, NEW b
  PROVE  /\ Elements(<<a, b>>) = {a, b} /\ Head(<<a, b>>) = a /\ Tail(<<a, b>>) = <<b>>
         /\ <<a, b>> # <<>> /\ <<b>> # <<>>
<1>1. DOMAIN <<a, b>> = {1, 2}
  OBVIOUS
<1>2. Elements(<<a, b>>) = {a, b}
  BY <1>1 DEF Elements
<1> QED
  BY <1>2

LEMMA RowLeaves ==
  ASSUME NEW S, NEW s, Row(s, S)
  PROVE  /\ Head(s) \in Elements(s) /\ Elements(s) \subseteq S
         /\ Elements(Tail(s)) = Elements(s) \ {Head(s)}
         /\ Tail(s) # <<>> => Row(Tail(s), S)
         /\ Tail(s) = <<>> => Elements(s) = {Head(s)}
<1>1. CASE \E a \in S : s = <<a>>
  BY <1>1, Singles DEF Elements
<1>2. ASSUME NEW a \in S, NEW b \in S, a # b, s = <<a, b>>
      PROVE  /\ Head(s) \in Elements(s) /\ Elements(s) \subseteq S
             /\ Elements(Tail(s)) = Elements(s) \ {Head(s)}
             /\ Tail(s) # <<>> /\ Row(Tail(s), S)
  BY <1>2, Singles, Doubles DEF Row
<1> QED
  BY <1>1, <1>2 DEF Row

LEMMA OpShapes ==
  ASSUME NEW o \in Ops \cup Stores
  PROVE  /\ o.on \in Objects /\ o.kind \in {"push", "extract", "swap", "assign", "store"}
         /\ o.kind \in {"swap", "assign"} => o.from \in Objects /\ o.from # o.on
         /\ o.kind \notin {"swap", "assign"} => o.from = 0
         /\ o \in DequeOps <=> o.kind \in {"push", "extract", "swap"}
         /\ Mine(o) \subseteq Objects
BY DEF Ops, Stores, DequeOps, ObjectOps, Pairs, Mine

LEMMA OrderRows ==
  ASSUME NEW o \in Ops \cup Stores
  PROVE  /\ Row(LockOrder(o), Mine(o)) /\ Elements(LockOrder(o)) = Mine(o)
         /\ Row(UnlockOrder(o), Objects) /\ Elements(UnlockOrder(o)) = Mine(o)
<1>1. CASE o.kind = "swap"
  <2>1. /\ Mine(o) = {o.on, o.from} /\ o.on # o.from /\ Mine(o) \subseteq Objects
        /\ LockOrder(o) \in {<<o.on, o.from>>, <<o.from, o.on>>}
        /\ UnlockOrder(o) = <<o.on, o.from>>
    BY <1>1, OpShapes DEF Mine, LockOrder, UnlockOrder
  <2>2. Row(LockOrder(o), Mine(o)) /\ Row(UnlockOrder(o), Objects)
    BY <2>1 DEF Row
  <2>3. Elements(<<o.on, o.from>>) = {o.on, o.from}
    BY Doubles
  <2>4. Elements(<<o.from, o.on>>) = {o.from, o.on}
    BY Doubles
  <2>5. {o.from, o.on} = {o.on, o.from}
    OBVIOUS
  <2> QED
    BY <2>1, <2>2, <2>3, <2>4, <2>5
<1>2. CASE o.kind # "swap"
  <2>1. PICK a : /\ Mine(o) = {a} /\ Mine(o) \subseteq Objects
                 /\ LockOrder(o) = <<a>> /\ UnlockOrder(o) = <<a>>
    BY <1>2, OpShapes DEF Mine, LockOrder, UnlockOrder
  <2> QED
    BY <2>1, Singles DEF Row
<1> QED
  BY <1>1, <1>2
-----------------------------------------------------------------------------
(* What the other threads see of a step *)

\* Every thread but t stays where it is.
OthersStay(t) == \A u \in Threads \ {t} :
    op'[u] = op[u] /\ at'[u] = at[u] /\ todo'[u] = todo[u] /\ held'[u] = held[u] /\ seen'[u] = seen[u]

LEMMA OthersKept ==
  ASSUME Inv, NEW t \in Threads, OthersStay(t), NEW u \in Threads \ {t},
         \A o \in Objects \ Owns(t) : content'[o] = content[o]
  PROVE  Phase(u)' /\ Owns(u)' = Owns(u) /\ Fresh(u)'
<1>1. /\ op'[u] = op[u] /\ at'[u] = at[u] /\ todo'[u] = todo[u]
      /\ held'[u] = held[u] /\ seen'[u] = seen[u]
  BY DEF OthersStay
<1>2. Phase(u)'
  BY <1>1 DEF Inv, Phase
<1>3. Owns(u)' = Owns(u)
  BY <1>1 DEF Owns
<1>4. ASSUME at[u] = "write", NEW o \in Mine(op[u]) PROVE content'[o] = content[o]
  <2>1. o \in Owns(u)
    BY <1>4 DEF Inv, Phase, Owns
  <2> QED
    BY <2>1 DEF Inv, Exclusive
<1>5. Fresh(u)'
  <2>1. Fresh(u)
    BY DEF Inv
  <2>2. CASE at[u] = "write"
    <3>1. \A o \in Mine(op[u]) : seen[u][o] = content'[o]
      BY <1>4, <2>1, <2>2 DEF Fresh
    <3> QED
      BY <1>1, <2>1, <2>2, <3>1 DEF Fresh
  <2> QED
    BY <1>1, <2>2 DEF Fresh
<1> QED
  BY <1>2, <1>3, <1>5

LEMMA AcquireKeepsExclusive ==
  ASSUME Inv, NEW t \in Threads, NEW h \in Objects, ~flag[h], flag' = [flag EXCEPT ![h] = TRUE],
         Owns(t)' = Owns(t) \cup {h}, \A u \in Threads \ {t} : Owns(u)' = Owns(u)
  PROVE  Exclusive'
<1>1. /\ \A o \in Objects : flag'[o] <=> flag[o] \/ o = h
      /\ \A u \in Threads : h \notin Owns(u)
  BY DEF Inv, Types, Exclusive
<1>2. ASSUME NEW u \in Threads, NEW o \in Owns(u)'
      PROVE  o \in Objects /\ flag'[o] /\ \A v \in Threads \ {u} : o \notin Owns(v)'
  BY <1>1, <1>2 DEF Inv, Exclusive
<1> QED
  BY <1>2 DEF Exclusive

LEMMA ReleaseKeepsExclusive ==
  ASSUME Inv, NEW t \in Threads, NEW h \in Owns(t), flag' = [flag EXCEPT ![h] = FALSE],
         Owns(t)' = Owns(t) \ {h}, \A u \in Threads \ {t} : Owns(u)' = Owns(u)
  PROVE  Exclusive'
<1>1. /\ \A o \in Objects : flag'[o] <=> flag[o] /\ o # h
      /\ \A u \in Threads \ {t} : h \notin Owns(u)
  BY DEF Inv, Types, Exclusive
<1>2. ASSUME NEW u \in Threads, NEW o \in Owns(u)'
      PROVE  o \in Objects /\ flag'[o] /\ \A v \in Threads \ {u} : o \notin Owns(v)'
  BY <1>1, <1>2 DEF Inv, Exclusive
<1> QED
  BY <1>2 DEF Exclusive

LEMMA SameLocksKeepExclusive ==
  ASSUME Exclusive, UNCHANGED flag, \A u \in Threads : Owns(u)' = Owns(u)
  PROVE  Exclusive'
BY DEF Exclusive
-----------------------------------------------------------------------------
(* The steps *)

LEMMA CallKeepsInv == ASSUME Inv, NEW t \in Threads, LockedCall(t) PROVE Inv'
<1>1. PICK o \in Ops : /\ op' = [op EXCEPT ![t] = o]
                       /\ todo' = [todo EXCEPT ![t] = LockOrder(o)]
  BY DEF LockedCall
<1>2. /\ at[t] = "idle" /\ at' = [at EXCEPT ![t] = "acquire"]
      /\ UNCHANGED <<flag, content, held, seen, copied>>
  BY DEF LockedCall, Goto, lockVars
<1>3. Types'
  BY <1>1, <1>2 DEF Inv, Types, Places
<1>4. op'[t] = o /\ todo'[t] = LockOrder(o) /\ at'[t] = "acquire" /\ held'[t] = <<>>
  BY <1>1, <1>2 DEF Inv, Types, Phase
<1>5. Phase(t)' /\ Fresh(t)'
  BY <1>4, OrderRows DEF Phase, Fresh
<1>6. Owns(t)' = Owns(t)
  BY <1>2, <1>4, OrderRows DEF Inv, Phase, Owns, Elements
<1>7. OthersStay(t)
  BY <1>1, <1>2 DEF Inv, Types, OthersStay
<1>8. \A u \in Threads \ {t} : Phase(u)' /\ Owns(u)' = Owns(u) /\ Fresh(u)'
  BY <1>2, <1>7, OthersKept
<1>9. Exclusive'
  BY <1>2, <1>6, <1>8, SameLocksKeepExclusive DEF Inv
<1> QED
  BY <1>3, <1>5, <1>8, <1>9 DEF Inv

LEMMA AcquireKeepsInv == ASSUME Inv, NEW t \in Threads, Acquire(t) PROVE Inv'
<1>0. PICK h : h = Head(todo[t])
  OBVIOUS
<1>1. /\ at[t] = "acquire" /\ at' = [at EXCEPT ![t] = "count"]
      /\ ~flag[h] /\ flag' = [flag EXCEPT ![h] = TRUE]
      /\ UNCHANGED <<content, op, todo, held, seen, copied>>
  BY <1>0 DEF Acquire, Goto, Spin!TestAndSet
<1>2. Types'
  BY <1>1 DEF Inv, Types, Places
<1>3. at'[t] = "count"
  BY <1>1 DEF Inv, Types
<1>4. Phase(t)' /\ Fresh(t)'
  BY <1>1, <1>3 DEF Inv, Phase, Fresh
<1>5. h \in Objects
  <2>1. op[t] \in Ops \cup Stores /\ Row(todo[t], Mine(op[t]))
    BY <1>1 DEF Inv, Phase
  <2> QED
    BY <1>0, <2>1, RowLeaves, OpShapes
<1>6. Owns(t)' = Owns(t) \cup {h}
  BY <1>0, <1>1, <1>3 DEF Owns
<1>7. OthersStay(t)
  BY <1>1 DEF Inv, Types, OthersStay
<1>8. \A u \in Threads \ {t} : Phase(u)' /\ Owns(u)' = Owns(u) /\ Fresh(u)'
  BY <1>1, <1>7, OthersKept
<1>9. Exclusive'
  BY <1>1, <1>5, <1>6, <1>8, AcquireKeepsExclusive
<1> QED
  BY <1>2, <1>4, <1>8, <1>9 DEF Inv

LEMMA CountKeepsInv == ASSUME Inv, NEW t \in Threads, Count(t) PROVE Inv'
<1>1. /\ at[t] = "count"
      /\ todo' = [todo EXCEPT ![t] = Tail(@)]
      /\ held' = [held EXCEPT ![t] = IF todo'[t] = <<>> THEN UnlockOrder(op[t]) ELSE @]
      /\ at' = [at EXCEPT ![t] = IF todo'[t] = <<>> THEN "read" ELSE "acquire"]
      /\ UNCHANGED <<flag, content, op, seen, copied>>
  BY DEF Count, Goto, Spin!CountUp
<1>2. /\ op[t] \in Ops \cup Stores /\ Row(todo[t], Mine(op[t])) /\ held[t] = <<>>
  BY <1>1 DEF Inv, Phase
<1>3. Types'
  BY <1>1 DEF Inv, Types, Places
<1>4. /\ todo'[t] = Tail(todo[t])
      /\ held'[t] = IF todo'[t] = <<>> THEN UnlockOrder(op[t]) ELSE <<>>
      /\ at'[t] = IF todo'[t] = <<>> THEN "read" ELSE "acquire"
  BY <1>1, <1>2 DEF Inv, Types
<1>5. Phase(t)' /\ Fresh(t)'
  BY <1>1, <1>2, <1>4, OrderRows, RowLeaves DEF Phase, Fresh
<1>6. Owns(t)' = Owns(t)
  <2>1. Owns(t) = (Mine(op[t]) \ Elements(todo[t])) \cup {Head(todo[t])}
    BY <1>1 DEF Owns
  <2>2. CASE Tail(todo[t]) = <<>>
    <3>1. Owns(t)' = Elements(UnlockOrder(op[t]))
      BY <1>4, <2>2 DEF Owns
    <3>2. Elements(todo[t]) = {Head(todo[t])} /\ Head(todo[t]) \in Mine(op[t])
      BY <1>2, <2>2, RowLeaves
    <3>3. Owns(t)' = Mine(op[t])
      BY <1>2, <3>1, OrderRows
    <3> QED
      BY <2>1, <3>2, <3>3
  <2>3. CASE Tail(todo[t]) # <<>>
    <3>1. Owns(t)' = Mine(op[t]) \ Elements(Tail(todo[t]))
      BY <1>1, <1>4, <2>3 DEF Owns
    <3>2. /\ Elements(Tail(todo[t])) = Elements(todo[t]) \ {Head(todo[t])}
          /\ Head(todo[t]) \in Elements(todo[t]) /\ Elements(todo[t]) \subseteq Mine(op[t])
      BY <1>2, RowLeaves
    <3> QED
      BY <2>1, <3>1, <3>2
  <2> QED
    BY <2>2, <2>3
<1>7. OthersStay(t)
  BY <1>1 DEF Inv, Types, OthersStay
<1>8. \A u \in Threads \ {t} : Phase(u)' /\ Owns(u)' = Owns(u) /\ Fresh(u)'
  BY <1>1, <1>7, OthersKept
<1>9. Exclusive'
  BY <1>1, <1>6, <1>8, SameLocksKeepExclusive DEF Inv
<1> QED
  BY <1>3, <1>5, <1>8, <1>9 DEF Inv

LEMMA ReadKeepsInv == ASSUME Inv, NEW t \in Threads, Read(t) PROVE Inv'
<1>1. /\ at[t] = "read" /\ at' = [at EXCEPT ![t] = "write"]
      /\ seen' = [seen EXCEPT ![t] = [o \in {op[t].on, op[t].from} \cap Objects |-> content[o]]]
      /\ UNCHANGED <<flag, content, op, todo, held, copied>>
  BY DEF Read, Goto, lockVars
<1>2. Types'
  BY <1>1 DEF Inv, Types, Places
<1>3. /\ at'[t] = "write"
      /\ seen'[t] = [o \in {op[t].on, op[t].from} \cap Objects |-> content[o]]
  BY <1>1 DEF Inv, Types
<1>4. Phase(t)' /\ Owns(t)' = Owns(t)
  BY <1>1, <1>3 DEF Inv, Phase, Owns
<1>5. op[t] \in Ops \cup Stores
  BY <1>1 DEF Inv, Phase
<1>6. Mine(op[t]) \subseteq {op[t].on, op[t].from} \cap Objects
  BY <1>5, OpShapes DEF Mine
<1>7. Fresh(t)'
  BY <1>1, <1>3, <1>6 DEF Fresh
<1>8. OthersStay(t)
  BY <1>1 DEF Inv, Types, OthersStay
<1>9. \A u \in Threads \ {t} : Phase(u)' /\ Owns(u)' = Owns(u) /\ Fresh(u)'
  BY <1>1, <1>8, OthersKept
<1>10. Exclusive'
  BY <1>1, <1>4, <1>9, SameLocksKeepExclusive DEF Inv
<1> QED
  BY <1>2, <1>4, <1>7, <1>9, <1>10 DEF Inv

LEMMA ReleaseKeepsInv == ASSUME Inv, NEW t \in Threads, Release(t) PROVE Inv'
<1>1. /\ at[t] = "release" /\ at' = [at EXCEPT ![t] = "clear"]
      /\ UNCHANGED <<flag, content, op, todo, held, seen, copied>>
  BY DEF Release, Goto, Spin!CountDown
<1>2. Types'
  BY <1>1 DEF Inv, Types, Places
<1>3. at'[t] = "clear"
  BY <1>1 DEF Inv, Types
<1>4. Phase(t)' /\ Owns(t)' = Owns(t) /\ Fresh(t)'
  BY <1>1, <1>3 DEF Inv, Phase, Owns, Fresh
<1>5. OthersStay(t)
  BY <1>1 DEF Inv, Types, OthersStay
<1>6. \A u \in Threads \ {t} : Phase(u)' /\ Owns(u)' = Owns(u) /\ Fresh(u)'
  BY <1>1, <1>5, OthersKept
<1>7. Exclusive'
  BY <1>1, <1>4, <1>6, SameLocksKeepExclusive DEF Inv
<1> QED
  BY <1>2, <1>4, <1>6, <1>7 DEF Inv

LEMMA ClearKeepsInv == ASSUME Inv, NEW t \in Threads, ClearLock(t) PROVE Inv'
<1> DEFINE rest == Tail(held[t])
           again == rest = <<>> /\ op[t].kind = "assign"
           store == [kind |-> "store", on |-> op[t].on, from |-> 0]
<1>0. PICK h : h = Head(held[t])
  OBVIOUS
<1>1. /\ at[t] = "clear"
      /\ flag' = [flag EXCEPT ![h] = FALSE]
      /\ held' = [held EXCEPT ![t] = rest]
      /\ op' = [op EXCEPT ![t] = IF rest # <<>> THEN @ ELSE IF again THEN store ELSE NoOp]
      /\ todo' = [todo EXCEPT ![t] = IF again THEN LockOrder(store) ELSE <<>>]
      /\ at' = [at EXCEPT ![t] = IF rest # <<>> THEN "release" ELSE IF again THEN "acquire" ELSE "idle"]
      /\ UNCHANGED <<content, seen, copied>>
  BY <1>0 DEF ClearLock, Goto, Spin!Clear
<1>2. op[t] \in Ops \cup Stores /\ Row(held[t], Objects)
  BY <1>1 DEF Inv, Phase
<1>3. store \in Stores /\ LockOrder(store) = <<op[t].on>> /\ Mine(store) = {op[t].on}
  BY <1>2, OpShapes DEF Stores, LockOrder, Mine
<1>4. Types'
  BY <1>1, <1>2, <1>3 DEF Inv, Types, Places
<1>5. /\ held'[t] = rest
      /\ op'[t] = IF rest # <<>> THEN op[t] ELSE IF again THEN store ELSE NoOp
      /\ todo'[t] = IF again THEN LockOrder(store) ELSE <<>>
      /\ at'[t] = IF rest # <<>> THEN "release" ELSE IF again THEN "acquire" ELSE "idle"
  BY <1>1 DEF Inv, Types
<1>6. /\ h \in Elements(held[t]) /\ Elements(rest) = Elements(held[t]) \ {h}
      /\ rest # <<>> => Row(rest, Objects)
      /\ rest = <<>> => Elements(held[t]) = {h}
  BY <1>0, <1>2, RowLeaves
<1>7. Owns(t) = Elements(held[t])
  BY <1>1 DEF Owns
<1> HIDE DEF rest, store
<1>8. Phase(t)' /\ Fresh(t)'
  BY <1>2, <1>3, <1>5, <1>6 DEF Phase, Fresh, Row
<1>9. Owns(t)' = Owns(t) \ {h}
  <2>1. CASE rest # <<>>
    BY <1>5, <1>6, <1>7, <2>1 DEF Owns
  <2>2. CASE again
    <3>1. Owns(t)' = Mine(store) \ Elements(LockOrder(store))
      BY <1>5, <2>2 DEF Owns
    <3> QED
      BY <1>3, <1>6, <1>7, <2>2, <3>1, Singles
  <2>3. CASE rest = <<>> /\ ~again
    BY <1>5, <1>6, <1>7, <2>3 DEF Owns
  <2> QED
    BY <2>1, <2>2, <2>3
<1>10. OthersStay(t)
  BY <1>1 DEF Inv, Types, OthersStay
<1>11. \A u \in Threads \ {t} : Phase(u)' /\ Owns(u)' = Owns(u) /\ Fresh(u)'
  BY <1>1, <1>10, OthersKept
<1>12. Exclusive'
  BY <1>1, <1>6, <1>7, <1>9, <1>11, ReleaseKeepsExclusive
<1> QED
  BY <1>4, <1>8, <1>11, <1>12 DEF Inv

\* What a write does to the objects.
LEMMA WriteShapes ==
  ASSUME Inv, NEW t \in Threads, WriteObject(t)
  PROVE  /\ op[t].kind \in {"push", "extract"} =>
               \E i \in Threads :
                  content' \in {[content EXCEPT ![op[t].on] = @ \cup {i}],
                               [content EXCEPT ![op[t].on] = @ \ {i}]}
         /\ op[t].kind = "swap" =>
               content' = [content EXCEPT ![op[t].on] = content[op[t].from],
                                          ![op[t].from] = content[op[t].on]]
         /\ op[t].kind = "store" => content' = [content EXCEPT ![op[t].on] = copied[t]]
         /\ op[t].kind = "assign" => content' = content
         /\ copied' = [copied EXCEPT ![t] = IF op[t].kind = "assign"
                                            THEN content[op[t].from] ELSE {}]
<1> DEFINE on == op[t].on
           from == op[t].from
<1>1. /\ at[t] = "write" /\ op[t] \in Ops \cup Stores
      /\ copied' = [copied EXCEPT ![t] = IF op[t].kind = "assign" THEN seen[t][from] ELSE {}]
  BY DEF WriteObject, Inv, Phase
<1>2. PICK c \in Results(t, op[t], seen[t]) :
         content' = [o \in Objects |->
                       IF o \in DOMAIN c /\ op[t].kind # "assign" THEN c[o] ELSE content[o]]
  BY DEF WriteObject
<1>3. /\ seen[t] = [o \in {on, from} \cap Objects |-> seen[t][o]]
      /\ \A o \in Mine(op[t]) : seen[t][o] = content[o]
  BY <1>1 DEF Inv, Fresh
<1>4. /\ on \in Objects /\ op[t].kind \in {"push", "extract", "swap", "assign", "store"}
      /\ op[t].kind \in {"swap", "assign"} => from \in Objects /\ from # on
      /\ op[t].kind \notin {"swap", "assign"} => from = 0
      /\ op[t] \in DequeOps <=> op[t].kind \in {"push", "extract", "swap"}
      /\ 0 \notin Objects
  BY <1>1, OpShapes, AddressAssumption
<1>5. content = [o \in Objects |-> content[o]]
  BY DEF Inv, Types
<1>6. CASE op[t].kind \in {"push", "extract", "store"}
  <2>1. Mine(op[t]) = {on} /\ seen[t] = [o \in {on} |-> content[o]]
    BY <1>3, <1>4, <1>6 DEF Mine
  <2>2. CASE op[t].kind = "push"
    <3>1. c = [o \in {on} |-> content[on] \cup {t}]
      BY <1>2, <1>4, <2>1, <2>2 DEF Results, DequeResults
    <3>2. content' = [content EXCEPT ![on] = @ \cup {t}]
      BY <1>2, <1>4, <1>5, <2>2, <3>1
    <3> QED
      BY <1>1, <2>2, <3>2
  <2>3. CASE op[t].kind = "extract"
    <3>1. PICK i \in Threads : c = [o \in {on} |-> content[on] \ {i}]
      BY <1>2, <1>4, <2>1, <2>3 DEF Results, DequeResults
    <3>2. content' = [content EXCEPT ![on] = @ \ {i}]
      BY <1>2, <1>4, <1>5, <2>3, <3>1
    <3> QED
      BY <1>1, <2>3, <3>2
  <2>4. CASE op[t].kind = "store"
    <3>1. c = [o \in {on} |-> copied[t]]
      BY <1>2, <1>4, <2>1, <2>4 DEF Results, ObjectResults
    <3>2. content' = [content EXCEPT ![on] = copied[t]]
      BY <1>2, <1>4, <1>5, <2>4, <3>1
    <3> QED
      BY <1>1, <2>4, <3>2
  <2> QED
    BY <1>6, <2>2, <2>3, <2>4
<1>7. CASE op[t].kind = "swap"
  <2>1. Mine(op[t]) = {on, from} /\ seen[t] = [o \in {on, from} |-> content[o]]
    BY <1>3, <1>4, <1>7 DEF Mine
  <2>2. c = [[o \in {on, from} |-> content[o]] EXCEPT ![on] = content[from], ![from] = content[on]]
    BY <1>2, <1>4, <1>7, <2>1 DEF Results, DequeResults
  <2>3. /\ DOMAIN c = {on, from} /\ c[on] = content[from] /\ c[from] = content[on]
    BY <1>4, <1>7, <2>2
  <2>4. content' = [content EXCEPT ![on] = content[from], ![from] = content[on]]
    BY <1>2, <1>4, <1>5, <1>7, <2>3
  <2> QED
    BY <1>1, <1>7, <2>4
<1>8. CASE op[t].kind = "assign"
  <2>1. content' = content
    BY <1>2, <1>5, <1>8
  <2>2. seen[t][from] = content[from]
    BY <1>3, <1>8 DEF Mine
  <2> QED
    BY <1>1, <1>8, <2>1, <2>2
<1> QED
  BY <1>4, <1>6, <1>7, <1>8

LEMMA WriteKeepsInv == ASSUME Inv, NEW t \in Threads, WriteObject(t) PROVE Inv'
<1>1. /\ at[t] = "write" /\ at' = [at EXCEPT ![t] = "release"]
      /\ seen' = [seen EXCEPT ![t] = <<>>]
      /\ UNCHANGED <<flag, op, todo, held>>
      /\ content' = [o \in Objects |-> content'[o]]
      /\ copied' = [u \in Threads |-> copied'[u]]
  BY DEF WriteObject, Goto, lockVars, Inv, Types
<1>2. Types'
  BY <1>1 DEF Inv, Types, Places
<1>3. at'[t] = "release"
  BY <1>1 DEF Inv, Types
<1>4. /\ op[t] \in Ops \cup Stores /\ Row(held[t], Objects)
      /\ Owns(t) = Mine(op[t])
  BY <1>1 DEF Inv, Phase, Owns
<1>5. Phase(t)' /\ Owns(t)' = Owns(t) /\ Fresh(t)'
  BY <1>1, <1>3, <1>4 DEF Phase, Owns, Fresh
<1>6. \A o \in Objects \ Owns(t) : content'[o] = content[o]
  <2>1. ASSUME NEW o \in Objects, o \notin Mine(op[t]) PROVE content'[o] = content[o]
    <3>1. content = [p \in Objects |-> content[p]]
      BY DEF Inv, Types
    <3>2. op[t].kind \in {"push", "extract", "swap", "assign", "store"}
      BY <1>4, OpShapes
    <3>3. CASE op[t].kind \in {"push", "extract", "store"}
      <4>1. o # op[t].on
        BY <2>1, <3>3 DEF Mine
      <4> QED
        BY <3>1, <3>3, <4>1, WriteShapes
    <3>4. CASE op[t].kind = "swap"
      <4>1. o # op[t].on /\ o # op[t].from
        BY <2>1, <3>4 DEF Mine
      <4> QED
        BY <3>1, <3>4, <4>1, WriteShapes
    <3>5. CASE op[t].kind = "assign"
      BY <3>5, WriteShapes
    <3> QED
      BY <3>2, <3>3, <3>4, <3>5
  <2> QED
    BY <1>4, <2>1
<1>7. OthersStay(t)
  BY <1>1 DEF Inv, Types, OthersStay
<1>8. \A u \in Threads \ {t} : Phase(u)' /\ Owns(u)' = Owns(u) /\ Fresh(u)'
  BY <1>6, <1>7, OthersKept
<1>9. Exclusive'
  BY <1>1, <1>5, <1>8, SameLocksKeepExclusive DEF Inv
<1> QED
  BY <1>2, <1>5, <1>8, <1>9 DEF Inv
-----------------------------------------------------------------------------
LEMMA InvInit == LockedInit => Inv
<1> SUFFICES ASSUME LockedInit PROVE Inv
  OBVIOUS
<1>1. Types
  BY DEF LockedInit, Types, Places, Spin!SpinInit
<1>2. \A t \in Threads : at[t] = "idle" /\ held[t] = <<>>
  BY DEF LockedInit
<1>3. \A t \in Threads : Owns(t) = {}
  <2>1. Elements(<<>>) = {}
    <3>1. DOMAIN <<>> = {}
      OBVIOUS
    <3> QED
      BY <3>1 DEF Elements
  <2> QED
    BY <1>2, <2>1 DEF Owns
<1> QED
  BY <1>1, <1>2, <1>3 DEF Inv, Phase, Fresh, Exclusive

LEMMA InvNext == Inv /\ [LockedNext]_lockedVars => Inv'
<1> SUFFICES ASSUME Inv, [LockedNext]_lockedVars PROVE Inv'
  OBVIOUS
<1>1. CASE UNCHANGED lockedVars
  <2>1. UNCHANGED <<flag, content, op, at, todo, held, seen, copied>>
    BY <1>1 DEF lockedVars, lockVars
  <2>2. Types'
    BY <2>1 DEF Inv, Types
  <2>3. \A t \in Threads : Phase(t)' /\ Fresh(t)' /\ Owns(t)' = Owns(t)
    BY <2>1 DEF Inv, Phase, Fresh, Owns
  <2>4. Exclusive'
    BY <2>1, <2>3, SameLocksKeepExclusive DEF Inv
  <2> QED
    BY <2>2, <2>3, <2>4 DEF Inv
<1>2. ASSUME NEW t \in Threads, LockedCall(t) \/ Progress(t) PROVE Inv'
  BY <1>2, CallKeepsInv, AcquireKeepsInv, CountKeepsInv, ReadKeepsInv, WriteKeepsInv,
     ReleaseKeepsInv, ClearKeepsInv DEF Progress
<1> QED
  BY <1>1, <1>2 DEF LockedNext

(***************************************************************************)
(* A lock belongs to one thread at a time, and what a thread has read of   *)
(* the objects whose locks it has is still what they hold when it writes.  *)
(***************************************************************************)
THEOREM InvCorrect == LockedSafeSpec => []Inv
BY InvInit, InvNext, PTL DEF LockedSafeSpec

LEMMA StepImplements ==
  ASSUME Inv, [LockedNext]_lockedVars
  PROVE  [AO!Next]_(AO!vars)
<1>1. CASE UNCHANGED lockedVars
  BY <1>1 DEF lockedVars, AO!vars
<1>2. ASSUME NEW t \in Threads, LockedCall(t) \/ Progress(t) PROVE [AO!Next]_(AO!vars)
  <2>1. CASE WriteObject(t)
    <3>1. op[t] \in Ops \cup Stores
      BY <2>1 DEF WriteObject, Inv, Phase
    <3>2. /\ op[t].on \in Objects
          /\ op[t].kind \in {"push", "extract", "swap", "assign", "store"}
          /\ op[t].kind \in {"swap", "assign"} => op[t].from \in Objects
      BY <3>1, OpShapes
    <3>3. CASE op[t].kind \in {"push", "extract"}
      <4>1. AO!Modify(t, op[t].on)
        BY <2>1, <3>3, WriteShapes DEF AO!Modify, AO!Items
      <4> QED
        BY <3>2, <4>1 DEF AO!Next
    <3>4. CASE op[t].kind = "swap"
      <4>1. AO!Swap(t, op[t].on, op[t].from)
        BY <2>1, <3>4, WriteShapes DEF AO!Swap
      <4> QED
        BY <3>2, <3>4, <4>1 DEF AO!Next
    <3>5. CASE op[t].kind = "store"
      <4>1. AO!Store(t, op[t].on)
        BY <2>1, <3>5, WriteShapes DEF AO!Store
      <4> QED
        BY <3>2, <4>1 DEF AO!Next
    <3>6. CASE op[t].kind = "assign"
      <4>1. AO!Load(t, op[t].from)
        BY <2>1, <3>6, WriteShapes DEF AO!Load
      <4> QED
        BY <3>2, <3>6, <4>1 DEF AO!Next
    <3> QED
      BY <3>2, <3>3, <3>4, <3>5, <3>6
  <2>2. CASE ~WriteObject(t)
    BY <1>2, <2>2 DEF Progress, LockedCall, Acquire, Count, Read, Release, ClearLock, AO!vars
  <2> QED
    BY <2>1, <2>2
<1> QED
  BY <1>1, <1>2 DEF LockedNext

(***************************************************************************)
(* Every member of LockedDeque and LockedObject takes effect at one        *)
(* moment, its write: the locks it takes are those of the objects whose    *)
(* contents it goes on from.                                               *)
(***************************************************************************)
THEOREM RefinementCorrect == LockedSafeSpec => ImplementsAtomicObjects
<1>1. LockedInit => AO!Init
  BY DEF LockedInit, AO!Init
<1>2. Inv /\ [LockedNext]_lockedVars => [AO!Next]_(AO!vars)
  BY StepImplements
<1> QED
  BY <1>1, <1>2, InvCorrect, PTL DEF LockedSafeSpec, ImplementsAtomicObjects, AO!SafeSpec
=============================================================================
