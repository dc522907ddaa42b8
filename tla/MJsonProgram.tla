---------------------------- MODULE MJsonProgram ----------------------------
(***************************************************************************)
(* A program that works with documents of MJson: it subscripts its way     *)
(* down, reads, holds a reference for later, copies, assigns and takes.    *)
(* Each call of the interface is one action.  The program is one thread,   *)
(* as AppConf::read is: operator[] writes entity_ of a const node, and two *)
(* threads could not even read the same document.                          *)
(***************************************************************************)
EXTENDS MJson

CONSTANTS Texts,    \* what may be parsed
          MaxMade,  \* bound: how many documents are parsed, copied or taken
          MaxDepth  \* bound: how many subscripts one statement has

VARIABLES heap,   \* the nodes that exist, by identity
          made,   \* how many documents were made
          other,  \* the root of a second document, or None
          at,     \* the statement under way: where it began, the keys so far, and where it is
          held,   \* a reference kept for later: its node, and the node it came from, or None
          safe    \* whether the program may rely on it

vars == <<heap, made, other, at, held, safe>>

Roots == {<<1>>} \cup IF other = None THEN {} ELSE {other}
Begin(id) == [start |-> id, path |-> <<>>, node |-> id, from |-> None]

Init == /\ \E json \in Texts : heap = Parse(1, json)
        /\ made = 1
        /\ other = None
        /\ at = Begin(<<1>>)
        /\ held = None
        /\ safe = FALSE

Here == heap[at.node]
Underway == at.node \in DOMAIN heap

\* exception(), and the check of get_self.
Refuses(k) == Here.missing \/ Here.type # Wanted(k)

\* The identity of a missing node: its parent's, marked; the node that entity_
\* lets go of may have had the same, but not one that is held.
Fresh == CHOOSE id \in {<<0>> \o at.node, <<0, 0>> \o at.node} : held = None \/ id # held.node
Has(k) == k \in DOMAIN Here.kids

Position(k) == (CHOOSE i \in DOMAIN Indexes : Indexes[i] = k) - 1

EndsStatement == at' = Begin(<<1>>)
-----------------------------------------------------------------------------
(* Subscripts, and what the program does with the reference *)

\* A statement begins at a document, or at the reference held.
Start(id) == /\ at.path = <<>> /\ at.start # id
             /\ at' = Begin(id)
             /\ UNCHANGED <<heap, made, other, held, safe>>

StartAnywhere == \/ \E id \in Roots : Start(id)
                 \/ held # None /\ safe /\ Start(held.node)

SubscriptThrows(k) == /\ Underway
                      /\ Refuses(k)
                      /\ EndsStatement
                      /\ UNCHANGED <<heap, made, other, held, safe>>

\* Seeded bug: a copy of the member is returned.
Subscript_Copies(k) ==
    /\ Underway
    /\ ~Refuses(k)
    /\ Len(at.path) < MaxDepth
    /\ LET to == Fresh
           new == (to :> IF Has(k) THEN heap[Here.kids[k]] ELSE NotFound(Here)) @@ heap
       IN /\ heap' = Release([new EXCEPT ![at.node].entity = to], Roots)
          /\ at' = [at EXCEPT !.path = Append(@, k), !.node = to, !.from = at.node]
          /\ safe' = (safe /\ ~(held.from = at.node /\ heap[held.node].missing))
    /\ UNCHANGED <<made, other, held>>

\* entity_ takes the result, and lets go of the last one.
Subscript(k) ==
    /\ Underway
    /\ ~Refuses(k)
    /\ Len(at.path) < MaxDepth
    /\ LET to == IF Has(k) THEN Here.kids[k] ELSE Fresh
           new == IF Has(k) THEN heap ELSE (to :> NotFound(Here)) @@ heap
       IN /\ heap' = Release([new EXCEPT ![at.node].entity = to], Roots)
          /\ at' = [at EXCEPT !.path = Append(@, k), !.node = to, !.from = at.node]
          /\ safe' = (safe /\ ~(held.from = at.node /\ heap[held.node].missing))
    /\ UNCHANGED <<made, other, held>>

\* auto &ref = ...
Hold == /\ Underway /\ at.from # None
        /\ held' = [node |-> at.node, from |-> at.from]
        /\ safe' = TRUE
        /\ at' = Begin(<<1>>)
        /\ UNCHANGED <<heap, made, other>>
-----------------------------------------------------------------------------
(* Calls that read, and end the statement: what they return *)

\* is_array, is_object and is_value
IsTypeResult(type) == CASE Here.missing -> "throws"
                        [] ~Here.missing /\ Here.type = type -> "yes"
                        [] OTHER -> "no"

\* is_null to is_string look at the value type alone: a container is_null.
IsResult(t) == CASE Here.missing -> "throws"
                 [] ~Here.missing /\ Here.value = t -> "yes"
                 [] OTHER -> "no"

\* as_array and as_object, and the conversion operators
AsContainerResult(type) == IF ~Here.missing /\ Here.type = type THEN "reference" ELSE "throws"

\* take<MJsonValue>(): take_ptr() and the constructor from what it returns, which
\* copies a value and refuses an array or an object.
TakeValueResult == IF ~Here.missing /\ Here.type = "value" THEN Here.value ELSE "throws"

\* as_bool, as_int, as_string and the like, for the value type t
AsResult(t) == IF ~Here.missing /\ Here.type = "value" /\ Here.value = t THEN "value" ELSE "throws"

\* as_..._or, which do not look at the type, although MJsonObject.h:241 has them
\* throw for a value of another one
AsOrResult == IF Here.missing THEN "default" ELSE "value"

HasResult(k) == CASE Refuses(k) -> "throws"
                  [] ~Refuses(k) /\ Has(k) -> "yes"
                  [] OTHER -> "no"

\* required with a handler that takes an MJsonValue: it is called even without
\* the child, with a node that throws when it is used.
RequiredValueResult(k) ==
    CASE Refuses(k) -> "throws"
      [] ~Refuses(k) /\ Has(k) -> "handler"
      [] OTHER -> "handler of nothing"

\* required with a handler that takes an MJsonObject or an MJsonArray: what by()
\* or at() return is converted for it.
RequiredResult(k, type) ==
    IF ~Refuses(k) /\ Has(k) /\ heap[Here.kids[k]].type = type THEN "handler" ELSE "throws"

OptionalNameResult(k) == CASE Refuses(k) -> "throws"
                           [] ~Refuses(k) /\ Has(k) -> "handler"
                           [] OTHER -> "alternative"

\* optional of an index compares the wrong way round: the alternative for all
\* elements and one more, and an access beyond the end for the rest.
OptionalIndexResult(k) == CASE Refuses(k) -> "throws"
                            [] ~Refuses(k) /\ Position(k) <= Cardinality(DOMAIN Here.kids) -> "alternative"
                            [] OTHER -> "undefined"

\* optional_for and required_for go over whatever the child has; the handler's
\* own subscript throws if that is not an array.
Each(id) == CASE DOMAIN heap[id].kids = {} -> "none"
              [] heap[id].type = "array" /\ DOMAIN heap[id].kids # {} -> "each"
              [] OTHER -> "throws"

OptionalForResult(k) == CASE Refuses(k) -> "throws"
                          [] ~Refuses(k) /\ Has(k) -> Each(Here.kids[k])
                          [] OTHER -> "alternative"

\* Without the child, the node made by by() or at() is gone at the end of the
\* statement that binds a reference to it, and the loop asks this for its size.
RequiredForResult(k) == CASE Refuses(k) -> "throws"
                          [] ~Refuses(k) /\ Has(k) -> Each(Here.kids[k])
                          [] OTHER -> "undefined"

\* Any of these calls, unless what it does is undefined.
Read == /\ Underway
        /\ at.path # <<>>
        /\ EndsStatement
        /\ UNCHANGED <<heap, made, other, held, safe>>
-----------------------------------------------------------------------------
(* Calls that write *)

\* What keeps the node that is held: its place in a document, or, if it is
\* missing, the node it came from.
Keeper == IF heap[held.node].missing THEN held.from ELSE held.node
InFirstDocument == Keeper \in {<<1>>} \cup Below(heap, <<1>>)
BelowHere == Keeper \in Below(heap, at.node)

\* The document made takes the place of the second one.
Made(new, root) == /\ made' = made + 1
                   /\ other' = root
                   /\ heap' = Release(new, {<<1>>, root})

\* A copy of what the statement has come to, in place of the second document.
CopyOut == /\ Underway /\ made < MaxMade
           /\ ~Here.missing /\ Here.type # "value"
           /\ Made(heap @@ Copy(heap, at.node, made + 1), <<made + 1>>)
           /\ safe' = (safe /\ InFirstDocument)
           /\ EndsStatement
           /\ UNCHANGED held

\* operator= does not clear the members it had: what they have in common stays.
Assign == /\ Underway /\ made < MaxMade
          /\ ~Here.missing /\ Here.type = "object"
          /\ LET copy == Copy(heap, at.node, made + 1)
                 root == <<made + 1>>
             IN heap' = Release([heap EXCEPT ![<<1>>].kids = @ @@ copy[root].kids] @@ copy, Roots)
          /\ made' = made + 1
          /\ EndsStatement
          /\ UNCHANGED <<other, held, safe>>

\* take<MJsonObject>() and take<MJsonArray>(): the members move.
Take(type) ==
    /\ Underway /\ made < MaxMade
    /\ ~Here.missing /\ Here.type = type
    /\ Made([heap EXCEPT ![at.node].kids = <<>>] @@ (<<made + 1>> :> Container(type, Here.kids)),
            <<made + 1>>)
    /\ safe' = (safe /\ (InFirstDocument \/ BelowHere))
    /\ EndsStatement
    /\ UNCHANGED held

\* The type is looked at when the members have left the node already: they are lost.
TakeThrows(type) ==
    /\ Underway
    /\ Here.missing \/ Here.type # type
    /\ heap' = IF Here.missing THEN heap
               ELSE Release([heap EXCEPT ![at.node].kids = <<>>], Roots)
    /\ safe' = (safe /\ (Here.missing \/ ~BelowHere))
    /\ EndsStatement
    /\ UNCHANGED <<made, other, held>>

Write == \/ CopyOut \/ Assign
         \/ \E type \in {"object", "array"} : Take(type)
         \/ \E type \in {"object", "array", "value"} : TakeThrows(type)

Next == \/ StartAnywhere
        \/ \E k \in Keys : Subscript(k) \/ SubscriptThrows(k)
        \/ Hold \/ Read \/ Write

Spec == Init /\ [][Next]_vars
-----------------------------------------------------------------------------
(* What the calls promise, from the path of a statement alone *)

RECURSIVE Resolve(_, _)
Resolve(id, path) ==
    IF path = <<>> THEN IF heap[id].missing THEN "missing" ELSE "found"
    ELSE IF heap[id].missing \/ heap[id].type # Wanted(Head(path)) THEN "broken"
    ELSE IF Head(path) \in DOMAIN heap[id].kids THEN Resolve(heap[id].kids[Head(path)], Tail(path))
    ELSE IF Len(path) = 1 THEN "missing" ELSE "broken"


(***************************************************************************)
(* A reference to a member or an element stays good through every call     *)
(* that reads, through a copy or an assignment, and through a take, also   *)
(* of what it is part of; a reference to what is not there is good until   *)
(* the next subscript of its parent.  What a program may not rely on, by   *)
(* these rules, is a reference into the second document when another takes *)
(* its place, and a reference to what a take of the wrong type has lost.   *)
(***************************************************************************)
ReferencesHold == safe => held.node \in DOMAIN heap

(***************************************************************************)
(* Every node is in one place of one document: copies are deep, and the    *)
(* members and elements that are taken have left their place.  (A value    *)
(* taken is a copy.)  A take of the wrong type, which loses them, is       *)
(* allowed.                                                                *)
(***************************************************************************)
DocumentsAreTrees ==
    /\ \A id, jd \in DOMAIN heap : \A k \in DOMAIN heap[id].kids, l \in DOMAIN heap[jd].kids :
          heap[id].kids[k] = heap[jd].kids[l] => id = jd /\ k = l
    /\ \A id \in DOMAIN heap : \A k \in DOMAIN heap[id].kids : ~heap[heap[id].kids[k]].missing

(***************************************************************************)
(* What the comments of MJsonObject.h say of three calls: as_..._or throw  *)
(* if the value is there and of another type (:241), required_for() throws *)
(* if the array is not there (:287 and :296), optional() of an index calls *)
(* its handler for an element that is there (:304).  That some one of them *)
(* holds in every state is asked of them together, because a single state  *)
(* in which none does refutes all three.                                   *)
(***************************************************************************)
OrCallsCheckTheType ==
    \A t \in ValueTypes : ~Here.missing /\ AsResult(t) = "throws" => AsOrResult = "throws"

RequiredForThrows ==
    \A k \in Keys : ~Refuses(k) /\ ~Has(k) => RequiredForResult(k) = "throws"

OptionalCallsItsHandler ==
    \A k \in Range(Indexes) : ~Refuses(k) /\ Has(k) => OptionalIndexResult(k) = "handler"

AsDocumented == Underway => OrCallsCheckTheType \/ RequiredForThrows \/ OptionalCallsItsHandler
=============================================================================
