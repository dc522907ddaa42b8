------------------------------- MODULE MJson -------------------------------
(***************************************************************************)
(* MJsonValue, MJsonArray and MJsonObject of filter-ground/extra: a parsed *)
(* document is a tree of nodes that own their members or elements by       *)
(* shared_ptr, plus one more pointer, entity_, by which a node owns what   *)
(* its last operator[] returned.  A subscript never fails by itself: for a *)
(* member that is not there it makes a node with exception_ set, which     *)
(* throws when it is used, and which nobody but entity_ owns.              *)
(*                                                                         *)
(* A key is a member's name or an element's index; a leaf's text is left   *)
(* out and its value type kept; path_ and name_ only word the exceptions.  *)
(***************************************************************************)
EXTENDS Naturals, FiniteSets, Sequences, Functions, TLC

CONSTANTS Names,    \* of members
          Indexes   \* of elements, as a sequence of keys

Keys == Names \cup Range(Indexes)
ValueTypes == {"null", "bool", "number", "string"}
None == <<>>

\* Whether k is for an object or for an array.
Wanted(k) == IF k \in Names THEN "object" ELSE "array"

Leaf(t) == [type |-> "value", value |-> t, missing |-> FALSE, kids |-> <<>>, entity |-> None]
Container(type, kids) ==
    [type |-> type, value |-> "null", missing |-> FALSE, kids |-> kids, entity |-> None]


\* by() and at() of a key that the parent has not: a node of the parent's type.
NotFound(parent) == [Container(parent.type, <<>>) EXCEPT !.missing = TRUE]
-----------------------------------------------------------------------------
(* Parsing: a node's identity is the number of the document it was made for
   and the path to it. *)

\* The paths of a JSON text, given as nested records [type, value, kids].
RECURSIVE Paths(_)
Paths(json) ==
    {<<>>} \cup UNION {{<<k>> \o p : p \in Paths(json.kids[k])} : k \in DOMAIN json.kids}

RECURSIVE Sub(_, _)
Sub(json, path) == IF path = <<>> THEN json ELSE Sub(json.kids[Head(path)], Tail(path))

\* parse_value, parse_array and parse_object
Parse(doc, json) ==
    [id \in {<<doc>> \o p : p \in Paths(json)} |->
        LET here == Sub(json, Tail(id))
        IN IF here.type = "value" THEN Leaf(here.value)
           ELSE Container(here.type, [k \in DOMAIN here.kids |-> Append(id, k)])]
-----------------------------------------------------------------------------
(* Ownership *)

Owned(heap, id) ==
    Range(heap[id].kids) \cup IF heap[id].entity = None THEN {} ELSE {heap[id].entity}

RECURSIVE Alive(_, _)
Alive(heap, ids) ==
    LET more == ids \cup UNION {Owned(heap, id) : id \in ids}
    IN IF more = ids THEN ids ELSE Alive(heap, more)

\* The last shared_ptr to a node goes, and the node with it.
Release(heap, roots) == [id \in Alive(heap, roots) |-> heap[id]]

\* The nodes below a node, without what entity_ owns.
RECURSIVE Below(_, _)
Below(heap, id) ==
    Range(heap[id].kids) \cup UNION {Below(heap, kid) : kid \in Range(heap[id].kids)}

RECURSIVE PathsBelow(_, _)
PathsBelow(heap, id) ==
    {<<>>} \cup UNION {{<<k>> \o p : p \in PathsBelow(heap, heap[id].kids[k])}
                       : k \in DOMAIN heap[id].kids}

RECURSIVE Walk(_, _, _)
Walk(heap, id, path) ==
    IF path = <<>> THEN id ELSE Walk(heap, heap[id].kids[Head(path)], Tail(path))

\* Seeded bug: the members are not copied but shared.
Copy_Shallow(heap, id, doc) == (<<doc>> :> [heap[id] EXCEPT !.entity = None])

\* The copy constructors: a new node for every node below.
Copy(heap, id, doc) ==
    [to \in {<<doc>> \o p : p \in PathsBelow(heap, id)} |->
        LET from == heap[Walk(heap, id, Tail(to))]
        IN [from EXCEPT !.kids = [k \in DOMAIN from.kids |-> Append(to, k)], !.entity = None]]
=============================================================================
