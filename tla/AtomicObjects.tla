--------------------------- MODULE AtomicObjects ---------------------------
(***************************************************************************)
(* What LockedDeque and LockedObject promise: containers whose operations  *)
(* each happen at one moment.  An assignment from another object is a load *)
(* at one moment and a store at a later one.                               *)
(***************************************************************************)
CONSTANTS Threads, Objects

VARIABLES content,  \* the items in each object
          loaded    \* what each thread has loaded and will store

vars == <<content, loaded>>
Items == Threads

Init == /\ content = [o \in Objects |-> {}]
        /\ loaded = [t \in Threads |-> {}]

Modify(t, o) == /\ \E i \in Items :
                      content' \in {[content EXCEPT ![o] = @ \cup {i}],
                                    [content EXCEPT ![o] = @ \ {i}]}
                /\ loaded' = [loaded EXCEPT ![t] = {}]

Swap(t, o, p) == /\ content' = [content EXCEPT ![o] = content[p], ![p] = content[o]]
                 /\ loaded' = [loaded EXCEPT ![t] = {}]

Load(t, o) == /\ loaded' = [loaded EXCEPT ![t] = content[o]]
              /\ UNCHANGED content

Store(t, o) == /\ content' = [content EXCEPT ![o] = loaded[t]]
               /\ loaded' = [loaded EXCEPT ![t] = {}]

Next == \E t \in Threads, o \in Objects :
            \/ Modify(t, o) \/ Load(t, o) \/ Store(t, o)
            \/ \E p \in Objects : Swap(t, o, p)

SafeSpec == Init /\ [][Next]_vars
=============================================================================
