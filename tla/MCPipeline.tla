----------------------------- MODULE MCPipeline -----------------------------
(***************************************************************************)
(* Instances of FilterPipeline for TLC, with a publisher in each pool: a   *)
(* client with two workers and two delivery threads after a client whose   *)
(* pool has no workers, or two clients with one worker and thread of each. *)
(***************************************************************************)
EXTENDS FilterPipeline

EmptyAndBusy == <<"c0", "c1">>
NoneAndTwoWorkers == [c \in {"c0", "c1"} |-> IF c = "c0" THEN <<>> ELSE <<"w1", "w2">>]
OneAndTwoCallbacks == [c \in {"c0", "c1"} |-> IF c = "c0" THEN <<"b0">> ELSE <<"b1", "b2">>]
TwoMessages == {"m1", "m2"}

OneClient == <<"c1">>
TwoClients == <<"c1", "c2">>
WorkerEach == [c \in {"c1", "c2"} |-> IF c = "c1" THEN <<"w1">> ELSE <<"w2">>]
CallbackEach == [c \in {"c1", "c2"} |-> IF c = "c1" THEN <<"b1">> ELSE <<"b2">>]

OnePublisherEach == [x \in {"result", "sender"} |-> IF x = "result" THEN <<"r1">> ELSE <<"s1">>]

\* Bound: the client without workers is drained properly and gets m1 at most.
QuietEmptyClient == "c0" \notin hasty' /\ cb'["b0"].msg # "m2"
=============================================================================
