--------------------------- MODULE FilterPipeline ---------------------------
(***************************************************************************)
(* The filter process from its start to its end: main starts the publisher *)
(* pools and the receivers; the NATS delivery threads of NatsRecvers push  *)
(* messages into WorkerPools; FilterWorkers (with the handle_filter of     *)
(* AuthFilterWorker) decide and publish through the NatsPublisherPools;    *)
(* main's scope exit stops everything in order, also after a failed start. *)
(*                                                                         *)
(* A queue here is the queue of a LockFreeQueueThread: its two-step push   *)
(* (open_, then store) and its two-step end (failed pop, then open_) are   *)
(* kept; its size() is the length (BlockingLockFreeQueue says how far off  *)
(* it can be).  Creating a thread succeeds (LockFreeQueueThread says what  *)
(* happens if not).  Whether a message parses, exceeds a TPS limit, is     *)
(* late, hits the trap list or has a customer is left open.                *)
(***************************************************************************)
EXTENDS Naturals, FiniteSets, Sequences, SequencesExt

CONSTANTS Messages,        \* what the server has for this process
          Clients,         \* clients_, in order
          Workers,         \* the workers_ of each client's pool, in order
          Callbacks,       \* the subscriptions of each client, in order, each a thread
          Publishers,      \* the publishers_ of pool "result" and of pool "sender"
          WorkerQueue,     \* worker queue size
          PublisherQueue,  \* publisher queue size
          Retries,         \* max_retries of try_push (1000 in the code)
          DrainMayReturn   \* whether NatsClient::drain() may return before its callbacks

Pools == {"result", "sender"}
WorkerSet == UNION {ToSet(Workers[c]) : c \in ToSet(Clients)}
CallbackSet == UNION {ToSet(Callbacks[c]) : c \in ToSet(Clients)}
PublisherSet == UNION {ToSet(Publishers[x]) : x \in Pools}
ClientOf(b) == CHOOSE c \in ToSet(Clients) : b \in ToSet(Callbacks[c])
PoolOf(p) == CHOOSE x \in Pools : p \in ToSet(Publishers[x])

ASSUME PipelineAssumption == /\ WorkerQueue \in Nat \ {0}
                             /\ PublisherQueue \in Nat \ {0}
                             /\ Retries \in Nat \ {0}
                             /\ DrainMayReturn \in BOOLEAN

VARIABLES server,     \* messages not delivered to this process yet
          cb,         \* each delivery thread: where it is in the subscribe callback
          queue,      \* each worker's waiter_
          worker,     \* each worker thread
          outbox,     \* each publisher's waiter_
          publisher,  \* each publisher thread
          start,      \* how many steps of StartPlan main has taken
          failed,     \* the next one has failed
          stop,       \* how many steps of StopPlan main has taken
          crashed,    \* main has used a client that was not there
          hasty,      \* the clients whose drain() does not wait for the callbacks
          requested,  \* how often publish() was called with the message
          fate        \* what finally happened to the message

callVars == <<server, cb>>
workVars == <<queue, worker>>
sendVars == <<outbox, publisher>>
outcomeVars == <<requested, fate>>
mainVars == <<start, failed, stop, crashed, hasty>>
vars == <<callVars, workVars, sendVars, mainVars, outcomeVars>>

NoMsg == "none"

ASSUME MessageAssumption == NoMsg \notin Messages

\* Every client, worker, subscription and publisher is an object of its own; how
\* many of each there are is configured and not checked, so a pool may be empty.
ASSUME ObjectsAssumption ==
    /\ Clients \in Seq(ToSet(Clients))
    /\ \A i, j \in 1..Len(Clients) : Clients[i] = Clients[j] => i = j
    /\ \A c \in ToSet(Clients) : /\ Workers[c] \in Seq(WorkerSet)
                                 /\ Callbacks[c] \in Seq(CallbackSet)
    /\ \A x \in Pools : Publishers[x] \in Seq(PublisherSet)
    /\ \A c, d \in ToSet(Clients) : c # d => /\ ToSet(Workers[c]) \cap ToSet(Workers[d]) = {}
                                             /\ ToSet(Callbacks[c]) \cap ToSet(Callbacks[d]) = {}
    /\ WorkerSet \cap PublisherSet = {}

IdleCallback == [pc |-> "idle", msg |-> NoMsg, best |-> 1, next |-> 2, left |-> Retries]
IdleThread == [pc |-> "pop", msg |-> NoMsg]

Init == /\ server = Messages
        /\ cb = [b \in CallbackSet |-> IdleCallback]
        /\ queue = [w \in WorkerSet |-> <<>>]
        /\ worker = [w \in WorkerSet |-> IdleThread]
        /\ outbox = [p \in PublisherSet |-> <<>>]
        /\ publisher = [p \in PublisherSet |-> IdleThread]
        /\ start = 0
        /\ failed = FALSE
        /\ stop = 0
        /\ crashed = FALSE
        /\ hasty = {}
        /\ requested = [m \in Messages |-> 0]
        /\ fate = [m \in Messages |-> {}]
-----------------------------------------------------------------------------
(* main's starts, as a list of steps *)

\* Where each step of a plan is.
Positions(plan) ==
    [step \in ToSet(plan) |-> CHOOSE i \in 1..Len(plan) : plan[i] = step]

Each(op, things) == [i \in 1..Len(things) |-> <<op, things[i]>>]

\* NatsPublisherPool::start: all publishers are there before the first starts.
StartPool(pool) == << <<"fill", pool>> >> \o Each("publisher", Publishers[pool])

\* NatsRecvers::start: all pairs of client and pool are there, with a null
\* client, before the first client is made.
StartReceivers ==
    << <<"resize", "clients">> >>
    \o FlattenSeq([i \in 1..Len(Clients) |->
                      << <<"make", Clients[i]>> >>
                      \o Each("worker", Workers[Clients[i]])
                      \o << <<"connect", Clients[i]>> >>
                      \o Each("subscribe", Callbacks[Clients[i]])])

StartPlan == StartPool("sender") \o StartPool("result") \o StartReceivers

Started == start = Len(StartPlan)
StartAt == Positions(StartPlan)
Has(op, x) == <<op, x>> \in DOMAIN StartAt /\ StartAt[<<op, x>>] <= start

\* Connecting a publisher, making a client, connecting it and subscribing throw.
Fallible == {"publisher", "make", "connect", "subscribe"}
-----------------------------------------------------------------------------
(* main's scope exit, as a list of steps *)

StopThreads(threads) ==
    FlattenSeq([i \in 1..Len(threads) |-> << <<"close", threads[i]>>, <<"join", threads[i]>> >>])

\* Seeded bug: the worker pool is stopped before the client is drained.
StopReceivers_WorkersFirst ==
    FlattenSeq([i \in 1..Len(Clients) |->
                   StopThreads(Workers[Clients[i]])
                   \o << <<"drain", Clients[i]>>, <<"drained", Clients[i]>>,
                         <<"reset", Clients[i]>> >>])

\* NatsRecvers::stop: client by client.
StopReceivers ==
    FlattenSeq([i \in 1..Len(Clients) |->
                   << <<"drain", Clients[i]>>, <<"drained", Clients[i]>> >>
                   \o StopThreads(Workers[Clients[i]])
                   \o << <<"reset", Clients[i]>> >>])

\* NatsPublisherPool::stop
StopPool(pool) == StopThreads(Publishers[pool]) \o << <<"clear", pool>> >>

\* Seeded bug: the publishers are stopped first.
StopPlan_PublishersFirst == StopPool("result") \o StopPool("sender") \o StopReceivers

StopPlan == StopReceivers \o StopPool("result") \o StopPool("sender")

Stopped == stop = Len(StopPlan)
StopAt == Positions(StopPlan)
Done(op, x) == <<op, x>> \in DOMAIN StopAt /\ StopAt[<<op, x>>] <= stop

\* open_ of the queue of a worker or a publisher: main opens and closes it.
Runs(t) == Has("worker", t) \/ Has("publisher", t)
Open(t) == Runs(t) /\ ~Done("close", t)
Ready(pool) == Has("fill", pool) /\ ~Done("clear", pool)
Subscribed(b) == Has("subscribe", b) /\ ~Done("reset", ClientOf(b))
-----------------------------------------------------------------------------
(* NatsPublisherPool::publish and NatsPublisher::publish *)

Ends(m, how) == fate' = [fate EXCEPT ![m] = @ \cup {how}]

(***************************************************************************)
(* sequence_ is not atomic and shared by every thread that publishes, so   *)
(* any publisher may be the one that is picked.  A pool that was not       *)
(* started, was stopped, or was configured with none, has no publishers,   *)
(* and the code divides by their number: the message, if not the process,  *)
(* ends there.  A publisher whose queue is closed or full destroys it.     *)
(***************************************************************************)
Publish(m, pool) ==
    /\ requested' = [requested EXCEPT ![m] = @ + 1]
    /\ UNCHANGED publisher
    /\ \/ /\ ~Ready(pool) \/ Publishers[pool] = <<>>
          /\ Ends(m, "no pool")
          /\ UNCHANGED outbox
       \/ /\ Ready(pool)
          /\ \E p \in ToSet(Publishers[pool]) :
                \/ /\ ~Open(p)
                   /\ Ends(m, "publisher closed")
                   /\ UNCHANGED outbox
                \/ /\ Open(p)
                   /\ Len(outbox[p]) = PublisherQueue
                   /\ Ends(m, "publisher full")
                   /\ UNCHANGED outbox
                \/ /\ Open(p)
                   /\ Len(outbox[p]) < PublisherQueue
                   /\ outbox' = [outbox EXCEPT ![p] = Append(@, m)]
                   /\ UNCHANGED fate
-----------------------------------------------------------------------------
(* The subscribe callback: WorkerPool::push and FilterWorker::push *)

Pool(b) == Workers[ClientOf(b)]
Chosen(b) == Pool(b)[cb[b].best]
Finish(b) == cb' = [cb EXCEPT ![b] = IdleCallback]
Goto(b, pc) == cb' = [cb EXCEPT ![b].pc = pc]

\* std::min_element has compared all workers before the next one is due.
Picked(b) == cb[b].next > Len(Pool(b))

Deliver(b) == /\ cb[b].pc = "idle"
              /\ Subscribed(b)
              /\ Done("drain", ClientOf(b)) => ClientOf(b) \in hasty
              /\ \E m \in server :
                    /\ server' = server \ {m}
                    /\ cb' = [cb EXCEPT ![b].pc = "pick", ![b].msg = m]
              /\ UNCHANGED <<workVars, sendVars, mainVars, outcomeVars>>

\* An empty pool answers -1, the callback's "stopped": the message is dropped.
NoWorker(b) == /\ Pool(b) = <<>>
               /\ cb[b].pc = "pick"
               /\ Ends(cb[b].msg, "no worker")
               /\ Finish(b)
               /\ UNCHANGED <<server, requested, workVars, sendVars, mainVars>>

\* One comparison of the least-loaded choice; the sizes move meanwhile.
Pick(b) == /\ cb[b].pc = "pick"
           /\ ~Picked(b)
           /\ LET n == cb[b].next
                  smaller == Len(queue[Pool(b)[n]]) < Len(queue[Chosen(b)])
              IN  cb' = [cb EXCEPT ![b].next = n + 1,
                                   ![b].best = IF smaller THEN n ELSE @]
           /\ UNCHANGED <<server, workVars, sendVars, mainVars, outcomeVars>>

\* parse_message and discard_tps_in
Examine(b) == /\ cb[b].pc = "pick"
              /\ Pool(b) # <<>> /\ Picked(b)
              /\ \/ /\ Ends(cb[b].msg, "unparsable")
                    /\ Finish(b)
                    /\ UNCHANGED <<requested, sendVars>>
                 \/ /\ Publish(cb[b].msg, "result")
                    /\ Finish(b)
                 \/ /\ Goto(b, "try")
                    /\ UNCHANGED <<outcomeVars, sendVars>>
              /\ UNCHANGED <<server, workVars, mainVars>>

\* One round of try_push reads open_ ...
TryPush(b) == /\ cb[b].pc = "try"
              /\ \/ /\ Open(Chosen(b))
                    /\ Goto(b, "admitted")
                    /\ UNCHANGED outcomeVars
                 \/ /\ ~Open(Chosen(b))
                    /\ Ends(cb[b].msg, "worker closed")
                    /\ Finish(b)
                    /\ UNCHANGED requested
              /\ UNCHANGED <<server, workVars, sendVars, mainVars>>

\* ... and then stores the message,
Store(b) == /\ cb[b].pc = "admitted"
            /\ Len(queue[Chosen(b)]) < WorkerQueue
            /\ queue' = [queue EXCEPT ![Chosen(b)] = Append(@, cb[b].msg)]
            /\ Finish(b)
            /\ UNCHANGED <<server, worker, sendVars, mainVars, outcomeVars>>

\* or finds the queue full: the next round, or discard_queue_full.
QueueFull(b) == /\ cb[b].pc = "admitted"
                /\ Len(queue[Chosen(b)]) = WorkerQueue
                /\ \/ /\ cb[b].left > 1
                      /\ cb' = [cb EXCEPT ![b].pc = "try", ![b].left = @ - 1]
                      /\ UNCHANGED <<outcomeVars, sendVars>>
                   \/ /\ cb[b].left = 1
                      /\ Publish(cb[b].msg, "result")
                      /\ Finish(b)
                /\ UNCHANGED <<server, workVars, mainVars>>

CallbackProgress(b) == \/ NoWorker(b) \/ Pick(b) \/ Examine(b)
                       \/ TryPush(b) \/ Store(b) \/ QueueFull(b)
-----------------------------------------------------------------------------
(* FilterWorker::run and AuthFilterWorker::handle_filter *)

WorkerGoto(w, from, to) == /\ worker[w].pc = from
                           /\ worker' = [worker EXCEPT ![w].pc = to]

WorkerPop(w) == /\ queue[w] # <<>>
                /\ Runs(w)
                /\ worker[w].pc = "pop"
                /\ worker' = [worker EXCEPT ![w] = [pc |-> "discard", msg |-> Head(queue[w])]]
                /\ queue' = [queue EXCEPT ![w] = Tail(@)]
                /\ UNCHANGED <<callVars, sendVars, mainVars, outcomeVars>>

WorkerMiss(w) == /\ queue[w] = <<>>
                 /\ Runs(w)
                 /\ WorkerGoto(w, "pop", "missed")
                 /\ UNCHANGED <<queue, callVars, sendVars, mainVars, outcomeVars>>

\* Seeded bug: a worker that finds its queue empty leaves its loop.
WorkerLook_Leaves(w) == /\ WorkerGoto(w, "missed", "exited")
                        /\ UNCHANGED <<queue, callVars, sendVars, mainVars, outcomeVars>>

\* Seeded bug: a worker never looks at open_.
WorkerLook_Stays(w) == /\ WorkerGoto(w, "missed", "pop")
                       /\ UNCHANGED <<queue, callVars, sendVars, mainVars, outcomeVars>>

WorkerLook(w) == /\ WorkerGoto(w, "missed", IF Open(w) THEN "pop" ELSE "exited")
                 /\ UNCHANGED <<queue, callVars, sendVars, mainVars, outcomeVars>>

\* Seeded bug: the "return" after an answer is missing.
Answer_GoesOn(w, from, pool) == /\ worker[w].pc = from
                                /\ Publish(worker[w].msg, pool)
                                /\ worker' = IF from = "discard"
                                             THEN [worker EXCEPT ![w].pc = "trap"]
                                             ELSE [worker EXCEPT ![w] = IdleThread]

\* The message is answered through a pool and the worker pops again.
Answer(w, from, pool) == /\ worker[w].pc = from
                         /\ Publish(worker[w].msg, pool)
                         /\ worker' = [worker EXCEPT ![w] = IdleThread]

(***************************************************************************)
(* handle_discard (output TPS or timeout), the trap list, the customer     *)
(* lookup: each may answer with a result and return.  What passes all      *)
(* three goes to the next filter, traced or not.                           *)
(***************************************************************************)
HandleFilter(w) == /\ \/ /\ \/ WorkerGoto(w, "discard", "trap")
                            \/ WorkerGoto(w, "trap", "customer")
                            \/ WorkerGoto(w, "customer", "next")
                         /\ UNCHANGED <<sendVars, outcomeVars>>
                      \/ Answer(w, "discard", "result")
                      \/ Answer(w, "trap", "result")
                      \/ Answer(w, "customer", "result")
                      \/ Answer(w, "next", "sender")
                   /\ UNCHANGED <<queue, callVars, mainVars>>

WorkerProgress(w) == WorkerPop(w) \/ WorkerMiss(w) \/ WorkerLook(w) \/ HandleFilter(w)
-----------------------------------------------------------------------------
(* NatsPublisher::run *)

PublisherGoto(p, from, to) == /\ publisher[p].pc = from
                              /\ publisher' = [publisher EXCEPT ![p].pc = to]

PublisherPop(p) == /\ outbox[p] # <<>>
                   /\ Runs(p)
                   /\ publisher[p].pc = "pop"
                   /\ publisher' = [publisher EXCEPT ![p] = [pc |-> "send", msg |-> Head(outbox[p])]]
                   /\ outbox' = [outbox EXCEPT ![p] = Tail(@)]
                   /\ UNCHANGED <<callVars, workVars, mainVars, outcomeVars>>

PublisherMiss(p) == /\ outbox[p] = <<>>
                    /\ Runs(p)
                    /\ PublisherGoto(p, "pop", "missed")
                    /\ UNCHANGED <<outbox, callVars, workVars, mainVars, outcomeVars>>

PublisherLook(p) == /\ PublisherGoto(p, "missed", IF Open(p) THEN "pop" ELSE "exited")
                    /\ UNCHANGED <<outbox, callVars, workVars, mainVars, outcomeVars>>

\* Seeded bug: a message whose publication failed is reported and sent again.
PublisherSend_Again(p) == /\ publisher[p].pc = "send"
                          /\ \/ /\ Ends(publisher[p].msg, PoolOf(p))
                                /\ publisher' = [publisher EXCEPT ![p] = IdleThread]
                             \/ /\ Ends(publisher[p].msg, "send failed")
                                /\ UNCHANGED publisher
                          /\ UNCHANGED <<requested, outbox, callVars, workVars, mainVars>>

\* client_->publish succeeds or throws; the loop goes on either way.
PublisherSend(p) == /\ publisher[p].pc = "send"
                    /\ \E how \in {PoolOf(p), "send failed"} : Ends(publisher[p].msg, how)
                    /\ publisher' = [publisher EXCEPT ![p] = IdleThread]
                    /\ UNCHANGED <<requested, outbox, callVars, workVars, mainVars>>

PublisherProgress(p) == \/ PublisherPop(p) \/ PublisherMiss(p)
                        \/ PublisherLook(p) \/ PublisherSend(p)
-----------------------------------------------------------------------------
Quiet(c) == \A b \in ToSet(Callbacks[c]) : cb[b].pc = "idle"

Exited(t) == \/ t \in WorkerSet /\ worker[t].pc = "exited"
             \/ t \in PublisherSet /\ publisher[t].pc = "exited"

(* main *)

\* The next start succeeds, or fails and main returns; a failed pool stops
\* itself, which is what the scope exit does to it as well.
StartStep == /\ ~Started /\ ~failed
             /\ \/ start' = start + 1 /\ UNCHANGED failed
                \/ /\ StartPlan[start + 1][1] \in Fallible
                   /\ failed' = TRUE
                   /\ UNCHANGED start
             /\ UNCHANGED <<stop, crashed, hasty>>
             /\ UNCHANGED <<callVars, workVars, sendVars, outcomeVars>>

\* NatsRecvers::stop goes through all pairs, also those of a failed start
\* that have a null client.
NullClient(op, x) == op = "drain" /\ Has("resize", "clients") /\ ~Has("make", x)

(***************************************************************************)
(* The next step of the scope exit.  A join waits for the thread; drain()  *)
(* waits for the client's callbacks unless it is hasty, and the destructor *)
(* of the client does in any case.                                         *)
(***************************************************************************)
StopStep ==
    /\ Started \/ failed
    /\ ~Stopped
    /\ LET op == StopPlan[stop + 1][1]
           x  == StopPlan[stop + 1][2]
       IN  \/ /\ NullClient(op, x)
              /\ crashed' = TRUE
              /\ UNCHANGED <<stop, hasty>>
           \/ /\ ~NullClient(op, x)
              /\ op = "join" => Exited(x) \/ ~Runs(x)
              /\ op = "reset" \/ (op = "drained" /\ x \notin hasty) => Quiet(x)
              /\ stop' = stop + 1
              /\ \/ UNCHANGED hasty
                 \/ op = "drain" /\ DrainMayReturn /\ hasty' = hasty \cup {x}
              /\ UNCHANGED crashed
    /\ UNCHANGED <<start, failed>>
    /\ UNCHANGED <<callVars, workVars, sendVars, outcomeVars>>

Terminated == (Stopped \/ crashed) /\ UNCHANGED vars

Next == \/ /\ ~crashed
           /\ \/ \E b \in CallbackSet : Deliver(b) \/ CallbackProgress(b)
              \/ \E w \in WorkerSet : WorkerProgress(w)
              \/ \E p \in PublisherSet : PublisherProgress(p)
              \/ StartStep \/ StopStep
        \/ Terminated

\* Threads run; messages need not arrive, and main need not begin to stop
\* unless a start failed, but goes through with what it began.
Fairness == /\ \A b \in CallbackSet : WF_vars(~crashed /\ CallbackProgress(b))
            /\ \A w \in WorkerSet : WF_vars(~crashed /\ WorkerProgress(w))
            /\ \A p \in PublisherSet : WF_vars(~crashed /\ PublisherProgress(p))
            /\ WF_vars(~crashed /\ StartStep)
            /\ WF_vars(~crashed /\ (failed \/ stop > 0) /\ StopStep)

SafeSpec == Init /\ [][Next]_vars
Spec == SafeSpec /\ Fairness
-----------------------------------------------------------------------------
Fates == {"no worker", "unparsable", "worker closed", "no pool", "publisher closed",
          "publisher full", "send failed", "result", "sender"}

CallbackPlaces == {"idle", "pick", "try", "admitted"}
WorkerPlaces == {"pop", "missed", "exited", "discard", "trap", "customer", "next"}
PublisherPlaces == {"pop", "missed", "exited", "send"}

TypeOK ==
    /\ server \subseteq Messages
    /\ start \in 0..Len(StartPlan) /\ failed \in BOOLEAN
    /\ stop \in 0..Len(StopPlan) /\ crashed \in BOOLEAN /\ hasty \subseteq ToSet(Clients)
    /\ \A b \in CallbackSet : /\ cb[b].pc \in CallbackPlaces
                                /\ Pool(b) # <<>> => cb[b].best \in 1..Len(Pool(b))
    /\ \A w \in WorkerSet : Len(queue[w]) <= WorkerQueue /\ worker[w].pc \in WorkerPlaces
    /\ \A p \in PublisherSet : Len(outbox[p]) <= PublisherQueue /\ publisher[p].pc \in PublisherPlaces
    /\ requested \in [Messages -> Nat]
    /\ fate \in [Messages -> SUBSET Fates]

\* The message is with a callback, in a worker's queue or with a worker.
Undecided(m) == \/ \E b \in CallbackSet : cb[b].msg = m
                \/ \E w \in WorkerSet : worker[w].msg = m \/ Contains(queue[w], m)

\* The message waits for a publisher or is being published.
Sending(m) == \E p \in PublisherSet : publisher[p].msg = m \/ Contains(outbox[p], m)

(***************************************************************************)
(* FilterWorker: a message is answered once.  No path through push() and   *)
(* handle_filter() publishes twice, and a message that was received and is *)
(* no longer with a callback, with a worker or in a worker's queue was     *)
(* handed to a publisher pool, or was unparsable, or met a closed worker   *)
(* or a pool without workers.                                              *)
(***************************************************************************)
Refused == {"no worker", "unparsable", "worker closed"}

AnsweredOnce ==
    \A m \in Messages :
        /\ requested[m] <= 1
        /\ requested[m] = 1 => ~Undecided(m)
        /\ m \notin server /\ ~Undecided(m) =>
              (requested[m] = 1) # (fate[m] \cap Refused # {})

(***************************************************************************)
(* What was handed to a publisher comes to exactly one end: published, or  *)
(* lost for a reason of the publisher's own.                               *)
(***************************************************************************)
OneFate == \A m \in Messages :
               /\ Cardinality(fate[m]) <= 1
               /\ requested[m] = 1 /\ ~Sending(m) => fate[m] # {}

(***************************************************************************)
(* NatsPublisherPool.h:92 takes the sequence modulo the number of          *)
(* publishers: nobody publishes through a pool that was not filled or was  *)
(* cleared, nor through a closed publisher.  So it is only if the pools    *)
(* are configured with publishers, which AppConf.cpp:91 and 102 do not     *)
(* check: of a pool without any, the first message to publish is lost.     *)
(***************************************************************************)
HavePublishers == \A pool \in Pools : Publishers[pool] # <<>>

PoolsOutliveWorkers ==
    \A m \in Messages : fate[m] \cap {"no pool", "publisher closed"} = {}

(***************************************************************************)
(* Stopping the receivers first, and waiting for their callbacks, turns no *)
(* message away: none meets a closed worker, and when main is done no      *)
(* thread still holds one.  The first part exempts a drain() that does not *)
(* wait, and none of it speaks of the queues: what a worker that exited    *)
(* left in its queue is StoppedHasProcessedAll.                            *)
(***************************************************************************)
ShutdownTurnsNothingAway ==
    /\ hasty = {} => \A m \in Messages : "worker closed" \notin fate[m]
    /\ Stopped => /\ \A b \in CallbackSet : cb[b].msg = NoMsg
                  /\ \A w \in WorkerSet : worker[w].msg = NoMsg
                  /\ \A p \in PublisherSet : publisher[p].msg = NoMsg

(***************************************************************************)
(* main.cpp:51-53: every object that is stopped processes the data it has  *)
(* received before it terminates.  So when main is done, no message it was *)
(* given is still in a queue or was turned away by a closed worker.  (Not  *)
(* so: a worker whose pop failed may see open_ FALSE although a message    *)
(* was stored in between, also if drain() waits.)                          *)
(***************************************************************************)
StoppedHasProcessedAll ==
    Stopped => \A m \in Messages \ server : ~Undecided(m) /\ "worker closed" \notin fate[m]

(***************************************************************************)
(* NatsRecvers.h:146-151: stop() ends the connections of all clients and    *)
(* stops all worker pools; it is also what main does after a failed start. *)
(***************************************************************************)
StopFindsItsClients == ~crashed

\* Once main has begun to stop, it finishes: every join is answered.  (It never
\* takes back that it stops or has stopped, so "again and again" says so.)
StopCompletes == []<>(failed \/ stop > 0 => Stopped \/ crashed)

(***************************************************************************)
(* Every message that was received comes to an end, unless main stops      *)
(* meanwhile.  (Messages are only taken from the server and fates only     *)
(* added, so "again and again all of them" says it of each of them.)       *)
(***************************************************************************)
ReceivedIsDecided ==
    []<>(failed \/ stop > 0 \/ \A m \in Messages \ server : fate[m] # {})
=============================================================================
