--------------------------- MODULE FilterTraffic ---------------------------
(***************************************************************************)
(* What FilterWorker::push and FilterWorker::run count and remember: the   *)
(* process-wide meters tps_meter_in and tps_meter_out, which several       *)
(* threads test and later add to, and each worker's handle_discard_, which *)
(* lives on from one item to the next.  FilterPipeline says where a        *)
(* message goes; here an item is one more in a queue.  A message that does *)
(* not parse only turns error_toggle_, which decides what is logged: it is *)
(* left out.                                                               *)
(***************************************************************************)
EXTENDS TpsMeter

CONSTANTS Receivers,  \* delivery threads
          Workers,    \* FilterWorkers, each with its thread
          LimitIn,    \* discard_tps_in
          LimitOut,   \* discard_tps_out
          QueueSize   \* of each worker

ASSUME TrafficAssumption == /\ IsFiniteSet(Receivers)
                            /\ IsFiniteSet(Workers)
                            /\ LimitIn \in Nat \ {0}
                            /\ LimitOut \in Nat \ {0}
                            /\ QueueSize \in Nat \ {0}

VARIABLES tpsIn, tpsOut,   \* tps_meter_in, tps_meter_out
          setBack,         \* how many ticks the clock has been set back
          receiver,        \* each delivery thread: where it is in push()
          queued,          \* each worker's waiter_: how many items
          worker,          \* each worker's thread: where it is in run()
          handleDiscard    \* handle_discard_

workVars == <<queued, worker, handleDiscard>>
trafficVars == <<tpsIn, tpsOut, setBack, receiver, workVars>>

\* "test": a message has parsed; "count": discard_tps_in has let it pass.
ReceiverStates == {"idle", "test", "count", "push"}
WorkerStates == {"pop", "test", "passed", "discarded"}

TrafficInit == /\ tpsIn = NoTransactions
               /\ tpsOut = NoTransactions
               /\ setBack = 0
               /\ receiver = [d \in Receivers |-> "idle"]
               /\ queued = [w \in Workers |-> 0]
               /\ worker = [w \in Workers |-> "pop"]
               /\ handleDiscard = [w \in Workers |-> FALSE]

ReceiverStep(d, from, to) == receiver[d] = from /\ receiver' = [receiver EXCEPT ![d] = to]
WorkerStep(w, from, to) == worker[w] = from /\ worker' = [worker EXCEPT ![w] = to]
-----------------------------------------------------------------------------
(* FilterWorker::push *)

Receive(d) == /\ ReceiverStep(d, "idle", "test")
              /\ UNCHANGED <<tpsIn, tpsOut, setBack, workVars>>

\* discard_tps_in lets pass.  The count comes later, by CountIn.
PassIn(d) == /\ ReceiverStep(d, "test", "count")
             /\ tpsIn' = Look(tpsIn)
             /\ Size(tpsIn') < LimitIn
             /\ UNCHANGED <<tpsOut, setBack, workVars>>

\* discard_tps_in answers instead, which looks at the other meter for the log.
DiscardIn(d) == /\ ReceiverStep(d, "test", "idle")
                /\ tpsIn' = Look(tpsIn)
                /\ Size(tpsIn') >= LimitIn
                /\ tpsOut' = Look(tpsOut)
                /\ UNCHANGED <<setBack, workVars>>

CountIn(d) == /\ ReceiverStep(d, "count", "push")
              /\ tpsIn' = Add(tpsIn)
              /\ UNCHANGED <<tpsOut, setBack, workVars>>

\* try_push to the worker the pool has chosen, whichever that is, or
\* discard_queue_full: what is counted stays counted.
Push(d, w) == /\ ReceiverStep(d, "push", "idle")
              /\ \/ queued[w] < QueueSize
                    /\ queued' = [queued EXCEPT ![w] = @ + 1]
                    /\ UNCHANGED tpsOut
                 \/ queued[w] = QueueSize
                    /\ tpsOut' = Look(tpsOut)
                    /\ UNCHANGED queued
              /\ UNCHANGED <<tpsIn, setBack, worker, handleDiscard>>

PushProgress(d) == \/ PassIn(d) \/ DiscardIn(d) \/ CountIn(d)
                   \/ \E w \in Workers : Push(d, w)
-----------------------------------------------------------------------------
(* FilterWorker::run and handle_discard *)

\* Seeded bug: handle_discard_ is not reset for the next item.
Take_NoReset(w) == /\ WorkerStep(w, "pop", "test")
                   /\ queued[w] > 0
                   /\ queued' = [queued EXCEPT ![w] = @ - 1]
                   /\ UNCHANGED <<tpsIn, tpsOut, setBack, receiver, handleDiscard>>

Take(w) == /\ WorkerStep(w, "pop", "test")
           /\ queued[w] > 0
           /\ queued' = [queued EXCEPT ![w] = @ - 1]
           /\ handleDiscard' = [handleDiscard EXCEPT ![w] = FALSE]
           /\ UNCHANGED <<tpsIn, tpsOut, setBack, receiver>>

\* Seeded bug: the limit itself still passes.
PassOut_AtLimit(w) == /\ WorkerStep(w, "test", "passed")
                      /\ tpsOut' = Look(tpsOut)
                      /\ Size(tpsOut') <= LimitOut
                      /\ UNCHANGED <<tpsIn, setBack, receiver, queued, handleDiscard>>

\* Neither discard_tps_out nor discard_timeout holds; what the filter answers
\* then is counted at the end of the item.
PassOut(w) == /\ WorkerStep(w, "test", "passed")
              /\ tpsOut' = Look(tpsOut)
              /\ Size(tpsOut') < LimitOut
              /\ UNCHANGED <<tpsIn, setBack, receiver, queued, handleDiscard>>

\* The limit is reached, or the message is late.
DiscardOut(w) == /\ WorkerStep(w, "test", "discarded")
                 /\ tpsOut' = Look(tpsOut)
                 /\ handleDiscard' = [handleDiscard EXCEPT ![w] = TRUE]
                 /\ UNCHANGED <<tpsIn, setBack, receiver, queued>>

\* The scope exit of run()'s loop.
ItemEnds(w) == /\ worker[w] \in {"passed", "discarded"}
               /\ tpsOut' = IF handleDiscard[w] THEN tpsOut ELSE Add(tpsOut)
               /\ worker' = [worker EXCEPT ![w] = "pop"]
               /\ UNCHANGED <<tpsIn, setBack, receiver, queued, handleDiscard>>

WorkerProgress(w) == Take(w) \/ PassOut(w) \/ DiscardOut(w) \/ ItemEnds(w)
-----------------------------------------------------------------------------
(* std::chrono::system_clock *)

Tick == /\ tpsIn' = Older(tpsIn)
        /\ tpsOut' = Older(tpsOut)
        /\ UNCHANGED <<setBack, receiver, workVars>>

SetBack == /\ setBack < MaxBack
           /\ setBack' = setBack + 1
           /\ tpsIn' \in Younger(tpsIn)
           /\ tpsOut' \in Younger(tpsOut)
           /\ UNCHANGED <<receiver, workVars>>

TrafficNext == \/ \E d \in Receivers : Receive(d) \/ PushProgress(d)
               \/ \E w \in Workers : WorkerProgress(w)
               \/ Tick \/ SetBack

\* The threads go on inside a call, and time goes on.
TrafficFairness == /\ \A d \in Receivers : WF_trafficVars(PushProgress(d))
                   /\ \A w \in Workers : WF_trafficVars(WorkerProgress(w))
                   /\ WF_trafficVars(Tick)

TrafficSpec == TrafficInit /\ [][TrafficNext]_trafficVars /\ TrafficFairness
-----------------------------------------------------------------------------
TrafficTypeOK == /\ tpsIn \in MeterType(LimitIn + Cardinality(Receivers))
                 /\ tpsOut \in MeterType(LimitOut + Cardinality(Workers))
                 /\ setBack \in 0..MaxBack
                 /\ receiver \in [Receivers -> ReceiverStates]
                 /\ queued \in [Workers -> 0..QueueSize]
                 /\ worker \in [Workers -> WorkerStates]
                 /\ handleDiscard \in [Workers -> BOOLEAN]

(***************************************************************************)
(* The limits are tested before the message is counted.  Still a meter     *)
(* never has more entries than the limit and one for each other thread     *)
(* that tests it, whatever the clock does: nothing is tested a second time *)
(* before it is counted.  This is about the entries the meter still has:   *)
(* those it has erased are forgotten when the clock is set back, and the   *)
(* second may then have seen more messages than that.                      *)
(***************************************************************************)
LimitsHold == /\ Size(tpsIn) < LimitIn + Cardinality(Receivers)
              /\ Size(tpsOut) < LimitOut + Cardinality(Workers)

(***************************************************************************)
(* The out meter counts exactly the items that were not discarded, though  *)
(* the flag that says so is a member that lives on from item to item.      *)
(***************************************************************************)
CountsWhatPassed ==
    [][\A w \in Workers : worker[w] # "pop" /\ worker'[w] = "pop"
          => tpsOut' = IF worker[w] = "passed" THEN Add(tpsOut) ELSE tpsOut]_trafficVars

(***************************************************************************)
(* A limit that was reached does not stop the traffic: as long as messages *)
(* come, some are let in again, also after the clock was set back.         *)
(***************************************************************************)
LetsInAgain == (\E d \in Receivers : []<>(receiver[d] = "test"))
               => \E d \in Receivers : []<>(receiver[d] = "count")
=============================================================================
