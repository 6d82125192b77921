----------------------------- MODULE MCDelivery -----------------------------
(* TLC instance of the batches of the event producer, the redelivery of events,
   the compensation of the sagas of libs/adapters and coordinated cancellation.
   They share no state; focus says which of them this behaviour is about, and the
   others keep their initial state. *)
EXTENDS EventDelivery, EventProducer, AdapterSaga, CoordinatedCancellation

VARIABLE focus

Init ==
  /\ focus \in {"events", "producer", "saga", "cancellation"}
  /\ DeliveryInit /\ ProducerInit /\ AdapterSagaInit /\ CancelInit
  /\ focus # "events" => ~viaBus
  /\ focus # "producer" => ~batching
  /\ focus # "saga" => ~shape.parallel /\ ~shape.reverse

Next ==
  /\ UNCHANGED focus
  /\ \/ focus = "events" /\ DeliveryNext
     \/ focus # "events" /\ UNCHANGED deliveryVars
  /\ \/ focus = "producer" /\ ProducerNext
     \/ focus # "producer" /\ UNCHANGED producerVars
  /\ \/ focus = "saga" /\ AdapterSagaNext
     \/ focus # "saga" /\ UNCHANGED adapterSagaVars
  /\ \/ focus = "cancellation" /\ CancelNext
     \/ focus # "cancellation" /\ UNCHANGED cancelVars

vars == <<focus, deliveryVars, producerVars, adapterSagaVars, cancelVars>>

(* What the fairness of a component is about is not enabled in its initial state,
   so the conditions on those that keep it hold trivially. *)
Spec ==
  /\ Init /\ [][Next]_vars
  /\ DeliveryFairness /\ ProducerFairness /\ AdapterSagaFairness /\ CancelFairness

\* Whatever is handed over comes to an end: a message is settled, an accepted event is
\* published or given up, a saga settles and a cancellation ends.
HandoversEnd ==
  EveryMessageSettles /\ AcceptedIsSettled /\ AdapterSagaSettles /\ CancellationEnds
=============================================================================
