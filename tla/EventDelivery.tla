---------------------------- MODULE EventDelivery ----------------------------
(***************************************************************************)
(* libs/events/nats_client.py and libs/events/event_bus.py: the stream of  *)
(* one event type, a work queue, and the processes that consume it through *)
(* the same durable pull consumer.  JetStream is external, modelled as the *)
(* configuration in the code asks for: explicit acknowledgement, at most   *)
(* MaxDeliver deliveries, and redelivery when an acknowledgement does not  *)
(* come within ack_wait.                                                   *)
(*                                                                         *)
(* The subject of a dead letter (agent.run.dlq) matches that of the stream *)
(* and of the consumer (agent.run and any one token), so a dead letter is  *)
(* one more message of the stream.  A message is <<event, generation>>:    *)
(* generation 0 is the event, and n + 1 the dead letter of generation n.   *)
(***************************************************************************)
EXTENDS Integers, Sequences, FiniteSets, SequencesExt

CONSTANTS
  BusEvents,       \* the events published
  BusWorkers,      \* the processes running _process_messages
  MaxDeliver,      \* max_deliver, and the 3 that num_delivered is compared to
  BatchSize,       \* batch of fetch
  MaxGeneration,   \* bound: dead letters of dead letters
  MaxCrashes       \* bound: crashes of the processes

ASSUME EventDeliveryAssumptions ==
  /\ MaxDeliver \in Nat \ {0} /\ BatchSize \in Nat \ {0}
  /\ MaxGeneration \in Nat /\ MaxCrashes \in Nat

BusMessages == BusEvents \X (0..MaxGeneration)

VARIABLES
  viaBus,     \* the handler is the combined_handler of the EventBus
  place,      \* of a message: "absent", "ready", "held" until acknowledged, "removed"
  delivered,  \* how often JetStream has delivered it
  batch,      \* batch[w]: the rest of messages in w, the first being processed;
              \* each is <<message, num_delivered>>
  stage,      \* stage[w] of the first one: "handle", "deadletter" or "acknowledge"
  crashes,
  handled,    \* history: messages a handler has dealt with
  swallowed,  \* history: messages whose handler failed inside combined_handler
  unsent      \* history: messages whose dead letter could not be published

deliveryVars ==
  <<viaBus, place, delivered, batch, stage, crashes, handled, swallowed, unsent>>

DeliveryInit ==
  /\ viaBus \in BOOLEAN
  /\ place = [m \in BusMessages |-> "absent"]
  /\ delivered = [m \in BusMessages |-> 0]
  /\ batch = [w \in BusWorkers |-> <<>>]
  /\ stage = [w \in BusWorkers |-> "handle"]
  /\ crashes = 0
  /\ handled = {} /\ swallowed = {} /\ unsent = {}

DeadLetter(m) == <<m[1], m[2] + 1>>

(* publish_event *)
PublishEvent(e) ==
  /\ place[<<e, 0>>] = "absent"
  /\ place' = [place EXCEPT ![<<e, 0>>] = "ready"]
  /\ UNCHANGED <<viaBus, delivered, batch, stage, crashes, handled, swallowed, unsent>>

\* Seeded fault: the consumer is given new messages only.
Deliverable_New == {m \in BusMessages : place[m] = "ready" /\ delivered[m] = 0}

\* JetStream delivers a message at most MaxDeliver times
Deliverable == {m \in BusMessages : place[m] = "ready" /\ delivered[m] < MaxDeliver}

(* fetch *)
FetchBatch(w, ms) ==
  /\ batch[w] = <<>> /\ IsInjective(ms)
  /\ place' = [m \in BusMessages |-> IF m \in ToSet(ms) THEN "held" ELSE place[m]]
  /\ delivered' = [m \in BusMessages |->
                     IF m \in ToSet(ms) THEN delivered[m] + 1 ELSE delivered[m]]
  /\ batch' = [batch EXCEPT ![w] = [i \in DOMAIN ms |-> <<ms[i], delivered[ms[i]] + 1>>]]
  /\ stage' = [stage EXCEPT ![w] = "handle"]
  /\ UNCHANGED <<viaBus, crashes, handled, swallowed, unsent>>

Current(w) == Head(batch[w])[1]
NumDelivered(w) == Head(batch[w])[2]

\* msg.ack(): the message leaves the work queue, whichever delivery is acknowledged
Acked(w) == [place EXCEPT ![Current(w)] = "removed"]

\* msg.nak(): it can be fetched again, unless it has been acknowledged meanwhile or
\* a later delivery was the last
Naked(w) ==
  [place EXCEPT ![Current(w)] =
     IF @ = "held" /\ delivered[Current(w)] < MaxDeliver THEN "ready" ELSE @]

NextMessage(w) ==
  /\ batch' = [batch EXCEPT ![w] = Tail(@)]
  /\ stage' = [stage EXCEPT ![w] = "handle"]

(* The handler returns, and the message is acknowledged.  Through the bus it
   returns even when a registered handler failed. *)
HandlerReturns(w, ok) ==
  /\ batch[w] # <<>> /\ stage[w] = "handle"
  /\ ok \/ viaBus
  /\ IF ok THEN handled' = handled \cup {Current(w)} /\ UNCHANGED swallowed
           ELSE swallowed' = swallowed \cup {Current(w)} /\ UNCHANGED handled
  /\ place' = Acked(w)
  /\ NextMessage(w)
  /\ UNCHANGED <<viaBus, delivered, crashes, unsent>>

(* The handler raises, or the payload does not parse: the message is given back
   until its last delivery, and then becomes a dead letter.  (Bound: the handlers
   do not fail on the last delivery of the last generation.) *)
HandlerRaises(w) ==
  /\ batch[w] # <<>> /\ stage[w] = "handle" /\ ~viaBus
  /\ IF NumDelivered(w) >= MaxDeliver
     THEN /\ Current(w)[2] < MaxGeneration
          /\ stage' = [stage EXCEPT ![w] = "deadletter"]
          /\ UNCHANGED <<place, batch>>
     ELSE place' = Naked(w) /\ NextMessage(w)
  /\ UNCHANGED <<viaBus, delivered, crashes, handled, swallowed, unsent>>

\* Seeded fault: the dead letter is published after the acknowledgement, by a
\* process that may be gone.
SendToDlq_Later(w, ok) ==
  /\ batch[w] # <<>> /\ stage[w] = "deadletter"
  /\ place' = Acked(w)
  /\ stage' = [stage EXCEPT ![w] = "acknowledge"]
  /\ UNCHANGED <<viaBus, delivered, batch, crashes, handled, swallowed, unsent>>

(* _send_to_dlq, which swallows the errors of the publication *)
SendToDlq(w, ok) ==
  /\ batch[w] # <<>> /\ stage[w] = "deadletter"
  /\ IF ok THEN /\ place' = [place EXCEPT ![DeadLetter(Current(w))] =
                                            IF @ = "absent" THEN "ready" ELSE @]
                /\ UNCHANGED unsent
           ELSE unsent' = unsent \cup {Current(w)} /\ UNCHANGED place
  /\ stage' = [stage EXCEPT ![w] = "acknowledge"]
  /\ UNCHANGED <<viaBus, delivered, batch, crashes, handled, swallowed>>

(* ack() after _send_to_dlq *)
AcknowledgeDead(w) ==
  /\ batch[w] # <<>> /\ stage[w] = "acknowledge"
  /\ place' = Acked(w)
  /\ NextMessage(w)
  /\ UNCHANGED <<viaBus, delivered, crashes, handled, swallowed, unsent>>

(* ack or nak raises out of the inner handler, or the process crashes and is
   restarted: the rest of the batch is dropped, unacknowledged. *)
DropBatch(w, done) ==
  /\ batch[w] # <<>> /\ crashes < MaxCrashes
  /\ crashes' = crashes + 1
  /\ batch' = [batch EXCEPT ![w] = <<>>]
  /\ stage' = [stage EXCEPT ![w] = "handle"]
  /\ done => stage[w] = "handle"   \* the handler had returned: only ack failed
  /\ handled' = IF done THEN handled \cup {Current(w)} ELSE handled
  /\ UNCHANGED <<viaBus, place, delivered, swallowed, unsent>>

(* ack_wait passes, also while a process is still busy with the message *)
AckWaitExpires(m) ==
  /\ place[m] = "held" /\ delivered[m] < MaxDeliver
  /\ place' = [place EXCEPT ![m] = "ready"]
  /\ UNCHANGED <<viaBus, delivered, batch, stage, crashes, handled, swallowed, unsent>>

Batches == UNION {[1..n -> Deliverable] : n \in 1..BatchSize}

WorkerStep(w) ==
  \/ \E ms \in Batches : FetchBatch(w, ms)
  \/ \E ok \in BOOLEAN : HandlerReturns(w, ok) \/ SendToDlq(w, ok)
  \/ HandlerRaises(w)
  \/ AcknowledgeDead(w)

DeliveryNext ==
  \/ \E e \in BusEvents : PublishEvent(e)
  \/ \E w \in BusWorkers : WorkerStep(w) \/ \E done \in BOOLEAN : DropBatch(w, done)
  \/ \E m \in BusMessages : AckWaitExpires(m)

(* The event loops run what is ready and ack_wait passes: deliveries are limited,
   so it is enough that one of them goes on.  Nothing makes a handler succeed, nor
   a process crash. *)
DeliveryFairness ==
  WF_deliveryVars((\E w \in BusWorkers : WorkerStep(w))
                  \/ \E m \in BusMessages : AckWaitExpires(m))

DeliverySpec == DeliveryInit /\ [][DeliveryNext]_deliveryVars /\ DeliveryFairness
-----------------------------------------------------------------------------
\* no delivery of m is left, and no process has its last one
UsedUp(m) ==
  /\ place[m] = "held" /\ delivered[m] = MaxDeliver
  /\ \A w \in BusWorkers : <<m, MaxDeliver>> \notin ToSet(batch[w])

(* Whatever the processes do with the deliveries of a message, it leaves the
   stream only when a handler has dealt with it, its dead letter is in the stream
   in its place, that dead letter could not be published, or the bus hid the
   failure; and it is left in the stream undeliverable only after a crash or a
   lost connection.  Nothing else loses an event. *)
NothingElseLosesEvents ==
  \A m \in BusMessages :
    /\ place[m] = "removed" =>
         \/ m \in handled \cup unsent
         \/ m \in swallowed /\ viaBus
         \/ m[2] < MaxGeneration /\ place[DeadLetter(m)] # "absent"
    /\ UsedUp(m) => crashes > 0

(* Every message of the stream is removed, or has used up its deliveries. *)
EveryMessageSettles ==
  \A m \in BusMessages : (place[m] = "ready") ~> (place[m] = "removed" \/ UsedUp(m))
=============================================================================
