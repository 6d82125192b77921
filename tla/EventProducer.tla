---------------------------- MODULE EventProducer ----------------------------
(***************************************************************************)
(* libs/events/event_producer.py: one producer after start, with batching  *)
(* or without.  The batch lock is never held while something is awaited,   *)
(* except when a batch is full: _add_to_batch then awaits _flush_batch,    *)
(* which asks for the lock its caller holds, and nobody gets it again.     *)
(*                                                                         *)
(* The event bus is external: a publication succeeds or fails.  The        *)
(* statistics are left out.                                                *)
(***************************************************************************)
EXTENDS Integers, Sequences, SequencesExt

CONSTANTS
  Outgoing,        \* the events, each published once
  ProducerBatch,   \* batch_size
  PublishAttempts  \* retry_attempts

ASSUME ProducerAssumptions ==
  /\ ProducerBatch \in Nat \ {0} /\ PublishAttempts \in Nat \ {0}

VARIABLES
  batching,    \* enable_batching
  outBatch,    \* _batch
  lockStuck,   \* _batch_lock is held by a call that waits for it
  sending,     \* what each flush has not published yet, the first being tried;
               \* without batching a publish is a flush of its own event
  tried,       \* attempts made for the first of them
  producer,    \* "running", "stopping" (the batch task is cancelled) or "stopped"
  fate,        \* of an event: "new", "accepted", "blocked", "published" or "failed"
  dropped      \* history: events the batch task was publishing when it was cancelled

producerVars ==
  <<batching, outBatch, lockStuck, sending, tried, producer, fate, dropped>>

Flushes == {"task", "stop"} \cup Outgoing

ProducerInit ==
  /\ batching \in BOOLEAN
  /\ outBatch = <<>> /\ lockStuck = FALSE
  /\ sending = [f \in Flushes |-> <<>>]
  /\ tried = [f \in Flushes |-> 0]
  /\ producer = "running"
  /\ fate = [e \in Outgoing |-> "new"]
  /\ dropped = {}

(* publish without batching: _publish_single begins *)
PublishDirectly(e) ==
  /\ ~batching /\ fate[e] = "new"
  /\ sending' = [sending EXCEPT ![e] = <<e>>]
  /\ fate' = [fate EXCEPT ![e] = "accepted"]
  /\ UNCHANGED <<batching, outBatch, lockStuck, tried, producer, dropped>>

(* publish with batching: _add_to_batch, which may never return *)
AddToBatch(e) ==
  /\ batching /\ fate[e] = "new"
  /\ IF lockStuck
     THEN fate' = [fate EXCEPT ![e] = "blocked"] /\ UNCHANGED <<outBatch, lockStuck>>
     ELSE /\ outBatch' = Append(outBatch, e)
          /\ lockStuck' = (Len(outBatch') >= ProducerBatch)
          /\ fate' = [fate EXCEPT ![e] = "accepted"]
  /\ UNCHANGED <<batching, sending, tried, producer, dropped>>

\* Seeded fault: the batch is cut to what one publication takes.
Copied_FirstOnly == <<Head(outBatch)>>

\* batch = self._batch.copy()
Copied == outBatch

(* _flush_batch up to its first publication: of the batch task, whose timer has
   run out, or of stop.  It waits for ever when the lock is stuck. *)
FlushBatch(f) ==
  /\ f = "task" => producer = "running"
  /\ f = "stop" => producer = "stopping"
  /\ batching /\ ~lockStuck /\ sending[f] = <<>> /\ outBatch # <<>>
  /\ sending' = [sending EXCEPT ![f] = Copied]
  /\ outBatch' = <<>>
  /\ producer' = IF f = "stop" THEN "stopped" ELSE producer
  /\ UNCHANGED <<batching, lockStuck, tried, fate, dropped>>

(* stop finds nothing to flush *)
StopWithEmptyBatch ==
  /\ producer = "stopping" /\ ~lockStuck /\ outBatch = <<>>
  /\ producer' = "stopped"
  /\ UNCHANGED <<batching, outBatch, lockStuck, sending, tried, fate, dropped>>

(* _publish_single of the first event of a flush: an attempt succeeds, or fails
   and is repeated after a delay until the attempts are used up. *)
TryPublish(f, ok) ==
  /\ sending[f] # <<>>
  /\ LET e == Head(sending[f])
         ends == ok \/ tried[f] + 1 = PublishAttempts
     IN  /\ fate' = IF ends THEN [fate EXCEPT ![e] = IF ok THEN "published" ELSE "failed"]
                    ELSE fate
         /\ sending' = IF ends THEN [sending EXCEPT ![f] = Tail(@)] ELSE sending
         /\ tried' = [tried EXCEPT ![f] = IF ends THEN 0 ELSE @ + 1]
  /\ UNCHANGED <<batching, outBatch, lockStuck, producer, dropped>>

(* stop cancels the batch task, wherever it is: CancelledError passes through
   _publish_single and _flush_batch, and the rest of the batch is gone. *)
StopProducer ==
  /\ producer = "running"
  /\ producer' = "stopping"
  /\ dropped' = dropped \cup ToSet(sending["task"])
  /\ sending' = [sending EXCEPT !["task"] = <<>>]
  /\ tried' = [tried EXCEPT !["task"] = 0]
  /\ UNCHANGED <<batching, outBatch, lockStuck, fate>>

ProducerWorks ==
  \/ \E f \in Flushes : \E ok \in BOOLEAN : TryPublish(f, ok)
  \/ FlushBatch("task") \/ FlushBatch("stop") \/ StopWithEmptyBatch

ProducerNext ==
  \/ \E e \in Outgoing : PublishDirectly(e) \/ AddToBatch(e)
  \/ ProducerWorks
  \/ StopProducer

(* The event loop runs what is ready, and the timer of the batch task runs out. *)
ProducerFairness == WF_producerVars(ProducerWorks)
ProducerSpec == ProducerInit /\ [][ProducerNext]_producerVars /\ ProducerFairness

-----------------------------------------------------------------------------
(* publish answered True: every accepted event is published, or has failed all its
   attempts, unless a full batch has stuck the lock, stop cancelled the flush that
   had it, or it was added when stop had flushed the rest. *)
AcceptedIsSettled ==
  \A e \in Outgoing :
    (fate[e] = "accepted") ~>
      \/ fate[e] \in {"published", "failed"}
      \/ lockStuck \/ e \in dropped
      \/ producer = "stopped" /\ e \in ToSet(outBatch)
=============================================================================
