---------------------------- MODULE EventConsumer ----------------------------
(***************************************************************************)
(* libs/events/event_consumer.py, with the dead letter queue it owns: each *)
(* delivery of an event runs _handle_event in a task of its own, which     *)
(* keeps one permit of the consumer's semaphore until the handler has      *)
(* succeeded or the event is in the queue, the back-off between two        *)
(* attempts and the wait for the queue's lock included.                    *)
(***************************************************************************)
EXTENDS DLQHandler

CONSTANTS
  MaxConcurrent,    \* ConsumerConfig.max_concurrent_events
  RetryAttempts     \* ConsumerConfig.retry_attempts

\* With retry_attempts = 0 no handler would ever run.
ASSUME ConsumerAssumptions ==
  /\ MaxConcurrent \in Nat \ {0}
  /\ RetryAttempts \in Nat \ {0}

VARIABLES
  enableDlq,    \* ConsumerConfig.enable_dlq, fixed when the consumer is made
  permits,      \* self.semaphore
  pc,           \* where the task of each delivery is
  attempt,      \* handler calls begun for it
  processed, failed, retried, dead     \* self._stats

stats == <<processed, failed, retried, dead>>
consumerVars == <<dlqVars, enableDlq, permits, pc, attempt, stats>>

Inside == {e \in Events : pc[e] \in {"handling", "backoff", "locking"}}

ConsumerTypeOK ==
  /\ DlqTypeOK
  /\ enableDlq \in BOOLEAN
  /\ permits \in 0..MaxConcurrent
  /\ pc \in [Events -> {"new", "waiting", "handling", "backoff", "locking", "ignored",
                        "processed", "failed", "dead"}]
  /\ attempt \in [Events -> 0..RetryAttempts]
  /\ processed \in Nat /\ failed \in Nat /\ retried \in Nat /\ dead \in Nat

ConsumerInit ==
  /\ DlqInit
  /\ enableDlq \in BOOLEAN
  /\ permits = MaxConcurrent
  /\ pc = [e \in Events |-> "new"]
  /\ attempt = [e \in Events |-> 0]
  /\ processed = 0 /\ failed = 0 /\ retried = 0 /\ dead = 0

-----------------------------------------------------------------------------
Goto(e, l) == pc' = [pc EXCEPT ![e] = l]

(* The event bus calls _handle_event, which queues for the semaphore. *)
HandleEvent(e) ==
  /\ pc[e] = "new"
  /\ Goto(e, "waiting")
  /\ UNCHANGED <<dlqVars, enableDlq, permits, attempt, stats>>

(* The semaphore is acquired and a handler is registered: call it. *)
CallHandler(e) ==
  /\ pc[e] = "waiting" /\ permits > 0
  /\ permits' = permits - 1
  /\ attempt' = [attempt EXCEPT ![e] = 1]
  /\ Goto(e, "handling")
  /\ UNCHANGED <<dlqVars, enableDlq, stats>>

(* No handler is registered: the event is dropped, the permit released. *)
NoHandler(e) ==
  /\ pc[e] = "waiting" /\ permits > 0
  /\ Goto(e, "ignored")
  /\ UNCHANGED <<dlqVars, enableDlq, permits, attempt, stats>>

HandlerReturns(e) ==
  /\ pc[e] = "handling"
  /\ Goto(e, "processed")
  /\ permits' = permits + 1
  /\ processed' = processed + 1
  /\ UNCHANGED <<dlqVars, enableDlq, attempt, failed, retried, dead>>

(* The handler raises or times out, with attempts left. *)
HandlerFails(e) ==
  /\ pc[e] = "handling" /\ attempt[e] < RetryAttempts
  /\ Goto(e, "backoff")
  /\ UNCHANGED <<dlqVars, enableDlq, permits, attempt, stats>>

\* Seeded fault: the sleep never ends.
CallAgain_Sleeps(e) == pc[e] = "backoff" /\ UNCHANGED consumerVars

(* The sleep is over. *)
CallAgain(e) ==
  /\ pc[e] = "backoff"
  /\ attempt' = [attempt EXCEPT ![e] = @ + 1]
  /\ retried' = retried + 1
  /\ Goto(e, "handling")
  /\ UNCHANGED <<dlqVars, enableDlq, permits, processed, failed, dead>>

\* Seeded fault: the permit is not given back on the way to the queue.
Bury_KeepsPermit(e) ==
  /\ SendToDlq(e)
  /\ Goto(e, "dead")
  /\ dead' = dead + 1
  /\ UNCHANGED <<enableDlq, permits, attempt, processed, failed, retried>>

\* Seeded fault: the event is counted but not queued.
Bury_CountsOnly(e) ==
  /\ Goto(e, "dead")
  /\ permits' = permits + 1
  /\ dead' = dead + 1
  /\ UNCHANGED <<dlqVars, enableDlq, attempt, processed, failed, retried>>

\* _send_to_dlq once the queue's lock is free.
Bury(e) ==
  /\ SendToDlq(e)
  /\ Goto(e, "dead")
  /\ permits' = permits + 1
  /\ dead' = dead + 1
  /\ UNCHANGED <<enableDlq, attempt, processed, failed, retried>>

(* The last attempt fails: into the queue, or wait for its lock, or, without a
   queue, only counted. *)
LastAttemptFails(e) ==
  /\ pc[e] = "handling" /\ attempt[e] = RetryAttempts
  /\ \/ /\ enableDlq /\ Bury(e)
     \/ /\ enableDlq /\ ~Lockable
        /\ Goto(e, "locking")
        /\ UNCHANGED <<dlqVars, enableDlq, permits, attempt, stats>>
     \/ /\ ~enableDlq
        /\ Goto(e, "failed")
        /\ permits' = permits + 1
        /\ failed' = failed + 1
        /\ UNCHANGED <<dlqVars, enableDlq, attempt, processed, retried, dead>>

GetsLock(e) == pc[e] = "locking" /\ Bury(e)

HandlerStep(e) == HandlerReturns(e) \/ HandlerFails(e) \/ LastAttemptFails(e)

\* start and stop of the consumer start and stop the queue's tasks.
QueueStep == enableDlq /\ Background /\ UNCHANGED <<enableDlq, permits, pc, attempt, stats>>

ConsumerNext ==
  \/ QueueStep
  \/ \E e \in Events : HandleEvent(e)
  \/ \E e \in Events : CallHandler(e)
  \/ \E e \in Events : NoHandler(e)
  \/ \E e \in Events : HandlerStep(e)
  \/ \E e \in Events : CallAgain(e)
  \/ \E e \in Events : GetsLock(e)

\* wait_for bounds each handler call, sleeps end, and the semaphore serves its
\* waiters in turn; likewise the lock.  The queue's tasks are fair as well.
ConsumerFairness ==
  /\ \A e \in Events :
       /\ SF_consumerVars(CallHandler(e) \/ NoHandler(e) \/ GetsLock(e))
       /\ WF_consumerVars(HandlerStep(e) \/ CallAgain(e))
  /\ DlqFairness

ConsumerSpec == ConsumerInit /\ [][ConsumerNext]_consumerVars /\ ConsumerFairness

-----------------------------------------------------------------------------
(* Properties. *)

(* No permit is lost or given back twice on any way out of _process_event, so
   at most max_concurrent_events events are being handled. *)
PermitsConserved == permits + Cardinality(Inside) = MaxConcurrent

(* An event is in the dead letter queue's history exactly when its task ended
   as dead, after all attempts; never when it was processed, and only once. *)
DeadLettersAreExhausted ==
  /\ \A e \in Events : e \in ToSet(sent) <=> pc[e] = "dead"
  /\ \A e \in ToSet(sent) : attempt[e] = RetryAttempts
  /\ \A i, j \in DOMAIN sent : sent[i] = sent[j] => i = j
  /\ dead = Len(sent)

\* The events whose task ended so, and the handler calls after an event's first.
Ended(l) == {e \in Events : pc[e] = l}
LaterCalls == {c \in Events \X (2..RetryAttempts) : c[2] <= attempt[c[1]]}

(* get_stats: events_processed and events_failed count the events that ended so,
   and events_retried counts exactly the handler calls after the first. *)
StatsAddUp ==
  /\ processed = Cardinality(Ended("processed")) /\ failed = Cardinality(Ended("failed"))
  /\ retried = Cardinality(LaterCalls)

(* Permits, attempts and statistics account for every event, and the queue they
   end in keeps its order, whatever its own tasks do meanwhile. *)
EventsAccounted ==
  ConsumerTypeOK /\ PermitsConserved /\ DeadLettersAreExhausted /\ StatsAddUp /\ ArrivalOrder

(* Whatever the queue's own tasks do, every delivered event is processed,
   ignored or put aside, unless a manual retry keeps the queue's lock. *)
EveryEventEnds ==
  \A e \in Events :
    pc[e] = "waiting" ~> \/ pc[e] \in {"processed", "ignored", "failed", "dead"}
                        \/ manual # None

(* The consumer comes to an end with every event and the queue with every entry
   that is due. *)
DeliveriesMoveOn == EveryEventEnds /\ DueIsAttempted
=============================================================================
