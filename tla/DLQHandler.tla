------------------------------ MODULE DLQHandler ------------------------------
(***************************************************************************)
(* libs/events/dlq_handler.py: the in-memory dead letter queue, its retry  *)
(* task, its cleanup task and the calls its users make.                    *)
(*                                                                         *)
(* A section under self._lock runs without suspending, except that of      *)
(* manual_retry, which awaits the event bus while it holds the lock.  So   *)
(* the lock is either free or held by a manual retry wherever a task is    *)
(* suspended, and every other section is one action, enabled while the     *)
(* lock is free.  Indexes count from 1 (the source counts from 0).         *)
(***************************************************************************)
EXTENDS Integers, SequencesExt

CONSTANTS
  Events,            \* each is sent to the queue at most once
  Manual,            \* the events somebody may call manual_retry for
  None,
  MaxDlqSize, MaxRetryAttempts       \* DLQConfig

ASSUME DLQAssumptions ==
  /\ MaxDlqSize \in Nat \ {0}
  /\ MaxRetryAttempts \in Nat
  /\ Manual \subseteq Events
  /\ None \notin Events

VARIABLES
  dlq,         \* self.dlq_events, oldest first; an entry is named by its event
  retryCount,  \* dlq_entry["retry_count"]
  due,         \* now >= dlq_entry["next_retry"]
  retry,       \* the retry task: stopped, asleep, awaiting the event bus, or
               \* awaiting the lock after the bus accepted or refused
  batch,       \* what is left of events_to_retry: pairs of index and entry, which
               \* are taken in the order of the indexes
  manual,      \* the event whose manual_retry holds self._lock
  manualState, \* no manual retry, awaiting the bus, or awaiting the lock
  sent,        \* history: the events in the order they were sent to the queue
  published,   \* history: the events the bus accepted from the queue
  discarded    \* history: the events evicted, expired or cleared

queue == <<dlq, retryCount, due>>
retryVars == <<retry, batch>>
manualVars == <<manual, manualState>>
history == <<sent, published, discarded>>
dlqVars == <<queue, retryVars, manualVars, history>>

Lockable == manual = None

DlqTypeOK ==
  /\ dlq \in Seq(Events) /\ Len(dlq) <= MaxDlqSize
  /\ retryCount \in [Events -> 0..MaxRetryAttempts]
  /\ due \in [Events -> BOOLEAN]
  /\ retry \in {"stopped", "asleep", "publishing", "accepted", "refused"}
  /\ batch \subseteq [index : 1..MaxDlqSize, entry : Events]
  /\ manual \in Events \cup {None}
  /\ manualState \in {"none", "publishing", "locking"}
  /\ sent \in Seq(Events)
  /\ published \subseteq Events /\ discarded \subseteq Events

DlqInit ==
  /\ dlq = <<>>
  /\ retryCount = [e \in Events |-> 0]
  /\ due = [e \in Events |-> FALSE]
  /\ retry = "stopped" /\ batch = {}
  /\ manual = None /\ manualState = "none"
  /\ sent = <<>> /\ published = {} /\ discarded = {}

-----------------------------------------------------------------------------
Start ==
  /\ retry = "stopped"
  /\ retry' = "asleep"
  /\ UNCHANGED <<queue, batch, manualVars, history>>

(* stop: the retry task is cancelled wherever it is suspended. *)
Stop ==
  /\ retry # "stopped"
  /\ retry' = "stopped" /\ batch' = {}
  /\ UNCHANGED <<queue, manualVars, history>>

(* send_to_dlq: a full queue loses its oldest entry; the new one is due now. *)
SendToDlq(e) ==
  /\ Lockable
  /\ e \notin ToSet(sent)
  /\ dlq' = IF Len(dlq) >= MaxDlqSize THEN Append(Tail(dlq), e) ELSE Append(dlq, e)
  /\ discarded' = IF Len(dlq) >= MaxDlqSize THEN discarded \cup {Head(dlq)} ELSE discarded
  /\ due' = [due EXCEPT ![e] = TRUE]
  /\ sent' = Append(sent, e)
  /\ UNCHANGED <<retryCount, retryVars, manualVars, published>>

(* The delay of an entry is over. *)
BecomesDue(e) ==
  /\ e \in ToSet(dlq) /\ ~due[e]
  /\ due' = [due EXCEPT ![e] = TRUE]
  /\ UNCHANGED <<dlq, retryCount, retryVars, manualVars, history>>

-----------------------------------------------------------------------------
Ready(i) == due[dlq[i]] /\ retryCount[dlq[i]] < MaxRetryAttempts

\* Seeded fault: a pass takes up the first ready entry only.
ProcessRetries_FirstOnly ==
  /\ retry = "asleep" /\ Lockable
  /\ \E i \in DOMAIN dlq :
       /\ Ready(i) /\ \A j \in 1..(i - 1) : ~Ready(j)
       /\ retry' = "publishing" /\ batch' = {[index |-> i, entry |-> dlq[i]]}
  /\ UNCHANGED <<queue, manualVars, history>>

(* _process_retries: note the entries that are due, each with its index. *)
ProcessRetries ==
  LET ready == {[index |-> i, entry |-> dlq[i]] : i \in {j \in DOMAIN dlq : Ready(j)}}
  IN  /\ retry = "asleep" /\ Lockable
      /\ ready # {}
      /\ retry' = "publishing" /\ batch' = ready
      /\ UNCHANGED <<queue, manualVars, history>>

\* p is the entry that the loop of _process_retries is at.
InTurn(p) == p \in batch /\ \A q \in batch : p.index <= q.index

\* The loop goes on, or the task goes back to sleep.
NextInBatch(p) ==
  /\ batch' = batch \ {p}
  /\ retry' = IF batch = {p} THEN "asleep" ELSE "publishing"

(* _retry_event under the lock: on success the entry that is at the index by
   now is removed; on failure the retried entry is put off, provided that the
   index is still in range. *)
Settle(p, answer) ==
  LET found == p.index <= Len(dlq)
  IN  /\ dlq' = IF found /\ answer = "accepted" THEN RemoveAt(dlq, p.index) ELSE dlq
      /\ retryCount' = IF found /\ answer = "refused"
                       THEN [retryCount EXCEPT ![p.entry] = @ + 1] ELSE retryCount
      /\ due' = IF found /\ answer = "refused" THEN [due EXCEPT ![p.entry] = FALSE] ELSE due
      /\ NextInBatch(p)

(* The event bus answers the retry task. *)
PublishReturns(p, answer) ==
  /\ retry = "publishing" /\ InTurn(p)
  /\ published' = IF answer = "accepted" THEN published \cup {p.entry} ELSE published
  /\ IF Lockable THEN Settle(p, answer) ELSE retry' = answer /\ UNCHANGED <<queue, batch>>
  /\ UNCHANGED <<manualVars, sent, discarded>>

(* The bus raises: _retry_event logs it and leaves the entry as it is. *)
PublishRaises(p) ==
  /\ retry = "publishing" /\ InTurn(p)
  /\ NextInBatch(p)
  /\ UNCHANGED <<queue, manualVars, history>>

(* The retry task gets the lock it had to wait for. *)
RetryLocks(p) ==
  /\ retry \in {"accepted", "refused"} /\ Lockable /\ InTurn(p)
  /\ Settle(p, retry)
  /\ UNCHANGED <<manualVars, history>>

-----------------------------------------------------------------------------
(* _cleanup_expired_events: entries are in the order of their timestamps, so
   the expired ones are the first n. *)
CleanupExpired(n) ==
  /\ retry # "stopped" /\ Lockable
  /\ dlq' = SubSeq(dlq, n + 1, Len(dlq))
  /\ discarded' = discarded \cup ToSet(SubSeq(dlq, 1, n))
  /\ UNCHANGED <<retryCount, due, retryVars, manualVars, sent, published>>

ClearDlq ==
  /\ Lockable
  /\ dlq' = <<>>
  /\ discarded' = discarded \cup ToSet(dlq)
  /\ UNCHANGED <<retryCount, due, retryVars, manualVars, sent, published>>

(* manual_retry finds the event and awaits the bus, keeping the lock. *)
ManualRetry(e) ==
  /\ Lockable
  /\ e \in ToSet(dlq)
  /\ manual' = e /\ manualState' = "publishing"
  /\ UNCHANGED <<queue, retryVars, history>>

(* The bus answers: _retry_event asks for the lock that its caller holds. *)
ManualPublished(accepted) ==
  /\ manualState = "publishing"
  /\ manualState' = "locking"
  /\ published' = IF accepted THEN published \cup {manual} ELSE published
  /\ UNCHANGED <<queue, retryVars, manual, sent, discarded>>

(* The bus raises: manual_retry returns True and releases the lock. *)
ManualRaises ==
  /\ manualState = "publishing"
  /\ manual' = None /\ manualState' = "none"
  /\ UNCHANGED <<queue, retryVars, history>>

\* The event bus answers the retry task.
Publishing ==
  \E p \in batch : PublishRaises(p) \/ \E answer \in {"accepted", "refused"} : PublishReturns(p, answer)

\* Everything but the arrival of a failed event.
Background ==
  \/ Start
  \/ Stop
  \/ ClearDlq
  \/ ProcessRetries
  \/ Publishing
  \/ \E p \in batch : RetryLocks(p)
  \/ \E n \in 1..Len(dlq) : CleanupExpired(n)
  \/ \E e \in Events : BecomesDue(e)
  \/ \E e \in Manual : ManualRetry(e)
  \/ \E accepted \in BOOLEAN : ManualPublished(accepted)
  \/ ManualRaises

DlqNext == Background \/ \E e \in Events : SendToDlq(e)

\* The retry task is scheduled and the event bus answers.
DlqFairness ==
  /\ WF_dlqVars(ProcessRetries)
  /\ WF_dlqVars(Publishing)
  /\ WF_dlqVars(\E p \in batch : RetryLocks(p))
  /\ WF_dlqVars(ManualRaises \/ \E accepted \in BOOLEAN : ManualPublished(accepted))

DlqSpec == DlqInit /\ [][DlqNext]_dlqVars /\ DlqFairness

-----------------------------------------------------------------------------
(* Properties. *)

\* The place of event e in the order of arrival.
Arrival(e) == CHOOSE i \in DOMAIN sent : sent[i] = e

(* The queue keeps the order of arrival and holds no entry twice, through
   evictions, removals at stale indexes, expiry and clearing: what cleanup and
   eviction rely on when they take entries from the front. *)
ArrivalOrder ==
  /\ ToSet(dlq) \subseteq ToSet(sent)
  /\ \A i, j \in DOMAIN dlq : i < j => Arrival(dlq[i]) < Arrival(dlq[j])

(* An entry that is due and has attempts left is published, however often
   others before it fail, unless it leaves the queue, the handler is stopped or
   a manual retry takes the lock. *)
DueIsAttempted ==
  \A e \in Events :
    (retry # "stopped" /\ e \in ToSet(dlq) /\ due[e] /\ retryCount[e] < MaxRetryAttempts)
      ~> \/ retry = "stopped"
         \/ manual # None
         \/ e \notin ToSet(dlq)
         \/ \E p \in batch : InTurn(p) /\ p.entry = e

(* _retry_event: "Remove from DLQ on success": an event leaves the queue only
   when it was accepted by the bus, evicted, expired or cleared. *)
NoEventVanishes == ToSet(sent) \subseteq ToSet(dlq) \cup published \cup discarded
=============================================================================
