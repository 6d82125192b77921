----------------------------- MODULE EventService -----------------------------
(***************************************************************************)
(* libs/events/event_service.py with event_handlers.py: the services of    *)
(* several tenants on the one global event bus of a process, for one event *)
(* type; libs/events/event_store.py; and libs/events/dlq_processor.py.     *)
(*                                                                         *)
(* A service registers its handler with the bus and subscribes; the        *)
(* combined_handler of every subscription goes through the one list of     *)
(* handlers of the type.  stop disconnects the bus, whoever else uses it,  *)
(* and unregisters nothing.  A handler counts the event and then inserts a *)
(* row under the id of what the event is about; its errors are logged.     *)
(* NATS and the database are external: a call of theirs may fail.          *)
(***************************************************************************)
EXTENDS Integers, Sequences, SequencesExt, FiniteSets, FiniteSetsExt

CONSTANTS
  SvcTenants,   \* the tenants, a service each
  StartCalls,   \* calls of start, numbered
  SvcEvents,    \* the events published
  StoredEvents, \* the events given to the event store
  RowKey,       \* RowKey[e]: run_id, call_id, ... under which e is stored
  StoreBatch,   \* batch_size of the event store
  DeadLetters,  \* messages of the dead letter queue
  DlqCalls,     \* calls of process_dlq_message
  DlqRetries,   \* retry_attempts of the processor
  NoEvent

ASSUME EventServiceAssumptions ==
  /\ DlqRetries \in Nat /\ IsFiniteSet(DlqCalls)
  /\ StoreBatch \in Nat \ {0} /\ DOMAIN RowKey = SvcEvents
  /\ NoEvent \notin SvcEvents /\ NoEvent \notin StartCalls /\ NoEvent \notin DeadLetters

VARIABLES
  startPhase,   \* of a call of start: "unused", "connect", "register", "subscribe", "over"
  startTenant,  \* whose service it starts
  isRunning,    \* is_running of the tenants' services
  bus,          \* the connection of nats_client.nc, named after the start that made it
  busConnected, \* is_connected of the bus
  open,         \* connections that are not closed
  handlers,     \* event_handlers of the type: tenants, in the order of registration
  task,         \* per start: the connection its _process_messages uses, or NoEvent
  current,      \* per start: the event being handled by that task
  position,     \* ... and the place in handlers of the next handler
  stream,       \* of an event: "new", "ready", "held" or "acknowledged"
  rows,         \* table rows by key: the event stored
  triedBy,      \* history: tenants whose handler has been given the event
  due,          \* history: tenants registered when the event was published
  failedFor     \* history: events some handler could not store

serviceVars == <<startPhase, startTenant, isRunning, bus, busConnected, open, handlers, task,
                 current, position, stream, rows, triedBy, due, failedFor>>
startVars == <<startPhase, startTenant, isRunning, bus, busConnected, open>>
workVars == <<current, position, stream, rows, triedBy, failedFor>>

ServiceInit ==
  /\ startPhase = [c \in StartCalls |-> "unused"]
  /\ startTenant = [c \in StartCalls |-> NoEvent]
  /\ isRunning = [t \in SvcTenants |-> FALSE]
  /\ bus = NoEvent /\ busConnected = FALSE /\ open = {}
  /\ handlers = <<>>
  /\ task = [c \in StartCalls |-> NoEvent]
  /\ current = [c \in StartCalls |-> NoEvent]
  /\ position = [c \in StartCalls |-> 1]
  /\ stream = [e \in SvcEvents |-> "new"]
  /\ rows = [k \in Range(RowKey) |-> NoEvent]
  /\ triedBy = [e \in SvcEvents |-> {}]
  /\ due = [e \in SvcEvents |-> {}]
  /\ failedFor = {}

(* start, past the test of is_running: nothing is remembered until it ends *)
BeginStart(c, t) ==
  /\ startPhase[c] = "unused" /\ ~isRunning[t]
  /\ \A d \in StartCalls : d < c => startPhase[d] # "unused"
  /\ startPhase' = [startPhase EXCEPT ![c] = "connect"]
  /\ startTenant' = [startTenant EXCEPT ![c] = t]
  /\ UNCHANGED <<isRunning, bus, busConnected, open, handlers, task, due, workVars>>

(* event_bus.connect: a new connection, whether or not there is one *)
Connect(c) ==
  /\ startPhase[c] = "connect"
  /\ \/ /\ bus' = c /\ open' = open \cup {c} /\ busConnected' = TRUE
        /\ startPhase' = [startPhase EXCEPT ![c] = "register"]
     \/ /\ startPhase' = [startPhase EXCEPT ![c] = "over"]
        /\ UNCHANGED <<bus, open, busConnected>>
  /\ UNCHANGED <<startTenant, isRunning, handlers, task, due, workVars>>

(* _subscribe_to_events up to the subscription *)
Register(c) ==
  /\ startPhase[c] = "register"
  /\ handlers' = Append(handlers, startTenant[c])
  /\ startPhase' = [startPhase EXCEPT ![c] = "subscribe"]
  /\ UNCHANGED <<startTenant, isRunning, bus, busConnected, open, task, due, workVars>>

(* The subscription and the rest of start.  When it fails, or finds the bus
   disconnected, the error is logged and the service runs without. *)
Subscribe(c) ==
  /\ startPhase[c] = "subscribe"
  /\ \/ busConnected /\ bus \in open /\ task' = [task EXCEPT ![c] = bus]
     \/ UNCHANGED task
  /\ isRunning' = [isRunning EXCEPT ![startTenant[c]] = TRUE]
  /\ startPhase' = [startPhase EXCEPT ![c] = "over"]
  /\ UNCHANGED <<startTenant, bus, busConnected, open, handlers, due, workVars>>

(* stop *)
Stop(t) ==
  /\ isRunning[t]
  /\ open' = open \ {bus} /\ busConnected' = FALSE
  /\ isRunning' = [isRunning EXCEPT ![t] = FALSE]
  /\ UNCHANGED <<startPhase, startTenant, bus, handlers, task, due, workVars>>

(* publish_*_event of any service: refused while the bus is not connected *)
Publish(e) ==
  /\ stream[e] = "new" /\ busConnected
  /\ stream' = [stream EXCEPT ![e] = "ready"]
  /\ due' = [due EXCEPT ![e] = ToSet(handlers)]
  /\ UNCHANGED <<startVars, handlers, task, current, position, rows, triedBy, failedFor>>

(* fetch of a task whose connection is open *)
FetchEvent(c, e) ==
  /\ task[c] \in open /\ current[c] = NoEvent /\ stream[e] = "ready"
  /\ current' = [current EXCEPT ![c] = e]
  /\ position' = [position EXCEPT ![c] = 1]
  /\ stream' = [stream EXCEPT ![e] = "held"]
  /\ UNCHANGED <<startVars, handlers, task, due, rows, triedBy, failedFor>>

\* Seeded fault: an error of one handler ends the loop over the handlers.
NextHandler_StopsAtError(c, ok) == IF ok THEN position[c] + 1 ELSE Len(handlers) + 1

\* combined_handler goes on whatever a handler does
NextHandler(c, ok) == position[c] + 1

(* handle of the next handler of the list, which may have grown since.  The insert
   fails when the key is taken, by an earlier status of the same run for instance. *)
Handle(c) ==
  /\ current[c] # NoEvent /\ position[c] <= Len(handlers)
  /\ LET e == current[c]
     IN  /\ triedBy' = [triedBy EXCEPT ![e] = @ \cup {handlers[position[c]]}]
         /\ \E stored \in BOOLEAN :
              /\ stored => rows[RowKey[e]] = NoEvent
              /\ rows' = IF stored THEN [rows EXCEPT ![RowKey[e]] = e] ELSE rows
              /\ failedFor' = IF stored THEN failedFor ELSE failedFor \cup {e}
              /\ position' = [position EXCEPT ![c] = NextHandler(c, stored)]
  /\ UNCHANGED <<startVars, handlers, task, due, current, stream>>

(* The acknowledgement; on a closed connection it fails, and so does the nak, and
   JetStream delivers the message again. *)
Acknowledge(c) ==
  /\ current[c] # NoEvent /\ position[c] > Len(handlers)
  /\ stream' = [stream EXCEPT ![current[c]] =
                  IF task[c] \in open THEN "acknowledged" ELSE "ready"]
  /\ current' = [current EXCEPT ![c] = NoEvent]
  /\ position' = [position EXCEPT ![c] = 1]
  /\ UNCHANGED <<startVars, handlers, task, due, rows, triedBy, failedFor>>

ServiceNext ==
  \/ \E c \in StartCalls :
       \/ \E t \in SvcTenants : BeginStart(c, t)
       \/ Connect(c) \/ Register(c) \/ Subscribe(c) \/ Handle(c) \/ Acknowledge(c)
       \/ \E e \in SvcEvents : FetchEvent(c, e)
  \/ \E t \in SvcTenants : Stop(t)
  \/ \E e \in SvcEvents : Publish(e)

-----------------------------------------------------------------------------
(* An acknowledged event has been given to the handler of every service registered
   when it was published, through whichever subscription and however often services
   were started and stopped in between; and unless a handler failed for it, the row
   of its key is there. *)
EveryHandlerSeesEvent ==
  \A e \in SvcEvents :
    stream[e] = "acknowledged" =>
      /\ due[e] \subseteq triedBy[e]
      /\ rows[RowKey[e]] # NoEvent \/ e \in failedFor

-----------------------------------------------------------------------------
(* The event store: a list under one lock.  A full batch makes store_event await
   _flush_events, which waits for the lock its caller holds. *)
VARIABLES
  storeEvents,  \* events
  storeStuck,   \* the lock is held by a call that waits for it
  storeStats,   \* events_stored, events_deleted and storage_size_bytes
  asked         \* history: calls of store_event that have got the lock

storeVars == <<storeEvents, storeStuck, storeStats, asked>>

\* every event is one unit long
NoStats == [stored |-> 0, deleted |-> 0, bytes |-> 0]

StoreInit ==
  /\ storeEvents = <<>> /\ storeStuck = FALSE /\ storeStats = NoStats /\ asked = {}

(* store_event *)
StoreEvent(e) ==
  /\ ~storeStuck /\ e \notin asked
  /\ storeEvents' = Append(storeEvents, e)
  /\ storeStats' = [storeStats EXCEPT !.stored = @ + 1, !.bytes = @ + 1]
  /\ storeStuck' = (Len(storeEvents) + 1 >= StoreBatch)
  /\ asked' = asked \cup {e}

(* delete_event pops the first entry of the event *)
DeleteEvent(e) ==
  /\ ~storeStuck
  /\ \E i \in DOMAIN storeEvents :
       /\ storeEvents[i] = e /\ \A j \in 1 .. i - 1 : storeEvents[j] # e
       /\ storeEvents' = RemoveAt(storeEvents, i)
  /\ storeStats' = [storeStats EXCEPT !.deleted = @ + 1, !.bytes = @ - 1]
  /\ UNCHANGED <<storeStuck, asked>>

\* Seeded fault: what the clean-up removes is not counted.
Removed_NotCounted(n) == 0

\* removed_count
Removed(n) == n

(* _cleanup_old_events: the oldest n are past the retention period *)
CleanupOldEvents(n) ==
  /\ ~storeStuck /\ n \in 1 .. Len(storeEvents)
  /\ storeEvents' = SubSeq(storeEvents, n + 1, Len(storeEvents))
  /\ storeStats' = [storeStats EXCEPT !.deleted = @ + Removed(n)]
  /\ UNCHANGED <<storeStuck, asked>>

(* reset_stats, which takes no lock *)
ResetStats ==
  /\ storeStats # NoStats
  /\ storeStats' = NoStats
  /\ UNCHANGED <<storeEvents, storeStuck, asked>>

StoreNext ==
  \/ \E e \in StoredEvents : StoreEvent(e) \/ DeleteEvent(e)
  \/ \E n \in 1 .. StoreBatch : CleanupOldEvents(n)
  \/ ResetStats

(* Until the statistics are reset the counters tell what is in the store, and the size
   is never less than what is there (a clean-up does not reduce it); a store that is
   filled to its batch size accepts nothing more. *)
StoreCountsAgree ==
  /\ storeStats.stored = Cardinality(asked) =>
       /\ storeStats.stored - storeStats.deleted = Len(storeEvents)
       /\ storeStats.bytes >= Len(storeEvents)
  /\ storeStuck <=> Len(storeEvents) = StoreBatch

-----------------------------------------------------------------------------
(* The processor of the dead letter queue, called any number of times for a message,
   by several tasks at once.  A message names its event type in the first part of its
   subject, or does not: the subjects of nats_client begin with "agent", "tool", ...,
   which is no EventType.  What could not be handled is meant for two tables, but
   UUID() without an argument raises before anything is added, and so the alert behind
   it is never sent: both ends of a call leave a log line only. *)
VARIABLES
  letter,       \* of a message: its subject, whether its payload parses, retry_count
  dlqCall,      \* of a call: where it is, its message and the delay it slept
  letterRow,    \* messages whose row is in the table of their type
  letterMetric  \* per message: how often the handler has counted it

deadVars == <<letter, dlqCall, letterRow, letterMetric>>

\* Messages as they may be found.
Letters == [subject : {"typed", "dotted"}, sound : BOOLEAN, retries : 0 .. DlqRetries]

\* what nats_client leaves there
UnknownLetter == [subject |-> "dotted", sound |-> TRUE, retries |-> DlqRetries]

DeadInit ==
  /\ letter \in [DeadLetters -> Letters]
  /\ dlqCall = [c \in DlqCalls |-> [pc |-> "idle", of |-> NoEvent, delay |-> 0]]
  /\ letterRow = {} /\ letterMetric = [l \in DeadLetters |-> 0]

\* _extract_event_type
EventTypeKnown(l) == letter[l].subject = "typed"

\* _calculate_retry_delay, in units of retry_delay, of which max_retry_delay has sixty
RetryDelay(n) == IF n < 6 THEN <<1, 2, 4, 8, 16, 32>>[n + 1] ELSE 60

DlqEnds(c, how) == dlqCall' = [dlqCall EXCEPT ![c].pc = how]

\* process_dlq_message up to the sleep, or to its end
ProcessDeadLetter(c, l) ==
  /\ dlqCall[c].pc = "idle"
  /\ LET at(pc, d) == [dlqCall EXCEPT ![c] = [pc |-> pc, of |-> l, delay |-> d]]
     IN  dlqCall' = IF ~letter[l].sound THEN at("error", 0)
                    ELSE IF ~EventTypeKnown(l) THEN at("unknown", 0)
                    ELSE IF letter[l].retries >= DlqRetries THEN at("exhausted", 0)
                    ELSE at("sleeping", RetryDelay(letter[l].retries))
  /\ UNCHANGED <<letter, letterRow, letterMetric>>

(* The handler of the type: it parses the event, counts it, and asks the database.
   Data it cannot parse, or a metric that cannot be had, is an error before anything
   is counted.  The metrics and the tables are external: either may fail. *)
HandlerCounts(c) ==
  /\ dlqCall[c].pc = "sleeping"
  /\ \/ /\ letterMetric' = [letterMetric EXCEPT ![dlqCall[c].of] = @ + 1]
        /\ DlqEnds(c, "counted")
     \/ DlqEnds(c, "error") /\ UNCHANGED letterMetric
  /\ UNCHANGED <<letter, letterRow>>

\* The insert, refused when the row is there, and the end of the handler.
HandlerInserts(c) ==
  /\ dlqCall[c].pc = "counted"
  /\ LET l == dlqCall[c].of
     IN  \/ l \notin letterRow /\ letterRow' = letterRow \cup {l} /\ DlqEnds(c, "retried")
         \/ DlqEnds(c, "error") /\ UNCHANGED letterRow
  /\ UNCHANGED <<letter, letterMetric>>

\* _handle_final_failure and _handle_processing_error
RecordFailure(c) ==
  /\ dlqCall[c].pc \in {"exhausted", "error"}
  /\ DlqEnds(c, "logged")
  /\ UNCHANGED <<letter, letterRow, letterMetric>>

DeadNext ==
  \E c \in DlqCalls : \/ HandlerCounts(c) \/ HandlerInserts(c) \/ RecordFailure(c)
                      \/ \E l \in DeadLetters : ProcessDeadLetter(c, l)

(* A message takes effect at most once however many calls process it, and a row is
   there exactly if one of them reported success; every call that slept counts at most
   once, and more was counted than stored only where a call failed in between; a
   message that is exhausted, malformed or of no known type leaves no trace. *)
RetriesTakeEffectOnce ==
  \A l \in DeadLetters :
    LET calls == {c \in DlqCalls : dlqCall[c].of = l}
        ended(how) == {c \in calls : dlqCall[c].pc = how}
    IN  /\ Cardinality(ended("retried")) <= 1
        /\ l \in letterRow <=> ended("retried") # {}
        /\ letterMetric[l] <= Cardinality({c \in calls : dlqCall[c].delay > 0})
        /\ letterMetric[l] - Cardinality(ended("retried")) <=
             Cardinality(ended("counted") \cup ended("error") \cup ended("logged"))
        /\ ~letter[l].sound \/ ~EventTypeKnown(l) \/ letter[l].retries = DlqRetries =>
             letterMetric[l] = 0 /\ l \notin letterRow
=============================================================================
