------------------------------- MODULE Incidents -------------------------------
(***************************************************************************)
(* What the platform notices about itself:                                 *)
(*   - IncidentResponse (shared-observability/runbooks/incident_response.py), *)
(*     for one tenant;                                                     *)
(*   - SLOManager with its ErrorBudget (libs/observability/slo_manager.py), *)
(*     for one objective;                                                  *)
(*   - PerformanceBaselineManager (libs/performance/baseline_manager.py),  *)
(*     for one baseline.                                                   *)
(* Redis and the database are external: a command takes effect at some     *)
(* moment while its caller waits, or fails.                                *)
(***************************************************************************)
EXTENDS Integers, Sequences, SequencesExt, FiniteSets, FiniteSetsExt

CONSTANTS
  Creations,    \* calls of create_incident
  Changes,      \* calls of update_incident_status and execute_runbook_step
  Seconds,      \* the seconds incidents are created in, which are their ids
  NoIncident

ASSUME IncidentAssumptions == NoIncident \notin Creations

VARIABLES
  incident,     \* the Incident objects: id, status and length of completed_steps
  active,       \* active_incidents by id
  redis,        \* the hashes stored by id
  call,         \* the calls under way: pc, the object, and what was read before waiting
  timer,        \* _escalate_incident: "none", "sleeping", "over"
  told,         \* incidents an "escalated" notification was sent for
  touched,      \* history: incidents whose status was ever updated
  recordUpset   \* history: ids whose stores failed, overlapped or were wiped out

incidentVars == <<incident, active, redis, call, timer, told, touched, recordUpset>>
IncidentCalls == Creations \cup Changes
IncidentStatus == {"open", "investigating", "resolved"}

IncidentInit ==
  /\ incident = [c \in Creations |-> NoIncident]
  /\ active = [s \in Seconds |-> NoIncident] /\ redis = [s \in Seconds |-> NoIncident]
  /\ call = [o \in IncidentCalls |-> [pc |-> "unused"]]
  /\ timer = [c \in Creations |-> "none"]
  /\ told = {} /\ touched = {} /\ recordUpset = {}

StoresOf(s) == {o \in IncidentCalls : call[o].pc = "store" /\ call[o].data.id = s}

\* Seeded fault: the data are collected before the change is made.
Snapshot_Early(old, new) == old

\* incident_data of _store_incident
Snapshot(old, new) == new

(* _store_incident up to its first command: the data are those of this moment *)
Storing(o, i, old, new) ==
  /\ incident' = [incident EXCEPT ![i] = new]
  /\ call' = [call EXCEPT ![o] = [pc |-> "store", of |-> i, data |-> Snapshot(old, new)]]
  /\ recordUpset' = IF StoresOf(new.id) = {} THEN recordUpset ELSE recordUpset \cup {new.id}

(* create_incident: the object exists, nothing else knows it yet *)
CreateIncident(c, s) ==
  /\ incident[c] = NoIncident
  /\ LET new == [id |-> s, status |-> "open", steps |-> 0] IN Storing(c, c, new, new)
  /\ UNCHANGED <<active, redis, timer, told, touched>>

(* hset and expire; an error is logged.  create_incident goes on either way: it
   enters the incident, replacing one of the same second, and starts the timer. *)
Stored(o, ok) ==
  /\ call[o].pc = "store"
  /\ LET s == call[o].data.id
     IN  /\ redis' = IF ok THEN [redis EXCEPT ![s] = call[o].data] ELSE redis
         /\ recordUpset' = IF ok /\ (o \in Changes \/ active[s] = NoIncident)
                         THEN recordUpset ELSE recordUpset \cup {s}
         /\ active' = IF o \in Creations THEN [active EXCEPT ![s] = o] ELSE active
         /\ timer' = IF o \in Creations THEN [timer EXCEPT ![o] = "sleeping"] ELSE timer
  /\ call' = [call EXCEPT ![o] = [pc |-> "over"]]
  /\ UNCHANGED <<incident, told, touched>>

(* update_incident_status *)
UpdateIncidentStatus(o, s, status) ==
  /\ call[o].pc = "unused" /\ active[s] # NoIncident
  /\ LET i == active[s] IN
       /\ Storing(o, i, incident[i], [incident[i] EXCEPT !.status = status])
       /\ touched' = touched \cup {i}
  /\ UNCHANGED <<active, redis, timer, told>>

(* execute_runbook_step: _execute_step waits; a step that clears a cache reads the keys
   that match its pattern, by default all of them *)
ExecuteRunbookStep(o, s, wipes) ==
  /\ call[o].pc = "unused" /\ active[s] # NoIncident
  /\ call' = [call EXCEPT ![o] =
                [pc |-> "step", of |-> active[s],
                 keys |-> IF wipes THEN {t \in Seconds : redis[t] # NoIncident} ELSE {}]]
  /\ UNCHANGED <<incident, active, redis, timer, told, touched, recordUpset>>

(* ... then deletes them *)
WipeKeys(o) ==
  /\ call[o].pc = "step" /\ call[o].keys # {}
  /\ redis' = [t \in Seconds |-> IF t \in call[o].keys THEN NoIncident ELSE redis[t]]
  /\ recordUpset' = recordUpset \cup call[o].keys
  /\ call' = [call EXCEPT ![o].keys = {}]
  /\ UNCHANGED <<incident, active, timer, told, touched>>

(* ... and its completion is recorded, whether or not it succeeded *)
StepCompleted(o) ==
  /\ call[o].pc = "step" /\ call[o].keys = {}
  /\ LET i == call[o].of
     IN  Storing(o, i, incident[i], [incident[i] EXCEPT !.steps = @ + 1])
  /\ UNCHANGED <<active, redis, timer, told, touched>>

(* _escalate_incident wakes up and looks for the incident under its id *)
EscalateIncident(c) ==
  /\ timer[c] = "sleeping"
  /\ timer' = [timer EXCEPT ![c] = "over"]
  /\ LET i == active[incident[c].id]
     IN  told' = IF incident[i].status \in {"open", "investigating"} THEN told \cup {i} ELSE told
  /\ UNCHANGED <<incident, active, redis, call, touched, recordUpset>>

IncidentNext ==
  \/ \E c \in Creations : EscalateIncident(c) \/ \E s \in Seconds : CreateIncident(c, s)
  \/ \E o \in IncidentCalls, ok \in BOOLEAN : Stored(o, ok)
  \/ \E o \in Changes :
       \/ \E s \in Seconds, status \in IncidentStatus : UpdateIncidentStatus(o, s, status)
       \/ \E s \in Seconds, wipes \in BOOLEAN : ExecuteRunbookStep(o, s, wipes)
       \/ WipeKeys(o) \/ StepCompleted(o)

(* Once no store of it is under way, the stored hash tells the incident as it is in
   memory, unless stores of this id overlapped, failed, were wiped out by a clear_cache
   step, or two incidents shared the second that is their id; and an incident that
   nobody has touched when its timer ends has been escalated, unless it lost its id. *)
RecordTells ==
  /\ \A s \in Seconds \ recordUpset :
       active[s] # NoIncident /\ StoresOf(s) = {} => redis[s] = incident[active[s]]
  /\ \A c \in Creations \ touched :
       timer[c] = "over" => c \in told \/ active[incident[c].id] # c

-----------------------------------------------------------------------------
(* SLOManager and ErrorBudget *)
CONSTANTS
  Target, PolicyPercent,      \* target_value and error_budget_policy, in per cent
  Budgeted, WindowKept,      \* measurement_window, and the length of metrics_window
  Hour,                \* the hour of get_burn_rate
  MaxMetrics           \* bound: calls of record_metric

ASSUME ObjectiveAssumptions ==
  /\ Target \in 1 .. 99 /\ PolicyPercent \in 1 .. 99
  /\ {Budgeted, WindowKept, Hour} \subseteq Nat \ {0} /\ MaxMetrics \in Nat

VARIABLES
  metrics,      \* metrics_window: time and success
  budget,       \* error_budget, kept as the counts it was computed from
  raised,       \* what the last record_metric alerted
  sloType,      \* target_type
  past,         \* history: every metric recorded
  sloClock

sloVars == <<metrics, budget, raised, sloType, past, sloClock>>

SloInit ==
  /\ metrics = <<>> /\ budget = [good |-> 1, all |-> 1] /\ raised = "none"
  /\ sloType \in {"availability", "error_rate"}
  /\ past = <<>> /\ sloClock = 0

CountsOf(ms) ==
  [good |-> Len(SelectSeq(ms, LAMBDA m : m.ok)), all |-> Len(ms)]
SinceTick(ms, t) == SelectSeq(ms, LAMBDA m : m.at >= t)

(* burn_rate and error_budget_used are this fraction of the objective.  Both are used
   as top over bottom, so that no rounding is modelled. *)
Burned(n) ==
  LET miss == IF sloType = "error_rate" THEN 100 * (n.all - n.good) - Target * n.all
              ELSE Target * n.all - 100 * n.good
  IN  [top |-> IF miss > 0 THEN miss ELSE 0,
       bottom |-> (IF sloType = "error_rate" THEN 100 - Target ELSE Target) * n.all]

\* Seeded fault: the burn rate is taken over everything that is kept.
BurnRate_All(ms) ==
  IF Len(ms) < 2 THEN [top |-> 0, bottom |-> 1] ELSE Burned(CountsOf(ms))

(* get_burn_rate *)
BurnRate(ms) ==
  LET recent == SinceTick(ms, sloClock - Hour)
  IN  IF Len(ms) < 2 \/ recent = <<>> THEN [top |-> 0, bottom |-> 1]
      ELSE Burned(CountsOf(recent))

Exceeds(rate, halves) == 200 * rate.top > halves * PolicyPercent * rate.bottom

(* alert_level of get_status *)
AlertLevel(rate) ==
  CASE Exceeds(rate, 4) -> "critical"
    [] ~Exceeds(rate, 4) /\ Exceeds(rate, 3) -> "high"
    [] ~Exceeds(rate, 3) /\ Exceeds(rate, 2) -> "medium"
    [] ~Exceeds(rate, 2) /\ Exceeds(rate, 1) -> "low"
    [] OTHER -> "none"

(* is_healthy of get_status; the budget is the one of the last record_metric *)
Healthy ==
  /\ ~Exceeds(BurnRate(metrics), 2)
  /\ LET used == Burned(budget) IN 100 * used.top < 90 * used.bottom

(* record_metric: add_metric, then _check_alerts *)
RecordMetric(ok) ==
  LET m == [at |-> sloClock, ok |-> ok]
      all == Append(metrics, m)
      new == IF Len(all) > WindowKept THEN Tail(all) ELSE all
  IN  /\ Len(past) < MaxMetrics
      /\ metrics' = new
      /\ budget' = CountsOf(SinceTick(new, sloClock - Budgeted))
      /\ raised' = AlertLevel(BurnRate(new))
      /\ past' = Append(past, m)
      /\ UNCHANGED <<sloType, sloClock>>

(* add_slo of the same name starts a new ErrorBudget *)
AddSlo ==
  /\ metrics' = <<>> /\ budget' = [good |-> 1, all |-> 1] /\ past' = <<>>
  /\ metrics # <<>> /\ raised' = "none"
  /\ UNCHANGED <<sloType, sloClock>>

SloTick ==
  /\ sloClock < Hour + 1
  /\ sloClock' = sloClock + 1 /\ raised' = "none"
  /\ UNCHANGED <<metrics, budget, sloType, past>>

SloNext == AddSlo \/ SloTick \/ \E ok \in BOOLEAN : RecordMetric(ok)

\* the last Kept metrics of the past hour: what there is to judge by
Known == SinceTick(SubSeq(past, IF Len(past) > WindowKept THEN Len(past) - WindowKept + 1 ELSE 1, Len(past)),
                   sloClock - Hour)

(* The objective's alarms follow what happened in the past hour: no alarm and, once the
   budget has been computed from them, good health when nothing failed; a critical
   alarm and bad health when two or more calls were made and all failed.  The budget
   alone may be older than its window: it changes only when a metric is recorded. *)
AlarmsFollowOutages ==
  /\ raised # "none" => \E m \in ToSet(Known) : ~m.ok
  /\ Len(Known) >= 2 /\ (\A m \in ToSet(Known) : ~m.ok) => ~Healthy
  /\ Known # <<>> /\ Last(Known).at = sloClock =>
       /\ (\A m \in ToSet(Known) : m.ok) => Healthy
       /\ Len(Known) >= 2 /\ (\A m \in ToSet(Known) : ~m.ok) => raised = "critical"
-----------------------------------------------------------------------------
(* PerformanceBaselineManager.  Its calls share one AsyncSession: a call keeps it from
   its first statement to its last, one that comes meanwhile raises, and nothing rolls
   back the transaction of a statement that failed. *)
CONSTANTS
  Jobs,                \* numbers the calls of create_baseline, record_metric and calculate_baseline
  MetricValues,        \* values of metrics, positive
  Percent,             \* the percentile of the aggregation_method
  MinSample, Newest,   \* the 10 and 100 of _check_immediate_regression
  SampleSize,          \* sample_size
  Threshold            \* threshold_percentage

ASSUME BaselineAssumptions ==
  /\ Jobs \cup MetricValues \subseteq Nat \ {0} /\ Percent \in 1 .. 99
  /\ {MinSample, Newest, SampleSize, Threshold} \subseteq Nat \ {0}

VARIABLES
  known,        \* the baseline is in the cache and the database
  buffer,       \* metric_buffer
  table,        \* performance_metrics
  calculations, \* baseline_calculations with the baseline_value each was compared with
  job,          \* the calls
  session,      \* the job that uses it, Free or Failed
  alerts        \* performance_alerts

Free == 0
JobFailed == -1
baselineVars == <<known, buffer, table, calculations, job, session, alerts>>

BaselineInit ==
  /\ known = FALSE /\ buffer = <<>> /\ table = <<>> /\ calculations = <<>> /\ alerts = {}
  /\ job = [j \in Jobs |-> [pc |-> "unused"]]
  /\ session = Free

(* _percentile *)
PercentileOf(vs) ==
  LET upTo(v) == Len(SelectSeq(vs, LAMBDA w : w <= v))
      index == Min({(Percent * Len(vs)) \div 100, Len(vs) - 1})
  IN  CHOOSE v \in ToSet(vs) :
        upTo(v) > index /\ \A w \in ToSet(vs) : w < v => upTo(w) <= index

NewestOf(s, n) == SubSeq(s, IF Len(s) > n THEN Len(s) - n + 1 ELSE 1, Len(s))
Regressed(value, base) ==
  base > 0 /\ 100 * (IF value > base THEN value - base ELSE base - value) > Threshold * base

\* _get_stored_baseline_value
StoredValue == IF calculations = <<>> THEN 0 ELSE Last(calculations).value

(* the first statement of a call; the session may be taken, or may have failed *)
FreshIncident(j) == job[j].pc = "unused" /\ \A i \in Jobs : i < j => job[i].pc # "unused"
Begin(j, next) ==
  /\ FreshIncident(j)
  /\ \/ session = Free /\ session' = j /\ job' = [job EXCEPT ![j] = next]
     \/ session # Free /\ job' = [job EXCEPT ![j] = [pc |-> "raised"]] /\ UNCHANGED session

JobGoesOn(j, next) == session = j /\ job' = [job EXCEPT ![j] = next] /\ UNCHANGED session
End(j, pc) == session = j /\ job' = [job EXCEPT ![j] = [pc |-> pc]] /\ session' = Free

CreateBaseline(j) ==
  Begin(j, [pc |-> "create"]) /\ UNCHANGED <<known, buffer, table, calculations, alerts>>
BaselineCreated(j) ==
  /\ job[j].pc = "create" /\ End(j, "over") /\ known' = TRUE
  /\ UNCHANGED <<buffer, table, calculations, alerts>>

(* record_metric: the buffer first, then the database *)
RecordPerformance(j, v) ==
  /\ Begin(j, [pc |-> "insert", value |-> v])
  /\ buffer' = Append(buffer, v)
  /\ UNCHANGED <<known, table, calculations, alerts>>

(* ... _check_immediate_regression: the current value is computed before it waits *)
MetricInserted(j) ==
  /\ job[j].pc = "insert"
  /\ table' = Append(table, job[j].value)
  /\ LET recent == NewestOf(buffer, Newest)
     IN  IF known /\ Len(recent) >= MinSample
         THEN JobGoesOn(j, [pc |-> "check", value |-> PercentileOf(recent)])
         ELSE End(j, "over")
  /\ UNCHANGED <<known, buffer, calculations, alerts>>

RegressionChecked(j) ==
  /\ job[j].pc = "check"
  /\ IF Regressed(job[j].value, StoredValue)
     THEN JobGoesOn(j, [pc |-> "alert", value |-> job[j].value, base |-> StoredValue])
     ELSE End(j, "over")
  /\ UNCHANGED <<known, buffer, table, calculations, alerts>>

AlertStored(j) ==
  /\ job[j].pc = "alert" /\ End(j, "over")
  /\ alerts' = alerts \cup {[value |-> job[j].value, base |-> job[j].base]}
  /\ UNCHANGED <<known, buffer, table, calculations>>

(* calculate_baseline: ValueError when the baseline or its metrics are missing *)
CalculateBaseline(j) ==
  /\ IF known THEN Begin(j, [pc |-> "window"])
     ELSE /\ FreshIncident(j) /\ job' = [job EXCEPT ![j] = [pc |-> "raised"]]
          /\ UNCHANGED session
  /\ UNCHANGED <<known, buffer, table, calculations, alerts>>

WindowRead(j) ==
  /\ job[j].pc = "window"
  /\ IF table = <<>> THEN End(j, "raised")
     ELSE JobGoesOn(j, [pc |-> "previous", value |-> PercentileOf(NewestOf(table, SampleSize))])
  /\ UNCHANGED <<known, buffer, table, calculations, alerts>>

\* Seeded fault: the previous value is looked up after the new one has been stored.
Compared_Late(j) == job[j].value

\* stored_baseline_value
Compared(j) == StoredValue

ValueCompared(j) ==
  /\ job[j].pc = "previous"
  /\ JobGoesOn(j, [pc |-> "save", value |-> job[j].value, base |-> Compared(j)])
  /\ UNCHANGED <<known, buffer, table, calculations, alerts>>

ValueStored(j) ==
  /\ job[j].pc = "save" /\ End(j, "over")
  /\ calculations' = Append(calculations, [value |-> job[j].value, base |-> job[j].base])
  /\ UNCHANGED <<known, buffer, table, alerts>>

(* any statement fails: the call raises, and so does every later statement *)
StatementFails(j) ==
  /\ session = j /\ session' = JobFailed
  /\ job' = [job EXCEPT ![j] = [pc |-> "raised"]]
  /\ UNCHANGED <<known, buffer, table, calculations, alerts>>

BaselineNext ==
  \E j \in Jobs :
    \/ CreateBaseline(j) \/ BaselineCreated(j) \/ CalculateBaseline(j) \/ WindowRead(j)
    \/ ValueCompared(j) \/ ValueStored(j) \/ RegressionChecked(j) \/ AlertStored(j)
    \/ StatementFails(j) \/ MetricInserted(j)
    \/ \E v \in MetricValues : RecordPerformance(j, v)

(* Every calculation was compared with the one stored before it, whatever else used the
   session, so that a slow drift never counts as a regression; an alert names such a
   stored value and differs from it by more than the threshold; and what the database
   holds has been in the buffer. *)
CalculationsChain ==
  /\ \A k \in DOMAIN calculations :
       calculations[k].base = IF k = 1 THEN 0 ELSE calculations[k - 1].value
  /\ \A a \in alerts :
       /\ \E k \in DOMAIN calculations : calculations[k].value = a.base
       /\ Regressed(a.value, a.base)
  /\ Len(table) <= Len(buffer)
=============================================================================
