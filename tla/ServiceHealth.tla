----------------------------- MODULE ServiceHealth -----------------------------
(***************************************************************************)
(* How services are watched and sized, four machines of their own: the     *)
(* checkers of libs/adapters/health_checker.py; the probes of the          *)
(* manifests' enhanced-health-checker.py; a scaler of keda_scalers.py; and *)
(* the orchestrator's capacity configurations, capacity_config.py.         *)
(***************************************************************************)
EXTENDS Integers, Sequences, SequencesExt, FiniteSets, FiniteSetsExt

CONSTANTS
  Callers,            \* periodic loops and check_now calls that may be under way
  FailureThreshold, SuccessThreshold,
  MaxResults,         \* bound: check results of a checker
  Probes, Critical,   \* the configured probes, and which of them are critical
  Retries,            \* a probe's retries
  Cooldown,           \* a scaler's cooldown_period
  ScalerStart,        \* its first min_replicas
  MaxTime,            \* bound: seconds the scaler is looked at
  MaxUpdates          \* bound: calls of update_config and save_config

ASSUME HealthAssumptions ==
  /\ FailureThreshold \in Nat \ {0} /\ SuccessThreshold \in Nat \ {0} /\ MaxResults \in Nat
  /\ Critical \subseteq Probes /\ Retries \in Nat
  /\ Cooldown \in Nat /\ ScalerStart \in Nat /\ MaxTime \in Nat /\ MaxUpdates \in Nat

VARIABLES
  checker,    \* status, consecutive_failures and consecutive_successes
  checking,   \* callers that wait for the check function's answer
  loops,      \* periodic loops that run, and the one _task refers to
  checked     \* history: the results of the check function, in order

checkerVars == <<checker, checking, loops, checked>>

NoTask == "no task"
CheckerInit ==
  /\ checker = [status |-> "unknown", failures |-> 0, successes |-> 0]
  /\ checking = {} /\ loops = [live |-> {}, task |-> NoTask] /\ checked = <<>>

\* start: a second start leaves the first loop running and forgets its task
StartChecker(l) ==
  /\ l \notin loops.live \cup checking
  /\ loops' = [live |-> loops.live \cup {l}, task |-> l]
  /\ UNCHANGED <<checker, checking, checked>>

\* stop: the task is cancelled, and its check with it
StopChecker ==
  /\ loops.task \in loops.live
  /\ loops' = [loops EXCEPT !.live = @ \ {loops.task}]
  /\ checking' = checking \ {loops.task}
  /\ UNCHANGED <<checker, checked>>

\* _perform_check and check_now up to the check function
BeginCheck(l) ==
  /\ l \notin checking /\ checking' = checking \cup {l}
  /\ UNCHANGED <<checker, loops, checked>>

OnSuccess(k) ==
  LET n == k.successes + 1
  IN  [status    |-> IF \/ k.status = "unhealthy" /\ n >= SuccessThreshold
                        \/ k.status = "unknown"
                       THEN "healthy" ELSE k.status,
       failures  |-> 0, successes |-> n]

\* Seeded fault: a failure does not reset the successes.
OnFailure_KeepsSuccesses(k) ==
  LET n == k.failures + 1
  IN  [k EXCEPT !.status = IF n >= FailureThreshold THEN "unhealthy"
                           ELSE IF k.status = "unknown" THEN "degraded" ELSE k.status,
                !.failures = n]

OnFailure(k) ==
  LET n == k.failures + 1
  IN  [status    |-> IF n >= FailureThreshold THEN "unhealthy"
                     ELSE IF k.status = "unknown" THEN "degraded" ELSE k.status,
       failures  |-> n, successes |-> 0]

\* the answer, an exception or the timeout; the lock makes the update one step
EndCheck(l, ok) ==
  /\ l \in checking /\ Len(checked) < MaxResults
  /\ checking' = checking \ {l}
  /\ checker' = IF ok THEN OnSuccess(checker) ELSE OnFailure(checker)
  /\ checked' = Append(checked, ok)
  /\ UNCHANGED loops

\* get_overall_status of HealthCheckManager, for the statuses of its checkers
ManagerStatus(ss) ==
  IF ss = {} THEN "unknown"
  ELSE IF ss = {"healthy"} THEN "healthy"
  ELSE IF "unhealthy" \in ss THEN "unhealthy"
  ELSE IF "degraded" \in ss THEN "degraded" ELSE "unknown"

CheckerNext ==
  \/ \E l \in Callers : StartChecker(l) \/ BeginCheck(l)
  \/ StopChecker
  \/ \E l \in Callers, ok \in BOOLEAN : EndCheck(l, ok)

-----------------------------------------------------------------------------
VARIABLES
  probing,    \* what each probe has had for answers
  reported    \* self.results, or NoReport

probeVars == <<probing, reported>>

NoReport == [p \in Probes |-> "none"]
(* An answer: a wrong status code, a timeout or an error, a body that is not JSON, a body
   without an expected key or with another value, or the right one, fast or slow. *)
AnswerKinds == {"status", "timeout", "error", "json", "content", "slow", "fast"}
ProbeInit == probing = [p \in Probes |-> <<>>] /\ reported = NoReport

(* The result after these answers, "none" to try again.  The continue after a wrong
   content is one of the loop over the expected keys: the attempt goes on to its end.
   The response time counts from the first attempt, so one that timed out makes any
   later answer a slow one. *)
ProbeResult(s) ==
  LET a == Last(s)
      passed == IF a = "slow" \/ Contains(s, "timeout") THEN "degraded" ELSE "healthy"
  IN  CASE a \in {"fast", "slow"} -> passed
        [] a = "content" -> IF Len(s) <= Retries THEN passed ELSE "unhealthy"
        [] OTHER -> IF Len(s) <= Retries THEN "none" ELSE "unhealthy"

Ended(s) == s # <<>> /\ ProbeResult(s) # "none"

\* one attempt of check_service_health, of all the probes that run concurrently
Attempt(p, a) ==
  /\ reported = NoReport /\ ~Ended(probing[p])
  /\ probing' = [probing EXCEPT ![p] = Append(@, a)]
  /\ UNCHANGED reported

\* asyncio.gather: the results once every probe has one
Gather ==
  /\ reported = NoReport /\ \A p \in Probes : Ended(probing[p])
  /\ reported' = [p \in Probes |-> ProbeResult(probing[p])]
  /\ UNCHANGED probing

\* Seeded fault: whatever is not critical is not looked at.
ProbeStatus_CriticalOnly(r) ==
  LET ss == {r[p] : p \in Critical}
  IN  IF "unhealthy" \in ss THEN "unhealthy" ELSE IF "degraded" \in ss THEN "degraded" ELSE "healthy"

\* get_overall_status: an unhealthy probe that is not critical makes it unknown
ProbeStatus(r) ==
  IF \E p \in Critical : r[p] = "unhealthy" THEN "unhealthy"
  ELSE IF \E p \in Probes : r[p] = "degraded" THEN "degraded"
  ELSE IF \A p \in Probes : r[p] = "healthy" THEN "healthy" ELSE "unknown"
ExitCode(s) == CASE s = "healthy" -> 0 [] s = "degraded" -> 1 [] OTHER -> 2

ProbeNext == (\E p \in Probes, a \in AnswerKinds : Attempt(p, a)) \/ Gather

-----------------------------------------------------------------------------
VARIABLES
  scaler,       \* min_replicas, max_replicas and metrics.replicas
  lastScaled,   \* metrics.last_scaled
  scalerTime,   \* the clock
  decisions     \* history: the last two decisions that were not "none", with their times

scalerVars == <<scaler, lastScaled, scalerTime, decisions>>

\* the clock is long past last_scaled = 0
ScalerInit ==
  /\ scaler = [min |-> ScalerStart, max |-> ScalerStart + 2, replicas |-> ScalerStart]
  /\ lastScaled = 0 /\ scalerTime = Cooldown /\ decisions = <<>>

\* Seeded fault: the limit is compared with <=.
Decision_PastMax(load) ==
  IF scalerTime - lastScaled < Cooldown THEN "cooldown"
  ELSE IF load = "high" THEN (IF scaler.replicas <= scaler.max THEN "scale_up" ELSE "max_replicas_reached")
  ELSE IF load = "low" THEN (IF scaler.replicas > scaler.min THEN "scale_down" ELSE "min_replicas_reached")
  ELSE "none"

\* _determine_scale_decision; a metric that cannot be read is 0, which is a low load
Decision(load) ==
  IF scalerTime - lastScaled < Cooldown THEN "cooldown"
  ELSE IF load = "high" THEN (IF scaler.replicas < scaler.max THEN "scale_up" ELSE "max_replicas_reached")
  ELSE IF load = "low" THEN (IF scaler.replicas > scaler.min THEN "scale_down" ELSE "min_replicas_reached")
  ELSE "none"

(* get_scale_decision, by get_all_scale_decisions, get_autoscaling_summary or
   get_scaler_metrics: a decision "cooldown" starts the cooldown again *)
AskScaler(load) ==
  LET d == Decision(load)
  IN  /\ lastScaled' = IF d = "none" THEN lastScaled ELSE scalerTime
      /\ decisions' = IF d = "none" THEN decisions
                      ELSE LET h == Append(decisions, [what |-> d, at |-> scalerTime, seen |-> scaler])
                           IN  SubSeq(h, IF Len(h) > 2 THEN 2 ELSE 1, Len(h))
      /\ UNCHANGED <<scaler, scalerTime>>

\* update_scaler_config: the replicas are not among the attributes of the configuration
UpdateScaler(lo, hi) ==
  /\ scaler' = [scaler EXCEPT !.min = lo, !.max = hi]
  /\ UNCHANGED <<lastScaled, scalerTime, decisions>>

ScalerTick ==
  /\ scalerTime < Cooldown + MaxTime /\ scalerTime' = scalerTime + 1
  /\ UNCHANGED <<scaler, lastScaled, decisions>>

ScalerNext ==
  \/ \E load \in {"high", "normal", "low"} : AskScaler(load)
  \/ \E lo \in 0 .. 1, hi \in 1 .. 2 : UpdateScaler(ScalerStart - lo, ScalerStart + hi - 1)
  \/ ScalerTick

-----------------------------------------------------------------------------
VARIABLES
  capacities,   \* self.configs: the live configuration of each environment
  capacityFile, \* the file capacity_<environment>.json, or NoFile
  updates

capacityVars == <<capacities, capacityFile, updates>>

CapacityEnvironments == {"development", "staging", "production"}
NoFile == [mode |-> "none"]

\* what the properties look at: pool sizes, requests, a timeout and the retry attempts
Configured(lo, hi, requests, timeout, attempts) ==
  [min |-> lo, max |-> hi, requests |-> requests, timeout |-> timeout, attempts |-> attempts,
   mode |-> "normal"]
DevelopmentConfig == Configured(2, 10, 20, 15, 2)
StagingConfig == Configured(5, 50, 100, 30, 3)
ProductionConfig == Configured(10, 100, 500, 60, 5)

CapacityInit ==
  /\ capacities = [e \in CapacityEnvironments |->
                     CASE e = "development" -> DevelopmentConfig
                       [] e = "staging" -> StagingConfig
                       [] OTHER -> ProductionConfig]
  /\ capacityFile = [e \in CapacityEnvironments |-> NoFile] /\ updates = 0

AtLeast(n, k) == Max({n, k})

\* Seeded fault: the smaller maximum is not kept above the smaller minimum.
Degraded_NoFloor(c) ==
  [min |-> AtLeast(1, c.min \div 2), max |-> c.max \div 2,
   requests |-> AtLeast(10, c.requests \div 2), timeout |-> c.timeout * 2,
   attempts |-> AtLeast(1, c.attempts - 1), mode |-> "degraded"]

\* get_degraded_config and get_emergency_config: new objects, derived from the live one
Degraded(c) ==
  [min |-> AtLeast(1, c.min \div 2), max |-> AtLeast(5, c.max \div 2),
   requests |-> AtLeast(10, c.requests \div 2), timeout |-> c.timeout * 2,
   attempts |-> AtLeast(1, c.attempts - 1), mode |-> "degraded"]
Emergency(c) ==
  [min |-> 1, max |-> 5, requests |-> 5, timeout |-> c.timeout * 4, attempts |-> 1,
   mode |-> "emergency"]

Variant(e, mode) ==
  CASE mode = "degraded" -> Degraded(capacities[e])
    [] mode = "emergency" -> Emergency(capacities[e])
    [] OTHER -> capacities[e]

\* update_config: any attribute of the live configuration, one at a time
UpdateCapacity(e, field, value) ==
  /\ updates < MaxUpdates /\ updates' = updates + 1
  /\ capacities' = [capacities EXCEPT ![e][field] = value]
  /\ UNCHANGED capacityFile

\* save_config: the three variants of an environment share its file
SaveCapacity(e, mode) ==
  /\ updates < MaxUpdates /\ updates' = updates + 1
  /\ capacityFile' = [capacityFile EXCEPT ![e] = Variant(e, mode)]
  /\ UNCHANGED capacities

\* load_config hands out the saved values, with their mode, and keeps the live ones
Loaded(e) == capacityFile[e]

CapacityNext ==
  \E e \in CapacityEnvironments :
    \/ \E f \in {"min", "max"}, v \in {1, 4, 8} :
         (f = "min" => v <= capacities[e].max) /\ (f = "max" => v >= capacities[e].min)
         /\ UpdateCapacity(e, f, v)
    \/ \E v \in {4, 12} : UpdateCapacity(e, "requests", v)
    \/ \E mode \in {"normal", "degraded", "emergency"} : SaveCapacity(e, mode)

-----------------------------------------------------------------------------
ThresholdReached ==
  \E j \in FailureThreshold .. Len(checked) :
    \A k \in j - FailureThreshold + 1 .. j : ~checked[k]

(* Whatever loops and calls of check_now overlap, and however often start was called, the
   status is a function of the results in their order: unhealthy exactly between a run
   of FailureThreshold failures and the next run of SuccessThreshold successes, and
   otherwise what the first result made it, for good: a checker whose first check
   failed is degraded through any number of successes, and so is its manager. *)
StatusFollowsResults ==
  LET unhealthy ==
        \E j \in FailureThreshold .. Len(checked) :
          /\ \A k \in j - FailureThreshold + 1 .. j : ~checked[k]
          /\ \A h \in j + SuccessThreshold .. Len(checked) :
               \E k \in h - SuccessThreshold + 1 .. h : ~checked[k]
      status == IF checked = <<>> THEN "unknown"
                ELSE IF unhealthy THEN "unhealthy"
                ELSE IF ThresholdReached \/ checked[1] THEN "healthy" ELSE "degraded"
  IN  ManagerStatus({checker.status}) = status

(* The exit code is 0 exactly when every probe was healthy, a critical one or not; a probe
   is unhealthy only when its every attempt failed, however the attempts of the others
   are interleaved. *)
ProbesAreTold ==
  reported # NoReport =>
    /\ ExitCode(ProbeStatus(reported)) = 0 <=> \A p \in Probes : reported[p] = "healthy"
    /\ \A p \in Probes : reported[p] = "unhealthy" =>
         /\ Len(probing[p]) = Retries + 1
         /\ \A j \in 1 .. Retries + 1 : probing[p][j] \notin {"slow", "fast"}

(* Two decisions that are not "none" are less than the cooldown apart exactly when the
   later one is "cooldown", which starts the cooldown again; and a decision to scale
   respects the limits the scaler had. *)
CooldownHolds ==
  /\ Len(decisions) = 2 =>
       (decisions[2].at - decisions[1].at < Cooldown <=> decisions[2].what = "cooldown")
  /\ \A j \in DOMAIN decisions :
       LET d == decisions[j]
       IN  /\ d.what = "scale_up" => d.seen.replicas + 1 <= d.seen.max
           /\ d.what = "scale_down" => d.seen.replicas - 1 >= d.seen.min

(* For every configuration updates can lead to, the degraded one is a pool and is never
   smaller than the emergency one, and it never waits less or retries more; it is
   smaller than the live one except where a floor of get_degraded_config is reached. *)
DegradingShrinks ==
  \A e \in CapacityEnvironments :
    LET c == capacities[e] d == Degraded(c) m == Emergency(c)
    IN  /\ d.min <= d.max /\ m.max <= d.max /\ m.requests <= d.requests
        /\ c.timeout <= d.timeout /\ d.timeout <= m.timeout
        /\ m.attempts <= d.attempts /\ d.attempts <= c.attempts
        /\ d.max <= c.max \/ d.max = 5
        /\ d.requests <= c.requests \/ d.requests = 10
        /\ Loaded(e) # NoFile => Loaded(e).min <= Loaded(e).max
=============================================================================
