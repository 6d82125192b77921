-------------------------- MODULE ResilienceAdapters --------------------------
(* libs/adapters: the adapter with all protections, and the breaker of its own. *)
EXTENDS Integers, FiniteSets

-----------------------------------------------------------------------------
(***************************************************************************)
(* libs/adapters/resilient_adapter.py: calls of execute on one adapter.    *)
(* The circuit is tested before the wait for the bulkhead, which takes up  *)
(* to a second; it has no limit on the calls let through half-open.        *)
(***************************************************************************)

CONSTANTS
  RaCalls, RaSlots,        \* calls; bulkhead_size
  RaRetries, RaThreshold,  \* max_retries, failure_threshold
  MaxResets                \* bound on the calls of reset_stats

ASSUME ResilientAssumptions ==
  /\ RaSlots \in Nat \ {0} /\ RaRetries \in Nat
  /\ RaThreshold \in Nat \ {0} /\ MaxResets \in Nat

VARIABLES
  raStage,    \* of each call: idle, waiting, trying, ended
  raTries,    \* attempts of the call that have failed
  raCircuit,  \* state, failure_count, and due: next_attempt_time has come
  raStats,    \* the counters of stats, and the sum of the ones a call ends with
  raResets,
  carried,    \* history: calls in execute at the last reset_stats
  draining    \* history: calls past the test when the circuit last opened

raVars == <<raStage, raTries, raCircuit, raStats, raResets, carried, draining>>

NoStats == [total |-> 0, successful |-> 0, failed |-> 0, open |-> 0, rejected |-> 0]
InExecute == {c \in RaCalls : raStage[c] \in {"waiting", "trying"}}
Holding == {c \in RaCalls : raStage[c] = "trying"}

RaInit ==
  /\ raStage = [c \in RaCalls |-> "idle"]
  /\ raTries = [c \in RaCalls |-> 0]
  /\ raCircuit = [state |-> "closed", fails |-> 0, due |-> FALSE]
  /\ raStats = NoStats
  /\ raResets = 0
  /\ carried = {} /\ draining = {}

\* Seeded fault: a circuit that is OPEN lets calls through.
LetsThrough_Always == TRUE

\* _is_circuit_breaker_closed, without its change of the state
LetsThrough == raCircuit.state # "open" \/ raCircuit.due

(* execute up to the bulkhead *)
RaExecute(c) ==
  /\ raStage[c] = "idle"
  /\ IF LetsThrough
     THEN /\ raStage' = [raStage EXCEPT ![c] = "waiting"]
          /\ raStats' = [raStats EXCEPT !.total = @ + 1]
          /\ raCircuit' = IF raCircuit.state = "open" /\ raCircuit.due
                          THEN [raCircuit EXCEPT !.state = "half_open"] ELSE raCircuit
     ELSE /\ raStage' = [raStage EXCEPT ![c] = "ended"]
          /\ raStats' = [raStats EXCEPT !.total = @ + 1, !.open = @ + 1]
          /\ UNCHANGED raCircuit
  /\ UNCHANGED <<raTries, raResets, carried, draining>>

RaAcquire(c) ==
  /\ raStage[c] = "waiting" /\ Cardinality(Holding) < RaSlots
  /\ raStage' = [raStage EXCEPT ![c] = "trying"]
  /\ UNCHANGED <<raTries, raCircuit, raStats, raResets, carried, draining>>

RaReject(c) ==   \* the wait times out
  /\ raStage[c] = "waiting" /\ Cardinality(Holding) >= RaSlots
  /\ raStage' = [raStage EXCEPT ![c] = "ended"]
  /\ raStats' = [raStats EXCEPT !.rejected = @ + 1]
  /\ UNCHANGED <<raTries, raCircuit, raResets, carried, draining>>

\* _record_success
AfterRaSuccess ==
  IF raCircuit.state = "half_open" THEN [raCircuit EXCEPT !.state = "closed", !.fails = 0]
  ELSE IF raCircuit.state = "closed" /\ raCircuit.fails > 0
  THEN [raCircuit EXCEPT !.fails = @ - 1]
  ELSE raCircuit

\* _record_failure
AfterRaFailure ==
  LET opens == \/ raCircuit.state = "half_open"
               \/ raCircuit.state = "closed" /\ raCircuit.fails + 1 >= RaThreshold
  IN  IF opens THEN [state |-> "open", fails |-> raCircuit.fails + 1, due |-> FALSE]
      ELSE [raCircuit EXCEPT !.fails = @ + 1]

(* An attempt succeeds: the call ends and its slot is released. *)
RaSucceeds(c) ==
  /\ raStage[c] = "trying"
  /\ raStage' = [raStage EXCEPT ![c] = "ended"]
  /\ raCircuit' = AfterRaSuccess
  /\ raStats' = [raStats EXCEPT !.successful = @ + 1]
  /\ UNCHANGED <<raTries, raResets, carried, draining>>

(* An attempt fails or times out; after max_retries more the call fails. *)
RaAttemptFails(c) ==
  /\ raStage[c] = "trying"
  /\ raTries' = [raTries EXCEPT ![c] = @ + 1]
  /\ IF raTries[c] < RaRetries THEN UNCHANGED <<raStage, raCircuit, raStats, draining>>
     ELSE /\ raStage' = [raStage EXCEPT ![c] = "ended"]
          /\ raCircuit' = AfterRaFailure
          /\ raStats' = [raStats EXCEPT !.failed = @ + 1]
          /\ draining' = IF raCircuit'.state = "open" /\ raCircuit.state # "open"
                         THEN InExecute \ {c} ELSE draining
  /\ UNCHANGED <<raResets, carried>>

NextAttemptDue ==
  /\ raCircuit.state = "open" /\ ~raCircuit.due
  /\ raCircuit' = [raCircuit EXCEPT !.due = TRUE]
  /\ UNCHANGED <<raStage, raTries, raStats, raResets, carried, draining>>

(* reset_stats; next_attempt_time keeps its value, and is not read while closed *)
ResetStats ==
  /\ raResets < MaxResets
  /\ raResets' = raResets + 1
  /\ raStats' = NoStats
  /\ raCircuit' = [raCircuit EXCEPT !.state = "closed", !.fails = 0]
  /\ carried' = InExecute
  /\ UNCHANGED <<raStage, raTries, draining>>

RaNext ==
  \/ \E c \in RaCalls :
       \/ RaExecute(c) \/ RaAcquire(c) \/ RaReject(c)
       \/ RaSucceeds(c) \/ RaAttemptFails(c)
  \/ NextAttemptDue \/ ResetStats

RaSpec == RaInit /\ [][RaNext]_raVars

-----------------------------------------------------------------------------
(* While the circuit is OPEN the only calls in execute are those that had passed
   the test before it opened (some of them still have to get a slot); a closed
   circuit has seen fewer failures than opened it; and every call since the last
   reset_stats, and every one in execute then, ends in exactly one counter. *)
OpenCircuitDrains ==
  /\ raCircuit.state = "open" => InExecute \subseteq draining
  /\ raCircuit.state = "closed" => raCircuit.fails < RaThreshold
  /\ raStats.total + Cardinality(carried) =
       raStats.successful + raStats.failed + raStats.open + raStats.rejected
       + Cardinality(InExecute)

-----------------------------------------------------------------------------
(***************************************************************************)
(* libs/adapters/circuit_breaker.py: calls through one CircuitBreaker.     *)
(* There is no lock and no limit on half-open calls, and a success closes  *)
(* the circuit from every state, whenever its call began.                  *)
(***************************************************************************)

CONSTANTS
  AbCalls, AbThreshold,
  MaxAbResets          \* bound on the calls of reset

ASSUME AdapterBreakerAssumptions == AbThreshold \in Nat \ {0} /\ MaxAbResets \in Nat

VARIABLES
  abCall,    \* of each call: idle, running, refused, succeeded, failed
  abState, abFailures,
  abTimer,   \* last_failure_time: none, recent, or old (recovery_timeout has passed)
  abOpened,  \* circuit_opened_count
  abResets,
  abClosings \* history: times an open or half-open circuit was closed

abVars == <<abCall, abState, abFailures, abTimer, abOpened, abResets, abClosings>>

AbInit ==
  /\ abCall = [c \in AbCalls |-> "idle"]
  /\ abState = "closed" /\ abFailures = 0 /\ abTimer = "none"
  /\ abOpened = 0 /\ abResets = 0 /\ abClosings = 0

(* call, up to the function: refused, or let through *)
BeginCall(c) ==
  /\ abCall[c] = "idle"
  /\ IF abState = "open" /\ abTimer = "recent"
     THEN abCall' = [abCall EXCEPT ![c] = "refused"] /\ UNCHANGED abState
     ELSE /\ abCall' = [abCall EXCEPT ![c] = "running"]
          /\ abState' = IF abState = "open" THEN "half_open" ELSE abState
  /\ UNCHANGED <<abFailures, abTimer, abOpened, abResets, abClosings>>

\* what _on_success and reset both do
CloseCircuit ==
  /\ abState' = "closed" /\ abFailures' = 0 /\ abTimer' = "none"
  /\ abClosings' = IF abState = "closed" THEN abClosings ELSE abClosings + 1

OnSuccess(c) ==
  /\ abCall[c] = "running"
  /\ abCall' = [abCall EXCEPT ![c] = "succeeded"]
  /\ CloseCircuit
  /\ UNCHANGED <<abOpened, abResets>>

\* Seeded fault: the circuit opens one failure late.
Opens_Late(failures) == failures > AbThreshold /\ abState # "open"

\* the condition of _on_failure
Opens(failures) == failures >= AbThreshold /\ abState # "open"

OnFailure(c) ==
  /\ abCall[c] = "running"
  /\ abCall' = [abCall EXCEPT ![c] = "failed"]
  /\ abFailures' = abFailures + 1 /\ abTimer' = "recent"
  /\ IF Opens(abFailures') THEN abState' = "open" /\ abOpened' = abOpened + 1
     ELSE UNCHANGED <<abState, abOpened>>
  /\ UNCHANGED <<abResets, abClosings>>

TimeoutPasses ==
  /\ abTimer = "recent"
  /\ abTimer' = "old"
  /\ UNCHANGED <<abCall, abState, abFailures, abOpened, abResets, abClosings>>

ResetBreaker ==
  /\ abResets < MaxAbResets
  /\ abResets' = abResets + 1
  /\ CloseCircuit
  /\ UNCHANGED <<abCall, abOpened>>

AbNext ==
  \/ \E c \in AbCalls : BeginCall(c) \/ OnSuccess(c) \/ OnFailure(c)
  \/ TimeoutPasses \/ ResetBreaker

AbSpec == AbInit /\ [][AbNext]_abVars

-----------------------------------------------------------------------------
(* In whatever order calls end, the circuit is closed exactly while the failures
   since the last success are below the threshold, so a half-open circuit reopens
   at its first failure; last_failure_time is set exactly while there are some;
   these are failures of different calls; and circuit_opened_count has counted an
   opening for every time the circuit was closed again, and one more while it is
   not closed. *)
StateFollowsFailures ==
  /\ (abState = "closed") <=> (abFailures < AbThreshold)
  /\ (abTimer = "none") <=> (abFailures = 0)
  /\ Cardinality({c \in AbCalls : abCall[c] = "failed"}) >= abFailures
  /\ abOpened >= abClosings + (IF abState = "closed" THEN 0 ELSE 1)

=============================================================================
