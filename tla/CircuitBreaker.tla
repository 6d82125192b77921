---------------------------- MODULE CircuitBreaker ----------------------------
(***************************************************************************)
(* CircuitBreaker of libs/reliability/base_adapter.py, with the callers    *)
(* that are inside func() when its state changes under them.               *)
(*                                                                         *)
(* call() runs without suspending up to func() and again after it, so a    *)
(* call is two actions: Begin (admission) and one of the three ways func   *)
(* can end.  failure_count is compared with failure_threshold only, so it  *)
(* saturates there; the elapsed time since last_failure_time is the flag   *)
(* cooled.                                                                 *)
(***************************************************************************)
EXTENDS Integers, FiniteSets

CONSTANTS
  Callers,
  FailureThreshold, SuccessThreshold, HalfOpenMax    \* CircuitBreakerConfig

ASSUME BreakerAssumptions ==
  /\ FailureThreshold \in Nat \ {0}
  /\ SuccessThreshold \in Nat \ {0}
  /\ HalfOpenMax \in Nat \ {0}

VARIABLES
  state,          \* CLOSED, OPEN or HALF_OPEN
  failureCount,
  successCount,
  halfOpenCalls,
  cooled,         \* timeout_ms has passed since last_failure_time
  inCall,         \* callers suspended inside func()
  probes          \* history: those admitted in the current half-open period

breaker == <<state, failureCount, successCount, halfOpenCalls, cooled>>
circuitVars == <<breaker, inCall, probes>>

CircuitTypeOK ==
  /\ state \in {"CLOSED", "OPEN", "HALF_OPEN"}
  /\ failureCount \in 0..FailureThreshold
  /\ successCount \in 0..(SuccessThreshold - 1)
  /\ halfOpenCalls \in 0..HalfOpenMax
  /\ cooled \in BOOLEAN
  /\ inCall \subseteq Callers
  /\ probes \subseteq inCall

BreakerInit ==
  /\ state = "CLOSED"
  /\ failureCount = 0
  /\ successCount = 0
  /\ halfOpenCalls = 0
  /\ cooled = FALSE

CircuitInit == BreakerInit /\ inCall = {} /\ probes = {}

\* Seeded fault: an open circuit is never tried again.
Admits_NoReset ==
  \/ state = "CLOSED"
  \/ state = "HALF_OPEN" /\ halfOpenCalls < HalfOpenMax

(* The checks of call() before func() is awaited pass. *)
Admits ==
  \/ state = "CLOSED"
  \/ state = "OPEN" /\ cooled     \* _should_attempt_reset
  \/ state = "HALF_OPEN" /\ halfOpenCalls < HalfOpenMax

\* Seeded fault: every probe gives the half-open period a fresh count.
Admit_RestartsCount ==
  /\ Admits
  /\ state' = IF state = "OPEN" THEN "HALF_OPEN" ELSE state
  /\ halfOpenCalls' = IF state = "CLOSED" THEN halfOpenCalls ELSE 1
  /\ UNCHANGED <<failureCount, successCount, cooled>>

(* ... and what they change: an open circuit becomes half-open, and a call in
   the half-open state takes one of its slots. *)
Admit ==
  /\ Admits
  /\ state' = IF state = "OPEN" THEN "HALF_OPEN" ELSE state
  /\ halfOpenCalls' = CASE state = "OPEN"      -> 1
                        [] state = "HALF_OPEN" -> halfOpenCalls + 1
                        [] state = "CLOSED"    -> halfOpenCalls
  /\ UNCHANGED <<failureCount, successCount, cooled>>

\* Seeded fault: a success closes the circuit in whatever state it is.
OnSuccess_AnyState ==
  /\ failureCount' = 0
  /\ IF successCount + 1 >= SuccessThreshold
     THEN state' = "CLOSED" /\ successCount' = 0
     ELSE successCount' = successCount + 1 /\ UNCHANGED state
  /\ UNCHANGED <<halfOpenCalls, cooled>>

(* _on_success, in whatever state the breaker is by then. *)
OnSuccess ==
  /\ failureCount' = 0
  /\ IF state = "HALF_OPEN"
     THEN IF successCount + 1 >= SuccessThreshold
          THEN state' = "CLOSED" /\ successCount' = 0
          ELSE successCount' = successCount + 1 /\ UNCHANGED state
     ELSE UNCHANGED <<state, successCount>>
  /\ UNCHANGED <<halfOpenCalls, cooled>>

(* _on_failure, in whatever state the breaker is by then. *)
OnFailure ==
  /\ failureCount' = IF failureCount < FailureThreshold THEN failureCount + 1 ELSE failureCount
  /\ state' = IF state = "HALF_OPEN" \/ failureCount + 1 >= FailureThreshold
              THEN "OPEN" ELSE state
  /\ cooled' = FALSE
  /\ UNCHANGED <<successCount, halfOpenCalls>>

-----------------------------------------------------------------------------
\* The probes that remain when the state becomes next.
Leave(c) == probes' = IF state' = "HALF_OPEN" THEN probes \ {c} ELSE {}

(* A rejected call raises and changes nothing: it is not an action. *)
Begin(c) ==
  /\ c \notin inCall
  /\ Admit
  /\ inCall' = inCall \cup {c}
  /\ probes' = CASE state = "OPEN"      -> {c}
                 [] state = "HALF_OPEN" -> probes \cup {c}
                 [] state = "CLOSED"    -> {}

Succeed(c) == c \in inCall /\ OnSuccess /\ inCall' = inCall \ {c} /\ Leave(c)

Fail(c) == c \in inCall /\ OnFailure /\ inCall' = inCall \ {c} /\ Leave(c)

(* CancelledError is not an Exception: neither _on_success nor _on_failure
   runs, and the half-open slot is not given back. *)
Cancel(c) ==
  /\ c \in inCall
  /\ inCall' = inCall \ {c}
  /\ probes' = probes \ {c}
  /\ UNCHANGED breaker

CoolDown ==
  /\ state = "OPEN" /\ ~cooled
  /\ cooled' = TRUE
  /\ UNCHANGED <<state, failureCount, successCount, halfOpenCalls, inCall, probes>>

End(c) == Succeed(c) \/ Fail(c) \/ Cancel(c)

CircuitNext == CoolDown \/ \E c \in Callers : Begin(c) \/ End(c)

\* Time passes, every call ends, and there is always some further traffic.
CircuitFairness ==
  /\ WF_circuitVars(CoolDown)
  /\ \A c \in Callers : WF_circuitVars(Begin(c)) /\ WF_circuitVars(End(c))

Safe == CircuitInit /\ [][CircuitNext]_circuitVars
CircuitSpec == Safe /\ CircuitFairness

-----------------------------------------------------------------------------
(* Properties. *)

(* A closed circuit has seen fewer failures since the last success than the
   threshold, although calls begun in earlier states report late. *)
ClosedBelowThreshold == state = "CLOSED" => failureCount < FailureThreshold

(* In one half-open period at most half_open_max_calls calls are let through,
   so never more of them are under way. *)
ProbesWithinLimit ==
  state = "HALF_OPEN" =>
    Cardinality(probes) <= halfOpenCalls /\ halfOpenCalls <= HalfOpenMax

(* However late calls report, counts stay within their thresholds. *)
ThresholdsHold == CircuitTypeOK /\ ClosedBelowThreshold /\ ProbesWithinLimit

(* A result that arrives late never closes an open circuit, and a closed one
   opens before it is probed: the states follow one another in one order. *)
StatesInOrder ==
  [][/\ state = "OPEN" => state' # "CLOSED"
     /\ state = "CLOSED" => state' # "HALF_OPEN"]_circuitVars

(* With traffic an open circuit is probed in the end, although failures of
   calls that were already under way start its time-out anew. *)
OpenIsProbed == state = "OPEN" ~> state = "HALF_OPEN"
=============================================================================
