----------------------------- MODULE GuardsProofs -----------------------------
(* Theorems about what stands in front of a call, and about the consumer of events, for any
   constants. *)
EXTENDS MCGuards, EventConsumer, DataInduction, SequenceTheorems, TLAPS

FailedCalls == {c \in AbCalls : abCall[c] = "failed"}

AbTypeOK ==
  /\ abCall \in [AbCalls -> {"idle", "running", "refused", "succeeded", "failed"}]
  /\ abState \in {"closed", "open", "half_open"}
  /\ abTimer \in {"none", "recent", "old"}
  /\ abFailures \in Nat /\ abOpened \in Nat /\ abResets \in Nat /\ abClosings \in Nat

(* What the steps preserve: there are finitely many failed calls, however many calls
   there may be, and no fewer than the count. *)
AbInv ==
  /\ AbTypeOK
  /\ IsFiniteSet(FailedCalls)
  /\ StateFollowsFailures

\* Until the first call the breaker is closed and has counted nothing.
LEMMA AbInvInit == AbInit => AbInv
<1> SUFFICES ASSUME AbInit PROVE AbInv
  OBVIOUS
<1>1. AbTypeOK
  BY DEF AbInit, AbTypeOK
<1>2. FailedCalls = {}
  BY DEF AbInit, FailedCalls
<1>3. IsFiniteSet(FailedCalls) /\ Cardinality(FailedCalls) = 0
  BY <1>2, FS_EmptySet
<1>4. StateFollowsFailures
  BY <1>3, AdapterBreakerAssumptions DEF AbInit, StateFollowsFailures, FailedCalls
<1> QED
  BY <1>1, <1>3, <1>4 DEF AbInv

\* A call that ends otherwise than by failing leaves the set of failed calls alone.
LEMMA FailedUnchanged ==
  ASSUME AbTypeOK, NEW c \in AbCalls, NEW end \in {"running", "refused", "succeeded"},
         abCall[c] # "failed", abCall' = [abCall EXCEPT ![c] = end]
  PROVE  FailedCalls' = FailedCalls
BY DEF AbTypeOK, FailedCalls

\* One failed call more makes the set of failed calls larger by one.
LEMMA FailedGrows ==
  ASSUME AbTypeOK, IsFiniteSet(FailedCalls), NEW c \in AbCalls, abCall[c] = "running",
         abCall' = [abCall EXCEPT ![c] = "failed"]
  PROVE  /\ IsFiniteSet(FailedCalls')
         /\ Cardinality(FailedCalls') = Cardinality(FailedCalls) + 1
<1>1. FailedCalls' = FailedCalls \cup {c}
  BY DEF AbTypeOK, FailedCalls
<1>2. c \notin FailedCalls
  BY DEF FailedCalls
<1> QED
  BY <1>1, <1>2, FS_AddElement

\* Every step of the breaker, with calls ending in any order, preserves AbInv.
LEMMA AbInvStep == AbInv /\ [AbNext]_abVars => AbInv'
<1> SUFFICES ASSUME AbInv, [AbNext]_abVars PROVE AbInv'
  OBVIOUS
<1>0. /\ AbTypeOK /\ IsFiniteSet(FailedCalls) /\ StateFollowsFailures
      /\ AbThreshold \in Nat \ {0}
      /\ Cardinality(FailedCalls) \in Nat
  BY AdapterBreakerAssumptions, FS_CardinalityType DEF AbInv
<1>a. /\ (abState = "closed") <=> (abFailures < AbThreshold)
      /\ (abTimer = "none") <=> (abFailures = 0)
      /\ Cardinality(FailedCalls) >= abFailures
      /\ abOpened >= abClosings + (IF abState = "closed" THEN 0 ELSE 1)
  BY <1>0 DEF StateFollowsFailures, FailedCalls
<1>b. ASSUME /\ (abState' = "closed") <=> (abFailures' < AbThreshold)
             /\ (abTimer' = "none") <=> (abFailures' = 0)
             /\ Cardinality(FailedCalls') >= abFailures'
             /\ abOpened' >= abClosings' + (IF abState' = "closed" THEN 0 ELSE 1)
      PROVE  StateFollowsFailures'
  BY <1>b DEF StateFollowsFailures, FailedCalls
<1>1. ASSUME NEW c \in AbCalls, BeginCall(c)
      PROVE  AbInv'
  <2>1. AbTypeOK'
    BY <1>0, <1>1 DEF BeginCall, AbTypeOK
  <2>2. FailedCalls' = FailedCalls
    BY <1>0, <1>1, FailedUnchanged DEF BeginCall
  <2>3. StateFollowsFailures'
    BY <1>0, <1>1, <1>a, <1>b, <2>2 DEF BeginCall, AbTypeOK
  <2> QED
    BY <1>0, <2>1, <2>2, <2>3 DEF AbInv
<1>2. ASSUME NEW c \in AbCalls, OnSuccess(c)
      PROVE  AbInv'
  <2>1. AbTypeOK'
    BY <1>0, <1>2 DEF OnSuccess, CloseCircuit, AbTypeOK
  <2>2. FailedCalls' = FailedCalls
    BY <1>0, <1>2, FailedUnchanged DEF OnSuccess
  <2>3. StateFollowsFailures'
    BY <1>0, <1>2, <1>a, <1>b, <2>2 DEF OnSuccess, CloseCircuit, AbTypeOK
  <2> QED
    BY <1>0, <2>1, <2>2, <2>3 DEF AbInv
<1>3. ASSUME NEW c \in AbCalls, OnFailure(c)
      PROVE  AbInv'
  <2>1. AbTypeOK'
    BY <1>0, <1>3 DEF OnFailure, AbTypeOK
  <2>2. /\ IsFiniteSet(FailedCalls')
        /\ Cardinality(FailedCalls') = Cardinality(FailedCalls) + 1
    BY <1>0, <1>3, FailedGrows DEF OnFailure
  <2>3. StateFollowsFailures'
    BY <1>0, <1>3, <1>a, <1>b, <2>2 DEF OnFailure, Opens, AbTypeOK
  <2> QED
    BY <2>1, <2>2, <2>3 DEF AbInv
<1>4. CASE TimeoutPasses
  <2>1. AbTypeOK'
    BY <1>0, <1>4 DEF TimeoutPasses, AbTypeOK
  <2>2. FailedCalls' = FailedCalls
    BY <1>4 DEF TimeoutPasses, FailedCalls
  <2>3. StateFollowsFailures'
    BY <1>0, <1>4, <1>a, <1>b, <2>2 DEF TimeoutPasses, AbTypeOK
  <2> QED
    BY <1>0, <2>1, <2>2, <2>3 DEF AbInv
<1>5. CASE ResetBreaker
  <2>1. AbTypeOK'
    BY <1>0, <1>5 DEF ResetBreaker, CloseCircuit, AbTypeOK
  <2>2. FailedCalls' = FailedCalls
    BY <1>5 DEF ResetBreaker, FailedCalls
  <2>3. StateFollowsFailures'
    BY <1>0, <1>5, <1>a, <1>b, <2>2 DEF ResetBreaker, CloseCircuit, AbTypeOK
  <2> QED
    BY <1>0, <2>1, <2>2, <2>3 DEF AbInv
<1>6. CASE UNCHANGED abVars
  BY <1>6 DEF abVars, AbInv, AbTypeOK, StateFollowsFailures, FailedCalls
<1> QED
  BY <1>1, <1>2, <1>3, <1>4, <1>5, <1>6 DEF AbNext

(* However late the results of calls arrive at libs/adapters/circuit_breaker.py, which has
   no lock and closes at any success, its state is a function of the failures since
   the last success, and its counters agree with its calls. *)
THEOREM AdapterBreakerFollows == AbSpec => []StateFollowsFailures
<1>1. AbInv => StateFollowsFailures
  BY DEF AbInv
<1> QED
  BY <1>1, AbInvInit, AbInvStep, PTL DEF AbSpec

-----------------------------------------------------------------------------
(* ResilientAdapter: calls of execute, in any number. *)

CircuitValues == [state : {"closed", "open", "half_open"}, fails : Nat, due : BOOLEAN]
StatValues == [total : Nat, successful : Nat, failed : Nat, open : Nat, rejected : Nat]

RaTypeOK ==
  /\ raStage \in [RaCalls -> {"idle", "waiting", "trying", "ended"}]
  /\ raTries \in [RaCalls -> Nat]
  /\ raCircuit \in CircuitValues
  /\ raStats \in StatValues
  /\ raResets \in Nat

(* What the steps preserve: OpenCircuitDrains, whose three parts do not need each
   other, and that only finitely many calls are counted. *)
RaInv ==
  /\ RaTypeOK
  /\ IsFiniteSet(InExecute) /\ IsFiniteSet(carried)
  /\ OpenCircuitDrains

\* Closing a circuit and counting leave the records records of their kind.
LEMMA RecordsStay ==
  /\ \A k \in CircuitValues : [k EXCEPT !.state = "closed", !.fails = 0] \in CircuitValues
  /\ \A s \in StatValues : [s EXCEPT !.total = @ + 1] \in StatValues
  /\ \A s \in StatValues : [s EXCEPT !.total = @ + 1, !.open = @ + 1] \in StatValues
<1>1. \A k \in CircuitValues : [k EXCEPT !.state = "closed"] \in CircuitValues
  BY DEF CircuitValues
<1>2. \A k \in CircuitValues : [k EXCEPT !.fails = 0] \in CircuitValues
  BY DEF CircuitValues
<1>3. \A s \in StatValues : [s EXCEPT !.total = @ + 1] \in StatValues
  BY DEF StatValues
<1>4. \A s \in StatValues : [s EXCEPT !.open = @ + 1] \in StatValues
  BY DEF StatValues
<1>5. ASSUME NEW k \in CircuitValues
      PROVE  [k EXCEPT !.state = "closed", !.fails = 0] \in CircuitValues
  <2>1. [k EXCEPT !.state = "closed", !.fails = 0]
          = [[k EXCEPT !.state = "closed"] EXCEPT !.fails = 0]
    OBVIOUS
  <2> QED
    BY <1>1, <1>2, <2>1, Zenon
<1>6. ASSUME NEW s \in StatValues
      PROVE  [s EXCEPT !.total = @ + 1, !.open = @ + 1] \in StatValues
  <2>1. [s EXCEPT !.total = @ + 1, !.open = @ + 1]
          = [[s EXCEPT !.total = @ + 1] EXCEPT !.open = @ + 1]
    OBVIOUS
  <2> QED
    BY <1>3, <1>4, <2>1, Zenon
<1> QED
  BY <1>3, <1>5, <1>6

\* A call that is let through is one call more in execute.
LEMMA RaEnters ==
  ASSUME RaTypeOK, IsFiniteSet(InExecute), NEW c \in RaCalls, raStage[c] = "idle",
         raStage' = [raStage EXCEPT ![c] = "waiting"]
  PROVE  /\ IsFiniteSet(InExecute')
         /\ Cardinality(InExecute') = Cardinality(InExecute) + 1
<1>1. InExecute' = InExecute \cup {c}
  BY DEF RaTypeOK, InExecute
<1>2. c \notin InExecute
  BY DEF InExecute
<1> QED
  BY <1>1, <1>2, FS_AddElement

\* A call that ends is one call fewer in execute.
LEMMA RaLeaves ==
  ASSUME RaTypeOK, IsFiniteSet(InExecute), NEW c \in RaCalls,
         raStage[c] \in {"waiting", "trying"},
         raStage' = [raStage EXCEPT ![c] = "ended"]
  PROVE  /\ InExecute' = InExecute \ {c}
         /\ IsFiniteSet(InExecute')
         /\ Cardinality(InExecute') = Cardinality(InExecute) - 1
<1>1. InExecute' = InExecute \ {c}
  BY DEF RaTypeOK, InExecute
<1>2. c \in InExecute
  BY DEF InExecute
<1> QED
  BY <1>1, <1>2, FS_RemoveElement

\* Before the first call the circuit is closed and nothing is counted.
LEMMA RaInvInit == RaInit => RaInv
<1> SUFFICES ASSUME RaInit PROVE RaInv
  OBVIOUS
<1>1. RaTypeOK
  BY DEF RaInit, RaTypeOK, CircuitValues, NoStats, StatValues
<1>2. InExecute = {} /\ carried = {}
  BY DEF RaInit, InExecute
<1>3. /\ IsFiniteSet(InExecute) /\ Cardinality(InExecute) = 0
      /\ IsFiniteSet(carried) /\ Cardinality(carried) = 0
  BY <1>2, FS_EmptySet
<1>4. OpenCircuitDrains
  BY <1>3, ResilientAssumptions DEF RaInit, OpenCircuitDrains, NoStats
<1> QED
  BY <1>1, <1>3, <1>4 DEF RaInv

\* Every step of ResilientAdapter preserves RaInv.
LEMMA RaInvStep == RaInv /\ [RaNext]_raVars => RaInv'
<1> SUFFICES ASSUME RaInv, [RaNext]_raVars PROVE RaInv'
  OBVIOUS
<1>0. /\ RaTypeOK /\ IsFiniteSet(InExecute) /\ IsFiniteSet(carried)
      /\ RaThreshold \in Nat \ {0}
      /\ Cardinality(InExecute) \in Nat /\ Cardinality(carried) \in Nat
  BY ResilientAssumptions, FS_CardinalityType DEF RaInv
<1>a. /\ raCircuit.state = "open" => InExecute \subseteq draining
      /\ raCircuit.state = "closed" => raCircuit.fails < RaThreshold
  BY DEF RaInv, OpenCircuitDrains
<1>b. raStats.total + Cardinality(carried) =
        raStats.successful + raStats.failed + raStats.open + raStats.rejected
        + Cardinality(InExecute)
  BY DEF RaInv, OpenCircuitDrains
<1>1. ASSUME NEW c \in RaCalls, RaExecute(c)
      PROVE  RaInv'
  <2>0. [raCircuit EXCEPT !.state = "half_open"] \in CircuitValues
    BY <1>0 DEF RaTypeOK, CircuitValues
  <2>a. raCircuit' \in CircuitValues
    BY <1>0, <1>1, <2>0 DEF RaExecute, RaTypeOK
  <2>1. RaTypeOK' /\ UNCHANGED <<carried, draining>>
    <3>1. raStats' \in StatValues
      BY <1>0, <1>1, RecordsStay DEF RaExecute, RaTypeOK
    <3>2. raStage' \in [RaCalls -> {"idle", "waiting", "trying", "ended"}]
      BY <1>0, <1>1 DEF RaExecute, RaTypeOK
    <3> QED
      BY <1>0, <1>1, <2>a, <3>1, <3>2 DEF RaExecute, RaTypeOK
  <2>2. CASE LetsThrough
    <3>1. /\ IsFiniteSet(InExecute')
          /\ Cardinality(InExecute') = Cardinality(InExecute) + 1
      BY <1>0, <1>1, <2>2, RaEnters DEF RaExecute
    <3>2. raStats' = [raStats EXCEPT !.total = @ + 1]
      BY <1>1, <2>2 DEF RaExecute
    <3>3. raCircuit'.state # "open"
      BY <1>0, <1>1, <2>2 DEF RaExecute, LetsThrough, RaTypeOK, CircuitValues
    <3>4. raCircuit'.state = "closed" => raCircuit'.fails < RaThreshold
      BY <1>0, <1>1, <1>a, <2>2 DEF RaExecute, LetsThrough, RaTypeOK, CircuitValues
    <3>5. (raStats.total + Cardinality(carried) =
            raStats.successful + raStats.failed + raStats.open + raStats.rejected
            + Cardinality(InExecute))'
      BY <1>0, <1>b, <2>1, <3>1, <3>2 DEF RaTypeOK, StatValues
    <3> QED
      BY <1>0, <2>1, <3>1, <3>3, <3>4, <3>5 DEF RaInv, OpenCircuitDrains
  <2>3. CASE ~LetsThrough
    <3>1. InExecute' = InExecute
      BY <1>0, <1>1, <2>3 DEF RaExecute, InExecute, RaTypeOK
    <3>2. raStats' = [raStats EXCEPT !.total = @ + 1, !.open = @ + 1] /\ raCircuit' = raCircuit
      BY <1>1, <2>3 DEF RaExecute
    <3>3. (raStats.total + Cardinality(carried) =
            raStats.successful + raStats.failed + raStats.open + raStats.rejected
            + Cardinality(InExecute))'
      BY <1>0, <1>b, <2>1, <3>1, <3>2 DEF RaTypeOK, StatValues
    <3> QED
      BY <1>0, <1>a, <2>1, <3>1, <3>2, <3>3 DEF RaInv, OpenCircuitDrains
  <2> QED
    BY <2>2, <2>3
<1>2. ASSUME NEW c \in RaCalls, RaAcquire(c)
      PROVE  RaInv'
  <2>1. RaTypeOK' /\ UNCHANGED <<carried, draining, raCircuit, raStats>>
    BY <1>0, <1>2 DEF RaAcquire, RaTypeOK
  <2>2. InExecute' = InExecute
    BY <1>0, <1>2 DEF RaAcquire, InExecute, RaTypeOK
  <2> QED
    BY <1>0, <1>a, <1>b, <2>1, <2>2 DEF RaInv, OpenCircuitDrains
<1>3. ASSUME NEW c \in RaCalls, RaReject(c)
      PROVE  RaInv'
  <2>1. RaTypeOK' /\ UNCHANGED <<carried, draining, raCircuit>>
    BY <1>0, <1>3 DEF RaReject, RaTypeOK, StatValues
  <2>2. /\ InExecute' = InExecute \ {c} /\ IsFiniteSet(InExecute')
        /\ Cardinality(InExecute') = Cardinality(InExecute) - 1
    BY <1>0, <1>3, RaLeaves DEF RaReject
  <2>3. raStats' = [raStats EXCEPT !.rejected = @ + 1]
    BY <1>3 DEF RaReject
  <2>4. (raStats.total + Cardinality(carried) =
          raStats.successful + raStats.failed + raStats.open + raStats.rejected
          + Cardinality(InExecute))'
    BY <1>0, <1>b, <2>1, <2>2, <2>3 DEF RaTypeOK, StatValues
  <2>5. raCircuit'.state = "open" => InExecute' \subseteq draining'
    BY <1>a, <2>1, <2>2
  <2> QED
    BY <1>0, <1>a, <2>1, <2>2, <2>4, <2>5 DEF RaInv, OpenCircuitDrains
<1>4. ASSUME NEW c \in RaCalls, RaSucceeds(c)
      PROVE  RaInv'
  <2>1. /\ raCircuit' \in CircuitValues
        /\ raCircuit'.state = "open" => raCircuit.state = "open"
        /\ raCircuit'.state = "closed" => raCircuit'.fails < RaThreshold
    <3>1. raCircuit' = AfterRaSuccess /\ raCircuit \in CircuitValues
      BY <1>0, <1>4 DEF RaSucceeds, RaTypeOK
    <3>2. CASE raCircuit.state = "half_open"
      <4>1. raCircuit' = [raCircuit EXCEPT !.state = "closed", !.fails = 0]
        BY <3>1, <3>2 DEF AfterRaSuccess
      <4>2. raCircuit' \in CircuitValues
        BY <3>1, <4>1, RecordsStay
      <4>3. raCircuit'.state = "closed" /\ raCircuit'.fails = 0
        BY <3>1, <4>1 DEF CircuitValues
      <4> QED
        BY <1>0, <4>2, <4>3
    <3>3. CASE raCircuit.state = "closed" /\ raCircuit.fails > 0
      <4>1. raCircuit' = [raCircuit EXCEPT !.fails = @ - 1]
        BY <3>1, <3>3 DEF AfterRaSuccess
      <4> QED
        BY <1>0, <1>a, <3>1, <3>3, <4>1 DEF CircuitValues
    <3>4. CASE raCircuit.state # "half_open" /\ ~(raCircuit.state = "closed" /\ raCircuit.fails > 0)
      BY <1>a, <3>1, <3>4 DEF AfterRaSuccess
    <3> QED
      BY <3>2, <3>3, <3>4
  <2>2. RaTypeOK' /\ UNCHANGED <<carried, draining>>
    BY <1>0, <1>4, <2>1 DEF RaSucceeds, RaTypeOK, StatValues
  <2>3. /\ InExecute' = InExecute \ {c} /\ IsFiniteSet(InExecute')
        /\ Cardinality(InExecute') = Cardinality(InExecute) - 1
    BY <1>0, <1>4, RaLeaves DEF RaSucceeds
  <2>4. raStats' = [raStats EXCEPT !.successful = @ + 1]
    BY <1>4 DEF RaSucceeds
  <2>5. (raStats.total + Cardinality(carried) =
          raStats.successful + raStats.failed + raStats.open + raStats.rejected
          + Cardinality(InExecute))'
    BY <1>0, <1>b, <2>2, <2>3, <2>4 DEF RaTypeOK, StatValues
  <2>6. raCircuit'.state = "open" => InExecute' \subseteq draining'
    BY <1>a, <2>1, <2>2, <2>3
  <2> QED
    BY <1>0, <2>1, <2>2, <2>3, <2>5, <2>6 DEF RaInv, OpenCircuitDrains
<1>5. ASSUME NEW c \in RaCalls, RaAttemptFails(c)
      PROVE  RaInv'
  <2>1. CASE raTries[c] < RaRetries
    <3>1. UNCHANGED <<raStage, raCircuit, raStats, carried, draining>>
      BY <1>5, <2>1 DEF RaAttemptFails
    <3>2. RaTypeOK' /\ InExecute' = InExecute
      BY <1>0, <1>5, <3>1 DEF RaAttemptFails, RaTypeOK, InExecute
    <3> QED
      BY <1>0, <1>a, <1>b, <3>1, <3>2 DEF RaInv, OpenCircuitDrains
  <2>2. CASE ~(raTries[c] < RaRetries)
    <3>1. /\ raCircuit' \in CircuitValues
          /\ raCircuit'.state = "closed" => raCircuit'.fails < RaThreshold
      <4>1. raCircuit' = AfterRaFailure /\ raCircuit \in CircuitValues
        BY <1>0, <1>5, <2>2 DEF RaAttemptFails, RaTypeOK
      <4> DEFINE opens == \/ raCircuit.state = "half_open"
                          \/ raCircuit.state = "closed" /\ raCircuit.fails + 1 >= RaThreshold
      <4>2. CASE opens
        <5>1. raCircuit' = [state |-> "open", fails |-> raCircuit.fails + 1, due |-> FALSE]
          BY <4>1, <4>2 DEF AfterRaFailure
        <5> QED
          BY <4>1, <5>1 DEF CircuitValues
      <4>3. CASE ~opens
        <5>1. raCircuit' = [raCircuit EXCEPT !.fails = @ + 1]
          BY <4>1, <4>3 DEF AfterRaFailure
        <5> QED
          BY <1>0, <4>1, <4>3, <5>1 DEF CircuitValues
      <4> QED
        BY <4>2, <4>3
    <3>2. RaTypeOK' /\ carried' = carried
      BY <1>0, <1>5, <2>2, <3>1 DEF RaAttemptFails, RaTypeOK, StatValues
    <3>3. /\ InExecute' = InExecute \ {c} /\ IsFiniteSet(InExecute')
          /\ Cardinality(InExecute') = Cardinality(InExecute) - 1
      BY <1>0, <1>5, <2>2, RaLeaves DEF RaAttemptFails
    <3>4. raStats' = [raStats EXCEPT !.failed = @ + 1]
      BY <1>5, <2>2 DEF RaAttemptFails
    <3>5. (raStats.total + Cardinality(carried) =
            raStats.successful + raStats.failed + raStats.open + raStats.rejected
            + Cardinality(InExecute))'
      BY <1>0, <1>b, <3>2, <3>3, <3>4 DEF RaTypeOK, StatValues
    <3>6. raCircuit'.state = "open" => InExecute' \subseteq draining'
      BY <1>5, <1>a, <2>2, <3>3 DEF RaAttemptFails
    <3> QED
      BY <1>0, <3>1, <3>2, <3>3, <3>5, <3>6 DEF RaInv, OpenCircuitDrains
  <2> QED
    BY <2>1, <2>2
<1>6. CASE NextAttemptDue
  <2>1. RaTypeOK' /\ UNCHANGED <<carried, draining, raStats>> /\ InExecute' = InExecute
    BY <1>0, <1>6 DEF NextAttemptDue, RaTypeOK, CircuitValues, InExecute
  <2>2. raCircuit'.state = raCircuit.state /\ raCircuit'.fails = raCircuit.fails
    BY <1>0, <1>6 DEF NextAttemptDue, RaTypeOK, CircuitValues
  <2> QED
    BY <1>0, <1>a, <1>b, <2>1, <2>2 DEF RaInv, OpenCircuitDrains
<1>7. CASE ResetStats
  <2>1. RaTypeOK' /\ carried' = InExecute /\ raStats' = NoStats /\ InExecute' = InExecute
    <3>1. raCircuit' \in CircuitValues
      BY <1>0, <1>7 DEF ResetStats, RaTypeOK, CircuitValues
    <3>2. raStats' \in StatValues
      BY <1>7 DEF ResetStats, NoStats, StatValues
    <3> QED
      BY <1>0, <1>7, <3>1, <3>2 DEF ResetStats, RaTypeOK, InExecute
  <2>2. raCircuit'.state = "closed" /\ raCircuit'.fails = 0
    BY <1>0, <1>7 DEF ResetStats, RaTypeOK, CircuitValues
  <2> QED
    BY <1>0, <2>1, <2>2 DEF RaInv, OpenCircuitDrains, NoStats
<1>8. CASE UNCHANGED raVars
  BY <1>8 DEF raVars, RaInv, RaTypeOK, OpenCircuitDrains, InExecute
<1> QED
  BY <1>1, <1>2, <1>3, <1>4, <1>5, <1>6, <1>7, <1>8 DEF RaNext

(* However calls of ResilientAdapter.execute overlap, wait, retry and are counted
   afresh by reset_stats: an open circuit only drains, a closed one is below its
   threshold, and every call ends in one counter. *)
THEOREM ResilientAdapterDrains == RaSpec => []OpenCircuitDrains
<1>1. RaInv => OpenCircuitDrains
  BY DEF RaInv
<1> QED
  BY <1>1, RaInvInit, RaInvStep, PTL DEF RaSpec

(* The run's property: both breakers of libs/adapters follow their failures, also
   in the composition, whose steps are steps of each of them or leave it alone. *)
THEOREM BreakersFollow == Spec => []BreakersFollowFailures
<1>1. Init => AbInv /\ RaInv
  BY AbInvInit, RaInvInit DEF Init
<1>2. AbInv /\ RaInv /\ [Next]_vars => AbInv' /\ RaInv'
  <2>1. [Next]_vars => [AbNext]_abVars /\ [RaNext]_raVars
    BY DEF Next, vars
  <2> QED
    BY <2>1, AbInvStep, RaInvStep
<1>3. AbInv /\ RaInv => BreakersFollowFailures
  BY DEF AbInv, RaInv, BreakersFollowFailures
<1> QED
  BY <1>1, <1>2, <1>3, PTL DEF Spec

-----------------------------------------------------------------------------
(* QuotaEnforcer: requests of one tenant, with any amounts that have a largest. *)

Working == {r \in QuotaRequests : quotaAt[r] = "working"}
Most == Max(UsageAmounts)

(* What the steps preserve: every request that passed the check and has not been
   counted may still use the largest amount.  No request passes a limit of zero. *)
QuotaInv ==
  /\ QuotaTypeOK
  /\ QuotaLimit = 0 => /\ usage = 0
                       /\ \A r \in QuotaRequests : quotaAt[r] \in {"idle", "planned"}
  /\ QuotaLimit > 0 =>
       usage + Cardinality(Working) * Most
         < QuotaLimit + Cardinality(QuotaRequests) * Most + unread

\* Products with a natural number keep the order, and one less is that number less.
LEMMA Products ==
  /\ \A a, b, m \in Nat : a <= b => a * m <= b * m
  /\ \A a, m \in Nat : (a + 1) * m = a * m + m
  /\ \A a, m \in Nat : (a - 1) * m = a * m - m
  /\ \A a, m \in Nat : a * m \in Nat
<1>1. ASSUME NEW a \in Nat, NEW b \in Nat, NEW m \in Nat, a <= b PROVE a * m <= b * m
  BY <1>1
<1>2. /\ \A a, m \in Nat : (a + 1) * m = a * m + m
      /\ \A a, m \in Nat : (a - 1) * m = a * m - m
  OBVIOUS
<1>3. \A a, m \in Nat : a * m \in Nat
  OBVIOUS
<1> QED
  BY <1>1, <1>2, <1>3

\* Max is the largest amount a request may use.
LEMMA MostAmount == Most \in Nat /\ \A a \in UsageAmounts : a \in Nat /\ Most >= a
BY QuotaAssumptions DEF Most, Max

\* There are no more requests at work than requests.
LEMMA FewWork ==
  ASSUME QuotaTypeOK
  PROVE  /\ IsFiniteSet(Working) /\ Cardinality(Working) \in Nat
         /\ Cardinality(QuotaRequests) \in Nat
         /\ Cardinality(Working) <= Cardinality(QuotaRequests)
         /\ Cardinality(Working) * Most \in Nat
         /\ Cardinality(QuotaRequests) * Most \in Nat
         /\ Cardinality(Working) * Most <= Cardinality(QuotaRequests) * Most
<1>1. Working \subseteq QuotaRequests
  BY DEF Working
<1>2. /\ IsFiniteSet(Working) /\ Cardinality(Working) \in Nat
      /\ Cardinality(QuotaRequests) \in Nat
      /\ Cardinality(Working) <= Cardinality(QuotaRequests)
  BY <1>1, QuotaAssumptions, FS_Subset, FS_CardinalityType
<1> QED
  BY <1>2, Products, MostAmount

\* A request that stops working leaves room for the largest amount.
LEMMA StopsWorking ==
  ASSUME QuotaTypeOK, NEW r \in QuotaRequests, quotaAt[r] = "working",
         quotaAt' = [quotaAt EXCEPT ![r] = "idle"]
  PROVE  /\ Cardinality(Working') * Most = Cardinality(Working) * Most - Most
<1>1. Working' = Working \ {r} /\ r \in Working
  BY DEF QuotaTypeOK, Working
<1>2. Cardinality(Working') = Cardinality(Working) - 1
  BY <1>1, FewWork, FS_RemoveElement
<1> QED
  BY <1>2, FewWork, MostAmount, Products

\* On the first day nothing is used and nobody works.
LEMMA QuotaInvInit == QuotaInit => QuotaInv
<1> SUFFICES ASSUME QuotaInit PROVE QuotaInv
  OBVIOUS
<1>1. QuotaTypeOK
  BY DEF QuotaInit, QuotaTypeOK
<1>2. QED
  BY <1>1, FewWork, QuotaAssumptions DEF QuotaInit, QuotaInv

\* Every step of a request, and the change of day, preserve QuotaInv.
LEMMA QuotaInvStep == QuotaInv /\ [QuotaNext]_quotaVars => QuotaInv'
<1> SUFFICES ASSUME QuotaInv, [QuotaNext]_quotaVars PROVE QuotaInv'
  OBVIOUS
<1>0. QuotaTypeOK /\ QuotaLimit \in Nat /\ Most \in Nat
  BY QuotaAssumptions, MostAmount DEF QuotaInv
<1>f. /\ Cardinality(Working) * Most \in Nat
      /\ Cardinality(QuotaRequests) * Most \in Nat
  BY <1>0, FewWork
<1>a. QuotaLimit = 0 => /\ usage = 0
                        /\ \A r \in QuotaRequests : quotaAt[r] \in {"idle", "planned"}
  BY DEF QuotaInv
<1>b. QuotaLimit > 0 =>
        usage + Cardinality(Working) * Most
          < QuotaLimit + Cardinality(QuotaRequests) * Most + unread
  BY DEF QuotaInv
<1>c. ASSUME QuotaTypeOK'
      PROVE  /\ Cardinality(Working') * Most \in Nat
             /\ Cardinality(Working') * Most <= Cardinality(QuotaRequests) * Most
  \* a smaller usage than the limit is enough, whoever works
  <2>1. Working' \subseteq QuotaRequests
    BY DEF Working
  <2>2. /\ Cardinality(Working') \in Nat /\ Cardinality(QuotaRequests) \in Nat
        /\ Cardinality(Working') <= Cardinality(QuotaRequests)
    BY <2>1, QuotaAssumptions, FS_Subset, FS_CardinalityType
  <2> QED
    BY <1>0, <2>2, Products
<1>1. ASSUME NEW r \in QuotaRequests, GetPlanQuotas(r)
      PROVE  QuotaInv'
  <2>1. QuotaTypeOK' /\ UNCHANGED <<usage, unread>>
    BY <1>0, <1>1 DEF GetPlanQuotas, QuotaTypeOK
  <2>2. Working' = Working
    BY <1>0, <1>1 DEF GetPlanQuotas, QuotaTypeOK, Working
  <2>3. QuotaLimit = 0 => \A q \in QuotaRequests : quotaAt'[q] \in {"idle", "planned"}
    BY <1>0, <1>1, <1>a DEF GetPlanQuotas, QuotaTypeOK
  <2> QED
    BY <1>a, <1>b, <2>1, <2>2, <2>3 DEF QuotaInv
<1>2. ASSUME NEW r \in QuotaRequests, CheckQuota(r)
      PROVE  QuotaInv'
  <2>1. QuotaTypeOK' /\ UNCHANGED <<usage, unread>>
    BY <1>0, <1>2 DEF CheckQuota, QuotaTypeOK
  <2>2. CASE usage < QuotaLimit
    <3>1. QuotaLimit # 0 /\ unread \in Nat /\ usage \in Nat
      BY <1>0, <2>2 DEF QuotaTypeOK
    <3> QED
      BY <1>0, <1>c, <1>f, <2>1, <2>2, <3>1 DEF QuotaInv
  <2>3. CASE ~(usage < QuotaLimit)
    <3>1. quotaAt' = [quotaAt EXCEPT ![r] = "idle"]
      BY <1>2, <2>3 DEF CheckQuota, WithinQuota
    <3>2. Working' = Working
      BY <1>0, <1>2, <3>1 DEF CheckQuota, QuotaTypeOK, Working
    <3>3. QuotaLimit = 0 => \A q \in QuotaRequests : quotaAt'[q] \in {"idle", "planned"}
      BY <1>0, <1>a, <3>1 DEF QuotaTypeOK
    <3> QED
      BY <1>a, <1>b, <2>1, <3>2, <3>3 DEF QuotaInv
  <2> QED
    BY <2>2, <2>3
<1>3. ASSUME NEW r \in QuotaRequests, CheckQuotaBlind(r)
      PROVE  QuotaInv'
  <2>1. QuotaTypeOK' /\ UNCHANGED <<usage, unread>>
    BY <1>0, <1>3 DEF CheckQuotaBlind, QuotaTypeOK
  <2>2. Working' = Working
    BY <1>0, <1>3 DEF CheckQuotaBlind, QuotaTypeOK, Working
  <2>3. QuotaLimit = 0 => quotaAt' = [quotaAt EXCEPT ![r] = "idle"]
    BY <1>3 DEF CheckQuotaBlind, WithinQuota
  <2>4. QuotaLimit = 0 => \A q \in QuotaRequests : quotaAt'[q] \in {"idle", "planned"}
    BY <1>0, <1>a, <2>3 DEF QuotaTypeOK
  <2> QED
    BY <1>a, <1>b, <2>1, <2>2, <2>4 DEF QuotaInv
<1>4. ASSUME NEW r \in QuotaRequests, IncrementLost(r)
      PROVE  QuotaInv'
  <2>1. QuotaTypeOK' /\ UNCHANGED <<usage, unread>> /\ usage \in Nat /\ unread \in Nat
    BY <1>0, <1>4 DEF IncrementLost, QuotaTypeOK
  <2>2. QuotaLimit # 0
    BY <1>4, <1>a DEF IncrementLost
  <2>3. CASE quotaAt[r] = "working"
    <3>1. Cardinality(Working') * Most = Cardinality(Working) * Most - Most
      BY <1>0, <1>4, <2>3, StopsWorking DEF IncrementLost
    <3> QED
      BY <1>0, <1>b, <1>f, <2>1, <2>2, <3>1 DEF QuotaInv
  <2>4. CASE quotaAt[r] = "blind"
    <3>1. Working' = Working
      BY <1>0, <1>4, <2>4 DEF IncrementLost, QuotaTypeOK, Working
    <3> QED
      BY <1>b, <2>1, <2>2, <3>1 DEF QuotaInv
  <2> QED
    BY <1>4, <2>3, <2>4 DEF IncrementLost
<1>5. ASSUME NEW r \in QuotaRequests, NEW a \in UsageAmounts, IncrementUsage(r, a)
      PROVE  QuotaInv'
  <2>1. usage \in Nat /\ unread \in Nat /\ a \in Nat /\ Most >= a
    BY <1>0, MostAmount DEF QuotaTypeOK
  <2>2. QuotaTypeOK'
    BY <1>0, <1>5, <2>1 DEF IncrementUsage, QuotaTypeOK
  <2>3. QuotaLimit # 0
    BY <1>5, <1>a DEF IncrementUsage
  <2>4. CASE quotaAt[r] = "working"
    <3>1. Cardinality(Working') * Most = Cardinality(Working) * Most - Most
      BY <1>0, <1>5, <2>4, StopsWorking DEF IncrementUsage
    <3>2. usage' = usage + a /\ unread' = unread
      BY <1>5, <2>4 DEF IncrementUsage
    <3> QED
      BY <1>0, <1>b, <1>f, <2>1, <2>2, <2>3, <3>1, <3>2 DEF QuotaInv
  <2>5. CASE quotaAt[r] = "blind"
    <3>1. Working' = Working
      BY <1>0, <1>5, <2>5 DEF IncrementUsage, QuotaTypeOK, Working
    <3>2. usage' = usage + a /\ unread' = unread + a
      BY <1>5, <2>5 DEF IncrementUsage
    <3> QED
      BY <1>0, <1>b, <1>f, <2>1, <2>2, <2>3, <3>1, <3>2 DEF QuotaInv
  <2> QED
    BY <1>5, <2>4, <2>5 DEF IncrementUsage
<1>6. CASE NextDay
  <2>1. QuotaTypeOK' /\ usage' = 0 /\ unread' = 0 /\ quotaAt' = quotaAt
    BY <1>0, <1>6 DEF NextDay, QuotaTypeOK
  <2> QED
    BY <1>0, <1>a, <1>c, <1>f, <2>1 DEF QuotaInv
<1>7. CASE UNCHANGED quotaVars
  BY <1>7 DEF quotaVars, QuotaInv, QuotaTypeOK, Working
<1> QED
  BY <1>1, <1>2, <1>3, <1>4, <1>5, <1>6, <1>7 DEF QuotaNext

-----------------------------------------------------------------------------
(* TokenBucketRateLimiter: any callers, capacity, rate and interval. *)

\* Whole intervals are rounded down, whether time went forward or back.
LEMMA WholeIntervals ==
  ASSUME NEW i \in Nat \ {0}, NEW x \in Int
  PROVE  /\ x \div i \in Int
         /\ i * (x \div i) <= x /\ x < i * (x \div i) + i
<1>1. x \div i \in Int
  OBVIOUS
<1>2. x = i * (x \div i) + (x % i)
  OBVIOUS
<1>3. x % i \in 0..(i - 1)
  OBVIOUS
<1> QED
  BY <1>1, <1>2, <1>3

\* A multiple of i below the next but one is at most the next.
LEMMA NoSmallerMultiple ==
  ASSUME NEW i \in Nat \ {0}, NEW p \in Int, NEW q \in Int, i * p < i * q + i
  PROVE  p <= q
<1> SUFFICES ASSUME ~(p <= q) PROVE FALSE
  OBVIOUS
<1>1. p >= q + 1
  OBVIOUS
<1>2. i * p >= i * (q + 1)
  BY <1>1
<1>3. i * (q + 1) = i * q + i
  OBVIOUS
<1> QED
  BY <1>2, <1>3

\* What two stretches of time add up to is at most what the whole of them adds, and
\* a longer stretch adds no less.
LEMMA Refills ==
  ASSUME NEW x \in Int, NEW y \in Int
  PROVE  /\ TokensToAdd(x) \in Int
         /\ TokensToAdd(0) = 0
         /\ TokensToAdd(x) + TokensToAdd(y) <= TokensToAdd(x + y)
         /\ x <= y => TokensToAdd(x) <= TokensToAdd(y)
         /\ x >= 0 => TokensToAdd(x) >= 0
<1> DEFINE I == Interval
           T == TokensPerInterval
           d(z) == z \div I
<1>0. I \in Nat \ {0} /\ T \in Nat
  BY IntervalAssumptions
<1>t. \A z \in Int : TokensToAdd(z) = d(z) * T
  BY DEF TokensToAdd
<1>d. \A z \in Int : d(z) \in Int /\ I * d(z) <= z /\ z < I * d(z) + I
  BY <1>0, WholeIntervals
<1>z. d(0) = 0
  <2>1. I * d(0) <= 0 /\ 0 < I * d(0) + I /\ d(0) \in Int
    BY <1>d
  <2>2. I * d(0) < I * 0 + I /\ I * 0 < I * d(0) + I
    BY <1>0, <2>1
  <2>3. d(0) <= 0 /\ 0 <= d(0)
    BY <1>0, <2>1, <2>2, NoSmallerMultiple
  <2> QED
    BY <2>1, <2>3
<1>m. \A p, q \in Int : p <= q => p * T <= q * T
  BY <1>0
<1>o. ASSUME NEW p \in Int, NEW q \in Int, p <= q PROVE d(p) <= d(q)
  <2>1. I * d(p) < I * d(q) + I
    BY <1>0, <1>d, <1>o
  <2> QED
    BY <1>0, <1>d, <2>1, NoSmallerMultiple
<1>1. d(x) + d(y) <= d(x + y)
  <2>1. I * (d(x) + d(y)) = I * d(x) + I * d(y)
    BY <1>0, <1>d
  <2>2. x + y \in Int /\ I * d(x) + I * d(y) <= x + y
    BY <1>0, <1>d
  <2>3. I * (d(x) + d(y)) < I * d(x + y) + I
    BY <1>0, <1>d, <2>1, <2>2
  <2> QED
    BY <1>0, <1>d, <2>2, <2>3, NoSmallerMultiple
<1> HIDE DEF d
<1>2. d(x) \in Int /\ d(y) \in Int /\ d(x + y) \in Int
  BY <1>d
<1>3. TokensToAdd(x) \in Int /\ TokensToAdd(0) = 0
  BY <1>0, <1>2, <1>t, <1>z
<1>4. TokensToAdd(x) + TokensToAdd(y) <= TokensToAdd(x + y)
  <2>1. (d(x) + d(y)) * T <= d(x + y) * T
    BY <1>1, <1>2, <1>m
  <2>2. (d(x) + d(y)) * T = d(x) * T + d(y) * T
    BY <1>0, <1>2
  <2> QED
    BY <1>t, <2>1, <2>2
<1>5. x <= y => TokensToAdd(x) <= TokensToAdd(y)
  BY <1>2, <1>m, <1>o, <1>t
<1>6. x >= 0 => TokensToAdd(x) >= 0
  <2>1. x >= 0 => d(x) >= 0
    BY <1>o, <1>z
  <2> QED
    BY <1>0, <1>2, <1>t, <2>1
<1> QED
  BY <1>3, <1>4, <1>5, <1>6

KeyValues == [tokens : Int, last : Nat, born : Nat, granted : Nat]

(* What the steps preserve: RefillIsSound, with times that are not in the future. *)
IntervalInv ==
  /\ second \in Nat /\ disordered \in BOOLEAN
  /\ asked \in [Askers -> Int]
  /\ \A a \in Askers : asked[a] = -1 \/ asked[a] \in 0..second
  /\ key # NoBucket => key \in KeyValues /\ key.last <= second
  /\ RefillIsSound

\* Before the first script there is no bucket.
LEMMA IntervalInvInit == IntervalInit => IntervalInv
<1> SUFFICES ASSUME IntervalInit PROVE IntervalInv
  OBVIOUS
<1>1. /\ second \in Nat /\ asked \in [Askers -> Int]
      /\ \A a \in Askers : asked[a] = -1
  BY DEF IntervalInit
<1>2. disordered \in BOOLEAN /\ key = NoBucket
  BY DEF IntervalInit
<1> QED
  BY <1>1, <1>2 DEF IntervalInv, RefillIsSound

\* The script keeps what the bucket has granted and still holds within its refills,
\* whether its now is later or earlier than that of the script before it.
LEMMA ScriptIsSound ==
  ASSUME IntervalInv, NEW a \in Askers, RunScript(a)
  PROVE  IntervalInv'
<1> DEFINE now == asked[a]
           old == IF key = NoBucket
                  THEN [tokens |-> BucketCapacity, last |-> now, born |-> now, granted |-> 0]
                  ELSE key
           sum == old.tokens + TokensToAdd(now - old.last)
           current == IF sum < BucketCapacity THEN sum ELSE BucketCapacity
           left == IF current >= 1 THEN current - 1 ELSE current
           given == IF current >= 1 THEN old.granted + 1 ELSE old.granted
<1>0. /\ BucketCapacity \in Nat \ {0} /\ second \in Nat
      /\ now \in 0..second /\ now \in Nat /\ now <= second
  BY IntervalAssumptions DEF IntervalInv, RunScript
<1>1. /\ second' = second /\ asked' = [asked EXCEPT ![a] = -1]
      /\ key' = [old EXCEPT !.tokens = left, !.last = now, !.granted = given]
      /\ disordered' = (disordered \/ now < old.last)
  BY DEF RunScript
<1>2. /\ old \in KeyValues
      /\ old.last <= second
      /\ old.granted + old.tokens <= BucketCapacity + TokensToAdd(old.last - old.born)
      /\ old.granted <= BucketCapacity + TokensToAdd(second - old.born)
      /\ ~disordered => old.tokens \in 0..BucketCapacity
  <2>1. CASE key = NoBucket
    <3> old = [tokens |-> BucketCapacity, last |-> now, born |-> now, granted |-> 0]
      BY <2>1
    <3>1. now - now = 0 /\ now - now \in Int /\ second - now \in Int /\ second - now >= 0
      BY <1>0
    <3>2. TokensToAdd(now - now) = 0 /\ TokensToAdd(second - now) >= 0
      BY <3>1, Refills
    <3>3. TokensToAdd(second - now) \in Int
      BY <3>1, Refills
    <3> HIDE DEF old
    <3>4. /\ old.tokens = BucketCapacity /\ old.last = now
          /\ old.born = now /\ old.granted = 0 /\ old \in KeyValues
      BY <1>0 DEF KeyValues
    <3> QED
      BY <1>0, <3>2, <3>3, <3>4
  <2>2. CASE key # NoBucket
    BY <2>2 DEF IntervalInv, RefillIsSound
  <2> QED
    BY <2>1, <2>2
<1> HIDE DEF old
<1>3. /\ old.tokens \in Int /\ old.last \in Nat /\ old.born \in Nat /\ old.granted \in Nat
  BY <1>2 DEF KeyValues
<1>4. /\ TokensToAdd(now - old.last) \in Int /\ TokensToAdd(old.last - old.born) \in Int
      /\ TokensToAdd(now - old.born) \in Int /\ TokensToAdd(second - old.born) \in Int
  <2>1. /\ now - old.last \in Int /\ old.last - old.born \in Int
        /\ now - old.born \in Int /\ second - old.born \in Int
    BY <1>0, <1>3
  <2> QED
    BY <2>1, Refills
<1>5. TokensToAdd(old.last - old.born) + TokensToAdd(now - old.last)
        <= TokensToAdd(now - old.born)
  <2>1. /\ old.last - old.born \in Int /\ now - old.last \in Int
        /\ (old.last - old.born) + (now - old.last) = now - old.born
    BY <1>0, <1>3
  <2> QED
    BY <2>1, Refills
<1>6. TokensToAdd(now - old.born) <= TokensToAdd(second - old.born)
  <2>1. now - old.born \in Int /\ second - old.born \in Int /\ now - old.born <= second - old.born
    BY <1>0, <1>3
  <2> QED
    BY <2>1, Refills
<1>7. ~(now < old.last) => TokensToAdd(now - old.last) >= 0
  <2>1. now - old.last \in Int /\ (~(now < old.last) => now - old.last >= 0)
    BY <1>0, <1>3
  <2> QED
    BY <2>1, Refills
<1>8. /\ key' \in KeyValues /\ key'.tokens = left /\ key'.last = now
      /\ key'.born = old.born /\ key'.granted = given
  <2>1. left \in Int /\ given \in Nat
    BY <1>0, <1>3, <1>4
  <2> HIDE DEF left, given
  <2>2. old = [tokens |-> old.tokens, last |-> old.last, born |-> old.born,
               granted |-> old.granted]
    BY <1>2 DEF KeyValues
  <2>3. key' = [tokens |-> left, last |-> now, born |-> old.born, granted |-> given]
    BY <1>1, <2>2
  <2> QED
    BY <1>0, <1>3, <2>1, <2>3 DEF KeyValues
<1>9. given + left <= BucketCapacity + TokensToAdd(now - old.born)
  BY <1>0, <1>2, <1>3, <1>4, <1>5
<1>10. given <= BucketCapacity + TokensToAdd(second - old.born)
  BY <1>0, <1>2, <1>3, <1>4, <1>6, <1>9
<1>11. ~disordered' => left \in 0..BucketCapacity
  <2>1. ~disordered' => ~disordered /\ ~(now < old.last)
    BY <1>1
  <2>2. ~disordered /\ ~(now < old.last) => left \in 0..BucketCapacity
    <3>1. ~disordered /\ ~(now < old.last) => sum \in Nat
      BY <1>0, <1>2, <1>3, <1>4, <1>7
    <3> QED
      BY <1>0, <3>1
  <2> QED
    BY <2>1, <2>2
<1>12. RefillIsSound'
  BY <1>1, <1>8, <1>9, <1>10, <1>11 DEF RefillIsSound
<1>13. disordered' \in BOOLEAN
  BY <1>1
<1>14. /\ asked' \in [Askers -> Int]
       /\ \A b \in Askers : asked'[b] = -1 \/ asked'[b] \in 0..second'
  BY <1>1 DEF IntervalInv
<1> QED
  BY <1>0, <1>1, <1>8, <1>12, <1>13, <1>14 DEF IntervalInv

\* Every step of the limiter preserves IntervalInv.
LEMMA IntervalInvStep == IntervalInv /\ [IntervalNext]_intervalVars => IntervalInv'
<1> SUFFICES ASSUME IntervalInv, [IntervalNext]_intervalVars PROVE IntervalInv'
  OBVIOUS
<1>1. ASSUME NEW a \in Askers, Ask(a) \/ FailOpen(a)
      PROVE  IntervalInv'
  <2>1. UNCHANGED <<second, key, disordered>> /\ asked' \in [Askers -> Int]
    BY <1>1 DEF Ask, FailOpen, IntervalInv
  <2>2. \A b \in Askers : asked'[b] = -1 \/ asked'[b] \in 0..second'
    BY <1>1 DEF Ask, FailOpen, IntervalInv
  <2>3. RefillIsSound'
    BY <2>1 DEF IntervalInv, RefillIsSound
  <2> QED
    BY <2>1, <2>2, <2>3 DEF IntervalInv
<1>2. CASE NextSecond
  <2>1. UNCHANGED <<key, asked, disordered>> /\ second' = second + 1
    BY <1>2 DEF NextSecond
  <2>2. key # NoBucket => TokensToAdd(second - key.born) <= TokensToAdd(second' - key.born)
    <3>1. key # NoBucket => /\ second - key.born \in Int /\ second' - key.born \in Int
                            /\ second - key.born <= second' - key.born
      BY <2>1 DEF IntervalInv, KeyValues
    <3> QED
      BY <3>1, Refills
  <2>3. key # NoBucket => /\ TokensToAdd(second - key.born) \in Int
                          /\ TokensToAdd(second' - key.born) \in Int
                          /\ key.granted \in Nat
    <3>1. key # NoBucket => /\ second - key.born \in Int /\ second' - key.born \in Int
                            /\ key.granted \in Nat
      BY <2>1 DEF IntervalInv, KeyValues
    <3> QED
      BY <3>1, Refills
  <2>4. key # NoBucket => key'.granted <= BucketCapacity + TokensToAdd(second' - key'.born)
    BY <2>1, <2>2, <2>3, IntervalAssumptions DEF IntervalInv, RefillIsSound
  <2>5. RefillIsSound'
    BY <2>1, <2>4 DEF IntervalInv, RefillIsSound
  <2> QED
    BY <2>1, <2>5 DEF IntervalInv, KeyValues
<1>3. CASE UNCHANGED intervalVars
  BY <1>3 DEF intervalVars, IntervalInv, RefillIsSound
<1> QED
  BY <1>1, <1>2, <1>3, ScriptIsSound DEF IntervalNext

(* The run's property: for every capacity, rate, interval, limit and set of amounts,
   in whatever order scripts run and however requests overlap, the client limiter
   grants within its refills and a quota is overrun by what ran together at most. *)
THEOREM AllowancesHold == Spec => []AllowancesAreSound
<1>1. Init => IntervalInv /\ QuotaInv
  BY IntervalInvInit, QuotaInvInit DEF Init
<1>2. IntervalInv /\ QuotaInv /\ [Next]_vars => IntervalInv' /\ QuotaInv'
  <2>1. [Next]_vars => [IntervalNext]_intervalVars /\ [QuotaNext]_quotaVars
    BY DEF Next, vars
  <2> QED
    BY <2>1, IntervalInvStep, QuotaInvStep
<1>3. QuotaInv => OverrunWithinConcurrency
  <2> SUFFICES ASSUME QuotaInv PROVE OverrunWithinConcurrency
    OBVIOUS
  <2>1. QuotaTypeOK /\ usage \in Nat /\ unread \in Nat /\ QuotaLimit \in Nat
    BY QuotaAssumptions DEF QuotaInv, QuotaTypeOK
  <2>2. usage > 0 => usage < QuotaLimit + Cardinality(QuotaRequests) * Most + unread
    BY <2>1, FewWork DEF QuotaInv
  <2> QED
    BY <2>1, <2>2 DEF OverrunWithinConcurrency, Most
<1>4. IntervalInv /\ QuotaInv => AllowancesAreSound
  BY <1>3 DEF IntervalInv, AllowancesAreSound
<1> QED
  BY <1>1, <1>2, <1>4, PTL DEF Spec

-----------------------------------------------------------------------------
(* Token buckets: for any processes, calls, configurations and amounts, no bucket,
   and not the hash the processes share, ever grants more than its capacity and its
   rate allow. *)
BucketRec == [conf : TierConfigs, tokens : Nat, last : Nat, born : Nat, granted : Nat]
HashRec == [tokens : Int, last : Nat, born : Nat, granted : Nat, confs : SUBSET TierConfigs]
CallRec == [stage : {"sent", "local"}, bucket : Nat, amount : Nat, time : Nat]

\* what b granted and still has is within the rate up to its last refill
Backed(b, conf) == b.granted + b.tokens <= conf.capacity + conf.rate * (b.last - b.born)

\* the bucket objects that may exist at time t
GoodBuckets(t) ==
  {b \in BucketRec : b.tokens <= b.conf.capacity /\ b.last <= t /\ Backed(b, b.conf)}

\* the hashes that may exist at time t
GoodHashes(t) ==
  {h \in HashRec :
     /\ h.last <= t /\ h.confs # {}
     /\ \A conf \in h.confs : h.confs = {conf} =>
          /\ Backed(h, conf)
          /\ h.granted <= conf.capacity + conf.rate * (t - h.born)}

(* What the steps preserve.  WithinRate alone is not inductive: the tokens that are
   left have to be backed as well.  The tokens of the hash may be negative after
   scripts ran out of order, so for the hash both bounds are kept. *)
BucketInv ==
  /\ clock \in 0..MaxTime /\ updates \in 0..MaxUpdates /\ deleting \subseteq RedisProcs
  /\ buckets \in [Procs -> Seq(GoodBuckets(clock))]
  /\ hash # NoKey => hash \in GoodHashes(clock)
  /\ rateCall \in [RateCalls -> {Idle} \cup CallRec]
  /\ \A c \in RateCalls : rateCall[c] # Idle =>
       /\ rateCall[c].bucket \in 1..Len(buckets[ProcOf[c]])
       /\ rateCall[c].time <= clock

\* Refills over adjacent stretches of time add up, and a longer one is no smaller.
LEMMA Rates ==
  ASSUME NEW r \in Nat
  PROVE  /\ \A a, b, c \in Int : r * (a - b) + (c - a) * r = r * (c - b)
         /\ \A x, y \in Int : x <= y => r * x <= r * y
         /\ \A x \in Int : r * x \in Int
OBVIOUS

\* A refill and a grant: what is granted and left stays backed, whichever of the
\* two times is the later one.
LEMMA RefillBacked ==
  ASSUME NEW conf \in TierConfigs, NEW tokens \in Int, NEW granted \in Nat,
         NEW last \in Nat, NEW born \in Nat, NEW time \in Nat,
         granted + tokens <= conf.capacity + conf.rate * (last - born)
  PROVE  LET new == Refilled(tokens, last, time, conf)
         IN  /\ new \in Int /\ new <= conf.capacity
             /\ granted + new <= conf.capacity + conf.rate * (time - born)
             /\ tokens >= 0 /\ last <= time => new >= 0
<1> DEFINE r == conf.rate
           k == conf.capacity
<1>1. r \in Nat /\ k \in Nat
  BY BucketAssumptions
<1> HIDE DEF r, k
<1>2. /\ (time - last) * r \in Int /\ r * (last - born) \in Int /\ r * (time - born) \in Int
      /\ r * (last - born) + (time - last) * r = r * (time - born)
      /\ last <= time => (time - last) * r >= 0
  <2>1. /\ time - last \in Int /\ last - born \in Int /\ time - born \in Int
        /\ (time - last) * r = r * (time - last)
    BY <1>1
  <2>2. r * (last - born) + (time - last) * r = r * (time - born)
    BY <1>1, Rates
  <2>3. last <= time => r * 0 <= r * (time - last)
    BY <1>1, <2>1, Rates
  <2> QED
    BY <1>1, <2>1, <2>2, <2>3, Rates
<1>3. granted + tokens <= k + r * (last - born)
  BY DEF k, r
<1>4. Refilled(tokens, last, time, conf)
        = IF k < tokens + (time - last) * r THEN k ELSE tokens + (time - last) * r
  BY DEF Refilled, AtMost, k, r
<1>5. /\ Refilled(tokens, last, time, conf) \in Int /\ Refilled(tokens, last, time, conf) <= k
      /\ granted + Refilled(tokens, last, time, conf) <= k + r * (time - born)
      /\ tokens >= 0 /\ last <= time => Refilled(tokens, last, time, conf) >= 0
  BY <1>1, <1>2, <1>3, <1>4
<1> QED
  BY <1>5 DEF k, r

\* A new or reset bucket is full and has granted nothing.
LEMMA NewIsGood ==
  ASSUME NEW conf \in TierConfigs, clock \in Nat
  PROVE  NewBucket(conf) \in GoodBuckets(clock)
<1>1. conf.capacity \in Nat /\ conf.rate \in Nat
  BY BucketAssumptions
<1>2. NewBucket(conf) \in BucketRec
  BY <1>1 DEF NewBucket, BucketRec
<1>3. conf.rate * (clock - clock) = 0
  BY <1>1
<1>4. Backed(NewBucket(conf), conf)
  BY <1>1, <1>3 DEF Backed, NewBucket
<1>5. /\ NewBucket(conf).tokens = conf.capacity /\ NewBucket(conf).last = clock
      /\ NewBucket(conf).conf = conf
  BY DEF NewBucket
<1> QED
  BY <1>1, <1>2, <1>4, <1>5 DEF GoodBuckets

\* A bucket that is refilled at the present time and grants n, if it has as many.
LEMMA UsedIsGood ==
  ASSUME clock \in Nat, NEW b \in GoodBuckets(clock), NEW n \in Nat
  PROVE  LET new == Refilled(b.tokens, b.last, clock, b.conf)
             m == IF new >= n THEN n ELSE 0
         IN  [b EXCEPT !.tokens = new - m, !.last = clock, !.granted = @ + m]
               \in GoodBuckets(clock)
<1> DEFINE new == Refilled(b.tokens, b.last, clock, b.conf)
           m == IF new >= n THEN n ELSE 0
<1>1. /\ b \in BucketRec /\ b.conf \in TierConfigs /\ b.tokens \in Nat /\ b.last \in Nat
      /\ b.born \in Nat /\ b.granted \in Nat /\ b.last <= clock
      /\ b.granted + b.tokens <= b.conf.capacity + b.conf.rate * (b.last - b.born)
  BY DEF GoodBuckets, BucketRec, Backed
<1>2. b.conf.capacity \in Nat /\ b.conf.rate \in Nat
  BY <1>1, BucketAssumptions
<1>3. /\ new \in Int /\ new <= b.conf.capacity /\ new >= 0
      /\ b.granted + new <= b.conf.capacity + b.conf.rate * (clock - b.born)
  BY <1>1, RefillBacked
<1> HIDE DEF new
<1>4. /\ new - m \in Nat /\ b.granted + m \in Nat /\ new - m <= b.conf.capacity
      /\ (b.granted + m) + (new - m) = b.granted + new
  BY <1>1, <1>2, <1>3
<1> HIDE DEF m
<1>5. b = [conf |-> b.conf, tokens |-> b.tokens, last |-> b.last, born |-> b.born,
           granted |-> b.granted]
  BY <1>1 DEF BucketRec
<1> DEFINE left == new - m
           given == b.granted + m
           used == [b EXCEPT !.tokens = new - m, !.last = clock, !.granted = @ + m]
<1>b. used = [b EXCEPT !.tokens = left, !.last = clock, !.granted = given]
  OBVIOUS
<1> HIDE DEF used, left, given
<1>c. used = [conf |-> b.conf, tokens |-> left, last |-> clock, born |-> b.born,
              granted |-> given]
  BY <1>5, <1>b
<1>6. used = [conf |-> b.conf, tokens |-> new - m, last |-> clock, born |-> b.born,
              granted |-> b.granted + m]
  BY <1>c DEF left, given
<1>7. /\ used \in BucketRec /\ used.tokens = new - m /\ used.last = clock
      /\ used.conf = b.conf /\ used.born = b.born /\ used.granted = b.granted + m
  BY <1>1, <1>4, <1>6 DEF BucketRec
<1>8. Backed(used, used.conf)
  BY <1>1, <1>2, <1>3, <1>4, <1>7 DEF Backed
<1>9. used \in GoodBuckets(clock)
  BY <1>4, <1>7, <1>8 DEF GoodBuckets
<1> QED
  BY <1>9 DEF used, new, m

\* A bucket that get_state only refills.
LEMMA SeenIsGood ==
  ASSUME clock \in Nat, NEW b \in GoodBuckets(clock)
  PROVE  [b EXCEPT !.tokens = Refilled(b.tokens, b.last, clock, b.conf), !.last = clock]
           \in GoodBuckets(clock)
<1> DEFINE now == Refilled(b.tokens, b.last, clock, b.conf)
           m == IF now >= 0 THEN 0 ELSE 0
<1>1. [b EXCEPT !.tokens = now - m, !.last = clock, !.granted = @ + m] \in GoodBuckets(clock)
  BY UsedIsGood
<1>2. /\ b \in BucketRec /\ b.conf \in TierConfigs /\ b.tokens \in Nat /\ b.last \in Nat
      /\ b.born \in Nat /\ b.granted \in Nat
      /\ b.granted + b.tokens <= b.conf.capacity + b.conf.rate * (b.last - b.born)
  BY DEF GoodBuckets, BucketRec, Backed
<1>3. now \in Int
  <2>1. b.conf.capacity \in Nat /\ b.conf.rate \in Nat
    BY <1>2, BucketAssumptions
  <2>2. (clock - b.last) * b.conf.rate \in Int
    BY <1>2, <2>1
  <2> QED
    BY <1>2, <2>1, <2>2 DEF Refilled, AtMost
<1> HIDE DEF now
<1>4. m = 0 /\ now - m = now /\ b.granted + m = b.granted
  BY <1>2, <1>3
<1> HIDE DEF m
<1>5. [b EXCEPT !.tokens = now, !.last = clock, !.granted = b.granted] \in GoodBuckets(clock)
  BY <1>1, <1>4
<1>6. [b EXCEPT !.tokens = now, !.last = clock, !.granted = b.granted]
        = [b EXCEPT !.tokens = now, !.last = clock]
  BY <1>2 DEF BucketRec
<1> QED
  BY <1>5, <1>6 DEF now

\* What the state says of a call that is under way.
LEMMA CallFacts ==
  ASSUME BucketInv, NEW c \in RateCalls, rateCall[c].stage \in {"sent", "local"}
  PROVE  /\ ProcOf[c] \in Procs
         /\ buckets[ProcOf[c]] \in Seq(GoodBuckets(clock))
         /\ rateCall[c] \in CallRec
         /\ rateCall[c].bucket \in 1..Len(buckets[ProcOf[c]])
         /\ buckets[ProcOf[c]][rateCall[c].bucket] \in GoodBuckets(clock)
         /\ rateCall[c].amount \in Nat
         /\ rateCall[c].time \in Nat /\ rateCall[c].time <= clock
<1>1. rateCall[c] # Idle /\ rateCall[c] \in CallRec
  BY DEF BucketInv, Idle
<1>2. /\ ProcOf[c] \in Procs /\ buckets[ProcOf[c]] \in Seq(GoodBuckets(clock))
      /\ rateCall[c].bucket \in 1..Len(buckets[ProcOf[c]]) /\ rateCall[c].time <= clock
  BY <1>1, BucketAssumptions DEF BucketInv
<1>3. buckets[ProcOf[c]][rateCall[c].bucket] \in GoodBuckets(clock)
  BY <1>2, ElementOfSeq
<1>4. rateCall[c].amount \in Nat /\ rateCall[c].time \in Nat
  BY <1>1 DEF CallRec
<1> QED
  BY <1>1, <1>2, <1>3, <1>4

\* The script keeps the hash backed, whatever the order of the times it is run with.
LEMMA ScriptKeepsHash ==
  ASSUME BucketInv, NEW c \in RateCalls, rateCall[c].stage = "sent"
  PROVE  HashAfter(c) \in GoodHashes(clock)
<1> DEFINE conf == buckets[ProcOf[c]][rateCall[c].bucket].conf
           time == rateCall[c].time
           amount == rateCall[c].amount
           unused == [tokens |-> conf.capacity, last |-> time, born |-> time,
                     granted |-> 0, confs |-> {}]
           old == IF hash = NoKey THEN unused ELSE hash
           new == Refilled(old.tokens, old.last, time, conf)
           n == IF new >= amount THEN amount ELSE 0
<1>0. clock \in Nat
  BY BucketAssumptions DEF BucketInv
<1>1. conf \in TierConfigs /\ time \in Nat /\ time <= clock /\ amount \in Nat
  BY CallFacts DEF GoodBuckets, BucketRec
<1>h. HashAfter(c) = [old EXCEPT !.tokens = new - n, !.last = time, !.granted = @ + n,
                                 !.confs = @ \cup {conf}]
  BY DEF HashAfter
<1> HIDE DEF conf, time, amount
<1>2. conf.capacity \in Nat /\ conf.rate \in Nat
  BY <1>1, BucketAssumptions
<1>3. /\ old \in HashRec
      /\ \A x \in TierConfigs : old.confs \cup {conf} = {x} =>
           /\ x = conf /\ Backed(old, conf)
           /\ old.granted <= conf.capacity + conf.rate * (clock - old.born)
  <2>1. CASE hash = NoKey
    <3>1. old = unused
      BY <2>1
    <3>2. /\ old.tokens = conf.capacity /\ old.last = time /\ old.born = time
          /\ old.granted = 0 /\ old \in HashRec
      BY <1>1, <1>2, <3>1 DEF HashRec
    <3> HIDE DEF old
    <3>3. conf.rate * (time - time) = 0 /\ conf.rate * (clock - time) >= 0
      <4>1. clock - time \in Int /\ 0 <= clock - time /\ conf.rate * 0 = 0 /\ time - time = 0
        BY <1>0, <1>1, <1>2
      <4> QED
        BY <1>2, <4>1, Rates
    <3>4. conf.rate * (clock - time) \in Int
      BY <1>0, <1>1, <1>2
    <3>5. Backed(old, conf) /\ old.granted <= conf.capacity + conf.rate * (clock - old.born)
      BY <1>2, <3>2, <3>3, <3>4 DEF Backed
    <3>6. \A x \in TierConfigs : old.confs \cup {conf} = {x} => x = conf
      OBVIOUS
    <3> QED
      BY <3>2, <3>5, <3>6
  <2>2. CASE hash # NoKey
    <3>1. old = hash /\ hash \in GoodHashes(clock)
      BY <2>2 DEF BucketInv
    <3> HIDE DEF old
    <3>2. old \in HashRec /\ old.confs # {}
      BY <3>1 DEF GoodHashes
    <3>3. ASSUME NEW x \in TierConfigs, old.confs \cup {conf} = {x}
          PROVE  x = conf /\ old.confs = {conf} /\ conf \in old.confs
      BY <3>2, <3>3
    <3> QED
      BY <3>1, <3>2, <3>3 DEF GoodHashes
  <2> QED
    BY <2>1, <2>2
<1> HIDE DEF old
<1>4. /\ old.tokens \in Int /\ old.last \in Nat /\ old.born \in Nat /\ old.granted \in Nat
      /\ old.confs \in SUBSET TierConfigs
  BY <1>3 DEF HashRec
<1>5. /\ new \in Int
      /\ Backed(old, conf) =>
           old.granted + new <= conf.capacity + conf.rate * (time - old.born)
  <2>1. new \in Int
    <3>1. (time - old.last) * conf.rate \in Int
      BY <1>1, <1>2, <1>4
    <3> QED
      BY <1>2, <1>4, <3>1 DEF Refilled, AtMost
  <2>2. ASSUME Backed(old, conf)
        PROVE  old.granted + new <= conf.capacity + conf.rate * (time - old.born)
    <3>1. old.granted + old.tokens <= conf.capacity + conf.rate * (old.last - old.born)
      BY <2>2 DEF Backed
    <3> QED
      BY <1>1, <1>4, <3>1, RefillBacked
  <2> QED
    BY <2>1, <2>2
<1> HIDE DEF new
<1>6. new - n \in Int /\ n \in Nat /\ (new >= n \/ n = 0)
  BY <1>1, <1>5
<1> HIDE DEF n
<1> DEFINE left == new - n
           given == old.granted + n
           seen == old.confs \cup {conf}
<1>7. HashAfter(c) = [old EXCEPT !.tokens = left, !.last = time, !.granted = given,
                                 !.confs = seen]
  BY <1>h
<1>8. left \in Int /\ given \in Nat /\ seen \in SUBSET TierConfigs /\ seen # {}
  BY <1>1, <1>4, <1>6
<1> HIDE DEF left, given, seen
<1>9. old = [tokens |-> old.tokens, last |-> old.last, born |-> old.born,
             granted |-> old.granted, confs |-> old.confs]
  BY <1>3 DEF HashRec
<1>10. HashAfter(c) = [tokens |-> left, last |-> time, born |-> old.born,
                       granted |-> given, confs |-> seen]
  BY <1>7, <1>9
<1> DEFINE h == HashAfter(c)
<1> HIDE DEF h
<1>11. /\ h \in HashRec /\ h.tokens = left /\ h.last = time /\ h.born = old.born
       /\ h.granted = given /\ h.confs = seen
  BY <1>1, <1>4, <1>8, <1>10 DEF HashRec, h
<1>12. ASSUME NEW x \in seen, seen = {x}
       PROVE  /\ Backed(h, x)
              /\ h.granted <= x.capacity + x.rate * (clock - h.born)
  <2>1. /\ x = conf /\ Backed(old, conf)
        /\ old.granted <= conf.capacity + conf.rate * (clock - old.born)
    BY <1>3, <1>8, <1>12 DEF seen
  <2>2. old.granted + new <= conf.capacity + conf.rate * (time - old.born)
    BY <1>5, <2>1
  <2>3. conf.rate * (time - old.born) <= conf.rate * (clock - old.born)
    <3>1. time - old.born \in Int /\ clock - old.born \in Int /\ time - old.born <= clock - old.born
      BY <1>0, <1>1, <1>4
    <3> QED
      BY <1>2, <3>1, Rates
  <2>4. conf.rate * (time - old.born) \in Int /\ conf.rate * (clock - old.born) \in Int
    BY <1>0, <1>1, <1>2, <1>4
  <2>5. given + left <= conf.capacity + conf.rate * (time - old.born)
    BY <1>2, <1>4, <1>5, <1>6, <2>2, <2>4 DEF given, left
  <2>6. given <= conf.capacity + conf.rate * (clock - old.born)
    BY <1>2, <1>4, <1>5, <1>6, <2>1, <2>2, <2>3, <2>4 DEF given
  <2> QED
    BY <1>11, <2>1, <2>5, <2>6 DEF Backed
<1>13. h \in GoodHashes(clock)
  BY <1>1, <1>8, <1>11, <1>12 DEF GoodHashes
<1> QED
  BY <1>13 DEF h

\* What is good stays good while time passes.
LEMMA GoodLater ==
  ASSUME NEW s \in Nat, NEW t \in Nat, s <= t
  PROVE  GoodBuckets(s) \subseteq GoodBuckets(t) /\ GoodHashes(s) \subseteq GoodHashes(t)
<1>1. GoodBuckets(s) \subseteq GoodBuckets(t)
  BY DEF GoodBuckets, BucketRec
<1>2. ASSUME NEW h \in GoodHashes(s) PROVE h \in GoodHashes(t)
  <2>1. h \in HashRec /\ h.last <= t /\ h.confs # {}
    BY DEF GoodHashes, HashRec
  <2>2. ASSUME NEW conf \in h.confs, h.confs = {conf}
        PROVE  Backed(h, conf) /\ h.granted <= conf.capacity + conf.rate * (t - h.born)
    <3>1. Backed(h, conf) /\ h.granted <= conf.capacity + conf.rate * (s - h.born)
      BY <2>2 DEF GoodHashes
    <3>2. conf \in TierConfigs /\ h.born \in Nat /\ h.granted \in Nat
      BY <2>1 DEF HashRec
    <3>3. conf.capacity \in Nat /\ conf.rate \in Nat
      BY <3>2, BucketAssumptions
    <3>4. /\ s - h.born \in Int /\ t - h.born \in Int /\ s - h.born <= t - h.born
      BY <3>2
    <3>5. /\ conf.rate * (s - h.born) <= conf.rate * (t - h.born)
          /\ conf.rate * (s - h.born) \in Int /\ conf.rate * (t - h.born) \in Int
      BY <3>3, <3>4, Rates
    <3> QED
      BY <3>1, <3>2, <3>3, <3>5
  <2> QED
    BY <2>1, <2>2 DEF GoodHashes
<1> QED
  BY <1>1, <1>2

\* Replacing a bucket object by a good one; no object is ever dropped.
LEMMA BucketsReplaced ==
  ASSUME BucketInv, NEW p \in Procs, NEW i \in 1..Len(buckets[p]),
         NEW b \in GoodBuckets(clock), buckets' = [buckets EXCEPT ![p][i] = b]
  PROVE  /\ buckets' \in [Procs -> Seq(GoodBuckets(clock))]
         /\ \A q \in Procs : Len(buckets'[q]) = Len(buckets[q])
<1> DEFINE s == [buckets[p] EXCEPT ![i] = b]
<1>1. buckets[p] \in Seq(GoodBuckets(clock))
  BY DEF BucketInv
<1>2. s \in Seq(GoodBuckets(clock)) /\ Len(s) = Len(buckets[p])
  BY <1>1, ExceptSeq
<1>3. buckets' = [buckets EXCEPT ![p] = s]
  OBVIOUS
<1> HIDE DEF s
<1> QED
  BY <1>2, <1>3 DEF BucketInv

\* Calls go on with the object they began with while the lists only grow.
LEMMA CallsKeepBuckets ==
  ASSUME BucketInv, clock' = clock, rateCall' = rateCall,
         \A q \in Procs : Len(buckets'[q]) \in Nat /\ Len(buckets'[q]) >= Len(buckets[q])
  PROVE  /\ rateCall' \in [RateCalls -> {Idle} \cup CallRec]
         /\ \A c \in RateCalls : rateCall'[c] # Idle =>
              /\ rateCall'[c].bucket \in 1..Len(buckets'[ProcOf[c]])
              /\ rateCall'[c].time <= clock'
<1>1. \A q \in Procs : Len(buckets[q]) \in Nat
  BY LenProperties DEF BucketInv
<1>2. \A c \in RateCalls : ProcOf[c] \in Procs
  BY BucketAssumptions
<1> QED
  BY <1>1, <1>2 DEF BucketInv

\* At first there are no buckets, no hash and no calls.
LEMMA BucketInvInit == BucketInit => BucketInv
<1> SUFFICES ASSUME BucketInit PROVE BucketInv
  OBVIOUS
<1>1. clock \in 0..MaxTime /\ updates \in 0..MaxUpdates /\ deleting \subseteq RedisProcs
  BY BucketAssumptions DEF BucketInit
<1>2. buckets \in [Procs -> Seq(GoodBuckets(clock))]
  BY EmptySeq DEF BucketInit
<1>3. hash = NoKey
  BY DEF BucketInit
<1>4. rateCall \in [RateCalls -> {Idle} \cup CallRec] /\ \A c \in RateCalls : rateCall[c] = Idle
  BY DEF BucketInit
<1> QED
  BY <1>1, <1>2, <1>3, <1>4 DEF BucketInv

\* Every step preserves BucketInv, also when eval raises after its script ran.
LEMMA BucketInvStep == BucketInv /\ [BucketNext]_bucketVars => BucketInv'
<1> SUFFICES ASSUME BucketInv, [BucketNext]_bucketVars PROVE BucketInv'
  OBVIOUS
<1>0. /\ clock \in 0..MaxTime /\ updates \in 0..MaxUpdates /\ deleting \subseteq RedisProcs
      /\ clock \in Nat /\ MaxTime \in Nat /\ MaxUpdates \in Nat
      /\ buckets \in [Procs -> Seq(GoodBuckets(clock))]
      /\ hash # NoKey => hash \in GoodHashes(clock)
      /\ rateCall \in [RateCalls -> {Idle} \cup CallRec]
  BY BucketAssumptions DEF BucketInv
<1>l. \A q \in Procs : Len(buckets[q]) \in Nat
  BY <1>0, LenProperties
<1>p. \A c \in RateCalls : ProcOf[c] \in Procs
  BY BucketAssumptions
<1>c. \A c \in RateCalls : rateCall[c] # Idle =>
        /\ rateCall[c].bucket \in 1..Len(buckets[ProcOf[c]])
        /\ rateCall[c].time <= clock
  BY DEF BucketInv
<1>1. ASSUME NEW c \in RateCalls, NEW conf \in TierConfigs, NEW n \in Amounts,
             CheckRateLimit(c, conf, n)
      PROVE  BucketInv'
  <2> DEFINE p == ProcOf[c]
             bs == WithBucket(p, conf)
             call == [stage |-> IF p \in RedisProcs THEN "sent" ELSE "local",
                      bucket |-> Len(bs), amount |-> n, time |-> clock]
  <2>1. /\ buckets' = [buckets EXCEPT ![p] = bs] /\ rateCall' = [rateCall EXCEPT ![c] = call]
        /\ UNCHANGED <<clock, hash, deleting, updates>>
    BY <1>1 DEF CheckRateLimit
  <2>2. /\ bs \in Seq(GoodBuckets(clock)) /\ Len(bs) \in Nat \ {0}
        /\ Len(bs) >= Len(buckets[p])
    <3>1. CASE buckets[p] = <<>>
      <4>1. bs = <<NewBucket(conf)>>
        BY <3>1 DEF WithBucket
      <4>2. NewBucket(conf) \in GoodBuckets(clock)
        BY <1>0, NewIsGood
      <4>3. Len(buckets[p]) = 0
        BY <3>1
      <4> QED
        BY <4>1, <4>2, <4>3
    <3>2. CASE buckets[p] # <<>>
      <4>1. bs = buckets[p] /\ buckets[p] \in Seq(GoodBuckets(clock))
        BY <1>0, <1>p, <3>2 DEF WithBucket
      <4>2. Len(bs) \in Nat \ {0}
        BY <3>2, <4>1, EmptySeq
      <4> QED
        BY <4>1, <4>2
    <3> QED
      BY <3>1, <3>2
  <2> HIDE DEF bs
  <2>3. call \in CallRec /\ call.bucket = Len(bs) /\ call.time = clock
    BY <1>0, <2>2, BucketAssumptions DEF CallRec
  <2> HIDE DEF call
  <2>4. /\ buckets' \in [Procs -> Seq(GoodBuckets(clock'))] /\ buckets'[p] = bs
        /\ \A q \in Procs : q # p => buckets'[q] = buckets[q]
    BY <1>0, <1>p, <2>1, <2>2
  <2>5. \A q \in Procs : Len(buckets'[q]) \in Nat /\ Len(buckets'[q]) >= Len(buckets[q])
    BY <1>l, <2>2, <2>4
  <2>6. rateCall' \in [RateCalls -> {Idle} \cup CallRec]
    BY <1>0, <2>1, <2>3
  <2>7. ASSUME NEW d \in RateCalls, rateCall'[d] # Idle
        PROVE  /\ rateCall'[d].bucket \in 1..Len(buckets'[ProcOf[d]])
               /\ rateCall'[d].time <= clock'
    <3>1. CASE d = c
      <4>1. rateCall'[d] = call
        BY <1>0, <2>1, <3>1
      <4> QED
        BY <1>0, <2>1, <2>2, <2>3, <2>4, <3>1, <4>1
    <3>2. CASE d # c
      <4>1. rateCall'[d] = rateCall[d]
        BY <1>0, <2>1, <3>2
      <4> QED
        BY <1>c, <1>l, <1>p, <2>1, <2>5, <2>7, <4>1
    <3> QED
      BY <3>1, <3>2
  <2> QED
    BY <1>0, <2>1, <2>4, <2>6, <2>7 DEF BucketInv
<1>2. ASSUME NEW c \in RateCalls, EvalReturns(c)
      PROVE  BucketInv'
  <2>1. hash' \in GoodHashes(clock)
    BY <1>2, ScriptKeepsHash DEF EvalReturns
  <2>2. /\ rateCall' \in [RateCalls -> {Idle} \cup CallRec]
        /\ \A d \in RateCalls : rateCall'[d] # Idle => rateCall'[d] = rateCall[d]
    BY <1>0, <1>2 DEF EvalReturns
  <2> QED
    BY <1>0, <1>2, <1>c, <2>1, <2>2 DEF BucketInv, EvalReturns
<1>3. ASSUME NEW c \in RateCalls, EvalRaises(c)
      PROVE  BucketInv'
  <2>1. hash' # NoKey => hash' \in GoodHashes(clock)
    BY <1>0, <1>3, ScriptKeepsHash DEF EvalRaises
  <2>2. rateCall[c] \in CallRec /\ rateCall[c] # Idle
    BY <1>3, CallFacts DEF EvalRaises, Idle
  <2>3. /\ [rateCall[c] EXCEPT !.stage = "local"] \in CallRec
        /\ [rateCall[c] EXCEPT !.stage = "local"].bucket = rateCall[c].bucket
        /\ [rateCall[c] EXCEPT !.stage = "local"].time = rateCall[c].time
    BY <2>2 DEF CallRec
  <2>4. rateCall' = [rateCall EXCEPT ![c] = [rateCall[c] EXCEPT !.stage = "local"]]
    BY <1>3 DEF EvalRaises
  <2>5. rateCall' \in [RateCalls -> {Idle} \cup CallRec]
    BY <1>0, <2>3, <2>4
  <2>6. \A d \in RateCalls : rateCall'[d] # Idle =>
          /\ rateCall[d] # Idle
          /\ rateCall'[d].bucket = rateCall[d].bucket /\ rateCall'[d].time = rateCall[d].time
    BY <1>0, <2>2, <2>3, <2>4
  <2> QED
    BY <1>0, <1>3, <1>c, <2>1, <2>5, <2>6 DEF BucketInv, EvalRaises
<1>4. ASSUME NEW c \in RateCalls, ConsumeLocal(c)
      PROVE  BucketInv'
  <2> DEFINE p == ProcOf[c]
             i == rateCall[c].bucket
             b == buckets[p][i]
             new == Refilled(b.tokens, b.last, clock, b.conf)
             n == IF new >= rateCall[c].amount THEN rateCall[c].amount ELSE 0
             used == [b EXCEPT !.tokens = new - n, !.last = clock, !.granted = @ + n]
  <2>1. /\ buckets' = [buckets EXCEPT ![p][i] = used]
        /\ rateCall[c].stage = "local" /\ rateCall' = [rateCall EXCEPT ![c] = Idle]
        /\ UNCHANGED <<clock, hash, deleting, updates>>
    BY <1>4 DEF ConsumeLocal
  <2>2. /\ p \in Procs /\ i \in 1..Len(buckets[p]) /\ b \in GoodBuckets(clock)
        /\ rateCall[c].amount \in Nat
    BY <2>1, CallFacts
  <2>3. used \in GoodBuckets(clock)
    BY <1>0, <2>2, UsedIsGood
  <2> HIDE DEF used, p, i
  <2>4. /\ buckets' \in [Procs -> Seq(GoodBuckets(clock))]
        /\ \A q \in Procs : Len(buckets'[q]) = Len(buckets[q])
    BY <2>1, <2>2, <2>3, BucketsReplaced
  <2>5. /\ rateCall' \in [RateCalls -> {Idle} \cup CallRec]
        /\ \A d \in RateCalls : rateCall'[d] # Idle => rateCall'[d] = rateCall[d]
    BY <1>0, <2>1
  <2> QED
    BY <1>0, <1>c, <1>p, <2>1, <2>4, <2>5 DEF BucketInv
<1>5. ASSUME NEW p \in Procs, GetState(p)
      PROVE  BucketInv'
  <2> DEFINE i == Len(buckets[p])
             b == buckets[p][i]
             now == Refilled(b.tokens, b.last, clock, b.conf)
             seen == [b EXCEPT !.tokens = now, !.last = clock]
  <2>1. /\ buckets' = [buckets EXCEPT ![p][i] = seen] /\ buckets[p] # <<>>
        /\ UNCHANGED <<clock, hash, rateCall, deleting, updates>>
    BY <1>5 DEF GetState
  <2>2. i \in 1..Len(buckets[p]) /\ b \in GoodBuckets(clock)
    <3>1. buckets[p] \in Seq(GoodBuckets(clock)) /\ i \in Nat \ {0}
      BY <1>0, <2>1, EmptySeq
    <3> QED
      BY <3>1, ElementOfSeq
  <2>3. seen \in GoodBuckets(clock)
    BY <1>0, <2>2, SeenIsGood
  <2> HIDE DEF seen, i
  <2>4. /\ buckets' \in [Procs -> Seq(GoodBuckets(clock))]
        /\ \A q \in Procs : Len(buckets'[q]) = Len(buckets[q])
    BY <2>1, <2>2, <2>3, BucketsReplaced
  <2> QED
    BY <1>0, <1>c, <1>p, <2>1, <2>4 DEF BucketInv
<1>6. ASSUME NEW p \in Procs, ResetBucket(p)
      PROVE  BucketInv'
  <2> DEFINE i == Len(buckets[p])
             full == NewBucket(buckets[p][i].conf)
  <2>1. /\ buckets' = [buckets EXCEPT ![p][i] = full] /\ buckets[p] # <<>>
        /\ UNCHANGED <<clock, hash, rateCall>>
    BY <1>6 DEF ResetBucket
  <2>2. updates' \in 0..MaxUpdates /\ deleting' \subseteq RedisProcs
    BY <1>0, <1>6 DEF ResetBucket
  <2>3. i \in 1..Len(buckets[p]) /\ buckets[p][i] \in GoodBuckets(clock)
    <3>1. buckets[p] \in Seq(GoodBuckets(clock)) /\ i \in Nat \ {0}
      BY <1>0, <2>1, EmptySeq
    <3> QED
      BY <3>1, ElementOfSeq
  <2>4. full \in GoodBuckets(clock)
    BY <1>0, <2>3, NewIsGood DEF GoodBuckets, BucketRec
  <2> HIDE DEF full, i
  <2>5. /\ buckets' \in [Procs -> Seq(GoodBuckets(clock))]
        /\ \A q \in Procs : Len(buckets'[q]) = Len(buckets[q])
    BY <2>1, <2>3, <2>4, BucketsReplaced
  <2> QED
    BY <1>0, <1>c, <1>p, <2>1, <2>2, <2>5 DEF BucketInv
<1>7. ASSUME NEW p \in Procs, DeleteEnds(p)
      PROVE  BucketInv'
  BY <1>0, <1>7 DEF DeleteEnds, BucketInv
<1>8. ASSUME NEW p \in Procs, NEW conf \in TierConfigs, UpdateTenantTier(p, conf)
      PROVE  BucketInv'
  <2> DEFINE s == Append(buckets[p], NewBucket(conf))
  <2>1. /\ buckets' = [buckets EXCEPT ![p] = s]
        /\ UNCHANGED <<clock, hash, rateCall, deleting>> /\ updates' \in 0..MaxUpdates
    BY <1>0, <1>8 DEF UpdateTenantTier
  <2>2. s \in Seq(GoodBuckets(clock)) /\ Len(s) = Len(buckets[p]) + 1
    BY <1>0, NewIsGood, AppendProperties
  <2> HIDE DEF s
  <2>3. buckets' \in [Procs -> Seq(GoodBuckets(clock))]
    BY <1>0, <2>1, <2>2
  <2>4. \A q \in Procs : Len(buckets'[q]) \in Nat /\ Len(buckets'[q]) >= Len(buckets[q])
    BY <1>0, <1>l, <2>1, <2>2
  <2> QED
    BY <1>0, <2>1, <2>3, <2>4, CallsKeepBuckets DEF BucketInv
<1>9. CASE Tick
  <2>1. /\ clock' = clock + 1 /\ clock' \in 0..MaxTime /\ clock' \in Nat /\ clock <= clock'
        /\ UNCHANGED <<buckets, hash, rateCall, deleting, updates>>
    BY <1>0, <1>9 DEF Tick
  <2>2. /\ GoodBuckets(clock) \subseteq GoodBuckets(clock')
        /\ GoodHashes(clock) \subseteq GoodHashes(clock')
    BY <1>0, <2>1, GoodLater
  <2>3. buckets' \in [Procs -> Seq(GoodBuckets(clock'))]
    <3>1. \A q \in Procs : buckets[q] \in Seq(GoodBuckets(clock'))
      BY <1>0, <2>2, SeqMonotonic
    <3> QED
      BY <1>0, <2>1, <3>1
  <2>4. \A c \in RateCalls : rateCall[c] # Idle => rateCall[c].time <= clock'
    <3>1. \A c \in RateCalls : rateCall[c] # Idle => rateCall[c].time \in Nat
      BY <1>0 DEF CallRec
    <3> QED
      BY <1>0, <1>c, <2>1, <3>1
  <2> QED
    BY <1>0, <1>c, <2>1, <2>2, <2>3, <2>4 DEF BucketInv
<1>10. CASE Expire
  BY <1>0, <1>10 DEF Expire, BucketInv
<1>11. CASE UNCHANGED bucketVars
  BY <1>11 DEF bucketVars, BucketInv
<1> QED
  BY <1>1, <1>2, <1>3, <1>4, <1>5, <1>6, <1>7, <1>8, <1>9, <1>10, <1>11 DEF BucketNext

(* For any processes, configurations and amounts: a bucket object of TokenBucket, and
   the hash its processes share while they agree on the configuration, never grant
   more than their capacity and their rate times their age, in whatever order the
   scripts run and whatever answers, resets and tier updates are lost. *)
THEOREM BucketsKeepTheirRate == BucketSpec => []GrantsWithinRate
<1>1. BucketInv => GrantsWithinRate
  <2> SUFFICES ASSUME BucketInv PROVE GrantsWithinRate
    OBVIOUS
  <2>0. clock \in Nat /\ clock \in 0..MaxTime
    BY BucketAssumptions DEF BucketInv
  <2>1. ASSUME NEW p \in Procs, NEW i \in DOMAIN buckets[p]
        PROVE  buckets[p][i] \in GoodBuckets(clock)
    <3>1. buckets[p] \in Seq(GoodBuckets(clock))
      BY DEF BucketInv
    <3> QED
      BY <2>1, <3>1, LenProperties, ElementOfSeq
  <2>2. ASSUME NEW b \in GoodBuckets(clock)
        PROVE  /\ b.conf \in TierConfigs /\ b.tokens \in 0..b.conf.capacity
               /\ b.last \in 0..clock /\ b.granted \in Nat /\ WithinRate(b, b.conf)
    <3>1. /\ b.conf \in TierConfigs /\ b.tokens \in Nat /\ b.last \in Nat /\ b.born \in Nat
          /\ b.granted \in Nat /\ b.tokens <= b.conf.capacity /\ b.last <= clock
          /\ b.granted + b.tokens <= b.conf.capacity + b.conf.rate * (b.last - b.born)
      BY DEF GoodBuckets, BucketRec, Backed
    <3>2. b.conf.capacity \in Nat /\ b.conf.rate \in Nat
      BY <3>1, BucketAssumptions
    <3>3. /\ b.last - b.born \in Int /\ clock - b.born \in Int
          /\ b.last - b.born <= clock - b.born
      BY <2>0, <3>1
    <3>4. /\ b.conf.rate * (b.last - b.born) <= b.conf.rate * (clock - b.born)
          /\ b.conf.rate * (b.last - b.born) \in Int /\ b.conf.rate * (clock - b.born) \in Int
      BY <3>2, <3>3, Rates
    <3>5. WithinRate(b, b.conf)
      BY <3>1, <3>2, <3>4 DEF WithinRate
    <3> QED
      BY <2>0, <3>1, <3>2, <3>5
  <2>3. hash # NoKey => /\ hash.tokens \in Int /\ hash.last \in 0..clock /\ hash.granted \in Nat
                        /\ \A conf \in hash.confs : hash.confs = {conf} => WithinRate(hash, conf)
    BY <2>0 DEF BucketInv, GoodHashes, HashRec, WithinRate
  <2>4. \A c \in RateCalls : rateCall[c].stage \in {"idle", "sent", "local"}
    BY DEF BucketInv, Idle, CallRec
  <2>5. deleting \subseteq RedisProcs /\ updates \in 0..MaxUpdates
    BY DEF BucketInv
  <2>6. BucketTypeOK
    BY <2>0, <2>1, <2>2, <2>3, <2>4, <2>5 DEF BucketTypeOK
  <2> QED
    BY <2>1, <2>2, <2>3, <2>6 DEF GrantsWithinRate
<1> QED
  BY <1>1, BucketInvInit, BucketInvStep, PTL DEF BucketSpec

-----------------------------------------------------------------------------
(* The fair scheduler. *)

\* What the workers can still take on for t, in processing time.
Slack(t) == (Workers - Cardinality(ActiveOf(t))) * LongestTime

\* The bound of BoundedLag for a waiting tenant u and another tenant t.
WithinLag(u, t) ==
  \/ processingTime[t] <= lead[u][t] + Slack(t)
  \/ processingTime[t] * W(u) <= processingTime[u] * W(t) + Slack(t) * W(u)

\* A request waits in the queue of its own tenant, who has a configuration.
QueuesOwn ==
  \A t \in FairTenants :
    /\ \A i \in DOMAIN tenantQueues[t] : FairTenantOf[tenantQueues[t][i]] = t
    /\ t \in Queued => tenantWeights[t] # NoConfig

WorkersHold == IsFiniteSet(activeRequests) /\ Cardinality(activeRequests) <= Workers

LagsHold ==
  \A u \in Queued : \A t \in FairTenants \ {u} : tenantWeights[t] # NoConfig => WithinLag(u, t)

(* What the steps preserve. *)
FairInv == FairTypeOK /\ QueuesOwn /\ WorkersHold /\ LagsHold

(* The longest time a request may take. *)
LEMMA Longest ==
  /\ LongestTime \in Nat /\ Workers \in Nat
  /\ \A time \in ProcessingTimes : time \in Nat /\ time <= LongestTime
<1>1. \E most \in ProcessingTimes \cup {0} : \A time \in ProcessingTimes \cup {0} : most >= time
  BY FairAssumptions
<1>2. LongestTime \in ProcessingTimes \cup {0}
      /\ \A time \in ProcessingTimes \cup {0} : LongestTime >= time
  BY <1>1 DEF LongestTime, Max
<1> QED BY <1>2, FairAssumptions

(* The weight of a tenant that has a configuration. *)
LEMMA Weights ==
  ASSUME FairTypeOK, NEW t \in FairTenants, tenantWeights[t] # NoConfig
  PROVE  W(t) \in {1, 2, 4, 8}
<1>1. \A tier \in Tiers : Weight(tier) \in {1, 2, 4, 8}
  BY DEF Tiers, Weight
<1> QED BY <1>1, FairAssumptions DEF FairTypeOK, W

(* There is no more at work for a tenant than the workers have in hand. *)
LEMMA SlackIsNat ==
  ASSUME NEW inHand, IsFiniteSet(inHand), Cardinality(inHand) <= Workers, NEW own \in SUBSET inHand
  PROVE  /\ IsFiniteSet(own) /\ Cardinality(own) \in 0..Workers
         /\ (Workers - Cardinality(own)) * LongestTime \in Nat
<1>1. /\ IsFiniteSet(own) /\ Cardinality(own) <= Cardinality(inHand)
      /\ Cardinality(own) \in Nat /\ Cardinality(inHand) \in Nat
  BY FS_Subset, FS_CardinalityType
<1>2. Cardinality(own) \in 0..Workers /\ Workers - Cardinality(own) \in Nat
  BY <1>1, Longest
<1> QED BY <1>1, <1>2, Longest, Products

(* What charging a request does to both sides of the bound. *)
LEMMA LagArithmetic ==
  ASSUME NEW a \in Nat, NEW b \in Nat, NEW s \in Nat, NEW l \in Nat, NEW time \in Nat, time <= l,
         NEW w \in {1, 2, 4, 8}, NEW v \in {1, 2, 4, 8}, a * w <= b * v + s * w
  PROVE  (a + time) * w <= b * v + (s + l) * w /\ a * w <= (b + time) * v + s * w
<1>1. ASSUME NEW x \in Nat, NEW y \in Nat, NEW k \in {1, 2, 4, 8}
      PROVE  (x + y) * k = x * k + y * k /\ x * k \in Nat
  <2>1. CASE k = 1
    BY <2>1
  <2>2. CASE k = 2
    BY <2>2
  <2>3. CASE k = 4
    BY <2>3
  <2>4. CASE k = 8
    BY <2>4
  <2> QED BY <2>1, <2>2, <2>3, <2>4
<1>2. time * w <= l * w /\ time * w \in Nat /\ l * w \in Nat
  <2>1. CASE w = 1
    BY <2>1
  <2>2. CASE w = 2
    BY <2>2
  <2>3. CASE w = 4
    BY <2>3
  <2>4. CASE w = 8
    BY <2>4
  <2> QED BY <2>1, <2>2, <2>3, <2>4
<1>3. /\ (a + time) * w = a * w + time * w /\ a * w \in Nat
      /\ (s + l) * w = s * w + l * w /\ s * w \in Nat
      /\ (b + time) * v = b * v + time * v /\ b * v \in Nat /\ time * v \in Nat
  BY <1>1
<1> HIDE <1>1
<1> QED BY <1>2, <1>3

-----------------------------------------------------------------------------
(* Nobody waits in an empty scheduler. *)
LEMMA FairInvInit == FairInit => FairInv
<1> SUFFICES ASSUME FairInit PROVE FairInv
  OBVIOUS
<1>1. FairTypeOK
  <2>1. <<>> \in Seq(FairRequests) /\ DOMAIN <<>> = {}
    BY EmptySeq
  <2>2. /\ tenantWeights \in [FairTenants -> TenantConfigs \cup {NoConfig}]
        /\ tenantQueues \in [FairTenants -> Seq(FairRequests)]
        /\ processingTime \in [FairTenants -> Nat]
        /\ lead \in [FairTenants -> [FairTenants -> Nat]]
    BY <2>1 DEF FairInit
  <2>3. DOMAIN switches = {}
    BY <2>1 DEF FairInit
  <2> QED BY <2>2, <2>3 DEF FairInit, FairTypeOK
<1>2. Queued = {}
  BY DEF FairInit, Queued
<1>3. QueuesOwn /\ LagsHold
  <2>1. \A t \in FairTenants : DOMAIN tenantQueues[t] = {}
    BY DEF FairInit
  <2> QED BY <1>2, <2>1 DEF QueuesOwn, LagsHold
<1>4. WorkersHold
  BY FS_EmptySet, Longest DEF FairInit, WorkersHold
<1> QED BY <1>1, <1>3, <1>4 DEF FairInv

(* A step that only touches admission control or drops a new request. *)
LEMMA FairFrame ==
  ASSUME FairInv, FairTypeOK',
         UNCHANGED <<tenantWeights, tenantQueues, activeRequests, processingTime, lead>>
  PROVE  FairInv'
<1>1. QueuesOwn' /\ WorkersHold'
  BY DEF FairInv, QueuesOwn, WorkersHold, Queued
<1>2. LagsHold'
  BY DEF FairInv, LagsHold, Queued, WithinLag, Slack, ActiveOf, W
<1> QED BY <1>1, <1>2 DEF FairInv

(* What the degradation level can be. *)
LEMMA LevelsOnly == ASSUME NEW m PROVE DegradationLevel(m) \in Levels
<1>1. LoadLevel(m) \in Levels
  BY DEF LoadLevel, Levels
<1> QED BY <1>1 DEF DegradationLevel, Levels

(* A new configuration starts the comparison afresh. *)
LEMMA ConfigKeeps ==
  ASSUME FairInv, NEW c \in FairTenants, NEW conf \in TenantConfigs, SetTenantConfig(c, conf)
  PROVE  FairInv'
<1>0. FairTypeOK /\ QueuesOwn /\ WorkersHold
  BY DEF FairInv
<1>1. /\ tenantWeights' = [tenantWeights EXCEPT ![c] = conf]
      /\ lead' = [u \in FairTenants |-> processingTime]
      /\ UNCHANGED <<tenantQueues, activeRequests, processingTime, switches, thresholds, fresh>>
  BY DEF SetTenantConfig
<1>2. FairTypeOK'
  <2>1. /\ tenantWeights' \in [FairTenants -> TenantConfigs \cup {NoConfig}]
        /\ lead' \in [FairTenants -> [FairTenants -> Nat]]
    BY <1>0, <1>1 DEF FairTypeOK
  <2> QED BY <1>0, <1>1, <2>1 DEF FairTypeOK
<1>3. QueuesOwn' /\ WorkersHold'
  <2>1. \A t \in FairTenants : tenantWeights[t] # NoConfig => tenantWeights'[t] # NoConfig
    BY <1>0, <1>1, FairAssumptions DEF FairTypeOK
  <2>2. Queued' = Queued
    BY <1>1 DEF Queued
  <2> QED BY <1>0, <1>1, <2>1, <2>2 DEF QueuesOwn, WorkersHold
<1>4. LagsHold'
  <2> SUFFICES ASSUME NEW u \in FairTenants, NEW t \in FairTenants PROVE WithinLag(u, t)'
    BY DEF LagsHold, Queued
  <2>1. ActiveOf(t)' \in SUBSET activeRequests /\ lead'[u][t] = processingTime[t]
    BY <1>1 DEF ActiveOf
  <2>2. Slack(t)' \in Nat /\ processingTime[t] \in Nat
    BY <1>0, <2>1, SlackIsNat DEF WorkersHold, Slack, FairTypeOK
  <2>3. processingTime'[t] <= lead'[u][t] + Slack(t)'
    BY <1>1, <2>1, <2>2
  <2> QED BY <2>3 DEF WithinLag
<1> QED BY <1>2, <1>3, <1>4 DEF FairInv

(* An admitted request waits behind the others of its tenant; a tenant that begins to
   wait is compared with where the others are now. *)
LEMMA AdmitKeeps ==
  ASSUME FairInv, NEW r \in FairRequests, NEW m, NEW tier, AdmitRequest(r, m, tier)
  PROVE  FairInv'
<1>0. FairTypeOK /\ QueuesOwn /\ WorkersHold /\ LagsHold
  BY DEF FairInv
<1> DEFINE o == FairTenantOf[r]
           q == tenantQueues[o]
           lv == DegradationLevel(m)
<1>1. /\ tenantQueues' = [tenantQueues EXCEPT ![o] = Append(@, r)]
      /\ switches' = [x \in DOMAIN switches \cup (IF lv = "normal" THEN {} ELSE {r}) |->
                        IF x = r THEN lv ELSE switches[x]]
      /\ lead' = IF tenantQueues[o] = <<>> THEN [lead EXCEPT ![o] = processingTime] ELSE lead
      /\ fresh' = fresh \ {r} /\ tenantWeights[o] # NoConfig
      /\ UNCHANGED <<tenantWeights, activeRequests, processingTime, thresholds>>
  BY DEF AdmitRequest, HasRoom
<1>2. o \in FairTenants /\ q \in Seq(FairRequests) /\ lv \in Levels
  BY <1>0, FairAssumptions, LevelsOnly DEF FairTypeOK
<1> HIDE DEF lv
<1>3. FairTypeOK'
  <2>1. tenantQueues' \in [FairTenants -> Seq(FairRequests)]
    <3>1. Append(q, r) \in Seq(FairRequests)
      BY <1>2, AppendProperties
    <3> QED BY <1>0, <1>1, <1>2, <3>1 DEF FairTypeOK
  <2>2. DOMAIN switches' \subseteq FairRequests /\ \A x \in DOMAIN switches' : switches'[x] \in Levels
    BY <1>0, <1>1, <1>2 DEF FairTypeOK
  <2>3. lead' \in [FairTenants -> [FairTenants -> Nat]]
    <3>1. CASE tenantQueues[o] = <<>>
      BY <1>0, <1>1, <1>2, <3>1 DEF FairTypeOK
    <3>2. CASE tenantQueues[o] # <<>>
      BY <1>0, <1>1, <3>2 DEF FairTypeOK
    <3> QED BY <3>1, <3>2
  <2> QED BY <1>0, <1>1, <2>1, <2>2, <2>3 DEF FairTypeOK
<1>4. Queued' \subseteq Queued \cup {o}
  BY <1>0, <1>1, <1>2 DEF Queued, FairTypeOK
<1>5. QueuesOwn'
  <2> SUFFICES ASSUME NEW t \in FairTenants
               PROVE  /\ \A i \in DOMAIN tenantQueues'[t] : FairTenantOf[tenantQueues'[t][i]] = t
                      /\ t \in Queued' => tenantWeights'[t] # NoConfig
    BY DEF QueuesOwn
  <2>1. t \in Queued' => tenantWeights'[t] # NoConfig
    BY <1>0, <1>1, <1>4 DEF QueuesOwn
  <2>2. CASE t # o
    <3>1. tenantQueues'[t] = tenantQueues[t]
      BY <1>0, <1>1, <2>2 DEF FairTypeOK
    <3> QED BY <1>0, <2>1, <3>1 DEF QueuesOwn
  <2>3. CASE t = o
    <3>1. tenantQueues'[t] = Append(q, r)
      BY <1>0, <1>1, <1>2, <2>3 DEF FairTypeOK
    <3>2. /\ Append(q, r) \in Seq(FairRequests) /\ Len(Append(q, r)) = Len(q) + 1
          /\ \A i \in 1..Len(q) : Append(q, r)[i] = q[i]
          /\ Append(q, r)[Len(q) + 1] = r
      BY <1>2, AppendProperties
    <3>3. DOMAIN Append(q, r) = 1..(Len(q) + 1) /\ DOMAIN q = 1..Len(q) /\ Len(q) \in Nat
      BY <1>2, <3>2, LenProperties
    <3>4. \A i \in 1..Len(q) : FairTenantOf[q[i]] = o
      BY <1>0, <1>2, <3>3 DEF QueuesOwn
    <3>5. ASSUME NEW i \in 1..(Len(q) + 1) PROVE FairTenantOf[Append(q, r)[i]] = o
      <4>1. CASE i = Len(q) + 1
        BY <3>2, <4>1
      <4>2. CASE i # Len(q) + 1
        <5>1. i \in 1..Len(q)
          BY <3>3, <4>2
        <5> QED BY <3>2, <3>4, <5>1
      <4> QED BY <4>1, <4>2
    <3> HIDE DEF q
    <3> QED BY <2>1, <2>3, <3>1, <3>3, <3>5
  <2> QED BY <2>2, <2>3
<1>6. WorkersHold'
  BY <1>0, <1>1 DEF WorkersHold
<1>7. LagsHold'
  <2> SUFFICES ASSUME NEW u \in Queued', NEW t \in FairTenants \ {u}, tenantWeights'[t] # NoConfig
               PROVE  WithinLag(u, t)'
    BY DEF LagsHold
  <2>0. /\ Slack(t)' = Slack(t) /\ W(t)' = W(t) /\ W(u)' = W(u) /\ u \in FairTenants
    BY <1>1 DEF Slack, ActiveOf, W, Queued
  <2>1. CASE u = o /\ tenantQueues[o] = <<>>
    <3>1. lead'[u][t] = processingTime[t]
      BY <1>0, <1>1, <1>2, <2>1 DEF FairTypeOK
    <3>2. ActiveOf(t) \in SUBSET activeRequests
      BY DEF ActiveOf
    <3>3. Slack(t) \in Nat /\ processingTime[t] \in Nat
      BY <1>0, <3>2, SlackIsNat DEF WorkersHold, Slack, FairTypeOK
    <3>4. processingTime'[t] <= lead'[u][t] + Slack(t)'
      BY <1>1, <2>0, <3>1, <3>3
    <3> QED BY <3>4 DEF WithinLag
  <2>2. CASE ~(u = o /\ tenantQueues[o] = <<>>)
    <3>1. u \in Queued
      BY <1>2, <1>4, <2>2 DEF Queued
    <3>2. lead'[u] = lead[u]
      BY <1>0, <1>1, <2>0, <2>2 DEF FairTypeOK
    <3>3. WithinLag(u, t)
      BY <1>0, <1>1, <3>1 DEF LagsHold
    <3> QED BY <1>1, <2>0, <3>2, <3>3 DEF WithinLag
  <2> QED BY <2>1, <2>2
<1> QED BY <1>3, <1>5, <1>6, <1>7 DEF FairInv

(* The tenant that is served is not ahead of any that waits, so what it may still be
   charged does not matter. *)
LEMMA GetNextKeeps ==
  ASSUME FairInv, NEW o \in FairTenants, GetNextRequest(o)
  PROVE  FairInv'
<1>0. FairTypeOK /\ QueuesOwn /\ WorkersHold /\ LagsHold
  BY DEF FairInv
<1> DEFINE q == tenantQueues[o]
           r == Head(q)
<1>1. /\ Cardinality(activeRequests) < Workers /\ o \in Queued /\ Preferred(o)
      /\ activeRequests' = activeRequests \cup {r} /\ switches' = Without(switches, r)
      /\ tenantQueues' = [tenantQueues EXCEPT ![o] = Tail(@)]
      /\ UNCHANGED <<tenantWeights, processingTime, thresholds, fresh, lead>>
  BY DEF GetNextRequest
<1>2. q \in Seq(FairRequests) /\ q # <<>>
  BY <1>0, <1>1 DEF FairTypeOK, Queued
<1>3. /\ r \in FairRequests /\ Tail(q) \in Seq(FairRequests) /\ Len(Tail(q)) = Len(q) - 1
      /\ \A i \in 1..Len(Tail(q)) : Tail(q)[i] = q[i + 1]
      /\ DOMAIN q = 1..Len(q) /\ Len(q) \in Nat /\ Len(q) > 0 /\ r = q[1]
      /\ DOMAIN Tail(q) = 1..Len(Tail(q))
  <2>1. /\ r \in FairRequests /\ Tail(q) \in Seq(FairRequests) /\ Len(Tail(q)) = Len(q) - 1
        /\ \A i \in 1..Len(Tail(q)) : Tail(q)[i] = q[i + 1]
    BY <1>2, HeadTailProperties
  <2>2. DOMAIN q = 1..Len(q) /\ Len(q) \in Nat /\ DOMAIN Tail(q) = 1..Len(Tail(q))
    BY <1>2, <2>1, LenProperties
  <2>3. Len(q) > 0 /\ r = q[1]
    BY <1>2, <2>2, EmptySeq
  <2> QED BY <2>1, <2>2, <2>3
<1>4. \A i \in 1..Len(q) : FairTenantOf[q[i]] = o
  BY <1>0, <1>3 DEF QueuesOwn
<1>5. FairTenantOf[r] = o
  BY <1>3, <1>4
<1> HIDE DEF r, q
<1>6. FairTypeOK'
  <2>1. tenantQueues' \in [FairTenants -> Seq(FairRequests)]
    BY <1>0, <1>1, <1>3 DEF FairTypeOK, q
  <2>2. DOMAIN switches' \subseteq FairRequests /\ \A x \in DOMAIN switches' : switches'[x] \in Levels
    BY <1>0, <1>1 DEF FairTypeOK, Without
  <2>3. activeRequests' \subseteq FairRequests
    BY <1>0, <1>1, <1>3 DEF FairTypeOK
  <2> QED BY <1>0, <1>1, <2>1, <2>2, <2>3 DEF FairTypeOK
<1>7. Queued' \subseteq Queued
  BY <1>0, <1>1 DEF Queued, FairTypeOK
<1>8. QueuesOwn'
  <2> SUFFICES ASSUME NEW t \in FairTenants
               PROVE  \A i \in DOMAIN tenantQueues'[t] : FairTenantOf[tenantQueues'[t][i]] = t
    BY <1>0, <1>1, <1>7 DEF QueuesOwn
  <2>1. CASE t # o
    <3>1. tenantQueues'[t] = tenantQueues[t]
      BY <1>0, <1>1, <2>1 DEF FairTypeOK
    <3> QED BY <1>0, <3>1 DEF QueuesOwn
  <2>2. CASE t = o
    <3>1. tenantQueues'[t] = Tail(q)
      BY <1>0, <1>1, <2>2 DEF FairTypeOK, q
    <3>2. \A i \in 1..Len(Tail(q)) : i + 1 \in 1..Len(q)
      BY <1>3
    <3> QED BY <1>3, <1>4, <2>2, <3>1, <3>2
  <2> QED BY <2>1, <2>2
<1>9. WorkersHold'
  <2>1. /\ IsFiniteSet(activeRequests) /\ Cardinality(activeRequests) \in Nat
    BY <1>0, FS_CardinalityType DEF WorkersHold
  <2>2. /\ IsFiniteSet(activeRequests \cup {r})
        /\ \/ Cardinality(activeRequests \cup {r}) = Cardinality(activeRequests)
           \/ Cardinality(activeRequests \cup {r}) = Cardinality(activeRequests) + 1
    BY <2>1, FS_AddElement
  <2> QED BY <1>1, <2>1, <2>2, Longest DEF WorkersHold
<1>10. LagsHold'
  <2> SUFFICES ASSUME NEW u \in Queued', NEW t \in FairTenants \ {u}, tenantWeights'[t] # NoConfig
               PROVE  WithinLag(u, t)'
    BY DEF LagsHold
  <2>1. u \in Queued /\ u \in FairTenants /\ tenantWeights[t] # NoConfig
    BY <1>1, <1>7 DEF Queued
  <2>2. WithinLag(u, t) /\ W(t)' = W(t) /\ W(u)' = W(u)
    BY <1>0, <1>1, <2>1 DEF LagsHold, W
  <2>3. CASE t # o
    <3>1. Slack(t)' = Slack(t)
      <4>1. ActiveOf(t)' = ActiveOf(t)
        BY <1>1, <1>5, <2>3 DEF ActiveOf
      <4> QED BY <4>1 DEF Slack
    <3> QED BY <1>1, <2>2, <3>1 DEF WithinLag
  <2>4. CASE t = o
    <3>1. ActiveOf(t)' \in SUBSET activeRequests'
      BY DEF ActiveOf
    <3>2. Slack(t)' \in Nat
      BY <1>9, <3>1, SlackIsNat DEF WorkersHold, Slack
    <3>3. W(t) \in Nat /\ W(u) \in Nat /\ processingTime[t] \in Nat /\ processingTime[u] \in Nat
      <4>1. tenantWeights[u] # NoConfig
        BY <1>0, <2>1 DEF QueuesOwn
      <4>2. W(t) \in {1, 2, 4, 8} /\ W(u) \in {1, 2, 4, 8}
        BY <1>0, <2>1, <4>1, Weights
      <4>3. \A w \in {1, 2, 4, 8} : w \in Nat
        OBVIOUS
      <4>4. W(t) \in Nat /\ W(u) \in Nat
        BY <4>2, <4>3
      <4> QED BY <1>0, <2>1, <4>4 DEF FairTypeOK
    <3>4. processingTime[t] * W(u) <= processingTime[u] * W(t)
      <4>1. /\ processingTime[t] * W(u) \in Nat /\ processingTime[u] * W(t) \in Nat
        BY <3>3, Products
      <4>2. Before(t, u) \/ SameTime(t, u)
        BY <1>1, <2>1, <2>4 DEF Preferred
      <4> QED BY <4>1, <4>2 DEF Before, SameTime
    <3>5. /\ processingTime[t] * W(u) \in Nat /\ processingTime[u] * W(t) \in Nat
          /\ Slack(t)' * W(u) \in Nat
      BY <3>2, <3>3, Products
    <3>6. processingTime[t] * W(u) <= processingTime[u] * W(t) + Slack(t)' * W(u)
      BY <3>4, <3>5
    <3> QED BY <1>1, <2>2, <3>6 DEF WithinLag
  <2> QED BY <2>3, <2>4
<1> QED BY <1>6, <1>8, <1>9, <1>10 DEF FairInv

(* What a completed request is charged was in the slack of its tenant, who gets it back
   as room for one more. *)
LEMMA CompleteKeeps ==
  ASSUME FairInv, NEW r \in FairRequests, NEW time \in ProcessingTimes, CompleteRequest(r, time)
  PROVE  FairInv'
<1>0. FairTypeOK /\ QueuesOwn /\ WorkersHold /\ LagsHold
  BY DEF FairInv
<1> DEFINE o == FairTenantOf[r]
<1>1. /\ r \in activeRequests /\ activeRequests' = activeRequests \ {r}
      /\ processingTime' = [processingTime EXCEPT ![o] = @ + time]
      /\ switches' = Without(switches, r)
      /\ UNCHANGED <<tenantWeights, tenantQueues, thresholds, fresh, lead>>
  BY DEF CompleteRequest
<1>2. o \in FairTenants /\ time \in Nat /\ time <= LongestTime /\ LongestTime \in Nat
  BY FairAssumptions, Longest
<1>3. /\ processingTime'[o] = processingTime[o] + time /\ processingTime[o] \in Nat
      /\ \A x \in FairTenants : x # o => processingTime'[x] = processingTime[x]
      /\ \A x \in FairTenants : processingTime[x] \in Nat
  BY <1>0, <1>1, <1>2 DEF FairTypeOK
<1> HIDE DEF o
<1>4. FairTypeOK'
  <2>1. processingTime' \in [FairTenants -> Nat]
    <3>1. processingTime[o] + time \in Nat
      BY <1>2, <1>3
    <3> QED BY <1>0, <1>1, <1>2, <3>1 DEF FairTypeOK
  <2>2. DOMAIN switches' \subseteq FairRequests /\ \A x \in DOMAIN switches' : switches'[x] \in Levels
    BY <1>0, <1>1 DEF FairTypeOK, Without
  <2> QED BY <1>0, <1>1, <2>1, <2>2 DEF FairTypeOK
<1>5. Queued' = Queued /\ QueuesOwn'
  <2>1. Queued' = Queued
    BY <1>1 DEF Queued
  <2> QED BY <1>0, <1>1, <2>1 DEF QueuesOwn
<1>6. WorkersHold'
  <2>1. /\ IsFiniteSet(activeRequests') /\ Cardinality(activeRequests') <= Cardinality(activeRequests)
        /\ Cardinality(activeRequests') \in Nat /\ Cardinality(activeRequests) \in Nat
    BY <1>0, <1>1, FS_Subset, FS_CardinalityType DEF WorkersHold
  <2> QED BY <1>0, <2>1, Longest DEF WorkersHold
<1>7. ASSUME NEW t \in FairTenants
      PROVE  /\ Slack(t) \in Nat
             /\ Slack(t)' = IF t = o THEN Slack(t) + LongestTime ELSE Slack(t)
  <2>1. ActiveOf(t) \in SUBSET activeRequests
    BY DEF ActiveOf
  <2>2. IsFiniteSet(ActiveOf(t)) /\ Cardinality(ActiveOf(t)) \in 0..Workers /\ Slack(t) \in Nat
    BY <1>0, <2>1, SlackIsNat DEF WorkersHold, Slack
  <2>3. CASE t # o
    <3>1. ActiveOf(t)' = ActiveOf(t)
      BY <1>1, <2>3 DEF ActiveOf, o
    <3> QED BY <2>2, <2>3, <3>1 DEF Slack
  <2>4. CASE t = o
    <3>1. ActiveOf(t)' = ActiveOf(t) \ {r} /\ r \in ActiveOf(t)
      BY <1>1, <2>4 DEF ActiveOf, o
    <3>2. Cardinality(ActiveOf(t)') = Cardinality(ActiveOf(t)) - 1
      BY <2>2, <3>1, FS_RemoveElement
    <3> DEFINE n == Workers - Cardinality(ActiveOf(t))
    <3>3. n \in Nat /\ Workers - Cardinality(ActiveOf(t)') = n + 1
      BY <2>2, <3>2, Longest
    <3>4. (n + 1) * LongestTime = n * LongestTime + LongestTime
      <4> HIDE DEF n
      <4> QED BY <1>2, <3>3, Products
    <3>5. Slack(t) = n * LongestTime /\ Slack(t)' = (n + 1) * LongestTime
      BY <3>3 DEF Slack
    <3> QED BY <2>2, <2>4, <3>4, <3>5
  <2> QED BY <2>3, <2>4
<1>8. LagsHold'
  <2> SUFFICES ASSUME NEW u \in Queued, NEW t \in FairTenants \ {u}, tenantWeights[t] # NoConfig
               PROVE  WithinLag(u, t)'
    BY <1>1, <1>5 DEF LagsHold
  <2>1. u \in FairTenants /\ tenantWeights[u] # NoConfig /\ WithinLag(u, t)
    BY <1>0 DEF QueuesOwn, LagsHold, Queued
  <2>2. W(t) \in {1, 2, 4, 8} /\ W(u) \in {1, 2, 4, 8} /\ W(t)' = W(t) /\ W(u)' = W(u)
    BY <1>0, <1>1, <2>1, Weights DEF W
  <2>3. /\ processingTime[t] \in Nat /\ processingTime[u] \in Nat /\ Slack(t) \in Nat
        /\ lead[u][t] \in Nat
    BY <1>0, <1>3, <1>7, <2>1 DEF FairTypeOK
  <2>4. CASE processingTime[t] <= lead[u][t] + Slack(t)
    <3>1. processingTime'[t] <= lead[u][t] + Slack(t)'
      <4>1. CASE t = o
        <5>1. processingTime'[t] = processingTime[t] + time /\ Slack(t)' = Slack(t) + LongestTime
          BY <1>3, <1>7, <4>1
        <5> QED BY <1>2, <2>3, <2>4, <5>1
      <4>2. CASE t # o
        <5>1. processingTime'[t] = processingTime[t] /\ Slack(t)' = Slack(t)
          BY <1>3, <1>7, <4>2
        <5> QED BY <2>4, <5>1
      <4> QED BY <4>1, <4>2
    <3> QED BY <1>1, <3>1 DEF WithinLag
  <2>5. CASE processingTime[t] * W(u) <= processingTime[u] * W(t) + Slack(t) * W(u)
    <3>1. /\ (processingTime[t] + time) * W(u)
               <= processingTime[u] * W(t) + (Slack(t) + LongestTime) * W(u)
          /\ processingTime[t] * W(u) <= (processingTime[u] + time) * W(t) + Slack(t) * W(u)
      BY <1>2, <2>2, <2>3, <2>5, LagArithmetic
    <3>2. processingTime'[t] * W(u) <= processingTime'[u] * W(t) + Slack(t)' * W(u)
      <4>1. CASE t = o
        <5>1. /\ processingTime'[t] = processingTime[t] + time
              /\ processingTime'[u] = processingTime[u] /\ Slack(t)' = Slack(t) + LongestTime
          BY <1>3, <1>7, <2>1, <4>1
        <5> QED BY <3>1, <5>1
      <4>2. CASE u = o
        <5>1. /\ processingTime'[t] = processingTime[t]
              /\ processingTime'[u] = processingTime[u] + time /\ Slack(t)' = Slack(t)
          BY <1>3, <1>7, <2>1, <4>2
        <5> QED BY <3>1, <5>1
      <4>3. CASE t # o /\ u # o
        <5>1. /\ processingTime'[t] = processingTime[t]
              /\ processingTime'[u] = processingTime[u] /\ Slack(t)' = Slack(t)
          BY <1>3, <1>7, <2>1, <4>3
        <5> QED BY <2>5, <5>1
      <4> QED BY <4>1, <4>2, <4>3
    <3> QED BY <2>2, <3>2 DEF WithinLag
  <2> QED BY <2>1, <2>4, <2>5 DEF WithinLag
<1> QED BY <1>4, <1>5, <1>6, <1>8 DEF FairInv

-----------------------------------------------------------------------------
(* Every call of the middleware preserves the invariant. *)
LEMMA FairInvStep == FairInv /\ [FairNext]_fairVars => FairInv'
<1> SUFFICES ASSUME FairInv, [FairNext]_fairVars PROVE FairInv'
  OBVIOUS
<1>0. FairTypeOK
  BY DEF FairInv
<1>1. ASSUME NEW th \in ThresholdChoices, UpdateThresholds(th) PROVE FairInv'
  <2>1. FairTypeOK'
    BY <1>0, <1>1 DEF UpdateThresholds, FairTypeOK
  <2> QED BY <1>1, <2>1, FairFrame DEF UpdateThresholds
<1>2. ASSUME NEW r \in FairRequests, NEW m, NEW tier, RejectRequest(r, m, tier) PROVE FairInv'
  <2>1. FairTypeOK'
    BY <1>0, <1>2 DEF RejectRequest, FairTypeOK
  <2> QED BY <1>2, <2>1, FairFrame DEF RejectRequest
<1>3. ASSUME UNCHANGED fairVars PROVE FairInv'
  <2>1. FairTypeOK'
    BY <1>0, <1>3 DEF fairVars, FairTypeOK
  <2> QED BY <1>3, <2>1, FairFrame DEF fairVars
<1> QED BY <1>1, <1>2, <1>3, ConfigKeeps, AdmitKeeps, GetNextKeeps, CompleteKeeps DEF FairNext

(* Weighted fairness of dequeue_request, for every number of tenants, requests, workers
   and processing times: while a tenant waits, no other gets further ahead of it in
   virtual time than by what the workers can have had in hand. *)
THEOREM LagIsBounded == Spec => []BoundedLag
<1>1. Init => FairInv
  BY FairInvInit DEF Init
<1>2. FairInv /\ [Next]_vars => FairInv'
  <2>1. [Next]_vars => [FairNext]_fairVars
    BY DEF Next, vars
  <2> QED BY <2>1, FairInvStep
<1>3. FairInv => BoundedLag
  BY DEF FairInv, LagsHold, WithinLag, Slack, BoundedLag
<1> QED BY <1>1, <1>2, <1>3, PTL DEF Spec

-----------------------------------------------------------------------------
(***************************************************************************)
(* The write-ahead log of WalAdapter, for any calls with the same key, any *)
(* number of attempts and crashes, and any failures of Redis: what a crash *)
(* interrupts stays recoverable, callers are told the truth, and an        *)
(* operation takes effect again only for one of the named reasons.         *)
(***************************************************************************)
UnderWayStages == {"operate", "mark", "unmark"}
BeforeEffect == {"idle", "hit", "queue", "rejected", "error", "log", "operate", "unmark"}
AfterEffect == {"mark", "cache", "returned"}
Stages == BeforeEffect \cup AfterEffect \cup {"lost"}

WalTypeOK ==
  /\ callAt \in [WalCalls -> [stage : Stages, attempt : 1..WalAttempts]]
  /\ wal \in [WalEntries -> {"none", "pending", "completed", "failed"}]
  /\ replaying \in [todo : SUBSET WalEntries, done : SUBSET WalEntries]
  /\ ownEffects \in [WalCalls -> Nat]
  /\ replayed \in [WalEntries -> [tries : Nat, effects : Nat]]
  /\ unlogged \subseteq WalEntries /\ interrupted \subseteq WalEntries
  /\ overlapped \subseteq WalEntries

\* a call takes effect once, between its operation and the end
EffectsMatch ==
  \A c \in WalCalls :
    /\ callAt[c].stage \in BeforeEffect => ownEffects[c] = 0
    /\ callAt[c].stage \in AfterEffect => ownEffects[c] = 1

\* the process forgot every call that a crash interrupted
LostForGood == \A e \in interrupted : callAt[e[1]].stage = "lost"

\* e was executed by recovery or has not been given up
Recoverable(e) ==
  \/ wal[e] = "pending"
  \/ wal[e] = "completed" /\ ownEffects[e[1]] + replayed[e].effects > 0

\* the entry of an attempt under way, before and after a crash
AttemptsLogged ==
  /\ \A c \in UnderWay : EntryOf(c) \notin unlogged =>
       \/ wal[EntryOf(c)] = "pending"
       \/ wal[EntryOf(c)] = "completed" /\ replayed[EntryOf(c)].effects > 0
  /\ \A e \in interrupted \ unlogged : Recoverable(e)

\* entries that an execution by recovery can be blamed on
Known == interrupted \cup unlogged \cup overlapped

PendingExplained ==
  \A e \in WalEntries : wal[e] = "pending" =>
    e \in interrupted \cup unlogged \/ \E c \in UnderWay : e = EntryOf(c)

ReplaysExplained ==
  /\ replaying.todo \subseteq Known /\ replaying.done \subseteq Known
  /\ \A e \in replaying.done : replayed[e].effects > 0
  /\ \A e \in WalEntries : replayed[e].effects > 0 => e \in Known

(* What the steps preserve.  The property speaks of interrupted attempts; before the
   crash the same has to hold of those under way, and why an entry is pending
   explains why it is replayed. *)
WalInv ==
  /\ WalTypeOK /\ EffectsMatch /\ LostForGood
  /\ AttemptsLogged /\ PendingExplained /\ ReplaysExplained

\* Before the first call the log is empty.
LEMMA WalInvInit == WalInit => WalInv
<1> SUFFICES ASSUME WalInit PROVE WalInv
  OBVIOUS
<1>1. WalTypeOK
  BY WalAssumptions DEF WalInit, WalTypeOK, NoReplay, Stages, BeforeEffect
<1>2. EffectsMatch
  BY DEF WalInit, EffectsMatch, AfterEffect
<1>3. UnderWay = {} /\ interrupted = {}
  BY DEF WalInit, UnderWay
<1>4. LostForGood /\ AttemptsLogged
  BY <1>3 DEF LostForGood, AttemptsLogged
<1>5. PendingExplained /\ ReplaysExplained
  BY DEF WalInit, PendingExplained, ReplaysExplained, NoReplay
<1> QED
  BY <1>1, <1>2, <1>4, <1>5 DEF WalInv

\* What Goes changes: the stage of one call, and no call's attempt.
LEMMA StageChanges ==
  ASSUME WalTypeOK, NEW c \in WalCalls, NEW s \in Stages, Goes(c, s)
  PROVE  /\ callAt' \in [WalCalls -> [stage : Stages, attempt : 1..WalAttempts]]
         /\ callAt'[c].stage = s /\ callAt'[c].attempt = callAt[c].attempt
         /\ \A d \in WalCalls : d # c => callAt'[d] = callAt[d]
<1>1. callAt[c] \in [stage : Stages, attempt : 1..WalAttempts]
  BY DEF WalTypeOK
<1> DEFINE moved == [callAt[c] EXCEPT !.stage = s]
<1>2. callAt' = [callAt EXCEPT ![c] = moved]
  BY DEF Goes
<1>3. /\ moved \in [stage : Stages, attempt : 1..WalAttempts]
      /\ moved.stage = s /\ moved.attempt = callAt[c].attempt
  BY <1>1
<1> HIDE DEF moved
<1> QED
  BY <1>2, <1>3 DEF WalTypeOK

\* A step that only moves one call on, and leaves the log and its history alone.
LEMMA StageOnly ==
  ASSUME WalInv, NEW c \in WalCalls, NEW s \in Stages, Goes(c, s),
         callAt[c].stage # "lost",
         callAt[c].stage \in UnderWayStages <=> s \in UnderWayStages,
         UNCHANGED <<wal, replaying, replayed, unlogged, interrupted, overlapped>>,
         ownEffects' \in [WalCalls -> Nat],
         \A d \in WalCalls : ownEffects'[d] >= ownEffects[d],
         \A d \in WalCalls : d # c => ownEffects'[d] = ownEffects[d],
         s \in BeforeEffect => ownEffects'[c] = 0,
         s \in AfterEffect => ownEffects'[c] = 1
  PROVE  WalInv'
<1>0. /\ WalTypeOK /\ EffectsMatch /\ LostForGood
      /\ AttemptsLogged /\ PendingExplained /\ ReplaysExplained
  BY DEF WalInv
<1>1. /\ callAt' \in [WalCalls -> [stage : Stages, attempt : 1..WalAttempts]]
      /\ callAt'[c].stage = s /\ callAt'[c].attempt = callAt[c].attempt
      /\ \A d \in WalCalls : d # c => callAt'[d] = callAt[d]
  BY <1>0, StageChanges
<1>2. UnderWay' = UnderWay
  BY <1>1 DEF UnderWay, UnderWayStages
<1>3. \A d \in WalCalls : EntryOf(d)' = EntryOf(d)
  BY <1>1 DEF EntryOf
<1>4. WalTypeOK'
  BY <1>0, <1>1 DEF WalTypeOK
<1>5. EffectsMatch'
  BY <1>0, <1>1 DEF EffectsMatch
<1>6. LostForGood'
  <2>1. \A e \in interrupted : e[1] \in WalCalls /\ e[1] # c
    BY <1>0 DEF LostForGood, WalTypeOK, WalEntries
  <2> QED
    BY <1>0, <1>1, <2>1 DEF LostForGood
<1>7. AttemptsLogged'
  <2>1. \A d \in UnderWay : d \in WalCalls
    BY DEF UnderWay
  <2>2. ASSUME NEW e \in interrupted \ unlogged PROVE Recoverable(e)'
    <3>1. /\ e[1] \in WalCalls /\ ownEffects[e[1]] \in Nat /\ ownEffects'[e[1]] \in Nat
          /\ replayed[e].effects \in Nat /\ ownEffects'[e[1]] >= ownEffects[e[1]]
      BY <1>0 DEF WalTypeOK, WalEntries
    <3>2. Recoverable(e)
      BY <1>0 DEF AttemptsLogged
    <3> QED
      BY <3>1, <3>2 DEF Recoverable
  <2> QED
    BY <1>0, <1>2, <1>3, <2>1, <2>2 DEF AttemptsLogged
<1>8. PendingExplained'
  <2>1. \A d \in UnderWay : d \in WalCalls
    BY DEF UnderWay
  <2> QED
    BY <1>0, <1>2, <1>3, <2>1 DEF PendingExplained
<1>9. ReplaysExplained'
  BY <1>0 DEF ReplaysExplained, Known
<1> QED
  BY <1>4, <1>5, <1>6, <1>7, <1>8, <1>9 DEF WalInv

\* A step in which call c moves on and only its own entry of the log changes: the
\* entry is explained afterwards, and logged while the attempt is under way.
LEMMA OwnEntryOnly ==
  ASSUME WalInv, NEW c \in WalCalls, callAt[c].stage # "lost",
         callAt' \in [WalCalls -> [stage : Stages, attempt : 1..WalAttempts]],
         \A d \in WalCalls : d # c => callAt'[d] = callAt[d],
         wal' \in [WalEntries -> {"none", "pending", "completed", "failed"}],
         \A f \in WalEntries : f # EntryOf(c) => wal'[f] = wal[f],
         unlogged \subseteq unlogged', unlogged' \subseteq unlogged \cup {EntryOf(c)},
         UNCHANGED <<replaying, ownEffects, replayed, interrupted, overlapped>>,
         callAt'[c].stage \in BeforeEffect => ownEffects[c] = 0,
         callAt'[c].stage \in AfterEffect => ownEffects[c] = 1,
         wal'[EntryOf(c)] = "pending" =>
           EntryOf(c) \in unlogged' \/ (c \in UnderWay' /\ EntryOf(c)' = EntryOf(c)),
         c \in UnderWay' => EntryOf(c)' = EntryOf(c)
                            /\ (EntryOf(c) \in unlogged' \/ wal'[EntryOf(c)] = "pending")
  PROVE  WalInv'
<1>0. /\ WalTypeOK /\ EffectsMatch /\ LostForGood
      /\ AttemptsLogged /\ PendingExplained /\ ReplaysExplained
  BY DEF WalInv
<1>e. EntryOf(c) \in WalEntries /\ EntryOf(c)[1] = c
  BY <1>0 DEF WalTypeOK, WalEntries, EntryOf
<1>i. \A e \in interrupted : e \in WalEntries /\ e[1] \in WalCalls /\ e[1] # c /\ e # EntryOf(c)
  BY <1>0, <1>e DEF LostForGood, WalTypeOK, WalEntries
<1>d. ASSUME NEW d \in WalCalls, d # c
      PROVE  /\ d \in UnderWay' <=> d \in UnderWay
             /\ EntryOf(d)' = EntryOf(d) /\ EntryOf(d) \in WalEntries
             /\ EntryOf(d) # EntryOf(c)
  BY <1>0, <1>d DEF UnderWay, EntryOf, WalTypeOK, WalEntries
<1>u. \A d \in UnderWay \cup UnderWay' : d \in WalCalls
  BY DEF UnderWay
<1>1. WalTypeOK'
  BY <1>0, <1>e DEF WalTypeOK
<1>2. EffectsMatch'
  BY <1>0 DEF EffectsMatch
<1>3. LostForGood'
  BY <1>0, <1>i DEF LostForGood
<1>4. AttemptsLogged'
  <2>1. ASSUME NEW d \in UnderWay', EntryOf(d)' \notin unlogged'
        PROVE  \/ wal'[EntryOf(d)'] = "pending"
               \/ wal'[EntryOf(d)'] = "completed" /\ replayed'[EntryOf(d)'].effects > 0
    <3>1. CASE d = c
      BY <2>1, <3>1
    <3>2. CASE d # c
      <4>1. d \in UnderWay /\ EntryOf(d)' = EntryOf(d) /\ EntryOf(d) \notin unlogged
            /\ wal'[EntryOf(d)] = wal[EntryOf(d)]
        BY <1>d, <1>u, <2>1, <3>2
      <4> QED
        BY <1>0, <4>1 DEF AttemptsLogged
    <3> QED
      BY <3>1, <3>2
  <2>2. ASSUME NEW e \in interrupted \ unlogged' PROVE Recoverable(e)'
    <3>1. Recoverable(e) /\ wal'[e] = wal[e]
      BY <1>0, <1>i DEF AttemptsLogged
    <3> QED
      BY <3>1 DEF Recoverable
  <2> QED
    BY <2>1, <2>2 DEF AttemptsLogged
<1>5. PendingExplained'
  <2>1. ASSUME NEW e \in WalEntries, wal'[e] = "pending"
        PROVE  e \in interrupted \cup unlogged' \/ \E d \in UnderWay' : e = EntryOf(d)'
    <3>1. CASE e = EntryOf(c)
      BY <2>1, <3>1
    <3>2. CASE e # EntryOf(c)
      <4>1. e \in interrupted \cup unlogged \/ \E d \in UnderWay : e = EntryOf(d)
        BY <1>0, <2>1, <3>2 DEF PendingExplained
      <4>2. ASSUME NEW d \in UnderWay, e = EntryOf(d)
            PROVE  d \in UnderWay' /\ e = EntryOf(d)'
        BY <1>d, <1>u, <3>2, <4>2
      <4> QED
        BY <4>1, <4>2
    <3> QED
      BY <3>1, <3>2
  <2> QED
    BY <2>1 DEF PendingExplained
<1>6. ReplaysExplained'
  BY <1>0 DEF ReplaysExplained, Known
<1> QED
  BY <1>1, <1>2, <1>3, <1>4, <1>5, <1>6 DEF WalInv

\* What a write to the log, successful or not, does to it.
LEMMA LogWrites ==
  ASSUME WalTypeOK, NEW e \in WalEntries, NEW s \in {"pending", "completed", "failed"},
         NEW written \in BOOLEAN, WriteLog(e, s, written)
  PROVE  /\ wal' \in [WalEntries -> {"none", "pending", "completed", "failed"}]
         /\ \A f \in WalEntries : f # e => wal'[f] = wal[f]
         /\ unlogged \subseteq unlogged' /\ unlogged' \subseteq unlogged \cup {e}
         /\ e \in unlogged' \/ wal'[e] = s
<1>1. CASE written
  BY <1>1 DEF WriteLog, WalTypeOK
<1>2. CASE ~written
  BY <1>2 DEF WriteLog, WalTypeOK
<1> QED
  BY <1>1, <1>2

\* LogAttempt, MarkCompleted and MarkFailed preserve WalInv.
LEMMA AttemptSteps ==
  ASSUME WalInv, NEW c \in WalCalls, NEW written \in BOOLEAN,
         LogAttempt(c, written) \/ MarkCompleted(c, written) \/ MarkFailed(c, written)
  PROVE  WalInv'
<1>0. WalTypeOK /\ EffectsMatch /\ EntryOf(c) \in WalEntries
  BY DEF WalInv, WalTypeOK, EntryOf, WalEntries
<1>1. CASE LogAttempt(c, written)
  <2>1. /\ callAt[c].stage = "log" /\ WriteLog(EntryOf(c), "pending", written)
        /\ Goes(c, "operate")
        /\ UNCHANGED <<replaying, ownEffects, replayed, interrupted, overlapped>>
    BY <1>1 DEF LogAttempt
  <2>2. /\ callAt' \in [WalCalls -> [stage : Stages, attempt : 1..WalAttempts]]
        /\ callAt'[c].stage = "operate" /\ callAt'[c].attempt = callAt[c].attempt
        /\ \A d \in WalCalls : d # c => callAt'[d] = callAt[d]
    BY <1>0, <2>1, StageChanges DEF Stages, BeforeEffect
  <2>3. /\ wal' \in [WalEntries -> {"none", "pending", "completed", "failed"}]
        /\ \A f \in WalEntries : f # EntryOf(c) => wal'[f] = wal[f]
        /\ unlogged \subseteq unlogged' /\ unlogged' \subseteq unlogged \cup {EntryOf(c)}
        /\ EntryOf(c) \in unlogged' \/ wal'[EntryOf(c)] = "pending"
    BY <1>0, <2>1, LogWrites
  <2>4. c \in UnderWay' /\ EntryOf(c)' = EntryOf(c) /\ ownEffects[c] = 0
        /\ callAt'[c].stage \notin AfterEffect
    BY <1>0, <2>1, <2>2 DEF UnderWay, EntryOf, EffectsMatch, BeforeEffect, AfterEffect
  <2> QED
    BY <2>1, <2>2, <2>3, <2>4, OwnEntryOnly
<1>2. CASE MarkCompleted(c, written)
  <2>1. /\ callAt[c].stage = "mark" /\ Goes(c, "cache")
        /\ UNCHANGED <<replaying, ownEffects, replayed, interrupted, overlapped>>
    BY <1>2 DEF MarkCompleted
  <2>2. /\ callAt' \in [WalCalls -> [stage : Stages, attempt : 1..WalAttempts]]
        /\ callAt'[c].stage = "cache"
        /\ \A d \in WalCalls : d # c => callAt'[d] = callAt[d]
    BY <1>0, <2>1, StageChanges DEF Stages, AfterEffect
  <2>3. /\ wal' \in [WalEntries -> {"none", "pending", "completed", "failed"}]
        /\ \A f \in WalEntries : f # EntryOf(c) => wal'[f] = wal[f]
        /\ unlogged \subseteq unlogged' /\ unlogged' \subseteq unlogged \cup {EntryOf(c)}
        /\ EntryOf(c) \in unlogged' \/ wal'[EntryOf(c)] # "pending"
    <3>1. CASE wal[EntryOf(c)] = "none"
      BY <1>0, <1>2, <3>1 DEF MarkCompleted, WalTypeOK
    <3>2. CASE wal[EntryOf(c)] # "none"
      <4>1. WriteLog(EntryOf(c), "completed", written)
        BY <1>2, <3>2 DEF MarkCompleted
      <4> QED
        BY <1>0, <4>1, LogWrites
    <3> QED
      BY <3>1, <3>2
  <2>4. c \notin UnderWay' /\ ownEffects[c] = 1 /\ callAt'[c].stage \notin BeforeEffect
    BY <1>0, <2>1, <2>2 DEF UnderWay, EffectsMatch, BeforeEffect, AfterEffect
  <2> QED
    BY <2>1, <2>2, <2>3, <2>4, OwnEntryOnly
<1>3. CASE MarkFailed(c, written)
  <2>1. /\ callAt[c].stage = "unmark" /\ WriteLog(EntryOf(c), "failed", written)
        /\ UNCHANGED <<replaying, ownEffects, replayed, interrupted, overlapped>>
    BY <1>3 DEF MarkFailed
  <2>2. /\ callAt' \in [WalCalls -> [stage : Stages, attempt : 1..WalAttempts]]
        /\ callAt'[c].stage \in {"log", "error"}
        /\ \A d \in WalCalls : d # c => callAt'[d] = callAt[d]
    <3>1. CASE callAt[c].attempt < WalAttempts
      <4> DEFINE next == [stage |-> "log", attempt |-> callAt[c].attempt + 1]
      <4>1. callAt' = [callAt EXCEPT ![c] = next]
        BY <1>3, <3>1 DEF MarkFailed
      <4>2. next \in [stage : Stages, attempt : 1..WalAttempts] /\ next.stage = "log"
        <5>1. callAt[c].attempt \in 1..WalAttempts
          BY <1>0 DEF WalTypeOK
        <5> QED
          BY <3>1, <5>1, WalAssumptions DEF Stages, BeforeEffect
      <4> HIDE DEF next
      <4> QED
        BY <1>0, <4>1, <4>2 DEF WalTypeOK
    <3>2. CASE ~(callAt[c].attempt < WalAttempts)
      <4>1. Goes(c, "error")
        BY <1>3, <3>2 DEF MarkFailed
      <4> QED
        BY <1>0, <4>1, StageChanges DEF Stages, BeforeEffect
    <3> QED
      BY <3>1, <3>2
  <2>3. /\ wal' \in [WalEntries -> {"none", "pending", "completed", "failed"}]
        /\ \A f \in WalEntries : f # EntryOf(c) => wal'[f] = wal[f]
        /\ unlogged \subseteq unlogged' /\ unlogged' \subseteq unlogged \cup {EntryOf(c)}
        /\ EntryOf(c) \in unlogged' \/ wal'[EntryOf(c)] = "failed"
    BY <1>0, <2>1, LogWrites
  <2>4. c \notin UnderWay' /\ ownEffects[c] = 0 /\ callAt'[c].stage \notin AfterEffect
    BY <1>0, <2>1, <2>2 DEF UnderWay, EffectsMatch, BeforeEffect, AfterEffect
  <2> QED
    BY <2>1, <2>2, <2>3, <2>4, OwnEntryOnly
<1> QED
  BY <1>1, <1>2, <1>3

\* The steps of a call that do not write the log preserve WalInv.
LEMMA CallSteps ==
  ASSUME WalInv, NEW c \in WalCalls,
         \/ ExecuteCall(c) \/ BulkheadTimesOut(c) \/ EnterBreaker(c)
         \/ OperationReturns(c) \/ OperationRaises(c)
         \/ \E written \in BOOLEAN : CacheAndReturn(c, written)
  PROVE  WalInv'
<1>0. /\ ownEffects \in [WalCalls -> Nat] /\ ownEffects[c] \in Nat
      /\ callAt[c].stage \in BeforeEffect => ownEffects[c] = 0
      /\ callAt[c].stage \in AfterEffect => ownEffects[c] = 1
  BY DEF WalInv, WalTypeOK, EffectsMatch
<1>s. /\ BeforeEffect \subseteq Stages /\ AfterEffect \subseteq Stages
      /\ \A s \in BeforeEffect : s \notin AfterEffect /\ s # "lost"
      /\ \A s \in AfterEffect : s # "lost"
  BY DEF BeforeEffect, AfterEffect, Stages
<1>1. ASSUME NEW s \in {"hit", "queue", "rejected", "error", "log"}, Goes(c, s),
             callAt[c].stage \in {"idle", "queue"},
             UNCHANGED <<wal, replaying, ownEffects, replayed, unlogged, interrupted, overlapped>>
      PROVE  WalInv'
  <2>1. /\ s \in BeforeEffect /\ callAt[c].stage \in BeforeEffect
        /\ s \notin UnderWayStages /\ callAt[c].stage \notin UnderWayStages
    BY <1>1 DEF BeforeEffect, UnderWayStages
  <2>2. \A d \in WalCalls : ownEffects[d] >= ownEffects[d]
    BY <1>0
  <2> QED
    BY <1>0, <1>1, <1>s, <2>1, <2>2, StageOnly
<1>2. CASE ExecuteCall(c) \/ BulkheadTimesOut(c) \/ EnterBreaker(c)
  BY <1>1, <1>2 DEF ExecuteCall, BulkheadTimesOut, EnterBreaker
<1>3. CASE OperationReturns(c)
  <2>1. /\ callAt[c].stage = "operate" /\ Goes(c, "mark")
        /\ ownEffects' = [ownEffects EXCEPT ![c] = @ + 1]
        /\ UNCHANGED <<wal, replaying, replayed, unlogged, interrupted, overlapped>>
    BY <1>3 DEF OperationReturns
  <2>2. /\ callAt[c].stage \in UnderWayStages /\ "mark" \in UnderWayStages
        /\ "mark" \in AfterEffect /\ callAt[c].stage \in BeforeEffect
    BY <2>1 DEF UnderWayStages, BeforeEffect, AfterEffect
  <2>3. /\ ownEffects' \in [WalCalls -> Nat] /\ ownEffects'[c] = 1
        /\ \A d \in WalCalls : ownEffects'[d] >= ownEffects[d]
        /\ \A d \in WalCalls : d # c => ownEffects'[d] = ownEffects[d]
    BY <1>0, <2>1, <2>2
  <2> QED
    BY <1>s, <2>1, <2>2, <2>3, StageOnly
<1>4. CASE OperationRaises(c)
  <2>1. /\ callAt[c].stage = "operate" /\ Goes(c, "unmark")
        /\ UNCHANGED <<wal, replaying, ownEffects, replayed, unlogged, interrupted, overlapped>>
    BY <1>4 DEF OperationRaises
  <2>2. /\ callAt[c].stage \in UnderWayStages /\ "unmark" \in UnderWayStages
        /\ "unmark" \in BeforeEffect /\ callAt[c].stage \in BeforeEffect
    BY <2>1 DEF UnderWayStages, BeforeEffect
  <2>3. \A d \in WalCalls : ownEffects[d] >= ownEffects[d]
    BY <1>0
  <2> QED
    BY <1>0, <1>s, <2>1, <2>2, <2>3, StageOnly
<1>5. CASE \E written \in BOOLEAN : CacheAndReturn(c, written)
  <2>1. /\ callAt[c].stage = "cache" /\ Goes(c, "returned")
        /\ UNCHANGED <<wal, replaying, ownEffects, replayed, unlogged, interrupted, overlapped>>
    BY <1>5 DEF CacheAndReturn
  <2>2. /\ callAt[c].stage \notin UnderWayStages /\ "returned" \notin UnderWayStages
        /\ "returned" \in AfterEffect /\ callAt[c].stage \in AfterEffect
        /\ "returned" \notin BeforeEffect
    BY <2>1 DEF UnderWayStages, BeforeEffect, AfterEffect
  <2>3. \A d \in WalCalls : ownEffects[d] >= ownEffects[d]
    BY <1>0
  <2> QED
    BY <1>0, <1>s, <2>1, <2>2, <2>3, StageOnly
<1> QED
  BY <1>2, <1>3, <1>4, <1>5

\* After a crash the attempts under way are the interrupted ones.
LEMMA CrashStep ==
  ASSUME WalInv, CrashProcess
  PROVE  WalInv'
<1>0. /\ WalTypeOK /\ EffectsMatch /\ LostForGood
      /\ AttemptsLogged /\ PendingExplained /\ ReplaysExplained
  BY DEF WalInv
<1>1. /\ interrupted' = interrupted \cup {EntryOf(c) : c \in UnderWay}
      /\ replaying' = NoReplay
      /\ UNCHANGED <<wal, cached, ownEffects, replayed, unlogged, overlapped>>
  BY DEF CrashProcess
<1>2. ASSUME NEW c \in WalCalls
      PROVE  /\ callAt'[c] \in [stage : Stages, attempt : 1..WalAttempts]
             /\ \/ callAt'[c].stage = "lost"
                \/ callAt'[c] = callAt[c] /\ c \notin UnderWay
  <2>1. callAt[c] \in [stage : Stages, attempt : 1..WalAttempts]
    BY <1>0 DEF WalTypeOK
  <2>2. callAt'[c] = IF callAt[c].stage \in {"queue", "log", "operate", "mark", "unmark", "cache"}
                     THEN [stage |-> "lost", attempt |-> callAt[c].attempt] ELSE callAt[c]
    BY DEF CrashProcess
  <2>3. CASE callAt[c].stage \in {"queue", "log", "operate", "mark", "unmark", "cache"}
    BY <2>1, <2>2, <2>3 DEF Stages
  <2>4. CASE callAt[c].stage \notin {"queue", "log", "operate", "mark", "unmark", "cache"}
    BY <2>1, <2>2, <2>4 DEF UnderWay
  <2> QED
    BY <2>3, <2>4
<1>3. callAt' \in [WalCalls -> [stage : Stages, attempt : 1..WalAttempts]]
  <2>1. callAt' = [c \in WalCalls |-> callAt'[c]]
    BY DEF CrashProcess
  <2> QED
    BY <1>2, <2>1
<1>4. UnderWay' = {}
  BY <1>2 DEF UnderWay
<1>5. \A c \in UnderWay : c \in WalCalls /\ EntryOf(c) \in WalEntries /\ EntryOf(c)[1] = c
  BY <1>0 DEF UnderWay, EntryOf, WalTypeOK, WalEntries
<1>6. WalTypeOK'
  <2>1. NoReplay \in [todo : SUBSET WalEntries, done : SUBSET WalEntries]
    BY DEF NoReplay
  <2>2. interrupted' \subseteq WalEntries
    BY <1>0, <1>1, <1>5 DEF WalTypeOK
  <2> QED
    BY <1>0, <1>1, <1>3, <2>1, <2>2 DEF WalTypeOK
<1>7. EffectsMatch'
  <2>1. "lost" \notin BeforeEffect /\ "lost" \notin AfterEffect
    BY DEF BeforeEffect, AfterEffect
  <2> QED
    BY <1>0, <1>1, <1>2, <2>1 DEF EffectsMatch
<1>8. LostForGood'
  <2>1. ASSUME NEW e \in interrupted' PROVE callAt'[e[1]].stage = "lost"
    <3>1. CASE e \in interrupted
      <4>1. e[1] \in WalCalls /\ callAt[e[1]].stage = "lost"
        BY <1>0, <3>1 DEF LostForGood, WalTypeOK, WalEntries
      <4> QED
        BY <1>2, <4>1
    <3>2. CASE e \in {EntryOf(c) : c \in UnderWay}
      BY <1>2, <1>5, <3>2
    <3> QED
      BY <1>1, <2>1, <3>1, <3>2
  <2> QED
    BY <2>1 DEF LostForGood
<1>9. AttemptsLogged'
  <2>1. ASSUME NEW e \in interrupted', e \notin unlogged PROVE Recoverable(e)'
    <3>1. CASE e \in interrupted
      BY <1>0, <1>1, <2>1, <3>1 DEF AttemptsLogged, Recoverable
    <3>2. CASE e \in {EntryOf(c) : c \in UnderWay}
      <4>1. PICK c \in UnderWay : e = EntryOf(c)
        BY <3>2
      <4>2. \/ wal[e] = "pending"
            \/ wal[e] = "completed" /\ replayed[e].effects > 0
        BY <1>0, <2>1, <4>1 DEF AttemptsLogged
      <4>3. e[1] \in WalCalls /\ ownEffects[e[1]] \in Nat /\ replayed[e].effects \in Nat
        BY <1>0, <1>5, <4>1 DEF WalTypeOK
      <4>4. replayed[e].effects > 0 => ownEffects[e[1]] + replayed[e].effects > 0
        BY <4>3
      <4> QED
        BY <1>1, <4>2, <4>4 DEF Recoverable
    <3> QED
      BY <1>1, <2>1, <3>1, <3>2
  <2> QED
    BY <1>1, <1>4, <2>1 DEF AttemptsLogged
<1>10. PendingExplained'
  BY <1>0, <1>1 DEF PendingExplained
<1>11. ReplaysExplained'
  BY <1>0, <1>1 DEF ReplaysExplained, Known, NoReplay
<1> QED
  BY <1>6, <1>7, <1>8, <1>9, <1>10, <1>11 DEF WalInv

\* Both fields of a count replaced.
LEMMA CountsBuilt ==
  ASSUME NEW r \in [tries : Nat, effects : Nat], NEW a, NEW b
  PROVE  [[r EXCEPT !.tries = a] EXCEPT !.effects = b] = [tries |-> a, effects |-> b]
<1>1. r = [tries |-> r.tries, effects |-> r.effects]
  OBVIOUS
<1>2. [r EXCEPT !.tries = a] = [tries |-> a, effects |-> r.effects]
  BY <1>1
<1>3. [[tries |-> a, effects |-> r.effects] EXCEPT !.effects = b] = [tries |-> a, effects |-> b]
  OBVIOUS
<1> QED
  BY <1>2, <1>3, Zenon

\* Recovery preserves WalInv: what it reads is explained, or overlaps from now on.
LEMMA RecoverySteps ==
  ASSUME WalInv,
         ReadPending \/ \E e \in WalEntries, b \in BOOLEAN : ReplayEntry(e, b) \/ MarkReplayed(e, b)
  PROVE  WalInv'
<1>0. /\ WalTypeOK /\ EffectsMatch /\ LostForGood
      /\ AttemptsLogged /\ PendingExplained /\ ReplaysExplained
  BY DEF WalInv
<1>5. \A c \in UnderWay : c \in WalCalls /\ EntryOf(c) \in WalEntries
  BY <1>0 DEF UnderWay, EntryOf, WalTypeOK, WalEntries
<1>6. \A e \in interrupted : e \in WalEntries /\ e[1] \in WalCalls
  BY <1>0 DEF WalTypeOK, WalEntries
<1>1. CASE ReadPending
  <2> DEFINE found == {e \in WalEntries : wal[e] = "pending"}
  <2>1. /\ replaying' = [NoReplay EXCEPT !.todo = found]
        /\ overlapped' = overlapped \cup {EntryOf(c) : c \in UnderWay}
        /\ UNCHANGED <<callAt, wal, ownEffects, replayed, unlogged, interrupted>>
    BY <1>1 DEF ReadPending
  <2>2. replaying' = [todo |-> found, done |-> {}]
    BY <2>1 DEF NoReplay
  <2>3. UnderWay' = UnderWay /\ \A c \in WalCalls : EntryOf(c)' = EntryOf(c)
    BY <2>1 DEF UnderWay, EntryOf
  <2>4. found \subseteq Known'
    BY <1>0, <2>1 DEF PendingExplained, Known
  <2>5. Known \subseteq Known'
    BY <2>1 DEF Known
  <2> HIDE DEF found
  <2>6. WalTypeOK'
    <3>1. found \subseteq WalEntries
      BY DEF found
    <3>2. replaying' \in [todo : SUBSET WalEntries, done : SUBSET WalEntries]
      BY <2>2, <3>1
    <3>3. overlapped' \subseteq WalEntries
      BY <1>0, <1>5, <2>1 DEF WalTypeOK
    <3> QED
      BY <1>0, <2>1, <3>2, <3>3 DEF WalTypeOK
  <2>7. EffectsMatch' /\ LostForGood'
    BY <1>0, <2>1 DEF EffectsMatch, LostForGood
  <2>8. AttemptsLogged'
    BY <1>0, <1>5, <2>1, <2>3 DEF AttemptsLogged, Recoverable
  <2>9. PendingExplained'
    BY <1>0, <1>5, <2>1, <2>3 DEF PendingExplained
  <2>10. ReplaysExplained'
    <3>1. replaying'.todo = found /\ replaying'.done = {}
      BY <2>2
    <3> QED
      BY <1>0, <2>1, <2>4, <2>5, <3>1 DEF ReplaysExplained
  <2> QED
    BY <2>6, <2>7, <2>8, <2>9, <2>10 DEF WalInv
<1>2. ASSUME NEW e \in WalEntries, NEW ok \in BOOLEAN, ReplayEntry(e, ok)
      PROVE  WalInv'
  <2> DEFINE more == IF ok THEN replayed[e].effects + 1 ELSE replayed[e].effects
             record == [tries |-> replayed[e].tries + 1, effects |-> more]
  <2>1. /\ e \in replaying.todo
        /\ replaying' = [todo |-> replaying.todo \ {e}, done |-> IF ok THEN {e} ELSE {}]
        /\ UNCHANGED <<callAt, wal, ownEffects, unlogged, interrupted, overlapped>>
    BY <1>2 DEF ReplayEntry
  <2>2. replayed[e].tries \in Nat /\ replayed[e].effects \in Nat
    BY <1>0 DEF WalTypeOK
  <2>3. replayed' = [replayed EXCEPT ![e] = record]
    <3>2. replayed' = [replayed EXCEPT ![e] = [[replayed[e] EXCEPT !.tries = replayed[e].tries + 1]
                                                 EXCEPT !.effects = more]]
      BY <1>0, <1>2 DEF ReplayEntry, WalTypeOK
    <3>3. replayed[e] \in [tries : Nat, effects : Nat]
      BY <1>0 DEF WalTypeOK
    <3>4. [[replayed[e] EXCEPT !.tries = replayed[e].tries + 1] EXCEPT !.effects = more] = record
      BY <3>3, CountsBuilt
    <3> QED
      BY <3>2, <3>4
  <2>4. more \in Nat /\ more >= replayed[e].effects /\ (ok => more > 0)
    BY <2>2
  <2> HIDE DEF more
  <2>5. /\ replayed' \in [WalEntries -> [tries : Nat, effects : Nat]]
        /\ replayed'[e].effects = more
        /\ \A f \in WalEntries : f # e => replayed'[f] = replayed[f]
    BY <1>0, <2>2, <2>3, <2>4 DEF WalTypeOK
  <2>6. \A f \in WalEntries : /\ replayed[f].effects \in Nat /\ replayed'[f].effects \in Nat
                              /\ replayed'[f].effects >= replayed[f].effects
    BY <1>0, <2>2, <2>4, <2>5 DEF WalTypeOK
  <2>7. UnderWay' = UnderWay /\ \A c \in WalCalls : EntryOf(c)' = EntryOf(c)
    BY <2>1 DEF UnderWay, EntryOf
  <2>8. WalTypeOK'
    <3>1. replaying' \in [todo : SUBSET WalEntries, done : SUBSET WalEntries]
      BY <1>0, <2>1 DEF WalTypeOK
    <3> QED
      BY <1>0, <2>1, <2>5, <3>1 DEF WalTypeOK
  <2>9. EffectsMatch' /\ LostForGood'
    BY <1>0, <2>1 DEF EffectsMatch, LostForGood
  <2>10. AttemptsLogged'
    <3>1. ASSUME NEW c \in UnderWay, EntryOf(c) \notin unlogged
          PROVE  \/ wal[EntryOf(c)] = "pending"
                 \/ wal[EntryOf(c)] = "completed" /\ replayed'[EntryOf(c)].effects > 0
      <4>1. \/ wal[EntryOf(c)] = "pending"
            \/ wal[EntryOf(c)] = "completed" /\ replayed[EntryOf(c)].effects > 0
        BY <1>0, <3>1 DEF AttemptsLogged
      <4> QED
        BY <1>5, <2>6, <4>1
    <3>2. ASSUME NEW f \in interrupted \ unlogged PROVE Recoverable(f)'
      <4>1. Recoverable(f) /\ f \in WalEntries /\ ownEffects[f[1]] \in Nat
        BY <1>0, <1>6 DEF AttemptsLogged, WalTypeOK
      <4>2. ownEffects[f[1]] + replayed[f].effects > 0 =>
              ownEffects[f[1]] + replayed'[f].effects > 0
        BY <2>6, <4>1
      <4> QED
        BY <2>1, <4>1, <4>2 DEF Recoverable
    <3> QED
      BY <1>5, <2>1, <2>7, <3>1, <3>2 DEF AttemptsLogged
  <2>11. PendingExplained'
    BY <1>0, <1>5, <2>1, <2>7 DEF PendingExplained
  <2>12. ReplaysExplained'
    <3>1. Known' = Known /\ e \in Known
      BY <1>0, <2>1 DEF Known, ReplaysExplained
    <3>2. replaying'.todo \subseteq Known /\ replaying'.done \subseteq Known
      BY <1>0, <2>1, <3>1 DEF ReplaysExplained
    <3>3. \A f \in replaying'.done : replayed'[f].effects > 0
      BY <2>1, <2>4, <2>5
    <3>4. \A f \in WalEntries : replayed'[f].effects > 0 => f \in Known
      BY <1>0, <2>5, <3>1 DEF ReplaysExplained
    <3> QED
      BY <3>1, <3>2, <3>3, <3>4 DEF ReplaysExplained
  <2> QED
    BY <2>8, <2>9, <2>10, <2>11, <2>12 DEF WalInv
<1>3. ASSUME NEW e \in WalEntries, NEW written \in BOOLEAN, MarkReplayed(e, written)
      PROVE  WalInv'
  <2>1. /\ e \in replaying.done /\ replaying' = [replaying EXCEPT !.done = {}]
        /\ WriteLog(e, "completed", written)
        /\ UNCHANGED <<callAt, ownEffects, replayed, interrupted, overlapped>>
    BY <1>3 DEF MarkReplayed
  <2>2. /\ wal' \in [WalEntries -> {"none", "pending", "completed", "failed"}]
        /\ \A f \in WalEntries : f # e => wal'[f] = wal[f]
        /\ unlogged \subseteq unlogged' /\ unlogged' \subseteq unlogged \cup {e}
        /\ e \in unlogged' \/ wal'[e] = "completed"
    BY <1>0, <2>1, LogWrites
  <2>3. replayed[e].effects > 0
    BY <1>0, <2>1 DEF ReplaysExplained
  <2>4. UnderWay' = UnderWay /\ \A c \in WalCalls : EntryOf(c)' = EntryOf(c)
    BY <2>1 DEF UnderWay, EntryOf
  <2>5. /\ replaying' \in [todo : SUBSET WalEntries, done : SUBSET WalEntries]
        /\ replaying'.todo = replaying.todo /\ replaying'.done = {}
    BY <1>0, <2>1 DEF WalTypeOK
  <2>6. WalTypeOK'
    BY <1>0, <2>1, <2>2, <2>5 DEF WalTypeOK
  <2>7. EffectsMatch' /\ LostForGood'
    BY <1>0, <2>1 DEF EffectsMatch, LostForGood
  <2>8. AttemptsLogged'
    <3>1. ASSUME NEW c \in UnderWay, EntryOf(c) \notin unlogged'
          PROVE  \/ wal'[EntryOf(c)] = "pending"
                 \/ wal'[EntryOf(c)] = "completed" /\ replayed[EntryOf(c)].effects > 0
      <4>1. CASE EntryOf(c) = e
        BY <2>2, <2>3, <3>1, <4>1
      <4>2. CASE EntryOf(c) # e
        BY <1>0, <1>5, <2>2, <3>1, <4>2 DEF AttemptsLogged
      <4> QED
        BY <4>1, <4>2
    <3>2. ASSUME NEW f \in interrupted, f \notin unlogged' PROVE Recoverable(f)'
      <4>1. CASE f = e
        <5>1. ownEffects[f[1]] \in Nat /\ replayed[f].effects \in Nat
          BY <1>0, <1>6, <3>2 DEF WalTypeOK
        <5>2. ownEffects[f[1]] + replayed[f].effects > 0
          BY <2>3, <4>1, <5>1
        <5> QED
          BY <2>1, <2>2, <3>2, <4>1, <5>2 DEF Recoverable
      <4>2. CASE f # e
        <5>1. wal'[f] = wal[f] /\ f \notin unlogged
          BY <1>6, <2>2, <3>2, <4>2
        <5> QED
          BY <1>0, <2>1, <3>2, <5>1 DEF AttemptsLogged, Recoverable
      <4> QED
        BY <4>1, <4>2
    <3> QED
      BY <1>5, <2>1, <2>4, <3>1, <3>2 DEF AttemptsLogged
  <2>9. PendingExplained'
    <3>1. ASSUME NEW f \in WalEntries, wal'[f] = "pending"
          PROVE  f \in interrupted \cup unlogged' \/ \E c \in UnderWay : f = EntryOf(c)
      <4>1. CASE f = e
        BY <2>2, <3>1, <4>1
      <4>2. CASE f # e
        BY <1>0, <2>2, <3>1, <4>2 DEF PendingExplained
      <4> QED
        BY <4>1, <4>2
    <3> QED
      BY <1>5, <2>1, <2>4, <3>1 DEF PendingExplained
  <2>10. ReplaysExplained'
    <3>1. Known \subseteq Known'
      BY <2>1, <2>2 DEF Known
    <3> QED
      BY <1>0, <2>1, <2>5, <3>1 DEF ReplaysExplained
  <2> QED
    BY <2>6, <2>7, <2>8, <2>9, <2>10 DEF WalInv
<1> QED
  BY <1>1, <1>2, <1>3

\* Every step of the adapter, of recovery and of the process preserves WalInv.
LEMMA WalInvStep == WalInv /\ [WalNext]_walVars => WalInv'
<1> SUFFICES ASSUME WalInv, [WalNext]_walVars PROVE WalInv'
  OBVIOUS
<1>1. CASE RecoveryTimeoutPasses \/ UNCHANGED walVars
  <2>1. UNCHANGED <<callAt, wal, replaying, ownEffects, replayed, unlogged, interrupted, overlapped>>
    BY <1>1 DEF RecoveryTimeoutPasses, walVars
  <2>2. UnderWay' = UnderWay /\ Known' = Known /\ \A c \in WalCalls : EntryOf(c)' = EntryOf(c)
    BY <2>1 DEF UnderWay, EntryOf, Known
  <2>3. UnderWay \subseteq WalCalls
    BY DEF UnderWay
  <2>4. WalTypeOK' /\ EffectsMatch' /\ LostForGood'
    BY <2>1 DEF WalInv, WalTypeOK, EffectsMatch, LostForGood
  <2>5. AttemptsLogged' /\ PendingExplained' /\ ReplaysExplained'
    BY <2>1, <2>2, <2>3 DEF WalInv, AttemptsLogged, Recoverable, PendingExplained,
                            ReplaysExplained
  <2> QED
    BY <2>4, <2>5 DEF WalInv
<1> QED
  BY <1>1, AttemptSteps, CallSteps, CrashStep, RecoverySteps DEF WalNext

(* For any calls, attempts, crashes and failures of Redis: an attempt of
   ResilientToolAdapter that a crash interrupted stays pending in the log until it is
   recovered, unless the log could not be written; callers are told truly whether
   their operation took effect; and recovery repeats an effect only for an attempt that
   was interrupted, unlogged or still under way. *)
THEOREM WalRecovers == WalSpec => []InterruptedIsRecoverable
<1>1. WalInv => InterruptedIsRecoverable
  <2> SUFFICES ASSUME WalInv PROVE InterruptedIsRecoverable
    OBVIOUS
  <2>1. \A e \in interrupted \ unlogged :
          \/ wal[e] = "pending"
          \/ wal[e] = "completed" /\ ownEffects[e[1]] + replayed[e].effects > 0
    BY DEF WalInv, AttemptsLogged, Recoverable
  <2>2. ASSUME NEW c \in WalCalls
        PROVE  /\ callAt[c].stage = "returned" => ownEffects[c] = 1
               /\ callAt[c].stage \in {"error", "rejected", "hit"} => ownEffects[c] = 0
    BY DEF WalInv, EffectsMatch, BeforeEffect, AfterEffect
  <2>3. ASSUME NEW c \in WalCalls, ReplayedWithEffect(c)
        PROVE  \E e \in interrupted \cup unlogged \cup overlapped : e[1] = c
    <3>1. PICK i \in 1..WalAttempts : replayed[<<c, i>>].effects > 0
      BY <2>3 DEF ReplayedWithEffect
    <3>2. <<c, i>> \in WalEntries
      BY DEF WalEntries
    <3>3. <<c, i>> \in interrupted \cup unlogged \cup overlapped
      BY <3>1, <3>2 DEF WalInv, ReplaysExplained, Known
    <3> QED
      BY <3>3
  <2> QED
    BY <2>1, <2>2, <2>3 DEF InterruptedIsRecoverable
<1> QED
  BY <1>1, WalInvInit, WalInvStep, PTL DEF WalSpec

-----------------------------------------------------------------------------
(***************************************************************************)
(* The cost ceiling of CostCeiling, for any finite number of managers and  *)
(* any amounts with a largest one.  What the proof needs of the sum over   *)
(* the database is that it is no less than what one manager recorded.      *)
(***************************************************************************)
MostSpent == Max(CostAmounts)

(* Where a call of record_cost stands tells how far what its manager recorded may be
   ahead of what the manager judged by: a caller that has not been stopped was last told
   of less than the limit, and one record may have been added to that. *)
CallKnows(call, recorded, kept, halted) ==
  /\ recorded < LimitAmount + 2 * MostSpent
  /\ call.stage = "none" =>
       /\ kept # -1 => kept >= recorded
       /\ ~halted => recorded < LimitAmount + MostSpent /\ (kept = -1 => recorded = 0)
  /\ call.stage = "stored" =>
       /\ call.amount \in CostAmounts
       /\ kept # -1 => kept + call.amount >= recorded
       /\ kept = -1 => recorded <= call.amount
  /\ call.stage = "queried" =>
       /\ call.amount \in CostAmounts /\ kept = -1
       /\ call.key <= window /\ recorded <= call.amount
       /\ call.key = window => recorded <= call.total
       /\ call.key # window => recorded = 0

(* What the steps of the managers preserve. *)
CostInv ==
  /\ CostTypeOK
  /\ \A m \in Managers :
       CallKnows(costTask[m], costRecords[m], spendingCache[m], m \in stopped)

\* The largest amount is one.
LEMMA MostIsLargest ==
  MostSpent \in Nat \ {0} /\ \A a \in CostAmounts : a \in Nat \ {0} /\ a <= MostSpent
<1>1. \E x \in CostAmounts : \A y \in CostAmounts : x >= y
  BY CostAssumptions
<1>2. MostSpent \in CostAmounts /\ \A y \in CostAmounts : MostSpent >= y
  BY <1>1 DEF MostSpent, Max
<1> QED BY <1>2, CostAssumptions

\* In the first window nothing was recorded.
LEMMA CostInvInit == CostInit => CostInv
<1> SUFFICES ASSUME CostInit PROVE CostInv
  OBVIOUS
<1>1. CostTypeOK
  <2>1. 0 \in Windows
    BY CostAssumptions DEF Windows
  <2>2. NoTask \in [stage : {"none", "stored", "queried"}, amount : Nat, key : Windows, total : Nat]
    BY <2>1 DEF NoTask
  <2> HIDE DEF NoTask, Windows
  <2> QED BY <2>1, <2>2 DEF CostInit, CostTypeOK
<1>2. ASSUME NEW m \in Managers
      PROVE  CallKnows(costTask[m], costRecords[m], spendingCache[m], m \in stopped)
  BY CostAssumptions, MostIsLargest DEF CostInit, CallKnows, NoTask
<1> QED BY <1>1, <1>2 DEF CostInv

\* The sum over the database is no less than what one manager recorded.
LEMMA SpentIsAbove ==
  ASSUME CostTypeOK PROVE Spent \in Nat /\ \A m \in Managers : costRecords[m] <= Spent
<1>1. costRecords \in [Managers -> Nat]
  BY DEF CostTypeOK
<1> QED BY <1>1, SumIsAbove, CostAssumptions DEF Spent

(* One manager moves in the window, and knows what it should. *)
LEMMA ManagerMoves ==
  ASSUME CostInv, CostTypeOK', NEW m \in Managers, window' = window,
         \A n \in Managers \ {m} :
           /\ costTask'[n] = costTask[n] /\ costRecords'[n] = costRecords[n]
           /\ spendingCache'[n] = spendingCache[n] /\ (n \in stopped' <=> n \in stopped),
         CallKnows(costTask[m], costRecords[m], spendingCache[m], m \in stopped)'
  PROVE  CostInv'
<1> SUFFICES ASSUME NEW n \in Managers
             PROVE  CallKnows(costTask[n], costRecords[n], spendingCache[n], n \in stopped)'
  BY DEF CostInv
<1>1. CASE n = m
  BY <1>1 DEF CallKnows
<1>2. CASE n # m
  <2>1. CallKnows(costTask[n], costRecords[n], spendingCache[n], n \in stopped)
    BY DEF CostInv
  <2> QED BY <1>2, <2>1 DEF CallKnows
<1> QED BY <1>1, <1>2

(* Every step of a manager keeps what its calls know. *)
LEMMA CostInvStep == CostInv /\ [CostNext]_costVars => CostInv'
<1> SUFFICES ASSUME CostInv, [CostNext]_costVars PROVE CostInv'
  OBVIOUS
<1> USE CostAssumptions, MostIsLargest
<1> DEFINE Knows(m) == CallKnows(costTask[m], costRecords[m], spendingCache[m], m \in stopped)
<1>0. CostTypeOK /\ \A m \in Managers : Knows(m)
  BY DEF CostInv
<1>1. ASSUME NEW m \in Managers, CreateCostCeiling(m) PROVE CostInv'
  <2>1. CostTypeOK'
    BY <1>0, <1>1 DEF CreateCostCeiling, CostTypeOK
  <2>2. Knows(m)'
    BY <1>0, <1>1 DEF CreateCostCeiling, CallKnows
  <2> QED BY <1>1, <2>1, <2>2, ManagerMoves DEF CreateCostCeiling
<1>2. ASSUME NEW m \in Managers, RecordUnknown(m) PROVE CostInv'
  <2>1. CostTypeOK'
    BY <1>0, <1>2 DEF RecordUnknown, CostTypeOK
  <2>2. Knows(m)'
    BY <1>0, <1>2 DEF RecordUnknown, CallKnows, NoTask
  <2> QED BY <1>2, <2>1, <2>2, ManagerMoves DEF RecordUnknown
<1>3. ASSUME NEW m \in Managers, NEW a \in CostAmounts, StoreCostRecord(m, a) PROVE CostInv'
  <2>1. /\ costTask'[m].stage = "stored" /\ costTask'[m].amount = a
        /\ costTask' \in [Managers -> [stage : {"none", "stored", "queried"},
                                       amount : Nat, key : Windows, total : Nat]]
    BY <1>0, <1>3 DEF StoreCostRecord, CostTypeOK, NoTask, Windows
  <2>2. costRecords'[m] = costRecords[m] + a /\ costRecords' \in [Managers -> Nat]
    BY <1>0, <1>3 DEF StoreCostRecord, CostTypeOK
  <2>3. CostTypeOK'
    BY <1>0, <1>3, <2>1, <2>2 DEF StoreCostRecord, CostTypeOK
  <2>4. Knows(m)'
    <3>1. costTask[m].stage = "none" /\ m \notin stopped
      BY <1>3 DEF StoreCostRecord, NoTask
    <3>2. spendingCache[m] \in Nat \cup {-1} /\ costRecords[m] \in Nat
      BY <1>0 DEF CostTypeOK
    <3>3. spendingCache' = spendingCache /\ stopped' = stopped
      BY <1>3 DEF StoreCostRecord
    <3> QED BY <1>0, <2>1, <2>2, <3>1, <3>2, <3>3 DEF CallKnows
  <2>5. \A n \in Managers \ {m} : costTask'[n] = costTask[n] /\ costRecords'[n] = costRecords[n]
    BY <1>0, <1>3 DEF StoreCostRecord, CostTypeOK
  <2> QED BY <1>3, <2>3, <2>4, <2>5, ManagerMoves DEF StoreCostRecord
<1>4. ASSUME NEW m \in Managers, QuerySpending(m) PROVE CostInv'
  <2>1. Spent \in Nat /\ costRecords[m] <= Spent
    BY <1>0, SpentIsAbove
  <2>2. /\ costTask'[m].stage = "queried" /\ costTask'[m].amount = costTask[m].amount
        /\ costTask'[m].key = window /\ costTask'[m].total = Spent
        /\ costTask' \in [Managers -> [stage : {"none", "stored", "queried"},
                                       amount : Nat, key : Windows, total : Nat]]
    <3>1. costTask[m] \in [stage : {"none", "stored", "queried"},
                          amount : Nat, key : Windows, total : Nat] /\ window \in Windows
      BY <1>0 DEF CostTypeOK
    <3>2. [costTask[m] EXCEPT !.stage = "queried", !.key = window, !.total = Spent]
            \in [stage : {"none", "stored", "queried"}, amount : Nat, key : Windows, total : Nat]
      BY <2>1, <3>1
    <3>3. costTask' = [costTask EXCEPT ![m] =
                         [costTask[m] EXCEPT !.stage = "queried", !.key = window, !.total = Spent]]
      BY <1>0, <1>4 DEF QuerySpending, CostTypeOK
    <3> QED BY <1>0, <2>1, <3>1, <3>2, <3>3 DEF CostTypeOK
  <2>3. CostTypeOK'
    BY <1>0, <1>4, <2>2 DEF QuerySpending, CostTypeOK
  <2>4. Knows(m)'
    <3>1. costTask[m].stage = "stored" /\ spendingCache[m] = -1
      BY <1>4 DEF QuerySpending, Absent
    <3>2. window \in Int /\ window' = window /\ costRecords' = costRecords
          /\ spendingCache' = spendingCache /\ stopped' = stopped /\ costRecords[m] \in Nat
      BY <1>0, <1>4 DEF QuerySpending, CostTypeOK, Windows
    <3> QED BY <1>0, <2>1, <2>2, <3>1, <3>2 DEF CallKnows
  <2>5. \A n \in Managers \ {m} : costTask'[n] = costTask[n]
    BY <1>0, <1>4 DEF QuerySpending, CostTypeOK
  <2> QED BY <1>4, <2>3, <2>4, <2>5, ManagerMoves DEF QuerySpending
<1>5. ASSUME NEW m \in Managers, QueryRaises(m) PROVE CostInv'
  <2>1. costTask'[m] = NoTask /\ costTask' \in [Managers -> [stage : {"none", "stored", "queried"},
                                       amount : Nat, key : Windows, total : Nat]]
    BY <1>0, <1>5 DEF QueryRaises, CostTypeOK, NoTask, Windows
  <2>2. CostTypeOK'
    BY <1>0, <1>5, <2>1 DEF QueryRaises, CostTypeOK
  <2>3. Knows(m)'
    BY <1>0, <1>5, <2>1 DEF QueryRaises, CallKnows, NoTask, Absent
  <2>4. \A n \in Managers \ {m} : costTask'[n] = costTask[n]
    BY <1>0, <1>5 DEF QueryRaises, CostTypeOK
  <2> QED BY <1>5, <2>2, <2>3, <2>4, ManagerMoves DEF QueryRaises
<1>6. ASSUME NEW m \in Managers, ReportSpending(m) PROVE CostInv'
  <2>1. Spent \in Nat /\ costRecords[m] <= Spent
    BY <1>0, SpentIsAbove
  <2>2. spendingCache'[m] = Spent /\ spendingCache' \in [Managers -> Nat \cup {-1}]
    BY <1>0, <1>6, <2>1 DEF ReportSpending, CostTypeOK
  <2>3. CostTypeOK'
    BY <1>0, <1>6, <2>2 DEF ReportSpending, CostTypeOK
  <2>4. Knows(m)'
    BY <1>0, <1>6, <2>1, <2>2 DEF ReportSpending, CallKnows, NoTask, Absent
  <2>5. \A n \in Managers \ {m} : spendingCache'[n] = spendingCache[n]
    BY <1>0, <1>6 DEF ReportSpending, CostTypeOK
  <2> QED BY <1>6, <2>3, <2>4, <2>5, ManagerMoves DEF ReportSpending
<1>7. ASSUME NEW m \in Managers, NEW e \in BOOLEAN, FinishRecord(m, e) PROVE CostInv'
  <2> DEFINE spending == IF costTask[m].stage = "queried" THEN costTask[m].total
                         ELSE spendingCache[m]
  <2>1. /\ costTask[m].amount \in CostAmounts /\ costTask[m].total \in Nat
        /\ costRecords[m] \in Nat /\ spendingCache[m] \in Nat \cup {-1}
        /\ costTask[m].key \in Int /\ window \in Int
    BY <1>0, <1>7 DEF FinishRecord, CallKnows, CostTypeOK, Windows
  <2> HIDE DEF spending
  <2>0. Knows(m) /\ costTask[m].amount \in Nat /\ costTask[m].amount <= MostSpent
    BY <1>0, <2>1
  <2>2. Charged(m) \in Nat /\ costRecords[m] <= Charged(m)
    <3>1. CASE costTask[m].stage = "queried"
      <4>1. CASE costTask[m].key = window
        BY <2>0, <2>1, <3>1, <4>1 DEF CallKnows, Charged, Loaded
      <4>2. CASE costTask[m].key # window
        <5>1. Charged(m) = costTask[m].amount /\ costRecords[m] = 0
          BY <2>0, <2>1, <3>1, <4>2 DEF CallKnows, Charged, Loaded
        <5> QED BY <2>0, <5>1
      <4> QED BY <4>1, <4>2
    <3>2. CASE costTask[m].stage = "stored" /\ ~Absent(m)
      <4>1. Charged(m) = spendingCache[m] + costTask[m].amount
        BY <3>2 DEF Charged, Loaded, Absent
      <4>2. costRecords[m] <= spendingCache[m] + costTask[m].amount /\ spendingCache[m] \in Nat
        BY <2>0, <2>1, <3>2 DEF CallKnows, Absent
      <4> QED BY <2>0, <2>1, <4>1, <4>2
    <3> QED BY <1>7, <3>1, <3>2 DEF FinishRecord
  <2>3. spending < LimitAmount => costRecords[m] < LimitAmount + MostSpent
    <3>1. CASE costTask[m].stage = "queried"
      <4>1. spending = costTask[m].total
        BY <3>1 DEF spending
      <4> QED BY <2>0, <2>1, <3>1, <4>1 DEF CallKnows
    <3>2. CASE costTask[m].stage = "stored" /\ ~Absent(m)
      <4>1. spending = spendingCache[m]
        BY <3>2 DEF spending
      <4>2. costRecords[m] <= spendingCache[m] + costTask[m].amount
        BY <2>0, <2>1, <3>2 DEF CallKnows, Absent
      <4>3. costTask[m].amount <= MostSpent /\ costTask[m].amount \in Nat /\ MostSpent \in Nat
        BY <2>1
      <4> QED BY <2>1, <4>1, <4>2, <4>3
    <3> QED BY <1>7, <3>1, <3>2 DEF FinishRecord
  <2>4. spending \in Int
    BY <2>1 DEF spending
  <2>5. m \notin stopped' => spending < LimitAmount
    <3>1. m \notin stopped' => ~(spending >= LimitAmount)
      BY <1>7 DEF FinishRecord, spending
    <3> QED BY <2>4, <3>1
  <2>6. costTask'[m] = NoTask /\ costTask' \in [Managers -> [stage : {"none", "stored", "queried"},
                                       amount : Nat, key : Windows, total : Nat]]
    BY <1>0, <1>7 DEF FinishRecord, CostTypeOK, NoTask, Windows
  <2>7. spendingCache'[m] = Charged(m) /\ spendingCache' \in [Managers -> Nat \cup {-1}]
    BY <1>0, <1>7, <2>2 DEF FinishRecord, CostTypeOK
  <2>8. stopped' \subseteq Managers /\ \A n \in Managers \ {m} : n \in stopped' <=> n \in stopped
    BY <1>0, <1>7 DEF FinishRecord, CostTypeOK
  <2>9. UNCHANGED <<window, ceilingStored, ceilingCache, costRecords>>
    BY <1>7 DEF FinishRecord
  <2>10. CostTypeOK'
    BY <1>0, <2>6, <2>7, <2>8, <2>9 DEF CostTypeOK
  <2>11. Knows(m)'
    <3>1. costTask'[m].stage = "none"
      BY <2>6 DEF NoTask
    <3>2. costRecords[m] < LimitAmount + 2 * MostSpent
      BY <1>0 DEF CallKnows
    <3> QED BY <2>2, <2>3, <2>5, <2>7, <2>9, <3>1, <3>2 DEF CallKnows
  <2>12. \A n \in Managers \ {m} :
           costTask'[n] = costTask[n] /\ spendingCache'[n] = spendingCache[n]
    BY <1>0, <1>7 DEF FinishRecord, CostTypeOK
  <2> QED BY <2>8, <2>9, <2>10, <2>11, <2>12, ManagerMoves
<1>8. CASE NextWindow
  <2>1. CostTypeOK'
    BY <1>0, <1>8 DEF NextWindow, CostTypeOK, Windows
  <2>2. ASSUME NEW m \in Managers
        PROVE  CallKnows(costTask[m], costRecords[m], spendingCache[m], m \in stopped)'
    <3>1. /\ window' = window + 1 /\ window \in Nat /\ costTask'[m] = costTask[m]
          /\ costRecords'[m] = 0 /\ spendingCache'[m] = -1 /\ costTask[m].key \in Int
          /\ costTask[m].total \in Nat
      BY <1>0, <1>8 DEF NextWindow, CostTypeOK, Windows
    <3>2. Knows(m)
      BY <1>0
    <3>3. costTask[m].stage = "queried" => costTask[m].key # window' /\ costTask[m].key <= window'
      BY <3>1, <3>2 DEF CallKnows
    <3>4. costTask[m].stage \in {"stored", "queried"} =>
            costTask[m].amount \in CostAmounts /\ costTask[m].amount \in Nat
      BY <3>2 DEF CallKnows
    <3>5. 0 < LimitAmount + 2 * MostSpent /\ 0 < LimitAmount + MostSpent
      OBVIOUS
    <3>6. /\ costTask'[m].stage \in {"none", "stored", "queried"}
          /\ spendingCache'[m] = -1 /\ costRecords'[m] = 0
      BY <1>0, <3>1 DEF CostTypeOK
    <3> QED BY <3>1, <3>3, <3>4, <3>5, <3>6 DEF CallKnows
  <2> QED BY <2>1, <2>2 DEF CostInv
<1>9. CASE UNCHANGED costVars
  BY <1>0, <1>9 DEF costVars, CostInv, CostTypeOK, CallKnows
<1> QED BY <1>1, <1>2, <1>3, <1>4, <1>5, <1>6, <1>7, <1>8, <1>9 DEF CostNext

(* record_cost over several services, for any number of them, any amounts and any limit: a
   manager between two calls knows of everything it recorded itself in the window, and its
   callers overrun the ceiling by less than two of the largest records. *)
THEOREM OverrunIsBounded == Spec => []OverrunBounded
<1>1. Init => CostInv
  BY CostInvInit DEF Init
<1>2. CostInv /\ [Next]_vars => CostInv'
  <2>1. [Next]_vars => [CostNext]_costVars
    BY DEF Next, vars
  <2> QED BY <2>1, CostInvStep
<1>3. CostInv => OverrunBounded
  BY DEF CostInv, CallKnows, OverrunBounded, Absent, NoTask, MostSpent
<1> QED BY <1>1, <1>2, <1>3, PTL DEF Spec

-----------------------------------------------------------------------------
(***************************************************************************)
(* The consumer of events with its dead letter queue, for any events, any  *)
(* size of queue and any limits: permits, counters and dead letters are    *)
(* accounted for, and the queue keeps the order of arrival although its    *)
(* retry task removes entries by indexes that may be stale.                *)
(***************************************************************************)
\* The place of x in s, and a queue q whose entries come from s, in the order of s.
Place(s, x) == CHOOSE i \in DOMAIN s : s[i] = x
Sorted(q, s) ==
  /\ \A i \in 1..Len(q) : q[i] \in ToSet(s)
  /\ \A i, j \in 1..Len(q) : i < j => Place(s, q[i]) < Place(s, q[j])
NoRepeats(s) == \A i, j \in 1..Len(s) : s[i] = s[j] => i = j

\* What the retry task has in hand: different entries, none of which is used up.
BatchShape ==
  /\ \A p \in batch : retryCount[p.entry] < MaxRetryAttempts
  /\ \A p, q \in batch : p.entry = q.entry => p = q

(* What the steps of the queue preserve.  BatchShape is what keeps retry counts within
   the limit: a refused entry is counted without looking at its count again. *)
QueueInv ==
  /\ DlqTypeOK /\ NoRepeats(sent) /\ Sorted(dlq, sent) /\ BatchShape
  /\ manualState # "none" => manual # None

-----------------------------------------------------------------------------
(* What is left of a queue that loses its first n entries. *)
LEMMA WithoutFirst ==
  ASSUME NEW S, NEW q \in Seq(S), NEW n \in 0..Len(q)
  PROVE  /\ SubSeq(q, n + 1, Len(q)) \in Seq(S)
         /\ Len(SubSeq(q, n + 1, Len(q))) = Len(q) - n
         /\ \A i \in 1..(Len(q) - n) : SubSeq(q, n + 1, Len(q))[i] = q[n + i]
<1>1. Len(q) \in Nat /\ n \in Nat /\ n <= Len(q) /\ \A i \in 1..Len(q) : q[i] \in S
  BY LenProperties, ElementOfSeq
<1>2. \A i \in (n + 1)..Len(q) : q[i] \in S
  BY <1>1
<1>3. /\ SubSeq(q, n + 1, Len(q)) \in Seq(S)
      /\ Len(SubSeq(q, n + 1, Len(q))) =
           IF n + 1 <= Len(q) THEN Len(q) - (n + 1) + 1 ELSE 0
      /\ \A i \in 1..(Len(q) - (n + 1) + 1) : SubSeq(q, n + 1, Len(q))[i] = q[(n + 1) + i - 1]
  BY <1>1, <1>2, SubSeqProperties
<1>4. \A i \in 1..(Len(q) - n) : (n + 1) + i - 1 = n + i
  BY <1>1
<1> QED BY <1>1, <1>3, <1>4

(* What is left of it without its j-th entry. *)
LEMMA WithoutOne ==
  ASSUME NEW S, NEW q \in Seq(S), NEW j \in 1..Len(q)
  PROVE  /\ RemoveAt(q, j) \in Seq(S)
         /\ Len(RemoveAt(q, j)) = Len(q) - 1
         /\ \A i \in 1..(Len(q) - 1) : RemoveAt(q, j)[i] = q[IF i < j THEN i ELSE i + 1]
<1>0. Len(q) \in Nat /\ j \in Int /\ \A i \in 1..Len(q) : q[i] \in S
  BY LenProperties, ElementOfSeq
<1> DEFINE f == SubSeq(q, 1, j - 1)
           b == SubSeq(q, j + 1, Len(q))
<1>1. f \in Seq(S) /\ Len(f) = j - 1 /\ \A i \in 1..(j - 1) : f[i] = q[i]
  <2>1. \A i \in 1..(j - 1) : q[i] \in S
    BY <1>0
  <2>2. /\ f \in Seq(S) /\ Len(f) = IF 1 <= j - 1 THEN j - 1 - 1 + 1 ELSE 0
        /\ \A i \in 1..(j - 1 - 1 + 1) : f[i] = q[1 + i - 1]
    BY <1>0, <2>1, SubSeqProperties
  <2> QED BY <1>0, <2>2
<1>2. b \in Seq(S) /\ Len(b) = Len(q) - j /\ \A i \in 1..(Len(q) - j) : b[i] = q[j + i]
  BY <1>0, WithoutFirst
<1> HIDE DEF f, b
<1>3. /\ f \o b \in Seq(S) /\ Len(f \o b) = Len(f) + Len(b)
      /\ \A i \in 1..(Len(f) + Len(b)) : (f \o b)[i] = IF i <= Len(f) THEN f[i] ELSE b[i - Len(f)]
  BY <1>1, <1>2, ConcatProperties
<1>4. RemoveAt(q, j) = f \o b
  BY DEF RemoveAt, f, b
<1>5. Len(f) + Len(b) = Len(q) - 1
  BY <1>0, <1>1, <1>2
<1>6. ASSUME NEW i \in 1..(Len(q) - 1)
      PROVE  (f \o b)[i] = q[IF i < j THEN i ELSE i + 1]
  <2>1. CASE i < j
    BY <1>0, <1>1, <1>3, <1>5, <2>1
  <2>2. CASE ~(i < j)
    <3>1. (f \o b)[i] = b[i - (j - 1)]
      BY <1>0, <1>1, <1>3, <1>5, <2>2
    <3>2. i - (j - 1) \in 1..(Len(q) - j) /\ j + (i - (j - 1)) = i + 1
      BY <1>0, <2>2
    <3> QED BY <1>2, <2>2, <3>1, <3>2
  <2> QED BY <2>1, <2>2
<1> QED BY <1>3, <1>4, <1>5, <1>6

(* Entries taken out of a sorted queue leave a sorted queue. *)
LEMMA SubsequenceSorted ==
  ASSUME NEW q, NEW r, NEW s, NEW f \in [1..Len(r) -> 1..Len(q)],
         \A i \in 1..Len(r) : r[i] = q[f[i]],
         \A i, j \in 1..Len(r) : i < j => f[i] < f[j],
         Sorted(q, s)
  PROVE  Sorted(r, s)
BY DEF Sorted

(* An element of s has its place there, and only one if there are no repetitions. *)
LEMMA PlaceFound ==
  ASSUME NEW S, NEW s \in Seq(S), NEW x \in ToSet(s)
  PROVE  Place(s, x) \in 1..Len(s) /\ s[Place(s, x)] = x
<1>1. DOMAIN s = 1..Len(s)
  BY LenProperties
<1>2. \E i \in 1..Len(s) : s[i] = x
  BY <1>1 DEF ToSet
<1> QED BY <1>1, <1>2 DEF Place

(* The members of a sorted queue differ. *)
LEMMA SortedDiffer ==
  ASSUME NEW S, NEW s \in Seq(S), NEW q, Len(q) \in Nat, Sorted(q, s)
  PROVE  \A i, j \in 1..Len(q) : q[i] = q[j] => i = j
<1> SUFFICES ASSUME NEW i \in 1..Len(q), NEW j \in 1..Len(q), q[i] = q[j] PROVE i = j
  OBVIOUS
<1>1. Place(s, q[i]) \in 1..Len(s) /\ Len(s) \in Nat
  BY PlaceFound, LenProperties DEF Sorted
<1>2. ~(i < j) /\ ~(j < i)
  BY <1>1 DEF Sorted
<1> QED BY <1>2

(* A sorted queue stays sorted when a new element arrives, with or without it. *)
LEMMA Arrives ==
  ASSUME NEW S, NEW s \in Seq(S), NEW x \in S, x \notin ToSet(s), NoRepeats(s),
         NEW q \in Seq(S), Sorted(q, s)
  PROVE  /\ Append(s, x) \in Seq(S) /\ Len(Append(s, x)) = Len(s) + 1
         /\ ToSet(Append(s, x)) = ToSet(s) \cup {x}
         /\ NoRepeats(Append(s, x))
         /\ Append(q, x) \in Seq(S) /\ Len(Append(q, x)) = Len(q) + 1
         /\ Sorted(Append(q, x), Append(s, x))
<1> DEFINE t == Append(s, x)
           r == Append(q, x)
<1>0. Len(s) \in Nat /\ Len(q) \in Nat /\ DOMAIN s = 1..Len(s)
  BY LenProperties
<1>1. /\ t \in Seq(S) /\ Len(t) = Len(s) + 1
      /\ \A i \in 1..Len(s) : t[i] = s[i]
      /\ t[Len(s) + 1] = x
  BY AppendProperties
<1>2. /\ r \in Seq(S) /\ Len(r) = Len(q) + 1
      /\ \A i \in 1..Len(q) : r[i] = q[i]
      /\ r[Len(q) + 1] = x
  BY AppendProperties
<1>3. DOMAIN t = 1..Len(t)
  BY <1>1, LenProperties
<1> HIDE DEF t, r
<1>4. ToSet(t) = ToSet(s) \cup {x}
  <2>1. ASSUME NEW y \in ToSet(t) PROVE y \in ToSet(s) \cup {x}
    <3>1. PICK i \in 1..(Len(s) + 1) : t[i] = y
      BY <1>1, <1>3 DEF ToSet
    <3>2. CASE i = Len(s) + 1
      BY <1>1, <3>1, <3>2
    <3>3. CASE i # Len(s) + 1
      BY <1>0, <1>1, <3>1, <3>3 DEF ToSet
    <3> QED BY <3>2, <3>3
  <2>2. ASSUME NEW y \in ToSet(s) PROVE y \in ToSet(t)
    <3>1. PICK i \in 1..Len(s) : s[i] = y
      BY <1>0 DEF ToSet
    <3>2. i \in 1..Len(t) /\ t[i] = y
      BY <1>0, <1>1, <3>1
    <3> QED BY <1>3, <3>2 DEF ToSet
  <2>3. x \in ToSet(t)
    <3>1. Len(s) + 1 \in 1..Len(t)
      BY <1>0, <1>1
    <3> QED BY <1>1, <1>3, <3>1 DEF ToSet
  <2> QED BY <2>1, <2>2, <2>3
<1>5. \A i \in 1..Len(s) : s[i] # x
  BY <1>0 DEF ToSet
<1>6. NoRepeats(t)
  <2> SUFFICES ASSUME NEW i \in 1..(Len(s) + 1), NEW j \in 1..(Len(s) + 1), t[i] = t[j]
               PROVE  i = j
    BY <1>1 DEF NoRepeats
  <2>1. CASE i = Len(s) + 1 \/ j = Len(s) + 1
    BY <1>0, <1>1, <1>5, <2>1
  <2>2. CASE i # Len(s) + 1 /\ j # Len(s) + 1
    <3>1. i \in 1..Len(s) /\ j \in 1..Len(s)
      BY <1>0, <2>2
    <3> QED BY <1>1, <3>1 DEF NoRepeats
  <2> QED BY <2>1, <2>2
<1>7. ASSUME NEW y \in ToSet(s)
      PROVE  Place(t, y) = Place(s, y) /\ Place(s, y) \in 1..Len(s)
  <2>1. Place(s, y) \in 1..Len(s) /\ s[Place(s, y)] = y
    BY PlaceFound
  <2>2. Place(t, y) \in 1..Len(t) /\ t[Place(t, y)] = y
    BY <1>1, <1>4, PlaceFound
  <2>3. Place(s, y) \in 1..Len(t) /\ t[Place(s, y)] = y
    BY <1>0, <1>1, <2>1
  <2> QED BY <1>6, <2>1, <2>2, <2>3 DEF NoRepeats
<1>8. Place(t, x) = Len(s) + 1
  <2>1. Place(t, x) \in 1..Len(t) /\ t[Place(t, x)] = x
    BY <1>1, <1>4, PlaceFound
  <2>2. Len(s) + 1 \in 1..Len(t)
    BY <1>0, <1>1
  <2> QED BY <1>1, <1>6, <2>1, <2>2 DEF NoRepeats
<1>9. Sorted(r, t)
  <2>1. ASSUME NEW i \in 1..Len(r) PROVE r[i] \in ToSet(t)
    <3>1. i = Len(q) + 1 \/ i \in 1..Len(q)
      BY <1>0, <1>2
    <3> QED BY <1>2, <1>4, <3>1 DEF Sorted
  <2>2. ASSUME NEW i \in 1..Len(r), NEW j \in 1..Len(r), i < j
        PROVE  Place(t, r[i]) < Place(t, r[j])
    <3>1. i \in 1..Len(q) /\ r[i] = q[i] /\ q[i] \in ToSet(s)
      BY <1>0, <1>2, <2>2 DEF Sorted
    <3>2. CASE j = Len(q) + 1
      BY <1>0, <1>2, <1>7, <1>8, <3>1, <3>2
    <3>3. CASE j # Len(q) + 1
      <4>1. j \in 1..Len(q) /\ r[j] = q[j] /\ q[j] \in ToSet(s)
        BY <1>0, <1>2, <3>3 DEF Sorted
      <4> QED BY <1>7, <2>2, <3>1, <4>1 DEF Sorted
    <3> QED BY <3>2, <3>3
  <2> QED BY <2>1, <2>2 DEF Sorted
<1> QED BY <1>1, <1>2, <1>4, <1>6, <1>9 DEF t, r

(* A queue that lost entries, with everything else of the queue unchanged. *)
LEMMA LosesEntries ==
  ASSUME QueueInv, NEW r \in Seq(Events), Len(r) <= Len(dlq),
         NEW f \in [1..Len(r) -> 1..Len(dlq)],
         \A i \in 1..Len(r) : r[i] = dlq[f[i]],
         \A i, j \in 1..Len(r) : i < j => f[i] < f[j]
  PROVE  r \in Seq(Events) /\ Len(r) <= MaxDlqSize /\ Sorted(r, sent)
<1>1. Len(r) <= MaxDlqSize
  BY LenProperties, DLQAssumptions DEF QueueInv, DlqTypeOK
<1>2. Sorted(r, sent)
  BY SubsequenceSorted DEF QueueInv
<1> QED BY <1>1, <1>2

(* Without its first n entries, or without its j-th, the queue is as it should be. *)
LEMMA QueueShrinks ==
  ASSUME QueueInv
  PROVE  /\ \A n \in 0..Len(dlq) : LET r == SubSeq(dlq, n + 1, Len(dlq))
              IN  r \in Seq(Events) /\ Len(r) <= MaxDlqSize /\ Sorted(r, sent)
         /\ \A j \in 1..Len(dlq) : LET r == RemoveAt(dlq, j)
              IN  r \in Seq(Events) /\ Len(r) <= MaxDlqSize /\ Sorted(r, sent)
<1>0. dlq \in Seq(Events) /\ Len(dlq) \in Nat
  BY LenProperties DEF QueueInv, DlqTypeOK
<1>1. ASSUME NEW n \in 0..Len(dlq)
      PROVE  LET r == SubSeq(dlq, n + 1, Len(dlq))
             IN  r \in Seq(Events) /\ Len(r) <= MaxDlqSize /\ Sorted(r, sent)
  <2> DEFINE r == SubSeq(dlq, n + 1, Len(dlq))
             f == [i \in 1..(Len(dlq) - n) |-> n + i]
  <2>1. r \in Seq(Events) /\ Len(r) = Len(dlq) - n /\ \A i \in 1..(Len(dlq) - n) : r[i] = dlq[n + i]
    BY <1>0, WithoutFirst
  <2> HIDE DEF r
  <2>2. /\ f \in [1..Len(r) -> 1..Len(dlq)] /\ Len(r) <= Len(dlq)
        /\ \A i \in 1..Len(r) : r[i] = dlq[f[i]]
        /\ \A i, j \in 1..Len(r) : i < j => f[i] < f[j]
    BY <1>0, <2>1
  <2> HIDE DEF f
  <2>3. r \in Seq(Events) /\ Len(r) <= MaxDlqSize /\ Sorted(r, sent)
    BY <2>1, <2>2, LosesEntries
  <2> QED BY <2>3 DEF r
<1>2. ASSUME NEW k \in 1..Len(dlq)
      PROVE  LET r == RemoveAt(dlq, k)
             IN  r \in Seq(Events) /\ Len(r) <= MaxDlqSize /\ Sorted(r, sent)
  <2> DEFINE r == RemoveAt(dlq, k)
             f == [i \in 1..(Len(dlq) - 1) |-> IF i < k THEN i ELSE i + 1]
  <2>1. /\ r \in Seq(Events) /\ Len(r) = Len(dlq) - 1
        /\ \A i \in 1..(Len(dlq) - 1) : r[i] = dlq[IF i < k THEN i ELSE i + 1]
    BY <1>0, WithoutOne
  <2> HIDE DEF r
  <2>2. /\ f \in [1..Len(r) -> 1..Len(dlq)] /\ Len(r) <= Len(dlq)
        /\ \A i \in 1..Len(r) : r[i] = dlq[f[i]]
        /\ \A i, j \in 1..Len(r) : i < j => f[i] < f[j]
    BY <1>0, <2>1
  <2> HIDE DEF f
  <2>3. r \in Seq(Events) /\ Len(r) <= MaxDlqSize /\ Sorted(r, sent)
    BY <2>1, <2>2, LosesEntries
  <2> QED BY <2>3 DEF r
<1> QED BY <1>1, <1>2

(* A step of the retry task that leaves the queue as it is. *)
LEMMA BatchMoves ==
  ASSUME QueueInv, NEW p \in batch, NextInBatch(p), UNCHANGED <<queue, manualVars, sent>>,
         published' \subseteq Events, discarded' \subseteq Events
  PROVE  QueueInv'
<1>1. /\ batch' \subseteq batch /\ retry' \in {"asleep", "publishing"}
      /\ UNCHANGED <<dlq, retryCount, due, manual, manualState, sent>>
  BY DEF NextInBatch, queue, manualVars
<1>2. DlqTypeOK'
  BY <1>1 DEF QueueInv, DlqTypeOK
<1>3. BatchShape'
  BY <1>1 DEF QueueInv, BatchShape
<1> QED BY <1>1, <1>2, <1>3 DEF QueueInv

(* _retry_event under the lock keeps the queue as it should be, also when the entry at
   the index is no longer the one that was published. *)
LEMMA SettleKeeps ==
  ASSUME QueueInv, NEW p \in batch, NEW answer \in {"accepted", "refused"}, Settle(p, answer),
         UNCHANGED <<manualVars, sent>>, published' \subseteq Events, discarded' \subseteq Events
  PROVE  QueueInv'
<1>0. /\ DlqTypeOK /\ BatchShape /\ Len(dlq) \in Nat
      /\ p.index \in 1..MaxDlqSize /\ p.entry \in Events /\ MaxRetryAttempts \in Nat
      /\ batch' = batch \ {p} /\ retry' \in {"asleep", "publishing"}
      /\ UNCHANGED <<manual, manualState, sent>>
  BY LenProperties, DLQAssumptions DEF QueueInv, DlqTypeOK, Settle, NextInBatch, manualVars
<1>1. CASE p.index <= Len(dlq) /\ answer = "accepted"
  <2>1. dlq' = RemoveAt(dlq, p.index) /\ retryCount' = retryCount /\ due' = due
    BY <1>1 DEF Settle
  <2>2. p.index \in 1..Len(dlq)
    BY <1>0, <1>1
  <2>3. dlq' \in Seq(Events) /\ Len(dlq') <= MaxDlqSize /\ Sorted(dlq', sent)
    BY <2>1, <2>2, QueueShrinks
  <2>4. DlqTypeOK'
    BY <1>0, <2>1, <2>3 DEF DlqTypeOK
  <2>5. BatchShape'
    BY <1>0, <2>1 DEF BatchShape
  <2> QED BY <1>0, <2>3, <2>4, <2>5 DEF QueueInv
<1>2. CASE p.index <= Len(dlq) /\ answer = "refused"
  <2>1. /\ dlq' = dlq /\ retryCount' = [retryCount EXCEPT ![p.entry] = @ + 1]
        /\ due' = [due EXCEPT ![p.entry] = FALSE]
    BY <1>2 DEF Settle
  <2>2. /\ retryCount \in [Events -> 0..MaxRetryAttempts]
        /\ retryCount[p.entry] < MaxRetryAttempts
    BY <1>0 DEF DlqTypeOK, BatchShape
  <2>3. retryCount' \in [Events -> 0..MaxRetryAttempts]
    BY <1>0, <2>1, <2>2
  <2>4. due' \in [Events -> BOOLEAN]
    BY <1>0, <2>1 DEF DlqTypeOK
  <2>5. DlqTypeOK'
    BY <1>0, <2>1, <2>3, <2>4 DEF DlqTypeOK
  <2>6. ASSUME NEW q \in batch' PROVE retryCount'[q.entry] < MaxRetryAttempts
    <3>1. q \in batch /\ q # p /\ q.entry \in Events
      BY <1>0 DEF DlqTypeOK
    <3>2. q.entry # p.entry
      BY <1>0, <3>1 DEF BatchShape
    <3>3. retryCount'[q.entry] = retryCount[q.entry]
      BY <2>1, <2>2, <3>1, <3>2
    <3> QED BY <1>0, <3>1, <3>3 DEF BatchShape
  <2>7. BatchShape'
    BY <1>0, <2>6 DEF BatchShape
  <2> QED BY <1>0, <2>1, <2>5, <2>7 DEF QueueInv
<1>3. CASE ~(p.index <= Len(dlq))
  <2>1. UNCHANGED queue
    BY <1>3 DEF Settle, queue
  <2>2. NextInBatch(p)
    BY DEF Settle
  <2> QED BY <2>1, <2>2, BatchMoves
<1> QED BY <1>1, <1>2, <1>3

(* The retry task notes entries that differ and have attempts left. *)
LEMMA ProcessRetriesKeeps == ASSUME QueueInv, ProcessRetries PROVE QueueInv'
<1> DEFINE ready == {[index |-> i, entry |-> dlq[i]] : i \in {j \in DOMAIN dlq : Ready(j)}}
<1>0. /\ DlqTypeOK /\ dlq \in Seq(Events) /\ Len(dlq) \in Nat /\ DOMAIN dlq = 1..Len(dlq)
      /\ Len(dlq) <= MaxDlqSize /\ MaxDlqSize \in Nat
      /\ \A i \in 1..Len(dlq) : dlq[i] \in Events
  BY LenProperties, ElementOfSeq, DLQAssumptions DEF QueueInv, DlqTypeOK
<1>1. batch' = ready /\ retry' = "publishing" /\ UNCHANGED <<dlq, retryCount, due>>
      /\ UNCHANGED <<manual, manualState, sent, published, discarded>>
  BY DEF ProcessRetries, queue, manualVars, history
<1>2. \A i, j \in 1..Len(dlq) : dlq[i] = dlq[j] => i = j
  BY <1>0, SortedDiffer DEF QueueInv, DlqTypeOK
<1>3. ASSUME NEW p \in ready
      PROVE  /\ p.index \in 1..Len(dlq) /\ p.entry = dlq[p.index]
             /\ p = [index |-> p.index, entry |-> dlq[p.index]]
             /\ retryCount[p.entry] < MaxRetryAttempts
  <2>1. PICK i \in 1..Len(dlq) : Ready(i) /\ p = [index |-> i, entry |-> dlq[i]]
    BY <1>0
  <2> QED BY <2>1 DEF Ready
<1> HIDE DEF ready
<1>4. ready \subseteq [index : 1..MaxDlqSize, entry : Events]
  <2> SUFFICES ASSUME NEW p \in ready PROVE p \in [index : 1..MaxDlqSize, entry : Events]
    OBVIOUS
  <2>1. p.index \in 1..MaxDlqSize /\ dlq[p.index] \in Events
    BY <1>0, <1>3
  <2> QED BY <1>3, <2>1
<1>5. DlqTypeOK'
  BY <1>0, <1>1, <1>4 DEF DlqTypeOK
<1>6. \A p, q \in ready : p.entry = q.entry => p = q
  <2> SUFFICES ASSUME NEW p \in ready, NEW q \in ready, p.entry = q.entry PROVE p = q
    OBVIOUS
  <2>1. p.index = q.index
    BY <1>2, <1>3
  <2> QED BY <1>3, <2>1
<1>7. BatchShape'
  BY <1>1, <1>3, <1>6 DEF BatchShape
<1> QED BY <1>1, <1>5, <1>7 DEF QueueInv

(* Whatever the tasks and the users of the queue do, it stays as it should be, and
   nothing is sent to it. *)
LEMMA BackgroundKeeps == ASSUME QueueInv, Background PROVE QueueInv' /\ sent' = sent
<1>0. /\ DlqTypeOK /\ BatchShape /\ Len(dlq) \in Nat /\ DOMAIN dlq = 1..Len(dlq)
      /\ \A i \in 1..Len(dlq) : dlq[i] \in Events
  BY LenProperties, ElementOfSeq DEF QueueInv, DlqTypeOK
<1>1. CASE Start
  BY <1>0, <1>1 DEF Start, QueueInv, DlqTypeOK, BatchShape, queue, manualVars, history
<1>2. CASE Stop
  BY <1>0, <1>2 DEF Stop, QueueInv, DlqTypeOK, BatchShape, queue, manualVars, history
<1>3. CASE ClearDlq
  <2>1. /\ dlq' = <<>> /\ discarded' = discarded \cup ToSet(dlq)
        /\ UNCHANGED <<retryCount, due, retry, batch, manual, manualState, sent, published>>
    BY <1>3 DEF ClearDlq, retryVars, manualVars
  <2>2. ToSet(dlq) \subseteq Events
    BY <1>0 DEF ToSet
  <2>3. dlq' \in Seq(Events) /\ Len(dlq') = 0
    BY <2>1, EmptySeq
  <2>4. DlqTypeOK'
    BY <1>0, <2>1, <2>2, <2>3, DLQAssumptions DEF DlqTypeOK
  <2>5. Sorted(dlq', sent)
    BY <2>3 DEF Sorted
  <2> QED BY <1>0, <2>1, <2>4, <2>5 DEF QueueInv, BatchShape
<1>4. CASE ProcessRetries
  BY <1>4, ProcessRetriesKeeps DEF ProcessRetries, history
<1>5. ASSUME NEW p \in batch, PublishRaises(p) PROVE QueueInv' /\ sent' = sent
  <2>1. UNCHANGED <<queue, manualVars, sent, published, discarded>> /\ NextInBatch(p)
    BY <1>5 DEF PublishRaises, history
  <2>2. published' \subseteq Events /\ discarded' \subseteq Events
    BY <1>0, <2>1 DEF DlqTypeOK
  <2> QED BY <2>1, <2>2, BatchMoves
<1>6. ASSUME NEW p \in batch, NEW answer \in {"accepted", "refused"}, PublishReturns(p, answer)
      PROVE  QueueInv' /\ sent' = sent
  <2>1. /\ UNCHANGED <<manualVars, sent, discarded>> /\ p.entry \in Events
        /\ published' = IF answer = "accepted" THEN published \cup {p.entry} ELSE published
    BY <1>0, <1>6 DEF PublishReturns, DlqTypeOK
  <2>2. published' \subseteq Events /\ discarded' \subseteq Events
    BY <1>0, <2>1 DEF DlqTypeOK
  <2>3. CASE Settle(p, answer)
    BY <2>1, <2>2, <2>3, SettleKeeps
  <2>4. CASE retry' = answer /\ UNCHANGED <<queue, batch>>
    <3>1. DlqTypeOK'
      BY <1>0, <2>1, <2>2, <2>4 DEF DlqTypeOK, queue, manualVars
    <3> QED BY <2>1, <2>4, <3>1 DEF QueueInv, BatchShape, queue, manualVars
  <2> QED BY <1>6, <2>3, <2>4 DEF PublishReturns
<1>7. ASSUME NEW p \in batch, RetryLocks(p) PROVE QueueInv' /\ sent' = sent
  <2>1. /\ UNCHANGED <<manualVars, sent, published, discarded>>
        /\ retry \in {"accepted", "refused"} /\ Settle(p, retry)
    BY <1>7 DEF RetryLocks, history
  <2>2. published' \subseteq Events /\ discarded' \subseteq Events
    BY <1>0, <2>1 DEF DlqTypeOK
  <2> QED BY <2>1, <2>2, SettleKeeps
<1>8. ASSUME NEW n \in 1..Len(dlq), CleanupExpired(n) PROVE QueueInv' /\ sent' = sent
  <2>1. /\ dlq' = SubSeq(dlq, n + 1, Len(dlq))
        /\ discarded' = discarded \cup ToSet(SubSeq(dlq, 1, n))
        /\ UNCHANGED <<retryCount, due, retry, batch, manual, manualState, sent, published>>
    BY <1>8 DEF CleanupExpired, retryVars, manualVars
  <2>2. n \in 0..Len(dlq) /\ n \in Int /\ \A i \in 1..n : dlq[i] \in Events
    BY <1>0
  <2>3. SubSeq(dlq, 1, n) \in Seq(Events)
    BY <2>2, SubSeqProperties
  <2>4. ToSet(SubSeq(dlq, 1, n)) \subseteq Events
    BY <2>3, LenProperties, ElementOfSeq DEF ToSet
  <2>5. dlq' \in Seq(Events) /\ Len(dlq') <= MaxDlqSize /\ Sorted(dlq', sent)
    BY <2>1, <2>2, QueueShrinks
  <2>6. DlqTypeOK'
    BY <1>0, <2>1, <2>4, <2>5 DEF DlqTypeOK
  <2> QED BY <1>0, <2>1, <2>5, <2>6 DEF QueueInv, BatchShape
<1>9. ASSUME NEW e \in Events, BecomesDue(e) PROVE QueueInv' /\ sent' = sent
  <2>1. /\ due' = [due EXCEPT ![e] = TRUE]
        /\ UNCHANGED <<dlq, retryCount, retry, batch, manual, manualState, sent, published, discarded>>
    BY <1>9 DEF BecomesDue, retryVars, manualVars, history
  <2>2. due' \in [Events -> BOOLEAN]
    BY <1>0, <2>1 DEF DlqTypeOK
  <2>3. DlqTypeOK'
    BY <1>0, <2>1, <2>2 DEF DlqTypeOK
  <2> QED BY <1>0, <2>1, <2>3 DEF QueueInv, BatchShape
<1>10. ASSUME NEW e \in Manual, ManualRetry(e) PROVE QueueInv' /\ sent' = sent
  BY <1>0, <1>10, DLQAssumptions
     DEF ManualRetry, QueueInv, DlqTypeOK, BatchShape, queue, retryVars, history
<1>11. ASSUME NEW accepted \in BOOLEAN, ManualPublished(accepted) PROVE QueueInv' /\ sent' = sent
  <2>1. /\ UNCHANGED <<dlq, retryCount, due, retry, batch, manual, sent, discarded>>
        /\ manualState' = "locking" /\ published' \subseteq published \cup {manual}
    BY <1>11 DEF ManualPublished, queue, retryVars
  <2>2. manual \in Events
    BY <1>0, <1>11 DEF ManualPublished, QueueInv, DlqTypeOK
  <2>3. DlqTypeOK'
    BY <1>0, <2>1, <2>2 DEF DlqTypeOK
  <2> QED BY <1>0, <2>1, <2>2, <2>3, DLQAssumptions DEF QueueInv, BatchShape
<1>12. CASE ManualRaises
  BY <1>0, <1>12 DEF ManualRaises, QueueInv, DlqTypeOK, BatchShape, queue, retryVars, history
<1> QED
  BY <1>1, <1>2, <1>3, <1>4, <1>5, <1>6, <1>7, <1>8, <1>9, <1>10, <1>11, <1>12
     DEF Background, Publishing

(* send_to_dlq keeps it so too, and the new entry is last in the order of arrival; a
   full queue loses its first. *)
LEMMA SendKeeps ==
  ASSUME QueueInv, NEW e \in Events, SendToDlq(e)
  PROVE  QueueInv' /\ ToSet(sent') = ToSet(sent) \cup {e} /\ Len(sent') = Len(sent) + 1
<1>0. /\ DlqTypeOK /\ BatchShape /\ dlq \in Seq(Events) /\ sent \in Seq(Events)
      /\ Len(dlq) \in Nat /\ Len(dlq) <= MaxDlqSize /\ MaxDlqSize \in Nat \ {0}
      /\ NoRepeats(sent) /\ Sorted(dlq, sent) /\ e \notin ToSet(sent)
  BY LenProperties, DLQAssumptions DEF QueueInv, DlqTypeOK, SendToDlq
<1>1. /\ due' = [due EXCEPT ![e] = TRUE] /\ sent' = Append(sent, e)
      /\ UNCHANGED <<retryCount, retry, batch, manual, manualState, published>>
  BY DEF SendToDlq, retryVars, manualVars
<1>2. PICK r \in Seq(Events) :
        Sorted(r, sent) /\ Len(r) < MaxDlqSize /\ dlq' = Append(r, e) /\ discarded' \subseteq Events
  <2>1. CASE Len(dlq) >= MaxDlqSize
    <3>1. dlq' = Append(Tail(dlq), e) /\ discarded' = discarded \cup {Head(dlq)}
      BY <2>1 DEF SendToDlq
    <3>2. dlq # <<>> /\ Len(dlq) >= 1
      BY <1>0, <2>1, EmptySeq
    <3>3. Head(dlq) \in Events /\ Len(Tail(dlq)) = Len(dlq) - 1 /\ Tail(dlq) = SubSeq(dlq, 2, Len(dlq))
      BY <1>0, <3>2, HeadTailProperties, TailIsSubSeq
    <3>4. 1 \in 0..Len(dlq) /\ 1 + 1 = 2
      BY <1>0, <3>2
    <3>5. Tail(dlq) \in Seq(Events) /\ Sorted(Tail(dlq), sent)
      BY <3>3, <3>4, QueueShrinks
    <3>6. discarded' \subseteq Events /\ Len(Tail(dlq)) < MaxDlqSize
      BY <1>0, <3>1, <3>3 DEF DlqTypeOK
    <3> QED BY <3>1, <3>5, <3>6
  <2>2. CASE ~(Len(dlq) >= MaxDlqSize)
    <3>1. dlq' = Append(dlq, e) /\ discarded' = discarded /\ Len(dlq) < MaxDlqSize
      BY <1>0, <2>2 DEF SendToDlq
    <3> QED BY <1>0, <3>1 DEF DlqTypeOK
  <2> QED BY <2>1, <2>2
<1>3. /\ sent' \in Seq(Events) /\ Len(sent') = Len(sent) + 1
      /\ ToSet(sent') = ToSet(sent) \cup {e} /\ NoRepeats(sent')
      /\ dlq' \in Seq(Events) /\ Len(dlq') = Len(r) + 1 /\ Sorted(dlq', sent')
  BY <1>0, <1>1, <1>2, Arrives
<1>4. Len(dlq') <= MaxDlqSize
  BY <1>0, <1>2, <1>3, LenProperties
<1>5. due' \in [Events -> BOOLEAN]
  BY <1>0, <1>1 DEF DlqTypeOK
<1>6. DlqTypeOK'
  BY <1>0, <1>1, <1>2, <1>3, <1>4, <1>5 DEF DlqTypeOK
<1> QED BY <1>0, <1>1, <1>3, <1>6 DEF QueueInv, BatchShape

-----------------------------------------------------------------------------
Busy == {"handling", "backoff", "locking"}
Labels == {"new", "waiting", "ignored", "processed", "failed", "dead"} \cup Busy

ConsumerTypes ==
  /\ enableDlq \in BOOLEAN
  /\ permits \in Nat
  /\ pc \in [Events -> Labels]
  /\ attempt \in [Events -> 0..RetryAttempts]

\* How many attempts a delivery has had, by where its task is.
AttemptsByPlace ==
  \A e \in Events :
    /\ pc[e] \in {"new", "waiting"} => attempt[e] = 0
    /\ pc[e] \in {"handling", "backoff"} => attempt[e] >= 1
    /\ pc[e] = "backoff" => attempt[e] < RetryAttempts
    /\ pc[e] \in {"locking", "dead"} => attempt[e] = RetryAttempts

\* There may be infinitely many deliveries, but only finitely many have moved.
Counted ==
  /\ IsFiniteSet(Inside) /\ permits + Cardinality(Inside) = MaxConcurrent
  /\ IsFiniteSet(Ended("processed")) /\ processed = Cardinality(Ended("processed"))
  /\ IsFiniteSet(Ended("failed")) /\ failed = Cardinality(Ended("failed"))

CallsCounted == IsFiniteSet(LaterCalls) /\ retried = Cardinality(LaterCalls)

DeadAreSent ==
  /\ \A e \in Events : e \in ToSet(sent) <=> pc[e] = "dead"
  /\ dead = Len(sent)

(* The inductive invariant. *)
ConsumerInv == QueueInv /\ ConsumerTypes /\ AttemptsByPlace /\ Counted /\ CallsCounted /\ DeadAreSent

(* What a move of one task does to the sets that the permits and the statistics count. *)
LEMMA MoveCounts ==
  ASSUME ConsumerTypes, Counted, NEW e \in Events, NEW l \in Labels, Goto(e, l),
         pc[e] \in {"new", "waiting"} \cup Busy
  PROVE  /\ pc' \in [Events -> Labels]
         /\ IsFiniteSet(Inside') /\ IsFiniteSet(Ended("processed")') /\ IsFiniteSet(Ended("failed")')
         /\ Cardinality(Inside) \in Nat /\ Cardinality(Inside') \in Nat
         /\ pc[e] \in Busy =>
              Cardinality(Inside') = IF l \in Busy THEN Cardinality(Inside) ELSE Cardinality(Inside) - 1
         /\ pc[e] \notin Busy =>
              Cardinality(Inside') = IF l \in Busy THEN Cardinality(Inside) + 1 ELSE Cardinality(Inside)
         /\ Cardinality(Ended("processed")') = IF l = "processed" THEN processed + 1 ELSE processed
         /\ Cardinality(Ended("failed")') = IF l = "failed" THEN failed + 1 ELSE failed
<1>1. pc' = [pc EXCEPT ![e] = l] /\ pc' \in [Events -> Labels]
  BY DEF ConsumerTypes, Goto
<1>2. pc'[e] = l /\ \A f \in Events : f # e => pc'[f] = pc[f]
  BY <1>1 DEF ConsumerTypes
<1>3. /\ Inside' = IF l \in Busy THEN Inside \cup {e} ELSE Inside \ {e}
      /\ e \in Inside <=> pc[e] \in Busy
  BY <1>2 DEF Inside, Busy
<1>4. Ended("processed")' = IF l = "processed" THEN Ended("processed") \cup {e} ELSE Ended("processed")
  BY <1>2 DEF Ended, Busy
<1>5. Ended("failed")' = IF l = "failed" THEN Ended("failed") \cup {e} ELSE Ended("failed")
  BY <1>2 DEF Ended, Busy
<1>6. e \notin Ended("processed") /\ e \notin Ended("failed")
  BY DEF Ended, Busy
<1>7. /\ IsFiniteSet(Inside \cup {e}) /\ IsFiniteSet(Inside \ {e})
      /\ Cardinality(Inside \cup {e}) = IF e \in Inside THEN Cardinality(Inside) ELSE Cardinality(Inside) + 1
      /\ Cardinality(Inside \ {e}) = IF e \in Inside THEN Cardinality(Inside) - 1 ELSE Cardinality(Inside)
  BY FS_AddElement, FS_RemoveElement DEF Counted
<1>8. IsFiniteSet(Inside') /\ Cardinality(Inside) \in Nat /\ Cardinality(Inside') \in Nat
  BY <1>3, <1>7, FS_CardinalityType DEF Counted
<1>9. /\ IsFiniteSet(Ended("processed") \cup {e}) /\ IsFiniteSet(Ended("failed") \cup {e})
      /\ Cardinality(Ended("processed") \cup {e}) = processed + 1
      /\ Cardinality(Ended("failed") \cup {e}) = failed + 1
  BY <1>6, FS_AddElement DEF Counted
<1>10. /\ IsFiniteSet(Ended("processed")')
       /\ Cardinality(Ended("processed")') = IF l = "processed" THEN processed + 1 ELSE processed
  BY <1>4, <1>9 DEF Counted
<1>11. /\ IsFiniteSet(Ended("failed")')
       /\ Cardinality(Ended("failed")') = IF l = "failed" THEN failed + 1 ELSE failed
  BY <1>5, <1>9 DEF Counted
<1> QED BY <1>1, <1>3, <1>7, <1>8, <1>10, <1>11

\* The attempts that a task may have had when it is at l.
Fits(l, k) ==
  /\ l \in {"new", "waiting"} => k = 0
  /\ l \in {"handling", "backoff"} => k >= 1
  /\ l = "backoff" => k < RetryAttempts
  /\ l \in {"locking", "dead"} => k = RetryAttempts

(* A task that moves takes a number of attempts along that fits. *)
LEMMA AttemptsMove ==
  ASSUME ConsumerTypes, AttemptsByPlace, NEW e \in Events, NEW l \in Labels, Goto(e, l),
         NEW k \in 0..RetryAttempts, attempt' = [attempt EXCEPT ![e] = k], Fits(l, k)
  PROVE  attempt' \in [Events -> 0..RetryAttempts] /\ AttemptsByPlace'
<1>1. attempt' \in [Events -> 0..RetryAttempts]
  BY DEF ConsumerTypes
<1>2. pc'[e] = l /\ attempt'[e] = k
  BY DEF ConsumerTypes, Goto
<1>3. \A f \in Events : f # e => pc'[f] = pc[f] /\ attempt'[f] = attempt[f]
  BY DEF ConsumerTypes, Goto
<1>4. \A f \in Events : f # e => Fits(pc'[f], attempt'[f])
  BY <1>3 DEF AttemptsByPlace, Fits
<1>5. \A f \in Events : Fits(pc'[f], attempt'[f])
  BY <1>2, <1>4
<1> QED BY <1>1, <1>5 DEF AttemptsByPlace, Fits

(* A step that leaves the queue alone keeps what is said of it. *)
LEMMA QueueStays == ASSUME QueueInv, UNCHANGED dlqVars PROVE QueueInv' /\ sent' = sent
<1>1. UNCHANGED <<dlq, retryCount, due, retry, batch, manual, manualState, sent, published, discarded>>
  BY DEF dlqVars, queue, retryVars, manualVars, history
<1>2. DlqTypeOK'
  BY <1>1 DEF QueueInv, DlqTypeOK
<1> QED BY <1>1, <1>2 DEF QueueInv, BatchShape

(* A move of a task that ends anywhere but in the queue: if the permit and the
   counters follow the move, everything stays accounted for. *)
LEMMA TaskMoves ==
  ASSUME ConsumerInv, NEW e \in Events, NEW l \in Labels \ {"dead"}, Goto(e, l),
         pc[e] \in {"new", "waiting"} \cup Busy,
         NEW k \in 0..RetryAttempts, attempt' = [attempt EXCEPT ![e] = k], Fits(l, k),
         UNCHANGED <<dlqVars, enableDlq, dead>>, CallsCounted',
         permits' \in Nat,
         pc[e] \in Busy => permits' = IF l \in Busy THEN permits ELSE permits + 1,
         pc[e] \notin Busy => permits' = IF l \in Busy THEN permits - 1 ELSE permits,
         processed' = IF l = "processed" THEN processed + 1 ELSE processed,
         failed' = IF l = "failed" THEN failed + 1 ELSE failed
  PROVE  ConsumerInv'
<1>0. QueueInv /\ ConsumerTypes /\ AttemptsByPlace /\ Counted /\ DeadAreSent
  BY DEF ConsumerInv
<1>1. QueueInv' /\ sent' = sent
  BY <1>0, QueueStays
<1>2. attempt' \in [Events -> 0..RetryAttempts] /\ AttemptsByPlace'
  BY <1>0, AttemptsMove
<1>3. /\ pc' \in [Events -> Labels]
      /\ IsFiniteSet(Inside') /\ IsFiniteSet(Ended("processed")') /\ IsFiniteSet(Ended("failed")')
      /\ Cardinality(Inside) \in Nat /\ Cardinality(Inside') \in Nat
      /\ pc[e] \in Busy =>
           Cardinality(Inside') = IF l \in Busy THEN Cardinality(Inside) ELSE Cardinality(Inside) - 1
      /\ pc[e] \notin Busy =>
           Cardinality(Inside') = IF l \in Busy THEN Cardinality(Inside) + 1 ELSE Cardinality(Inside)
      /\ Cardinality(Ended("processed")') = processed' /\ Cardinality(Ended("failed")') = failed'
  BY <1>0, MoveCounts
<1>4. permits \in Nat /\ permits + Cardinality(Inside) = MaxConcurrent
  BY <1>0 DEF ConsumerTypes, Counted
<1>5. permits' + Cardinality(Inside') = MaxConcurrent
  BY <1>3, <1>4
<1>6. Counted'
  BY <1>3, <1>5 DEF Counted
<1>7. ConsumerTypes'
  BY <1>0, <1>2, <1>3 DEF ConsumerTypes
<1>8. DeadAreSent'
  <2>1. pc'[e] = l /\ \A f \in Events : f # e => pc'[f] = pc[f]
    BY <1>0 DEF ConsumerTypes, Goto
  <2>2. l # "dead" /\ pc[e] # "dead"
    BY DEF Busy
  <2> QED BY <1>0, <1>1, <2>1, <2>2 DEF DeadAreSent
<1> QED BY <1>1, <1>2, <1>6, <1>7, <1>8 DEF ConsumerInv

(* _send_to_dlq gives the permit back and counts the event it sends. *)
LEMMA BuryKeeps ==
  ASSUME ConsumerInv, NEW e \in Events, pc[e] \in {"handling", "locking"}, attempt[e] = RetryAttempts, Bury(e)
  PROVE  ConsumerInv'
<1>0. QueueInv /\ ConsumerTypes /\ AttemptsByPlace /\ Counted /\ CallsCounted /\ DeadAreSent
  BY DEF ConsumerInv
<1>1. /\ SendToDlq(e) /\ Goto(e, "dead") /\ permits' = permits + 1 /\ dead' = dead + 1
      /\ UNCHANGED <<enableDlq, attempt, processed, failed, retried>>
  BY DEF Bury
<1>2. QueueInv' /\ ToSet(sent') = ToSet(sent) \cup {e} /\ Len(sent') = Len(sent) + 1
  BY <1>0, <1>1, SendKeeps
<1>3. /\ RetryAttempts \in 0..RetryAttempts /\ Fits("dead", RetryAttempts)
      /\ attempt' = [attempt EXCEPT ![e] = RetryAttempts]
  BY <1>0, <1>1, ConsumerAssumptions DEF Fits, ConsumerTypes
<1>4. "dead" \in Labels /\ "dead" \notin Busy /\ pc[e] \in Busy
  BY DEF Labels, Busy
<1>5. attempt' \in [Events -> 0..RetryAttempts] /\ AttemptsByPlace'
  BY <1>0, <1>1, <1>3, <1>4, AttemptsMove
<1>6. /\ pc' \in [Events -> Labels]
      /\ IsFiniteSet(Inside') /\ IsFiniteSet(Ended("processed")') /\ IsFiniteSet(Ended("failed")')
      /\ Cardinality(Inside) \in Nat /\ Cardinality(Inside') = Cardinality(Inside) - 1
      /\ Cardinality(Ended("processed")') = processed /\ Cardinality(Ended("failed")') = failed
  BY <1>0, <1>1, <1>4, MoveCounts
<1>7. permits \in Nat /\ permits + Cardinality(Inside) = MaxConcurrent
  BY <1>0 DEF ConsumerTypes, Counted
<1>8. permits' \in Nat /\ permits' + Cardinality(Inside') = MaxConcurrent
  BY <1>1, <1>6, <1>7
<1>9. Counted'
  BY <1>1, <1>6, <1>8 DEF Counted
<1>10. ConsumerTypes'
  BY <1>0, <1>1, <1>5, <1>6, <1>8 DEF ConsumerTypes
<1>11. DeadAreSent'
  <2>1. pc'[e] = "dead" /\ \A f \in Events : f # e => pc'[f] = pc[f]
    BY <1>0, <1>1 DEF ConsumerTypes, Goto
  <2> QED BY <1>0, <1>1, <1>2, <2>1 DEF DeadAreSent
<1>12. CallsCounted'
  BY <1>0, <1>1 DEF CallsCounted, LaterCalls
<1> QED BY <1>2, <1>5, <1>9, <1>10, <1>11, <1>12 DEF ConsumerInv

(* The first call of the handler is not counted as a retry; each call after it is. *)
LEMMA CallsMove ==
  ASSUME ConsumerInv, NEW e \in Events, attempt[e] < RetryAttempts,
         attempt' = [attempt EXCEPT ![e] = @ + 1],
         retried' = IF attempt[e] = 0 THEN retried ELSE retried + 1
  PROVE  CallsCounted'
<1>0. /\ attempt \in [Events -> 0..RetryAttempts] /\ RetryAttempts \in Nat
      /\ IsFiniteSet(LaterCalls) /\ retried = Cardinality(LaterCalls)
  BY ConsumerAssumptions DEF ConsumerInv, ConsumerTypes, CallsCounted
<1> DEFINE a == attempt[e]
<1>1. a \in 0..RetryAttempts /\ attempt'[e] = a + 1 /\ \A f \in Events : f # e => attempt'[f] = attempt[f]
  BY <1>0
<1>2. CASE a = 0
  <2>1. LaterCalls' = LaterCalls
    BY <1>0, <1>1, <1>2 DEF LaterCalls
  <2> QED BY <1>0, <1>2, <2>1 DEF CallsCounted
<1>3. CASE a # 0
  <2>1. <<e, a + 1>> \notin LaterCalls
    BY <1>0, <1>1 DEF LaterCalls
  <2>2. LaterCalls' = LaterCalls \cup {<<e, a + 1>>}
    <3>1. ASSUME NEW f \in Events, NEW n \in 2..RetryAttempts
          PROVE  n <= attempt'[f] <=> n <= attempt[f] \/ <<f, n>> = <<e, a + 1>>
      <4>1. CASE f = e
        BY <1>0, <1>1, <4>1
      <4>2. CASE f # e
        BY <1>0, <1>1, <4>2
      <4> QED BY <4>1, <4>2
    <3>2. <<e, a + 1>> \in Events \X (2..RetryAttempts)
      BY <1>0, <1>1, <1>3
    <3> HIDE DEF a
    <3> QED BY <3>1, <3>2 DEF LaterCalls
  <2>3. /\ IsFiniteSet(LaterCalls \cup {<<e, a + 1>>})
        /\ Cardinality(LaterCalls \cup {<<e, a + 1>>}) = Cardinality(LaterCalls) + 1
    BY <1>0, <2>1, FS_AddElement
  <2> QED BY <1>0, <1>3, <2>2, <2>3 DEF CallsCounted
<1> QED BY <1>2, <1>3

-----------------------------------------------------------------------------
(* A consumer that has just been made. *)
LEMMA ConsumerInvInit == ConsumerInit => ConsumerInv
<1> SUFFICES ASSUME ConsumerInit PROVE ConsumerInv
  OBVIOUS
<1>1. DlqTypeOK
  <2>1. dlq \in Seq(Events) /\ Len(dlq) = 0 /\ sent \in Seq(Events)
    BY EmptySeq DEF ConsumerInit, DlqInit
  <2>2. retryCount \in [Events -> 0..MaxRetryAttempts] /\ due \in [Events -> BOOLEAN]
    BY DLQAssumptions DEF ConsumerInit, DlqInit
  <2> QED BY <2>1, <2>2, DLQAssumptions DEF ConsumerInit, DlqInit, DlqTypeOK
<1>2. QueueInv
  <2>1. Len(dlq) = 0 /\ Len(sent) = 0 /\ batch = {} /\ manualState = "none"
    BY EmptySeq DEF ConsumerInit, DlqInit
  <2> QED BY <1>1, <2>1 DEF QueueInv, NoRepeats, Sorted, BatchShape
<1>3. ConsumerTypes
  BY ConsumerAssumptions DEF ConsumerInit, ConsumerTypes, Labels
<1>4. AttemptsByPlace
  BY DEF ConsumerInit, AttemptsByPlace
<1>5. Inside = {} /\ Ended("processed") = {} /\ Ended("failed") = {}
  BY DEF ConsumerInit, Inside, Ended
<1>6. LaterCalls = {}
  BY ConsumerAssumptions DEF ConsumerInit, LaterCalls
<1>7. Counted /\ CallsCounted
  BY <1>5, <1>6, FS_EmptySet, ConsumerAssumptions DEF ConsumerInit, Counted, CallsCounted
<1>8. DeadAreSent
  <2>1. ToSet(sent) = {} /\ Len(sent) = 0
    BY EmptySeq DEF ConsumerInit, DlqInit, ToSet
  <2> QED BY <2>1 DEF ConsumerInit, DeadAreSent
<1> QED BY <1>2, <1>3, <1>4, <1>7, <1>8 DEF ConsumerInv

(* Every step of a delivery or of the queue keeps the invariant. *)
LEMMA ConsumerInvStep == ConsumerInv /\ [ConsumerNext]_consumerVars => ConsumerInv'
<1> SUFFICES ASSUME ConsumerInv, [ConsumerNext]_consumerVars PROVE ConsumerInv'
  OBVIOUS
<1>0. /\ QueueInv /\ ConsumerTypes /\ AttemptsByPlace /\ Counted /\ CallsCounted /\ DeadAreSent
      /\ pc \in [Events -> Labels] /\ attempt \in [Events -> 0..RetryAttempts]
      /\ RetryAttempts \in Nat \ {0} /\ permits \in Nat
  BY ConsumerAssumptions DEF ConsumerInv, ConsumerTypes
<1>1. ASSUME UNCHANGED <<attempt, retried>> PROVE CallsCounted'
  BY <1>0, <1>1 DEF CallsCounted, LaterCalls
<1>2. ASSUME UNCHANGED <<enableDlq, permits, pc, attempt, stats>>, QueueInv', sent' = sent
      PROVE  ConsumerInv'
  <2>1. UNCHANGED <<enableDlq, permits, pc, attempt, processed, failed, retried, dead>>
    BY <1>2 DEF stats
  <2>2. ConsumerTypes' /\ AttemptsByPlace'
    BY <1>0, <2>1 DEF ConsumerTypes, AttemptsByPlace
  <2>3. Counted' /\ CallsCounted'
    BY <1>0, <2>1 DEF Counted, CallsCounted, Inside, Ended, LaterCalls
  <2>4. DeadAreSent'
    BY <1>0, <1>2, <2>1 DEF DeadAreSent
  <2> QED BY <1>2, <2>2, <2>3, <2>4 DEF ConsumerInv
<1>3. ASSUME NEW e \in Events, attempt' = attempt
      PROVE  attempt' = [attempt EXCEPT ![e] = attempt[e]] /\ attempt[e] \in 0..RetryAttempts
  BY <1>0, <1>3
<1>4. CASE QueueStep
  BY <1>0, <1>2, <1>4, BackgroundKeeps DEF QueueStep
<1>5. ASSUME NEW e \in Events, HandleEvent(e) PROVE ConsumerInv'
  <2>1. /\ pc[e] = "new" /\ Goto(e, "waiting")
        /\ UNCHANGED <<dlqVars, enableDlq, permits, attempt, processed, failed, retried, dead>>
    BY <1>5 DEF HandleEvent, stats
  <2>2. "waiting" \in Labels \ {"dead"} /\ Fits("waiting", attempt[e])
        /\ "waiting" \notin Busy /\ pc[e] \notin Busy
    BY <1>0, <2>1 DEF Labels, Busy, Fits, AttemptsByPlace
  <2> QED BY <1>0, <1>1, <1>3, <2>1, <2>2, TaskMoves
<1>6. ASSUME NEW e \in Events, CallHandler(e) PROVE ConsumerInv'
  <2>1. /\ pc[e] = "waiting" /\ permits > 0 /\ permits' = permits - 1 /\ Goto(e, "handling")
        /\ attempt' = [attempt EXCEPT ![e] = 1]
        /\ UNCHANGED <<dlqVars, enableDlq, processed, failed, retried, dead>>
    BY <1>6 DEF CallHandler, stats
  <2>2. "handling" \in Labels \ {"dead"} /\ Fits("handling", 1) /\ attempt[e] = 0
        /\ "handling" \in Busy /\ pc[e] \notin Busy
    BY <1>0, <2>1 DEF Labels, Busy, Fits, AttemptsByPlace
  <2>3. 1 \in 0..RetryAttempts /\ permits' \in Nat /\ attempt[e] < RetryAttempts
    BY <1>0, <2>1, <2>2
  <2>4. attempt' = [attempt EXCEPT ![e] = @ + 1]
    BY <2>1, <2>2
  <2>5. CallsCounted'
    BY <2>1, <2>2, <2>3, <2>4, CallsMove
  <2> QED BY <2>1, <2>2, <2>3, <2>5, TaskMoves
<1>7. ASSUME NEW e \in Events, NoHandler(e) PROVE ConsumerInv'
  <2>1. /\ pc[e] = "waiting" /\ Goto(e, "ignored")
        /\ UNCHANGED <<dlqVars, enableDlq, permits, attempt, processed, failed, retried, dead>>
    BY <1>7 DEF NoHandler, stats
  <2>2. "ignored" \in Labels \ {"dead"} /\ Fits("ignored", attempt[e])
        /\ "ignored" \notin Busy /\ pc[e] \notin Busy
    BY <2>1 DEF Labels, Busy, Fits
  <2> QED BY <1>0, <1>1, <1>3, <2>1, <2>2, TaskMoves
<1>8. ASSUME NEW e \in Events, HandlerReturns(e) PROVE ConsumerInv'
  <2>1. /\ pc[e] = "handling" /\ Goto(e, "processed") /\ permits' = permits + 1
        /\ processed' = processed + 1
        /\ UNCHANGED <<dlqVars, enableDlq, attempt, failed, retried, dead>>
    BY <1>8 DEF HandlerReturns
  <2>2. "processed" \in Labels \ {"dead"} /\ Fits("processed", attempt[e])
        /\ "processed" \notin Busy /\ pc[e] \in Busy /\ permits' \in Nat
    BY <1>0, <2>1 DEF Labels, Busy, Fits
  <2> QED BY <1>1, <1>3, <2>1, <2>2, TaskMoves
<1>9. ASSUME NEW e \in Events, HandlerFails(e) PROVE ConsumerInv'
  <2>1. /\ pc[e] = "handling" /\ attempt[e] < RetryAttempts /\ Goto(e, "backoff")
        /\ UNCHANGED <<dlqVars, enableDlq, permits, attempt, processed, failed, retried, dead>>
    BY <1>9 DEF HandlerFails, stats
  <2>2. "backoff" \in Labels \ {"dead"} /\ Fits("backoff", attempt[e])
        /\ "backoff" \in Busy /\ pc[e] \in Busy
    BY <1>0, <2>1 DEF Labels, Busy, Fits, AttemptsByPlace
  <2> QED BY <1>0, <1>1, <1>3, <2>1, <2>2, TaskMoves
<1>10. ASSUME NEW e \in Events, LastAttemptFails(e) PROVE ConsumerInv'
  <2>0. pc[e] = "handling" /\ attempt[e] = RetryAttempts
    BY <1>10 DEF LastAttemptFails
  <2>1. CASE Bury(e)
    BY <2>0, <2>1, BuryKeeps
  <2>2. CASE /\ Goto(e, "locking")
             /\ UNCHANGED <<dlqVars, enableDlq, permits, attempt, stats>>
    <3>1. UNCHANGED <<processed, failed, retried, dead>>
      BY <2>2 DEF stats
    <3>2. "locking" \in Labels \ {"dead"} /\ Fits("locking", attempt[e])
          /\ "locking" \in Busy /\ pc[e] \in Busy
      BY <2>0 DEF Labels, Busy, Fits
    <3> QED BY <1>0, <1>1, <1>3, <2>2, <3>1, <3>2, TaskMoves
  <2>3. CASE /\ Goto(e, "failed") /\ permits' = permits + 1 /\ failed' = failed + 1
             /\ UNCHANGED <<dlqVars, enableDlq, attempt, processed, retried, dead>>
    <3>1. "failed" \in Labels \ {"dead"} /\ Fits("failed", attempt[e])
          /\ "failed" \notin Busy /\ pc[e] \in Busy /\ permits' \in Nat
      BY <1>0, <2>0, <2>3 DEF Labels, Busy, Fits
    <3> QED BY <1>1, <1>3, <2>3, <3>1, TaskMoves
  <2> QED BY <1>10, <2>1, <2>2, <2>3 DEF LastAttemptFails
<1>11. ASSUME NEW e \in Events, CallAgain(e) PROVE ConsumerInv'
  <2>1. /\ pc[e] = "backoff" /\ attempt' = [attempt EXCEPT ![e] = @ + 1]
        /\ retried' = retried + 1 /\ Goto(e, "handling")
        /\ UNCHANGED <<dlqVars, enableDlq, permits, processed, failed, dead>>
    BY <1>11 DEF CallAgain
  <2>2. attempt[e] >= 1 /\ attempt[e] < RetryAttempts
    BY <1>0, <2>1 DEF AttemptsByPlace
  <2>3. "handling" \in Labels \ {"dead"} /\ Fits("handling", attempt[e] + 1)
        /\ "handling" \in Busy /\ pc[e] \in Busy
    BY <1>0, <2>1, <2>2 DEF Labels, Busy, Fits
  <2>4. attempt[e] + 1 \in 0..RetryAttempts /\ attempt[e] # 0
    BY <1>0, <2>2
  <2>5. CallsCounted'
    BY <2>1, <2>2, <2>4, CallsMove
  <2>6. attempt' = [attempt EXCEPT ![e] = attempt[e] + 1]
    BY <2>1
  <2> QED BY <1>0, <2>1, <2>3, <2>4, <2>5, <2>6, TaskMoves
<1>12. ASSUME NEW e \in Events, GetsLock(e) PROVE ConsumerInv'
  <2>1. pc[e] = "locking" /\ Bury(e) /\ attempt[e] = RetryAttempts
    BY <1>0, <1>12 DEF GetsLock, AttemptsByPlace
  <2> QED BY <2>1, BuryKeeps
<1>13. CASE UNCHANGED consumerVars
  <2>1. UNCHANGED dlqVars /\ UNCHANGED <<enableDlq, permits, pc, attempt, stats>>
    BY <1>13 DEF consumerVars
  <2> QED BY <1>0, <1>2, <2>1, QueueStays
<1> QED
  BY <1>4, <1>5, <1>6, <1>7, <1>8, <1>9, <1>10, <1>11, <1>12, <1>13 DEF ConsumerNext, HandlerStep

(* What the run Consumer checks follows from the invariant. *)
LEMMA InvImplies == ConsumerInv => EventsAccounted
<1> SUFFICES ASSUME ConsumerInv PROVE EventsAccounted
  OBVIOUS
<1>0. /\ QueueInv /\ ConsumerTypes /\ AttemptsByPlace /\ Counted /\ CallsCounted /\ DeadAreSent
      /\ DlqTypeOK /\ sent \in Seq(Events) /\ dlq \in Seq(Events)
  BY DEF ConsumerInv, QueueInv, DlqTypeOK
<1>1. /\ Cardinality(Inside) \in Nat /\ Len(sent) \in Nat
      /\ Cardinality(Ended("processed")) \in Nat /\ Cardinality(Ended("failed")) \in Nat
      /\ Cardinality(LaterCalls) \in Nat
  BY <1>0, FS_CardinalityType, LenProperties DEF Counted, CallsCounted
<1>2. /\ DOMAIN sent = 1..Len(sent) /\ DOMAIN dlq = 1..Len(dlq)
      /\ \A i \in 1..Len(sent) : sent[i] \in Events
  BY <1>0, LenProperties, ElementOfSeq
<1>3. ConsumerTypeOK
  <2>1. permits \in 0..MaxConcurrent
    BY <1>0, <1>1, ConsumerAssumptions DEF ConsumerTypes, Counted
  <2>2. processed \in Nat /\ failed \in Nat /\ retried \in Nat /\ dead \in Nat
    BY <1>0, <1>1 DEF Counted, CallsCounted, DeadAreSent
  <2> QED BY <1>0, <2>1, <2>2 DEF ConsumerTypeOK, ConsumerTypes, Labels, Busy
<1>4. PermitsConserved /\ StatsAddUp
  BY <1>0 DEF PermitsConserved, StatsAddUp, Counted, CallsCounted
<1>5. DeadLettersAreExhausted
  <2>1. \A e \in ToSet(sent) : e \in Events
    BY <1>2 DEF ToSet
  <2>2. \A e \in ToSet(sent) : attempt[e] = RetryAttempts
    BY <1>0, <2>1 DEF DeadAreSent, AttemptsByPlace
  <2>3. \A i, j \in DOMAIN sent : sent[i] = sent[j] => i = j
    BY <1>0, <1>2 DEF QueueInv, NoRepeats
  <2> QED BY <1>0, <2>2, <2>3 DEF DeadLettersAreExhausted, DeadAreSent
<1>6. ArrivalOrder
  <2>1. Sorted(dlq, sent)
    BY <1>0 DEF QueueInv
  <2>2. ToSet(dlq) \subseteq ToSet(sent)
    BY <1>2, <2>1 DEF Sorted, ToSet
  <2>3. \A i, j \in DOMAIN dlq : i < j => Arrival(dlq[i]) < Arrival(dlq[j])
    BY <1>2, <2>1 DEF Sorted, Arrival, Place
  <2> QED BY <2>2, <2>3 DEF ArrivalOrder
<1> QED BY <1>3, <1>4, <1>5, <1>6 DEF EventsAccounted

(* For any number of deliveries, permits and attempts and any size of dead letter
   queue: _process_event and _send_to_dlq never lose a permit or give one back twice,
   the statistics are exact, an event is dead-lettered once and only after its last
   attempt, and the queue keeps its order under removals at stale indexes. *)
THEOREM DeliveriesAreAccounted == ConsumerSpec => []EventsAccounted
<1>1. ConsumerInit => ConsumerInv
  BY ConsumerInvInit
<1>2. ConsumerInv /\ [ConsumerNext]_consumerVars => ConsumerInv'
  BY ConsumerInvStep
<1>3. ConsumerInv => EventsAccounted
  BY InvImplies
<1> QED BY <1>1, <1>2, <1>3, PTL DEF ConsumerSpec
=============================================================================
