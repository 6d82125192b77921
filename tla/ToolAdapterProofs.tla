-------------------------- MODULE ToolAdapterProofs --------------------------
(***************************************************************************)
(* Safety of ToolAdapter for any calls, keys and limits: every call is     *)
(* accounted for, a repeated call is replayed, and the breaker inside the  *)
(* adapter is the CircuitBreaker of its own module.                        *)
(***************************************************************************)
EXTENDS ToolAdapter, FiniteSetTheorems, TLAPS

\* The calls answered from the cache.
Replayed == {c \in Calls : outcome[c] \in Calls \ {c}}

\* Where a call is, what is in its log entry and what it gave go together.
CallShape(c) ==
  /\ outcome[c] = None <=> pc[c] # "done"
  /\ wal[c] = "requested" <=> pc[c] \in {"queued", "running", "backoff"}
  /\ wal[c] = "succeeded" <=> outcome[c] = c
  /\ wal[c] = "failed" <=> outcome[c] \in Errors
  /\ pc[c] = "idle" <=> key[c] = None
  /\ pc[c] = "running" => attempt[c] > 0
  /\ pc[c] = "backoff" => attempt[c] < MaxAttempts

\* The cache holds, for each key, a result of a successful call of that key,
\* and has one for every key that some call succeeded with.
CacheShape ==
  /\ \A k \in Keys : cache[k] # None =>
       wal[cache[k]] = "succeeded" /\ key[cache[k]] = k
  /\ \A c \in Calls : wal[c] = "succeeded" => cache[key[c]] # None

\* The counters are the sizes of the sets of calls they stand for.
Tallies ==
  /\ IsFiniteSet(Inside) /\ IsFiniteSet(InFlight) /\ IsFiniteSet(Replayed)
  /\ activeCalls = Cardinality(Inside)
  /\ free + activeCalls = MaxConcurrent
  /\ total = successful + failed + Cardinality(InFlight) + Cardinality(Replayed)

(* The inductive invariant. *)
IInv == TypeOK /\ (\A c \in Calls : CallShape(c)) /\ CacheShape /\ Tallies

-----------------------------------------------------------------------------
(* The values of the control state, without the counters. *)
CallTypes ==
  /\ cache \in [Keys -> Calls \cup {None}]
  /\ wal \in [Calls -> {"none", "requested", "succeeded", "failed"}]
  /\ pc \in [Calls -> {"idle", "queued", "running", "backoff", "done"}]
  /\ key \in [Calls -> Keys \cup {None}]
  /\ attempt \in [Calls -> 0..MaxAttempts]
  /\ outcome \in [Calls -> Calls \cup Errors \cup {None}]

(* Every action that ends a call by an exception keeps the shape. *)
LEMMA RaisesShape ==
  ASSUME IInv, NEW c \in Calls, NEW error \in Errors, pc[c] \in {"queued", "running", "backoff"},
         Raises(c, error), UNCHANGED attempt
  PROVE  /\ CallTypes'
         /\ \A d \in Calls : CallShape(d)'
         /\ CacheShape'
<1> USE AdapterAssumptions
<1>0. /\ CallTypes /\ (\A d \in Calls : CallShape(d)) /\ CacheShape
      /\ error # None /\ error \notin Calls
  BY DEF IInv, TypeOK, CallTypes
<1>1. /\ pc' = [pc EXCEPT ![c] = "done"] /\ outcome' = [outcome EXCEPT ![c] = error]
      /\ wal' = [wal EXCEPT ![c] = "failed"]
      /\ cache' = cache /\ key' = key /\ attempt' = attempt
  BY DEF Raises, LogFailure
<1>2. CallTypes'
  BY <1>0, <1>1 DEF CallTypes
<1>3. ASSUME NEW d \in Calls PROVE CallShape(d)'
  <2>1. CASE d = c
    BY <1>0, <1>1, <2>1 DEF CallTypes, CallShape
  <2>2. CASE d # c
    BY <1>0, <1>1, <2>2 DEF CallTypes, CallShape
  <2> QED BY <2>1, <2>2
<1>4. wal[c] # "succeeded"
  BY <1>0 DEF CallShape
<1>5. CacheShape'
  <2>1. ASSUME NEW k \in Keys, cache[k] # None
        PROVE  wal'[cache[k]] = "succeeded" /\ key[cache[k]] = k
    <3>1. cache[k] \in Calls /\ cache[k] # c
      BY <1>0, <1>4, <2>1 DEF CallTypes, CacheShape
    <3> QED BY <1>0, <1>1, <2>1, <3>1 DEF CallTypes, CacheShape
  <2>2. ASSUME NEW d \in Calls, wal'[d] = "succeeded" PROVE cache[key[d]] # None
    BY <1>0, <1>1, <2>2 DEF CallTypes, CacheShape
  <2> QED BY <1>1, <2>1, <2>2 DEF CacheShape
<1> QED BY <1>2, <1>3, <1>5

(* So does the one that ends a call with its result. *)
LEMMA ReturnsShape ==
  ASSUME IInv, NEW c \in Calls, pc[c] = "running", Returns(c), UNCHANGED attempt
  PROVE  /\ CallTypes'
         /\ \A d \in Calls : CallShape(d)'
         /\ CacheShape'
<1> USE AdapterAssumptions
<1>0. CallTypes /\ (\A d \in Calls : CallShape(d)) /\ CacheShape
  BY DEF IInv, TypeOK, CallTypes
<1>1. /\ pc' = [pc EXCEPT ![c] = "done"] /\ outcome' = [outcome EXCEPT ![c] = c]
      /\ wal' = [wal EXCEPT ![c] = "succeeded"]
      /\ cache' = [cache EXCEPT ![key[c]] = c] /\ key' = key /\ attempt' = attempt
  BY DEF Returns, LogSuccess, StoreResult
<1>2. key[c] \in Keys
  BY <1>0 DEF CallTypes, CallShape
<1>3. CallTypes'
  BY <1>0, <1>1 DEF CallTypes
<1>4. ASSUME NEW d \in Calls PROVE CallShape(d)'
  <2>1. CASE d = c
    BY <1>0, <1>1, <2>1 DEF CallTypes, CallShape
  <2>2. CASE d # c
    BY <1>0, <1>1, <2>2 DEF CallTypes, CallShape
  <2> QED BY <2>1, <2>2
<1>5. CacheShape'
  <2>1. ASSUME NEW k \in Keys, cache'[k] # None
        PROVE  wal'[cache'[k]] = "succeeded" /\ key'[cache'[k]] = k
    <3>1. CASE k = key[c]
      BY <1>0, <1>1, <1>2, <3>1 DEF CallTypes
    <3>2. CASE k # key[c]
      <4>1. cache'[k] = cache[k] /\ cache[k] \in Calls
        BY <1>0, <1>1, <2>1, <3>2 DEF CallTypes
      <4> QED BY <1>0, <1>1, <2>1, <4>1 DEF CallTypes, CacheShape
    <3> QED BY <3>1, <3>2
  <2>2. ASSUME NEW d \in Calls, wal'[d] = "succeeded" PROVE cache'[key'[d]] # None
    <3>1. CASE key[d] = key[c]
      BY <1>0, <1>1, <1>2, <3>1 DEF CallTypes
    <3>2. CASE key[d] # key[c]
      BY <1>0, <1>1, <1>2, <2>2, <3>2 DEF CallTypes, CacheShape
    <3> QED BY <3>1, <3>2
  <2> QED BY <2>1, <2>2 DEF CacheShape
<1> QED BY <1>3, <1>4, <1>5

-----------------------------------------------------------------------------
(* A call leaves the set S of calls. *)
LEMMA OneLess ==
  ASSUME NEW S, NEW c \in S, IsFiniteSet(S)
  PROVE  /\ IsFiniteSet(S \ {c}) /\ Cardinality(S \ {c}) = Cardinality(S) - 1
         /\ Cardinality(S) \in Nat \ {0} /\ Cardinality(S \ {c}) \in Nat
<1>1. Cardinality(S) \in Nat /\ Cardinality(S) # 0
  BY FS_CardinalityType, FS_EmptySet
<1>2. IsFiniteSet(S \ {c}) /\ Cardinality(S \ {c}) = Cardinality(S) - 1
  BY FS_RemoveElement
<1> QED BY <1>1, <1>2

(* A call joins the set S of calls. *)
LEMMA OneMore ==
  ASSUME NEW S, NEW c, c \notin S, IsFiniteSet(S)
  PROVE  /\ IsFiniteSet(S \cup {c}) /\ Cardinality(S \cup {c}) = Cardinality(S) + 1
         /\ Cardinality(S) \in Nat
  BY FS_AddElement, FS_CardinalityType

(* A call that ends inside the bulkhead gives its permit back once, and is
   counted once, whether it returned or raised. *)
LEMMA EndsInside ==
  ASSUME IInv, NEW c \in Calls, pc[c] \in {"running", "backoff"}, LeaveBulkhead,
         pc' = [pc EXCEPT ![c] = "done"],
         NEW o \in {c} \cup Errors, outcome' = [outcome EXCEPT ![c] = o],
         total' = total,
         \/ successful' = successful + 1 /\ failed' = failed
         \/ successful' = successful /\ failed' = failed + 1
  PROVE  /\ Tallies'
         /\ free' \in 0..MaxConcurrent /\ activeCalls' \in 0..MaxConcurrent
         /\ successful' \in Nat /\ failed' \in Nat /\ total' \in Nat /\ bulkCalls' \in Nat
<1> USE AdapterAssumptions
<1>0. /\ free \in Nat /\ activeCalls \in Nat /\ successful \in Nat /\ failed \in Nat
      /\ total \in Nat /\ bulkCalls \in Nat /\ MaxConcurrent \in Nat
      /\ pc \in [Calls -> {"idle", "queued", "running", "backoff", "done"}]
      /\ outcome \in [Calls -> Calls \cup Errors \cup {None}]
      /\ outcome[c] = None /\ None \notin Calls /\ o \notin Calls \ {c}
  BY DEF IInv, TypeOK, CallShape
<1>1. /\ IsFiniteSet(Inside) /\ IsFiniteSet(InFlight) /\ IsFiniteSet(Replayed)
      /\ activeCalls = Cardinality(Inside)
      /\ free + activeCalls = MaxConcurrent
      /\ total = successful + failed + Cardinality(InFlight) + Cardinality(Replayed)
  BY DEF IInv, Tallies
<1>2. /\ Inside' = Inside \ {c} /\ c \in Inside
      /\ InFlight' = InFlight \ {c} /\ c \in InFlight
  BY <1>0 DEF Inside, InFlight
<1>3. Replayed' = Replayed
  BY <1>0 DEF Replayed
<1>4. Cardinality(Replayed) \in Nat
  BY <1>1, FS_CardinalityType
<1>5. /\ IsFiniteSet(Inside') /\ IsFiniteSet(InFlight')
      /\ Cardinality(Inside') = Cardinality(Inside) - 1
      /\ Cardinality(InFlight') = Cardinality(InFlight) - 1
      /\ Cardinality(Inside) \in Nat \ {0} /\ Cardinality(InFlight) \in Nat \ {0}
  BY <1>1, <1>2, OneLess
<1>6. activeCalls' = activeCalls - 1 /\ free' = free + 1 /\ bulkCalls' = bulkCalls
  BY DEF LeaveBulkhead
<1> HIDE AdapterAssumptions
<1>7. /\ activeCalls' = Cardinality(Inside') /\ free' + activeCalls' = MaxConcurrent
      /\ free' \in 0..MaxConcurrent /\ activeCalls' \in 0..MaxConcurrent
  BY <1>0, <1>1, <1>5, <1>6
<1>8. total' = successful' + failed' + Cardinality(InFlight') + Cardinality(Replayed')
  BY <1>0, <1>1, <1>3, <1>4, <1>5
<1>9. successful' \in Nat /\ failed' \in Nat /\ total' \in Nat /\ bulkCalls' \in Nat
  BY <1>0, <1>6
<1> QED BY <1>1, <1>3, <1>5, <1>7, <1>8, <1>9 DEF Tallies

(* A call that ends in the queue never had a permit. *)
LEMMA EndsQueued ==
  ASSUME IInv, NEW c \in Calls, pc[c] = "queued",
         NEW error \in Errors, Raises(c, error), UNCHANGED <<free, activeCalls>>
  PROVE  Tallies' /\ successful' \in Nat /\ failed' \in Nat /\ total' \in Nat
<1> USE AdapterAssumptions
<1>0. /\ successful \in Nat /\ failed \in Nat /\ total \in Nat
      /\ pc \in [Calls -> {"idle", "queued", "running", "backoff", "done"}]
      /\ outcome \in [Calls -> Calls \cup Errors \cup {None}]
      /\ outcome[c] = None /\ None \notin Calls /\ error \notin Calls
      /\ pc' = [pc EXCEPT ![c] = "done"] /\ outcome' = [outcome EXCEPT ![c] = error]
      /\ total' = total /\ successful' = successful /\ failed' = failed + 1
  BY DEF IInv, TypeOK, CallShape, Raises
<1>1. /\ IsFiniteSet(Inside) /\ IsFiniteSet(InFlight) /\ IsFiniteSet(Replayed)
      /\ activeCalls = Cardinality(Inside) /\ free + activeCalls = MaxConcurrent
      /\ total = successful + failed + Cardinality(InFlight) + Cardinality(Replayed)
  BY DEF IInv, Tallies
<1>2. Inside' = Inside /\ InFlight' = InFlight \ {c} /\ c \in InFlight
  BY <1>0 DEF Inside, InFlight
<1>3. Replayed' = Replayed /\ Cardinality(Replayed) \in Nat
  <2>1. Replayed' = Replayed
    BY <1>0 DEF Replayed
  <2> QED BY <1>1, <2>1, FS_CardinalityType
<1>4. /\ IsFiniteSet(InFlight') /\ Cardinality(InFlight') = Cardinality(InFlight) - 1
      /\ Cardinality(InFlight) \in Nat
  BY <1>1, <1>2, OneLess
<1> HIDE AdapterAssumptions
<1>5. total' = successful' + failed' + Cardinality(InFlight') + Cardinality(Replayed')
  BY <1>0, <1>1, <1>3, <1>4
<1> QED BY <1>0, <1>1, <1>2, <1>3, <1>4, <1>5 DEF Tallies

(* A call that is suspended elsewhere than before, without entering or leaving
   the bulkhead, keeps the counters right. *)
LEMMA SameSets ==
  ASSUME Tallies, Inside' = Inside, InFlight' = InFlight, Replayed' = Replayed,
         UNCHANGED <<free, activeCalls, total, successful, failed>>
  PROVE  Tallies'
  BY DEF Tallies

-----------------------------------------------------------------------------
(* Every action preserves the inductive invariant. *)
LEMMA InvStep == IInv /\ [Next]_vars => IInv'
<1> SUFFICES ASSUME IInv, [Next]_vars PROVE IInv'
  OBVIOUS
<1> USE AdapterAssumptions
<1>0. /\ TypeOK /\ CallTypes /\ CacheShape /\ Tallies
      /\ \A d \in Calls : CallShape(d)
  BY DEF IInv, TypeOK, CallTypes
<1>1. ASSUME CoolDown PROVE IInv'
  BY <1>0, <1>1
  DEF CoolDown, bulkVars, retryVars, adapterVars, callVars, IInv, TypeOK, CacheShape,
      CallShape, Tallies, Inside, InFlight, Replayed
<1>2. ASSUME NEW c \in Calls, NEW k \in Keys, Execute(c, k) PROVE IInv'
  <2>0. /\ pc[c] = "idle" /\ outcome[c] = None /\ key[c] = None
        /\ wal[c] \notin {"requested", "succeeded", "failed"}
        /\ key' = [key EXCEPT ![c] = k] /\ total' = total + 1
        /\ UNCHANGED <<free, activeCalls, rejected, totalRetries, successfulRetries,
                       attempt, cache, successful, failed>>
    BY <1>0, <1>2 DEF Execute, CallShape, retryVars
  <2>1. CASE cache[k] # None
    <3>1. /\ pc' = [pc EXCEPT ![c] = "done"]
          /\ outcome' = [outcome EXCEPT ![c] = cache[k]]
          /\ wal' = wal /\ bulkCalls' = bulkCalls
      BY <1>2, <2>1 DEF Execute, GetResult
    <3>2. cache[k] \in Calls /\ cache[k] # c /\ cache[k] \notin Errors
      BY <1>0, <2>0, <2>1 DEF CallTypes, CacheShape
    <3>3. TypeOK'
      BY <1>0, <2>0, <3>1, <3>2 DEF TypeOK
    <3>4. ASSUME NEW d \in Calls PROVE CallShape(d)'
      BY <1>0, <2>0, <3>1, <3>2 DEF CallShape, CallTypes
    <3>5. CacheShape'
      BY <1>0, <2>0, <3>1 DEF CacheShape, CallTypes
    <3>6. Inside' = Inside /\ InFlight' = InFlight
      BY <1>0, <2>0, <3>1 DEF Inside, InFlight, CallTypes
    <3>7. Replayed' = Replayed \cup {c} /\ c \notin Replayed
      BY <1>0, <2>0, <3>1, <3>2 DEF Replayed, CallTypes
    <3>8. /\ IsFiniteSet(Replayed') /\ Cardinality(Replayed') = Cardinality(Replayed) + 1
          /\ Cardinality(Replayed) \in Nat /\ Cardinality(InFlight) \in Nat
      BY <1>0, <3>7, OneMore, FS_CardinalityType DEF Tallies
    <3>9. Tallies'
      BY <1>0, <2>0, <3>6, <3>8 DEF Tallies, TypeOK
    <3> QED BY <3>3, <3>4, <3>5, <3>9 DEF IInv
  <2>2. CASE cache[k] = None
    <3>1. /\ pc' = [pc EXCEPT ![c] = "queued"]
          /\ wal' = [wal EXCEPT ![c] = "requested"]
          /\ outcome' = outcome /\ bulkCalls' = bulkCalls + 1
      BY <1>2, <2>2 DEF Execute, GetResult, LogRequest
    <3>3. TypeOK'
      BY <1>0, <2>0, <3>1 DEF TypeOK
    <3>4. ASSUME NEW d \in Calls PROVE CallShape(d)'
      <4>1. CASE d = c
        BY <1>0, <2>0, <3>1, <4>1 DEF CallShape, CallTypes
      <4>2. CASE d # c
        BY <1>0, <2>0, <3>1, <4>2 DEF CallShape, CallTypes
      <4> QED BY <4>1, <4>2
    <3>5. CacheShape'
      <4>1. \A l \in Keys : cache[l] # None => cache[l] \in Calls /\ cache[l] # c
        BY <1>0, <2>0 DEF CacheShape, CallTypes
      <4> QED BY <1>0, <2>0, <3>1, <4>1 DEF CacheShape, CallTypes
    <3>6. /\ Inside' = Inside /\ Replayed' = Replayed
          /\ InFlight' = InFlight \cup {c} /\ c \notin InFlight
      BY <1>0, <2>0, <3>1 DEF Inside, InFlight, Replayed, CallTypes
    <3>7. /\ IsFiniteSet(InFlight') /\ Cardinality(InFlight') = Cardinality(InFlight) + 1
          /\ Cardinality(InFlight) \in Nat /\ Cardinality(Replayed) \in Nat
      BY <1>0, <3>6, OneMore, FS_CardinalityType DEF Tallies
    <3>8. Tallies'
      BY <1>0, <2>0, <3>6, <3>7 DEF Tallies, TypeOK
    <3> QED BY <3>3, <3>4, <3>5, <3>8 DEF IInv
  <2> QED BY <2>1, <2>2
<1>3. ASSUME NEW c \in Calls, EnterBulkhead(c) PROVE IInv'
  <2>1. /\ pc[c] = "queued" /\ free > 0
        /\ free' = free - 1 /\ activeCalls' = activeCalls + 1
        /\ pc' = [pc EXCEPT ![c] = "running"] /\ attempt' = [attempt EXCEPT ![c] = 1]
        /\ UNCHANGED <<bulkCalls, rejected, totalRetries, successfulRetries, cache, wal,
                       total, successful, failed, key, outcome>>
    BY <1>3 DEF EnterBulkhead, retryVars, adapterVars
  <2>2. /\ InFlight' = InFlight /\ Replayed' = Replayed
        /\ Inside' = Inside \cup {c} /\ c \notin Inside
    BY <1>0, <2>1 DEF Inside, InFlight, Replayed, CallTypes
  <2>3. /\ IsFiniteSet(Inside') /\ Cardinality(Inside') = Cardinality(Inside) + 1
        /\ Cardinality(Inside) \in Nat
    BY <1>0, <2>2, OneMore DEF Tallies
  <2>4. TypeOK' /\ Tallies'
    BY <1>0, <2>1, <2>2, <2>3 DEF TypeOK, Tallies
  <2>5. ASSUME NEW d \in Calls PROVE CallShape(d)'
    BY <1>0, <2>1 DEF CallShape, CallTypes
  <2>6. CacheShape'
    BY <1>0, <2>1 DEF CacheShape
  <2> QED BY <2>4, <2>5, <2>6 DEF IInv
<1>4. ASSUME NEW c \in Calls, RejectedByBreaker(c) PROVE IInv'
  <2>1. /\ pc[c] = "queued" /\ Raises(c, "circuit open") /\ "circuit open" \in Errors
        /\ UNCHANGED <<free, activeCalls, bulkCalls, rejected, totalRetries,
                       successfulRetries, attempt>>
    BY <1>4 DEF RejectedByBreaker, bulkVars, retryVars, Errors
  <2>2. CallTypes' /\ (\A d \in Calls : CallShape(d)') /\ CacheShape'
    BY <2>1, RaisesShape
  <2>3. Tallies' /\ successful' \in Nat /\ failed' \in Nat /\ total' \in Nat
    BY <2>1, EndsQueued
  <2> QED BY <1>0, <2>1, <2>2, <2>3 DEF IInv, TypeOK, CallTypes
<1>5. ASSUME NEW c \in Calls, BulkheadTimesOut(c) PROVE IInv'
  <2>1. /\ pc[c] = "queued" /\ Raises(c, "bulkhead timeout") /\ "bulkhead timeout" \in Errors
        /\ rejected' = rejected + 1
        /\ UNCHANGED <<free, activeCalls, bulkCalls, totalRetries, successfulRetries, attempt>>
    BY <1>5 DEF BulkheadTimesOut, retryVars, Errors
  <2>2. CallTypes' /\ (\A d \in Calls : CallShape(d)') /\ CacheShape'
    BY <2>1, RaisesShape
  <2>3. Tallies' /\ successful' \in Nat /\ failed' \in Nat /\ total' \in Nat
    BY <2>1, EndsQueued
  <2>4. rejected' \in Nat
    <3>1. rejected \in Nat /\ rejected' = rejected + 1
      BY <1>0, <1>5 DEF TypeOK, BulkheadTimesOut
    <3> QED BY <3>1
  <2>5. TypeOK'
    BY <1>0, <2>1, <2>2, <2>3, <2>4 DEF TypeOK, CallTypes
  <2> QED BY <2>2, <2>3, <2>5 DEF IInv
<1>6. ASSUME NEW c \in Calls, ToolReturns(c) PROVE IInv'
  <2>1. /\ pc[c] = "running" /\ LeaveBulkhead /\ Returns(c)
        /\ UNCHANGED <<rejected, totalRetries, attempt>>
    BY <1>6 DEF ToolReturns
  <2>2. successfulRetries' \in Nat
    BY <1>0, <1>6 DEF ToolReturns, TypeOK
  <2>3. CallTypes' /\ (\A d \in Calls : CallShape(d)') /\ CacheShape'
    BY <2>1, ReturnsShape
  <2>4. /\ Tallies' /\ free' \in 0..MaxConcurrent /\ activeCalls' \in 0..MaxConcurrent
        /\ successful' \in Nat /\ failed' \in Nat /\ total' \in Nat /\ bulkCalls' \in Nat
    BY <2>1, EndsInside DEF Returns
  <2> QED BY <1>0, <2>1, <2>2, <2>3, <2>4 DEF IInv, TypeOK, CallTypes
<1>7. ASSUME NEW c \in Calls, ToolRaisesRetryable(c) PROVE IInv'
  <2>1. /\ pc[c] = "running" /\ attempt[c] < MaxAttempts
        /\ pc' = [pc EXCEPT ![c] = "backoff"]
        /\ UNCHANGED <<free, activeCalls, bulkCalls, rejected, totalRetries, successfulRetries,
                       cache, wal, total, successful, failed, key, attempt, outcome>>
    BY <1>7 DEF ToolRaisesRetryable, bulkVars, retryVars, adapterVars
  <2>2. InFlight' = InFlight /\ Replayed' = Replayed /\ Inside' = Inside
    BY <1>0, <2>1 DEF Inside, InFlight, Replayed, CallTypes
  <2>3. Tallies'
    BY <1>0, <2>1, <2>2, SameSets
  <2>4. TypeOK' /\ CacheShape'
    BY <1>0, <2>1 DEF TypeOK, CacheShape
  <2>5. ASSUME NEW d \in Calls PROVE CallShape(d)'
    BY <1>0, <2>1 DEF CallShape, CallTypes
  <2> QED BY <2>3, <2>4, <2>5 DEF IInv
<1>8. ASSUME NEW c \in Calls, RetryTool(c) PROVE IInv'
  <2>1. /\ pc[c] = "backoff" /\ attempt' = [attempt EXCEPT ![c] = attempt[c] + 1]
        /\ pc' = [pc EXCEPT ![c] = "running"]
        /\ UNCHANGED <<free, activeCalls, bulkCalls, rejected, totalRetries, successfulRetries,
                       cache, wal, total, successful, failed, key, outcome>>
    BY <1>8 DEF RetryTool, bulkVars, retryVars, adapterVars
  <2>2. InFlight' = InFlight /\ Replayed' = Replayed /\ Inside' = Inside
    BY <1>0, <2>1 DEF Inside, InFlight, Replayed, CallTypes
  <2>3. Tallies'
    BY <1>0, <2>1, <2>2, SameSets
  <2>4. attempt[c] \in 0..MaxAttempts /\ attempt[c] < MaxAttempts
    BY <1>0, <2>1 DEF CallShape, CallTypes
  <2>5. TypeOK' /\ CacheShape'
    BY <1>0, <2>1, <2>4 DEF TypeOK, CacheShape
  <2>6. ASSUME NEW d \in Calls PROVE CallShape(d)'
    BY <1>0, <2>1, <2>4 DEF CallShape, CallTypes
  <2> QED BY <2>3, <2>5, <2>6 DEF IInv
<1>9. ASSUME NEW c \in Calls, NEW error \in Errors, pc[c] \in {"running", "backoff"},
             LeaveBulkhead, Raises(c, error), attempt' = attempt, rejected' \in Nat,
             totalRetries' \in Nat, successfulRetries' \in Nat
      PROVE  IInv'
  <2>1. CallTypes' /\ (\A d \in Calls : CallShape(d)') /\ CacheShape'
    BY <1>9, RaisesShape
  <2>2. /\ Tallies' /\ free' \in 0..MaxConcurrent /\ activeCalls' \in 0..MaxConcurrent
        /\ successful' \in Nat /\ failed' \in Nat /\ total' \in Nat /\ bulkCalls' \in Nat
    BY <1>9, EndsInside DEF Raises
  <2> QED BY <1>9, <2>1, <2>2 DEF IInv, TypeOK, CallTypes
<1>10. ASSUME NEW c \in Calls, pc[c] = "running", GivesUp(c) PROVE totalRetries' \in Nat
  <2>1. attempt[c] \in Nat /\ attempt[c] > 0 /\ totalRetries \in Nat
    BY <1>0, <1>10 DEF CallShape, TypeOK
  <2> QED BY <1>10, <2>1 DEF GivesUp
<1>11. ASSUME NEW c \in Calls, ToolFails(c) PROVE IInv'
  <2>1. /\ pc[c] = "running" /\ GivesUp(c) /\ LeaveBulkhead /\ Raises(c, "tool error")
        /\ UNCHANGED <<rejected, successfulRetries, attempt>> /\ "tool error" \in Errors
    BY <1>11 DEF ToolFails, Errors
  <2> QED BY <1>0, <1>9, <1>10, <2>1 DEF TypeOK
<1>12. ASSUME NEW c \in Calls, ToolTimesOut(c) PROVE IInv'
  <2>1. /\ pc[c] = "running" /\ GivesUp(c) /\ LeaveBulkhead /\ Raises(c, "bulkhead timeout")
        /\ rejected' = rejected + 1 /\ UNCHANGED <<successfulRetries, attempt>>
        /\ "bulkhead timeout" \in Errors
    BY <1>12 DEF ToolTimesOut, Errors
  <2>2. rejected' \in Nat /\ successfulRetries' \in Nat
    <3>1. /\ rejected \in Nat /\ rejected' = rejected + 1
          /\ successfulRetries \in Nat /\ successfulRetries' = successfulRetries
      BY <1>0, <1>12 DEF TypeOK, ToolTimesOut
    <3> QED BY <3>1
  <2> QED BY <1>9, <1>10, <2>1, <2>2
<1>13. ASSUME NEW c \in Calls, TotalTimesOut(c) PROVE IInv'
  <2>0. /\ Raises(c, "total timeout") /\ "total timeout" \in Errors
        /\ UNCHANGED <<rejected, totalRetries, successfulRetries, attempt>>
    BY <1>13 DEF TotalTimesOut, retryVars, Errors
  <2>1. CASE pc[c] = "queued" /\ UNCHANGED <<free, activeCalls, bulkCalls>>
    <3>1. CallTypes' /\ (\A d \in Calls : CallShape(d)') /\ CacheShape'
      BY <2>0, <2>1, RaisesShape
    <3>2. Tallies' /\ successful' \in Nat /\ failed' \in Nat /\ total' \in Nat
      BY <2>0, <2>1, EndsQueued
    <3> QED BY <1>0, <2>0, <2>1, <3>1, <3>2 DEF IInv, TypeOK, CallTypes
  <2>2. CASE pc[c] \in {"running", "backoff"} /\ LeaveBulkhead
    BY <1>0, <1>9, <2>0, <2>2 DEF TypeOK
  <2> QED BY <1>13, <2>1, <2>2 DEF TotalTimesOut
<1>14. CASE UNCHANGED vars
  BY <1>0, <1>14
  DEF vars, bulkVars, retryVars, adapterVars, callVars, IInv, TypeOK, CacheShape,
      CallShape, Tallies, Inside, InFlight, Replayed
<1> QED
  BY <1>1, <1>2, <1>3, <1>4, <1>5, <1>6, <1>7, <1>8, <1>11, <1>12, <1>13, <1>14 DEF Next

(* The inductive invariant holds initially. *)
LEMMA InvInit == Init => IInv
<1> SUFFICES ASSUME Init PROVE IInv
  OBVIOUS
<1> USE AdapterAssumptions
<1>1. TypeOK
  BY DEF Init, TypeOK
<1>2. (\A c \in Calls : CallShape(c)) /\ CacheShape
  BY DEF Init, CallShape, CacheShape
<1>3. Inside = {} /\ InFlight = {} /\ Replayed = {}
  BY DEF Init, Inside, InFlight, Replayed
<1>4. Tallies
  BY <1>3, FS_EmptySet DEF Init, Tallies
<1> QED BY <1>1, <1>2, <1>4 DEF IInv

(* The inductive invariant holds throughout. *)
LEMMA Inductive == Spec => []IInv
  BY InvInit, InvStep, PTL DEF Spec

(* Permits, counters and the write-ahead log account for every call of execute,
   whatever interleaving of returns, retries and time-outs cuts it off. *)
THEOREM CallsAreAccounted == Spec => []CallsAccounted
<1>1. IInv => CallsAccounted
  <2> SUFFICES ASSUME IInv PROVE CallsAccounted
    OBVIOUS
  <2>1. TypeOK /\ PermitsConserved
    <3>1. /\ free \in Nat /\ activeCalls \in Nat /\ free + activeCalls = MaxConcurrent
          /\ activeCalls = Cardinality(Inside)
      BY DEF IInv, TypeOK, Tallies
    <3> QED BY <3>1 DEF IInv, PermitsConserved
  <2>2. CountersAddUp
    BY DEF IInv, Tallies, CountersAddUp, Replayed
  <2>3. LogTellsOutcome
    BY DEF IInv, CallShape, LogTellsOutcome, InFlight
  <2> QED BY <2>1, <2>2, <2>3 DEF CallsAccounted
<1> QED BY <1>1, Inductive, PTL

(* A call that starts with a key some call has succeeded with is answered from
   the idempotency cache, with a result of that key. *)
THEOREM RepeatsAreReplayed == Spec => RepeatedCallIsReplayed
<1>1. IInv /\ [Next]_vars =>
        [\A c \in Calls :
           /\ pc[c] = "idle" /\ pc'[c] # "idle"
           /\ \E d \in Calls : wal[d] = "succeeded" /\ key[d] = key'[c]
           => /\ pc'[c] = "done"
              /\ outcome'[c] \in Calls
              /\ wal[outcome'[c]] = "succeeded" /\ key[outcome'[c]] = key'[c]]_vars
  <2> SUFFICES ASSUME IInv, Next, NEW c \in Calls, pc[c] = "idle", pc'[c] # "idle",
                      NEW d \in Calls, wal[d] = "succeeded", key[d] = key'[c]
               PROVE  /\ pc'[c] = "done"
                      /\ outcome'[c] \in Calls
                      /\ wal[outcome'[c]] = "succeeded" /\ key[outcome'[c]] = key'[c]
    OBVIOUS
  <2>0. CallTypes /\ CacheShape
    BY DEF IInv, TypeOK, CallTypes
  <2>1. ASSUME NEW b \in Calls, pc[b] # "idle", NEW x, pc' = [pc EXCEPT ![b] = x] PROVE FALSE
    BY <2>0, <2>1 DEF CallTypes
  <2>2. PICK b \in Calls, k \in Keys : Execute(b, k)
    <3>1. pc' # pc
      OBVIOUS
    <3> QED
      BY <2>1, <3>1
      DEF Next, CoolDown, callVars, EnterBulkhead, RejectedByBreaker, BulkheadTimesOut, ToolReturns,
          ToolRaisesRetryable, RetryTool, ToolFails, ToolTimesOut, TotalTimesOut, Raises, Returns
  <2>3. b = c
    BY <2>0, <2>2 DEF Execute, CallTypes
  <2>4. key'[c] = k
    BY <2>0, <2>2, <2>3 DEF Execute, CallTypes
  <2>5. cache[k] # None /\ cache[k] \in Calls
    BY <2>0, <2>4 DEF CacheShape, CallTypes
  <2>6. pc'[c] = "done" /\ outcome'[c] = cache[k]
    BY <2>0, <2>2, <2>3, <2>5 DEF Execute, GetResult, CallTypes
  <2> QED BY <2>0, <2>4, <2>5, <2>6 DEF CacheShape
<1> QED BY <1>1, Inductive, PTL DEF Spec, RepeatedCallIsReplayed

(* The breaker inside the adapter implements CircuitBreaker: every action is one
   step of the breaker, or none, whatever bulkhead, cache and retries do. *)
THEOREM BreakerRefinement == Spec => ImplementsBreaker
<1>1. Init => Breaker!CircuitInit
  BY DEF Init, Breaker!CircuitInit, Inside
<1>2. IInv /\ [Next]_vars => [Breaker!CircuitNext]_Breaker!circuitVars
  <2> SUFFICES ASSUME IInv, [Next]_vars PROVE Breaker!CircuitNext \/ UNCHANGED Breaker!circuitVars
    BY DEF Breaker!circuitVars
  <2>0. CallTypes
    BY DEF IInv, TypeOK, CallTypes
  <2>1. ASSUME breakerVars' = breakerVars, Inside' = Inside PROVE UNCHANGED Breaker!circuitVars
    BY <2>1 DEF breakerVars, Breaker!circuitVars, Breaker!breaker
  <2>2. CASE CoolDown
    BY <2>2 DEF CoolDown, Breaker!CircuitNext
  <2>3. ASSUME NEW c \in Calls, NEW k \in Keys, Execute(c, k) PROVE UNCHANGED Breaker!circuitVars
    <3>1. Inside' = Inside
      BY <2>0, <2>3 DEF Execute, Inside, CallTypes
    <3> QED BY <2>1, <2>3, <3>1 DEF Execute
  <2>4. ASSUME NEW c \in Calls, EnterBulkhead(c) PROVE Breaker!CircuitNext
    BY <2>4 DEF EnterBulkhead, Breaker!CircuitNext
  <2>5. ASSUME NEW c \in Calls, pc[c] = "queued", NEW error, Raises(c, error),
               breakerVars' = breakerVars
        PROVE  UNCHANGED Breaker!circuitVars
    <3>1. Inside' = Inside
      BY <2>0, <2>5 DEF Raises, Inside, CallTypes
    <3> QED BY <2>1, <2>5, <3>1
  <2>6. ASSUME NEW c \in Calls, RejectedByBreaker(c) \/ BulkheadTimesOut(c)
        PROVE  UNCHANGED Breaker!circuitVars
    BY <2>5, <2>6 DEF RejectedByBreaker, BulkheadTimesOut
  <2>7. ASSUME NEW c \in Calls, ToolReturns(c) \/ ToolFails(c) \/ ToolTimesOut(c)
        PROVE  Breaker!CircuitNext
    BY <2>7 DEF ToolReturns, ToolFails, ToolTimesOut, Breaker!CircuitNext, Breaker!End
  <2>8. ASSUME NEW c \in Calls, ToolRaisesRetryable(c) \/ RetryTool(c)
        PROVE  UNCHANGED Breaker!circuitVars
    <3>1. Inside' = Inside
      BY <2>0, <2>8 DEF ToolRaisesRetryable, RetryTool, Inside, CallTypes
    <3> QED BY <2>1, <2>8, <3>1 DEF ToolRaisesRetryable, RetryTool
  <2>9. ASSUME NEW c \in Calls, TotalTimesOut(c)
        PROVE  Breaker!CircuitNext \/ UNCHANGED Breaker!circuitVars
    <3>1. CASE pc[c] = "queued"
      BY <2>5, <2>9, <3>1 DEF TotalTimesOut
    <3>2. CASE pc[c] # "queued"
      BY <2>9, <3>2 DEF TotalTimesOut, Breaker!CircuitNext, Breaker!End
    <3> QED BY <3>1, <3>2
  <2>10. CASE UNCHANGED vars
    BY <2>1, <2>10 DEF vars, callVars, Inside
  <2> QED
    BY <2>2, <2>3, <2>4, <2>6, <2>7, <2>8, <2>9, <2>10 DEF Next
<1> QED BY <1>1, <1>2, Inductive, PTL DEF Spec, ImplementsBreaker, Breaker!Safe
=============================================================================
