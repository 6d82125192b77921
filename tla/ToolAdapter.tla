----------------------------- MODULE ToolAdapter -----------------------------
(***************************************************************************)
(* BaseToolAdapter.execute of libs/reliability/base_adapter.py: concurrent *)
(* calls of one adapter go through the idempotency cache, the write-ahead  *)
(* log, a total timeout around bulkhead, circuit breaker and retries, in   *)
(* this nesting.  Without a Redis client (the default) cache and log are   *)
(* local and never suspend.  A call suspends while it queues for the       *)
(* bulkhead's semaphore, inside the tool, and in the sleep between two     *)
(* attempts; each action runs one call from there to its next suspension.  *)
(***************************************************************************)
EXTENDS Integers, FiniteSets

CONSTANTS
  Calls,          \* invocations of execute
  Keys,           \* idempotency keys
  None,           \* no key or no result
  MaxConcurrent,  \* BulkheadConfig.max_concurrent_calls
  MaxAttempts,    \* RetryConfig.max_attempts
  FailureThreshold, SuccessThreshold, HalfOpenMax

\* The exceptions execute raises; a result is named by the call that made it.
Errors == {"tool error", "circuit open", "bulkhead timeout", "total timeout"}

ASSUME AdapterAssumptions ==
  /\ MaxConcurrent \in Nat \ {0}
  /\ MaxAttempts \in Nat \ {0}
  /\ None \notin Calls \cup Keys \cup Errors
  /\ Calls \cap Errors = {}

VARIABLES
  state, failureCount, successCount, halfOpenCalls, cooled,  \* circuit breaker
  probes,                          \* history, as in CircuitBreaker
  free, activeCalls, bulkCalls, rejected,    \* bulkhead: permits and counters
  totalRetries, successfulRetries,           \* retry manager
  cache,       \* idempotency_manager.local_cache: the call that made the result
  wal,         \* wal[c]: status of the log entry of call c
  pc, key, attempt,
  outcome,     \* what execute(c) gave: a result or an exception
  total, successful, failed                  \* the adapter's counters

breakerVars == <<state, failureCount, successCount, halfOpenCalls, cooled, probes>>
bulkVars == <<free, activeCalls, bulkCalls, rejected>>
retryVars == <<totalRetries, successfulRetries>>
adapterVars == <<cache, wal, total, successful, failed>>
callVars == <<pc, key, attempt, outcome>>
vars == <<breakerVars, bulkVars, retryVars, adapterVars, callVars>>

Inside == {c \in Calls : pc[c] \in {"running", "backoff"}}
InFlight == {c \in Calls : pc[c] \in {"queued", "running", "backoff"}}

Breaker == INSTANCE CircuitBreaker
             WITH Callers <- Calls, inCall <- Inside

TypeOK ==
  /\ free \in 0..MaxConcurrent
  /\ activeCalls \in 0..MaxConcurrent
  /\ bulkCalls \in Nat /\ rejected \in Nat
  /\ totalRetries \in Nat /\ successfulRetries \in Nat
  /\ cache \in [Keys -> Calls \cup {None}]
  /\ wal \in [Calls -> {"none", "requested", "succeeded", "failed"}]
  /\ pc \in [Calls -> {"idle", "queued", "running", "backoff", "done"}]
  /\ key \in [Calls -> Keys \cup {None}]
  /\ attempt \in [Calls -> 0..MaxAttempts]
  /\ outcome \in [Calls -> Calls \cup Errors \cup {None}]
  /\ total \in Nat /\ successful \in Nat /\ failed \in Nat

Init ==
  /\ Breaker!BreakerInit
  /\ probes = {}
  /\ free = MaxConcurrent
  /\ activeCalls = 0 /\ bulkCalls = 0 /\ rejected = 0
  /\ totalRetries = 0 /\ successfulRetries = 0
  /\ cache = [k \in Keys |-> None]
  /\ wal = [c \in Calls |-> "none"]
  /\ pc = [c \in Calls |-> "idle"]
  /\ key = [c \in Calls |-> None]
  /\ attempt = [c \in Calls |-> 0]
  /\ outcome = [c \in Calls |-> None]
  /\ total = 0 /\ successful = 0 /\ failed = 0

-----------------------------------------------------------------------------
(* IdempotencyManager.  A result None would count as missing; tools are assumed
   to return something else. *)
GetResult(k) == cache[k]
StoreResult(k, c) == cache' = [cache EXCEPT ![k] = c]

(* WriteAheadLogger: one entry per call that is not answered from the cache. *)
LogRequest(c) == wal' = [wal EXCEPT ![c] = "requested"]
LogSuccess(c) == wal' = [wal EXCEPT ![c] = "succeeded"]
LogFailure(c) == wal' = [wal EXCEPT ![c] = "failed"]

\* execute ends with an exception: the except branch logs and counts it.
Raises(c, error) ==
  /\ pc' = [pc EXCEPT ![c] = "done"]
  /\ outcome' = [outcome EXCEPT ![c] = error]
  /\ LogFailure(c)
  /\ failed' = failed + 1
  /\ UNCHANGED <<cache, key, total, successful>>

\* Seeded fault: the result is not stored in the cache.
Returns_NotCached(c) ==
  /\ pc' = [pc EXCEPT ![c] = "done"]
  /\ outcome' = [outcome EXCEPT ![c] = c]
  /\ LogSuccess(c)
  /\ successful' = successful + 1
  /\ UNCHANGED <<cache, key, total, failed>>

\* execute ends with the tool's result: logged, cached under the key, counted.
Returns(c) ==
  /\ pc' = [pc EXCEPT ![c] = "done"]
  /\ outcome' = [outcome EXCEPT ![c] = c]
  /\ LogSuccess(c)
  /\ StoreResult(key[c], c)
  /\ successful' = successful + 1
  /\ UNCHANGED <<key, total, failed>>

\* Seeded fault: only a call that ends normally gives its permit back.
LeaveBulkhead_KeepsPermit == activeCalls' = activeCalls - 1 /\ UNCHANGED <<free, bulkCalls>>

\* The finally block of Bulkhead.call.
LeaveBulkhead ==
  /\ activeCalls' = activeCalls - 1
  /\ free' = free + 1
  /\ UNCHANGED bulkCalls

(* execute up to the bulkhead: a cached result is returned at once. *)
Execute(c, k) ==
  /\ pc[c] = "idle"
  /\ total' = total + 1
  /\ key' = [key EXCEPT ![c] = k]
  /\ \/ /\ GetResult(k) # None
        /\ pc' = [pc EXCEPT ![c] = "done"]
        /\ outcome' = [outcome EXCEPT ![c] = GetResult(k)]
        /\ UNCHANGED <<wal, bulkCalls>>
     \/ /\ GetResult(k) = None
        /\ pc' = [pc EXCEPT ![c] = "queued"]
        /\ LogRequest(c)
        /\ bulkCalls' = bulkCalls + 1
        /\ UNCHANGED outcome
  /\ UNCHANGED <<breakerVars, free, activeCalls, rejected, retryVars, attempt, cache,
                 successful, failed>>

\* Seeded fault: the breaker is not consulted.
EnterBulkhead_NoBreaker(c) ==
  /\ pc[c] = "queued"
  /\ free > 0
  /\ free' = free - 1
  /\ activeCalls' = activeCalls + 1
  /\ pc' = [pc EXCEPT ![c] = "running"]
  /\ attempt' = [attempt EXCEPT ![c] = 1]
  /\ UNCHANGED <<breakerVars, bulkCalls, rejected, retryVars, adapterVars, key, outcome>>

(* The semaphore is acquired; the breaker lets the call through to the tool. *)
EnterBulkhead(c) ==
  /\ pc[c] = "queued"
  /\ free > 0
  /\ free' = free - 1
  /\ activeCalls' = activeCalls + 1
  /\ pc' = [pc EXCEPT ![c] = "running"]
  /\ attempt' = [attempt EXCEPT ![c] = 1]
  /\ Breaker!Begin(c)
  /\ UNCHANGED <<bulkCalls, rejected, retryVars, adapterVars, key, outcome>>

(* The semaphore is acquired and released again: the breaker raises. *)
RejectedByBreaker(c) ==
  /\ pc[c] = "queued"
  /\ free > 0
  /\ ~Breaker!Admits
  /\ Raises(c, "circuit open")
  /\ UNCHANGED <<breakerVars, bulkVars, retryVars, attempt>>

(* No permit within max_wait_time_ms. *)
BulkheadTimesOut(c) ==
  /\ pc[c] = "queued"
  /\ rejected' = rejected + 1
  /\ Raises(c, "bulkhead timeout")
  /\ UNCHANGED <<breakerVars, free, activeCalls, bulkCalls, retryVars, attempt>>

(* The tool returns. *)
ToolReturns(c) ==
  /\ pc[c] = "running"
  /\ successfulRetries' = IF attempt[c] > 1 THEN successfulRetries + 1 ELSE successfulRetries
  /\ LeaveBulkhead
  /\ Returns(c)
  /\ Breaker!Succeed(c)
  /\ UNCHANGED <<rejected, totalRetries, attempt>>

(* The tool raises an error _is_retryable_error accepts, with attempts left. *)
ToolRaisesRetryable(c) ==
  /\ pc[c] = "running"
  /\ attempt[c] < MaxAttempts
  /\ pc' = [pc EXCEPT ![c] = "backoff"]
  /\ UNCHANGED <<breakerVars, bulkVars, retryVars, adapterVars, key, attempt, outcome>>

(* The sleep between two attempts is over. *)
RetryTool(c) ==
  /\ pc[c] = "backoff"
  /\ pc' = [pc EXCEPT ![c] = "running"]
  /\ attempt' = [attempt EXCEPT ![c] = @ + 1]
  /\ UNCHANGED <<breakerVars, bulkVars, retryVars, adapterVars, key, outcome>>

\* The retry loop re-raises: attempts exhausted, or an error not retryable.
GivesUp(c) ==
  \/ attempt[c] = MaxAttempts /\ totalRetries' = totalRetries + attempt[c] - 1
  \/ UNCHANGED totalRetries

(* The tool raises for good. *)
ToolFails(c) ==
  /\ pc[c] = "running"
  /\ GivesUp(c)
  /\ LeaveBulkhead
  /\ Raises(c, "tool error")
  /\ Breaker!Fail(c)
  /\ UNCHANGED <<rejected, successfulRetries, attempt>>

(* The tool raises asyncio.TimeoutError for good: Bulkhead.call takes it for its
   own time-out. *)
ToolTimesOut(c) ==
  /\ pc[c] = "running"
  /\ GivesUp(c)
  /\ LeaveBulkhead
  /\ rejected' = rejected + 1
  /\ Raises(c, "bulkhead timeout")
  /\ Breaker!Fail(c)
  /\ UNCHANGED <<successfulRetries, attempt>>

\* Seeded fault: a call cancelled inside the tool leaves nothing in the log.
TotalTimesOut_NotLogged(c) ==
  /\ pc[c] \in {"running", "backoff"}
  /\ LeaveBulkhead
  /\ pc' = [pc EXCEPT ![c] = "done"]
  /\ Breaker!Cancel(c)
  /\ outcome' = [outcome EXCEPT ![c] = "total timeout"]
  /\ failed' = failed + 1
  /\ UNCHANGED <<wal, cache, key, total, successful, rejected, retryVars, attempt>>

\* Seeded fault: the timeout covers the wait for a permit only.
TotalTimesOut_WaitOnly(c) ==
  /\ pc[c] = "queued"
  /\ Raises(c, "total timeout")
  /\ UNCHANGED <<breakerVars, bulkVars, retryVars, attempt>>

(* total_timeout_ms is over: the call is cancelled wherever it is.  Neither the
   retry loop nor the breaker sees it; the bulkhead's finally block runs. *)
TotalTimesOut(c) ==
  /\ \/ /\ pc[c] = "queued"
        /\ UNCHANGED <<breakerVars, free, activeCalls, bulkCalls>>
        /\ Raises(c, "total timeout")
     \/ /\ pc[c] \in {"running", "backoff"}
        /\ LeaveBulkhead
        /\ Raises(c, "total timeout")
        /\ Breaker!Cancel(c)
  /\ UNCHANGED <<rejected, retryVars, attempt>>

CoolDown ==
  /\ UNCHANGED <<bulkVars, retryVars, adapterVars, callVars>>
  /\ Breaker!CoolDown

Next ==
  \/ CoolDown
  \/ \E c \in Calls, k \in Keys : Execute(c, k)
  \/ \E c \in Calls :
       \/ EnterBulkhead(c)
       \/ RejectedByBreaker(c)
       \/ BulkheadTimesOut(c)
       \/ ToolReturns(c)
       \/ ToolRaisesRetryable(c)
       \/ RetryTool(c)
       \/ ToolFails(c)
       \/ ToolTimesOut(c)
       \/ TotalTimesOut(c)

\* The timer of the outer wait_for fires in the end; nothing else is promised.
Fairness == \A c \in Calls : WF_vars(TotalTimesOut(c))

Spec == Init /\ [][Next]_vars /\ Fairness

-----------------------------------------------------------------------------
(* Properties. *)

(* No permit of the bulkhead leaks or is given back twice, on any of the ways a
   call can end: permits and active_calls account for the calls inside. *)
PermitsConserved ==
  /\ free + Cardinality(Inside) = MaxConcurrent
  /\ activeCalls = Cardinality(Inside)

(* The log tells how each call ended: "requested" exactly while it is under
   way, "succeeded" exactly for the calls whose own result was returned. *)
LogTellsOutcome ==
  \A c \in Calls :
    /\ wal[c] = "requested" <=> c \in InFlight
    /\ wal[c] = "succeeded" <=> outcome[c] = c
    /\ wal[c] = "failed" <=> outcome[c] \in Errors

(* Idempotency for calls in sequence: once a call with some key has succeeded,
   a call that starts with this key is answered from the cache, with a result
   of a successful call of the same key, and never reaches the tool. *)
RepeatedCallIsReplayed ==
  [][\A c \in Calls :
       /\ pc[c] = "idle" /\ pc'[c] # "idle"
       /\ \E d \in Calls : wal[d] = "succeeded" /\ key[d] = key'[c]
       => /\ pc'[c] = "done"
          /\ outcome'[c] \in Calls
          /\ wal[outcome'[c]] = "succeeded" /\ key[outcome'[c]] = key'[c]]_vars

(* get_metrics: every call is counted once; the calls answered from the cache
   are the ones missing from successful_calls and failed_calls. *)
CountersAddUp ==
  total = successful + failed + Cardinality(InFlight)
            + Cardinality({c \in Calls : outcome[c] \in Calls \ {c}})

(* Permits, counters and the write-ahead log account for every call, whatever cut
   it off. *)
CallsAccounted == TypeOK /\ PermitsConserved /\ CountersAddUp /\ LogTellsOutcome

(* The breaker inside the adapter behaves as CircuitBreaker does by itself. *)
ImplementsBreaker == Breaker!Safe

(* Every call returns or raises. *)
EveryCallEnds == \A c \in Calls : pc[c] # "idle" ~> pc[c] = "done"
=============================================================================
