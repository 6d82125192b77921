----------------------------- MODULE WalAdapter -----------------------------
(***************************************************************************)
(* libs/resilience/tool_adapter_base.py: calls of one ResilientToolAdapter *)
(* in a process that may crash.  The write-ahead log and the cached        *)
(* results are in Redis and survive; the bulkhead and the breaker are in   *)
(* memory and do not.  recover_pending_operations may run at any time, as  *)
(* nothing in the code says when.                                          *)
(*                                                                         *)
(* execute_operation is the adapter's own, external: it takes effect and   *)
(* returns, or raises without effect.  Every attempt has a log entry of    *)
(* its own; Redis may fail, which the log and the cache swallow.           *)
(***************************************************************************)
EXTENDS Integers, FiniteSets

CONSTANTS
  WalCalls,          \* calls with the same idempotency key
  WalAttempts,       \* max_attempts
  WalSlots,          \* max_concurrent
  OpenAfter, MinRequests,   \* failure_threshold, minimum_requests; ratio is 1/2
  MaxWalCrashes,     \* bound on the crashes
  MaxReplays,        \* bound on the times one entry is replayed
  MaxUnwritten       \* bound on the failures of Redis to write the log

ASSUME WalAssumptions ==
  /\ WalAttempts \in Nat \ {0} /\ WalSlots \in Nat \ {0}
  /\ OpenAfter \in Nat \ {0} /\ MinRequests \in Nat \ {0}
  /\ MaxWalCrashes \in Nat /\ MaxReplays \in Nat /\ MaxUnwritten \in Nat

WalEntries == WalCalls \X (1..WalAttempts)

VARIABLES
  callAt,      \* stage of each call, and the number of its attempt
  wal,         \* wal[e]: "none", "pending", "completed" or "failed"
  cached,      \* the key has a cached result
  walBreaker,  \* state, failure_count, success_count, and ready: the timeout has passed
  replaying,   \* entries the running recovery has not come to, and the one it has
               \* executed and not marked
  walCrashes,
  ownEffects,  \* history: effects of the call's own attempts
  replayed,    \* history: replayed[e]: times recovery executed e, and with success
  unlogged,    \* history: entries for which a write to the log failed
  interrupted, \* history: entries whose attempt was under way at a crash
  overlapped   \* history: entries recovery read while their attempt was under way

walVars == <<callAt, wal, cached, walBreaker, replaying, walCrashes,
             ownEffects, replayed, unlogged, interrupted, overlapped>>

NewBreaker == [state |-> "closed", fails |-> 0, succs |-> 0, ready |-> FALSE]
NoReplay == [todo |-> {}, done |-> {}]

WalInit ==
  /\ callAt = [c \in WalCalls |-> [stage |-> "idle", attempt |-> 1]]
  /\ wal = [e \in WalEntries |-> "none"]
  /\ cached = FALSE
  /\ walBreaker = NewBreaker
  /\ replaying = NoReplay
  /\ walCrashes = 0
  /\ ownEffects = [c \in WalCalls |-> 0]
  /\ replayed = [e \in WalEntries |-> [tries |-> 0, effects |-> 0]]
  /\ unlogged = {} /\ interrupted = {} /\ overlapped = {}

Goes(c, stage) == callAt' = [callAt EXCEPT ![c].stage = stage]
EntryOf(c) == <<c, callAt[c].attempt>>

\* stages between acquire and release of the bulkhead
InBulkhead == {c \in WalCalls : callAt[c].stage \in {"log", "operate", "mark", "unmark", "cache"}}
UnderWay == {c \in WalCalls : callAt[c].stage \in {"operate", "mark", "unmark"}}

(* execute, up to the lookup of the idempotency key: a hit, or the queue *)
ExecuteCall(c) ==
  /\ callAt[c].stage = "idle"
  /\ Goes(c, IF cached THEN "hit" ELSE "queue")
  /\ UNCHANGED <<wal, cached, walBreaker, replaying, walCrashes, ownEffects, replayed,
                 unlogged, interrupted, overlapped>>

BulkheadTimesOut(c) ==
  /\ callAt[c].stage = "queue" /\ Cardinality(InBulkhead) >= WalSlots
  /\ Goes(c, "rejected")
  /\ UNCHANGED <<wal, cached, walBreaker, replaying, walCrashes, ownEffects, replayed,
                 unlogged, interrupted, overlapped>>

(* The slot is acquired, and CircuitBreaker.call entered: refused while OPEN. *)
EnterBreaker(c) ==
  /\ callAt[c].stage = "queue" /\ Cardinality(InBulkhead) < WalSlots
  /\ IF walBreaker.state = "open" /\ ~walBreaker.ready
     THEN Goes(c, "error") /\ UNCHANGED walBreaker
     ELSE /\ Goes(c, "log")
          /\ walBreaker' = IF walBreaker.state = "open"
                           THEN [walBreaker EXCEPT !.state = "half_open", !.succs = 0]
                           ELSE walBreaker
  /\ UNCHANGED <<wal, cached, replaying, walCrashes, ownEffects, replayed, unlogged,
                 interrupted, overlapped>>

\* a write to the log of e; written is FALSE when Redis fails
WriteLog(e, state, written) ==
  /\ ~written => Cardinality(unlogged) < MaxUnwritten
  /\ wal' = IF written THEN [wal EXCEPT ![e] = state] ELSE wal
  /\ unlogged' = IF written THEN unlogged ELSE unlogged \cup {e}

\* Seeded fault: the entry is written after the operation.
LogAttempt_After(c, written) ==
  /\ callAt[c].stage = "log"
  /\ Goes(c, "operate")
  /\ UNCHANGED <<wal, unlogged, cached, walBreaker, replaying, walCrashes, ownEffects,
                 replayed, interrupted, overlapped>>

(* log_operation of the new entry *)
LogAttempt(c, written) ==
  /\ callAt[c].stage = "log"
  /\ WriteLog(EntryOf(c), "pending", written)
  /\ Goes(c, "operate")
  /\ UNCHANGED <<cached, walBreaker, replaying, walCrashes, ownEffects, replayed,
                 interrupted, overlapped>>

OperationReturns(c) ==
  /\ callAt[c].stage = "operate"
  /\ ownEffects' = [ownEffects EXCEPT ![c] = @ + 1]
  /\ Goes(c, "mark")
  /\ UNCHANGED <<wal, cached, walBreaker, replaying, walCrashes, replayed, unlogged,
                 interrupted, overlapped>>

OperationRaises(c) ==
  /\ callAt[c].stage = "operate"
  /\ Goes(c, "unmark")
  /\ UNCHANGED <<wal, cached, walBreaker, replaying, walCrashes, ownEffects, replayed,
                 unlogged, interrupted, overlapped>>

\* _on_success and _on_failure of the breaker
AfterSuccess ==
  LET b == [walBreaker EXCEPT !.succs = @ + 1]
  IN  IF b.state = "half_open" /\ b.succs >= MinRequests
      THEN [b EXCEPT !.state = "closed", !.fails = 0] ELSE b

ShouldOpen(fails, succs) ==
  /\ fails + succs >= MinRequests
  /\ fails >= OpenAfter \/ 2 * fails >= fails + succs

AfterFailure ==
  LET b == [walBreaker EXCEPT !.fails = @ + 1, !.ready = FALSE]
  IN  IF b.state = "half_open" \/ ShouldOpen(b.fails, b.succs)
      THEN [b EXCEPT !.state = "open"] ELSE b

(* mark_completed; the attempt returns through the breaker *)
MarkCompleted(c, written) ==
  /\ callAt[c].stage = "mark"
  /\ IF wal[EntryOf(c)] = "none" THEN UNCHANGED <<wal, unlogged>>
     ELSE WriteLog(EntryOf(c), "completed", written)
  /\ walBreaker' = AfterSuccess
  /\ Goes(c, "cache")
  /\ UNCHANGED <<cached, replaying, walCrashes, ownEffects, replayed, interrupted, overlapped>>

(* log_operation with state failed; the next attempt, or the breaker's failure *)
MarkFailed(c, written) ==
  /\ callAt[c].stage = "unmark"
  /\ WriteLog(EntryOf(c), "failed", written)
  /\ IF callAt[c].attempt < WalAttempts
     THEN /\ callAt' = [callAt EXCEPT ![c] = [stage |-> "log", attempt |-> @.attempt + 1]]
          /\ UNCHANGED walBreaker
     ELSE Goes(c, "error") /\ walBreaker' = AfterFailure
  /\ UNCHANGED <<cached, replaying, walCrashes, ownEffects, replayed, interrupted, overlapped>>

(* set_result, and the slot is released *)
CacheAndReturn(c, written) ==
  /\ callAt[c].stage = "cache"
  /\ cached' = (cached \/ written)
  /\ Goes(c, "returned")
  /\ UNCHANGED <<wal, walBreaker, replaying, walCrashes, ownEffects, replayed, unlogged,
                 interrupted, overlapped>>

RecoveryTimeoutPasses ==
  /\ walBreaker.state = "open" /\ ~walBreaker.ready
  /\ walBreaker' = [walBreaker EXCEPT !.ready = TRUE]
  /\ UNCHANGED <<callAt, wal, cached, replaying, walCrashes, ownEffects, replayed,
                 unlogged, interrupted, overlapped>>

(* The process crashes and is restarted; its calls are gone.  A caller may call
   again with the same key. *)
CrashProcess ==
  /\ walCrashes < MaxWalCrashes
  /\ walCrashes' = walCrashes + 1
  /\ interrupted' = interrupted \cup {EntryOf(c) : c \in UnderWay}
  /\ callAt' = [c \in WalCalls |->
                  IF callAt[c].stage \in {"queue", "log", "operate", "mark", "unmark", "cache"}
                  THEN [stage |-> "lost", attempt |-> callAt[c].attempt] ELSE callAt[c]]
  /\ walBreaker' = NewBreaker
  /\ replaying' = NoReplay
  /\ UNCHANGED <<wal, cached, ownEffects, replayed, unlogged, overlapped>>

(* recover_pending_operations: the pending entries are read first ... *)
ReadPending ==
  /\ replaying = NoReplay
  /\ \E e \in WalEntries : wal[e] = "pending"
  /\ replaying' = [NoReplay EXCEPT !.todo = {e \in WalEntries : wal[e] = "pending"}]
  /\ overlapped' = overlapped \cup {EntryOf(c) : c \in UnderWay}
  /\ UNCHANGED <<callAt, wal, cached, walBreaker, walCrashes, ownEffects, replayed,
                 unlogged, interrupted>>

(* ... and executed one by one.  retry_count is 0 in every pending entry, so none
   is skipped; one that fails stays pending. *)
ReplayEntry(e, ok) ==
  /\ e \in replaying.todo /\ replaying.done = {} /\ replayed[e].tries < MaxReplays
  /\ replaying' = [todo |-> replaying.todo \ {e}, done |-> IF ok THEN {e} ELSE {}]
  /\ replayed' = [replayed EXCEPT ![e].tries = @ + 1, ![e].effects = IF ok THEN @ + 1 ELSE @]
  /\ UNCHANGED <<callAt, wal, cached, walBreaker, walCrashes, ownEffects, unlogged,
                 interrupted, overlapped>>

MarkReplayed(e, written) ==
  /\ e \in replaying.done
  /\ replaying' = [replaying EXCEPT !.done = {}]
  /\ WriteLog(e, "completed", written)
  /\ UNCHANGED <<callAt, cached, walBreaker, walCrashes, ownEffects, replayed, interrupted,
                 overlapped>>

WalNext ==
  \/ \E c \in WalCalls :
       \/ ExecuteCall(c) \/ BulkheadTimesOut(c) \/ EnterBreaker(c)
       \/ OperationReturns(c) \/ OperationRaises(c)
       \/ \E written \in BOOLEAN :
            LogAttempt(c, written) \/ MarkCompleted(c, written)
            \/ MarkFailed(c, written) \/ CacheAndReturn(c, written)
  \/ RecoveryTimeoutPasses \/ CrashProcess \/ ReadPending
  \/ \E e \in WalEntries, b \in BOOLEAN : ReplayEntry(e, b) \/ MarkReplayed(e, b)

WalSpec == WalInit /\ [][WalNext]_walVars

-----------------------------------------------------------------------------
\* recovery executed one of c's attempts with success
ReplayedWithEffect(c) == \E i \in 1..WalAttempts : replayed[<<c, i>>].effects > 0

(* What the log is for.  An attempt that a crash interrupted is pending in the
   log until recovery has executed it or it is known to have taken effect, unless
   the log could not be written; a caller is told of success or failure truly;
   and an operation takes effect again only if its attempt was interrupted by a
   crash, its entry could not be written, or recovery overlapped with it. *)
InterruptedIsRecoverable ==
  /\ \A e \in interrupted \ unlogged :
       \/ wal[e] = "pending"
       \/ wal[e] = "completed" /\ ownEffects[e[1]] + replayed[e].effects > 0
  /\ \A c \in WalCalls :
       /\ callAt[c].stage = "returned" => ownEffects[c] = 1
       /\ callAt[c].stage \in {"error", "rejected", "hit"} => ownEffects[c] = 0
       /\ ReplayedWithEffect(c) =>
            \E e \in interrupted \cup unlogged \cup overlapped : e[1] = c
=============================================================================
