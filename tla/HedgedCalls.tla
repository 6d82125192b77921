----------------------------- MODULE HedgedCalls -----------------------------
(***************************************************************************)
(* libs/clients/http/request_hedging.py and timeout_manager.py.            *)
(*                                                                         *)
(* In request_hedging.py the dataclass HedgingResult replaces the enum of  *)
(* the same name, so naming HedgingResult.FIRST_WIN or ALL_FAILED raises   *)
(* AttributeError: the staggered and the adaptive strategy do that before  *)
(* their first request, the parallel one when its requests have ended, and *)
(* every except clause does it again.  hedge_request therefore always      *)
(* raises, and never reaches the line that forgets the hedge.              *)
(***************************************************************************)
EXTENDS Integers, Sequences, SequencesExt, FiniteSets

CONSTANTS
  Hedges,        \* calls of hedge_request
  Targets,       \* the urls, numbered
  Operations,    \* calls of execute_with_timeout, all of one type
  MaxAge,        \* max_age_minutes of the clean-up
  MaxEvents,     \* the 1000 events that are kept
  LastMs         \* bound: the last millisecond

ASSUME HedgedAssumptions == MaxEvents \in Nat \ {0} /\ {MaxAge, LastMs} \subseteq Nat

-----------------------------------------------------------------------------
VARIABLES
  hedge,         \* of a hedge: "new", "waiting" or "raised"
  attempt,       \* per hedge and target: "none", "running", "ok", "failed", "cancelled"
  activeHedges,  \* keys of active_requests
  cancelOthers,  \* cancel_others_on_first_success
  withdrawn      \* history: hedges that cancel_hedging_request has forgotten

hedgeVars == <<hedge, attempt, activeHedges, cancelOthers, withdrawn>>

HedgeInit ==
  /\ hedge = [h \in Hedges |-> "new"]
  /\ attempt = [h \in Hedges |-> [i \in Targets |-> "none"]]
  /\ activeHedges = {} /\ withdrawn = {}
  /\ cancelOthers \in BOOLEAN

(* hedge_request with the parallel strategy: a task per url *)
HedgeParallel(h) ==
  /\ hedge[h] = "new"
  /\ hedge' = [hedge EXCEPT ![h] = "waiting"]
  /\ attempt' = [attempt EXCEPT ![h] = [i \in Targets |-> "running"]]
  /\ activeHedges' = activeHedges \cup {h}
  /\ UNCHANGED <<cancelOthers, withdrawn>>

(* ... with the staggered or the adaptive one *)
HedgeStaggered(h) ==
  /\ hedge[h] = "new"
  /\ hedge' = [hedge EXCEPT ![h] = "raised"]
  /\ activeHedges' = activeHedges \cup {h}
  /\ UNCHANGED <<attempt, cancelOthers, withdrawn>>

(* _execute_single_request ends; its errors become a response *)
AttemptEnds(h, i, ok) ==
  /\ attempt[h][i] = "running"
  /\ attempt' = [attempt EXCEPT ![h][i] = IF ok THEN "ok" ELSE "failed"]
  /\ UNCHANGED <<hedge, activeHedges, cancelOthers, withdrawn>>

Succeeded(h) == \E i \in Targets : attempt[h][i] = "ok"
Running(h) == {i \in Targets : attempt[h][i] = "running"}

\* Seeded fault: the others are left to themselves.
AfterWin_LeftRunning(h) == attempt[h]

\* remaining_task.cancel() for every task that is not done, and the gather
AfterWin(h) ==
  [i \in Targets |-> IF attempt[h][i] = "running" THEN "cancelled" ELSE attempt[h][i]]

(* _execute_parallel_hedging ends: at the first success, or when all have ended *)
HedgeEnds(h) ==
  /\ hedge[h] = "waiting"
  /\ \/ cancelOthers /\ Succeeded(h) /\ attempt' = [attempt EXCEPT ![h] = AfterWin(h)]
     \/ Running(h) = {} /\ UNCHANGED attempt
  /\ hedge' = [hedge EXCEPT ![h] = "raised"]
  /\ UNCHANGED <<activeHedges, cancelOthers, withdrawn>>

(* cancel_hedging_request: forgets the hedge and stops nothing *)
CancelHedge(h) ==
  /\ h \in activeHedges
  /\ activeHedges' = activeHedges \ {h}
  /\ withdrawn' = withdrawn \cup {h}
  /\ UNCHANGED <<hedge, attempt, cancelOthers>>

HedgeNext ==
  \E h \in Hedges :
    \/ HedgeParallel(h) \/ HedgeStaggered(h) \/ HedgeEnds(h) \/ CancelHedge(h)
    \/ \E i \in Targets, ok \in BOOLEAN : AttemptEnds(h, i, ok)

(* When hedge_request has ended none of its requests is under way, even the ones that
   lost; every hedge stays in active_requests until somebody cancels it. *)
HedgeLeavesNothing ==
  \A h \in Hedges :
    /\ hedge[h] = "raised" => Running(h) = {}
    /\ h \in activeHedges <=> hedge[h] # "new" /\ h \notin withdrawn

-----------------------------------------------------------------------------
(* The timeout manager.  operation_id is the type and the millisecond, so operations
   begun in the same millisecond share an entry. *)
VARIABLES
  millis,
  operation,     \* of an operation: "new", "running", "done" or "timeout"
  begun,         \* its operation_id
  tracked,       \* active_operations: per id the operation that wrote the entry, as a set
  timeoutEvents, \* timeout_events
  allTimeouts,   \* history: the operations that timed out, in order
  sharedIds,     \* history: operations that share an id
  stale          \* history: operations whose entry the clean-up removed

timeoutVars ==
  <<millis, operation, begun, tracked, timeoutEvents, allTimeouts, sharedIds, stale>>

TimeoutInit ==
  /\ millis = 0
  /\ operation = [o \in Operations |-> "new"]
  /\ begun = [o \in Operations |-> 0]
  /\ tracked = [m \in 0 .. LastMs |-> {}]
  /\ timeoutEvents = <<>> /\ allTimeouts = <<>>
  /\ sharedIds = {} /\ stale = {}

(* execute_with_timeout up to the operation *)
BeginOperation(o) ==
  /\ operation[o] = "new"
  /\ operation' = [operation EXCEPT ![o] = "running"]
  /\ begun' = [begun EXCEPT ![o] = millis]
  /\ tracked' = [tracked EXCEPT ![millis] = {o}]
  /\ LET same == {p \in Operations : operation[p] # "new" /\ begun[p] = millis}
     IN  sharedIds' = IF same = {} THEN sharedIds ELSE sharedIds \cup same \cup {o}
  /\ UNCHANGED <<millis, timeoutEvents, allTimeouts, stale>>

\* the finally clause
Untracked(o) == [tracked EXCEPT ![begun[o]] = {}]

(* the operation returns or raises in time *)
OperationDone(o) ==
  /\ operation[o] = "running"
  /\ operation' = [operation EXCEPT ![o] = "done"]
  /\ tracked' = Untracked(o)
  /\ UNCHANGED <<millis, begun, timeoutEvents, allTimeouts, sharedIds, stale>>

\* Seeded fault: the list is cut at its wrong end.
Recent_Oldest(s) == SubSeq(s, 1, IF Len(s) > MaxEvents THEN MaxEvents ELSE Len(s))

\* timeout_events[-1000:]
Recent(s) == IF Len(s) > MaxEvents THEN SubSeq(s, Len(s) - MaxEvents + 1, Len(s)) ELSE s

(* wait_for cancels the operation: _handle_timeout, then the finally clause *)
OperationTimesOut(o) ==
  /\ operation[o] = "running"
  /\ operation' = [operation EXCEPT ![o] = "timeout"]
  /\ timeoutEvents' = Recent(Append(timeoutEvents, o))
  /\ allTimeouts' = Append(allTimeouts, o)
  /\ tracked' = Untracked(o)
  /\ UNCHANGED <<millis, begun, sharedIds, stale>>

(* cleanup_stale_operations *)
CleanupStale ==
  LET old == {m \in 0 .. LastMs : tracked[m] # {} /\ millis - m > MaxAge}
  IN  /\ old # {}
      /\ tracked' = [m \in 0 .. LastMs |-> IF m \in old THEN {} ELSE tracked[m]]
      /\ stale' = stale \cup UNION {tracked[m] : m \in old}
      /\ UNCHANGED <<millis, operation, begun, timeoutEvents, allTimeouts, sharedIds>>

NextMillisecond ==
  /\ millis < LastMs
  /\ millis' = millis + 1
  /\ UNCHANGED <<operation, begun, tracked, timeoutEvents, allTimeouts, sharedIds, stale>>

TimeoutNext ==
  \/ \E o \in Operations : BeginOperation(o) \/ OperationDone(o) \/ OperationTimesOut(o)
  \/ CleanupStale \/ NextMillisecond

(* active_operations holds exactly the operations under way, but for those that share
   their id with another, whose end removes the entry of both, and those the clean-up
   took for abandoned; and the events kept are the most recent timeouts. *)
TrackingIsExact ==
  /\ \A o \in Operations \ sharedIds :
       /\ o \in tracked[begun[o]] => operation[o] = "running"
       /\ operation[o] = "running" => o \in tracked[begun[o]] \cup stale
  /\ IsSuffix(timeoutEvents, allTimeouts)
  /\ Len(timeoutEvents) = IF Len(allTimeouts) > MaxEvents THEN MaxEvents ELSE Len(allTimeouts)
=============================================================================
