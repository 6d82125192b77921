-------------------------- MODULE DisasterRecovery --------------------------
\* The failovers of a service and the runbooks for disasters.
EXTENDS Integers, Sequences, SequencesExt

(***************************************************************************)
(* libs/infrastructure/failover_manager.py, for one registered service.    *)
(* Health checks and manual failovers run without waiting; the task of a   *)
(* failover waits while routing and while the configuration are updated,   *)
(* for the same times in every failover, so tasks do not overtake each     *)
(* other.  Health is what the checks answer: a nondeterministic choice, as *)
(* in the code, which draws it at random.                                  *)
(*                                                                         *)
(* The recovery branch of _perform_health_check is never taken: it tests   *)
(* for FAILED after the same branch has set HEALTHY.  Nothing else calls   *)
(* _attempt_recovery, so it is not modelled.                               *)
(***************************************************************************)

CONSTANTS
  PrimaryRegion, BackupRegions,
  ErrorThreshold,   \* failover_threshold_seconds // health_check_interval_seconds
  MaxFailovers      \* bound on failover_count

ASSUME FailoverAssumptions ==
  /\ ErrorThreshold \in Nat /\ MaxFailovers \in Nat
  /\ PrimaryRegion \notin BackupRegions

VARIABLES
  health,    \* status of the service: healthy, failing_over or failed
  errors,    \* error_count, counted up to ErrorThreshold
  cooling,   \* last_failover_time is less than the cooldown ago
  tasks,     \* tasks[i], the i-th failover: its stage and target region
  watching,  \* the health check task runs
  routing, serviceConfig   \* the region they point to

failoverVars == <<health, errors, cooling, tasks, watching, routing, serviceConfig>>

FailoverInit ==   \* after register_service
  /\ health = "healthy" /\ errors = 0 /\ cooling = FALSE
  /\ tasks = <<>> /\ watching = TRUE
  /\ routing = PrimaryRegion /\ serviceConfig = PrimaryRegion

InProgress(i) == tasks[i].stage \in {"created", "routing", "configuring"}

(* _trigger_failover *)
TriggerFailover ==
  IF health = "failing_over" THEN UNCHANGED <<health, cooling, tasks>>
  ELSE /\ Len(tasks) < MaxFailovers
       /\ health' = "failing_over"
       /\ cooling' = TRUE
       /\ tasks' = Append(tasks, [stage |-> "created", target |-> PrimaryRegion])

ManualFailover ==
  /\ TriggerFailover
  /\ UNCHANGED <<errors, watching, routing, serviceConfig>>

(* _should_trigger_failover; exceeded: a limit of one of the service's triggers
   (latency, error rate, resources) is exceeded *)
ShouldTrigger(count, exceeded) ==
  /\ health # "failing_over" /\ ~cooling
  /\ count >= ErrorThreshold \/ exceeded

(* _perform_health_check, when the service is healthy ... *)
HealthCheckPasses ==
  /\ watching
  /\ health' = "healthy" /\ errors' = 0
  /\ UNCHANGED <<cooling, tasks, watching, routing, serviceConfig>>

(* ... and when it is not *)
HealthCheckFails(exceeded) ==
  /\ watching
  /\ errors' = IF errors < ErrorThreshold THEN errors + 1 ELSE errors
  /\ IF ShouldTrigger(errors', exceeded) THEN TriggerFailover
     ELSE UNCHANGED <<health, cooling, tasks>>
  /\ UNCHANGED <<watching, routing, serviceConfig>>

CooldownPasses ==
  /\ cooling
  /\ cooling' = FALSE
  /\ UNCHANGED <<health, errors, tasks, watching, routing, serviceConfig>>

\* the earlier failovers have passed the given stages
NotOvertaking(i, stages) == \A j \in 1..(i - 1) : tasks[j].stage \notin stages

(* _execute_failover and _select_backup_region, up to the update of the routing;
   r is the first healthy backup region, or none is *)
SelectBackup(i, r) ==
  /\ tasks[i].stage = "created" /\ NotOvertaking(i, {"created"})
  /\ IF r \in BackupRegions
     THEN /\ tasks' = [tasks EXCEPT ![i] = [stage |-> "routing", target |-> r]]
          /\ UNCHANGED health
     ELSE /\ tasks' = [tasks EXCEPT ![i].stage = "failed"]
          /\ health' = "failed"
  /\ UNCHANGED <<errors, cooling, watching, routing, serviceConfig>>

\* Seeded fault: a backup region that is not ready ends the steps as a success.
RoutingUpdated_Unverified(i, ready) ==
  /\ tasks[i].stage = "routing" /\ NotOvertaking(i, {"created", "routing"})
  /\ routing' = tasks[i].target
  /\ tasks' = [tasks EXCEPT ![i].stage = IF ready THEN "configuring" ELSE "done"]
  /\ health' = IF ready THEN health ELSE "healthy"
  /\ UNCHANGED <<errors, cooling, watching, serviceConfig>>

(* _update_routing ends, then _verify_backup_region *)
RoutingUpdated(i, ready) ==
  /\ tasks[i].stage = "routing" /\ NotOvertaking(i, {"created", "routing"})
  /\ routing' = tasks[i].target
  /\ tasks' = [tasks EXCEPT ![i].stage = IF ready THEN "configuring" ELSE "failed"]
  /\ health' = IF ready THEN health ELSE "failed"
  /\ UNCHANGED <<errors, cooling, watching, serviceConfig>>

(* _update_service_config ends, then _verify_failover, and the result *)
ConfigUpdated(i, works) ==
  /\ tasks[i].stage = "configuring"
  /\ NotOvertaking(i, {"created", "routing", "configuring"})
  /\ serviceConfig' = tasks[i].target
  /\ tasks' = [tasks EXCEPT ![i].stage = IF works THEN "done" ELSE "failed"]
  /\ health' = IF works THEN "healthy" ELSE "failed"
  /\ UNCHANGED <<errors, cooling, watching, routing>>

(* cleanup cancels the health check and the latest failover: failover_tasks has
   one entry per service *)
CleanupFailover ==
  /\ watching
  /\ watching' = FALSE
  /\ tasks' = IF tasks # <<>> /\ InProgress(Len(tasks))
              THEN [tasks EXCEPT ![Len(tasks)].stage = "cancelled"]
              ELSE tasks
  /\ UNCHANGED <<health, errors, cooling, routing, serviceConfig>>

RunFailover ==
  \E i \in DOMAIN tasks :
    \/ \E r \in BackupRegions \cup {PrimaryRegion} : SelectBackup(i, r)
    \/ \E ok \in BOOLEAN : RoutingUpdated(i, ok) \/ ConfigUpdated(i, ok)

FailoverNext ==
  \/ ManualFailover
  \/ HealthCheckPasses
  \/ \E exceeded \in BOOLEAN : HealthCheckFails(exceeded)
  \/ CooldownPasses
  \/ RunFailover
  \/ CleanupFailover

FailoverSpec == FailoverInit /\ [][FailoverNext]_failoverVars

-----------------------------------------------------------------------------
(* However failovers overlap, when all have ended and the last of them succeeded
   traffic and configuration both point to its region; and they point to
   different regions only if a failover was given up half-way. *)
LastFailoverWins ==
  (\A i \in DOMAIN tasks : ~InProgress(i)) =>
    /\ tasks # <<>> /\ tasks[Len(tasks)].stage = "done" =>
         routing = tasks[Len(tasks)].target /\ serviceConfig = routing
    /\ routing # serviceConfig =>
         \E i \in DOMAIN tasks : tasks[i].stage \in {"failed", "cancelled"}

(* failover_manager.py: "Check if failover is already in progress".  At most one
   failover of a service is.  (A health check that passes sets HEALTHY during a
   failover, and the next trigger starts another.) *)
OneFailoverAtATime ==
  \A i, j \in DOMAIN tasks : InProgress(i) /\ InProgress(j) => i = j

-----------------------------------------------------------------------------
(***************************************************************************)
(* libs/infrastructure/dr_runbooks.py: the executions of one active        *)
(* runbook.  An execution id is the runbook and the second it starts in,   *)
(* so executions started in one second share it: the later record replaces *)
(* the earlier in the dictionary, while the earlier task keeps the record  *)
(* it looked up when it began, and rolls back what the record in the       *)
(* dictionary says.  The outcomes of steps and scripts are                 *)
(* nondeterministic choices, as in the code.                               *)
(***************************************************************************)

CONSTANTS
  BookRuns,        \* the executions, as numbers in the order they are started
  BookSteps,       \* the number of steps; a step is its position in the list
  BookDeps,        \* BookDeps[s]: dependencies of step s, positions as well
  WithRollback     \* the steps that have a rollback_script

ASSUME RunbookAssumptions ==
  /\ BookRuns \subseteq Nat \ {0} /\ BookSteps \in Nat \ {0}
  /\ BookDeps \in [1..BookSteps -> SUBSET (1..BookSteps)]   \* _validate_runbook
  /\ WithRollback \subseteq 1..BookSteps

VARIABLES
  rollbackAvailable,  \* of the runbook
  entryOf,       \* entryOf[x]: the record that executions has under the id of x
  record,      \* record[x]: created by execute_runbook for x: status, steps_executed
  runner,      \* runner[x]: the task: stage, record in use, position in the loop
  undone,      \* history: undone[x]: the rollback scripts run by x, in order
  shared       \* history: executions that ever shared an id with another

bookVars == <<rollbackAvailable, entryOf, record, runner, undone, shared>>

BookInit ==
  /\ rollbackAvailable \in BOOLEAN
  /\ entryOf = [x \in BookRuns |-> 0]
  /\ record = [x \in BookRuns |-> [status |-> "none", executed |-> <<>>]]
  /\ runner = [x \in BookRuns |-> [stage |-> "none", uses |-> 0, at |-> 0]]
  /\ undone = [x \in BookRuns |-> <<>>]
  /\ shared = {}

(* execute_runbook; same: the execution before it was started in this second *)
ExecuteRunbook(x, same) ==
  /\ runner[x].stage = "none"
  /\ \A y \in BookRuns : y < x => runner[y].stage # "none"
  /\ same => x - 1 \in BookRuns
  /\ LET earlier == {y \in BookRuns : same /\ entryOf[y] # 0 /\ entryOf[y] = entryOf[x - 1]}
         sharers == earlier \cup {x}
     IN  /\ entryOf' = [y \in BookRuns |-> IF y \in sharers THEN x ELSE entryOf[y]]
         /\ shared' = IF same THEN shared \cup sharers ELSE shared
  /\ record' = [record EXCEPT ![x].status = "pending"]
  /\ runner' = [runner EXCEPT ![x].stage = "created"]
  /\ UNCHANGED <<rollbackAvailable, undone>>

Executed(r) == ToSet(record[r].executed)

\* _check_step_dependencies
DependenciesMet(s, done) == BookDeps[s] \subseteq done

\* the steps after position i that the loop does not skip
Eligible(i, done) == {s \in (i + 1)..BookSteps : DependenciesMet(s, done)}
FirstOf(S) == CHOOSE s \in S : \A t \in S : s <= t

(* The loop goes on to the next step it does not skip, or ends.  rec is the record
   it uses, as the step before left it. *)
GoOn(x, r, rec, i) ==
  LET next == Eligible(i, ToSet(rec.executed))
  IN  IF next = {}
      THEN /\ record' = [record EXCEPT ![r] = [rec EXCEPT !.status = "completed"]]
           /\ runner' = [runner EXCEPT ![x] = [stage |-> "ended", uses |-> r, at |-> i]]
      ELSE /\ record' = [record EXCEPT ![r] = rec]
           /\ runner' = [runner EXCEPT ![x] =
                           [stage |-> "step", uses |-> r, at |-> FirstOf(next)]]

(* _execute_runbook_steps up to its first step *)
StartRunner(x) ==
  /\ runner[x].stage = "created"
  /\ GoOn(x, entryOf[x], [record[entryOf[x]] EXCEPT !.status = "running"], 0)
  /\ UNCHANGED <<rollbackAvailable, entryOf, undone, shared>>

StepSucceeds(x) ==
  /\ runner[x].stage = "step"
  /\ LET r == runner[x].uses
     IN  GoOn(x, r, [record[r] EXCEPT !.executed = Append(@, runner[x].at)], runner[x].at)
  /\ UNCHANGED <<rollbackAvailable, entryOf, undone, shared>>

\* the next step that _execute_rollback has to undo, going down from position i
ToRollBack(x, i) ==
  {s \in 1..(i - 1) : s \in Executed(entryOf[x]) /\ s \in WithRollback}
LastOf(S) == CHOOSE s \in S : \A t \in S : s >= t

\* the rollback goes on below position i, or the execution is FAILED
RollBackFrom(x, i) ==
  LET left == ToRollBack(x, i)
  IN  IF left = {}
      THEN /\ record' = [record EXCEPT ![runner[x].uses].status = "failed"]
           /\ runner' = [runner EXCEPT ![x].stage = "ended"]
      ELSE /\ runner' = [runner EXCEPT ![x].stage = "rollback", ![x].at = LastOf(left)]
           /\ UNCHANGED record

(* A step returns False: the rollback starts at the end of the list. *)
StepReturnsFalse(x) ==
  /\ runner[x].stage = "step"
  /\ RollBackFrom(x, IF rollbackAvailable THEN BookSteps + 1 ELSE 0)
  /\ UNCHANGED <<rollbackAvailable, entryOf, undone, shared>>

(* A rollback script ends; whether it succeeded is only logged. *)
RollBackStep(x) ==
  /\ runner[x].stage = "rollback"
  /\ undone' = [undone EXCEPT ![x] = Append(@, runner[x].at)]
  /\ RollBackFrom(x, runner[x].at)
  /\ UNCHANGED <<rollbackAvailable, entryOf, shared>>

(* cleanup cancels a task at its next await; the record keeps its status *)
CancelRunner(x) ==
  /\ runner[x].stage \in {"created", "step", "rollback"}
  /\ entryOf[x] = x   \* execution_tasks has the last task of an id only
  /\ runner' = [runner EXCEPT ![x].stage = "cancelled"]
  /\ UNCHANGED <<rollbackAvailable, entryOf, record, undone, shared>>

BookNext ==
  \E x \in BookRuns :
    \/ \E same \in BOOLEAN : ExecuteRunbook(x, same)
    \/ StartRunner(x) \/ StepSucceeds(x) \/ StepReturnsFalse(x) \/ RollBackStep(x)
    \/ CancelRunner(x)

BookSpec == BookInit /\ [][BookNext]_bookVars

-----------------------------------------------------------------------------
\* u undoes what can be undone of done, the latest first
UndoesLatestFirst(u, done) ==
  /\ ToSet(u) = ToSet(done) \cap WithRollback
  /\ \A i, j \in DOMAIN u : \A k, l \in DOMAIN done :
       i < j /\ done[k] = u[i] /\ done[l] = u[j] => l < k

(* An execution that shares its id with no other: it executes a step once, after
   all the steps it depends on; if it fails, every step it executed that can be
   rolled back has been, once, the latest first; and if it is completed, each
   step it left out had a dependency that it had not executed before. *)
RollbackIsExact ==
  \A x \in BookRuns \ shared :
    LET done == record[x].executed
    IN  /\ IsInjective(done)
        /\ \A i \in DOMAIN done : BookDeps[done[i]] \subseteq {done[k] : k \in 1 .. i - 1}
        /\ record[x].status = "failed" =>
             IF rollbackAvailable THEN UndoesLatestFirst(undone[x], done) ELSE undone[x] = <<>>
        /\ record[x].status = "completed" =>
             /\ undone[x] = <<>>
             /\ \A s \in (1..BookSteps) \ ToSet(done) :
                  \E d \in BookDeps[s] : d \notin {e \in ToSet(done) : e < s}
=============================================================================
