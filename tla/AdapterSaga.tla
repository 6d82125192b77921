----------------------------- MODULE AdapterSaga -----------------------------
(***************************************************************************)
(* libs/adapters/saga_pattern.py: one saga of the SagaManager, from        *)
(* create_saga to its end.  Its steps run one after the other, or all at   *)
(* once as tasks that are awaited in the order of the list.                *)
(*                                                                         *)
(* Each attempt of a step is the caller's execute_func, external: it takes *)
(* effect and returns, or raises (its timeout included) without effect.    *)
(* One caller executes a saga; the FAILED branch of execute_saga is not    *)
(* reached then, every exception being caught below it.                    *)
(***************************************************************************)
EXTENDS Integers, Sequences, SequencesExt, FiniteSets

CONSTANTS
  NSteps,        \* the number of steps; a step is its position
  Undoable,      \* the steps that have a compensate_func
  StepRetries    \* max_retries of every step

ASSUME AdapterSagaAssumptions ==
  /\ NSteps \in Nat \ {0} /\ StepRetries \in Nat
  /\ Undoable \subseteq 1..NSteps

VARIABLES
  shape,       \* parallel_execution, and whether the strategy is reverse_order
  saga,        \* status, whether it is in active_sagas, and saga_metrics
  stepStatus,  \* status of each step
  attempts,    \* retry_attempts of each step
  task,        \* _execute_step_with_retry of each step: none, trying, ok, failed
  awaited,     \* the step execute_saga is waiting for
  toUndo,      \* the completed steps _execute_compensation has not come to, which it
               \* takes in the order of the strategy
  effect,      \* history: the execute_func of the step took effect and is not undone
  undoTried    \* history: the compensate_funcs called, in order

adapterSagaVars ==
  <<shape, saga, stepStatus, attempts, task, awaited, toUndo, effect, undoTried>>

Positions == 1..NSteps
MetricNames == {"total", "active", "completed", "compensated"}
NoMetrics == [k \in MetricNames |-> 0]

AdapterSagaInit ==
  /\ shape \in [parallel : BOOLEAN, reverse : BOOLEAN]
  /\ saga = [status |-> "none", active |-> FALSE, metrics |-> NoMetrics]
  /\ stepStatus = [s \in Positions |-> "pending"]
  /\ attempts = [s \in Positions |-> 0]
  /\ task = [s \in Positions |-> "none"]
  /\ awaited = 1
  /\ toUndo = {}
  /\ effect = {}
  /\ undoTried = <<>>

(* create_saga, and add_step for every step *)
CreateAdapterSaga ==
  /\ saga.status = "none"
  /\ saga' = [status |-> "pending", active |-> TRUE,
              metrics |-> [NoMetrics EXCEPT !.total = 1, !.active = 1]]
  /\ UNCHANGED <<shape, stepStatus, attempts, task, awaited, toUndo, effect, undoTried>>

\* the steps of S start: status RUNNING, and the first attempt
Launch(S) ==
  /\ task' = [s \in Positions |-> IF s \in S THEN "trying" ELSE task[s]]
  /\ stepStatus' = [s \in Positions |-> IF s \in S THEN "running" ELSE stepStatus[s]]

(* execute_saga up to its first await *)
ExecuteAdapterSaga ==
  /\ saga.active /\ saga.status = "pending"
  /\ saga' = [saga EXCEPT !.status = "running"]
  /\ Launch(IF shape.parallel THEN Positions ELSE {1})
  /\ UNCHANGED <<shape, attempts, awaited, toUndo, effect, undoTried>>

(* An attempt of _execute_step_with_retry succeeds ... *)
AttemptSucceeds(s) ==
  /\ task[s] = "trying"
  /\ task' = [task EXCEPT ![s] = "ok"]
  /\ effect' = effect \cup {s}
  /\ UNCHANGED <<shape, saga, stepStatus, attempts, awaited, toUndo, undoTried>>

(* ... or raises, and is repeated after a delay up to max_retries times. *)
AttemptFails(s) ==
  /\ task[s] = "trying"
  /\ attempts' = [attempts EXCEPT ![s] = @ + 1]
  /\ task' = [task EXCEPT ![s] = IF attempts[s] < StepRetries THEN "trying" ELSE "failed"]
  /\ UNCHANGED <<shape, saga, stepStatus, awaited, toUndo, effect, undoTried>>

\* the saga is COMPLETED or COMPENSATED and moves to completed_sagas
Settled(status) ==
  [status |-> status, active |-> FALSE,
   metrics |-> [saga.metrics EXCEPT !.active = @ - 1, ![status] = @ + 1]]

\* Seeded fault: the steps still at work are compensated too.
CompletedSteps_AndRunning ==
  {s \in Positions : stepStatus[s] \in {"completed", "running"} /\ s # awaited}

\* completed_steps of _execute_compensation
CompletedSteps == {s \in Positions : stepStatus[s] = "completed"}

(* The awaited step returns its result. *)
StepCompletes ==
  /\ saga.status = "running" /\ task[awaited] = "ok"
  /\ IF awaited = NSteps
     THEN /\ saga' = Settled("completed")
          /\ stepStatus' = [stepStatus EXCEPT ![awaited] = "completed"]
          /\ UNCHANGED <<task, awaited>>
     ELSE /\ awaited' = awaited + 1
          /\ IF shape.parallel
             THEN /\ stepStatus' = [stepStatus EXCEPT ![awaited] = "completed"]
                  /\ UNCHANGED task
             ELSE /\ stepStatus' = [stepStatus EXCEPT ![awaited] = "completed",
                                                      ![awaited + 1] = "running"]
                  /\ task' = [task EXCEPT ![awaited + 1] = "trying"]
          /\ UNCHANGED saga
  /\ UNCHANGED <<shape, attempts, toUndo, effect, undoTried>>

(* The awaited step raises: _execute_compensation begins.  The tasks of a
   parallel saga that have not been awaited are left to themselves. *)
StepFails ==
  /\ saga.status = "running" /\ task[awaited] = "failed"
  /\ stepStatus' = [stepStatus EXCEPT ![awaited] = "failed"]
  /\ saga' = [saga EXCEPT !.status = "compensating"]
  /\ toUndo' = CompletedSteps
  /\ UNCHANGED <<shape, attempts, task, awaited, effect, undoTried>>

\* s is compensated before r
Precedes(s, r) == IF shape.reverse THEN s > r ELSE s < r

(* One compensation: skipped without a compensate_func, done, or failed, which
   is logged and does not stop the others. *)
CompensateStep(s, ok) ==
  /\ saga.status = "compensating" /\ s \in toUndo
  /\ \A r \in toUndo \ {s} : Precedes(s, r)
  /\ IF s \in Undoable
     THEN /\ undoTried' = Append(undoTried, s)
          /\ IF ok THEN /\ stepStatus' = [stepStatus EXCEPT ![s] = "compensated"]
                        /\ effect' = effect \ {s}
             ELSE UNCHANGED <<stepStatus, effect>>
     ELSE UNCHANGED <<undoTried, stepStatus, effect>>
  /\ toUndo' = toUndo \ {s}
  /\ UNCHANGED <<shape, saga, attempts, task, awaited>>

CompensationEnds ==
  /\ saga.status = "compensating" /\ toUndo = {}
  /\ saga' = Settled("compensated")
  /\ UNCHANGED <<shape, stepStatus, attempts, task, awaited, toUndo, effect, undoTried>>

SagaRuns ==
  \/ ExecuteAdapterSaga \/ StepCompletes \/ StepFails
  \/ \E s \in toUndo, ok \in BOOLEAN : CompensateStep(s, ok)
  \/ CompensationEnds

AttemptEnds == \E s \in Positions : AttemptSucceeds(s) \/ AttemptFails(s)

AdapterSagaNext == CreateAdapterSaga \/ SagaRuns \/ AttemptEnds

(* The event loop runs what is ready, and every attempt has a timeout. *)
AdapterSagaFairness == WF_adapterSagaVars(SagaRuns \/ AttemptEnds)
AdapterSagaSpec ==
  AdapterSagaInit /\ [][AdapterSagaNext]_adapterSagaVars /\ AdapterSagaFairness

-----------------------------------------------------------------------------
IsSettled == saga.status \in {"completed", "compensated"}

(* What a saga leaves behind.  A completed one has every step in effect and none
   undone.  A compensated one stopped at the first step in the list that failed,
   has tried to undo each step before it that can be undone, once and in the
   order of its strategy, and has a step in effect only if it cannot be undone,
   its compensation failed, or, in a parallel saga, it comes after the step that
   failed; metrics count the saga once. *)
OnlyStragglersSurvive ==
  IsSettled =>
    /\ saga.status = "completed" => effect = Positions /\ undoTried = <<>>
    /\ saga.status = "compensated" =>
         /\ stepStatus[awaited] = "failed"
         /\ ToSet(undoTried) = {s \in Undoable : s < awaited}
         /\ \A i, j \in DOMAIN undoTried : i < j => Precedes(undoTried[i], undoTried[j])
         /\ \A s \in effect :
              \/ s < awaited /\ (s \in Undoable => stepStatus[s] = "completed")
              \/ s > awaited /\ shape.parallel
    /\ saga.metrics = [NoMetrics EXCEPT !.total = 1, ![saga.status] = 1]

(* Every saga that is created and executed settles, and no task outlives it for
   ever. *)
AdapterSagaSettles ==
  (saga.status = "pending") ~> (IsSettled /\ \A s \in Positions : task[s] # "trying")
=============================================================================
