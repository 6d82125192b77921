----------------------------- MODULE SagaManager -----------------------------
(***************************************************************************)
(* libs/reliability/saga_manager.py: a saga is a list of tool calls; each  *)
(* may carry a compensation callback.  start_saga creates one asyncio task *)
(* per saga (the executor); cancel_saga runs the compensation loop in the  *)
(* caller's task (the canceller), next to the executor.                    *)
(*                                                                         *)
(* The event loop is single threaded: what happens between two awaits is   *)
(* one action.  An action therefore starts where a task resumes (a tool    *)
(* call or a compensation returns) and runs up to that task's next await.  *)
(* Steps are numbered 1..NumSteps (the source counts from 0).              *)
(***************************************************************************)
EXTENDS Integers, Sequences, FiniteSets

CONSTANTS
  Sagas,     \* saga ids that start_saga may hand out
  NumSteps   \* len(saga_execution.steps)

\* A workflow has at least one step (cancel_saga indexes steps[0]).
ASSUME NumStepsAssumption == NumSteps \in Nat \ {0}

Steps == 1..NumSteps
Loops == {"executor", "canceller"}   \* the tasks that may run _compensate_saga

VARIABLES
  active,       \* keys of self.active_sagas
  status,       \* saga_execution.status, "none" before start_saga
  step,         \* step[s][i]: steps[i].status
  callbacks,    \* callbacks[s]: the steps whose config has a "compensation"
  cur,          \* saga_execution.current_step_index
  exec,         \* where the executor task of the saga is suspended
  undoing,      \* undoing[s][w]: the step whose compensation w awaits, or 0
  total, completed, compensated, failed,   \* the counters of get_statistics
  undoLog,      \* history: undoLog[s], the steps in the order their
                \* compensation was started
  cancelled     \* history: the sagas cancel_saga has accepted

counters == <<total, completed, compensated, failed>>
vars == <<active, status, step, callbacks, cur, exec, undoing, counters,
          undoLog, cancelled>>

\* A task about to fail passes through FAILED and sets COMPENSATING before it
\* awaits anything, so no other task ever reads status FAILED of a saga.
SagaStatus == {"none", "RUNNING", "COMPLETED", "COMPENSATING", "COMPENSATED"}
SagaStepStatus ==
  {"PENDING", "EXECUTING", "COMPLETED", "COMPENSATING", "COMPENSATED", "FAILED"}
ExecStates == {"none", "ready", "running", "undoing", "done"}
Terminal == {"COMPLETED", "COMPENSATED"}

(* The one type invariant: every field holds a value of its enum. *)
TypeOK ==
  /\ active \in SUBSET Sagas
  /\ status \in [Sagas -> SagaStatus]
  /\ step \in [Sagas -> [Steps -> SagaStepStatus]]
  /\ callbacks \in [Sagas -> SUBSET Steps]
  /\ cur \in [Sagas -> Steps]
  /\ exec \in [Sagas -> ExecStates]
  /\ undoing \in [Sagas -> [Loops -> 0..NumSteps]]
  /\ total \in Nat /\ completed \in Nat /\ compensated \in Nat /\ failed \in Nat
  /\ undoLog \in [Sagas -> Seq(Steps)]
  /\ cancelled \in SUBSET Sagas

Init ==
  /\ active = {}
  /\ status = [s \in Sagas |-> "none"]
  /\ step = [s \in Sagas |-> [i \in Steps |-> "PENDING"]]
  /\ callbacks = [s \in Sagas |-> {}]
  /\ cur = [s \in Sagas |-> 1]
  /\ exec = [s \in Sagas |-> "none"]
  /\ undoing = [s \in Sagas |-> [w \in Loops |-> 0]]
  /\ total = 0 /\ completed = 0 /\ compensated = 0 /\ failed = 0
  /\ undoLog = [s \in Sagas |-> <<>>]
  /\ cancelled = {}

-----------------------------------------------------------------------------
(* The compensation loop, shared by both tasks. *)

\* Seeded fault: the range of the loop ends one step early.
Undoable_SkipsLast(s, st, n) == {i \in callbacks[s] : i < n /\ st[i] = "COMPLETED"}

\* The steps of s up to n the loop stops at, when the step statuses are st.
Undoable(s, st, n) == {i \in callbacks[s] : i <= n /\ st[i] = "COMPLETED"}

\* Seeded fault: the step leaves COMPLETED only when its callback has returned.
UndoNext_MarksLate(s, w, n, st, now) ==
  \E j \in Undoable(s, st, n) :
    /\ \A k \in Undoable(s, st, n) : k <= j
    /\ step' = [step EXCEPT ![s] = st]
    /\ undoing' = [undoing EXCEPT ![s][w] = j]
    /\ undoLog' = [undoLog EXCEPT ![s] = Append(@, j)]
    /\ status' = [status EXCEPT ![s] = now]
    /\ UNCHANGED compensated

\* Seeded fault: the loop walks upwards from the first step.
UndoNext_Forward(s, w, n, st, now) ==
  \E j \in Undoable(s, st, NumSteps) :
    /\ \A k \in Undoable(s, st, NumSteps) : k >= j
    /\ step' = [step EXCEPT ![s] = [st EXCEPT ![j] = "COMPENSATING"]]
    /\ undoing' = [undoing EXCEPT ![s][w] = j]
    /\ undoLog' = [undoLog EXCEPT ![s] = Append(@, j)]
    /\ status' = [status EXCEPT ![s] = now]
    /\ UNCHANGED compensated

\* From index n downwards loop w finds a step to undo and awaits its callback;
\* now is the saga's status in the meantime.
UndoNext(s, w, n, st, now) ==
  \E j \in Undoable(s, st, n) :
    /\ \A k \in Undoable(s, st, n) : k <= j
    /\ step' = [step EXCEPT ![s] = [st EXCEPT ![j] = "COMPENSATING"]]
    /\ undoing' = [undoing EXCEPT ![s][w] = j]
    /\ undoLog' = [undoLog EXCEPT ![s] = Append(@, j)]
    /\ status' = [status EXCEPT ![s] = now]
    /\ UNCHANGED compensated

\* Seeded fault: compensated_sagas is not incremented.
UndoFinished_NotCounted(s, w, n, st) ==
  /\ Undoable(s, st, n) = {}
  /\ step' = [step EXCEPT ![s] = st]
  /\ undoing' = [undoing EXCEPT ![s][w] = 0]
  /\ status' = [status EXCEPT ![s] = "COMPENSATED"]
  /\ UNCHANGED <<compensated, undoLog>>

\* Seeded fault: the status is left at COMPENSATING.
UndoFinished_StatusKept(s, w, n, st) ==
  /\ Undoable(s, st, n) = {}
  /\ step' = [step EXCEPT ![s] = st]
  /\ undoing' = [undoing EXCEPT ![s][w] = 0]
  /\ compensated' = compensated + 1
  /\ UNCHANGED <<undoLog, status>>

\* From index n downwards there is nothing left: the saga is COMPENSATED.
UndoFinished(s, w, n, st) ==
  /\ Undoable(s, st, n) = {}
  /\ step' = [step EXCEPT ![s] = st]
  /\ undoing' = [undoing EXCEPT ![s][w] = 0]
  /\ status' = [status EXCEPT ![s] = "COMPENSATED"]
  /\ compensated' = compensated + 1
  /\ UNCHANGED undoLog

\* The rest of _compensate_saga in the executor task, up to its next await.
ExecutorUnwinds(s, n, st, now) ==
  \/ /\ UndoNext(s, "executor", n, st, now)
     /\ exec' = [exec EXCEPT ![s] = "undoing"]
  \/ /\ UndoFinished(s, "executor", n, st)
     /\ exec' = [exec EXCEPT ![s] = "done"]

\* The same in the task that called cancel_saga.
CancellerUnwinds(s, n, st, now) ==
  /\ UndoNext(s, "canceller", n, st, now) \/ UndoFinished(s, "canceller", n, st)
  /\ UNCHANGED exec

-----------------------------------------------------------------------------
(* start_saga: register the saga and create its task. *)
StartSaga(s, c) ==
  /\ status[s] = "none"
  /\ active' = active \cup {s}
  /\ status' = [status EXCEPT ![s] = "RUNNING"]
  /\ callbacks' = [callbacks EXCEPT ![s] = c]
  /\ exec' = [exec EXCEPT ![s] = "ready"]
  /\ total' = total + 1
  /\ UNCHANGED <<step, cur, undoing, completed, compensated, failed, undoLog,
                 cancelled>>

(* The task runs for the first time, up to the first tool call. *)
BeginExecution(s) ==
  /\ exec[s] = "ready"
  /\ cur' = [cur EXCEPT ![s] = 1]
  /\ step' = [step EXCEPT ![s][1] = "EXECUTING"]
  /\ exec' = [exec EXCEPT ![s] = "running"]
  /\ UNCHANGED <<active, status, callbacks, undoing, counters, undoLog, cancelled>>

\* Seeded fault: the saga is marked COMPLETED with a step still to execute.
StepSucceeds_MarksEarly(s) ==
  /\ exec[s] = "running"
  /\ cur[s] < NumSteps
  /\ cur' = [cur EXCEPT ![s] = @ + 1]
  /\ step' = [step EXCEPT ![s][cur[s]] = "COMPLETED", ![s][cur[s] + 1] = "EXECUTING"]
  /\ status' = [status EXCEPT ![s] = IF cur[s] + 1 = NumSteps THEN "COMPLETED" ELSE @]
  /\ UNCHANGED <<active, exec, callbacks, undoing, counters, undoLog, cancelled>>

(* The tool call returns: go on with the next step, or the saga is COMPLETED
   whatever its status has become in the meantime. *)
StepSucceeds(s) ==
  /\ exec[s] = "running"
  /\ \/ /\ cur[s] < NumSteps
        /\ cur' = [cur EXCEPT ![s] = @ + 1]
        /\ step' = [step EXCEPT ![s] = [@ EXCEPT ![cur[s]] = "COMPLETED",
                                                 ![cur[s] + 1] = "EXECUTING"]]
        /\ UNCHANGED <<status, exec, completed>>
     \/ /\ cur[s] = NumSteps
        /\ step' = [step EXCEPT ![s][cur[s]] = "COMPLETED"]
        /\ status' = [status EXCEPT ![s] = "COMPLETED"]
        /\ exec' = [exec EXCEPT ![s] = "done"]
        /\ completed' = completed + 1
        /\ UNCHANGED cur
  /\ UNCHANGED <<active, callbacks, undoing, total, compensated, failed, undoLog,
                 cancelled>>

(* The tool call raises: _execute_step re-raises, so the except branch of
   _execute_saga counts the saga as failed and compensates it. *)
StepFails(s) ==
  /\ exec[s] = "running"
  /\ failed' = failed + 1
  /\ ExecutorUnwinds(s, cur[s], [step[s] EXCEPT ![cur[s]] = "FAILED"], "COMPENSATING")
  /\ UNCHANGED <<active, callbacks, cur, total, completed, cancelled>>

(* A compensation callback returns True (ok), or False or an exception; the
   loop that awaited it goes on below that step. *)
CompensationReturns(s, w, ok) ==
  LET i  == undoing[s][w]
      st == [step[s] EXCEPT ![i] = IF ok THEN "COMPENSATED" ELSE "FAILED"]
  IN  /\ i > 0
      /\ \/ w = "executor"  /\ ExecutorUnwinds(s, i - 1, st, status[s])
         \/ w = "canceller" /\ CancellerUnwinds(s, i - 1, st, status[s])
      /\ UNCHANGED <<active, callbacks, cur, total, completed, failed, cancelled>>

(* cancel_saga: accepted only while RUNNING; the executor is not told. *)
CancelSaga(s) ==
  /\ s \in active
  /\ status[s] = "RUNNING"
  /\ cancelled' = cancelled \cup {s}
  /\ CancellerUnwinds(s, cur[s], step[s], "COMPENSATING")
  /\ UNCHANGED <<active, callbacks, cur, total, completed, failed>>

(* cleanup_completed_sagas: forget the sagas that ended before the cutoff;
   any set of settled sagas may be old enough. *)
CleanupCompletedSagas(old) ==
  /\ old # {}
  /\ \A s \in old : status[s] \in Terminal
  /\ active' = active \ old
  /\ UNCHANGED <<status, step, callbacks, cur, exec, undoing, counters, undoLog,
                 cancelled>>

Executor(s) ==
  \/ BeginExecution(s)
  \/ StepSucceeds(s)
  \/ StepFails(s)

Next ==
  \/ \E s \in Sagas, c \in SUBSET Steps : StartSaga(s, c)
  \/ \E s \in Sagas : Executor(s)
  \/ \E s \in Sagas, w \in Loops, ok \in BOOLEAN : CompensationReturns(s, w, ok)
  \/ \E s \in Sagas : CancelSaga(s)
  \/ \E old \in SUBSET active : CleanupCompletedSagas(old)

\* The event loop runs every ready task; tool adapters bound each call by a
\* timeout; callbacks are assumed to return.  Nobody is obliged to start,
\* cancel or clean up a saga.
Fairness ==
  \A s \in Sagas :
    /\ WF_vars(Executor(s) \/ \E ok \in BOOLEAN : CompensationReturns(s, "executor", ok))
    /\ WF_vars(\E ok \in BOOLEAN : CompensationReturns(s, "canceller", ok))

Spec == Init /\ [][Next]_vars /\ Fairness

-----------------------------------------------------------------------------
(* Properties. *)

Count(S, st) == Cardinality({s \in S : status[s] = st})

(* No step is undone twice, although after a cancel two tasks run the
   compensation loop over the same steps at the same time: a step leaves
   COMPLETED before its callback is awaited (_compensate_saga/_compensate_step). *)
UndoneAtMostOnce ==
  \A s \in Sagas : \A i, j \in DOMAIN undoLog[s] :
    undoLog[s][i] = undoLog[s][j] => i = j

(* _compensate_saga: "executing compensation functions in reverse order".  True
   of every saga that nobody cancels. *)
UndoIsReverseOrder ==
  \A s \in Sagas \ cancelled : \A i, j \in DOMAIN undoLog[s] :
    i < j => undoLog[s][i] > undoLog[s][j]

\* Steps that have taken effect and that a callback could still undo.
InEffect(s) == {i \in callbacks[s] : step[s][i] \in {"EXECUTING", "COMPLETED", "COMPENSATING"}}

(* All or nothing: a settled saga that nobody cancelled either performed every
   step and undid none, or left nothing in effect that it could have undone. *)
SettledConsistently ==
  \A s \in Sagas \ cancelled :
    /\ status[s] = "COMPLETED" =>
         /\ \A i \in Steps : step[s][i] = "COMPLETED"
         /\ undoLog[s] = <<>>
    /\ status[s] = "COMPENSATED" => InEffect(s) = {}

(* A settled saga stays settled: get_saga_status never contradicts an earlier
   COMPLETED or COMPENSATED, unless the saga was cancelled. *)
SettledIsFinal ==
  [][\A s \in Sagas \ cancelled' :
       status[s] \in Terminal => status'[s] = status[s] /\ step'[s] = step[s]]_vars

(* get_statistics: while nobody cancels, every started saga is counted exactly
   once among completed, compensated, active and compensating, although
   cleanup_completed_sagas forgets settled ones and a failing saga is counted
   under failed_sagas as well. *)
StatisticsAddUp ==
  cancelled = {} =>
    /\ total = completed + compensated + Count(active, "RUNNING")
                 + Count(active, "COMPENSATING")
    /\ failed = compensated + Count(active, "COMPENSATING")

(* cleanup_completed_sagas never forgets a saga whose task still has work to
   do, so get_saga_status can answer for every unfinished saga. *)
ForgottenSagasAreIdle ==
  \A s \in Sagas \ cancelled :
    status[s] # "none" /\ s \notin active => exec[s] = "done"

(* The counters and the registry agree with the sagas, and keep their types. *)
RegistryConsistent == TypeOK /\ StatisticsAddUp /\ ForgottenSagasAreIdle

(* Every started saga settles for good, the cancelled ones too. *)
EverySagaSettles ==
  \A s \in Sagas : status[s] # "none" ~> [](status[s] \in Terminal /\ exec[s] = "done")

\* What the contract says of saga s, read off its execution.
PhaseOf(s) ==
  IF s \in cancelled THEN "disowned"
  ELSE IF status[s] = "none" THEN "idle"
  ELSE IF status[s] = "RUNNING" THEN "forward"
  ELSE IF status[s] = "COMPENSATING" THEN "backward"
  ELSE IF status[s] = "COMPLETED" THEN "committed" ELSE "rolledback"
DoneOf(s) ==
  IF s \in cancelled THEN 0
  ELSE IF status[s] = "COMPLETED" THEN NumSteps ELSE cur[s] - 1
OwedOf(s) ==
  IF s \in cancelled \/ status[s] # "COMPENSATING" THEN {} ELSE InEffect(s)

Contract == INSTANCE SagaContract WITH
  phase <- [s \in Sagas |-> PhaseOf(s)],
  done  <- [s \in Sagas |-> DoneOf(s)],
  owed  <- [s \in Sagas |-> OwedOf(s)]

(* The saga manager implements the contract of SagaContract. *)
ImplementsContract == Contract!Spec

(* cancel_saga: "Cancel a running saga and initiate compensation": once both
   tasks are finished a cancelled saga is compensated. *)
CancelledSagaIsCompensated ==
  \A s \in cancelled :
    exec[s] = "done" /\ undoing[s]["canceller"] = 0 => status[s] = "COMPENSATED"
=============================================================================
