-------------------------- MODULE ReliabilityProofs --------------------------
(***************************************************************************)
(* Safety of SagaManager, for every set of sagas and every number of       *)
(* steps; of ConcurrencyTokens, for any finite pool, any requests, tenants *)
(* and limits; and of CircuitBreaker, for any callers and any positive     *)
(* thresholds.                                                             *)
(***************************************************************************)
EXTENDS SagaManager, ConcurrencyTokens, CircuitBreaker, SequenceTheorems, FiniteSetTheorems,
        TLAPS

\* Where the executor of s is suspended determines what its steps look like.
ExecutorShape(s) ==
  /\ exec[s] = "none" <=> status[s] = "none"
  /\ exec[s] \in {"none", "ready"} => \A i \in Steps : step[s][i] = "PENDING"
  /\ exec[s] = "running" =>
       /\ step[s][cur[s]] = "EXECUTING"
       /\ \A i \in Steps : i > cur[s] => step[s][i] = "PENDING"
  /\ exec[s] = "undoing" <=> undoing[s]["executor"] # 0

\* A step whose compensation was started never looks untouched again.
LogShape(s) ==
  /\ \A k \in 1..Len(undoLog[s]) :
       step[s][undoLog[s][k]] \in {"COMPENSATING", "COMPENSATED", "FAILED"}
  /\ \A w \in Loops : undoing[s][w] # 0 => step[s][undoing[s][w]] = "COMPENSATING"
  /\ undoing[s]["executor"] # 0 => undoing[s]["executor"] # undoing[s]["canceller"]
  /\ \A k, l \in 1..Len(undoLog[s]) : undoLog[s][k] = undoLog[s][l] => k = l

\* What holds of a saga as long as nobody cancels it.
Uncancelled(s) ==
  /\ undoing[s]["canceller"] = 0
  /\ exec[s] \in {"ready", "running"} =>
       /\ status[s] = "RUNNING"
       /\ undoLog[s] = <<>>
  /\ exec[s] = "running" => \A i \in Steps : i < cur[s] => step[s][i] = "COMPLETED"
  /\ exec[s] = "undoing" =>
       /\ status[s] = "COMPENSATING"
       /\ \A k \in 1..Len(undoLog[s]) : undoLog[s][k] >= undoing[s]["executor"]
       /\ \A i \in InEffect(s) :
            /\ i <= undoing[s]["executor"]
            /\ i # undoing[s]["executor"] => step[s][i] = "COMPLETED"
  /\ exec[s] = "done" =>
       \/ /\ status[s] = "COMPLETED"
          /\ undoLog[s] = <<>>
          /\ \A i \in Steps : step[s][i] = "COMPLETED"
       \/ /\ status[s] = "COMPENSATED"
          /\ InEffect(s) = {}
  /\ \A k, l \in 1..Len(undoLog[s]) : k < l => undoLog[s][k] > undoLog[s][l]
  /\ status[s] # "none" /\ s \notin active => exec[s] = "done"

SagaInv(s) ==
  /\ ExecutorShape(s)
  /\ LogShape(s)
  /\ s \notin cancelled => Uncancelled(s)
  /\ exec[s] = "none" => s \notin cancelled /\ undoLog[s] = <<>>
  /\ status[s] = "none" => s \notin active

\* The inductive invariant.
IInv == TypeOK /\ \A s \in Sagas : SagaInv(s)

-----------------------------------------------------------------------------
(* One round of the compensation loop (either task) keeps the types. *)
LEMMA UnwindType ==
  ASSUME TypeOK, NEW s \in Sagas, NEW w \in Loops, NEW n \in 0..NumSteps,
         NEW st \in [Steps -> SagaStepStatus], NEW now \in SagaStatus,
         UndoNext(s, w, n, st, now) \/ UndoFinished(s, w, n, st)
  PROVE  /\ status' \in [Sagas -> SagaStatus]
         /\ step' \in [Sagas -> [Steps -> SagaStepStatus]]
         /\ undoing' \in [Sagas -> [Loops -> 0..NumSteps]]
         /\ compensated' \in Nat
         /\ undoLog' \in [Sagas -> Seq(Steps)]
<1>1. CASE UndoNext(s, w, n, st, now)
  <2>1. PICK j \in Undoable(s, st, n) :
          /\ step' = [step EXCEPT ![s] = [st EXCEPT ![j] = "COMPENSATING"]]
          /\ undoing' = [undoing EXCEPT ![s][w] = j]
          /\ undoLog' = [undoLog EXCEPT ![s] = Append(@, j)]
          /\ status' = [status EXCEPT ![s] = now]
          /\ UNCHANGED compensated
    BY <1>1 DEF UndoNext
  <2>2. j \in Steps /\ j \in 0..NumSteps
    BY NumStepsAssumption DEF Undoable, TypeOK, Steps
  <2>3. Append(undoLog[s], j) \in Seq(Steps)
    BY <2>2 DEF TypeOK
  <2> QED BY <2>1, <2>2, <2>3 DEF TypeOK, SagaStepStatus
<1>2. CASE UndoFinished(s, w, n, st)
  BY <1>2, NumStepsAssumption DEF UndoFinished, TypeOK, SagaStatus
<1> QED BY <1>1, <1>2

(* Every action keeps the types. *)
LEMMA TypeStep == TypeOK /\ [Next]_vars => TypeOK'
<1> SUFFICES ASSUME TypeOK, [Next]_vars PROVE TypeOK'
  OBVIOUS
<1> USE NumStepsAssumption
<1>1. ASSUME NEW s \in Sagas, NEW c \in SUBSET Steps, StartSaga(s, c) PROVE TypeOK'
  BY <1>1 DEF StartSaga, TypeOK, SagaStatus, ExecStates
<1>2. ASSUME NEW s \in Sagas, BeginExecution(s) PROVE TypeOK'
  BY <1>2 DEF BeginExecution, TypeOK, SagaStepStatus, ExecStates, Steps, counters
<1>3. ASSUME NEW s \in Sagas, StepSucceeds(s) PROVE TypeOK'
  <2>1. /\ cur[s] \in Steps
        /\ cur[s] < NumSteps => cur[s] + 1 \in Steps
    BY DEF TypeOK, Steps
  <2>2. CASE cur[s] < NumSteps
    <3>1. cur[s] + 1 \in Steps
      BY <2>1, <2>2
    <3>2. /\ cur' = [cur EXCEPT ![s] = cur[s] + 1]
          /\ step' = [step EXCEPT ![s] = [step[s] EXCEPT ![cur[s]] = "COMPLETED",
                                                         ![cur[s] + 1] = "EXECUTING"]]
          /\ UNCHANGED <<status, exec, completed>>
      BY <1>3, <2>1, <2>2 DEF StepSucceeds, Steps
    <3>3. step' \in [Sagas -> [Steps -> SagaStepStatus]] /\ cur' \in [Sagas -> Steps]
      BY <3>1, <3>2 DEF TypeOK, SagaStepStatus
    <3> QED
      BY <1>3, <3>2, <3>3 DEF StepSucceeds, TypeOK
  <2>3. CASE cur[s] = NumSteps
    <3>1. /\ step' = [step EXCEPT ![s][cur[s]] = "COMPLETED"]
          /\ status' = [status EXCEPT ![s] = "COMPLETED"]
          /\ exec' = [exec EXCEPT ![s] = "done"]
          /\ completed' = completed + 1
          /\ UNCHANGED cur
      BY <1>3, <2>1, <2>3 DEF StepSucceeds, Steps
    <3>2. step' \in [Sagas -> [Steps -> SagaStepStatus]]
      BY <2>1, <3>1 DEF TypeOK, SagaStepStatus
    <3> QED
      BY <1>3, <3>1, <3>2 DEF StepSucceeds, TypeOK, SagaStatus, ExecStates
  <2> QED
    BY <1>3, <2>2, <2>3 DEF StepSucceeds
<1>4. ASSUME NEW s \in Sagas, StepFails(s) PROVE TypeOK'
  <2> DEFINE st == [step[s] EXCEPT ![cur[s]] = "FAILED"]
  <2>1. st \in [Steps -> SagaStepStatus] /\ cur[s] \in 0..NumSteps
    BY DEF TypeOK, SagaStepStatus, Steps
  <2>2. \/ UndoNext(s, "executor", cur[s], st, "COMPENSATING")
        \/ UndoFinished(s, "executor", cur[s], st)
    BY <1>4 DEF StepFails, ExecutorUnwinds
  <2>3. exec' \in [Sagas -> ExecStates]
    BY <1>4 DEF StepFails, ExecutorUnwinds, TypeOK, ExecStates
  <2> HIDE DEF st
  <2> QED
    BY <1>4, <2>1, <2>2, <2>3, UnwindType DEF StepFails, TypeOK, Loops, SagaStatus
<1>5. ASSUME NEW s \in Sagas, NEW w \in Loops, NEW ok \in BOOLEAN,
             CompensationReturns(s, w, ok)
      PROVE TypeOK'
  <2> DEFINE i == undoing[s][w]
             st == [step[s] EXCEPT ![i] = IF ok THEN "COMPENSATED" ELSE "FAILED"]
  <2>1. /\ st \in [Steps -> SagaStepStatus]
        /\ i \in 0..NumSteps /\ i > 0 /\ i - 1 \in 0..NumSteps
        /\ status[s] \in SagaStatus
    BY <1>5 DEF CompensationReturns, TypeOK, SagaStepStatus, Steps
  <2>2. \/ UndoNext(s, w, i - 1, st, status[s])
        \/ UndoFinished(s, w, i - 1, st)
    BY <1>5 DEF CompensationReturns, ExecutorUnwinds, CancellerUnwinds
  <2>3. exec' \in [Sagas -> ExecStates]
    BY <1>5 DEF CompensationReturns, ExecutorUnwinds, CancellerUnwinds, TypeOK, ExecStates
  <2>4. UNCHANGED <<active, callbacks, cur, total, completed, failed, cancelled>>
    BY <1>5 DEF CompensationReturns
  <2> HIDE DEF st, i
  <2> QED
    BY <2>1, <2>2, <2>3, <2>4, UnwindType DEF TypeOK
<1>6. ASSUME NEW s \in Sagas, CancelSaga(s) PROVE TypeOK'
  <2>1. step[s] \in [Steps -> SagaStepStatus] /\ cur[s] \in 0..NumSteps
    BY DEF TypeOK, Steps
  <2>2. \/ UndoNext(s, "canceller", cur[s], step[s], "COMPENSATING")
        \/ UndoFinished(s, "canceller", cur[s], step[s])
    BY <1>6 DEF CancelSaga, CancellerUnwinds
  <2> QED
    BY <1>6, <2>1, <2>2, UnwindType
    DEF CancelSaga, CancellerUnwinds, TypeOK, Loops, SagaStatus
<1>7. ASSUME NEW old \in SUBSET active, CleanupCompletedSagas(old) PROVE TypeOK'
  BY <1>7 DEF CleanupCompletedSagas, TypeOK, counters
<1>8. CASE UNCHANGED vars
  BY <1>8 DEF vars, counters, TypeOK
<1> QED
  BY <1>1, <1>2, <1>3, <1>4, <1>5, <1>6, <1>7, <1>8 DEF Next, Executor

(* TypeOK is an invariant of the saga manager. *)
THEOREM TypeCorrect == Spec => []TypeOK
<1>1. Init => TypeOK
  BY NumStepsAssumption
  DEF Init, TypeOK, SagaStatus, SagaStepStatus, ExecStates, Steps, Loops
<1> QED BY <1>1, TypeStep, PTL DEF Spec

-----------------------------------------------------------------------------
\* Nothing of saga t changes.
Frame(t) ==
  /\ status'[t] = status[t] /\ step'[t] = step[t] /\ callbacks'[t] = callbacks[t]
  /\ cur'[t] = cur[t] /\ exec'[t] = exec[t] /\ undoing'[t] = undoing[t]
  /\ undoLog'[t] = undoLog[t]
  /\ t \in active' <=> t \in active
  /\ t \in cancelled' <=> t \in cancelled

(* An action on another saga keeps the invariant of t. *)
LEMMA FrameInv == ASSUME NEW t \in Sagas, SagaInv(t), Frame(t) PROVE SagaInv(t)'
  BY DEF SagaInv, Frame, ExecutorShape, LogShape, Uncancelled, InEffect

\* st, with the other loop's pending callback o, fits the log of s.
FitsLog(s, st, o) ==
  /\ \A k \in 1..Len(undoLog[s]) : st[undoLog[s][k]] \in {"COMPENSATING", "COMPENSATED", "FAILED"}
  /\ o # 0 => st[o] = "COMPENSATING"
  /\ \A k, l \in 1..Len(undoLog[s]) : undoLog[s][k] = undoLog[s][l] => k = l

(* One round of the loop takes a COMPLETED step, which is not in the log. *)
LEMMA UnwindLog ==
  ASSUME TypeOK, NEW s \in Sagas, NEW w \in Loops, NEW v \in Loops, v # w,
         NEW n \in 0..NumSteps, NEW st \in [Steps -> SagaStepStatus],
         NEW now \in SagaStatus, FitsLog(s, st, undoing[s][v]),
         UndoNext(s, w, n, st, now) \/ UndoFinished(s, w, n, st)
  PROVE  LogShape(s)'
<1>0. /\ undoLog[s] \in Seq(Steps) /\ undoing[s] \in [Loops -> 0..NumSteps]
      /\ w \in {"executor", "canceller"} /\ v \in {"executor", "canceller"}
  BY DEF TypeOK, Loops
<1>1. CASE UndoNext(s, w, n, st, now)
  <2>1. PICK j \in Undoable(s, st, n) :
          /\ step' = [step EXCEPT ![s] = [st EXCEPT ![j] = "COMPENSATING"]]
          /\ undoing' = [undoing EXCEPT ![s][w] = j]
          /\ undoLog' = [undoLog EXCEPT ![s] = Append(@, j)]
    BY <1>1 DEF UndoNext
  <2>2. j \in Steps /\ st[j] = "COMPLETED" /\ j # 0
    BY DEF Undoable, TypeOK, Steps
  <2>3. /\ step'[s] = [st EXCEPT ![j] = "COMPENSATING"]
        /\ undoLog'[s] = Append(undoLog[s], j)
        /\ undoing'[s][w] = j
        /\ undoing'[s][v] = undoing[s][v]
    BY <1>0, <2>1 DEF TypeOK
  <2>4. /\ Len(undoLog'[s]) = Len(undoLog[s]) + 1
        /\ \A k \in 1..Len(undoLog[s]) :
             undoLog'[s][k] = undoLog[s][k] /\ undoLog[s][k] \in Steps
        /\ undoLog'[s][Len(undoLog[s]) + 1] = j
    BY <1>0, <2>2, <2>3
  <2>5. \A k \in 1..Len(undoLog[s]) : undoLog[s][k] # j
    BY <2>2 DEF FitsLog
  <2>6. Len(undoLog[s]) \in Nat
    BY <1>0
  <2>7. \A k \in 1..Len(undoLog'[s]) :
          step'[s][undoLog'[s][k]] \in {"COMPENSATING", "COMPENSATED", "FAILED"}
    <3> SUFFICES ASSUME NEW k \in 1..(Len(undoLog[s]) + 1)
                 PROVE  step'[s][undoLog'[s][k]] \in {"COMPENSATING", "COMPENSATED", "FAILED"}
      BY <2>4
    <3>1. CASE k = Len(undoLog[s]) + 1
      BY <2>2, <2>3, <2>4, <3>1
    <3>2. CASE k # Len(undoLog[s]) + 1
      <4>1. k \in 1..Len(undoLog[s])
        BY <2>6, <3>2
      <4> QED BY <2>3, <2>4, <2>5, <4>1 DEF FitsLog
    <3> QED BY <3>1, <3>2
  <2>8. \A k, l \in 1..Len(undoLog'[s]) : undoLog'[s][k] = undoLog'[s][l] => k = l
    <3> SUFFICES ASSUME NEW k \in 1..(Len(undoLog[s]) + 1), NEW l \in 1..(Len(undoLog[s]) + 1),
                        undoLog'[s][k] = undoLog'[s][l]
                 PROVE  k = l
      BY <2>4
    <3>1. k \in 1..Len(undoLog[s]) \/ k = Len(undoLog[s]) + 1
      BY <2>6
    <3>2. l \in 1..Len(undoLog[s]) \/ l = Len(undoLog[s]) + 1
      BY <2>6
    <3> QED BY <2>4, <2>5, <3>1, <3>2 DEF FitsLog
  <2>9. /\ \A x \in Loops : undoing'[s][x] # 0 => step'[s][undoing'[s][x]] = "COMPENSATING"
        /\ undoing'[s]["executor"] # undoing'[s]["canceller"]
    <3>1. undoing[s][v] # 0 => undoing[s][v] \in Steps /\ undoing[s][v] # j
      BY <1>0, <2>2 DEF FitsLog, Steps
    <3> QED BY <1>0, <2>2, <2>3, <3>1 DEF FitsLog, Loops
  <2> QED BY <2>7, <2>8, <2>9 DEF LogShape
<1>2. CASE UndoFinished(s, w, n, st)
  <2>1. /\ step'[s] = st
        /\ undoLog'[s] = undoLog[s]
        /\ undoing'[s][w] = 0
        /\ undoing'[s][v] = undoing[s][v]
    BY <1>0, <1>2 DEF UndoFinished, TypeOK
  <2>2. /\ \A x \in Loops : undoing'[s][x] # 0 => step'[s][undoing'[s][x]] = "COMPENSATING"
        /\ undoing'[s]["executor"] # 0 => undoing'[s]["executor"] # undoing'[s]["canceller"]
    BY <1>0, <2>1 DEF FitsLog, Loops
  <2> QED BY <2>1, <2>2 DEF LogShape, FitsLog
<1> QED BY <1>1, <1>2

(* In the executor's task a round goes on below everything already undone. *)
LEMMA UnwindUncancelled ==
  ASSUME TypeOK, NEW s \in Sagas, NEW n \in 0..NumSteps,
         NEW st \in [Steps -> SagaStepStatus],
         ExecutorUnwinds(s, n, st, "COMPENSATING"),
         UNCHANGED <<active, callbacks>>,
         s \in active, undoing[s]["canceller"] = 0,
         \A k \in 1..Len(undoLog[s]) : undoLog[s][k] > n,
         \A k, l \in 1..Len(undoLog[s]) : k < l => undoLog[s][k] > undoLog[s][l],
         \A i \in callbacks[s] : st[i] \in {"EXECUTING", "COMPLETED", "COMPENSATING"}
                                   => i <= n /\ st[i] = "COMPLETED"
  PROVE  Uncancelled(s)'
<1>0. /\ undoLog[s] \in Seq(Steps) /\ undoing[s] \in [Loops -> 0..NumSteps]
      /\ callbacks[s] \subseteq Steps /\ callbacks'[s] = callbacks[s]
      /\ "executor" \in Loops /\ "canceller" \in Loops /\ "executor" # "canceller"
  BY DEF TypeOK, Loops
<1>1. CASE UndoNext(s, "executor", n, st, "COMPENSATING") /\ exec' = [exec EXCEPT ![s] = "undoing"]
  <2>1. PICK j \in Undoable(s, st, n) :
          /\ \A k \in Undoable(s, st, n) : k <= j
          /\ step' = [step EXCEPT ![s] = [st EXCEPT ![j] = "COMPENSATING"]]
          /\ undoing' = [undoing EXCEPT ![s]["executor"] = j]
          /\ undoLog' = [undoLog EXCEPT ![s] = Append(@, j)]
          /\ status' = [status EXCEPT ![s] = "COMPENSATING"]
    BY <1>1 DEF UndoNext
  <2>2. j \in Steps /\ j \in callbacks[s] /\ j <= n /\ j \in Int
    BY DEF Undoable, TypeOK, Steps
  <2>3. /\ step'[s] = [st EXCEPT ![j] = "COMPENSATING"]
        /\ undoLog'[s] = Append(undoLog[s], j)
        /\ undoing'[s]["executor"] = j
        /\ undoing'[s]["canceller"] = 0
        /\ status'[s] = "COMPENSATING"
        /\ exec'[s] = "undoing"
    BY <1>0, <1>1, <2>1 DEF TypeOK
  <2>4. /\ Len(undoLog'[s]) = Len(undoLog[s]) + 1
        /\ \A k \in 1..Len(undoLog[s]) :
             undoLog'[s][k] = undoLog[s][k] /\ undoLog[s][k] \in Int
        /\ undoLog'[s][Len(undoLog[s]) + 1] = j
        /\ Len(undoLog[s]) \in Nat
    <3>1. /\ Len(undoLog'[s]) = Len(undoLog[s]) + 1
          /\ \A k \in 1..Len(undoLog[s]) :
               undoLog'[s][k] = undoLog[s][k] /\ undoLog[s][k] \in Steps
          /\ undoLog'[s][Len(undoLog[s]) + 1] = j
          /\ Len(undoLog[s]) \in Nat
      BY <1>0, <2>2, <2>3
    <3> QED BY <3>1 DEF Steps
  <2>5. \A k \in 1..Len(undoLog'[s]) : undoLog'[s][k] >= j
    <3> SUFFICES ASSUME NEW k \in 1..(Len(undoLog[s]) + 1) PROVE undoLog'[s][k] >= j
      BY <2>4
    <3>1. k \in 1..Len(undoLog[s]) \/ k = Len(undoLog[s]) + 1
      BY <2>4
    <3> QED BY <2>2, <2>4, <3>1
  <2>6. \A k, l \in 1..Len(undoLog'[s]) : k < l => undoLog'[s][k] > undoLog'[s][l]
    <3> SUFFICES ASSUME NEW k \in 1..(Len(undoLog[s]) + 1), NEW l \in 1..(Len(undoLog[s]) + 1),
                        k < l
                 PROVE  undoLog'[s][k] > undoLog'[s][l]
      BY <2>4
    <3>1. k \in 1..Len(undoLog[s])
      BY <2>4
    <3>2. l \in 1..Len(undoLog[s]) \/ l = Len(undoLog[s]) + 1
      BY <2>4
    <3> QED BY <2>2, <2>4, <3>1, <3>2
  <2>7. \A i \in InEffect(s)' : i <= j /\ (i # j => step'[s][i] = "COMPLETED")
    <3> SUFFICES ASSUME NEW i \in callbacks[s], i # j,
                        st[i] \in {"EXECUTING", "COMPLETED", "COMPENSATING"}
                 PROVE  i <= j /\ st[i] = "COMPLETED"
      BY <1>0, <2>2, <2>3 DEF InEffect
    <3> QED BY <2>1 DEF Undoable
  <2> QED BY <2>3, <2>5, <2>6, <2>7 DEF Uncancelled
<1>2. CASE UndoFinished(s, "executor", n, st) /\ exec' = [exec EXCEPT ![s] = "done"]
  <2>1. /\ step'[s] = st
        /\ undoLog'[s] = undoLog[s]
        /\ undoing'[s]["canceller"] = 0
        /\ status'[s] = "COMPENSATED"
        /\ exec'[s] = "done"
    BY <1>0, <1>2 DEF UndoFinished, TypeOK
  <2>2. InEffect(s)' = {}
    <3>1. \A i \in callbacks[s] : ~(i <= n /\ st[i] = "COMPLETED")
      BY <1>2 DEF UndoFinished, Undoable
    <3> QED BY <1>0, <2>1, <3>1 DEF InEffect
  <2> QED BY <2>1, <2>2 DEF Uncancelled
<1> QED BY <1>1, <1>2 DEF ExecutorUnwinds

(* The executor is suspended in a callback exactly while the loop is not over. *)
LEMMA UnwindExecutor ==
  ASSUME TypeOK, NEW s \in Sagas, NEW n, NEW st, NEW now \in SagaStatus \ {"none"},
         ExecutorUnwinds(s, n, st, now),
         \A j \in Undoable(s, st, n) : j # 0
  PROVE  ExecutorShape(s)' /\ exec'[s] # "none" /\ status'[s] # "none"
<1>0. undoing[s] \in [Loops -> 0..NumSteps] /\ "executor" \in Loops
  BY DEF TypeOK, Loops
<1>1. CASE UndoNext(s, "executor", n, st, now) /\ exec' = [exec EXCEPT ![s] = "undoing"]
  <2>1. PICK j \in Undoable(s, st, n) :
          /\ undoing' = [undoing EXCEPT ![s]["executor"] = j]
          /\ status' = [status EXCEPT ![s] = now]
    BY <1>1 DEF UndoNext
  <2>2. undoing'[s]["executor"] = j /\ status'[s] = now /\ exec'[s] = "undoing"
    BY <1>0, <1>1, <2>1 DEF TypeOK
  <2> QED BY <2>2 DEF ExecutorShape
<1>2. CASE UndoFinished(s, "executor", n, st) /\ exec' = [exec EXCEPT ![s] = "done"]
  <2>1. undoing'[s]["executor"] = 0 /\ status'[s] = "COMPENSATED" /\ exec'[s] = "done"
    BY <1>0, <1>2 DEF UndoFinished, TypeOK
  <2> QED BY <2>1 DEF ExecutorShape
<1> QED BY <1>1, <1>2 DEF ExecutorUnwinds

-----------------------------------------------------------------------------
(* Every action keeps the inductive invariant. *)
LEMMA InvStep == IInv /\ [Next]_vars => IInv'
<1> SUFFICES ASSUME IInv, [Next]_vars PROVE IInv'
  OBVIOUS
<1> USE NumStepsAssumption
<1>0. TypeOK /\ TypeOK' /\ \A s \in Sagas : SagaInv(s)
  BY TypeStep DEF IInv
<1> SUFFICES ASSUME NEW t \in Sagas PROVE SagaInv(t)'
  BY <1>0 DEF IInv
<1>1. ASSUME NEW s \in Sagas, NEW c \in SUBSET Steps, StartSaga(s, c) PROVE SagaInv(t)'
  <2>1. CASE t # s
    <3>1. Frame(t)
      BY <1>0, <1>1, <2>1 DEF StartSaga, Frame, TypeOK
    <3> QED BY <1>0, <3>1, FrameInv
  <2>2. CASE t = s
    <3>1. /\ exec[s] = "none" /\ undoing[s]["executor"] = 0 /\ s \notin cancelled
          /\ undoLog[s] = <<>> /\ undoing[s]["canceller"] = 0
          /\ \A i \in Steps : step[s][i] = "PENDING"
      BY <1>0, <1>1 DEF StartSaga, SagaInv, ExecutorShape, Uncancelled
    <3>2. /\ exec'[s] = "ready" /\ status'[s] = "RUNNING" /\ s \in active'
          /\ step' = step /\ undoing' = undoing /\ undoLog' = undoLog
          /\ cancelled' = cancelled
      BY <1>0, <1>1 DEF StartSaga, TypeOK
    <3> QED
      BY <1>0, <2>2, <3>1, <3>2 DEF SagaInv, ExecutorShape, LogShape, Uncancelled
  <2> QED BY <2>1, <2>2
<1>2. ASSUME NEW s \in Sagas, BeginExecution(s) PROVE SagaInv(t)'
  <2>1. CASE t # s
    <3>1. Frame(t)
      BY <1>0, <1>2, <2>1 DEF BeginExecution, Frame, TypeOK
    <3> QED BY <1>0, <3>1, FrameInv
  <2>2. CASE t = s
    <3>1. /\ exec'[s] = "running" /\ status' = status /\ active' = active
          /\ cur'[s] = 1 /\ step'[s] = [step[s] EXCEPT ![1] = "EXECUTING"]
          /\ undoing' = undoing /\ undoLog' = undoLog /\ cancelled' = cancelled
          /\ step[s] \in [Steps -> SagaStepStatus] /\ 1 \in Steps
          /\ undoLog[s] \in Seq(Steps)
          /\ \A k \in 1..Len(undoLog[s]) : undoLog[s][k] \in Steps
      BY <1>0, <1>2 DEF BeginExecution, TypeOK, Steps
    <3>2. /\ exec[s] = "ready" /\ status[s] # "none"
          /\ \A i \in Steps : step[s][i] = "PENDING"
          /\ 1..Len(undoLog[s]) = {}
          /\ undoing[s]["executor"] = 0 /\ undoing[s]["canceller"] = 0
      <4>1. /\ exec[s] = "ready" /\ status[s] # "none"
            /\ \A i \in Steps : step[s][i] = "PENDING"
            /\ undoing[s]["executor"] = 0
        BY <1>0, <1>2 DEF BeginExecution, SagaInv, ExecutorShape
      <4>2. \A k \in 1..Len(undoLog[s]) : FALSE
        BY <1>0, <3>1, <4>1 DEF SagaInv, LogShape
      <4>3. undoing[s]["canceller"] = 0
        <5>1. undoing[s]["canceller"] \in 0..NumSteps /\ "canceller" \in Loops
          BY <1>0 DEF TypeOK, Loops
        <5>2. undoing[s]["canceller"] # 0 => undoing[s]["canceller"] \in Steps
          BY <5>1 DEF Steps
        <5> QED BY <1>0, <4>1, <5>1, <5>2 DEF SagaInv, LogShape
      <4> QED BY <4>1, <4>2, <4>3
    <3>3. ExecutorShape(s)'
      BY <3>1, <3>2 DEF ExecutorShape, Steps
    <3>4. LogShape(s)'
      BY <3>1, <3>2 DEF LogShape, Loops
    <3>5. s \notin cancelled => Uncancelled(s)'
      BY <1>0, <3>1, <3>2 DEF SagaInv, Uncancelled, Steps
    <3> QED
      BY <1>0, <2>2, <3>1, <3>2, <3>3, <3>4, <3>5 DEF SagaInv
  <2> QED BY <2>1, <2>2
<1>3. ASSUME NEW s \in Sagas, StepSucceeds(s) PROVE SagaInv(t)'
  <2>1. CASE t # s
    <3>1. Frame(t)
      BY <1>0, <1>3, <2>1 DEF StepSucceeds, Frame, TypeOK
    <3> QED BY <1>0, <3>1, FrameInv
  <2>2. CASE t = s
    <3>0. /\ exec[s] = "running" /\ status[s] # "none" /\ cur[s] \in Steps
          /\ step[s] \in [Steps -> SagaStepStatus] /\ step[s][cur[s]] = "EXECUTING"
          /\ \A i \in Steps : i > cur[s] => step[s][i] = "PENDING"
          /\ undoing[s]["executor"] = 0
          /\ undoing[s] \in [Loops -> 0..NumSteps]
      BY <1>0, <1>3 DEF StepSucceeds, SagaInv, ExecutorShape, TypeOK
    <3>1. /\ undoing' = undoing /\ undoLog' = undoLog /\ cancelled' = cancelled
          /\ active' = active /\ callbacks' = callbacks
      BY <1>3 DEF StepSucceeds
    <3>2. /\ \A k \in 1..Len(undoLog[s]) : undoLog[s][k] \in Steps /\ undoLog[s][k] < cur[s]
          /\ \A w \in Loops : undoing[s][w] # 0 =>
               undoing[s][w] \in Steps /\ undoing[s][w] < cur[s]
      <4>1. \A i \in Steps : step[s][i] \notin {"EXECUTING", "PENDING"} => i < cur[s]
        BY <3>0 DEF Steps
      <4>2. \A k \in 1..Len(undoLog[s]) : undoLog[s][k] \in Steps
        BY <1>0 DEF TypeOK
      <4>3. \A w \in Loops : undoing[s][w] # 0 => undoing[s][w] \in Steps
        BY <3>0 DEF Steps
      <4> QED BY <1>0, <4>1, <4>2, <4>3 DEF SagaInv, LogShape
    <3>3. /\ step'[s] \in [Steps -> SagaStepStatus]
          /\ step'[s][cur[s]] = "COMPLETED"
          /\ \A i \in Steps : i < cur[s] => step'[s][i] = step[s][i]
      <4>1. CASE cur[s] < NumSteps
        <5>1. step'[s] = [step[s] EXCEPT ![cur[s]] = "COMPLETED", ![cur[s] + 1] = "EXECUTING"]
          BY <1>0, <1>3, <3>0, <4>1 DEF StepSucceeds, TypeOK, Steps
        <5>2. cur[s] + 1 \in Steps /\ cur[s] + 1 # cur[s] /\ cur[s] \in Int
          BY <3>0, <4>1 DEF Steps
        <5>3. \A i \in Steps : i < cur[s] => i # cur[s] /\ i # cur[s] + 1
          BY <3>0 DEF Steps
        <5> QED BY <3>0, <5>1, <5>2, <5>3 DEF SagaStepStatus
      <4>2. CASE cur[s] = NumSteps
        <5>1. step'[s] = [step[s] EXCEPT ![cur[s]] = "COMPLETED"]
          BY <1>0, <1>3, <3>0, <4>2 DEF StepSucceeds, TypeOK, Steps
        <5>2. \A i \in Steps : i < cur[s] => i # cur[s]
          BY <3>0 DEF Steps
        <5> QED BY <3>0, <5>1, <5>2 DEF SagaStepStatus
      <4> QED BY <1>3, <4>1, <4>2 DEF StepSucceeds
    <3>4. LogShape(s)'
      BY <1>0, <3>1, <3>2, <3>3 DEF SagaInv, LogShape
    <3>5. CASE cur[s] < NumSteps
      <4>1. /\ cur'[s] = cur[s] + 1 /\ status' = status /\ exec' = exec
            /\ cur[s] + 1 \in Steps
            /\ step'[s][cur[s] + 1] = "EXECUTING"
            /\ \A i \in Steps : i > cur[s] + 1 => step'[s][i] = step[s][i]
        <5>1. /\ step'[s] = [step[s] EXCEPT ![cur[s]] = "COMPLETED",
                                            ![cur[s] + 1] = "EXECUTING"]
              /\ cur'[s] = cur[s] + 1 /\ status' = status /\ exec' = exec
          BY <1>0, <1>3, <3>0, <3>5 DEF StepSucceeds, TypeOK, Steps
        <5>2. cur[s] + 1 \in Steps
          BY <3>0, <3>5 DEF Steps
        <5>3. \A i \in Steps : i > cur[s] + 1 => i # cur[s] /\ i # cur[s] + 1
          BY <3>0 DEF Steps
        <5> QED BY <3>0, <5>1, <5>2, <5>3
      <4>2. ExecutorShape(s)'
        BY <3>0, <3>1, <4>1 DEF ExecutorShape, Steps
      <4>3. s \notin cancelled => Uncancelled(s)'
        BY <1>0, <3>0, <3>1, <3>3, <4>1 DEF SagaInv, Uncancelled, Steps
      <4> QED
        BY <1>0, <2>2, <3>0, <3>1, <3>4, <4>1, <4>2, <4>3 DEF SagaInv
    <3>6. CASE cur[s] = NumSteps
      <4>1. status'[s] = "COMPLETED" /\ exec'[s] = "done"
        BY <1>0, <1>3, <3>0, <3>6 DEF StepSucceeds, TypeOK, Steps
      <4>2. ExecutorShape(s)'
        BY <3>0, <3>1, <4>1 DEF ExecutorShape
      <4>3. s \notin cancelled => Uncancelled(s)'
        <5> HAVE s \notin cancelled
        <5>1. \A i \in Steps : step'[s][i] = "COMPLETED"
          BY <1>0, <3>0, <3>3, <3>6 DEF SagaInv, Uncancelled, Steps
        <5> QED
          BY <1>0, <3>0, <3>1, <4>1, <5>1 DEF SagaInv, Uncancelled
      <4> QED
        BY <1>0, <2>2, <3>0, <3>1, <3>4, <4>1, <4>2, <4>3 DEF SagaInv
    <3> QED BY <1>3, <3>5, <3>6 DEF StepSucceeds
  <2> QED BY <2>1, <2>2
<1>4. ASSUME NEW s \in Sagas, StepFails(s) PROVE SagaInv(t)'
  <2> DEFINE st == [step[s] EXCEPT ![cur[s]] = "FAILED"]
  <2>1. CASE t # s
    <3>1. Frame(t)
      BY <1>0, <1>4, <2>1
      DEF StepFails, ExecutorUnwinds, UndoNext, UndoFinished, Frame, TypeOK
    <3> QED BY <1>0, <3>1, FrameInv
  <2>2. CASE t = s
    <3>0. /\ exec[s] = "running" /\ status[s] # "none" /\ cur[s] \in Steps
          /\ cur[s] \in 0..NumSteps
          /\ step[s] \in [Steps -> SagaStepStatus] /\ step[s][cur[s]] = "EXECUTING"
          /\ \A i \in Steps : i > cur[s] => step[s][i] = "PENDING"
          /\ st \in [Steps -> SagaStepStatus]
          /\ callbacks[s] \subseteq Steps
          /\ undoing[s] \in [Loops -> 0..NumSteps]
          /\ \A k \in 1..Len(undoLog[s]) : undoLog[s][k] \in Steps
      BY <1>0, <1>4 DEF StepFails, SagaInv, ExecutorShape, TypeOK, SagaStepStatus, Steps
    <3>1. /\ ExecutorUnwinds(s, cur[s], st, "COMPENSATING")
          /\ UNCHANGED <<active, callbacks, cur, cancelled>>
      BY <1>4 DEF StepFails
    <3>2. FitsLog(s, st, undoing[s]["canceller"])
      <4>1. undoing[s]["canceller"] # 0 => undoing[s]["canceller"] \in Steps
        BY <3>0 DEF Loops, Steps
      <4> QED BY <1>0, <3>0, <4>1 DEF SagaInv, LogShape, FitsLog, Loops
    <3> HIDE DEF st
    <3>3. LogShape(s)'
      <4>1. \/ UndoNext(s, "executor", cur[s], st, "COMPENSATING")
            \/ UndoFinished(s, "executor", cur[s], st)
        BY <3>1 DEF ExecutorUnwinds
      <4> QED BY <1>0, <3>0, <3>2, <4>1, UnwindLog DEF Loops, SagaStatus
    <3>4. ExecutorShape(s)' /\ exec'[s] # "none" /\ status'[s] # "none"
      <4>1. \A j \in Undoable(s, st, cur[s]) : j # 0
        BY <3>0 DEF Undoable, Steps
      <4> QED BY <1>0, <3>0, <3>1, <4>1, UnwindExecutor DEF SagaStatus
    <3>5. s \notin cancelled => Uncancelled(s)'
      <4> HAVE s \notin cancelled
      <4>1. undoing[s]["canceller"] = 0 /\ undoLog[s] = <<>> /\ s \in active
        BY <1>0, <3>0 DEF SagaInv, Uncancelled
      <4>2. \A i \in callbacks[s] : st[i] \in {"EXECUTING", "COMPLETED", "COMPENSATING"}
                                      => i <= cur[s] /\ st[i] = "COMPLETED"
        <5> SUFFICES ASSUME NEW i \in Steps,
                            st[i] \in {"EXECUTING", "COMPLETED", "COMPENSATING"}
                     PROVE  i <= cur[s] /\ st[i] = "COMPLETED"
          BY <3>0
        <5>1. i # cur[s] /\ st[i] = step[s][i]
          BY <3>0 DEF st
        <5>2. i < cur[s]
          BY <3>0, <5>1 DEF Steps
        <5> QED BY <1>0, <3>0, <5>1, <5>2 DEF SagaInv, Uncancelled, Steps
      <4> QED BY <1>0, <3>0, <3>1, <4>1, <4>2, UnwindUncancelled
    <3> QED BY <1>0, <2>2, <3>0, <3>1, <3>3, <3>4, <3>5 DEF SagaInv
  <2> QED BY <2>1, <2>2
<1>5. ASSUME NEW s \in Sagas, NEW ok \in BOOLEAN, CompensationReturns(s, "executor", ok)
      PROVE  SagaInv(t)'
  <2> DEFINE i == undoing[s]["executor"]
             st == [step[s] EXCEPT ![i] = IF ok THEN "COMPENSATED" ELSE "FAILED"]
  <2>0. /\ i > 0 /\ ExecutorUnwinds(s, i - 1, st, status[s])
        /\ UNCHANGED <<active, callbacks, cur, cancelled>>
    BY <1>5 DEF CompensationReturns
  <2>1. CASE t # s
    <3>1. Frame(t)
      BY <1>0, <2>0, <2>1 DEF ExecutorUnwinds, UndoNext, UndoFinished, Frame, TypeOK
    <3> QED BY <1>0, <3>1, FrameInv
  <2>2. CASE t = s
    <3>1. /\ i \in Steps /\ i \in Int /\ i - 1 \in 0..NumSteps
          /\ step[s] \in [Steps -> SagaStepStatus]
          /\ callbacks[s] \subseteq Steps
          /\ undoing[s] \in [Loops -> 0..NumSteps]
          /\ "executor" \in Loops /\ "canceller" \in Loops
          /\ undoLog[s] \in Seq(Steps)
      <4>1. /\ step[s] \in [Steps -> SagaStepStatus]
            /\ callbacks[s] \subseteq Steps
            /\ undoing[s] \in [Loops -> 0..NumSteps]
            /\ "executor" \in Loops /\ "canceller" \in Loops
            /\ undoLog[s] \in Seq(Steps)
        BY <1>0 DEF TypeOK, Loops
      <4>2. i \in 0..NumSteps
        BY <4>1
      <4> QED BY <2>0, <4>1, <4>2 DEF Steps
    <3>2. st \in [Steps -> SagaStepStatus]
      BY <3>1 DEF SagaStepStatus
    <3>3. exec[s] = "undoing" /\ status[s] \in SagaStatus \ {"none"}
      <4>1. i # 0
        BY <2>0, <3>1
      <4>2. exec[s] = "undoing"
        BY <1>0, <4>1 DEF SagaInv, ExecutorShape
      <4> QED BY <1>0, <4>2 DEF SagaInv, ExecutorShape, TypeOK
    <3>4. \A k \in 1..Len(undoLog[s]) : undoLog[s][k] \in Steps
      BY <3>1
    <3>5. FitsLog(s, st, undoing[s]["canceller"])
      <4>1. undoing[s]["canceller"] # 0 =>
              undoing[s]["canceller"] \in Steps /\ undoing[s]["canceller"] # i
        BY <1>0, <2>0, <3>1 DEF SagaInv, LogShape, Steps
      <4> QED BY <1>0, <3>1, <3>4, <4>1 DEF SagaInv, LogShape, FitsLog
    <3>6. s \notin cancelled =>
            \A j \in callbacks[s] : st[j] \in {"EXECUTING", "COMPLETED", "COMPENSATING"}
                                      => j <= i - 1 /\ st[j] = "COMPLETED"
      <4> HAVE s \notin cancelled
      <4> SUFFICES ASSUME NEW j \in callbacks[s],
                          st[j] \in {"EXECUTING", "COMPLETED", "COMPENSATING"}
                   PROVE  j <= i - 1 /\ st[j] = "COMPLETED"
        OBVIOUS
      <4>1. j # i /\ st[j] = step[s][j] /\ j \in Steps
        BY <3>1
      <4>2. j <= i - 1
        BY <1>0, <3>1, <3>3, <4>1 DEF SagaInv, Uncancelled, InEffect, Steps
      <4>3. step[s][j] = "COMPLETED"
        BY <1>0, <3>3, <4>1 DEF SagaInv, Uncancelled, InEffect
      <4> QED BY <4>1, <4>2, <4>3
    <3> HIDE DEF st
    <3>7. LogShape(s)'
      <4>1. UndoNext(s, "executor", i - 1, st, status[s]) \/ UndoFinished(s, "executor", i - 1, st)
        BY <2>0 DEF ExecutorUnwinds
      <4> QED BY <1>0, <3>1, <3>2, <3>3, <3>5, <4>1, UnwindLog DEF Loops
    <3>8. ExecutorShape(s)' /\ exec'[s] # "none" /\ status'[s] # "none"
      <4>1. \A j \in Undoable(s, st, i - 1) : j # 0
        BY <3>1 DEF Undoable, Steps
      <4> QED BY <1>0, <2>0, <3>3, <4>1, UnwindExecutor
    <3>9. s \notin cancelled => Uncancelled(s)'
      <4> HAVE s \notin cancelled
      <4>1. /\ undoing[s]["canceller"] = 0 /\ s \in active /\ status[s] = "COMPENSATING"
            /\ \A k \in 1..Len(undoLog[s]) : undoLog[s][k] > i - 1
            /\ \A k, l \in 1..Len(undoLog[s]) : k < l => undoLog[s][k] > undoLog[s][l]
        BY <1>0, <3>1, <3>3, <3>4 DEF SagaInv, Uncancelled, Steps
      <4> QED BY <1>0, <2>0, <3>1, <3>2, <3>6, <4>1, UnwindUncancelled
    <3> QED BY <1>0, <2>0, <2>2, <3>7, <3>8, <3>9 DEF SagaInv
  <2> QED BY <2>1, <2>2
<1>6. ASSUME NEW s \in Sagas, NEW n \in 0..NumSteps, NEW st \in [Steps -> SagaStepStatus],
             NEW now \in SagaStatus \ {"none"}, CancellerUnwinds(s, n, st, now),
             UNCHANGED <<active, callbacks, cur>>, cancelled' = cancelled \cup {s},
             exec[s] # "none", FitsLog(s, st, undoing[s]["executor"]),
             exec[s] = "ready" => st = step[s] /\ Undoable(s, st, n) = {},
             \A i \in Steps : step[s][i] \in {"EXECUTING", "PENDING"} => st[i] = step[s][i]
      PROVE  SagaInv(t)'
  <2>1. CASE t # s
    <3>1. Frame(t)
      BY <1>0, <1>6, <2>1 DEF CancellerUnwinds, UndoNext, UndoFinished, Frame, TypeOK
    <3> QED BY <1>0, <3>1, FrameInv
  <2>2. CASE t = s
    <3>1. UndoNext(s, "canceller", n, st, now) \/ UndoFinished(s, "canceller", n, st)
      BY <1>6 DEF CancellerUnwinds
    <3>2. LogShape(s)'
      BY <1>0, <1>6, <3>1, UnwindLog DEF Loops
    <3>3. /\ exec' = exec /\ cur' = cur /\ status'[s] # "none"
          /\ undoing'[s]["executor"] = undoing[s]["executor"]
      <4>1. \E j : undoing' = [undoing EXCEPT ![s]["canceller"] = j]
        BY <3>1 DEF UndoNext, UndoFinished
      <4>2. undoing'[s]["executor"] = undoing[s]["executor"]
        BY <1>0, <4>1 DEF TypeOK, Loops
      <4>3. status'[s] # "none"
        BY <1>0, <1>6, <3>1 DEF UndoNext, UndoFinished, TypeOK
      <4> QED BY <1>6, <4>2, <4>3 DEF CancellerUnwinds
    <3>4. /\ \A i \in Steps : step[s][i] \in {"EXECUTING", "PENDING"} => step'[s][i] = step[s][i]
          /\ exec[s] = "ready" => step'[s] = step[s]
      BY <1>0, <1>6, <3>1 DEF UndoNext, UndoFinished, Undoable, TypeOK
    <3>5. ExecutorShape(s)'
      BY <1>0, <1>6, <3>3, <3>4 DEF SagaInv, ExecutorShape, TypeOK
    <3> QED BY <1>0, <1>6, <2>2, <3>2, <3>3, <3>5 DEF SagaInv
  <2> QED BY <2>1, <2>2
<1>7. ASSUME NEW s \in Sagas, NEW ok \in BOOLEAN, CompensationReturns(s, "canceller", ok)
      PROVE  SagaInv(t)'
  <2> DEFINE i == undoing[s]["canceller"]
             st == [step[s] EXCEPT ![i] = IF ok THEN "COMPENSATED" ELSE "FAILED"]
  <2>1. /\ i > 0 /\ CancellerUnwinds(s, i - 1, st, status[s])
        /\ UNCHANGED <<active, callbacks, cur, cancelled>>
    BY <1>7 DEF CompensationReturns
  <2>2. /\ i \in Steps /\ i - 1 \in 0..NumSteps /\ i # 0
        /\ step[s] \in [Steps -> SagaStepStatus]
        /\ undoing[s] \in [Loops -> 0..NumSteps]
        /\ "executor" \in Loops /\ "canceller" \in Loops
        /\ undoLog[s] \in Seq(Steps)
    <3>1. /\ step[s] \in [Steps -> SagaStepStatus]
          /\ undoing[s] \in [Loops -> 0..NumSteps]
          /\ "executor" \in Loops /\ "canceller" \in Loops
          /\ undoLog[s] \in Seq(Steps)
      BY <1>0 DEF TypeOK, Loops
    <3>2. i \in 0..NumSteps
      BY <3>1
    <3> QED BY <2>1, <3>1, <3>2 DEF Steps
  <2>3. st \in [Steps -> SagaStepStatus]
    BY <2>2 DEF SagaStepStatus
  <2>4. step[s][i] = "COMPENSATING"
    BY <1>0, <2>2 DEF SagaInv, LogShape
  <2>5. /\ exec[s] # "none" /\ exec[s] # "ready" /\ status[s] \in SagaStatus \ {"none"}
        /\ s \in cancelled
    BY <1>0, <2>2, <2>4 DEF SagaInv, ExecutorShape, Uncancelled, TypeOK
  <2>6. FitsLog(s, st, undoing[s]["executor"])
    <3>1. undoing[s]["executor"] # 0 =>
            undoing[s]["executor"] \in Steps /\ undoing[s]["executor"] # i
      BY <1>0, <2>2 DEF SagaInv, LogShape, Steps
    <3>2. \A k \in 1..Len(undoLog[s]) : undoLog[s][k] \in Steps
      BY <2>2
    <3> QED BY <1>0, <2>2, <3>1, <3>2 DEF SagaInv, LogShape, FitsLog
  <2>7. /\ \A j \in Steps : step[s][j] \in {"EXECUTING", "PENDING"} => st[j] = step[s][j]
        /\ cancelled' = cancelled \cup {s}
    BY <2>1, <2>2, <2>4, <2>5
  <2> HIDE DEF st, i
  <2> QED BY <1>6, <2>1, <2>2, <2>3, <2>5, <2>6, <2>7
<1>8. ASSUME NEW s \in Sagas, CancelSaga(s) PROVE SagaInv(t)'
  <2>1. /\ step[s] \in [Steps -> SagaStepStatus] /\ cur[s] \in 0..NumSteps
        /\ undoing[s] \in [Loops -> 0..NumSteps]
        /\ "executor" \in Loops /\ "COMPENSATING" \in SagaStatus \ {"none"}
        /\ undoLog[s] \in Seq(Steps) /\ callbacks[s] \subseteq Steps
    <3>1. /\ step[s] \in [Steps -> SagaStepStatus] /\ cur[s] \in Steps
          /\ undoing[s] \in [Loops -> 0..NumSteps]
          /\ "executor" \in Loops
          /\ undoLog[s] \in Seq(Steps) /\ callbacks[s] \subseteq Steps
      BY <1>0 DEF TypeOK, Loops
    <3>2. cur[s] \in 0..NumSteps
      BY <3>1 DEF Steps
    <3> QED BY <3>1, <3>2 DEF SagaStatus
  <2>2. exec[s] # "none" /\ FitsLog(s, step[s], undoing[s]["executor"])
    BY <1>0, <1>8, <2>1 DEF CancelSaga, SagaInv, ExecutorShape, LogShape, FitsLog
  <2>3. exec[s] = "ready" => Undoable(s, step[s], cur[s]) = {}
    BY <1>0, <2>1 DEF SagaInv, ExecutorShape, Undoable
  <2>4. /\ CancellerUnwinds(s, cur[s], step[s], "COMPENSATING")
        /\ UNCHANGED <<active, callbacks, cur>> /\ cancelled' = cancelled \cup {s}
    BY <1>8 DEF CancelSaga
  <2> QED BY <1>6, <2>1, <2>2, <2>3, <2>4
<1>9. ASSUME NEW old \in SUBSET active, CleanupCompletedSagas(old) PROVE SagaInv(t)'
  <2>1. CASE t \notin old
    <3>1. Frame(t)
      BY <1>9, <2>1 DEF CleanupCompletedSagas, Frame
    <3> QED BY <1>0, <3>1, FrameInv
  <2>2. CASE t \in old
    <3>1. /\ status[t] \in Terminal /\ t \notin active'
          /\ UNCHANGED <<status, step, callbacks, cur, exec, undoing, undoLog, cancelled>>
      BY <1>9, <2>2 DEF CleanupCompletedSagas
    <3>2. exec[t] \in ExecStates
      BY <1>0 DEF TypeOK
    <3>3. t \notin cancelled => exec[t] = "done"
      BY <1>0, <3>1, <3>2 DEF SagaInv, ExecutorShape, Uncancelled, Terminal, ExecStates
    <3> QED
      BY <1>0, <3>1, <3>3
      DEF SagaInv, ExecutorShape, LogShape, Uncancelled, InEffect, Terminal
  <2> QED BY <2>1, <2>2
<1>10. CASE UNCHANGED vars
  <2>1. Frame(t)
    BY <1>10 DEF vars, Frame
  <2> QED BY <1>0, <2>1, FrameInv
<1> QED
  BY <1>1, <1>2, <1>3, <1>4, <1>5, <1>7, <1>8, <1>9, <1>10 DEF Next, Executor, Loops

-----------------------------------------------------------------------------
(* The inductive invariant holds initially. *)
LEMMA InvInit == Init => IInv
<1> SUFFICES ASSUME Init PROVE IInv
  OBVIOUS
<1>1. TypeOK
  BY NumStepsAssumption
  DEF Init, TypeOK, SagaStatus, SagaStepStatus, ExecStates, Steps, Loops
<1>2. ASSUME NEW s \in Sagas PROVE SagaInv(s)
  BY DEF Init, SagaInv, ExecutorShape, LogShape, Uncancelled, Loops
<1> QED BY <1>1, <1>2 DEF IInv

(* The inductive invariant holds throughout every behaviour of the manager. *)
LEMMA Inductive == Spec => []IInv
  BY InvInit, InvStep, PTL DEF Spec

(* No step is ever undone twice, whatever the interleaving of the executor and
   a concurrent cancel_saga. *)
THEOREM UndoSafety == Spec => []UndoneAtMostOnce
<1>1. IInv => UndoneAtMostOnce
  BY DEF IInv, SagaInv, LogShape, UndoneAtMostOnce, TypeOK
<1> QED BY <1>1, Inductive, PTL

(* A saga nobody cancels is undone in reverse order, settles all-or-nothing and
   is not forgotten while its task runs. *)
THEOREM SagaSafety ==
  Spec => [](UndoIsReverseOrder /\ SettledConsistently /\ ForgottenSagasAreIdle)
<1>1. IInv => UndoIsReverseOrder
  <2> SUFFICES ASSUME IInv, NEW s \in Sagas, s \notin cancelled,
                      NEW k \in DOMAIN undoLog[s], NEW l \in DOMAIN undoLog[s], k < l
               PROVE  undoLog[s][k] > undoLog[s][l]
    BY DEF UndoIsReverseOrder
  <2>1. DOMAIN undoLog[s] = 1..Len(undoLog[s])
    BY DEF IInv, TypeOK
  <2> QED BY <2>1 DEF IInv, SagaInv, Uncancelled
<1>2. IInv => SettledConsistently /\ ForgottenSagasAreIdle
  <2> SUFFICES ASSUME IInv, NEW s \in Sagas, s \notin cancelled
               PROVE /\ status[s] = "COMPLETED" =>
                          /\ \A i \in Steps : step[s][i] = "COMPLETED"
                          /\ undoLog[s] = <<>>
                     /\ status[s] = "COMPENSATED" => InEffect(s) = {}
                     /\ status[s] # "none" /\ s \notin active => exec[s] = "done"
    BY DEF SettledConsistently, ForgottenSagasAreIdle
  <2>1. exec[s] \in ExecStates /\ SagaInv(s)
    BY DEF IInv, TypeOK
  <2> QED BY <2>1 DEF SagaInv, ExecutorShape, Uncancelled, ExecStates
<1> QED BY <1>1, <1>2, Inductive, PTL

(* A settled saga that is not cancelled stays as it is. *)
THEOREM SettledForGood == Spec => SettledIsFinal
<1>1. IInv /\ [Next]_vars =>
        [\A s \in Sagas \ cancelled' :
           status[s] \in Terminal => status'[s] = status[s] /\ step'[s] = step[s]]_vars
  <2> SUFFICES ASSUME IInv, Next, NEW t \in Sagas, t \notin cancelled',
                      status[t] \in Terminal
               PROVE  status'[t] = status[t] /\ step'[t] = step[t]
    OBVIOUS
  <2>0. TypeOK /\ SagaInv(t)
    BY DEF IInv
  <2>1. t \notin cancelled =>
          exec[t] = "done" /\ undoing[t]["executor"] = 0 /\ undoing[t]["canceller"] = 0
    BY <2>0 DEF SagaInv, ExecutorShape, Uncancelled, Terminal, TypeOK, ExecStates
  <2>2. ASSUME NEW s \in Sagas, NEW c \in SUBSET Steps, StartSaga(s, c)
        PROVE  status'[t] = status[t] /\ step'[t] = step[t]
    BY <2>0, <2>2 DEF StartSaga, Terminal, TypeOK
  <2>3. ASSUME NEW s \in Sagas, BeginExecution(s)
        PROVE  status'[t] = status[t] /\ step'[t] = step[t]
    BY <2>0, <2>1, <2>3 DEF BeginExecution, TypeOK
  <2>4. ASSUME NEW s \in Sagas, StepSucceeds(s)
        PROVE  status'[t] = status[t] /\ step'[t] = step[t]
    BY <2>0, <2>1, <2>4 DEF StepSucceeds, TypeOK
  <2>5. ASSUME NEW s \in Sagas, StepFails(s)
        PROVE  status'[t] = status[t] /\ step'[t] = step[t]
    BY <2>0, <2>1, <2>5 DEF StepFails, ExecutorUnwinds, UndoNext, UndoFinished, TypeOK
  <2>6. ASSUME NEW s \in Sagas, NEW w \in Loops, NEW ok \in BOOLEAN, CompensationReturns(s, w, ok)
        PROVE  status'[t] = status[t] /\ step'[t] = step[t]
    <3>1. t \notin cancelled
      BY <2>6 DEF CompensationReturns
    <3>2. s # t
      BY <2>1, <2>6, <3>1 DEF CompensationReturns, Loops
    <3>3. \E n, st, now : UndoNext(s, w, n, st, now) \/ UndoFinished(s, w, n, st)
      BY <2>6 DEF CompensationReturns, ExecutorUnwinds, CancellerUnwinds
    <3> QED BY <2>0, <3>2, <3>3 DEF UndoNext, UndoFinished, TypeOK
  <2>7. ASSUME NEW s \in Sagas, CancelSaga(s)
        PROVE  status'[t] = status[t] /\ step'[t] = step[t]
    BY <2>0, <2>7 DEF CancelSaga, CancellerUnwinds, UndoNext, UndoFinished, TypeOK
  <2>8. ASSUME NEW old \in SUBSET active, CleanupCompletedSagas(old)
        PROVE  status'[t] = status[t] /\ step'[t] = step[t]
    BY <2>8 DEF CleanupCompletedSagas
  <2> QED BY <2>2, <2>3, <2>4, <2>5, <2>6, <2>7, <2>8 DEF Next, Executor
<1> QED BY <1>1, Inductive, PTL DEF Spec, SettledIsFinal

-----------------------------------------------------------------------------
(* The counters of get_statistics. *)

Forward == {s \in active : status[s] = "RUNNING"}
Backward == {s \in active : status[s] = "COMPENSATING"}

\* StatisticsAddUp, with the finiteness that makes sizes meaningful when the
\* set of saga ids is not finite.
Tallies ==
  /\ IsFiniteSet(Forward) /\ IsFiniteSet(Backward)
  /\ total = completed + compensated + Cardinality(Forward) + Cardinality(Backward)
  /\ failed = compensated + Cardinality(Backward)

(* A saga leaves the finite set S. *)
LEMMA OneLess ==
  ASSUME NEW S, NEW x \in S, IsFiniteSet(S)
  PROVE  /\ IsFiniteSet(S \ {x}) /\ Cardinality(S \ {x}) = Cardinality(S) - 1
         /\ Cardinality(S) \in Nat \ {0}
<1>1. Cardinality(S) \in Nat /\ Cardinality(S) # 0
  BY FS_CardinalityType, FS_EmptySet
<1>2. IsFiniteSet(S \ {x}) /\ Cardinality(S \ {x}) = Cardinality(S) - 1
  BY FS_RemoveElement
<1> QED BY <1>1, <1>2

(* A saga joins the finite set S. *)
LEMMA OneMore ==
  ASSUME NEW S, NEW x, x \notin S, IsFiniteSet(S)
  PROVE  /\ IsFiniteSet(S \cup {x}) /\ Cardinality(S \cup {x}) = Cardinality(S) + 1
         /\ Cardinality(S) \in Nat
  BY FS_AddElement, FS_CardinalityType

(* A saga whose executor works forward is registered and RUNNING, one whose
   executor compensates is registered and COMPENSATING. *)
LEMMA UnderWay ==
  ASSUME IInv, NEW s \in Sagas, s \notin cancelled
  PROVE  /\ exec[s] \in {"ready", "running"} => s \in Forward /\ s \notin Backward
         /\ undoing[s]["executor"] > 0 => s \in Backward /\ s \notin Forward
         /\ undoing[s]["canceller"] = 0
         /\ status[s] = "none" => s \notin active
<1>1. SagaInv(s) /\ undoing[s]["executor"] \in 0..NumSteps
  BY DEF IInv, TypeOK, Loops
<1>2. undoing[s]["executor"] > 0 => undoing[s]["executor"] # 0
  BY <1>1, NumStepsAssumption
<1> QED BY <1>1, <1>2 DEF SagaInv, ExecutorShape, Uncancelled, Forward, Backward

(* While nobody cancels, every action keeps the counters and the registry in
   step: a saga that changes sides changes both in the same action. *)
LEMMA TalliesStep ==
  ASSUME IInv, [Next]_vars, cancelled' = {}, Tallies
  PROVE  Tallies'
<1>0. /\ TypeOK /\ cancelled = {}
      /\ total \in Nat /\ completed \in Nat /\ compensated \in Nat /\ failed \in Nat
      /\ Cardinality(Forward) \in Nat /\ Cardinality(Backward) \in Nat
      /\ status \in [Sagas -> SagaStatus] /\ active \subseteq Sagas
  <2>1. cancelled \subseteq cancelled'
    BY DEF Next, vars, StartSaga, Executor, BeginExecution, StepSucceeds, StepFails,
           CompensationReturns, CancelSaga, CleanupCompletedSagas
  <2> QED BY <2>1, FS_CardinalityType DEF IInv, TypeOK, Tallies
<1>a. /\ IsFiniteSet(Forward) /\ IsFiniteSet(Backward)
      /\ total = completed + compensated + Cardinality(Forward) + Cardinality(Backward)
      /\ failed = compensated + Cardinality(Backward)
  BY DEF Tallies
<1>1. ASSUME NEW s \in Sagas, NEW c \in SUBSET Steps, StartSaga(s, c) PROVE Tallies'
  <2>1. /\ status[s] = "none" /\ s \notin active
        /\ active' = active \cup {s} /\ status' = [status EXCEPT ![s] = "RUNNING"]
        /\ total' = total + 1 /\ UNCHANGED <<completed, compensated, failed>>
    BY <1>0, <1>1, UnderWay DEF StartSaga
  <2>2. Forward' = Forward \cup {s} /\ s \notin Forward /\ Backward' = Backward
    BY <1>0, <2>1 DEF Forward, Backward
  <2>3. IsFiniteSet(Forward') /\ Cardinality(Forward') = Cardinality(Forward) + 1
    BY <1>a, <2>2, OneMore
  <2> QED BY <1>0, <1>a, <2>1, <2>2, <2>3 DEF Tallies
<1>2. ASSUME NEW s \in Sagas, BeginExecution(s) PROVE Tallies'
  BY <1>2, <1>a DEF BeginExecution, counters, Tallies, Forward, Backward
<1>3. ASSUME NEW s \in Sagas, StepSucceeds(s) PROVE Tallies'
  <2>1. CASE UNCHANGED <<status, exec, completed>>
    BY <1>3, <1>a, <2>1 DEF StepSucceeds, Tallies, Forward, Backward
  <2>2. CASE status' = [status EXCEPT ![s] = "COMPLETED"] /\ completed' = completed + 1
    <3>1. s \in Forward /\ s \notin Backward /\ UNCHANGED <<active, total, compensated, failed>>
      BY <1>0, <1>3, UnderWay DEF StepSucceeds
    <3>2. Forward' = Forward \ {s} /\ Backward' = Backward
      BY <1>0, <2>2, <3>1 DEF Forward, Backward
    <3>3. /\ IsFiniteSet(Forward') /\ Cardinality(Forward') = Cardinality(Forward) - 1
          /\ Cardinality(Forward) \in Nat \ {0}
      BY <1>a, <3>1, <3>2, OneLess
    <3>4. completed' = completed + 1
      BY <2>2
    <3> QED BY <1>0, <1>a, <3>1, <3>2, <3>3, <3>4 DEF Tallies
  <2> QED BY <1>3, <2>1, <2>2 DEF StepSucceeds
<1>4. ASSUME NEW s \in Sagas, StepFails(s) PROVE Tallies'
  <2>1. /\ s \in Forward /\ s \notin Backward /\ failed' = failed + 1
        /\ UNCHANGED <<active, total, completed>>
    BY <1>0, <1>4, UnderWay DEF StepFails
  <2>2. /\ IsFiniteSet(Forward \ {s}) /\ Cardinality(Forward \ {s}) = Cardinality(Forward) - 1
        /\ Cardinality(Forward) \in Nat \ {0}
        /\ IsFiniteSet(Backward \cup {s})
        /\ Cardinality(Backward \cup {s}) = Cardinality(Backward) + 1
    BY <1>a, <2>1, OneLess, OneMore
  <2>3. CASE status' = [status EXCEPT ![s] = "COMPENSATING"] /\ compensated' = compensated
    <3>1. Forward' = Forward \ {s} /\ Backward' = Backward \cup {s}
      BY <1>0, <2>1, <2>3 DEF Forward, Backward
    <3> QED BY <1>0, <1>a, <2>1, <2>2, <2>3, <3>1 DEF Tallies
  <2>4. CASE status' = [status EXCEPT ![s] = "COMPENSATED"] /\ compensated' = compensated + 1
    <3>1. Forward' = Forward \ {s} /\ Backward' = Backward
      BY <1>0, <2>1, <2>4 DEF Forward, Backward
    <3>2. compensated' = compensated + 1
      BY <2>4
    <3> QED BY <1>0, <1>a, <2>1, <2>2, <3>1, <3>2 DEF Tallies
  <2> QED BY <1>4, <2>3, <2>4 DEF StepFails, ExecutorUnwinds, UndoNext, UndoFinished
<1>5. ASSUME NEW s \in Sagas, NEW w \in Loops, NEW ok \in BOOLEAN, CompensationReturns(s, w, ok)
      PROVE  Tallies'
  <2>1. undoing[s][w] > 0 /\ UNCHANGED <<active, total, completed, failed>>
    BY <1>5 DEF CompensationReturns
  <2>2. w = "executor" /\ s \in Backward /\ s \notin Forward
    <3>1. undoing[s]["canceller"] = 0
      BY <1>0, UnderWay
    <3>2. w = "executor"
      BY <2>1, <3>1 DEF Loops
    <3> QED BY <1>0, <2>1, <3>2, UnderWay
  <2>3. CASE status' = [status EXCEPT ![s] = status[s]] /\ compensated' = compensated
    <3>1. Forward' = Forward /\ Backward' = Backward
      BY <1>0, <2>1, <2>3 DEF Forward, Backward
    <3> QED BY <1>a, <2>1, <2>3, <3>1 DEF Tallies
  <2>4. CASE status' = [status EXCEPT ![s] = "COMPENSATED"] /\ compensated' = compensated + 1
    <3>1. Forward' = Forward /\ Backward' = Backward \ {s}
      BY <1>0, <2>1, <2>2, <2>4 DEF Forward, Backward
    <3>2. /\ IsFiniteSet(Backward') /\ Cardinality(Backward') = Cardinality(Backward) - 1
          /\ Cardinality(Backward) \in Nat \ {0} /\ compensated' = compensated + 1
      BY <1>a, <2>2, <2>4, <3>1, OneLess
    <3> QED BY <1>0, <1>a, <2>1, <3>1, <3>2 DEF Tallies
  <2> QED
    BY <1>5, <2>3, <2>4
    DEF CompensationReturns, ExecutorUnwinds, CancellerUnwinds, UndoNext, UndoFinished
<1>6. ASSUME NEW s \in Sagas, CancelSaga(s) PROVE FALSE
  BY <1>6 DEF CancelSaga
<1>7. ASSUME NEW old \in SUBSET active, CleanupCompletedSagas(old) PROVE Tallies'
  <2>1. Forward' = Forward /\ Backward' = Backward
    BY <1>7 DEF CleanupCompletedSagas, Forward, Backward, Terminal
  <2> QED BY <1>7, <1>a, <2>1 DEF CleanupCompletedSagas, counters, Tallies
<1>8. CASE UNCHANGED vars
  BY <1>8, <1>a DEF vars, counters, Tallies, Forward, Backward
<1> QED BY <1>1, <1>2, <1>3, <1>4, <1>5, <1>6, <1>7, <1>8 DEF Next, Executor

(* get_statistics counts every started saga once while nobody cancels, and
   cleanup_completed_sagas forgets no saga whose task is unfinished. *)
THEOREM RegistryAgrees == Spec => []RegistryConsistent
<1> DEFINE Counted == cancelled = {} => Tallies
<1>1. Init => Counted
  <2> SUFFICES ASSUME Init PROVE Tallies
    OBVIOUS
  <2>1. Forward = {} /\ Backward = {}
    BY DEF Init, Forward, Backward
  <2> QED BY <2>1, FS_EmptySet DEF Init, Tallies
<1>2. IInv /\ Counted /\ [Next]_vars => Counted'
  <2> SUFFICES ASSUME IInv, Counted, [Next]_vars, cancelled' = {} PROVE Tallies'
    OBVIOUS
  <2>1. cancelled \subseteq cancelled'
    BY DEF Next, vars, StartSaga, Executor, BeginExecution, StepSucceeds, StepFails,
           CompensationReturns, CancelSaga, CleanupCompletedSagas
  <2> QED BY <2>1, TalliesStep
<1>3. IInv /\ Counted => TypeOK /\ StatisticsAddUp
  BY DEF IInv, Tallies, StatisticsAddUp, Count, Forward, Backward
<1> HIDE DEF Counted
<1> QED BY <1>1, <1>2, <1>3, Inductive, SagaSafety, PTL DEF Spec, RegistryConsistent

-----------------------------------------------------------------------------
(* The manager implements SagaContract, fairness aside. *)

\* Before the task runs no step has been performed, and a loop only ever awaits
\* a step that has a callback.
Placed(s) ==
  /\ exec[s] \in {"none", "ready"} => cur[s] = 1
  /\ \A w \in Loops : undoing[s][w] # 0 => undoing[s][w] \in callbacks[s]

(* One round of the loop awaits a callback, or none. *)
LEMMA UnwindPlaced ==
  ASSUME TypeOK, NEW s \in Sagas, NEW w \in Loops, NEW n, NEW st, NEW now,
         UndoNext(s, w, n, st, now) \/ UndoFinished(s, w, n, st), UNCHANGED callbacks,
         NEW t \in Sagas, \A x \in Loops : undoing[t][x] # 0 => undoing[t][x] \in callbacks[t]
  PROVE  \A x \in Loops : undoing'[t][x] # 0 => undoing'[t][x] \in callbacks'[t]
<1>1. undoing \in [Sagas -> [Loops -> 0..NumSteps]]
  BY DEF TypeOK
<1>2. PICK j : undoing' = [undoing EXCEPT ![s][w] = j] /\ (j = 0 \/ j \in callbacks[s])
  BY DEF UndoNext, UndoFinished, Undoable
<1> QED BY <1>1, <1>2

(* The step index moves only once the task runs. *)
LEMMA PlacedStep ==
  IInv /\ (\A s \in Sagas : Placed(s)) /\ [Next]_vars => (\A s \in Sagas : Placed(s))'
<1> SUFFICES ASSUME IInv, \A s \in Sagas : Placed(s), [Next]_vars, NEW t \in Sagas
             PROVE  Placed(t)'
  OBVIOUS
<1>0. /\ TypeOK /\ cur \in [Sagas -> Steps] /\ exec \in [Sagas -> ExecStates]
      /\ callbacks \in [Sagas -> SUBSET Steps] /\ Placed(t) /\ SagaInv(t)
  BY DEF IInv, TypeOK
<1>a. \A x \in Loops : undoing[t][x] # 0 => undoing[t][x] \in callbacks[t]
  BY <1>0 DEF Placed
<1>1. ASSUME NEW s \in Sagas, NEW c \in SUBSET Steps, StartSaga(s, c) PROVE Placed(t)'
  <2>1. CASE t # s
    BY <1>0, <1>1, <2>1 DEF StartSaga, Placed
  <2>2. CASE t = s
    <3>1. \A w \in Loops : undoing[s][w] = 0
      BY <1>0, <1>1, <2>2 DEF StartSaga, SagaInv, ExecutorShape, Uncancelled, Loops
    <3> QED BY <1>0, <1>1, <2>2, <3>1 DEF StartSaga, Placed, SagaInv, ExecutorShape
  <2> QED BY <2>1, <2>2
<1>2. ASSUME NEW s \in Sagas, BeginExecution(s) PROVE Placed(t)'
  BY <1>0, <1>2 DEF BeginExecution, Placed
<1>3. ASSUME NEW s \in Sagas, StepSucceeds(s) PROVE Placed(t)'
  BY <1>0, <1>3 DEF StepSucceeds, Placed
<1>4. ASSUME NEW s \in Sagas, StepFails(s) PROVE Placed(t)'
  <2>1. \A x \in Loops : undoing'[t][x] # 0 => undoing'[t][x] \in callbacks'[t]
    BY <1>0, <1>a, <1>4, UnwindPlaced DEF StepFails, ExecutorUnwinds, Loops
  <2> QED BY <1>0, <1>4, <2>1 DEF StepFails, ExecutorUnwinds, Placed
<1>5. ASSUME NEW s \in Sagas, NEW w \in Loops, NEW ok \in BOOLEAN, CompensationReturns(s, w, ok)
      PROVE  Placed(t)'
  <2>1. \A x \in Loops : undoing'[t][x] # 0 => undoing'[t][x] \in callbacks'[t]
    BY <1>0, <1>a, <1>5, UnwindPlaced DEF CompensationReturns, ExecutorUnwinds, CancellerUnwinds
  <2> QED
    BY <1>0, <1>5, <2>1 DEF CompensationReturns, ExecutorUnwinds, CancellerUnwinds, Placed
<1>6. ASSUME NEW s \in Sagas, CancelSaga(s) PROVE Placed(t)'
  <2>1. \A x \in Loops : undoing'[t][x] # 0 => undoing'[t][x] \in callbacks'[t]
    BY <1>0, <1>a, <1>6, UnwindPlaced DEF CancelSaga, CancellerUnwinds, Loops
  <2> QED BY <1>0, <1>6, <2>1 DEF CancelSaga, CancellerUnwinds, Placed
<1>7. ASSUME NEW old \in SUBSET active, CleanupCompletedSagas(old) PROVE Placed(t)'
  BY <1>0, <1>7 DEF CleanupCompletedSagas, Placed
<1>8. CASE UNCHANGED vars
  BY <1>0, <1>8 DEF vars, Placed
<1> QED BY <1>1, <1>2, <1>3, <1>4, <1>5, <1>6, <1>7, <1>8 DEF Next, Executor

\* The contract's state, as a function of the saga.
Phases == [t \in Sagas |-> PhaseOf(t)]
Dones == [t \in Sagas |-> DoneOf(t)]
Debts == [t \in Sagas |-> OwedOf(t)]

(* A step on saga s changes the contract's state at s only. *)
LEMMA MappedAt ==
  ASSUME NEW s \in Sagas, \A t \in Sagas : t # s => Frame(t)
  PROVE  /\ Phases' = [Phases EXCEPT ![s] = PhaseOf(s)']
         /\ Dones' = [Dones EXCEPT ![s] = DoneOf(s)']
         /\ Debts' = [Debts EXCEPT ![s] = OwedOf(s)']
<1>1. ASSUME NEW t \in Sagas, t # s
      PROVE  PhaseOf(t)' = PhaseOf(t) /\ DoneOf(t)' = DoneOf(t) /\ OwedOf(t)' = OwedOf(t)
  <2>1. Frame(t)
    BY <1>1
  <2>2. PhaseOf(t)' = PhaseOf(t) /\ DoneOf(t)' = DoneOf(t)
    BY <2>1 DEF Frame, PhaseOf, DoneOf
  <2>3. OwedOf(t)' = OwedOf(t)
    BY <2>1 DEF Frame, OwedOf, InEffect
  <2> QED BY <2>2, <2>3
<1> QED BY <1>1 DEF Phases, Dones, Debts

(* A step that leaves the mapped state of s alone is a stutter. *)
LEMMA MappedStutter ==
  ASSUME NEW s \in Sagas, \A t \in Sagas : t # s => Frame(t),
         PhaseOf(s)' = PhaseOf(s), DoneOf(s)' = DoneOf(s), OwedOf(s)' = OwedOf(s)
  PROVE  UNCHANGED Contract!vars
<1>1. Phases' = Phases /\ Dones' = Dones /\ Debts' = Debts
  BY MappedAt DEF Phases, Dones, Debts
<1> QED BY <1>1 DEF Contract!vars, Phases, Dones, Debts

(* Nothing more is said of a saga once it is cancelled. *)
LEMMA DisownedStutter ==
  ASSUME NEW s \in Sagas, \A t \in Sagas : t # s => Frame(t), s \in cancelled, s \in cancelled'
  PROVE  UNCHANGED Contract!vars
  BY MappedStutter DEF PhaseOf, DoneOf, OwedOf

(* What one round of the executor's loop leaves to be undone: the steps below n
   that are COMPLETED when it starts, the one it awaits included. *)
LEMMA UnwindDebt ==
  ASSUME TypeOK, NEW s \in Sagas, NEW n \in 0..NumSteps, NEW st \in [Steps -> SagaStepStatus],
         ExecutorUnwinds(s, n, st, "COMPENSATING"), UNCHANGED <<callbacks, cur>>,
         s \notin cancelled', status[s] # "COMPLETED",  s \notin cancelled,
         \A i \in callbacks[s] : st[i] \in {"EXECUTING", "COMPLETED", "COMPENSATING"}
                                   => i <= n /\ st[i] = "COMPLETED"
  PROVE  /\ OwedOf(s)' = Undoable(s, st, n)
         /\ PhaseOf(s)' = IF Undoable(s, st, n) = {} THEN "rolledback" ELSE "backward"
         /\ DoneOf(s)' = DoneOf(s)
<1>0. /\ callbacks[s] \subseteq Steps /\ callbacks' = callbacks /\ cur' = cur
      /\ step \in [Sagas -> [Steps -> SagaStepStatus]] /\ status \in [Sagas -> SagaStatus]
  BY DEF TypeOK
<1>1. CASE UndoNext(s, "executor", n, st, "COMPENSATING")
  <2>1. PICK j \in Undoable(s, st, n) :
          /\ step' = [step EXCEPT ![s] = [st EXCEPT ![j] = "COMPENSATING"]]
          /\ status' = [status EXCEPT ![s] = "COMPENSATING"]
    BY <1>1 DEF UndoNext
  <2>2. status'[s] = "COMPENSATING" /\ step'[s] = [st EXCEPT ![j] = "COMPENSATING"]
    BY <1>0, <2>1
  <2>3. InEffect(s)' = Undoable(s, st, n)
    BY <1>0, <2>1, <2>2 DEF InEffect, Undoable
  <2>4. Undoable(s, st, n) # {}
    BY <2>1
  <2> QED BY <1>0, <2>2, <2>3, <2>4 DEF OwedOf, PhaseOf, DoneOf
<1>2. CASE UndoFinished(s, "executor", n, st)
  <2>1. Undoable(s, st, n) = {} /\ status'[s] = "COMPENSATED"
    BY <1>0, <1>2 DEF UndoFinished
  <2> QED BY <1>0, <2>1 DEF OwedOf, PhaseOf, DoneOf
<1> QED BY <1>1, <1>2 DEF ExecutorUnwinds

(* Every action of the manager is a step of the contract, or none. *)
LEMMA ContractStep ==
  ASSUME IInv, \A s \in Sagas : Placed(s), [Next]_vars
  PROVE  Contract!Next \/ UNCHANGED Contract!vars
<1>0. TypeOK /\ \A s \in Sagas : SagaInv(s)
  BY DEF IInv
<1>a. ASSUME NEW s \in Sagas
      PROVE  /\ cur[s] \in Steps /\ cur[s] \in 1..NumSteps /\ status[s] \in SagaStatus
             /\ step[s] \in [Steps -> SagaStepStatus]
             /\ callbacks[s] \subseteq Steps /\ SagaInv(s) /\ Placed(s)
             /\ NumSteps \in Nat \ {0}
  BY <1>0, NumStepsAssumption DEF TypeOK, Steps
<1>1. ASSUME NEW s \in Sagas, NEW c \in SUBSET Steps, StartSaga(s, c) PROVE Contract!Next
  <2>1. \A t \in Sagas : t # s => Frame(t)
    BY <1>0, <1>1 DEF StartSaga, Frame, TypeOK
  <2>2. /\ s \notin cancelled /\ cancelled' = cancelled /\ cur' = cur
        /\ status[s] = "none" /\ status'[s] = "RUNNING"
    BY <1>0, <1>1 DEF StartSaga, TypeOK, SagaInv, ExecutorShape
  <2>3. /\ PhaseOf(s) = "idle" /\ PhaseOf(s)' = "forward" /\ DoneOf(s)' = DoneOf(s)
        /\ OwedOf(s) = {} /\ OwedOf(s)' = {}
    BY <2>2 DEF PhaseOf, DoneOf, OwedOf
  <2>4. Contract!Open(s)
    BY <2>1, <2>3, MappedAt DEF Contract!Open, Phases, Dones, Debts
  <2> QED BY <2>4 DEF Contract!Next
<1>2. ASSUME NEW s \in Sagas, BeginExecution(s) PROVE UNCHANGED Contract!vars
  <2>1. \A t \in Sagas : t # s => Frame(t)
    BY <1>0, <1>2 DEF BeginExecution, Frame, TypeOK
  <2>2. /\ UNCHANGED <<cancelled, status>> /\ cur'[s] = cur[s]
        /\ s \notin cancelled => status[s] = "RUNNING"
    BY <1>0, <1>2, <1>a DEF BeginExecution, TypeOK, Placed, SagaInv, Uncancelled
  <2>3. PhaseOf(s)' = PhaseOf(s) /\ DoneOf(s)' = DoneOf(s) /\ OwedOf(s)' = OwedOf(s)
    BY <2>2 DEF PhaseOf, DoneOf, OwedOf
  <2> QED BY <2>1, <2>3, MappedStutter
<1>3. ASSUME NEW s \in Sagas, StepSucceeds(s) PROVE Contract!Next \/ UNCHANGED Contract!vars
  <2>1. (\A t \in Sagas : t # s => Frame(t)) /\ cancelled' = cancelled /\ exec[s] = "running"
    BY <1>0, <1>3 DEF StepSucceeds, Frame, TypeOK
  <2>2. CASE s \in cancelled
    BY <2>1, <2>2, DisownedStutter
  <2>3. CASE s \notin cancelled
    <3>1. status[s] = "RUNNING"
      BY <1>a, <2>1, <2>3 DEF SagaInv, Uncancelled
    <3>2. PhaseOf(s) = "forward" /\ DoneOf(s) = cur[s] - 1 /\ OwedOf(s) = {}
      BY <2>3, <3>1 DEF PhaseOf, DoneOf, OwedOf
    <3>3. CASE cur[s] < NumSteps /\ cur' = [cur EXCEPT ![s] = cur[s] + 1] /\ status' = status
      <4>1. cur'[s] = cur[s] + 1 /\ status'[s] = "RUNNING"
        BY <1>0, <3>1, <3>3 DEF TypeOK
      <4>2. PhaseOf(s)' = "forward" /\ DoneOf(s)' = cur[s] /\ OwedOf(s)' = {}
        BY <1>a, <2>1, <2>3, <4>1 DEF PhaseOf, DoneOf, OwedOf
      <4>3. DoneOf(s) < NumSteps /\ DoneOf(s) + 1 # NumSteps /\ DoneOf(s)' = DoneOf(s) + 1
        BY <1>a, <3>2, <3>3, <4>2
      <4>4. Contract!Perform(s)
        BY <2>1, <3>2, <4>2, <4>3, MappedAt DEF Contract!Perform, Phases, Dones, Debts
      <4> QED BY <4>4 DEF Contract!Next, Contract!Progress
    <3>4. CASE cur[s] = NumSteps /\ status' = [status EXCEPT ![s] = "COMPLETED"]
      <4>1. PhaseOf(s)' = "committed" /\ DoneOf(s)' = NumSteps /\ OwedOf(s)' = {}
        BY <1>0, <2>1, <2>3, <3>4 DEF PhaseOf, DoneOf, OwedOf, TypeOK
      <4>2. DoneOf(s) < NumSteps /\ DoneOf(s) + 1 = NumSteps /\ DoneOf(s)' = DoneOf(s) + 1
        BY <1>a, <3>2, <3>4, <4>1
      <4>3. Contract!Perform(s)
        BY <2>1, <3>2, <4>1, <4>2, MappedAt DEF Contract!Perform, Phases, Dones, Debts
      <4> QED BY <4>3 DEF Contract!Next, Contract!Progress
    <3> QED BY <1>3, <3>3, <3>4 DEF StepSucceeds
  <2> QED BY <2>2, <2>3
<1>4. ASSUME NEW s \in Sagas, StepFails(s) PROVE Contract!Next \/ UNCHANGED Contract!vars
  <2>1. /\ \A t \in Sagas : t # s => Frame(t)
        /\ cancelled' = cancelled /\ exec[s] = "running" /\ UNCHANGED <<callbacks, cur>>
    BY <1>0, <1>4 DEF StepFails, ExecutorUnwinds, UndoNext, UndoFinished, Frame, TypeOK
  <2>2. CASE s \in cancelled
    BY <2>1, <2>2, DisownedStutter
  <2>3. CASE s \notin cancelled
    <3> DEFINE st == [step[s] EXCEPT ![cur[s]] = "FAILED"]
               debt == Undoable(s, st, cur[s])
    <3>1. /\ status[s] = "RUNNING"
          /\ \A i \in Steps : i < cur[s] => step[s][i] = "COMPLETED"
          /\ \A i \in Steps : i > cur[s] => step[s][i] = "PENDING"
      BY <1>a, <2>1, <2>3 DEF SagaInv, ExecutorShape, Uncancelled
    <3>2. st \in [Steps -> SagaStepStatus] /\ cur[s] \in 0..NumSteps
      BY <1>a DEF SagaStepStatus
    <3>3. ASSUME NEW i \in Steps, st[i] \in {"EXECUTING", "COMPLETED", "COMPENSATING"}
          PROVE  i < cur[s] /\ st[i] = "COMPLETED"
      <4>1. i # cur[s] /\ st[i] = step[s][i]
        BY <1>a, <3>3
      <4>2. i < cur[s]
        BY <1>a, <3>1, <3>3, <4>1 DEF Steps
      <4> QED BY <3>1, <4>1, <4>2
    <3>4. ExecutorUnwinds(s, cur[s], st, "COMPENSATING")
      BY <1>4 DEF StepFails
    <3>5. debt \in SUBSET (1..(cur[s] - 1)) /\ debt \in SUBSET (1..NumSteps)
      <4>1. ASSUME NEW i \in debt PROVE i \in 1..(cur[s] - 1)
        <5>1. i \in Steps /\ st[i] = "COMPLETED"
          BY <1>a DEF Undoable
        <5>2. i < cur[s] /\ i \in 1..NumSteps
          BY <3>3, <5>1 DEF Steps
        <5> QED BY <1>a, <5>2
      <4>2. 1..(cur[s] - 1) \subseteq 1..NumSteps
        BY <1>a
      <4> QED BY <4>1, <4>2
    <3>6. \A i \in callbacks[s] : st[i] \in {"EXECUTING", "COMPLETED", "COMPENSATING"}
                                    => i <= cur[s] /\ st[i] = "COMPLETED"
      BY <1>a, <3>3 DEF Steps
    <3> HIDE DEF st
    <3>7. /\ OwedOf(s)' = debt /\ DoneOf(s)' = DoneOf(s)
          /\ PhaseOf(s)' = IF debt = {} THEN "rolledback" ELSE "backward"
      BY <1>0, <2>1, <2>3, <3>1, <3>2, <3>4, <3>6, UnwindDebt
    <3>8. PhaseOf(s) = "forward" /\ DoneOf(s) = cur[s] - 1
      BY <2>3, <3>1 DEF PhaseOf, DoneOf
    <3> HIDE DEF debt
    <3>9. Contract!Abort(s, debt)
      BY <2>1, <3>5, <3>7, <3>8, MappedAt DEF Contract!Abort, Contract!Owe, Phases, Dones, Debts
    <3> QED BY <3>5, <3>9 DEF Contract!Next, Contract!Progress
  <2> QED BY <2>2, <2>3
<1>5. ASSUME NEW s \in Sagas, NEW w \in Loops, NEW ok \in BOOLEAN, CompensationReturns(s, w, ok)
      PROVE  Contract!Next \/ UNCHANGED Contract!vars
  <2>1. /\ \A t \in Sagas : t # s => Frame(t)
        /\ cancelled' = cancelled /\ UNCHANGED <<callbacks, cur>>
    BY <1>0, <1>5
    DEF CompensationReturns, ExecutorUnwinds, CancellerUnwinds, UndoNext, UndoFinished, Frame, TypeOK
  <2>2. CASE s \in cancelled
    BY <2>1, <2>2, DisownedStutter
  <2>3. CASE s \notin cancelled
    <3> DEFINE i == undoing[s]["executor"]
               st == [step[s] EXCEPT ![i] = IF ok THEN "COMPENSATED" ELSE "FAILED"]
    <3>0. w = "executor" /\ i > 0 /\ i \in 0..NumSteps
      <4>1. undoing[s]["canceller"] = 0
        BY <2>3, UnderWay
      <4>2. w = "executor"
        BY <1>5, <4>1 DEF CompensationReturns, Loops
      <4> QED BY <1>0, <1>5, <4>2 DEF CompensationReturns, TypeOK, Loops
    <3>1. i \in Steps /\ i # 0 /\ i - 1 \in 0..NumSteps
      BY <1>a, <3>0 DEF Steps
    <3>2. exec[s] = "undoing" /\ status[s] = "COMPENSATING" /\ i \in callbacks[s]
          /\ step[s][i] = "COMPENSATING"
      BY <1>a, <2>3, <3>1 DEF SagaInv, ExecutorShape, Uncancelled, LogShape, Placed, Loops
    <3>3. \A k \in InEffect(s) : k <= i /\ (k # i => step[s][k] = "COMPLETED")
      BY <1>a, <2>3, <3>2 DEF SagaInv, Uncancelled
    <3>4. ExecutorUnwinds(s, i - 1, st, "COMPENSATING")
      BY <1>5, <3>0, <3>2 DEF CompensationReturns
    <3>5. st \in [Steps -> SagaStepStatus]
      BY <1>a DEF SagaStepStatus
    <3>6. ASSUME NEW k \in callbacks[s], st[k] \in {"EXECUTING", "COMPLETED", "COMPENSATING"}
          PROVE  k <= i - 1 /\ st[k] = "COMPLETED"
      <4>1. k # i /\ st[k] = step[s][k] /\ k \in Steps
        BY <1>a, <3>6
      <4>2. k <= i /\ st[k] = "COMPLETED"
        BY <3>3, <3>6, <4>1 DEF InEffect
      <4> QED BY <3>1, <4>1, <4>2 DEF Steps
    <3>7. Undoable(s, st, i - 1) = InEffect(s) \ {i} /\ i \in InEffect(s)
      <4>1. ASSUME NEW k \in Undoable(s, st, i - 1) PROVE k \in InEffect(s) \ {i}
        <5>1. k \in callbacks[s] /\ k \in Steps /\ k <= i - 1 /\ st[k] = "COMPLETED"
          BY <1>a DEF Undoable
        <5>2. k # i
          BY <3>1, <5>1 DEF Steps
        <5> QED BY <1>a, <5>1, <5>2 DEF InEffect
      <4>2. ASSUME NEW k \in InEffect(s) \ {i} PROVE k \in Undoable(s, st, i - 1)
        <5>1. k \in callbacks[s] /\ k \in Steps /\ st[k] = "COMPLETED"
          BY <1>a, <3>3 DEF InEffect
        <5> QED BY <3>6, <5>1 DEF Undoable
      <4>3. i \in InEffect(s)
        BY <3>2 DEF InEffect
      <4> QED BY <4>1, <4>2, <4>3
    <3> HIDE DEF st
    <3>8. /\ OwedOf(s)' = InEffect(s) \ {i} /\ DoneOf(s)' = DoneOf(s)
          /\ PhaseOf(s)' = IF InEffect(s) \ {i} = {} THEN "rolledback" ELSE "backward"
      BY <1>0, <2>1, <2>3, <3>1, <3>2, <3>4, <3>5, <3>6, <3>7, UnwindDebt
    <3>9. PhaseOf(s) = "backward" /\ OwedOf(s) = InEffect(s)
      BY <2>3, <3>2 DEF PhaseOf, OwedOf
    <3> HIDE DEF i
    <3>10. Contract!Undo(s)
      BY <2>1, <3>3, <3>7, <3>8, <3>9, MappedAt DEF Contract!Undo, Contract!Owe, Phases, Dones, Debts
    <3> QED BY <3>10 DEF Contract!Next, Contract!Progress
  <2> QED BY <2>2, <2>3
<1>6. ASSUME NEW s \in Sagas, CancelSaga(s) PROVE Contract!Next \/ UNCHANGED Contract!vars
  <2>1. /\ \A t \in Sagas : t # s => Frame(t)
        /\ cancelled' = cancelled \cup {s} /\ status[s] = "RUNNING"
    BY <1>0, <1>6 DEF CancelSaga, CancellerUnwinds, UndoNext, UndoFinished, Frame, TypeOK
  <2>2. CASE s \in cancelled
    BY <2>1, <2>2, DisownedStutter
  <2>3. CASE s \notin cancelled
    <3>1. /\ PhaseOf(s) = "forward" /\ PhaseOf(s)' = "disowned"
          /\ DoneOf(s)' = 0 /\ OwedOf(s)' = {}
      BY <2>1, <2>3 DEF PhaseOf, DoneOf, OwedOf
    <3>2. Contract!Disown(s)
      BY <2>1, <3>1, MappedAt DEF Contract!Disown, Phases, Dones, Debts
    <3> QED BY <3>2 DEF Contract!Next
  <2> QED BY <2>2, <2>3
<1>7. ASSUME UNCHANGED <<status, step, callbacks, cur, cancelled>>
      PROVE  UNCHANGED Contract!vars
  BY <1>7 DEF Contract!vars, PhaseOf, DoneOf, OwedOf, InEffect
<1>8. ASSUME NEW old \in SUBSET active, CleanupCompletedSagas(old) PROVE UNCHANGED Contract!vars
  BY <1>7, <1>8 DEF CleanupCompletedSagas
<1>9. CASE UNCHANGED vars
  BY <1>7, <1>9 DEF vars
<1> QED BY <1>1, <1>2, <1>3, <1>4, <1>5, <1>6, <1>8, <1>9 DEF Next, Executor

(* The safety part of ImplementsContract: whatever the sagas, the callbacks and
   the interleaving, a saga nobody cancels performs its steps in order and
   either commits or undoes what it owes, last first. *)
THEOREM ContractSafety == Spec => Contract!Safe
<1> DEFINE AllPlaced == \A s \in Sagas : Placed(s)
<1>1. Init => Contract!Init
  <2> SUFFICES ASSUME Init PROVE Contract!Init
    OBVIOUS
  <2>1. ASSUME NEW s \in Sagas PROVE PhaseOf(s) = "idle" /\ DoneOf(s) = 0 /\ OwedOf(s) = {}
    BY DEF Init, PhaseOf, DoneOf, OwedOf
  <2> QED BY <2>1 DEF Contract!Init
<1>2. Init => AllPlaced
  BY DEF Init, Placed
<1>3. IInv /\ AllPlaced /\ [Next]_vars => AllPlaced'
  BY PlacedStep
<1>4. IInv /\ AllPlaced /\ [Next]_vars => [Contract!Next]_Contract!vars
  <2> SUFFICES ASSUME IInv, AllPlaced, [Next]_vars PROVE Contract!Next \/ UNCHANGED Contract!vars
    OBVIOUS
  <2> QED BY ContractStep
<1> HIDE DEF AllPlaced
<1> QED BY <1>1, <1>2, <1>3, <1>4, Inductive, PTL DEF Spec, Contract!Safe

-----------------------------------------------------------------------------
\* A request that has a token object has a proper one, and only issued tokens
\* can expire.
Shapes ==
  /\ \A r \in Requests : pc[r] \in {"granted", "held"} => token[r] \in [id : Tokens, tenant : Tenants]
  /\ \A k \in expiring : acquired[k] # Nobody

(* The inductive invariant. *)
TokensInv == TokensAccounted /\ Shapes

\* QueueMatchesWaiters for a queue w and the control state p.
Matches(w, p) ==
  /\ \A i, j \in 1..Len(w) : w[i] = w[j] => i = j
  /\ \A r \in Requests :
       /\ p[r] = "waiting" => \E i \in 1..Len(w) : w[i] = r
       /\ p[r] \in {"idle", "granted", "held"} => \A i \in 1..Len(w) : w[i] # r

PcStates == {"idle", "waiting", "expired", "granted", "held"}

(* Matches is QueueMatchesWaiters, stated with lengths. *)
LEMMA MatchesDef ==
  ASSUME NEW w \in Seq(Requests), NEW p
  PROVE  Matches(w, p) <=>
           /\ \A i, j \in DOMAIN w : w[i] = w[j] => i = j
           /\ \A r \in Requests :
                /\ p[r] = "waiting" => \E i \in DOMAIN w : w[i] = r
                /\ p[r] \in {"idle", "granted", "held"} => ~ \E i \in DOMAIN w : w[i] = r
<1>1. DOMAIN w = 1..Len(w)
  BY LenProperties
<1> QED BY <1>1 DEF Matches

(* What remains of a queue after its first n entries are popped. *)
LEMMA Dropped ==
  ASSUME NEW S, NEW q \in Seq(S), NEW n \in 0..Len(q)
  PROVE  /\ SubSeq(q, n + 1, Len(q)) \in Seq(S)
         /\ Len(SubSeq(q, n + 1, Len(q))) = Len(q) - n
         /\ \A i \in 1..(Len(q) - n) : SubSeq(q, n + 1, Len(q))[i] = q[n + i]
<1>1. Len(q) \in Nat /\ n \in Nat /\ n <= Len(q) /\ \A i \in 1..Len(q) : q[i] \in S
  BY LenProperties, ElementOfSeq
<1>2. \A i \in (n + 1)..Len(q) : q[i] \in S
  BY <1>1
<1>3. /\ SubSeq(q, n + 1, Len(q)) \in Seq(S)
      /\ Len(SubSeq(q, n + 1, Len(q))) =
           IF n + 1 <= Len(q) THEN Len(q) - (n + 1) + 1 ELSE 0
      /\ \A i \in 1..(Len(q) - (n + 1) + 1) : SubSeq(q, n + 1, Len(q))[i] = q[(n + 1) + i - 1]
  BY <1>1, <1>2, SubSeqProperties
<1>4. \A i \in 1..(Len(q) - n) : (n + 1) + i - 1 = n + i
  BY <1>1
<1> QED BY <1>1, <1>3, <1>4

(* What remains of it after its j-th entry is removed. *)
LEMMA Removed ==
  ASSUME NEW S, NEW q \in Seq(S), NEW j \in 1..Len(q)
  PROVE  /\ RemoveAt(q, j) \in Seq(S)
         /\ Len(RemoveAt(q, j)) = Len(q) - 1
         /\ \A i \in 1..(Len(q) - 1) : RemoveAt(q, j)[i] = IF i < j THEN q[i] ELSE q[i + 1]
<1>0. Len(q) \in Nat /\ j \in Int /\ \A i \in 1..Len(q) : q[i] \in S
  BY LenProperties, ElementOfSeq
<1> DEFINE f == SubSeq(q, 1, j - 1)
           b == SubSeq(q, j + 1, Len(q))
<1>1. f \in Seq(S) /\ Len(f) = j - 1 /\ \A i \in 1..(j - 1) : f[i] = q[i]
  <2>1. \A i \in 1..(j - 1) : q[i] \in S
    BY <1>0
  <2>2. /\ f \in Seq(S) /\ Len(f) = IF 1 <= j - 1 THEN j - 1 - 1 + 1 ELSE 0
        /\ \A i \in 1..(j - 1 - 1 + 1) : f[i] = q[1 + i - 1]
    BY <1>0, <2>1, SubSeqProperties
  <2> QED BY <1>0, <2>2
<1>2. b \in Seq(S) /\ Len(b) = Len(q) - j /\ \A i \in 1..(Len(q) - j) : b[i] = q[j + i]
  BY <1>0, Dropped
<1> HIDE DEF f, b
<1>3. /\ f \o b \in Seq(S) /\ Len(f \o b) = Len(f) + Len(b)
      /\ \A i \in 1..(Len(f) + Len(b)) : (f \o b)[i] = IF i <= Len(f) THEN f[i] ELSE b[i - Len(f)]
  BY <1>1, <1>2, ConcatProperties
<1>4. RemoveAt(q, j) = f \o b
  BY DEF RemoveAt, f, b
<1>5. Len(f) + Len(b) = Len(q) - 1
  BY <1>0, <1>1, <1>2
<1>6. ASSUME NEW i \in 1..(Len(q) - 1)
      PROVE  (f \o b)[i] = IF i < j THEN q[i] ELSE q[i + 1]
  <2>1. CASE i < j
    BY <1>0, <1>1, <1>3, <1>5, <2>1
  <2>2. CASE ~(i < j)
    <3>1. (f \o b)[i] = b[i - (j - 1)]
      BY <1>0, <1>1, <1>3, <1>5, <2>2
    <3>2. i - (j - 1) \in 1..(Len(q) - j) /\ j + (i - (j - 1)) = i + 1
      BY <1>0, <2>2
    <3> QED BY <1>2, <2>2, <3>1, <3>2
  <2> QED BY <2>1, <2>2
<1> QED BY <1>3, <1>4, <1>5, <1>6

(* An order of tokens is a sequence of tokens. *)
LEMMA OrderIsSeq == ASSUME NEW q \in Orders PROVE q \in Seq(Tokens)
<1>1. PICK n \in 0..Cardinality(Tokens) : q \in [1..n -> Tokens]
  BY DEF Orders
<1>2. n \in Nat
  OBVIOUS
<1> QED BY <1>1, <1>2, SeqDef

-----------------------------------------------------------------------------
(* Releasing the tokens q, which are issued: the pool stays a partition, the
   futures popped are no longer queued and the ones resolved get a token. *)
LEMMA Releases ==
  ASSUME TokensInv, NEW q \in Seq(Tokens), \A k \in Elems(q) : acquired[k] # Nobody, ReleaseInPool(q)
  PROVE  /\ available' \subseteq Tokens /\ acquired' \in [Tokens -> Requests \cup {Nobody}]
         /\ expiring' \subseteq Tokens /\ PoolPartition'
         /\ \A k \in expiring' : acquired'[k] # Nobody
         /\ \A k \in Tokens : acquired'[k] = IF k \in Elems(q) THEN Nobody ELSE acquired[k]
         /\ waiting' \in Seq(Requests) /\ Matches(waiting', PcAfter(q))
         /\ PcAfter(q) \in [Requests -> PcStates]
         /\ TokenAfter(q) \in [Requests -> TokenObjects]
         /\ \A r \in Requests : PcAfter(q)[r] \in {"granted", "held"} =>
              TokenAfter(q)[r] \in [id : Tokens, tenant : Tenants]
         /\ \A r \in Requests : pc[r] # "waiting" =>
              PcAfter(q)[r] = pc[r] /\ TokenAfter(q)[r] = token[r]
<1> USE TokenAssumptions
<1>0. /\ TokensTypeOK /\ PoolPartition /\ Shapes /\ waiting \in Seq(Requests)
      /\ pc \in [Requests -> PcStates] /\ token \in [Requests -> TokenObjects]
      /\ acquired \in [Tokens -> Requests \cup {Nobody}] /\ expiring \subseteq Tokens
      /\ Matches(waiting, pc)
  BY MatchesDef DEF TokensInv, TokensAccounted, TokensTypeOK, PcStates, QueueMatchesWaiters
<1>1. /\ DOMAIN q = 1..Len(q) /\ Len(q) \in Nat /\ Len(waiting) \in Nat
      /\ \A i \in 1..Len(q) : q[i] \in Tokens
      /\ \A i \in 1..Len(waiting) : waiting[i] \in Requests
  BY <1>0, LenProperties, ElementOfSeq
<1>2. Elems(q) \subseteq Tokens /\ \A i \in 1..Len(q) : q[i] \in Elems(q)
  BY <1>1 DEF Elems
<1>3. \A k \in Tokens : acquired'[k] = IF k \in Elems(q) THEN Nobody ELSE acquired[k]
  BY DEF ReleaseInPool
<1>4. acquired' \in [Tokens -> Requests \cup {Nobody}]
  BY <1>0 DEF ReleaseInPool
<1>5. available' \subseteq Tokens /\ expiring' \subseteq Tokens /\ PoolPartition'
  BY <1>0, <1>2, <1>3 DEF ReleaseInPool, PoolPartition, TokensTypeOK
<1>6. \A k \in expiring' : acquired'[k] # Nobody
  BY <1>0, <1>3 DEF ReleaseInPool, Shapes
<1> DEFINE n == IF Len(q) < Len(waiting) THEN Len(q) ELSE Len(waiting)
<1>7. n \in Nat /\ n \in 0..Len(waiting) /\ n <= Len(q)
  BY <1>1
<1>8. Popped(q) = 1..n
  BY DEF Popped
<1> HIDE DEF n
<1>9. Cardinality(Popped(q)) = n
  BY <1>7, <1>8, FS_Interval
<1>10. /\ waiting' = SubSeq(waiting, n + 1, Len(waiting))
       /\ waiting' \in Seq(Requests) /\ Len(waiting') = Len(waiting) - n
       /\ \A i \in 1..(Len(waiting) - n) : waiting'[i] = waiting[n + i]
  <2>1. waiting' = SubSeq(waiting, n + 1, Len(waiting))
    BY <1>9 DEF ReleaseInPool
  <2> QED BY <1>0, <1>7, <2>1, Dropped
<1>11. \A i \in Served(q) : i \in 1..n /\ i \in 1..Len(waiting) /\ i \in 1..Len(q)
                            /\ pc[waiting[i]] = "waiting"
  BY <1>1, <1>7, <1>8 DEF Served
<1>12. ASSUME NEW r \in Requests
       PROVE  PcAfter(q)[r] = IF \E i \in Served(q) : waiting[i] = r THEN "granted" ELSE pc[r]
  BY DEF PcAfter
<1>13. PcAfter(q) \in [Requests -> PcStates]
  BY <1>0 DEF PcAfter, PcStates
<1>14. ASSUME NEW r \in Requests
       PROVE  /\ TokenAfter(q)[r] \in TokenObjects
              /\ PcAfter(q)[r] \in {"granted", "held"} =>
                   TokenAfter(q)[r] \in [id : Tokens, tenant : Tenants]
              /\ pc[r] # "waiting" => PcAfter(q)[r] = pc[r] /\ TokenAfter(q)[r] = token[r]
  <2>1. CASE \E i \in Served(q) : waiting[i] = r
    <3> DEFINE i == CHOOSE i \in Served(q) : waiting[i] = r
    <3>1. i \in Served(q) /\ waiting[i] = r
      BY <2>1
    <3>2. q[i] \in Tokens /\ acquired[q[i]] \in Requests
      BY <1>0, <1>1, <1>2, <1>11, <3>1
    <3>3. TokenAfter(q)[r] = [id |-> q[i], tenant |-> TenantOf[acquired[q[i]]]]
      BY <2>1 DEF TokenAfter
    <3> HIDE DEF i
    <3>4. TokenAfter(q)[r] \in [id : Tokens, tenant : Tenants]
      BY <3>2, <3>3
    <3>5. pc[r] = "waiting"
      BY <1>11, <3>1
    <3> QED BY <3>4, <3>5 DEF TokenObjects
  <2>2. CASE ~ \E i \in Served(q) : waiting[i] = r
    <3>1. TokenAfter(q)[r] = token[r] /\ PcAfter(q)[r] = pc[r]
      BY <1>12, <2>2 DEF TokenAfter
    <3> QED BY <1>0, <3>1 DEF Shapes
  <2> QED BY <2>1, <2>2
<1>15. TokenAfter(q) \in [Requests -> TokenObjects]
  <2>1. TokenAfter(q) = [r \in Requests |-> TokenAfter(q)[r]]
    BY DEF TokenAfter
  <2> QED BY <1>14, <2>1
<1>16. Matches(waiting', PcAfter(q))
  <2> DEFINE m == Len(waiting) - n
  <2>1. \A i \in 1..m : n + i \in 1..Len(waiting)
    BY <1>1, <1>7
  <2>2. \A i, j \in 1..m : waiting'[i] = waiting'[j] => i = j
    <3> SUFFICES ASSUME NEW i \in 1..m, NEW j \in 1..m, waiting'[i] = waiting'[j] PROVE i = j
      OBVIOUS
    <3>1. waiting[n + i] = waiting[n + j]
      BY <1>10
    <3>2. n + i \in 1..Len(waiting) /\ n + j \in 1..Len(waiting)
      BY <2>1
    <3>3. \A a, b \in 1..Len(waiting) : waiting[a] = waiting[b] => a = b
      BY <1>0 DEF Matches
    <3>4. n + i = n + j
      BY <3>1, <3>2, <3>3
    <3> QED BY <1>1, <1>7, <3>4
  <2>3. ASSUME NEW r \in Requests, PcAfter(q)[r] = "waiting"
        PROVE  \E i \in 1..m : waiting'[i] = r
    <3>1. pc[r] = "waiting" /\ ~ \E i \in Served(q) : waiting[i] = r
      BY <1>12, <2>3
    <3>2. PICK i \in 1..Len(waiting) : waiting[i] = r
      BY <1>0, <3>1 DEF Matches
    <3>3. i \notin 1..n
      BY <1>8, <3>1, <3>2 DEF Served
    <3>4. i - n \in 1..m /\ n + (i - n) = i
      BY <1>1, <1>7, <3>3
    <3> QED BY <1>10, <3>2, <3>4
  <2>4. ASSUME NEW r \in Requests, PcAfter(q)[r] \in {"idle", "granted", "held"},
               NEW i \in 1..m, waiting'[i] = r
        PROVE  FALSE
    <3>1. waiting[n + i] = r
      BY <1>10, <2>4
    <3>2. pc[r] \notin {"idle", "granted", "held"}
      BY <1>0, <2>1, <3>1 DEF Matches
    <3>3. PICK j \in Served(q) : waiting[j] = r
      BY <1>12, <2>4, <3>2
    <3>4. j = n + i
      BY <1>0, <1>11, <2>1, <3>1, <3>3 DEF Matches
    <3> QED BY <1>7, <1>11, <3>3, <3>4
  <2> QED BY <1>10, <2>2, <2>3, <2>4 DEF Matches
<1> QED BY <1>3, <1>4, <1>5, <1>6, <1>10, <1>13, <1>14, <1>15, <1>16

-----------------------------------------------------------------------------
(* Every action preserves the inductive invariant. *)
LEMMA TokensInvStep == TokensInv /\ [TokensNext]_tokenVars => TokensInv'
<1> SUFFICES ASSUME TokensInv, [TokensNext]_tokenVars PROVE TokensInv'
  OBVIOUS
<1> USE TokenAssumptions
<1>0. /\ TokensTypeOK /\ PoolPartition /\ AcquiredIsCharged /\ Shapes /\ waiting \in Seq(Requests)
      /\ pc \in [Requests -> PcStates] /\ token \in [Requests -> TokenObjects]
      /\ acquired \in [Tokens -> Requests \cup {Nobody}] /\ expiring \subseteq Tokens
      /\ tenantTokens \in [Tenants -> SUBSET Tokens] /\ revoked \subseteq Requests
      /\ limit \in [Tenants -> Limits \cup {NoLimit}] /\ available \subseteq Tokens
      /\ Matches(waiting, pc)
  BY MatchesDef DEF TokensInv, TokensAccounted, TokensTypeOK, PcStates, QueueMatchesWaiters
<1>a. ASSUME TokensTypeOK', PoolPartition', AcquiredIsCharged', Shapes', Matches(waiting', pc')
      PROVE  TokensInv'
  <2>1. waiting' \in Seq(Requests)
    BY <1>a DEF TokensTypeOK
  <2>2. QueueMatchesWaiters'
    BY <1>a, <2>1, MatchesDef DEF QueueMatchesWaiters
  <2> QED BY <1>a, <2>2 DEF TokensInv, TokensAccounted
<1>b. \A i \in 1..Len(waiting) : waiting[i] \in Requests
  BY <1>0, ElementOfSeq
<1>c. Len(waiting) \in Nat /\ DOMAIN waiting = 1..Len(waiting)
  BY <1>0, LenProperties
<1>1. ASSUME NEW t \in Tenants, NEW n \in Limits, SetTenantLimits(t, n) PROVE TokensInv'
  BY <1>1
  DEF SetTenantLimits, pool, TokensInv, TokensAccounted, TokensTypeOK, PoolPartition, AcquiredIsCharged,
      AcquiredBy, QueueMatchesWaiters, Shapes
<1>2. ASSUME NEW r \in Requests, NEW k \in Tokens, NEW exp \in BOOLEAN, AcquireToken(r, k, exp)
      PROVE  TokensInv'
  <2> DEFINE t == TenantOf[r]
             o == [id |-> k, tenant |-> t]
  <2>1. /\ pc[r] = "idle" /\ k \in available /\ available' = available \ {k}
        /\ acquired' = [acquired EXCEPT ![k] = r]
        /\ expiring' \subseteq expiring \cup {k}
        /\ pc' = [pc EXCEPT ![r] = "held"] /\ token' = [token EXCEPT ![r] = o]
        /\ tenantTokens' = [tenantTokens EXCEPT ![t] = tenantTokens[t] \cup {k}]
        /\ revoked' = revoked \ {r} /\ UNCHANGED <<waiting, limit>>
        /\ t \in Tenants /\ acquired[k] = Nobody
    BY <1>0, <1>2 DEF AcquireToken, PoolPartition
  <2>2. o \in [id : Tokens, tenant : Tenants] /\ o \in TokenObjects
    BY <2>1 DEF TokenObjects
  <2> HIDE DEF o, t
  <2>3. TokensTypeOK'
    BY <1>0, <2>1, <2>2 DEF TokensTypeOK, PcStates
  <2>4. PoolPartition'
    BY <1>0, <2>1 DEF PoolPartition
  <2>5. AcquiredIsCharged'
    BY <1>0, <2>1 DEF AcquiredIsCharged, AcquiredBy, t
  <2>6. Shapes'
    BY <1>0, <2>1, <2>2 DEF Shapes
  <2>7. Matches(waiting', pc')
    BY <1>0, <2>1 DEF Matches
  <2> QED BY <1>a, <2>3, <2>4, <2>5, <2>6, <2>7
<1>3. ASSUME NEW r \in Requests, WaitForToken(r) PROVE TokensInv'
  <2>1. /\ pc[r] = "idle" /\ waiting' = Append(waiting, r)
        /\ pc' = [pc EXCEPT ![r] = "waiting"] /\ revoked' = revoked \ {r}
        /\ UNCHANGED <<available, acquired, expiring, token, tenantTokens, limit>>
    BY <1>3 DEF WaitForToken
  <2>2. /\ waiting' \in Seq(Requests) /\ Len(waiting') = Len(waiting) + 1
        /\ \A i \in 1..Len(waiting) : waiting'[i] = waiting[i]
        /\ waiting'[Len(waiting) + 1] = r
    BY <1>0, <2>1, AppendProperties
  <2>3. \A i \in 1..Len(waiting) : waiting[i] # r
    BY <1>0, <2>1 DEF Matches
  <2>4. \A i \in 1..(Len(waiting) + 1) : i \in 1..Len(waiting) \/ i = Len(waiting) + 1
    BY <1>c
  <2>5. 1..Len(waiting) \subseteq 1..(Len(waiting) + 1) /\ Len(waiting) + 1 \in 1..(Len(waiting) + 1)
    BY <1>c
  <2>6. \A i, j \in 1..(Len(waiting) + 1) : waiting'[i] = waiting'[j] => i = j
    <3> SUFFICES ASSUME NEW i \in 1..(Len(waiting) + 1), NEW j \in 1..(Len(waiting) + 1),
                        waiting'[i] = waiting'[j]
                 PROVE  i = j
      OBVIOUS
    <3>1. CASE i \in 1..Len(waiting) /\ j \in 1..Len(waiting)
      BY <1>0, <2>2, <3>1 DEF Matches
    <3>2. CASE i \in 1..Len(waiting) /\ j = Len(waiting) + 1
      BY <2>2, <2>3, <3>2
    <3>3. CASE i = Len(waiting) + 1 /\ j \in 1..Len(waiting)
      BY <2>2, <2>3, <3>3
    <3> QED BY <2>4, <3>1, <3>2, <3>3
  <2>7. ASSUME NEW x \in Requests
        PROVE  /\ pc'[x] = "waiting" => \E i \in 1..(Len(waiting) + 1) : waiting'[i] = x
               /\ pc'[x] \in {"idle", "granted", "held"} =>
                    \A i \in 1..(Len(waiting) + 1) : waiting'[i] # x
    <3>1. CASE x = r
      BY <1>0, <2>1, <2>2, <2>5, <3>1
    <3>2. CASE x # r
      <4>1. pc'[x] = pc[x]
        BY <1>0, <2>1, <3>2
      <4>2. pc[x] = "waiting" => \E i \in 1..Len(waiting) : waiting[i] = x
        BY <1>0 DEF Matches
      <4>3. pc[x] \in {"idle", "granted", "held"} => \A i \in 1..Len(waiting) : waiting[i] # x
        BY <1>0 DEF Matches
      <4>4. pc[x] \in {"idle", "granted", "held"} =>
              \A i \in 1..(Len(waiting) + 1) : waiting'[i] # x
        BY <2>2, <2>4, <3>2, <4>3
      <4> QED BY <2>2, <2>5, <4>1, <4>2, <4>4
    <3> QED BY <3>1, <3>2
  <2>8. Matches(waiting', pc')
    BY <2>2, <2>6, <2>7 DEF Matches
  <2>9. TokensTypeOK' /\ PoolPartition' /\ AcquiredIsCharged' /\ Shapes'
    <3>1. TokensTypeOK'
      BY <1>0, <2>1, <2>2 DEF TokensTypeOK, PcStates
    <3>2. PoolPartition' /\ AcquiredIsCharged' /\ Shapes'
      BY <1>0, <2>1 DEF PoolPartition, AcquiredIsCharged, AcquiredBy, Shapes
    <3> QED BY <3>1, <3>2
  <2> QED BY <1>a, <2>8, <2>9
<1>4. ASSUME NEW r \in Requests, WaitTimesOut(r) PROVE TokensInv'
  <2>1. /\ pc' = [pc EXCEPT ![r] = "expired"]
        /\ UNCHANGED <<available, acquired, expiring, waiting, token, tenantTokens, limit, revoked>>
    BY <1>4 DEF WaitTimesOut, pool
  <2>2. TokensTypeOK' /\ PoolPartition' /\ AcquiredIsCharged'
    BY <1>0, <2>1 DEF TokensTypeOK, PcStates, PoolPartition, AcquiredIsCharged, AcquiredBy
  <2>3. Shapes' /\ Matches(waiting', pc')
    BY <1>0, <2>1 DEF Shapes, Matches
  <2> QED BY <1>a, <2>2, <2>3
<1>5. ASSUME NEW r \in Requests, ResumeTimedOut(r) PROVE TokensInv'
  <2>1. /\ pc[r] = "expired" /\ pc' = [pc EXCEPT ![r] = "idle"]
        /\ UNCHANGED <<available, acquired, expiring, token, tenantTokens, limit, revoked>>
    BY <1>5 DEF ResumeTimedOut
  <2>2. PoolPartition' /\ AcquiredIsCharged' /\ Shapes'
    BY <1>0, <2>1 DEF PoolPartition, AcquiredIsCharged, AcquiredBy, Shapes
  <2>3. CASE r \notin Elems(waiting) /\ UNCHANGED waiting
    <3>1. TokensTypeOK'
      BY <1>0, <2>1, <2>3 DEF TokensTypeOK, PcStates
    <3>2. Matches(waiting', pc')
      BY <1>0, <1>c, <2>1, <2>3 DEF Matches, Elems
    <3> QED BY <1>a, <2>2, <3>1, <3>2
  <2>4. ASSUME NEW j \in DOMAIN waiting, waiting[j] = r, waiting' = RemoveAt(waiting, j)
        PROVE  TokensInv'
    <3>0. j \in 1..Len(waiting)
      BY <1>c, <2>4
    <3> DEFINE m == Len(waiting) - 1
               at(i) == IF i < j THEN i ELSE i + 1
    <3>1. /\ waiting' \in Seq(Requests) /\ Len(waiting') = m
          /\ \A i \in 1..m : waiting'[i] = IF i < j THEN waiting[i] ELSE waiting[i + 1]
      BY <1>0, <2>4, <3>0, Removed
    <3>2. \A i \in 1..m : at(i) \in 1..Len(waiting) /\ at(i) # j /\ waiting'[i] = waiting[at(i)]
      BY <1>c, <3>0, <3>1
    <3>3. \A i, l \in 1..m : at(i) = at(l) => i = l
      BY <1>c, <3>0
    <3>4. \A i \in 1..Len(waiting) : i # j => \E l \in 1..m : at(l) = i
      <4> SUFFICES ASSUME NEW i \in 1..Len(waiting), i # j PROVE \E l \in 1..m : at(l) = i
        OBVIOUS
      <4>1. CASE i < j
        <5>1. i \in 1..m /\ at(i) = i
          BY <1>c, <3>0, <4>1
        <5> QED BY <5>1
      <4>2. CASE i > j
        <5>1. i - 1 \in 1..m /\ at(i - 1) = i
          BY <1>c, <3>0, <4>2
        <5> QED BY <5>1
      <4> QED BY <3>0, <4>1, <4>2
    <3> HIDE DEF m, at
    <3>5. \A i, l \in 1..m : waiting'[i] = waiting'[l] => i = l
      <4> SUFFICES ASSUME NEW i \in 1..m, NEW l \in 1..m, waiting'[i] = waiting'[l] PROVE i = l
        OBVIOUS
      <4>1. at(i) = at(l)
        BY <1>0, <3>2 DEF Matches
      <4> QED BY <3>3, <4>1
    <3>6. \A i \in 1..m : waiting'[i] # r
      BY <1>0, <2>4, <3>0, <3>2 DEF Matches
    <3>7. ASSUME NEW x \in Requests
          PROVE  /\ pc'[x] = "waiting" => \E i \in 1..m : waiting'[i] = x
                 /\ pc'[x] \in {"idle", "granted", "held"} => \A i \in 1..m : waiting'[i] # x
      <4>1. CASE x = r
        BY <1>0, <2>1, <3>6, <4>1
      <4>2. CASE x # r
        <5>1. pc'[x] = pc[x]
          BY <1>0, <2>1, <4>2
        <5>2. ASSUME pc[x] = "waiting" PROVE \E i \in 1..m : waiting'[i] = x
          <6>1. PICK i \in 1..Len(waiting) : waiting[i] = x
            BY <1>0, <5>2 DEF Matches
          <6>2. i # j
            BY <2>4, <4>2, <6>1
          <6>3. PICK l \in 1..m : at(l) = i
            BY <3>4, <6>2
          <6> QED BY <3>2, <6>1, <6>3
        <5>3. ASSUME pc[x] \in {"idle", "granted", "held"} PROVE \A i \in 1..m : waiting'[i] # x
          BY <1>0, <3>2, <5>3 DEF Matches
        <5> QED BY <5>1, <5>2, <5>3
      <4> QED BY <4>1, <4>2
    <3>8. Matches(waiting', pc')
      BY <3>1, <3>5, <3>7 DEF Matches
    <3>9. TokensTypeOK'
      BY <1>0, <2>1, <3>1 DEF TokensTypeOK, PcStates
    <3> QED BY <1>a, <2>2, <3>8, <3>9
  <2> QED BY <1>5, <2>3, <2>4 DEF ResumeTimedOut
<1>6. ASSUME NEW r \in Requests, ResumeGranted(r) PROVE TokensInv'
  <2>1. /\ pc[r] = "granted" /\ pc' = [pc EXCEPT ![r] = "held"]
        /\ tenantTokens' = [tenantTokens EXCEPT ![TenantOf[r]] =
                                tenantTokens[TenantOf[r]] \cup {token[r].id}]
        /\ UNCHANGED <<available, acquired, expiring, waiting, token, limit, revoked>>
    BY <1>6 DEF ResumeGranted, pool
  <2>2. token[r].id \in Tokens /\ TenantOf[r] \in Tenants
    <3>1. token[r] \in [id : Tokens, tenant : Tenants]
      BY <1>0, <2>1 DEF Shapes
    <3> QED BY <3>1
  <2>3. TokensTypeOK'
    BY <1>0, <2>1, <2>2 DEF TokensTypeOK, PcStates
  <2>4. PoolPartition' /\ AcquiredIsCharged'
    BY <1>0, <2>1 DEF PoolPartition, AcquiredIsCharged, AcquiredBy
  <2>5. Shapes' /\ Matches(waiting', pc')
    BY <1>0, <2>1 DEF Shapes, Matches
  <2> QED BY <1>a, <2>3, <2>4, <2>5
<1>7. ASSUME NEW r \in Requests, ReleaseToken(r) PROVE TokensInv'
  <2> DEFINE k == token[r].id
             u == token[r].tenant
  <2>0. pc[r] = "held" /\ limit' = limit /\ revoked' = revoked
    BY <1>7 DEF ReleaseToken
  <2>1. k \in Tokens /\ u \in Tenants
    <3>1. token[r] \in [id : Tokens, tenant : Tenants]
      BY <1>0, <2>0 DEF Shapes
    <3> QED BY <3>1
  <2>2. NoToken \in TokenObjects
    BY DEF TokenObjects
  <2>3. CASE acquired[k] = Nobody
    <3>1. /\ pc' = [pc EXCEPT ![r] = "idle"] /\ token' = [token EXCEPT ![r] = NoToken]
          /\ UNCHANGED <<available, acquired, expiring, waiting, tenantTokens>>
      BY <1>7, <2>3 DEF ReleaseToken, pool
    <3>2. TokensTypeOK'
      BY <1>0, <2>0, <2>2, <3>1 DEF TokensTypeOK, PcStates
    <3>3. PoolPartition' /\ AcquiredIsCharged'
      BY <1>0, <3>1 DEF PoolPartition, AcquiredIsCharged, AcquiredBy
    <3>4. Shapes' /\ Matches(waiting', pc')
      BY <1>0, <2>0, <3>1 DEF Shapes, Matches
    <3> QED BY <1>a, <3>2, <3>3, <3>4
  <2>4. CASE acquired[k] # Nobody
    <3> DEFINE q == <<k>>
    <3>1. q \in Seq(Tokens) /\ Elems(q) = {k}
      BY <2>1 DEF Elems
    <3> HIDE DEF q
    <3>2. /\ ReleaseInPool(q) /\ pc' = [PcAfter(q) EXCEPT ![r] = "idle"]
          /\ token' = [TokenAfter(q) EXCEPT ![r] = NoToken]
          /\ tenantTokens' = [tenantTokens EXCEPT ![u] = tenantTokens[u] \ {k}]
      BY <1>7, <2>4 DEF ReleaseToken, q
    <3>3. /\ available' \subseteq Tokens /\ acquired' \in [Tokens -> Requests \cup {Nobody}]
          /\ expiring' \subseteq Tokens /\ PoolPartition'
          /\ \A l \in expiring' : acquired'[l] # Nobody
          /\ \A l \in Tokens : acquired'[l] = IF l \in Elems(q) THEN Nobody ELSE acquired[l]
          /\ waiting' \in Seq(Requests) /\ Matches(waiting', PcAfter(q))
          /\ PcAfter(q) \in [Requests -> PcStates]
          /\ TokenAfter(q) \in [Requests -> TokenObjects]
          /\ \A x \in Requests : PcAfter(q)[x] \in {"granted", "held"} =>
               TokenAfter(q)[x] \in [id : Tokens, tenant : Tenants]
          /\ \A x \in Requests : pc[x] # "waiting" => PcAfter(q)[x] = pc[x]
      BY <2>4, <3>1, <3>2, Releases
    <3> HIDE DEF k, u
    <3>4. TokensTypeOK'
      BY <1>0, <2>0, <2>1, <2>2, <3>2, <3>3 DEF TokensTypeOK, PcStates
    <3>5. AcquiredIsCharged'
      BY <1>0, <2>1, <3>1, <3>2, <3>3 DEF AcquiredIsCharged, AcquiredBy
    <3>6. Shapes'
      BY <3>2, <3>3 DEF Shapes
    <3>7. PcAfter(q)[r] = "held"
      BY <2>0, <3>3
    <3>8. Matches(waiting', pc')
      BY <3>2, <3>3, <3>7 DEF Matches
    <3> QED BY <1>a, <3>3, <3>4, <3>5, <3>6, <3>8
  <2> QED BY <2>3, <2>4
<1>8. ASSUME NEW q \in Seq(Tokens), \A k \in Elems(q) : acquired[k] # Nobody, ReleaseInPool(q),
             pc' = PcAfter(q), token' = TokenAfter(q), limit' = limit,
             revoked' = revoked \cup {acquired[k] : k \in Elems(q)},
             tenantTokens' \in [Tenants -> SUBSET Tokens],
             \A t \in Tenants : tenantTokens[t] \ Elems(q) \subseteq tenantTokens'[t]
      PROVE  TokensInv'
  <2>1. /\ available' \subseteq Tokens /\ acquired' \in [Tokens -> Requests \cup {Nobody}]
        /\ expiring' \subseteq Tokens /\ PoolPartition'
        /\ \A l \in expiring' : acquired'[l] # Nobody
        /\ \A l \in Tokens : acquired'[l] = IF l \in Elems(q) THEN Nobody ELSE acquired[l]
        /\ waiting' \in Seq(Requests) /\ Matches(waiting', PcAfter(q))
        /\ PcAfter(q) \in [Requests -> PcStates]
        /\ TokenAfter(q) \in [Requests -> TokenObjects]
        /\ \A x \in Requests : PcAfter(q)[x] \in {"granted", "held"} =>
             TokenAfter(q)[x] \in [id : Tokens, tenant : Tenants]
    BY <1>8, Releases
  <2>2. revoked' \subseteq Requests
    <3>1. Elems(q) \subseteq Tokens
      BY <1>8, ElementOfSeq, LenProperties DEF Elems
    <3> QED BY <1>0, <1>8, <3>1
  <2>3. TokensTypeOK'
    BY <1>0, <1>8, <2>1, <2>2 DEF TokensTypeOK, PcStates
  <2>4. AcquiredIsCharged'
    BY <1>0, <1>8, <2>1 DEF AcquiredIsCharged, AcquiredBy
  <2>5. Shapes'
    BY <1>8, <2>1 DEF Shapes
  <2>6. Matches(waiting', pc')
    BY <1>8, <2>1
  <2> QED BY <1>a, <2>1, <2>3, <2>4, <2>5, <2>6
<1>9. ASSUME NEW q \in Orders, CleanupExpiredTokens(q) PROVE TokensInv'
  <2>1. q \in Seq(Tokens)
    BY OrderIsSeq
  <2>2. \A k \in Elems(q) : acquired[k] # Nobody
    BY <1>0, <1>9 DEF CleanupExpiredTokens, Shapes
  <2> QED BY <1>0, <1>8, <1>9, <2>1, <2>2 DEF CleanupExpiredTokens
<1>10. ASSUME NEW t \in Tenants, NEW q \in Orders, ForceReleaseTenantTokens(t, q) PROVE TokensInv'
  <2>1. q \in Seq(Tokens)
    BY OrderIsSeq
  <2>2. \A k \in Elems(q) : acquired[k] # Nobody
    BY <1>10 DEF ForceReleaseTenantTokens
  <2>3. tenantTokens' = [tenantTokens EXCEPT ![t] = tenantTokens[t] \ Elems(q)]
    BY <1>10 DEF ForceReleaseTenantTokens
  <2>4. /\ tenantTokens' \in [Tenants -> SUBSET Tokens]
        /\ \A x \in Tenants : tenantTokens[x] \ Elems(q) \subseteq tenantTokens'[x]
    BY <1>0, <2>3
  <2> QED BY <1>8, <1>10, <2>1, <2>2, <2>4 DEF ForceReleaseTenantTokens
<1>11. CASE UNCHANGED tokenVars
  BY <1>11
  DEF tokenVars, pool, TokensInv, TokensAccounted, TokensTypeOK, PoolPartition, AcquiredIsCharged,
      AcquiredBy, QueueMatchesWaiters, Shapes
<1> QED
  BY <1>1, <1>2, <1>3, <1>4, <1>5, <1>6, <1>7, <1>9, <1>10, <1>11 DEF TokensNext

(* The inductive invariant holds throughout. *)
LEMMA TokensInductive == TokensSpec => []TokensInv
<1>1. TokensInit => TokensInv
  <2> SUFFICES ASSUME TokensInit PROVE TokensInv
    OBVIOUS
  <2>1. TokensTypeOK
    BY TokenAssumptions DEF TokensInit, TokensTypeOK, TokenObjects
  <2>2. PoolPartition /\ AcquiredIsCharged
    BY DEF TokensInit, PoolPartition, AcquiredIsCharged, AcquiredBy
  <2>3. QueueMatchesWaiters /\ Shapes
    BY DEF TokensInit, QueueMatchesWaiters, Shapes
  <2> QED BY <2>1, <2>2, <2>3 DEF TokensInv, TokensAccounted
<1> QED BY <1>1, TokensInvStep, PTL DEF TokensSpec

(* No token id is lost or issued twice, every issued one is charged to its tenant
   and every waiter is queued exactly once, in whatever order holders, waiters,
   time-outs, expiry and forced releases act. *)
THEOREM TokensAreAccounted == TokensSpec => []TokensAccounted
<1>1. TokensInv => TokensAccounted
  BY DEF TokensInv
<1> QED BY <1>1, TokensInductive, PTL

(* The pool issues a further token to a tenant only within its limit. *)
THEOREM LimitsAreKept == TokensSpec => IssuedWithinLimit
<1>1. TokensInv /\ [TokensNext]_tokenVars =>
        [\A t \in Tenants :
           /\ limit[t] # NoLimit
           /\ ~(AcquiredBy(t)' \subseteq AcquiredBy(t))
           => Cardinality(AcquiredBy(t)') <= limit[t]]_tokenVars
  <2> SUFFICES ASSUME TokensInv, TokensNext, NEW t \in Tenants, limit[t] # NoLimit,
                      ~(AcquiredBy(t)' \subseteq AcquiredBy(t))
               PROVE  Cardinality(AcquiredBy(t)') <= limit[t]
    OBVIOUS
  <2> USE TokenAssumptions
  <2>0. /\ acquired \in [Tokens -> Requests \cup {Nobody}] /\ limit[t] \in Nat
        /\ tenantTokens[t] \subseteq Tokens /\ AcquiredBy(t) \subseteq tenantTokens[t]
    BY DEF TokensInv, TokensAccounted, TokensTypeOK, AcquiredIsCharged
  <2>1. ASSUME \A k \in Tokens : acquired'[k] = acquired[k] \/ acquired'[k] = Nobody
        PROVE  AcquiredBy(t)' \subseteq AcquiredBy(t)
    BY <2>1 DEF AcquiredBy
  <2>2. ASSUME NEW q, ReleaseInPool(q)
        PROVE  \A k \in Tokens : acquired'[k] = acquired[k] \/ acquired'[k] = Nobody
    BY <2>2 DEF ReleaseInPool
  <2>3. PICK r \in Requests, k \in Tokens, exp \in BOOLEAN : AcquireToken(r, k, exp)
    BY <2>1, <2>2
    DEF TokensNext, SetTenantLimits, WaitForToken, WaitTimesOut, ResumeTimedOut, ResumeGranted,
        ReleaseToken, CleanupExpiredTokens, ForceReleaseTenantTokens, pool
  <2>4. acquired' = [acquired EXCEPT ![k] = r] /\ CheckTenantLimits(TenantOf[r])
    BY <2>3 DEF AcquireToken
  <2>5. AcquiredBy(t)' \subseteq AcquiredBy(t) \cup {k} /\ TenantOf[r] = t
    BY <2>0, <2>4 DEF AcquiredBy
  <2>6. IsFiniteSet(tenantTokens[t]) /\ Cardinality(tenantTokens[t]) \in Nat
    BY <2>0, FS_Subset, FS_CardinalityType
  <2>7. Cardinality(tenantTokens[t]) < limit[t]
    BY <2>4, <2>5 DEF CheckTenantLimits
  <2>8. /\ IsFiniteSet(tenantTokens[t] \cup {k})
        /\ Cardinality(tenantTokens[t] \cup {k}) <= Cardinality(tenantTokens[t]) + 1
    <3>1. /\ IsFiniteSet(tenantTokens[t] \cup {k})
          /\ Cardinality(tenantTokens[t] \cup {k}) =
               IF k \in tenantTokens[t] THEN Cardinality(tenantTokens[t])
               ELSE Cardinality(tenantTokens[t]) + 1
      BY <2>6, FS_AddElement
    <3> QED BY <2>6, <3>1
  <2>9. AcquiredBy(t)' \in SUBSET (tenantTokens[t] \cup {k})
    BY <2>0, <2>5
  <2>10. /\ Cardinality(AcquiredBy(t)') <= Cardinality(tenantTokens[t] \cup {k})
         /\ Cardinality(AcquiredBy(t)') \in Nat /\ Cardinality(tenantTokens[t] \cup {k}) \in Nat
    BY <2>8, <2>9, FS_Subset, FS_CardinalityType
  <2> QED BY <2>0, <2>6, <2>7, <2>8, <2>10
<1> QED BY <1>1, TokensInductive, PTL DEF TokensSpec, IssuedWithinLimit

-----------------------------------------------------------------------------
(* The circuit breaker, for any callers and any positive thresholds. *)

(* The inductive invariant: the set of probes is finite, which its size needs. *)
BreakerInv ==
  /\ CircuitTypeOK
  /\ ClosedBelowThreshold
  /\ IsFiniteSet(probes)
  /\ state = "HALF_OPEN" => Cardinality(probes) <= halfOpenCalls
  /\ state # "HALF_OPEN" => probes = {}

(* A call that leaves keeps the probes finite and no more numerous. *)
LEMMA LeaveProbes ==
  ASSUME NEW c, IsFiniteSet(probes)
  PROVE  /\ IsFiniteSet(probes \ {c})
         /\ Cardinality(probes \ {c}) \in Nat
         /\ Cardinality(probes) \in Nat
         /\ Cardinality(probes \ {c}) <= Cardinality(probes)
<1>1. /\ IsFiniteSet(probes \ {c})
      /\ Cardinality(probes \ {c}) = IF c \in probes THEN Cardinality(probes) - 1
                                                     ELSE Cardinality(probes)
  BY FS_RemoveElement
<1>2. Cardinality(probes) \in Nat /\ Cardinality(probes \ {c}) \in Nat
  BY <1>1, FS_CardinalityType
<1> QED BY <1>1, <1>2

(* A new probe adds one. *)
LEMMA EnterProbes ==
  ASSUME NEW c, IsFiniteSet(probes)
  PROVE  /\ IsFiniteSet(probes \cup {c})
         /\ Cardinality(probes \cup {c}) <= Cardinality(probes) + 1
         /\ Cardinality(probes \cup {c}) \in Nat
         /\ Cardinality(probes) \in Nat
<1>1. /\ IsFiniteSet(probes \cup {c})
      /\ Cardinality(probes \cup {c}) = IF c \in probes THEN Cardinality(probes)
                                                        ELSE Cardinality(probes) + 1
  BY FS_AddElement
<1>2. Cardinality(probes) \in Nat /\ Cardinality(probes \cup {c}) \in Nat
  BY <1>1, FS_CardinalityType
<1> QED BY <1>1, <1>2

(* Every action keeps the inductive invariant. *)
LEMMA BreakerStep == BreakerInv /\ [CircuitNext]_circuitVars => BreakerInv'
<1> SUFFICES ASSUME BreakerInv, [CircuitNext]_circuitVars PROVE BreakerInv'
  OBVIOUS
<1> USE BreakerAssumptions
<1>0. /\ CircuitTypeOK /\ ClosedBelowThreshold /\ IsFiniteSet(probes)
      /\ state = "HALF_OPEN" => Cardinality(probes) <= halfOpenCalls
      /\ state # "HALF_OPEN" => probes = {}
      /\ IsFiniteSet({}) /\ Cardinality({}) = 0
  BY FS_EmptySet DEF BreakerInv
<1>1. ASSUME NEW c \in Callers, Begin(c) PROVE BreakerInv'
  <2>1. CircuitTypeOK' /\ ClosedBelowThreshold'
    BY <1>0, <1>1 DEF Begin, Admit, Admits, CircuitTypeOK, ClosedBelowThreshold
  <2>2. CASE state = "CLOSED"
    BY <1>0, <1>1, <2>1, <2>2 DEF Begin, Admit, BreakerInv
  <2>3. CASE state = "OPEN"
    <3>1. /\ state' = "HALF_OPEN" /\ halfOpenCalls' = 1
          /\ probes' = {c}
      BY <1>1, <2>3 DEF Begin, Admit
    <3>2. IsFiniteSet({c}) /\ Cardinality({c}) = 1
      BY FS_Singleton
    <3> QED BY <2>1, <3>1, <3>2 DEF BreakerInv
  <2>4. CASE state = "HALF_OPEN"
    <3>1. /\ state' = "HALF_OPEN" /\ halfOpenCalls' = halfOpenCalls + 1
          /\ probes' = probes \cup {c}
      BY <1>1, <2>4 DEF Begin, Admit
    <3>2. halfOpenCalls \in Int
      BY <1>0 DEF CircuitTypeOK
    <3>3. /\ IsFiniteSet(probes \cup {c})
          /\ Cardinality(probes \cup {c}) <= Cardinality(probes) + 1
          /\ Cardinality(probes \cup {c}) \in Nat /\ Cardinality(probes) \in Nat
      BY <1>0, EnterProbes
    <3>4. Cardinality(probes') <= halfOpenCalls'
      BY <1>0, <2>4, <3>1, <3>2, <3>3
    <3>5. IsFiniteSet(probes')
      BY <3>1, <3>3
    <3> QED BY <2>1, <3>1, <3>4, <3>5 DEF BreakerInv
  <2> QED BY <1>0, <2>2, <2>3, <2>4 DEF CircuitTypeOK
<1>2. ASSUME NEW c \in Callers, Succeed(c) PROVE BreakerInv'
  <2>1. CircuitTypeOK' /\ ClosedBelowThreshold'
    BY <1>0, <1>2 DEF Succeed, OnSuccess, Leave, CircuitTypeOK, ClosedBelowThreshold
  <2>2. CASE state' = "HALF_OPEN"
    <3>1. /\ state = "HALF_OPEN" /\ halfOpenCalls' = halfOpenCalls
          /\ probes' = probes \ {c}
      BY <1>0, <1>2, <2>2 DEF Succeed, OnSuccess, Leave, CircuitTypeOK
    <3>2. halfOpenCalls \in Int
      BY <1>0 DEF CircuitTypeOK
    <3> QED BY <1>0, <2>1, <2>2, <3>1, <3>2, LeaveProbes DEF BreakerInv
  <2>3. CASE state' # "HALF_OPEN"
    BY <1>0, <1>2, <2>1, <2>3 DEF Succeed, Leave, BreakerInv
  <2> QED BY <2>2, <2>3
<1>3. ASSUME NEW c \in Callers, Fail(c) PROVE BreakerInv'
  <2>1. CircuitTypeOK' /\ ClosedBelowThreshold'
    <3>1. /\ failureCount' \in 0..FailureThreshold
          /\ state' \in {"CLOSED", "OPEN", "HALF_OPEN"}
          /\ ClosedBelowThreshold'
      BY <1>0, <1>3 DEF Fail, OnFailure, CircuitTypeOK, ClosedBelowThreshold
    <3>2. UNCHANGED <<successCount, halfOpenCalls>> /\ cooled' = FALSE
      BY <1>3 DEF Fail, OnFailure
    <3>3. inCall' \subseteq Callers /\ probes' \subseteq inCall'
      BY <1>0, <1>3 DEF Fail, Leave, CircuitTypeOK
    <3>4. cooled' \in BOOLEAN
      BY <3>2
    <3> QED BY <1>0, <3>1, <3>2, <3>3, <3>4 DEF CircuitTypeOK
  <2>2. state' # "HALF_OPEN"
    BY <1>0, <1>3 DEF Fail, OnFailure, CircuitTypeOK
  <2> QED BY <1>0, <1>3, <2>1, <2>2 DEF Fail, Leave, BreakerInv
<1>4. ASSUME NEW c \in Callers, Cancel(c) PROVE BreakerInv'
  <2>1. CircuitTypeOK' /\ ClosedBelowThreshold'
    BY <1>0, <1>4 DEF Cancel, breaker, CircuitTypeOK, ClosedBelowThreshold
  <2>2. /\ state' = state /\ halfOpenCalls' = halfOpenCalls /\ probes' = probes \ {c}
        /\ halfOpenCalls \in Int
    BY <1>0, <1>4 DEF Cancel, breaker, CircuitTypeOK
  <2> QED BY <1>0, <2>1, <2>2, LeaveProbes DEF BreakerInv
<1>5. CASE CoolDown
  BY <1>0, <1>5 DEF CoolDown, BreakerInv, CircuitTypeOK, ClosedBelowThreshold
<1>6. CASE UNCHANGED circuitVars
  BY <1>0, <1>6 DEF circuitVars, breaker, BreakerInv, CircuitTypeOK, ClosedBelowThreshold
<1> QED BY <1>1, <1>2, <1>3, <1>4, <1>5, <1>6 DEF CircuitNext, End

(* The inductive invariant holds initially. *)
LEMMA BreakerInitInv == CircuitInit => BreakerInv
<1> SUFFICES ASSUME CircuitInit PROVE BreakerInv
  OBVIOUS
<1>1. CircuitTypeOK
  <2>1. cooled \in BOOLEAN
    BY Zenon DEF CircuitInit, BreakerInit
  <2>2. /\ state = "CLOSED" /\ failureCount = 0 /\ successCount = 0 /\ halfOpenCalls = 0
        /\ inCall = {} /\ probes = {}
    BY DEF CircuitInit, BreakerInit
  <2> QED BY <2>1, <2>2, BreakerAssumptions DEF CircuitTypeOK
<1>2. ClosedBelowThreshold /\ IsFiniteSet(probes) /\ state = "CLOSED" /\ probes = {}
  BY BreakerAssumptions, FS_EmptySet DEF CircuitInit, BreakerInit, ClosedBelowThreshold
<1> QED BY <1>1, <1>2 DEF BreakerInv

(* The inductive invariant holds in every reachable state of the breaker. *)
LEMMA BreakerInductive == Safe => []BreakerInv
  BY BreakerInitInv, BreakerStep, PTL DEF Safe

(* Whatever calls report and however late, counts stay within their
   thresholds, a closed circuit is below its failure threshold and a half-open
   period never has more probes under way than it may admit. *)
THEOREM BreakerSafety == Safe => []ThresholdsHold
<1>1. BreakerInv => ThresholdsHold
  BY BreakerAssumptions DEF BreakerInv, CircuitTypeOK, ProbesWithinLimit, ThresholdsHold
<1> QED BY <1>1, BreakerInductive, PTL

(* No late result closes an open circuit. *)
THEOREM BreakerOrder == Safe => StatesInOrder
<1>1. [CircuitNext]_circuitVars =>
        [/\ state = "OPEN" => state' # "CLOSED"
         /\ state = "CLOSED" => state' # "HALF_OPEN"]_circuitVars
  BY DEF CircuitNext, End, Begin, Admit, Succeed, OnSuccess, Fail, OnFailure, Cancel,
         CoolDown, breaker
<1> QED BY <1>1, PTL DEF Safe, StatesInOrder
=============================================================================
