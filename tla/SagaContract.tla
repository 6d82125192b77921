----------------------------- MODULE SagaContract -----------------------------
(***************************************************************************)
(* What libs/reliability/saga_manager.py promises a caller who never       *)
(* cancels: the steps are performed one by one; either all are and the     *)
(* saga commits, or a prefix is and the performed steps that have a        *)
(* callback are undone, last performed first, one at a time.  A cancelled  *)
(* saga is disowned: the contract says nothing more of it.                 *)
(***************************************************************************)
EXTENDS Integers

CONSTANTS Sagas, NumSteps

VARIABLES
  phase,   \* idle, forward, backward, committed, rolledback or disowned
  done,    \* how many steps have been performed
  owed     \* the performed steps that have to be undone and are not yet

vars == <<phase, done, owed>>

Init ==
  /\ phase = [s \in Sagas |-> "idle"]
  /\ done = [s \in Sagas |-> 0]
  /\ owed = [s \in Sagas |-> {}]

Open(s) ==
  /\ phase[s] = "idle"
  /\ phase' = [phase EXCEPT ![s] = "forward"]
  /\ UNCHANGED <<done, owed>>

Perform(s) ==
  /\ phase[s] = "forward"
  /\ done[s] < NumSteps
  /\ done' = [done EXCEPT ![s] = @ + 1]
  /\ phase' = [phase EXCEPT ![s] = IF done[s] + 1 = NumSteps THEN "committed" ELSE @]
  /\ UNCHANGED owed

\* Backward while something is owed, rolled back as soon as nothing is.
Owe(s, debt) ==
  /\ owed' = [owed EXCEPT ![s] = debt]
  /\ phase' = [phase EXCEPT ![s] = IF debt = {} THEN "rolledback" ELSE "backward"]
  /\ UNCHANGED done

Abort(s, debt) ==
  /\ phase[s] = "forward"
  /\ debt \in SUBSET (1..done[s])
  /\ Owe(s, debt)

Undo(s) ==
  /\ phase[s] = "backward"
  /\ \E i \in owed[s] : (\A j \in owed[s] : j <= i) /\ Owe(s, owed[s] \ {i})

Disown(s) ==
  /\ phase[s] = "forward"
  /\ phase' = [phase EXCEPT ![s] = "disowned"]
  /\ done' = [done EXCEPT ![s] = 0]
  /\ owed' = [owed EXCEPT ![s] = {}]

Progress(s) ==
  Perform(s) \/ Undo(s) \/ \E debt \in SUBSET (1..NumSteps) : Abort(s, debt)

Next == \E s \in Sagas : Open(s) \/ Disown(s) \/ Progress(s)

Safe == Init /\ [][Next]_vars
Spec == Safe /\ \A s \in Sagas : WF_vars(Progress(s))
=============================================================================
