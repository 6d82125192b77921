----------------------- MODULE CoordinatedCancellation -----------------------
(***************************************************************************)
(* libs/clients/http/coordinated_cancellation.py, for the requests of one  *)
(* tenant.  A cancellation is carried out by a task, its execution, which  *)
(* starts one task per service; cancel_all_tenant_requests gives a pending *)
(* cancellation another execution.  Sending the signal is the only point   *)
(* where these tasks wait; it is simulated in the code and may fail here.  *)
(*                                                                         *)
(* cleanup_completed_cancellations changes nothing: it uses timedelta,     *)
(* which the module does not import, and catches the NameError.  The lists *)
(* of cancelled services and the statistics are left out.                  *)
(***************************************************************************)
EXTENDS Integers, Sequences

CONSTANTS
  Cancellations,   \* cancellation ids
  CancelRequests,  \* request ids
  CancelServices,  \* what _determine_services_to_cancel answers
  MaxExecutions,   \* bound on the executions of one cancellation
  NoRequest        \* the id is not in use

VARIABLES
  cancelOf,     \* request_id of the entries of active_cancellations
  cancelStatus, \* their status
  executions    \* executions[c]: a stage per service for each execution of c

cancelVars == <<cancelOf, cancelStatus, executions>>

InUse == {c \in Cancellations : cancelOf[c] # NoRequest}

(* A service is "created" in an execution that has not started, "sending" while
   its signal is sent, "true" or "false" when _cancel_service_request has returned
   that, and "done" when the results of the execution have been gathered. *)
Started(c, i) == \A s \in CancelServices : executions[c][i][s] # "created"

CancelInit ==
  /\ cancelOf = [c \in Cancellations |-> NoRequest]
  /\ cancelStatus = [c \in Cancellations |-> "pending"]
  /\ executions = [c \in Cancellations |-> <<>>]

NewExecution == [s \in CancelServices |-> "created"]

(* initiate_cancellation; the id is a new uuid *)
InitiateCancellation(c, r) ==
  /\ cancelOf[c] = NoRequest
  /\ cancelOf' = [cancelOf EXCEPT ![c] = r]
  /\ executions' = [executions EXCEPT ![c] = <<NewExecution>>]
  /\ UNCHANGED cancelStatus

(* cancel_request_by_id, when the request has no cancellation yet *)
CancelRequestById(c, r) ==
  /\ \A d \in InUse : cancelOf[d] # r
  /\ InitiateCancellation(c, r)

\* the cancellations cancel_all_tenant_requests restarts
ToRestart == {c \in InUse : cancelStatus[c] = "pending"}

CancelAllTenantRequests ==
  /\ ToRestart # {}
  /\ \A c \in ToRestart : Len(executions[c]) < MaxExecutions
  /\ executions' = [c \in Cancellations |->
                      IF c \in ToRestart THEN Append(executions[c], NewExecution)
                      ELSE executions[c]]
  /\ UNCHANGED <<cancelOf, cancelStatus>>

(* _execute_coordinated_cancellation up to gather, with the beginning of each
   _cancel_service_request.  Executions start in the order of their creation. *)
StartExecution(c, i) ==
  /\ i \in DOMAIN executions[c] /\ ~Started(c, i)
  /\ \A j \in 1..(i - 1) : Started(c, j)
  /\ cancelStatus' = [cancelStatus EXCEPT ![c] = "in_progress"]
  /\ executions' = [executions EXCEPT ![c][i] = [s \in CancelServices |-> "sending"]]
  /\ UNCHANGED cancelOf

(* The signal is sent, or fails: _cancel_service_request catches the exception.
   The signal takes a timer, and timers run after the tasks that are ready. *)
SignalEnds(c, i, s, ok) ==
  /\ i \in DOMAIN executions[c] /\ executions[c][i][s] = "sending"
  /\ \A j \in DOMAIN executions[c] : Started(c, j)
  /\ executions' = [executions EXCEPT ![c][i][s] = IF ok THEN "true" ELSE "false"]
  /\ UNCHANGED <<cancelOf, cancelStatus>>

(* The rest of _execute_coordinated_cancellation.  A result is never an exception, so
   the services that answered False are listed as cancelled too, none is listed as
   failed, and the status is COMPLETED. *)
FinishExecution(c, i) ==
  /\ i \in DOMAIN executions[c]
  /\ \A s \in CancelServices : executions[c][i][s] \in {"true", "false"}
  /\ cancelStatus' = [cancelStatus EXCEPT ![c] = "completed"]
  /\ executions' = [executions EXCEPT ![c][i] = [s \in CancelServices |-> "done"]]
  /\ UNCHANGED cancelOf

Execute ==
  \E c \in Cancellations, i \in 1..MaxExecutions :
    \/ StartExecution(c, i) \/ FinishExecution(c, i)
    \/ \E s \in CancelServices, ok \in BOOLEAN : SignalEnds(c, i, s, ok)

CancelNext ==
  \/ \E c \in Cancellations, r \in CancelRequests :
       InitiateCancellation(c, r) \/ CancelRequestById(c, r)
  \/ CancelAllTenantRequests
  \/ Execute

(* The event loop runs every task that can run. *)
CancelFairness == WF_cancelVars(Execute)
CancelSpec == CancelInit /\ [][CancelNext]_cancelVars /\ CancelFairness

-----------------------------------------------------------------------------
(* Every cancellation that was initiated is carried out, and then stays COMPLETED,
   although a second execution of it may set IN_PROGRESS while the first is under
   way. *)
CancellationEnds ==
  \A c \in Cancellations : (c \in InUse) ~> [](cancelStatus[c] = "completed")
=============================================================================
