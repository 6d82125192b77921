----------------------------- MODULE Replication -----------------------------
(* libs/infrastructure: replication of streams and of databases between regions. *)
EXTENDS Integers, Sequences

-----------------------------------------------------------------------------
(***************************************************************************)
(* libs/infrastructure/nats_mirroring.py, for the mirroring of one stream: *)
(* its status, and the health check and sync tasks that write it.  A task  *)
(* is known to the manager only while its dictionary holds it; setup and   *)
(* resume put a new task there whether or not one is running.              *)
(*                                                                         *)
(* The counts of messages are left out: a health check stores the count    *)
(* before it compares the stored count with it, so its "No messages        *)
(* replicated" branch is never taken.                                      *)
(***************************************************************************)

CONSTANTS
  MirrorTargets,   \* the number of connected regions a health check asks
  MaxMirrorTasks   \* bound on the tasks ever created

ASSUME MirroringAssumptions == MirrorTargets \in Nat \ {0} /\ MaxMirrorTasks \in Nat

VARIABLES
  mirrorKnown,    \* the stream has an entry in mirroring_configs
  mirrorStatus,   \* status in mirroring_stats, or "none" before there is one
  mirrorTasks,    \* every task created: kind, whether it runs, and regions still to ask
  mirrorOwned,    \* the task in health_check_tasks and in sync_tasks, 0 for none
  mirrorOrphans,  \* history: a running task lost its place in the dictionary
  mirrorCommand   \* history: the last command that succeeded

mirrorVars ==
  <<mirrorKnown, mirrorStatus, mirrorTasks, mirrorOwned, mirrorOrphans, mirrorCommand>>

MirrorKinds == {"check", "sync"}
MirrorRuns(t) == mirrorTasks[t].runs

MirrorInit ==
  /\ mirrorKnown = FALSE /\ mirrorStatus = "none"
  /\ mirrorTasks = <<>> /\ mirrorOwned = [k \in MirrorKinds |-> 0]
  /\ mirrorOrphans = FALSE /\ mirrorCommand = "none"

(* _start_health_check and _start_sync_task; kinds leaves the sync task out when
   sync_interval_seconds is 0 *)
StartMirrorTasks(kinds) ==
  LET new == [k \in kinds |-> Len(mirrorTasks) + (IF k = "check" THEN 1 ELSE 2)]
      task(k) == [kind |-> k, runs |-> TRUE, left |-> 0]
  IN  /\ Len(mirrorTasks) + 2 <= MaxMirrorTasks
      /\ mirrorTasks' = mirrorTasks \o
           (IF "sync" \in kinds THEN <<task("check"), task("sync")>> ELSE <<task("check")>>)
      /\ mirrorOwned' = [k \in MirrorKinds |-> IF k \in kinds THEN new[k] ELSE mirrorOwned[k]]
      /\ mirrorOrphans' = (mirrorOrphans \/ \E k \in kinds : mirrorOwned[k] # 0)

(* setup_mirroring; when a mirror cannot be set up the configuration stays *)
SetupMirroring(ok, kinds) ==
  /\ mirrorKnown' = TRUE
  /\ IF ok THEN /\ mirrorStatus' = "active" /\ mirrorCommand' = "setup"
                /\ StartMirrorTasks(kinds)
     ELSE UNCHANGED <<mirrorStatus, mirrorCommand, mirrorTasks, mirrorOwned, mirrorOrphans>>

\* Seeded fault: only the health check is cancelled.
Cancelled_CheckOnly == {mirrorOwned["check"]}

\* the tasks that pause_mirroring and cleanup cancel
Cancelled == {mirrorOwned[k] : k \in MirrorKinds}

CancelMirrorTasks ==
  mirrorTasks' = [t \in DOMAIN mirrorTasks |->
                    IF t \in Cancelled THEN [mirrorTasks[t] EXCEPT !.runs = FALSE]
                    ELSE mirrorTasks[t]]

PauseMirroring ==
  /\ mirrorKnown
  /\ CancelMirrorTasks
  /\ mirrorOwned' = [k \in MirrorKinds |-> 0]
  /\ mirrorStatus' = IF mirrorStatus = "none" THEN "none" ELSE "paused"
  /\ mirrorCommand' = "pause"
  /\ UNCHANGED <<mirrorKnown, mirrorOrphans>>

ResumeMirroring(kinds) ==
  /\ mirrorKnown
  /\ StartMirrorTasks(kinds)
  /\ mirrorStatus' = IF mirrorStatus = "none" THEN "none" ELSE "active"
  /\ mirrorCommand' = "resume"
  /\ UNCHANGED mirrorKnown

(* A health check begins: it asks the regions one after the other.  Without
   statistics it fails, which is logged. *)
MirrorCheckBegins(t) ==
  /\ MirrorRuns(t) /\ mirrorTasks[t].kind = "check" /\ mirrorTasks[t].left = 0
  /\ mirrorStatus # "none"
  /\ mirrorTasks' = [mirrorTasks EXCEPT ![t].left = MirrorTargets]
  /\ UNCHANGED <<mirrorKnown, mirrorStatus, mirrorOwned, mirrorOrphans, mirrorCommand>>

(* stream_info returns or raises *)
MirrorRegionAnswers(t, ok) ==
  /\ MirrorRuns(t) /\ mirrorTasks[t].left > 0
  /\ mirrorTasks' = [mirrorTasks EXCEPT ![t].left = @ - 1]
  /\ mirrorStatus' = IF ok THEN "active" ELSE "failed"
  /\ UNCHANGED <<mirrorKnown, mirrorOwned, mirrorOrphans, mirrorCommand>>

(* _perform_sync does not wait: SYNCING is not seen by anyone *)
PerformMirrorSync(t) ==
  /\ MirrorRuns(t) /\ mirrorTasks[t].kind = "sync" /\ mirrorStatus # "none"
  /\ mirrorStatus' = "active"
  /\ UNCHANGED <<mirrorKnown, mirrorTasks, mirrorOwned, mirrorOrphans, mirrorCommand>>

MirrorNext ==
  \/ \E kinds \in {{"check"}, MirrorKinds} :
       \/ \E ok \in BOOLEAN : SetupMirroring(ok, kinds)
       \/ ResumeMirroring(kinds)
  \/ PauseMirroring
  \/ \E t \in DOMAIN mirrorTasks :
       \/ MirrorCheckBegins(t)
       \/ \E ok \in BOOLEAN : MirrorRegionAnswers(t, ok)
       \/ PerformMirrorSync(t)

MirrorSpec == MirrorInit /\ [][MirrorNext]_mirrorVars

-----------------------------------------------------------------------------
(* A pause lasts: after pause_mirroring nothing runs and the status stays PAUSED
   until the next command, whatever the tasks were doing, as long as no running
   task was ever replaced by setup or resume. *)
PauseHolds ==
  mirrorCommand = "pause" /\ ~mirrorOrphans =>
    /\ \A t \in DOMAIN mirrorTasks : ~MirrorRuns(t)
    /\ mirrorStatus # "none" => mirrorStatus = "paused"

-----------------------------------------------------------------------------
(***************************************************************************)
(* libs/infrastructure/postgres_replication.py, for one database whose     *)
(* target region is connected.  pause, resume and the health check all use *)
(* the same asyncpg connection, which refuses an operation while another   *)
(* is under way; asyncpg and PostgreSQL are external and may fail.  Sync   *)
(* tasks do not wait and set ACTIVE.                                       *)
(***************************************************************************)

CONSTANT MaxReplicaTasks   \* bound on the tasks ever created

ASSUME ReplicationAssumptions == MaxReplicaTasks \in Nat

VARIABLES
  replicaStatus,   \* status in replication_stats
  replicaTasks,    \* every task created: kind, and "idle", "asking" or "cancelled"
  replicaOwned,    \* the task in health_check_tasks and in sync_tasks, 0 for none
  slot,            \* what the database was last told: active or inactive
  connection,      \* what uses it: "free" for nothing, "pause", "resume" or "check"
  replicaOrphans,  \* history: a running task lost its place in the dictionary
  replicaCommand   \* history: the last command that succeeded

replicaVars ==
  <<replicaStatus, replicaTasks, replicaOwned, slot, connection, replicaOrphans, replicaCommand>>
slotVars == <<slot, replicaOrphans, replicaCommand>>

ReplicaKinds == <<"check", "sync">>

ReplicaInit ==   \* after setup_replication
  /\ replicaStatus = "active"
  /\ replicaTasks = [i \in 1..2 |-> [kind |-> ReplicaKinds[i], state |-> "idle"]]
  /\ replicaOwned = <<1, 2>>
  /\ slot = "active" /\ connection = "free"
  /\ replicaOrphans = FALSE /\ replicaCommand = "setup"

(* pause_replication and resume_replication up to their statement; when the
   connection is busy it raises, and the command returns False *)
BeginCommand(c) ==
  /\ connection = "free"
  /\ connection' = c
  /\ UNCHANGED <<replicaStatus, replicaTasks, replicaOwned, slotVars>>

(* The statement fails, and the command returns False. *)
CommandFails ==
  /\ connection \in {"pause", "resume"}
  /\ connection' = "free"
  /\ UNCHANGED <<replicaStatus, replicaTasks, replicaOwned, slotVars>>

\* Seeded fault: sync tasks are not cancelled.
StopTask_Checks(task) ==
  IF task.kind = "sync" THEN task ELSE [task EXCEPT !.state = "cancelled"]

\* task.cancel()
StopTask(task) == [task EXCEPT !.state = "cancelled"]

(* The rest of pause_replication.  A health check has no statement under way: the
   connection was free when this command began. *)
PauseReplication ==
  /\ connection = "pause"
  /\ slot' = "inactive" /\ connection' = "free"
  /\ replicaTasks' = [t \in DOMAIN replicaTasks |->
                        IF t \in {replicaOwned[1], replicaOwned[2]}
                        THEN StopTask(replicaTasks[t]) ELSE replicaTasks[t]]
  /\ replicaOwned' = <<0, 0>>
  /\ replicaStatus' = "paused" /\ replicaCommand' = "pause"
  /\ UNCHANGED replicaOrphans

(* The rest of resume_replication *)
ResumeReplication ==
  /\ connection = "resume"
  /\ Len(replicaTasks) + 2 <= MaxReplicaTasks
  /\ slot' = "active" /\ connection' = "free"
  /\ replicaOrphans' = (replicaOrphans \/ replicaOwned # <<0, 0>>)
  /\ replicaOwned' = <<Len(replicaTasks) + 1, Len(replicaTasks) + 2>>
  /\ replicaTasks' = replicaTasks \o
       [i \in 1..2 |-> [kind |-> ReplicaKinds[i], state |-> "idle"]]
  /\ replicaStatus' = "active" /\ replicaCommand' = "resume"

(* _perform_health_check begins: it asks for the lag, or finds the connection
   busy, which it takes for a failure of the replication. *)
ReplicaCheckBegins(t) ==
  /\ replicaTasks[t].kind = "check" /\ replicaTasks[t].state = "idle"
  /\ IF connection = "free"
     THEN /\ connection' = "check"
          /\ replicaTasks' = [replicaTasks EXCEPT ![t].state = "asking"]
          /\ UNCHANGED replicaStatus
     ELSE replicaStatus' = "failed" /\ UNCHANGED <<connection, replicaTasks>>
  /\ UNCHANGED <<replicaOwned, slotVars>>

(* The answer: a lag within the limits, one that is not or an error, or no row
   for the slot, which changes nothing *)
ReplicaCheckAnswers(t, answer) ==
  /\ replicaTasks[t].state = "asking"
  /\ connection' = "free"
  /\ replicaTasks' = [replicaTasks EXCEPT ![t].state = "idle"]
  /\ replicaStatus' = CASE answer = "fine" -> "active"
                        [] answer = "bad" -> "failed"
                        [] answer = "none" -> replicaStatus
  /\ UNCHANGED <<replicaOwned, slotVars>>

PerformReplicaSync(t) ==
  /\ replicaTasks[t].kind = "sync" /\ replicaTasks[t].state = "idle"
  /\ replicaStatus' = "active"
  /\ UNCHANGED <<replicaTasks, replicaOwned, connection, slotVars>>

ReplicaNext ==
  \/ \E c \in {"pause", "resume"} : BeginCommand(c)
  \/ CommandFails \/ PauseReplication \/ ResumeReplication
  \/ \E t \in DOMAIN replicaTasks :
       \/ ReplicaCheckBegins(t)
       \/ \E answer \in {"fine", "bad", "none"} : ReplicaCheckAnswers(t, answer)
       \/ PerformReplicaSync(t)

ReplicaSpec == ReplicaInit /\ [][ReplicaNext]_replicaVars

-----------------------------------------------------------------------------
(* The database, the status and the tasks agree on a pause: the slot is inactive
   exactly when the last command that succeeded was a pause, and then, while no
   running task was ever replaced by a second resume, no task runs and the status
   is PAUSED until a resume succeeds. *)
SlotAndTasksAgree ==
  /\ (slot = "inactive") <=> (replicaCommand = "pause")
  /\ slot = "inactive" /\ ~replicaOrphans =>
       /\ \A t \in DOMAIN replicaTasks : replicaTasks[t].state = "cancelled"
       /\ replicaStatus = "paused"
  /\ (connection = "check") <=> \E t \in DOMAIN replicaTasks : replicaTasks[t].state = "asking"

=============================================================================
