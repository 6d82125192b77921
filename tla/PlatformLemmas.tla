---------------------------- MODULE PlatformLemmas ----------------------------
(***************************************************************************)
(* Invariants of the parts of the platform that keep their state to        *)
(* themselves, for any constants: what each part's own steps preserve, and *)
(* what its invariant says.  PlatformProofs puts them together.            *)
(***************************************************************************)
EXTENDS DisasterRecovery, Replication, HedgedCalls, WebPages, EventService, RealtimeChat,
        ServiceHealth, Router, DataInduction,
        SequenceTheorems, FiniteSetTheorems, TLAPS

-----------------------------------------------------------------------------
(* Mirroring of a stream. *)

MirrorTask == [kind : MirrorKinds, runs : BOOLEAN, left : Nat]

\* Until a running task lost its place, every running task has its place; a pause
\* emptied the places, and nothing but a task writes the status after it.
MirrorInv ==
  /\ mirrorTasks \in Seq(MirrorTask)
  /\ mirrorOwned \in [MirrorKinds -> Nat]
  /\ mirrorOrphans \in BOOLEAN
  /\ mirrorOrphans \/ \A t \in DOMAIN mirrorTasks :
       mirrorTasks[t].runs => mirrorOwned[mirrorTasks[t].kind] = t
  /\ mirrorCommand = "pause" =>
       /\ \A k \in MirrorKinds : mirrorOwned[k] = 0
       /\ mirrorOrphans \/ mirrorStatus \in {"none", "paused"}

(* Without a place no task runs. *)
LEMMA NobodyRuns ==
  ASSUME MirrorInv, mirrorCommand = "pause", ~mirrorOrphans, NEW t \in DOMAIN mirrorTasks
  PROVE  ~mirrorTasks[t].runs
<1>1. t \in 1..Len(mirrorTasks) /\ mirrorTasks[t] \in MirrorTask
  BY LenProperties, ElementOfSeq DEF MirrorInv
<1> QED BY <1>1 DEF MirrorInv, MirrorTask

(* The first task of a stream is created by setup_mirroring. *)
LEMMA MirrorInvInit == MirrorInit => MirrorInv
<1>1. <<>> \in Seq(MirrorTask) /\ DOMAIN <<>> = {}
  BY EmptySeq
<1> SUFFICES ASSUME MirrorInit PROVE MirrorInv
  OBVIOUS
<1>2. mirrorTasks \in Seq(MirrorTask) /\ DOMAIN mirrorTasks = {}
  BY <1>1 DEF MirrorInit
<1>3. mirrorOwned \in [MirrorKinds -> Nat] /\ mirrorOrphans \in BOOLEAN /\ mirrorCommand # "pause"
  BY DEF MirrorInit
<1> QED BY <1>2, <1>3 DEF MirrorInv

(* A new task takes a place, and only a place that was taken makes an orphan. *)
LEMMA StartKeeps ==
  ASSUME MirrorInv, NEW kinds \in {{"check"}, MirrorKinds}, StartMirrorTasks(kinds),
         mirrorCommand' # "pause"
  PROVE  MirrorInv'
<1> DEFINE n == Len(mirrorTasks)
           NewTask(k) == [kind |-> k, runs |-> TRUE, left |-> 0]
           started == IF "sync" \in kinds THEN <<NewTask("check"), NewTask("sync")>> ELSE <<NewTask("check")>>
           new(k) == n + (IF k = "check" THEN 1 ELSE 2)
<1>0. kinds \subseteq MirrorKinds /\ "check" \in kinds /\ ("sync" \in kinds => kinds = MirrorKinds)
      /\ n \in Nat /\ mirrorTasks \in Seq(MirrorTask) /\ DOMAIN mirrorTasks = 1..n
  BY LenProperties DEF MirrorKinds, MirrorInv
<1>1. /\ mirrorTasks' = mirrorTasks \o started
      /\ mirrorOwned' = [k \in MirrorKinds |-> IF k \in kinds THEN new(k) ELSE mirrorOwned[k]]
      /\ mirrorOrphans' = (mirrorOrphans \/ \E k \in kinds : mirrorOwned[k] # 0)
  BY DEF StartMirrorTasks
<1>2. /\ started \in Seq(MirrorTask) /\ Len(started) \in 1..2
      /\ started[1] = NewTask("check") /\ (Len(started) = 2 => "sync" \in kinds /\ started[2] = NewTask("sync"))
  <2>1. NewTask("check") \in MirrorTask /\ NewTask("sync") \in MirrorTask
    BY DEF MirrorTask, MirrorKinds
  <2> HIDE DEF NewTask
  <2> QED BY <2>1 DEF started
<1> HIDE DEF started
<1>3. /\ mirrorTasks' \in Seq(MirrorTask) /\ Len(mirrorTasks') = n + Len(started)
      /\ \A t \in 1..(n + Len(started)) :
           mirrorTasks'[t] = IF t <= n THEN mirrorTasks[t] ELSE started[t - n]
  BY <1>0, <1>1, <1>2, ConcatProperties
<1>4. DOMAIN mirrorTasks' = 1..(n + Len(started))
  BY <1>3, LenProperties
<1>5. mirrorOwned' \in [MirrorKinds -> Nat] /\ mirrorOrphans' \in BOOLEAN
  <2>1. mirrorOwned' \in [MirrorKinds -> Nat]
    BY <1>0, <1>1 DEF MirrorInv
  <2> QED BY <1>1, <2>1
<1>6. ASSUME ~mirrorOrphans', NEW t \in DOMAIN mirrorTasks', mirrorTasks'[t].runs
      PROVE  mirrorOwned'[mirrorTasks'[t].kind] = t
  <2>1. ~mirrorOrphans /\ \A k \in kinds : mirrorOwned[k] = 0
    BY <1>1, <1>6
  <2>2. CASE t \in 1..n
    <3>0. mirrorTasks[t] \in MirrorTask
      BY <1>0, <2>2, ElementOfSeq
    <3>1. mirrorTasks'[t] = mirrorTasks[t] /\ mirrorTasks[t] \in MirrorTask
      BY <1>0, <1>2, <1>3, <2>2, <3>0
    <3>2. mirrorOwned[mirrorTasks[t].kind] = t
      BY <1>0, <1>6, <2>1, <2>2, <3>1 DEF MirrorInv
    <3>3. mirrorTasks[t].kind \in MirrorKinds \ kinds
      <4>1. t # 0 /\ mirrorTasks[t].kind \in MirrorKinds
        BY <1>0, <2>2, <3>1 DEF MirrorTask
      <4> QED BY <2>1, <3>2, <4>1
    <3> QED BY <1>1, <3>1, <3>2, <3>3
  <2>3. CASE t \notin 1..n
    <3>1. mirrorTasks'[t] = started[t - n] /\ t - n \in 1..Len(started) /\ t \in Nat
      BY <1>0, <1>2, <1>3, <1>4, <1>6, <2>3
    <3>2. CASE t - n = 1
      <4>1. mirrorTasks'[t].kind = "check" /\ t = n + 1
        BY <1>0, <1>2, <3>1, <3>2
      <4> QED BY <1>0, <1>1, <4>1 DEF MirrorKinds
    <3>3. CASE t - n = 2
      <4>1. mirrorTasks'[t].kind = "sync" /\ t = n + 2 /\ "sync" \in kinds
        BY <1>0, <1>2, <3>1, <3>3
      <4> QED BY <1>0, <1>1, <4>1 DEF MirrorKinds
    <3> QED BY <1>2, <3>1, <3>2, <3>3
  <2> QED BY <2>2, <2>3
<1> QED BY <1>3, <1>5, <1>6 DEF MirrorInv

(* A task that goes on touches its own progress and the status, and while a pause holds
   there is no such task. *)
LEMMA MirrorTaskKeeps ==
  ASSUME MirrorInv, NEW t \in DOMAIN mirrorTasks, mirrorTasks[t].runs, NEW left \in Nat,
         mirrorTasks' = mirrorTasks \/ mirrorTasks' = [mirrorTasks EXCEPT ![t].left = left],
         UNCHANGED <<mirrorOwned, mirrorOrphans, mirrorCommand>>
  PROVE  MirrorInv'
<1>0. /\ mirrorTasks \in Seq(MirrorTask) /\ Len(mirrorTasks) \in Nat
      /\ DOMAIN mirrorTasks = 1..Len(mirrorTasks)
  BY LenProperties DEF MirrorInv
<1>1. /\ mirrorTasks' \in Seq(MirrorTask) /\ DOMAIN mirrorTasks' = DOMAIN mirrorTasks
      /\ \A s \in DOMAIN mirrorTasks :
           /\ mirrorTasks'[s].runs = mirrorTasks[s].runs
           /\ mirrorTasks'[s].kind = mirrorTasks[s].kind
  <2>1. CASE mirrorTasks' = mirrorTasks
    BY <1>0, <2>1
  <2>2. CASE mirrorTasks' = [mirrorTasks EXCEPT ![t].left = left]
    <3>1. mirrorTasks[t] \in MirrorTask
      BY <1>0, ElementOfSeq
    <3>2. [mirrorTasks[t] EXCEPT !.left = left] \in MirrorTask
      BY <3>1 DEF MirrorTask
    <3>3. mirrorTasks' \in Seq(MirrorTask)
      BY <1>0, <2>2, <3>2, ExceptSeq
    <3> QED BY <1>0, <2>2, <3>1, <3>3 DEF MirrorTask
  <2> QED BY <2>1, <2>2
<1>2. mirrorCommand # "pause" \/ mirrorOrphans
  BY NobodyRuns DEF MirrorInv
<1> QED BY <1>1, <1>2 DEF MirrorInv

(* pause_mirroring cancels every task that has a place, so nobody runs. *)
LEMMA PauseKeeps ==
  ASSUME MirrorInv, PauseMirroring
  PROVE  MirrorInv'
<1>0. /\ mirrorTasks \in Seq(MirrorTask) /\ Len(mirrorTasks) \in Nat
      /\ DOMAIN mirrorTasks = 1..Len(mirrorTasks)
  BY LenProperties DEF MirrorInv
<1>1. /\ mirrorTasks' = [t \in 1..Len(mirrorTasks) |->
                           IF t \in Cancelled THEN [mirrorTasks[t] EXCEPT !.runs = FALSE]
                           ELSE mirrorTasks[t]]
      /\ mirrorOwned' = [k \in MirrorKinds |-> 0]
      /\ mirrorStatus' \in {"none", "paused"} /\ UNCHANGED mirrorOrphans
  BY <1>0 DEF PauseMirroring, CancelMirrorTasks
<1>2. ASSUME NEW t \in 1..Len(mirrorTasks)
      PROVE  /\ mirrorTasks'[t] \in MirrorTask
             /\ mirrorTasks'[t].runs => mirrorTasks[t].runs /\ t \notin Cancelled
             /\ mirrorTasks'[t].kind = mirrorTasks[t].kind /\ mirrorTasks[t].kind \in MirrorKinds
  <2>1. mirrorTasks[t] \in MirrorTask
    BY <1>0, ElementOfSeq
  <2>2. CASE t \in Cancelled
    <3>1. mirrorTasks'[t] = [mirrorTasks[t] EXCEPT !.runs = FALSE]
      BY <1>1, <2>2
    <3> QED BY <2>1, <3>1 DEF MirrorTask
  <2>3. CASE t \notin Cancelled
    <3>1. mirrorTasks'[t] = mirrorTasks[t]
      BY <1>1, <2>3
    <3> QED BY <2>1, <2>3, <3>1 DEF MirrorTask
  <2> QED BY <2>2, <2>3
<1>3. mirrorTasks' \in Seq(MirrorTask) /\ DOMAIN mirrorTasks' = 1..Len(mirrorTasks)
  <2>1. \A t \in 1..Len(mirrorTasks) : mirrorTasks'[t] \in MirrorTask
    BY <1>2
  <2> QED BY <1>0, <1>1, <2>1, IsASeq
<1>4. mirrorOrphans \/ \A t \in DOMAIN mirrorTasks' : ~mirrorTasks'[t].runs
  BY <1>0, <1>2, <1>3 DEF MirrorInv, Cancelled
<1> QED BY <1>1, <1>3, <1>4 DEF MirrorInv

(* Every step of the mirroring keeps the invariant. *)
LEMMA MirrorInvStep == MirrorInv /\ [MirrorNext]_mirrorVars => MirrorInv'
<1> SUFFICES ASSUME MirrorInv, [MirrorNext]_mirrorVars PROVE MirrorInv'
  OBVIOUS
<1>1. ASSUME NEW kinds \in {{"check"}, MirrorKinds},
             ResumeMirroring(kinds) \/ \E ok \in BOOLEAN : SetupMirroring(ok, kinds)
      PROVE  MirrorInv'
  <2>1. CASE StartMirrorTasks(kinds) /\ mirrorCommand' # "pause"
    BY <2>1, StartKeeps
  <2>2. CASE UNCHANGED <<mirrorStatus, mirrorCommand, mirrorTasks, mirrorOwned, mirrorOrphans>>
    BY <2>2 DEF MirrorInv
  <2> QED BY <1>1, <2>1, <2>2 DEF ResumeMirroring, SetupMirroring
<1>2. ASSUME NEW t \in DOMAIN mirrorTasks,
             \/ MirrorCheckBegins(t) \/ PerformMirrorSync(t)
             \/ \E ok \in BOOLEAN : MirrorRegionAnswers(t, ok)
      PROVE  MirrorInv'
  <2>0. mirrorTasks[t] \in MirrorTask
    BY ElementOfSeq, LenProperties DEF MirrorInv
  <2>1. CASE MirrorCheckBegins(t)
    <3>1. MirrorTargets \in Nat
      BY MirroringAssumptions
    <3> QED BY <2>1, <3>1, MirrorTaskKeeps DEF MirrorCheckBegins, MirrorRuns
  <2>2. CASE PerformMirrorSync(t)
    <3>1. 0 \in Nat
      OBVIOUS
    <3> QED BY <2>2, <3>1, MirrorTaskKeeps DEF PerformMirrorSync, MirrorRuns
  <2>3. CASE \E ok \in BOOLEAN : MirrorRegionAnswers(t, ok)
    <3>1. mirrorTasks[t].left - 1 \in Nat
      BY <2>0, <2>3 DEF MirrorRegionAnswers, MirrorTask
    <3>2. mirrorTasks' = [mirrorTasks EXCEPT ![t].left = mirrorTasks[t].left - 1]
      BY <2>3 DEF MirrorRegionAnswers
    <3> QED BY <2>3, <3>1, <3>2, MirrorTaskKeeps DEF MirrorRegionAnswers, MirrorRuns
  <2> QED BY <1>2, <2>1, <2>2, <2>3
<1>3. CASE UNCHANGED mirrorVars
  BY <1>3 DEF mirrorVars, MirrorInv
<1> QED BY <1>1, <1>2, <1>3, PauseKeeps DEF MirrorNext

(* A pause holds until the next command, for any number of tasks and regions. *)
LEMMA MirrorPauses == MirrorInv => PauseHolds
<1> SUFFICES ASSUME MirrorInv, mirrorCommand = "pause", ~mirrorOrphans
             PROVE  /\ \A t \in DOMAIN mirrorTasks : ~MirrorRuns(t)
                    /\ mirrorStatus # "none" => mirrorStatus = "paused"
  BY DEF PauseHolds
<1> QED BY NobodyRuns DEF MirrorInv, MirrorRuns

-----------------------------------------------------------------------------
(* Replication of a database. *)

ReplicaTask == [kind : {"check", "sync"}, state : {"idle", "asking", "cancelled"}]
IsAsking(t) == replicaTasks[t].state = "asking"

\* The connection lets one health check through at a time; until a running task lost its
\* place only the two that have one run; a pause emptied the places.
ReplicaInv ==
  /\ replicaTasks \in Seq(ReplicaTask)
  /\ replicaOwned \in Nat \X Nat /\ replicaOrphans \in BOOLEAN
  /\ (slot = "inactive") <=> (replicaCommand = "pause")
  /\ \A s, t \in DOMAIN replicaTasks : IsAsking(s) /\ IsAsking(t) => s = t
  /\ (connection = "check") <=> \E t \in DOMAIN replicaTasks : IsAsking(t)
  /\ replicaOrphans \/ \A t \in DOMAIN replicaTasks :
       replicaTasks[t].state # "cancelled" => t \in {replicaOwned[1], replicaOwned[2]}
  /\ replicaCommand = "pause" =>
       /\ replicaOwned = <<0, 0>>
       /\ replicaOrphans \/ replicaStatus = "paused"

(* Without a place every task is cancelled. *)
LEMMA AllCancelled ==
  ASSUME ReplicaInv, replicaCommand = "pause", ~replicaOrphans, NEW t \in DOMAIN replicaTasks
  PROVE  replicaTasks[t].state = "cancelled"
<1>1. t \in 1..Len(replicaTasks) /\ t # 0
  BY LenProperties DEF ReplicaInv
<1>2. replicaOwned[1] = 0 /\ replicaOwned[2] = 0
  BY DEF ReplicaInv
<1> QED BY <1>1, <1>2 DEF ReplicaInv

(* setup_replication starts one task of each kind. *)
LEMMA ReplicaInvInit == ReplicaInit => ReplicaInv
<1> SUFFICES ASSUME ReplicaInit PROVE ReplicaInv
  OBVIOUS
<1>1. \A i \in 1..2 : [kind |-> ReplicaKinds[i], state |-> "idle"] \in ReplicaTask
  BY DEF ReplicaKinds, ReplicaTask
<1>2. /\ replicaTasks = [i \in 1..2 |-> [kind |-> ReplicaKinds[i], state |-> "idle"]]
      /\ replicaOwned = <<1, 2>> /\ replicaOrphans = FALSE
      /\ slot # "inactive" /\ replicaCommand # "pause" /\ connection # "check"
  BY DEF ReplicaInit
<1>3. replicaTasks \in Seq(ReplicaTask)
  BY <1>1, <1>2, IsASeq
<1>4. DOMAIN replicaTasks = 1..2 /\ \A t \in 1..2 : replicaTasks[t].state = "idle"
  BY <1>2
<1>5. \A t \in 1..2 : t \in {replicaOwned[1], replicaOwned[2]}
  BY <1>2
<1>6. replicaOwned \in Nat \X Nat
  BY <1>2
<1> QED BY <1>2, <1>3, <1>4, <1>5, <1>6 DEF ReplicaInv, IsAsking

(* What a change of the state of task t, or of none, must respect: only the task that has
   the connection asks. *)
LEMMA ReplicaTaskKeeps ==
  ASSUME ReplicaInv, NEW t \in DOMAIN replicaTasks, replicaTasks[t].state # "cancelled",
         NEW to \in {"idle", "asking"},
         replicaTasks' = [replicaTasks EXCEPT ![t].state = to],
         (connection' = "check") <=> (to = "asking"),
         \A s \in DOMAIN replicaTasks : IsAsking(s) => s = t,
         UNCHANGED <<replicaOwned, slotVars>>
  PROVE  ReplicaInv'
<1>0. /\ replicaTasks \in Seq(ReplicaTask) /\ DOMAIN replicaTasks = 1..Len(replicaTasks)
  BY LenProperties DEF ReplicaInv
<1>1. replicaTasks[t] \in ReplicaTask
  BY <1>0, ElementOfSeq
<1>2. [replicaTasks[t] EXCEPT !.state = to] \in ReplicaTask
  BY <1>1 DEF ReplicaTask
<1>3. replicaTasks' \in Seq(ReplicaTask)
  BY <1>0, <1>2, ExceptSeq
<1>4. /\ DOMAIN replicaTasks' = DOMAIN replicaTasks /\ replicaTasks'[t].state = to
      /\ \A s \in DOMAIN replicaTasks : s # t => replicaTasks'[s] = replicaTasks[s]
  BY <1>1 DEF ReplicaTask
<1>5. replicaCommand # "pause" \/ replicaOrphans
  BY AllCancelled DEF ReplicaInv
<1>6. UNCHANGED <<slot, replicaOrphans, replicaCommand, replicaOwned>>
  BY DEF slotVars
<1>7. /\ \A s \in DOMAIN replicaTasks' : IsAsking(s)' <=> s = t /\ to = "asking"
  BY <1>4 DEF IsAsking
<1>8. replicaOrphans' \/ \A s \in DOMAIN replicaTasks' :
        replicaTasks'[s].state # "cancelled" => s \in {replicaOwned'[1], replicaOwned'[2]}
  BY <1>4, <1>6 DEF ReplicaInv
<1>9. (connection' = "check") <=> \E s \in DOMAIN replicaTasks' : IsAsking(s)'
  BY <1>4, <1>7
<1>10. \A s, r \in DOMAIN replicaTasks' : IsAsking(s)' /\ IsAsking(r)' => s = r
  BY <1>7
<1> QED BY <1>3, <1>5, <1>6, <1>8, <1>9, <1>10 DEF ReplicaInv

(* pause_replication has the connection, so no health check is asking, and it cancels
   the tasks that have a place. *)
LEMMA PauseReplicationKeeps ==
  ASSUME ReplicaInv, PauseReplication
  PROVE  ReplicaInv'
<1>0. /\ replicaTasks \in Seq(ReplicaTask) /\ Len(replicaTasks) \in Nat
      /\ DOMAIN replicaTasks = 1..Len(replicaTasks)
  BY LenProperties DEF ReplicaInv
<1>1. /\ replicaTasks' = [t \in 1..Len(replicaTasks) |->
                            IF t \in {replicaOwned[1], replicaOwned[2]}
                            THEN StopTask(replicaTasks[t]) ELSE replicaTasks[t]]
      /\ replicaOwned' = <<0, 0>> /\ replicaStatus' = "paused" /\ replicaCommand' = "pause"
      /\ slot' = "inactive" /\ connection' = "free" /\ UNCHANGED replicaOrphans
      /\ connection = "pause"
  BY <1>0 DEF PauseReplication
<1>2. ASSUME NEW t \in 1..Len(replicaTasks)
      PROVE  /\ replicaTasks'[t] \in ReplicaTask /\ replicaTasks'[t].state # "asking"
             /\ replicaTasks'[t].state # "cancelled" =>
                  /\ replicaTasks[t].state # "cancelled"
                  /\ t \notin {replicaOwned[1], replicaOwned[2]}
  <2>1. replicaTasks[t] \in ReplicaTask
    BY <1>0, ElementOfSeq
  <2>2. replicaTasks[t].state # "asking"
    BY <1>0, <1>1 DEF ReplicaInv, IsAsking
  <2>3. CASE t \in {replicaOwned[1], replicaOwned[2]}
    <3>1. replicaTasks'[t] = [replicaTasks[t] EXCEPT !.state = "cancelled"]
      BY <1>1, <2>3 DEF StopTask
    <3> QED BY <2>1, <3>1 DEF ReplicaTask
  <2>4. CASE t \notin {replicaOwned[1], replicaOwned[2]}
    <3>1. replicaTasks'[t] = replicaTasks[t]
      BY <1>1, <2>4
    <3> QED BY <2>1, <2>2, <2>4, <3>1
  <2> QED BY <2>3, <2>4
<1>3. replicaTasks' \in Seq(ReplicaTask) /\ DOMAIN replicaTasks' = 1..Len(replicaTasks)
  <2>1. \A t \in 1..Len(replicaTasks) : replicaTasks'[t] \in ReplicaTask
    BY <1>2
  <2> QED BY <1>0, <1>1, <2>1, IsASeq
<1>4. replicaOrphans \/ \A t \in DOMAIN replicaTasks' : replicaTasks'[t].state = "cancelled"
  BY <1>0, <1>2, <1>3 DEF ReplicaInv
<1>5. \A t \in DOMAIN replicaTasks' : ~IsAsking(t)'
  BY <1>2, <1>3 DEF IsAsking
<1>6. replicaOwned' \in Nat \X Nat
  BY <1>1
<1> QED BY <1>1, <1>3, <1>4, <1>5, <1>6 DEF ReplicaInv

(* resume_replication starts two tasks and gives them the places. *)
LEMMA ResumeReplicationKeeps ==
  ASSUME ReplicaInv, ResumeReplication
  PROVE  ReplicaInv'
<1> DEFINE n == Len(replicaTasks)
           started == [i \in 1..2 |-> [kind |-> ReplicaKinds[i], state |-> "idle"]]
<1>0. /\ replicaTasks \in Seq(ReplicaTask) /\ n \in Nat /\ DOMAIN replicaTasks = 1..n
  BY LenProperties DEF ReplicaInv
<1>1. /\ replicaTasks' = replicaTasks \o started /\ replicaOwned' = <<n + 1, n + 2>>
      /\ replicaOrphans' = (replicaOrphans \/ replicaOwned # <<0, 0>>)
      /\ slot' = "active" /\ connection' = "free" /\ replicaCommand' = "resume"
      /\ connection = "resume"
  BY DEF ResumeReplication
<1>2. /\ started \in Seq(ReplicaTask) /\ Len(started) = 2
      /\ \A i \in 1..2 : started[i].state = "idle"
  <2>1. \A i \in 1..2 : [kind |-> ReplicaKinds[i], state |-> "idle"] \in ReplicaTask
    BY DEF ReplicaKinds, ReplicaTask
  <2>2. started \in Seq(ReplicaTask)
    BY <2>1, IsASeq
  <2>3. Len(started) = 2
    BY <2>2, LenProperties
  <2> QED BY <2>2, <2>3
<1> HIDE DEF started
<1>3. /\ replicaTasks' \in Seq(ReplicaTask) /\ Len(replicaTasks') = n + 2
      /\ \A t \in 1..(n + 2) :
           replicaTasks'[t] = IF t <= n THEN replicaTasks[t] ELSE started[t - n]
  <2>1. /\ replicaTasks \o started \in Seq(ReplicaTask)
        /\ Len(replicaTasks \o started) = Len(replicaTasks) + Len(started)
        /\ \A t \in 1..(Len(replicaTasks) + Len(started)) : (replicaTasks \o started)[t] =
             IF t <= Len(replicaTasks) THEN replicaTasks[t] ELSE started[t - Len(replicaTasks)]
    BY <1>0, <1>2, ConcatProperties
  <2> QED BY <1>1, <1>2, <2>1
<1>4. DOMAIN replicaTasks' = 1..(n + 2)
  BY <1>3, LenProperties
<1>5. \A t \in 1..(n + 2) :
        t \in 1..n \/ (t - n \in 1..2 /\ ~(t <= n) /\ t \in {n + 1, n + 2})
  BY <1>0
<1> HIDE DEF n
<1>6. ASSUME NEW t \in DOMAIN replicaTasks' PROVE ~IsAsking(t)'
  <2>1. CASE t \in 1..n
    <3>1. replicaTasks'[t] = replicaTasks[t]
      BY <1>0, <1>3, <1>4, <2>1
    <3> QED BY <1>0, <1>1, <2>1, <3>1 DEF ReplicaInv, IsAsking
  <2>2. CASE t \notin 1..n
    <3>1. replicaTasks'[t] = started[t - n] /\ t - n \in 1..2
      BY <1>3, <1>4, <1>5, <2>2
    <3> QED BY <1>2, <3>1 DEF IsAsking
  <2> QED BY <2>1, <2>2
<1>7. ASSUME NEW t \in DOMAIN replicaTasks', ~replicaOrphans', replicaTasks'[t].state # "cancelled"
      PROVE  t \in {n + 1, n + 2}
  <2>1. CASE t \in 1..n
    <3>1. replicaTasks'[t] = replicaTasks[t] /\ t # 0
      BY <1>0, <1>3, <1>4, <2>1
    <3>2. ~replicaOrphans /\ replicaOwned = <<0, 0>>
      BY <1>1, <1>7, Zenon
    <3>3. replicaOwned[1] = 0 /\ replicaOwned[2] = 0
      BY <3>2
    <3> QED BY <1>0, <1>7, <2>1, <3>1, <3>2, <3>3 DEF ReplicaInv
  <2> QED BY <1>4, <1>5, <2>1
<1>8. replicaOwned' \in Nat \X Nat /\ replicaOwned'[1] = n + 1 /\ replicaOwned'[2] = n + 2
  BY <1>0, <1>1
<1>9. replicaOrphans' \in BOOLEAN
  BY <1>1
<1>10. ~replicaOrphans' => \A t \in DOMAIN replicaTasks' :
         replicaTasks'[t].state # "cancelled" => t \in {replicaOwned'[1], replicaOwned'[2]}
  BY <1>7, <1>8
<1> QED BY <1>1, <1>3, <1>6, <1>8, <1>9, <1>10 DEF ReplicaInv

(* Every step of the replication keeps the invariant. *)
LEMMA ReplicaInvStep ==
  ASSUME ReplicaInv, [ReplicaNext]_replicaVars
  PROVE  ReplicaInv'
<1>1. CASE (\E c \in {"pause", "resume"} : BeginCommand(c)) \/ CommandFails
  <2>1. /\ UNCHANGED <<replicaStatus, replicaTasks, replicaOwned, slotVars>>
        /\ connection # "check" /\ connection' # "check"
    BY <1>1 DEF BeginCommand, CommandFails
  <2> QED BY <2>1 DEF ReplicaInv, IsAsking, slotVars
<1>2. ASSUME NEW t \in DOMAIN replicaTasks, ReplicaCheckBegins(t)
      PROVE  ReplicaInv'
  <2>1. CASE connection = "free"
    <3>1. \A s \in DOMAIN replicaTasks : ~IsAsking(s)
      BY <2>1 DEF ReplicaInv
    <3>2. /\ replicaTasks' = [replicaTasks EXCEPT ![t].state = "asking"]
          /\ connection' = "check" /\ replicaTasks[t].state # "cancelled"
          /\ UNCHANGED <<replicaOwned, slotVars>>
      BY <1>2, <2>1 DEF ReplicaCheckBegins
    <3> QED BY <3>1, <3>2, ReplicaTaskKeeps
  <2>2. CASE connection # "free"
    <3>1. replicaCommand # "pause" \/ replicaOrphans
      BY <1>2, AllCancelled DEF ReplicaCheckBegins
    <3>2. UNCHANGED <<replicaTasks, connection, replicaOwned, slot, replicaOrphans, replicaCommand>>
      BY <1>2, <2>2 DEF ReplicaCheckBegins, slotVars
    <3> QED BY <3>1, <3>2 DEF ReplicaInv, IsAsking
  <2> QED BY <2>1, <2>2
<1>3. ASSUME NEW t \in DOMAIN replicaTasks, NEW answer \in {"fine", "bad", "none"},
             ReplicaCheckAnswers(t, answer)
      PROVE  ReplicaInv'
  <2>1. /\ replicaTasks' = [replicaTasks EXCEPT ![t].state = "idle"]
        /\ connection' = "free" /\ IsAsking(t) /\ replicaTasks[t].state # "cancelled"
        /\ UNCHANGED <<replicaOwned, slotVars>>
    BY <1>3 DEF ReplicaCheckAnswers, IsAsking
  <2>2. \A s \in DOMAIN replicaTasks : IsAsking(s) => s = t
    BY <2>1 DEF ReplicaInv
  <2> QED BY <2>1, <2>2, ReplicaTaskKeeps
<1>4. ASSUME NEW t \in DOMAIN replicaTasks, PerformReplicaSync(t)
      PROVE  ReplicaInv'
  <2>1. replicaCommand # "pause" \/ replicaOrphans
    BY <1>4, AllCancelled DEF PerformReplicaSync
  <2>2. UNCHANGED <<replicaTasks, connection, replicaOwned, slot, replicaOrphans, replicaCommand>>
    BY <1>4 DEF PerformReplicaSync, slotVars
  <2> QED BY <2>1, <2>2 DEF ReplicaInv, IsAsking
<1>5. CASE UNCHANGED replicaVars
  BY <1>5 DEF replicaVars, ReplicaInv, IsAsking
<1> QED BY <1>1, <1>2, <1>3, <1>4, <1>5, PauseReplicationKeeps, ResumeReplicationKeeps
        DEF ReplicaNext

(* The invariant says what the run checks. *)
LEMMA ReplicaAgrees == ReplicaInv => SlotAndTasksAgree
<1> SUFFICES ASSUME ReplicaInv PROVE SlotAndTasksAgree
  OBVIOUS
<1>1. slot = "inactive" /\ ~replicaOrphans =>
        /\ \A t \in DOMAIN replicaTasks : replicaTasks[t].state = "cancelled"
        /\ replicaStatus = "paused"
  BY AllCancelled DEF ReplicaInv
<1>2. (connection = "check") <=> \E t \in DOMAIN replicaTasks : replicaTasks[t].state = "asking"
  BY DEF ReplicaInv, IsAsking
<1> QED BY <1>1, <1>2 DEF ReplicaInv, SlotAndTasksAgree

-----------------------------------------------------------------------------
(* Failovers of a service. *)

FailoverTask ==
  [stage : {"created", "routing", "configuring", "done", "failed", "cancelled"},
   target : BackupRegions \cup {PrimaryRegion}]

\* A failover does not overtake an earlier one, so what routing and the configuration
\* point to is what the last failover wrote once it has written it.
FailoverInv ==
  /\ tasks \in Seq(FailoverTask)
  /\ \A i, j \in DOMAIN tasks : i < j =>
       /\ tasks[j].stage \in {"configuring", "done"} => tasks[i].stage \notin {"created", "routing"}
       /\ tasks[j].stage = "done" => ~InProgress(i)
  /\ tasks = <<>> => routing = serviceConfig
  /\ tasks # <<>> =>
       /\ tasks[Len(tasks)].stage \in {"configuring", "done"} => routing = tasks[Len(tasks)].target
       /\ tasks[Len(tasks)].stage = "done" => serviceConfig = tasks[Len(tasks)].target

(* register_service starts no failover. *)
LEMMA FailoverInvInit == FailoverInit => FailoverInv
<1> SUFFICES ASSUME FailoverInit PROVE FailoverInv
  OBVIOUS
<1>1. tasks \in Seq(FailoverTask) /\ DOMAIN tasks = {}
  BY EmptySeq DEF FailoverInit
<1> QED BY <1>1 DEF FailoverInit, FailoverInv

(* What a failover in progress must respect when it enters its next stage. *)
LEMMA FailoverTaskKeeps ==
  ASSUME FailoverInv, NEW i \in DOMAIN tasks, NEW to \in FailoverTask,
         tasks' = [tasks EXCEPT ![i] = to],
         InProgress(i), to.stage # "created",
         to.stage = "routing" => tasks[i].stage = "created",
         to.stage \in {"configuring", "done"} => NotOvertaking(i, {"created", "routing"}),
         to.stage = "configuring" => tasks[i].stage = "routing",
         to.stage = "done" => NotOvertaking(i, {"created", "routing", "configuring"}),
         tasks[i].stage = "routing" \/ UNCHANGED routing,
         tasks[i].stage = "configuring" \/ UNCHANGED serviceConfig,
         i = Len(tasks) /\ to.stage \in {"configuring", "done"} => routing' = to.target,
         i = Len(tasks) /\ to.stage = "done" => serviceConfig' = to.target
  PROVE  FailoverInv'
<1>0. /\ tasks \in Seq(FailoverTask) /\ Len(tasks) \in Nat /\ DOMAIN tasks = 1..Len(tasks)
  BY LenProperties DEF FailoverInv
<1>1. tasks' \in Seq(FailoverTask) /\ Len(tasks') = Len(tasks)
  BY <1>0, ExceptSeq
<1>2. /\ DOMAIN tasks' = DOMAIN tasks /\ tasks'[i] = to /\ Len(tasks) \in DOMAIN tasks
      /\ \A j \in DOMAIN tasks : j # i => tasks'[j] = tasks[j]
      /\ tasks # <<>> /\ tasks' # <<>>
  BY <1>0
<1>3. \A j \in DOMAIN tasks : j < i => j \in 1..(i - 1)
  BY <1>0
<1>4. ASSUME NEW j \in DOMAIN tasks, NEW k \in DOMAIN tasks, j < k,
             tasks'[k].stage \in {"configuring", "done"}
      PROVE  tasks'[j].stage \notin {"created", "routing"}
  <2>1. CASE k = i
    <3>1. j # i /\ tasks'[j] = tasks[j] /\ tasks[j].stage \notin {"created", "routing"}
      BY <1>0, <1>2, <1>3, <1>4, <2>1 DEF NotOvertaking
    <3> QED BY <3>1
  <2>2. CASE k # i
    <3>1. tasks[j].stage \notin {"created", "routing"}
      BY <1>2, <1>4, <2>2 DEF FailoverInv
    <3> QED BY <1>2, <3>1
  <2> QED BY <2>1, <2>2
<1>5. ASSUME NEW j \in DOMAIN tasks, NEW k \in DOMAIN tasks, j < k, tasks'[k].stage = "done"
      PROVE  tasks'[j].stage \notin {"created", "routing", "configuring"}
  <2>1. CASE k = i
    <3>1. j # i /\ tasks'[j] = tasks[j]
          /\ tasks[j].stage \notin {"created", "routing", "configuring"}
      BY <1>0, <1>2, <1>3, <1>5, <2>1 DEF NotOvertaking
    <3> QED BY <3>1
  <2>2. CASE k # i
    <3>1. ~InProgress(j)
      BY <1>2, <1>5, <2>2 DEF FailoverInv
    <3>2. j # i /\ tasks'[j] = tasks[j]
      BY <1>2, <3>1
    <3> QED BY <3>1, <3>2 DEF InProgress
  <2> QED BY <2>1, <2>2
<1>6. CASE i = Len(tasks)
  BY <1>1, <1>2, <1>4, <1>5, <1>6 DEF FailoverInv, InProgress
<1>7. CASE i # Len(tasks)
  <2>1. i < Len(tasks) /\ tasks'[Len(tasks)] = tasks[Len(tasks)]
    BY <1>0, <1>2, <1>7
  <2>2. tasks[Len(tasks)].stage \in {"configuring", "done"} => UNCHANGED routing
    BY <1>2, <2>1 DEF FailoverInv
  <2>3. tasks[Len(tasks)].stage = "done" => UNCHANGED serviceConfig
    BY <1>2, <2>1 DEF FailoverInv, InProgress
  <2> QED BY <1>1, <1>2, <1>4, <1>5, <2>1, <2>2, <2>3 DEF FailoverInv, InProgress
<1> QED BY <1>6, <1>7

(* _trigger_failover adds a failover that has written nothing. *)
LEMMA TriggerKeeps ==
  ASSUME FailoverInv, TriggerFailover, UNCHANGED <<routing, serviceConfig>>
  PROVE  FailoverInv'
<1> DEFINE new == [stage |-> "created", target |-> PrimaryRegion]
           n == Len(tasks)
<1>0. /\ tasks \in Seq(FailoverTask) /\ n \in Nat /\ DOMAIN tasks = 1..n
  BY LenProperties DEF FailoverInv
<1>1. CASE UNCHANGED tasks
  BY <1>1 DEF FailoverInv, InProgress
<1>2. CASE tasks' = Append(tasks, new)
  <2>1. new \in FailoverTask
    BY DEF FailoverTask
  <2>2. /\ tasks' \in Seq(FailoverTask) /\ Len(tasks') = n + 1 /\ tasks'[n + 1] = new
        /\ \A j \in 1..n : tasks'[j] = tasks[j]
    BY <1>0, <1>2, <2>1, AppendProperties
  <2>3. DOMAIN tasks' = 1..(n + 1) /\ tasks' # <<>>
    BY <1>0, <2>2, LenProperties
  <2>4. tasks'[n + 1].stage = "created"
    BY <2>2
  <2>5. ASSUME NEW j \in 1..(n + 1), NEW k \in 1..(n + 1), j < k,
               tasks'[k].stage \in {"configuring", "done"}
        PROVE  /\ j \in DOMAIN tasks /\ k \in DOMAIN tasks
               /\ tasks'[j] = tasks[j] /\ tasks'[k] = tasks[k]
    <3>1. k # n + 1
      BY <2>4, <2>5
    <3>2. j \in 1..n /\ k \in 1..n
      BY <1>0, <2>5, <3>1
    <3> QED BY <1>0, <2>2, <3>2
  <2>6. \A j, k \in 1..(n + 1) : j < k =>
       /\ tasks'[k].stage \in {"configuring", "done"} => tasks'[j].stage \notin {"created", "routing"}
       /\ tasks'[k].stage = "done" => tasks'[j].stage \notin {"created", "routing", "configuring"}
    BY <2>5 DEF FailoverInv, InProgress
  <2> HIDE DEF new, n
  <2> QED BY <2>2, <2>3, <2>4, <2>6 DEF FailoverInv, InProgress
<1> QED BY <1>1, <1>2 DEF TriggerFailover

(* A failover's next step, whichever it is, does not write over a later one. *)
LEMMA RunFailoverKeeps ==
  ASSUME FailoverInv, RunFailover
  PROVE  FailoverInv'
<1>0. /\ tasks \in Seq(FailoverTask) /\ Len(tasks) \in Nat /\ DOMAIN tasks = 1..Len(tasks)
  BY LenProperties DEF FailoverInv
<1>t. \A i \in DOMAIN tasks : tasks[i] \in FailoverTask
  BY <1>0, ElementOfSeq
<1>n. \A i \in DOMAIN tasks : i = Len(tasks) => tasks # <<>>
  BY <1>0
<1>1. ASSUME NEW i \in DOMAIN tasks, NEW r \in BackupRegions \cup {PrimaryRegion},
             SelectBackup(i, r)
      PROVE  FailoverInv'
  <2>1. CASE r \in BackupRegions
    <3> DEFINE next == [stage |-> "routing", target |-> r]
    <3>1. next \in FailoverTask /\ next.stage = "routing"
      BY DEF FailoverTask
    <3>2. tasks' = [tasks EXCEPT ![i] = next] /\ tasks[i].stage = "created" /\ InProgress(i)
          /\ UNCHANGED <<routing, serviceConfig>>
      BY <1>1, <2>1 DEF SelectBackup, InProgress
    <3> HIDE DEF next
    <3> QED BY <3>1, <3>2, FailoverTaskKeeps
  <2>2. CASE r \notin BackupRegions
    <3> DEFINE next == [tasks[i] EXCEPT !.stage = "failed"]
    <3>1. next \in FailoverTask /\ next.stage = "failed"
      BY <1>t DEF FailoverTask
    <3>2. tasks' = [tasks EXCEPT ![i] = next] /\ InProgress(i)
          /\ UNCHANGED <<routing, serviceConfig>>
      BY <1>1, <2>2 DEF SelectBackup, InProgress
    <3> HIDE DEF next
    <3> QED BY <3>1, <3>2, FailoverTaskKeeps
  <2> QED BY <2>1, <2>2
<1>2. ASSUME NEW i \in DOMAIN tasks, NEW ready \in BOOLEAN, RoutingUpdated(i, ready)
      PROVE  FailoverInv'
  <2> DEFINE st == IF ready THEN "configuring" ELSE "failed"
             next == [tasks[i] EXCEPT !.stage = st]
  <2>0. st \in {"configuring", "failed"}
    OBVIOUS
  <2>1. /\ tasks' = [tasks EXCEPT ![i] = next] /\ tasks[i].stage = "routing" /\ InProgress(i)
        /\ NotOvertaking(i, {"created", "routing"})
        /\ routing' = tasks[i].target /\ UNCHANGED serviceConfig
    BY <1>2 DEF RoutingUpdated, InProgress
  <2> HIDE DEF st
  <2>2. next \in FailoverTask /\ next.stage = st /\ next.target = tasks[i].target
    BY <1>t, <2>0 DEF FailoverTask
  <2> HIDE DEF next
  <2> QED BY <2>0, <2>1, <2>2, FailoverTaskKeeps
<1>3. ASSUME NEW i \in DOMAIN tasks, NEW works \in BOOLEAN, ConfigUpdated(i, works)
      PROVE  FailoverInv'
  <2> DEFINE st == IF works THEN "done" ELSE "failed"
             next == [tasks[i] EXCEPT !.stage = st]
  <2>0. st \in {"done", "failed"}
    OBVIOUS
  <2>1. /\ tasks' = [tasks EXCEPT ![i] = next] /\ tasks[i].stage = "configuring" /\ InProgress(i)
        /\ NotOvertaking(i, {"created", "routing", "configuring"})
        /\ serviceConfig' = tasks[i].target /\ UNCHANGED routing
    BY <1>3 DEF ConfigUpdated, InProgress
  <2> HIDE DEF st
  <2>2. next \in FailoverTask /\ next.stage = st /\ next.target = tasks[i].target
    BY <1>t, <2>0 DEF FailoverTask
  <2> HIDE DEF next
  <2>3. NotOvertaking(i, {"created", "routing"})
    BY <2>1 DEF NotOvertaking
  <2>4. i = Len(tasks) => routing = tasks[i].target
    BY <1>n, <2>1 DEF FailoverInv
  <2> QED BY <2>0, <2>1, <2>2, <2>3, <2>4, FailoverTaskKeeps
<1> QED BY <1>1, <1>2, <1>3 DEF RunFailover

(* cleanup gives up the latest failover where it is. *)
LEMMA CleanupKeeps ==
  ASSUME FailoverInv, CleanupFailover
  PROVE  FailoverInv'
<1>0. /\ tasks \in Seq(FailoverTask) /\ Len(tasks) \in Nat /\ DOMAIN tasks = 1..Len(tasks)
  BY LenProperties DEF FailoverInv
<1>1. CASE tasks # <<>> /\ InProgress(Len(tasks))
  <2> DEFINE next == [tasks[Len(tasks)] EXCEPT !.stage = "cancelled"]
  <2>1. Len(tasks) \in DOMAIN tasks
    BY <1>0, <1>1, EmptySeq
  <2>2. tasks[Len(tasks)] \in FailoverTask
    BY <1>0, <2>1, ElementOfSeq
  <2>3. next \in FailoverTask /\ next.stage = "cancelled"
    BY <2>2 DEF FailoverTask
  <2>4. tasks' = [tasks EXCEPT ![Len(tasks)] = next] /\ UNCHANGED <<routing, serviceConfig>>
    BY <1>1 DEF CleanupFailover
  <2> HIDE DEF next
  <2> QED BY <1>1, <2>1, <2>3, <2>4, FailoverTaskKeeps
<1>2. CASE ~(tasks # <<>> /\ InProgress(Len(tasks)))
  BY <1>2 DEF CleanupFailover, FailoverInv, InProgress
<1> QED BY <1>1, <1>2

(* Every step of the failovers keeps the invariant. *)
LEMMA FailoverInvStep ==
  ASSUME FailoverInv, [FailoverNext]_failoverVars
  PROVE  FailoverInv'
<1>1. CASE ManualFailover
  BY <1>1, TriggerKeeps DEF ManualFailover
<1>2. CASE \E exceeded \in BOOLEAN : HealthCheckFails(exceeded)
  <2>1. UNCHANGED <<routing, serviceConfig>> /\ (TriggerFailover \/ UNCHANGED tasks)
    BY <1>2 DEF HealthCheckFails
  <2> QED BY <2>1, TriggerKeeps DEF FailoverInv, InProgress
<1>3. CASE HealthCheckPasses \/ CooldownPasses \/ UNCHANGED failoverVars
  BY <1>3 DEF HealthCheckPasses, CooldownPasses, failoverVars, FailoverInv, InProgress
<1> QED BY <1>1, <1>2, <1>3, RunFailoverKeeps, CleanupKeeps DEF FailoverNext

(* The invariant says what the run checks. *)
LEMMA FailoverWins == FailoverInv => LastFailoverWins
<1> SUFFICES ASSUME FailoverInv, \A i \in DOMAIN tasks : ~InProgress(i)
             PROVE  /\ tasks # <<>> /\ tasks[Len(tasks)].stage = "done" =>
                         routing = tasks[Len(tasks)].target /\ serviceConfig = routing
                    /\ routing # serviceConfig =>
                         \E i \in DOMAIN tasks : tasks[i].stage \in {"failed", "cancelled"}
  BY DEF LastFailoverWins
<1>1. tasks # <<>> /\ tasks[Len(tasks)].stage = "done" =>
        routing = tasks[Len(tasks)].target /\ serviceConfig = routing
  BY DEF FailoverInv
<1>2. ASSUME routing # serviceConfig
      PROVE  \E i \in DOMAIN tasks : tasks[i].stage \in {"failed", "cancelled"}
  <2>1. /\ tasks \in Seq(FailoverTask) /\ tasks # <<>>
    BY <1>2 DEF FailoverInv
  <2>2. Len(tasks) \in DOMAIN tasks
    BY <2>1, EmptySeq, LenProperties
  <2>3. tasks[Len(tasks)] \in FailoverTask
    BY <2>1, <2>2, ElementOfSeq
  <2> QED BY <1>1, <1>2, <2>1, <2>2, <2>3 DEF FailoverTask, InProgress
<1> QED BY <1>1, <1>2

-----------------------------------------------------------------------------
(* Hedged requests. *)

AttemptStates == {"none", "running", "ok", "failed", "cancelled"}

\* Attempts run only while their hedge waits; a hedge is known from its start until it is
\* withdrawn.
HedgeInv ==
  /\ hedge \in [Hedges -> {"new", "waiting", "raised"}]
  /\ attempt \in [Hedges -> [Targets -> AttemptStates]]
  /\ \A h \in Hedges :
       /\ hedge[h] # "waiting" => \A i \in Targets : attempt[h][i] # "running"
       /\ h \in withdrawn => hedge[h] # "new"
       /\ h \in activeHedges <=> hedge[h] # "new" /\ h \notin withdrawn

(* Nothing has been asked for yet. *)
LEMMA HedgeInvInit == HedgeInit => HedgeInv
BY DEF HedgeInit, HedgeInv, AttemptStates

(* Every step of a hedge keeps the invariant: above all, whoever ends it has stopped the
   attempts that lost. *)
LEMMA HedgeInvStep ==
  ASSUME HedgeInv, [HedgeNext]_hedgeVars
  PROVE  HedgeInv'
<1>1. ASSUME NEW h \in Hedges, HedgeParallel(h) PROVE HedgeInv'
  <2>1. attempt' \in [Hedges -> [Targets -> AttemptStates]]
    BY <1>1 DEF HedgeInv, HedgeParallel, AttemptStates
  <2> QED BY <1>1, <2>1 DEF HedgeInv, HedgeParallel
<1>2. ASSUME NEW h \in Hedges, HedgeStaggered(h) PROVE HedgeInv'
  BY <1>2 DEF HedgeInv, HedgeStaggered
<1>3. ASSUME NEW h \in Hedges, HedgeEnds(h) PROVE HedgeInv'
  <2>1. CASE attempt' = [attempt EXCEPT ![h] = AfterWin(h)]
    <3>1. /\ AfterWin(h) \in [Targets -> AttemptStates]
          /\ \A i \in Targets : AfterWin(h)[i] # "running"
      BY DEF HedgeInv, AfterWin, AttemptStates
    <3>2. attempt' \in [Hedges -> [Targets -> AttemptStates]]
      BY <2>1, <3>1 DEF HedgeInv
    <3> QED BY <1>3, <2>1, <3>1, <3>2 DEF HedgeInv, HedgeEnds
  <2>2. CASE Running(h) = {} /\ UNCHANGED attempt
    <3>1. \A i \in Targets : attempt[h][i] # "running"
      BY <2>2 DEF Running
    <3> QED BY <1>3, <2>2, <3>1 DEF HedgeInv, HedgeEnds
  <2> QED BY <1>3, <2>1, <2>2 DEF HedgeEnds
<1>4. ASSUME NEW h \in Hedges, CancelHedge(h) PROVE HedgeInv'
  BY <1>4 DEF HedgeInv, CancelHedge
<1>5. ASSUME NEW h \in Hedges, NEW i \in Targets, NEW ok \in BOOLEAN, AttemptEnds(h, i, ok)
      PROVE  HedgeInv'
  <2>1. attempt' \in [Hedges -> [Targets -> AttemptStates]]
    BY <1>5 DEF HedgeInv, AttemptEnds, AttemptStates
  <2>2. hedge[h] = "waiting"
    BY <1>5 DEF HedgeInv, AttemptEnds
  <2>3. \A g \in Hedges : g # h => attempt'[g] = attempt[g]
    BY <1>5 DEF HedgeInv, AttemptEnds
  <2> QED BY <1>5, <2>1, <2>2, <2>3 DEF HedgeInv, AttemptEnds
<1>6. CASE UNCHANGED hedgeVars
  BY <1>6 DEF hedgeVars, HedgeInv
<1> QED BY <1>1, <1>2, <1>3, <1>4, <1>5, <1>6 DEF HedgeNext

(* The invariant says what the run checks. *)
LEMMA HedgeInvLeavesNothing == HedgeInv => HedgeLeavesNothing
BY DEF HedgeInv, HedgeLeavesNothing, Running

-----------------------------------------------------------------------------
(* Operations with a timeout. *)

OperationStates == {"new", "running", "done", "timeout"}

\* Two operations that were given one id are both known to share it, so what happens to
\* an entry concerns one operation that does not.
TrackInv ==
  /\ millis \in 0 .. LastMs
  /\ operation \in [Operations -> OperationStates]
  /\ begun \in [Operations -> 0 .. LastMs]
  /\ tracked \in [0 .. LastMs -> SUBSET Operations]
  /\ \A o, p \in Operations :
       operation[o] # "new" /\ operation[p] # "new" /\ begun[o] = begun[p] /\ o # p =>
         o \in sharedIds
  /\ \A o \in Operations \ sharedIds :
       /\ o \in tracked[begun[o]] => operation[o] = "running"
       /\ operation[o] = "running" => o \in tracked[begun[o]] \cup stale

\* The events kept are the last of the timeouts, position by position.
EventsInv ==
  /\ timeoutEvents \in Seq(Operations) /\ allTimeouts \in Seq(Operations)
  /\ Len(timeoutEvents) = IF Len(allTimeouts) > MaxEvents THEN MaxEvents ELSE Len(allTimeouts)
  /\ \A i \in 1..Len(timeoutEvents) :
       timeoutEvents[i] = allTimeouts[Len(allTimeouts) - Len(timeoutEvents) + i]

(* No operation has begun. *)
LEMMA TimeoutInvInit == TimeoutInit => TrackInv /\ EventsInv
<1> SUFFICES ASSUME TimeoutInit PROVE TrackInv /\ EventsInv
  OBVIOUS
<1>1. TrackInv
  BY HedgedAssumptions DEF TimeoutInit, TrackInv, OperationStates
<1>2. EventsInv
  BY HedgedAssumptions, EmptySeq DEF TimeoutInit, EventsInv
<1> QED BY <1>1, <1>2

(* The end of an operation removes its own entry, or that of one that shares its id. *)
LEMMA EndKeepsTracking ==
  ASSUME TrackInv, NEW o \in Operations, operation[o] = "running",
         NEW to \in {"done", "timeout"}, operation' = [operation EXCEPT ![o] = to],
         tracked' = Untracked(o), UNCHANGED <<millis, begun, sharedIds, stale>>
  PROVE  TrackInv'
<1>1. /\ operation' \in [Operations -> OperationStates]
      /\ operation'[o] = to /\ \A p \in Operations : p # o => operation'[p] = operation[p]
  BY DEF TrackInv, OperationStates
<1>2. /\ tracked' \in [0 .. LastMs -> SUBSET Operations]
      /\ begun[o] \in 0 .. LastMs /\ tracked'[begun[o]] = {}
      /\ \A m \in 0 .. LastMs : m # begun[o] => tracked'[m] = tracked[m]
  BY DEF TrackInv, Untracked
<1>3. \A p \in Operations : operation'[p] = "new" <=> operation[p] = "new"
  BY <1>1 DEF TrackInv
<1>4. ASSUME NEW p \in Operations \ sharedIds
      PROVE  /\ p \in tracked'[begun[p]] => operation'[p] = "running"
             /\ operation'[p] = "running" => p \in tracked'[begun[p]] \cup stale
  <2>0. p \in Operations /\ begun[p] \in 0 .. LastMs
    BY DEF TrackInv
  <2>1. CASE p = o
    BY <1>1, <1>2, <2>1
  <2>2. CASE p # o /\ begun[p] = begun[o]
    <3>1. operation[p] = "new" /\ operation'[p] = "new"
      BY <1>1, <2>0, <2>2 DEF TrackInv
    <3> QED BY <1>2, <2>2, <3>1
  <2>3. CASE p # o /\ begun[p] # begun[o]
    BY <1>1, <1>2, <2>0, <2>3 DEF TrackInv
  <2> QED BY <2>1, <2>2, <2>3
<1> QED BY <1>1, <1>2, <1>3, <1>4 DEF TrackInv

(* _handle_timeout appends the event and keeps the last MaxEvents. *)
LEMMA TimeoutKeepsEvents ==
  ASSUME EventsInv, NEW o \in Operations,
         timeoutEvents' = Recent(Append(timeoutEvents, o)),
         allTimeouts' = Append(allTimeouts, o)
  PROVE  EventsInv'
<1> DEFINE kept == Append(timeoutEvents, o)
           k == Len(timeoutEvents)
           n == Len(allTimeouts)
<1>0. /\ k \in Nat /\ n \in Nat /\ MaxEvents \in Nat \ {0}
      /\ k = IF n > MaxEvents THEN MaxEvents ELSE n
      /\ k <= n /\ k <= MaxEvents
  BY HedgedAssumptions, LenProperties DEF EventsInv
<1>1. /\ kept \in Seq(Operations) /\ Len(kept) = k + 1 /\ kept[k + 1] = o
      /\ \A i \in 1..k : kept[i] = timeoutEvents[i]
  BY AppendProperties DEF EventsInv
<1>2. /\ allTimeouts' \in Seq(Operations) /\ Len(allTimeouts') = n + 1
      /\ allTimeouts'[n + 1] = o
      /\ \A i \in 1..n : allTimeouts'[i] = allTimeouts[i]
  BY AppendProperties DEF EventsInv
<1>r. timeoutEvents' = IF Len(kept) > MaxEvents
                       THEN SubSeq(kept, Len(kept) - MaxEvents + 1, Len(kept)) ELSE kept
  BY DEF Recent
<1>s. \A i \in 1..k : timeoutEvents[i] = allTimeouts[n - k + i]
  BY DEF EventsInv
<1> HIDE DEF kept, k, n
<1>3. ASSUME NEW i \in 1..(k + 1) PROVE kept[i] = allTimeouts'[n - k + i]
  <2>1. CASE i = k + 1
    <3>1. n - k + i = n + 1
      BY <1>0, <2>1
    <3> QED BY <1>1, <1>2, <2>1, <3>1
  <2>2. CASE i # k + 1
    <3>1. i \in 1..k /\ n - k + i \in 1..n
      BY <1>0, <2>2
    <3>2. timeoutEvents[i] = allTimeouts[n - k + i]
      BY <1>s, <3>1
    <3> QED BY <1>1, <1>2, <3>1, <3>2
  <2> QED BY <2>1, <2>2
<1>5. CASE k + 1 > MaxEvents
  <2>1. /\ k = MaxEvents /\ n + 1 > MaxEvents
        /\ Len(kept) > MaxEvents /\ Len(kept) - MaxEvents + 1 = 2 /\ Len(kept) = k + 1
    BY <1>0, <1>1, <1>5
  <2>2. timeoutEvents' = SubSeq(kept, 2, k + 1)
    BY <1>r, <2>1
  <2>3. /\ timeoutEvents' \in Seq(Operations) /\ Len(timeoutEvents') = k
        /\ \A i \in 1..k : timeoutEvents'[i] = kept[i + 1]
    <3>1. \A i \in 2..(k + 1) : kept[i] \in Operations
      BY <1>0, <1>1, ElementOfSeq
    <3>2. /\ SubSeq(kept, 2, k + 1) \in Seq(Operations)
          /\ Len(SubSeq(kept, 2, k + 1)) = (IF 2 <= k + 1 THEN (k + 1) - 2 + 1 ELSE 0)
          /\ \A i \in 1..((k + 1) - 2 + 1) : SubSeq(kept, 2, k + 1)[i] = kept[2 + i - 1]
      BY <1>0, <3>1, SubSeqProperties
    <3>3. (k + 1) - 2 + 1 = k /\ 2 <= k + 1 /\ \A i \in 1..k : 2 + i - 1 = i + 1
      BY <1>0, <2>1
    <3> QED BY <2>2, <3>2, <3>3
  <2>4. ASSUME NEW i \in 1..k PROVE timeoutEvents'[i] = allTimeouts'[(n + 1) - k + i]
    <3>1. i + 1 \in 1..(k + 1) /\ n - k + (i + 1) = (n + 1) - k + i
      BY <1>0
    <3> QED BY <1>3, <2>3, <3>1
  <2> QED BY <1>2, <2>1, <2>3, <2>4 DEF EventsInv
<1>6. CASE ~(k + 1 > MaxEvents)
  <2>1. k = n /\ ~(n + 1 > MaxEvents) /\ ~(Len(kept) > MaxEvents)
    BY <1>0, <1>1, <1>6
  <2>2. timeoutEvents' = kept
    BY <1>r, <2>1
  <2>3. ASSUME NEW i \in 1..(k + 1) PROVE timeoutEvents'[i] = allTimeouts'[(n + 1) - (k + 1) + i]
    <3>1. n - k + i = (n + 1) - (k + 1) + i
      BY <1>0
    <3> QED BY <1>3, <2>2, <3>1
  <2> QED BY <1>1, <1>2, <2>1, <2>2, <2>3 DEF EventsInv
<1> QED BY <1>5, <1>6

(* Every step of the timeout manager keeps both invariants. *)
LEMMA TimeoutInvStep ==
  ASSUME TrackInv, EventsInv, [TimeoutNext]_timeoutVars
  PROVE  TrackInv' /\ EventsInv'
<1>1. ASSUME NEW o \in Operations, BeginOperation(o) PROVE TrackInv' /\ EventsInv'
  <2> DEFINE twins == {p \in Operations : operation[p] # "new" /\ begun[p] = millis}
  <2>1. /\ sharedIds \subseteq sharedIds' /\ twins \subseteq sharedIds'
        /\ twins # {} => o \in sharedIds'
    BY <1>1 DEF BeginOperation
  <2>2. /\ operation' \in [Operations -> OperationStates] /\ operation'[o] = "running"
        /\ \A p \in Operations : p # o => operation'[p] = operation[p]
    BY <1>1 DEF BeginOperation, TrackInv, OperationStates
  <2>3. /\ begun' \in [Operations -> 0 .. LastMs] /\ begun'[o] = millis
        /\ \A p \in Operations : p # o => begun'[p] = begun[p]
    BY <1>1 DEF BeginOperation, TrackInv
  <2>4. /\ tracked' \in [0 .. LastMs -> SUBSET Operations] /\ tracked'[millis] = {o}
        /\ \A m \in 0 .. LastMs : m # millis => tracked'[m] = tracked[m]
    BY <1>1 DEF BeginOperation, TrackInv
  <2>5. ASSUME NEW p \in Operations, NEW q \in Operations, operation'[p] # "new",
               operation'[q] # "new", begun'[p] = begun'[q], p # q
        PROVE  p \in sharedIds'
    <3>1. CASE p = o
      <4>1. q \in twins
        BY <2>2, <2>3, <2>5, <3>1
      <4> QED BY <2>1, <3>1, <4>1
    <3>2. CASE q = o
      <4>1. p \in twins
        BY <2>2, <2>3, <2>5, <3>2
      <4> QED BY <2>1, <4>1
    <3>3. CASE p # o /\ q # o
      BY <2>1, <2>2, <2>3, <2>5, <3>3 DEF TrackInv
    <3> QED BY <3>1, <3>2, <3>3
  <2>6. ASSUME NEW p \in Operations \ sharedIds'
        PROVE  /\ p \in tracked'[begun'[p]] => operation'[p] = "running"
               /\ operation'[p] = "running" => p \in tracked'[begun'[p]] \cup stale
    <3>1. CASE p = o
      BY <2>2, <2>3, <2>4, <3>1
    <3>2. CASE p # o /\ begun[p] = millis
      <4>1. operation[p] = "new"
        BY <2>1, <3>2
      <4> QED BY <2>2, <2>3, <2>4, <3>2, <4>1
    <3>3. CASE p # o /\ begun[p] # millis
      <4>1. p \in Operations \ sharedIds /\ begun[p] \in 0 .. LastMs
        BY <2>1 DEF TrackInv
      <4> QED BY <2>2, <2>3, <2>4, <3>3, <4>1 DEF TrackInv
    <3> QED BY <3>1, <3>2, <3>3
  <2>7. UNCHANGED <<millis, timeoutEvents, allTimeouts, stale>>
    BY <1>1 DEF BeginOperation
  <2> HIDE DEF twins
  <2>8. TrackInv'
    BY <2>2, <2>3, <2>4, <2>5, <2>6, <2>7 DEF TrackInv
  <2> QED BY <2>7, <2>8 DEF EventsInv
<1>2. ASSUME NEW o \in Operations, OperationDone(o) PROVE TrackInv' /\ EventsInv'
  <2>1. TrackInv'
    BY <1>2, EndKeepsTracking DEF OperationDone
  <2> QED BY <1>2, <2>1 DEF OperationDone, EventsInv
<1>3. ASSUME NEW o \in Operations, OperationTimesOut(o) PROVE TrackInv' /\ EventsInv'
  <2>1. TrackInv'
    BY <1>3, EndKeepsTracking DEF OperationTimesOut
  <2>2. EventsInv'
    BY <1>3, TimeoutKeepsEvents DEF OperationTimesOut
  <2> QED BY <2>1, <2>2
<1>4. CASE CleanupStale
  <2> DEFINE old == {m \in 0 .. LastMs : tracked[m] # {} /\ millis - m > MaxAge}
  <2>1. /\ tracked' = [m \in 0 .. LastMs |-> IF m \in old THEN {} ELSE tracked[m]]
        /\ stale' = stale \cup UNION {tracked[m] : m \in old}
        /\ UNCHANGED <<millis, operation, begun, timeoutEvents, allTimeouts, sharedIds>>
    BY <1>4 DEF CleanupStale
  <2> HIDE DEF old
  <2>2. /\ tracked' \in [0 .. LastMs -> SUBSET Operations]
        /\ \A m \in 0 .. LastMs : tracked'[m] = IF m \in old THEN {} ELSE tracked[m]
    BY <2>1 DEF TrackInv
  <2>3. \A m \in old : tracked[m] \subseteq stale'
    BY <2>1
  <2>4. stale \subseteq stale'
    BY <2>1
  <2>5. ASSUME NEW p \in Operations \ sharedIds
        PROVE  /\ p \in tracked'[begun[p]] => operation[p] = "running"
               /\ operation[p] = "running" => p \in tracked'[begun[p]] \cup stale'
    <3>1. begun[p] \in 0 .. LastMs
      BY DEF TrackInv
    <3> QED BY <2>2, <2>3, <2>4, <3>1 DEF TrackInv
  <2>6. TrackInv'
    BY <2>1, <2>2, <2>5 DEF TrackInv
  <2> QED BY <2>1, <2>6 DEF EventsInv
<1>5. CASE NextMillisecond
  <2>1. millis' \in 0 .. LastMs
    BY <1>5, HedgedAssumptions DEF NextMillisecond, TrackInv
  <2>2. UNCHANGED <<operation, begun, tracked, timeoutEvents, allTimeouts, sharedIds, stale>>
    BY <1>5 DEF NextMillisecond
  <2> QED BY <2>1, <2>2 DEF TrackInv, EventsInv
<1>6. CASE UNCHANGED timeoutVars
  BY <1>6 DEF timeoutVars, TrackInv, EventsInv
<1> QED BY <1>1, <1>2, <1>3, <1>4, <1>5, <1>6 DEF TimeoutNext

(* A sequence that agrees with the end of another position by position is its suffix. *)
LEMMA SuffixByPosition ==
  ASSUME NEW S, NEW p \in Seq(S), NEW q \in Seq(S), Len(p) <= Len(q),
         \A i \in 1..Len(p) : p[i] = q[Len(q) - Len(p) + i]
  PROVE  IsSuffix(p, q)
<1> DEFINE k == Len(p)
           m == Len(q)
           rp == Reverse(p)
           rq == Reverse(q)
<1>0. /\ k \in Nat /\ m \in Nat /\ k <= m
      /\ \A i \in 1..k : p[i] = q[m - k + i]
  <2>1. k \in Nat /\ m \in Nat
    BY LenProperties
  <2> QED BY <2>1
<1>1. rp = [i \in 1..k |-> p[(k - i) + 1]] /\ rq = [i \in 1..m |-> q[(m - i) + 1]]
  BY DEF Reverse
<1>2. (\A i \in 1..k : p[i] \in S) /\ (\A i \in 1..m : q[i] \in S)
  BY ElementOfSeq
<1> HIDE DEF k, m, rp, rq
<1>3. /\ \A i \in 1..k : (k - i) + 1 \in 1..k
      /\ \A i \in 1..m : (m - i) + 1 \in 1..m
      /\ \A i \in 1..k : i \in 1..m /\ m - k + ((k - i) + 1) = (m - i) + 1
  BY <1>0
<1>4. /\ \A i \in 1..k : rp[i] \in S /\ rp[i] = p[(k - i) + 1]
      /\ \A i \in 1..m : rq[i] \in S /\ rq[i] = q[(m - i) + 1]
  BY <1>1, <1>2, <1>3
<1>5. ASSUME NEW i \in 1..k PROVE rp[i] = rq[i]
  <2>1. p[(k - i) + 1] = q[m - k + ((k - i) + 1)]
    BY <1>0, <1>3
  <2> QED BY <1>3, <1>4, <2>1
<1>6. rp \in Seq(S) /\ Len(rp) = k
  <2>0. k \in Nat
    BY <1>0
  <2>1. \A i \in 1..k : p[(k - i) + 1] \in S
    BY <1>2, <1>3
  <2>2. [i \in 1..k |-> p[(k - i) + 1]] \in Seq(S)
    BY <2>0, <2>1, IsASeq
  <2>3. rp \in Seq(S) /\ DOMAIN rp = 1..k
    BY <1>1, <2>2
  <2> QED BY <2>0, <2>3, LenProperties
<1>7. rq \in Seq(S) /\ Len(rq) = m
  <2>0. m \in Nat
    BY <1>0
  <2>1. \A i \in 1..m : q[(m - i) + 1] \in S
    BY <1>2, <1>3
  <2>2. [i \in 1..m |-> q[(m - i) + 1]] \in Seq(S)
    BY <2>0, <2>1, IsASeq
  <2>3. rq \in Seq(S) /\ DOMAIN rq = 1..m
    BY <1>1, <2>2
  <2> QED BY <2>0, <2>3, LenProperties
<1>8. SubSeq(rp, 1, k) = rp
  BY <1>6, SubSeqFull
<1>9. /\ SubSeq(rq, 1, k) \in Seq(S) /\ Len(SubSeq(rq, 1, k)) = k
      /\ \A i \in 1..k : SubSeq(rq, 1, k)[i] = rq[i]
  <2>1. \A i \in 1..k : rq[i] \in S
    BY <1>3, <1>4
  <2>2. /\ SubSeq(rq, 1, k) \in Seq(S)
        /\ Len(SubSeq(rq, 1, k)) = (IF 1 <= k THEN k - 1 + 1 ELSE 0)
        /\ \A i \in 1..(k - 1 + 1) : SubSeq(rq, 1, k)[i] = rq[1 + i - 1]
    BY <1>0, <2>1, SubSeqProperties
  <2>3. k - 1 + 1 = k /\ (IF 1 <= k THEN k - 1 + 1 ELSE 0) = k /\ \A i \in 1..k : 1 + i - 1 = i
    BY <1>0
  <2> QED BY <2>2, <2>3
<1>10. SubSeq(rq, 1, k) = rp
  BY <1>5, <1>6, <1>9, SeqEqual
<1>11. IsPrefix(rp, rq)
  BY <1>0, <1>6, <1>7, <1>8, <1>10 DEF IsPrefix
<1> QED BY <1>11 DEF IsSuffix, rp, rq

(* The invariants say what the run checks. *)
LEMMA TimeoutTracksExactly == TrackInv /\ EventsInv => TrackingIsExact
<1> SUFFICES ASSUME TrackInv, EventsInv PROVE TrackingIsExact
  OBVIOUS
<1>1. IsSuffix(timeoutEvents, allTimeouts)
  <2>1. timeoutEvents \in Seq(Operations) /\ allTimeouts \in Seq(Operations)
    BY DEF EventsInv
  <2>2. Len(timeoutEvents) \in Nat /\ Len(allTimeouts) \in Nat
    BY <2>1, LenProperties
  <2>3. Len(timeoutEvents) <= Len(allTimeouts)
    BY <2>2, HedgedAssumptions DEF EventsInv
  <2>4. \A i \in 1..Len(timeoutEvents) :
          timeoutEvents[i] = allTimeouts[Len(allTimeouts) - Len(timeoutEvents) + i]
    BY DEF EventsInv
  <2> QED BY <2>1, <2>3, <2>4, SuffixByPosition
<1> QED BY <1>1 DEF TrackInv, EventsInv, TrackingIsExact

-----------------------------------------------------------------------------
(* The registration page. *)

SignupPage == [step : {"package", "form", "left"}, plan : Plans, loading : BOOLEAN, error : BOOLEAN]
RegisterRequest == [stage : {"none", "sent", "created", "refused"},
                    plan : Plans \cup {NoPlan}, chosen : Plans \cup {NoPlan}]

\* A request names the plan that was selected; an account was made by the request that is
\* answered so, or by an earlier one.
SignupInv ==
  /\ signup \in SignupPage /\ register \in RegisterRequest
  /\ register.plan = register.chosen
  /\ signup.loading <=> register.stage # "none"
  /\ register.stage # "none" => register.plan \in Plans
  /\ accounts = {} \/ \E p \in Plans : accounts = {p}
  /\ register.stage = "created" => accounts = {register.plan}
  /\ userStored # NoPlan => accounts = {userStored} /\ signup.step = "left"

(* The page opens with the free plan and nothing sent. *)
LEMMA SignupInvInit == SignupInit => SignupInv
BY PagesAssumptions DEF SignupInit, SignupInv, SignupPage, RegisterRequest, NoRegister

(* Every step of the page and of the server keeps the invariant. *)
LEMMA SignupInvStep ==
  ASSUME SignupInv, [SignupNext]_signupVars
  PROVE  SignupInv'
<1> USE DEF SignupPage, RegisterRequest
<1>1. CASE (\E ok \in BOOLEAN : PackagesFetched(ok)) \/ FillForm \/ (\E p \in Plans : ChooseInForm(p))
  BY <1>1 DEF SignupInv, PackagesFetched, FillForm, ChooseInForm
<1>2. ASSUME NEW p \in Plans, SelectPackage(p) PROVE SignupInv'
  BY <1>2 DEF SignupInv, SelectPackage
<1>3. CASE HandleNext
  BY <1>3 DEF SignupInv, HandleNext
<1>4. CASE HandleBack
  BY <1>4 DEF SignupInv, HandleBack
<1>5. CASE HandleRegister
  <2>1. /\ signup' \in SignupPage /\ signup'.loading /\ signup'.step = signup.step
    BY <1>5 DEF SignupInv, HandleRegister
  <2>2. /\ register' \in RegisterRequest /\ register'.plan = register'.chosen
        /\ register'.stage = "sent" /\ register'.plan \in Plans
    BY <1>5 DEF SignupInv, HandleRegister, BodyPlan
  <2> QED BY <1>5, <2>1, <2>2 DEF SignupInv, HandleRegister
<1>6. CASE ServeRegister
  <2>1. CASE accounts = {}
    BY <1>6, <2>1 DEF SignupInv, ServeRegister
  <2>2. CASE accounts # {}
    BY <1>6, <2>2 DEF SignupInv, ServeRegister
  <2> QED BY <2>1, <2>2
<1>7. CASE RegisterSucceeds
  <2>1. /\ signup' \in SignupPage /\ ~signup'.loading /\ signup'.step = "left"
    BY <1>7 DEF SignupInv, RegisterSucceeds
  <2>2. register' \in RegisterRequest /\ register'.plan = register'.chosen /\ register'.stage = "none"
    BY <1>7 DEF RegisterSucceeds, NoRegister
  <2> QED BY <1>7, <2>1, <2>2 DEF SignupInv, RegisterSucceeds
<1>8. CASE RegisterFails
  <2>1. /\ signup' \in SignupPage /\ ~signup'.loading /\ signup'.step = signup.step
    BY <1>8 DEF SignupInv, RegisterFails
  <2>2. register' \in RegisterRequest /\ register'.plan = register'.chosen /\ register'.stage = "none"
    BY <1>8 DEF RegisterFails, NoRegister
  <2> QED BY <1>8, <2>1, <2>2 DEF SignupInv, RegisterFails
<1>9. CASE UNCHANGED signupVars
  BY <1>9 DEF SignupInv, signupVars
<1> QED BY <1>1, <1>2, <1>3, <1>4, <1>5, <1>6, <1>7, <1>8, <1>9 DEF SignupNext

(* The invariant says what the run checks. *)
LEMMA SignupRegistersSelected == SignupInv => RegisteredAsSelected
<1> SUFFICES ASSUME SignupInv PROVE RegisteredAsSelected
  OBVIOUS
<1>1. Cardinality(accounts) <= 1
  <2>1. CASE accounts = {}
    BY <2>1, FS_EmptySet
  <2>2. ASSUME NEW p \in Plans, accounts = {p} PROVE Cardinality(accounts) <= 1
    BY <2>2, FS_Singleton
  <2> QED BY <2>1, <2>2 DEF SignupInv
<1> QED BY <1>1 DEF SignupInv, RegisteredAsSelected

-----------------------------------------------------------------------------
(* The subscription page. *)

SubscriptionPage == [loading : BOOLEAN, error : BOOLEAN, left : BOOLEAN]
HandlerState == [at : {"idle", "change", "subscription", "usage", "packages"}, seen : Nat]

\* Where a handler is tells what is on the page, as long as it is alone and nothing failed.
HandlerKnows(h) ==
  /\ handler[h].at = "subscription" => handler[h].seen \in {0, held}
  /\ handler[h].at \in {"usage", "packages"} => shownSub = held

Undisturbed == ~overlapped /\ ~subPage.error /\ ~subPage.left

SubInv ==
  /\ subPage \in SubscriptionPage /\ handler \in [Handlers -> HandlerState]
  /\ overlapped \in BOOLEAN /\ held \in Nat \ {0} /\ shownSub \in Nat
  /\ subPage.loading => \E h \in Handlers : Refreshing(h)
  /\ \A h \in Handlers : handler[h].at = "change" => handler[h].seen = 0
  /\ ~overlapped => \A h, k \in Handlers : SubBusy(h) /\ SubBusy(k) => h = k
  /\ Undisturbed =>
       /\ \A h \in Handlers : HandlerKnows(h)
       /\ (\A h \in Handlers : ~SubBusy(h)) => shownSub = held

(* The first effect is asking for the subscription. *)
LEMMA SubInvInit == SubInit => SubInv
<1> SUFFICES ASSUME SubInit PROVE SubInv
  OBVIOUS
<1> DEFINE first == CHOOSE h \in Handlers : TRUE
<1>1. first \in Handlers
  BY PagesAssumptions
<1> HIDE DEF first
<1>2. handler = [h \in Handlers |-> IF h = first THEN [at |-> "subscription", seen |-> 0] ELSE Idling]
  BY DEF SubInit, first
<1>3. handler \in [Handlers -> HandlerState]
  BY <1>2 DEF HandlerState, Idling
<1>4. \A h \in Handlers : /\ h = first => handler[h].at = "subscription" /\ handler[h].seen = 0
                          /\ h # first => handler[h].at = "idle"
  BY <1>2 DEF Idling
<1>5. /\ subPage \in SubscriptionPage /\ overlapped = FALSE /\ held = 1 /\ shownSub = 0
  BY DEF SubInit, SubscriptionPage
<1>6. Refreshing(first) /\ SubBusy(first) /\ \A h \in Handlers : h # first => ~SubBusy(h)
  BY <1>1, <1>4 DEF Refreshing, SubBusy
<1>7. \A h \in Handlers : HandlerKnows(h) /\ handler[h].at # "change"
  BY <1>4 DEF HandlerKnows
<1>8. \A h, k \in Handlers : SubBusy(h) /\ SubBusy(k) => h = k
  BY <1>6
<1>9. held \in Nat \ {0} /\ shownSub \in Nat
  BY <1>5
<1>10. overlapped \in BOOLEAN
  BY <1>5, Zenon
<1> QED BY <1>1, <1>3, <1>5, <1>6, <1>7, <1>8, <1>9, <1>10 DEF SubInv

(* What a move of one handler must respect: while handlers do not overlap the others are
   idle, so what is on the page depends on where this one goes. *)
LEMMA HandlerMoves ==
  ASSUME SubInv, NEW h \in Handlers, NEW to \in HandlerState,
         handler' = [handler EXCEPT ![h] = to],
         subPage' \in SubscriptionPage, overlapped' \in BOOLEAN,
         held' \in Nat \ {0}, shownSub' \in Nat,
         subPage'.loading => \/ to.at \in {"subscription", "usage", "packages"}
                             \/ subPage.loading /\ ~Refreshing(h),
         to.at = "change" => to.seen = 0,
         ~overlapped' => \A k \in Handlers : SubBusy(k) => k = h,
         Undisturbed' =>
           /\ to.at = "subscription" => to.seen \in {0, held'}
           /\ to.at \in {"usage", "packages", "idle"} => shownSub' = held'
  PROVE  SubInv'
<1>1. /\ handler' \in [Handlers -> HandlerState] /\ handler'[h] = to
      /\ \A k \in Handlers : k # h => handler'[k] = handler[k]
  BY DEF SubInv
<1>2. subPage'.loading => \E k \in Handlers : Refreshing(k)'
  <2>1. CASE to.at \in {"subscription", "usage", "packages"}
    BY <1>1, <2>1 DEF Refreshing
  <2>2. CASE subPage.loading /\ ~Refreshing(h)
    <3>1. PICK k \in Handlers : Refreshing(k)
      BY <2>2 DEF SubInv
    <3>2. k # h
      BY <2>2, <3>1
    <3> QED BY <1>1, <3>1, <3>2 DEF Refreshing
  <2> QED BY <2>1, <2>2
<1>3. \A k \in Handlers : handler'[k].at = "change" => handler'[k].seen = 0
  BY <1>1 DEF SubInv
<1>4. ~overlapped' => \A k \in Handlers : k # h => handler'[k].at = "idle"
  BY <1>1 DEF SubBusy
<1>5. ~overlapped' => \A k, j \in Handlers : SubBusy(k)' /\ SubBusy(j)' => k = j
  BY <1>4 DEF SubBusy
<1>6. ASSUME Undisturbed'
      PROVE  /\ \A k \in Handlers : HandlerKnows(k)'
             /\ (\A k \in Handlers : ~SubBusy(k)') => shownSub' = held'
  <2>1. \A k \in Handlers : k # h => handler'[k].at = "idle"
    BY <1>4, <1>6 DEF Undisturbed
  <2>2. ASSUME NEW k \in Handlers PROVE HandlerKnows(k)'
    <3>1. CASE k = h
      BY <1>1, <1>6, <3>1 DEF HandlerKnows
    <3>2. CASE k # h
      BY <2>1, <3>2 DEF HandlerKnows
    <3> QED BY <3>1, <3>2
  <2>3. (\A k \in Handlers : ~SubBusy(k)') => shownSub' = held'
    BY <1>1, <1>6 DEF SubBusy
  <2> QED BY <2>2, <2>3
<1> QED BY <1>1, <1>2, <1>3, <1>5, <1>6 DEF SubInv

(* Every step of the page and of the server keeps the invariant. *)
LEMMA SubInvStep ==
  ASSUME SubInv, [SubNext]_subVars
  PROVE  SubInv'
<1>0. /\ \A h \in Handlers : handler[h] \in HandlerState
      /\ subPage \in SubscriptionPage /\ held \in Nat \ {0} /\ shownSub \in Nat
      /\ overlapped \in BOOLEAN
  BY DEF SubInv
<1>a. ASSUME NEW h \in Handlers, SubBusy(h), ~overlapped
      PROVE  \A k \in Handlers : SubBusy(k) => k = h
  BY <1>a DEF SubInv
<1>1. ASSUME NEW h \in Handlers, ChangeSubscription(h) PROVE SubInv'
  <2> DEFINE to == [at |-> "change", seen |-> 0]
  <2>1. to \in HandlerState /\ to.at = "change" /\ to.seen = 0
    BY DEF HandlerState
  <2>2. /\ handler' = [handler EXCEPT ![h] = to] /\ UNCHANGED <<held, shownSub, subPage>>
        /\ ~subPage.loading
        /\ overlapped' = (overlapped \/ \E k \in Handlers : SubBusy(k))
    BY <1>1 DEF ChangeSubscription
  <2>3. overlapped' \in BOOLEAN /\ (~overlapped' => \A k \in Handlers : SubBusy(k) => k = h)
    BY <2>2
  <2> HIDE DEF to
  <2> QED BY <1>0, <2>1, <2>2, <2>3, HandlerMoves
<1>2. ASSUME NEW h \in Handlers, NEW a \in {"changed", "payment", "refused", "lost"},
             ChangeAnswered(h, a)
      PROVE  SubInv'
  <2>0. /\ handler[h].at = "change" /\ SubBusy(h) /\ ~Refreshing(h) /\ handler[h].seen = 0
        /\ UNCHANGED <<shownSub, overlapped>>
        /\ held' = IF a \in {"changed", "lost"} THEN held + 1 ELSE held
    BY <1>2 DEF ChangeAnswered, SubBusy, Refreshing, SubInv
  <2>1. held' \in Nat \ {0}
    BY <1>0, <2>0
  <2>2. CASE a = "changed"
    <3> DEFINE to == [handler[h] EXCEPT !.at = "subscription"]
    <3>1. to \in HandlerState /\ to.at = "subscription" /\ to.seen = 0
      BY <1>0, <2>0 DEF HandlerState
    <3>2. handler' = [handler EXCEPT ![h] = to] /\ subPage' = [subPage EXCEPT !.loading = TRUE]
      BY <1>2, <2>2 DEF ChangeAnswered
    <3>3. subPage' \in SubscriptionPage
      BY <1>0, <3>2 DEF SubscriptionPage
    <3> HIDE DEF to
    <3> QED BY <1>0, <1>a, <2>0, <2>1, <3>1, <3>2, <3>3, HandlerMoves
  <2>3. CASE a = "payment"
    <3>1. Idling \in HandlerState /\ Idling.at = "idle"
      BY DEF HandlerState, Idling
    <3>2. handler' = [handler EXCEPT ![h] = Idling] /\ subPage' = [subPage EXCEPT !.left = TRUE]
      BY <1>2, <2>3 DEF ChangeAnswered
    <3>3. subPage' \in SubscriptionPage /\ subPage'.left /\ subPage'.loading = subPage.loading
      BY <1>0, <3>2 DEF SubscriptionPage
    <3>4. ~Undisturbed'
      BY <3>3 DEF Undisturbed
    <3> QED BY <1>0, <1>a, <2>0, <2>1, <3>1, <3>2, <3>3, <3>4, HandlerMoves
  <2>4. CASE a \in {"refused", "lost"}
    <3>1. Idling \in HandlerState /\ Idling.at = "idle"
      BY DEF HandlerState, Idling
    <3>2. handler' = [handler EXCEPT ![h] = Idling] /\ subPage' = [subPage EXCEPT !.error = TRUE]
      BY <1>2, <2>4 DEF ChangeAnswered
    <3>3. subPage' \in SubscriptionPage /\ subPage'.error /\ subPage'.loading = subPage.loading
      BY <1>0, <3>2 DEF SubscriptionPage
    <3>4. ~Undisturbed'
      BY <3>3 DEF Undisturbed
    <3> QED BY <1>0, <1>a, <2>0, <2>1, <3>1, <3>2, <3>3, <3>4, HandlerMoves
  <2> QED BY <2>2, <2>3, <2>4
<1>3. ASSUME NEW h \in Handlers, ServeSubscription(h) PROVE SubInv'
  <2> DEFINE to == [handler[h] EXCEPT !.seen = held]
  <2>1. to \in HandlerState /\ to.at = "subscription" /\ to.seen = held
    BY <1>0, <1>3 DEF HandlerState, ServeSubscription
  <2>2. /\ handler' = [handler EXCEPT ![h] = to] /\ SubBusy(h)
        /\ UNCHANGED <<held, shownSub, subPage, overlapped>>
    BY <1>3 DEF ServeSubscription, SubBusy
  <2> HIDE DEF to
  <2> QED BY <1>0, <1>a, <2>1, <2>2, HandlerMoves
<1>4. ASSUME NEW h \in Handlers, NEW ok \in BOOLEAN, ShowSubscription(h, ok) PROVE SubInv'
  <2> DEFINE to == [at |-> "usage", seen |-> 0]
  <2>1. to \in HandlerState /\ to.at = "usage"
    BY DEF HandlerState
  <2>2. /\ handler' = [handler EXCEPT ![h] = to] /\ SubBusy(h) /\ UNCHANGED <<held, subPage>>
        /\ handler[h].at = "subscription" /\ handler[h].seen # 0
        /\ shownSub' = IF ok THEN handler[h].seen ELSE shownSub
    BY <1>4 DEF ShowSubscription, SubBusy
  <2>3. overlapped' \in BOOLEAN /\ (~overlapped' => ok /\ ~overlapped)
    BY <1>0, <1>4 DEF ShowSubscription
  <2>4. shownSub' \in Nat
    BY <1>0, <2>2 DEF HandlerState
  <2>5. ASSUME Undisturbed' PROVE shownSub' = held'
    <3>0. ~overlapped' /\ ~subPage.error /\ ~subPage.left
      BY <2>2, <2>5 DEF Undisturbed
    <3>1. ok /\ Undisturbed
      BY <2>3, <3>0, Zenon DEF Undisturbed
    <3>2. handler[h].seen \in {0, held}
      BY <2>2, <3>1 DEF SubInv, HandlerKnows
    <3> QED BY <2>2, <3>1, <3>2
  <2>6. ~overlapped' => \A k \in Handlers : SubBusy(k) => k = h
    BY <1>a, <2>2, <2>3, Zenon
  <2> HIDE DEF to
  <2> QED BY <1>0, <2>1, <2>2, <2>3, <2>4, <2>5, <2>6, HandlerMoves
<1>5. ASSUME NEW h \in Handlers, GoOnRefreshing(h) PROVE SubInv'
  <2>0. /\ SubBusy(h) /\ UNCHANGED <<held, shownSub, overlapped>>
        /\ handler[h].at \in {"usage", "packages"} /\ (Undisturbed => shownSub = held)
    BY <1>5 DEF GoOnRefreshing, SubBusy, SubInv, HandlerKnows
  <2>1. CASE handler[h].at = "usage"
    <3> DEFINE to == [handler[h] EXCEPT !.at = "packages"]
    <3>1. to \in HandlerState /\ to.at = "packages"
      BY <1>0 DEF HandlerState
    <3>2. handler' = [handler EXCEPT ![h] = to] /\ UNCHANGED subPage
      BY <1>5, <2>1 DEF GoOnRefreshing
    <3>3. Undisturbed' => shownSub' = held'
      BY <2>0, <3>2 DEF Undisturbed
    <3> HIDE DEF to
    <3> QED BY <1>0, <1>a, <2>0, <3>1, <3>2, <3>3, HandlerMoves
  <2>2. CASE handler[h].at = "packages"
    <3>1. Idling \in HandlerState /\ Idling.at = "idle"
      BY DEF HandlerState, Idling
    <3>2. handler' = [handler EXCEPT ![h] = Idling] /\ subPage' = Settled(subPage, FALSE)
      BY <1>5, <2>2 DEF GoOnRefreshing
    <3>3. /\ subPage' \in SubscriptionPage /\ ~subPage'.loading
          /\ subPage'.left = subPage.left /\ (subPage.error => subPage'.error)
      BY <1>0, <3>2 DEF SubscriptionPage, Settled
    <3>4. Undisturbed' => shownSub' = held'
      BY <2>0, <3>3 DEF Undisturbed
    <3> QED BY <1>0, <1>a, <2>0, <3>1, <3>2, <3>3, <3>4, HandlerMoves
  <2> QED BY <2>0, <2>1, <2>2
<1>6. ASSUME NEW h \in Handlers, RefreshFails(h) PROVE SubInv'
  <2>1. Idling \in HandlerState /\ Idling.at = "idle"
    BY DEF HandlerState, Idling
  <2>2. /\ handler' = [handler EXCEPT ![h] = Idling] /\ subPage' = Settled(subPage, TRUE)
        /\ SubBusy(h) /\ UNCHANGED <<held, shownSub, overlapped>>
    BY <1>6 DEF RefreshFails, Refreshing, SubBusy
  <2>3. /\ subPage' \in SubscriptionPage /\ ~subPage'.loading /\ subPage'.error
    BY <1>0, <2>2 DEF SubscriptionPage, Settled
  <2>4. ~Undisturbed'
    BY <2>3 DEF Undisturbed
  <2> QED BY <1>0, <1>a, <2>1, <2>2, <2>3, <2>4, HandlerMoves
<1>7. CASE UNCHANGED subVars
  BY <1>7 DEF SubInv, subVars, HandlerKnows, SubBusy, Refreshing, Undisturbed
<1> QED BY <1>1, <1>2, <1>3, <1>4, <1>5, <1>6, <1>7 DEF SubNext

(* The invariant says what the run checks. *)
LEMMA SubShowsCurrent == SubInv => SubscriptionIsCurrent
BY DEF SubInv, SubscriptionIsCurrent, Undisturbed

-----------------------------------------------------------------------------
(* The admin dashboard. *)

AdminPage == [range : Ranges, loading : BOOLEAN, metrics : Ranges \cup {"none"}, failed : BOOLEAN]
PollState == [id : Nat, seen : Nat]
RealtimeShown == [shown : Nat, newest : Nat, overlapped : BOOLEAN]

\* The spinner allows one dashboard request at a time; readings grow, so a request that is
\* alone brings one that is newer than all that were delivered.
AdminInv ==
  /\ admin \in AdminPage
  /\ dashboard = IF admin.loading THEN {admin.range} ELSE {}
  /\ (~admin.loading /\ ~admin.failed) => admin.metrics = admin.range
  /\ polls \subseteq PollState /\ reading \in Nat /\ polled \in Nat
  /\ realtime \in RealtimeShown /\ realtime.newest < reading
  /\ ~realtime.overlapped =>
       /\ realtime.shown = realtime.newest
       /\ \A q, r \in polls : q = r
       /\ \A q \in polls : q.seen = 0 \/ (q.seen > realtime.newest /\ q.seen < reading)
  /\ \A q \in polls : q.seen < reading

(* The first effect has asked for both. *)
LEMMA AdminInvInit == AdminInit => AdminInv
<1> SUFFICES ASSUME AdminInit PROVE AdminInv
  OBVIOUS
<1>1. admin \in AdminPage /\ admin.loading /\ admin.range = FirstRange
  BY PagesAssumptions DEF AdminInit, AdminPage
<1>2. polls \subseteq PollState /\ \A q \in polls : q = [id |-> 0, seen |-> 0] /\ q.seen = 0
  BY DEF AdminInit, PollState
<1>3. realtime \in RealtimeShown /\ realtime.newest = 0 /\ realtime.shown = 0 /\ reading = 1
  BY DEF AdminInit, RealtimeShown
<1> QED BY <1>1, <1>2, <1>3 DEF AdminInit, AdminInv

(* fetchRealtimeMetrics is alone, or the overlap is noted. *)
LEMMA PollKeeps ==
  ASSUME AdminInv, Poll, UNCHANGED reading,
         admin' \in AdminPage, dashboard' = IF admin'.loading THEN {admin'.range} ELSE {},
         (~admin'.loading /\ ~admin'.failed) => admin'.metrics = admin'.range
  PROVE  AdminInv'
<1> DEFINE q0 == [id |-> polled, seen |-> 0]
<1>1. q0 \in PollState /\ q0.seen = 0
  BY DEF AdminInv, PollState
<1>2. polls' = polls \cup {q0} /\ polled' = polled + 1
      /\ realtime' = [realtime EXCEPT !.overlapped = realtime.overlapped \/ polls # {}]
  BY DEF Poll
<1>3. /\ realtime' \in RealtimeShown
      /\ realtime'.shown = realtime.shown /\ realtime'.newest = realtime.newest
      /\ ~realtime'.overlapped => ~realtime.overlapped /\ polls = {}
  BY <1>2 DEF AdminInv, RealtimeShown
<1> HIDE DEF q0
<1>4. polls' \subseteq PollState /\ \A q \in polls' : q.seen < reading
  BY <1>1, <1>2 DEF AdminInv, RealtimeShown
<1>5. ~realtime'.overlapped => polls' = {q0}
  BY <1>2, <1>3
<1>6. polled' \in Nat
  BY <1>2 DEF AdminInv
<1> QED BY <1>1, <1>3, <1>4, <1>5, <1>6 DEF AdminInv

(* Every step of the dashboard and of the server keeps the invariant. *)
LEMMA AdminInvStep ==
  ASSUME AdminInv, [AdminNext]_adminVars
  PROVE  AdminInv'
<1>1. ASSUME NEW r \in Ranges, ChangeRange(r) PROVE AdminInv'
  <2>1. /\ ~admin.loading /\ admin' = [admin EXCEPT !.range = r, !.loading = TRUE]
        /\ dashboard' = dashboard \cup {r} /\ Poll /\ UNCHANGED reading
    BY <1>1 DEF ChangeRange, CanChange
  <2>2. admin' \in AdminPage /\ admin'.loading /\ admin'.range = r
    BY <2>1 DEF AdminInv, AdminPage
  <2>3. dashboard' = {r}
    BY <2>1 DEF AdminInv
  <2> QED BY <2>1, <2>2, <2>3, PollKeeps
<1>2. CASE RefreshDashboard
  <2>1. /\ ~admin.loading /\ admin' = [admin EXCEPT !.loading = TRUE]
        /\ dashboard' = dashboard \cup {admin.range}
        /\ UNCHANGED <<polls, reading, realtime, polled>>
    BY <1>2 DEF RefreshDashboard, CanChange
  <2>2. admin' \in AdminPage /\ admin'.loading /\ admin'.range = admin.range
    BY <2>1 DEF AdminInv, AdminPage
  <2>3. dashboard' = {admin.range}
    BY <2>1 DEF AdminInv
  <2> QED BY <2>1, <2>2, <2>3 DEF AdminInv
<1>3. CASE IntervalFires
  <2>1. UNCHANGED <<admin, dashboard, reading>> /\ Poll
    BY <1>3 DEF IntervalFires
  <2>2. /\ admin' \in AdminPage /\ dashboard' = IF admin'.loading THEN {admin'.range} ELSE {}
        /\ (~admin'.loading /\ ~admin'.failed) => admin'.metrics = admin'.range
    BY <2>1 DEF AdminInv
  <2> QED BY <2>1, <2>2, PollKeeps
<1>4. ASSUME NEW r \in Ranges, NEW ok \in BOOLEAN, DashboardAnswered(r, ok) PROVE AdminInv'
  <2>1. /\ r \in dashboard /\ dashboard' = dashboard \ {r}
        /\ admin' = [admin EXCEPT !.loading = FALSE, !.metrics = IF ok THEN r ELSE admin.metrics,
                                  !.failed = ~ok]
        /\ UNCHANGED <<polls, reading, realtime, polled>>
    BY <1>4 DEF DashboardAnswered
  <2>2. admin.loading /\ r = admin.range /\ dashboard' = {}
    BY <2>1 DEF AdminInv
  <2>3. /\ admin' \in AdminPage /\ ~admin'.loading /\ admin'.range = admin.range
        /\ ~admin'.failed => admin'.metrics = r
    BY <2>1 DEF AdminInv, AdminPage
  <2> QED BY <2>1, <2>2, <2>3 DEF AdminInv
<1>5. ASSUME NEW q \in polls, ServePoll(q) PROVE AdminInv'
  <2> DEFINE q1 == [q EXCEPT !.seen = reading]
  <2>0. q \in PollState /\ reading \in Nat /\ realtime \in RealtimeShown
    BY DEF AdminInv
  <2>1. q1 \in PollState /\ q1.seen = reading
    BY <2>0 DEF PollState
  <2>2. /\ polls' = (polls \ {q}) \cup {q1} /\ reading' = reading + 1
        /\ UNCHANGED <<admin, dashboard, realtime, polled>>
    BY <1>5 DEF ServePoll
  <2> HIDE DEF q1
  <2>3. polls' \subseteq PollState
    BY <2>1, <2>2 DEF AdminInv
  <2>4. \A r \in polls' : r.seen < reading'
    BY <2>0, <2>1, <2>2 DEF AdminInv, PollState
  <2>5. /\ reading' \in Nat /\ realtime.newest < reading' /\ reading > realtime.newest
        /\ reading < reading'
    BY <2>0, <2>2 DEF AdminInv, RealtimeShown
  <2>6. ~realtime.overlapped => polls' = {q1}
    BY <2>2 DEF AdminInv
  <2> QED BY <2>1, <2>2, <2>3, <2>4, <2>5, <2>6 DEF AdminInv
<1>6. ASSUME NEW q \in polls, NEW ok \in BOOLEAN, ShowPoll(q, ok) PROVE AdminInv'
  <2>0. /\ q \in PollState /\ reading \in Nat /\ realtime \in RealtimeShown /\ q.seen < reading
        /\ q.seen # 0 /\ polls' = polls \ {q} /\ UNCHANGED <<admin, dashboard, reading, polled>>
    BY <1>6 DEF AdminInv, ShowPoll
  <2>1. ~realtime.overlapped => polls' = {} /\ q.seen > realtime.newest
    BY <2>0 DEF AdminInv
  <2>2. CASE ok
    <3> DEFINE n1 == IF q.seen > realtime.newest THEN q.seen ELSE realtime.newest
    <3>1. realtime' = [realtime EXCEPT !.shown = q.seen, !.newest = n1]
      BY <1>6, <2>2 DEF ShowPoll
    <3>2. /\ n1 \in Nat /\ n1 < reading /\ (q.seen > realtime.newest => n1 = q.seen)
      BY <2>0 DEF AdminInv, PollState, RealtimeShown
    <3> HIDE DEF n1
    <3>3. /\ realtime' \in RealtimeShown /\ realtime'.shown = q.seen /\ realtime'.newest = n1
          /\ realtime'.overlapped = realtime.overlapped
      BY <2>0, <3>1, <3>2 DEF RealtimeShown, PollState
    <3> QED BY <2>0, <2>1, <3>2, <3>3 DEF AdminInv
  <2>3. CASE ~ok
    <3>1. UNCHANGED realtime
      BY <1>6, <2>3 DEF ShowPoll
    <3> QED BY <2>0, <2>1, <3>1 DEF AdminInv
  <2> QED BY <2>2, <2>3
<1>7. CASE UNCHANGED adminVars
  BY <1>7 DEF AdminInv, adminVars
<1> QED BY <1>1, <1>2, <1>3, <1>4, <1>5, <1>6, <1>7 DEF AdminNext

(* The invariant says what the run checks. *)
LEMMA AdminShowsRange == AdminInv => DashboardShowsRange
BY DEF AdminInv, DashboardShowsRange

-----------------------------------------------------------------------------
(* Event services on one bus. *)

HandlerTenant == SvcTenants \cup {NoEvent}

\* The row of an event's key was written, or its handlers failed for it.
Accounted(e) == rows[RowKey[e]] # NoEvent \/ e \in failedFor

\* Everyone before a task's position has been given its event.
WorkedThrough(c) ==
  current[c] # NoEvent =>
    /\ handlers # <<>>
    /\ \A i \in DOMAIN handlers : i < position[c] => handlers[i] \in triedBy[current[c]]
    /\ position[c] > 1 => Accounted(current[c])

ServiceInv ==
  /\ handlers \in Seq(HandlerTenant) /\ startTenant \in [StartCalls -> HandlerTenant]
  /\ startPhase \in [StartCalls -> {"unused", "connect", "register", "subscribe", "over"}]
  /\ task \in [StartCalls -> StartCalls \cup {NoEvent}] /\ bus \in StartCalls \cup {NoEvent}
  /\ open \subseteq StartCalls
  /\ current \in [StartCalls -> SvcEvents \cup {NoEvent}] /\ position \in [StartCalls -> Nat \ {0}]
  /\ stream \in [SvcEvents -> {"new", "ready", "held", "acknowledged"}]
  /\ rows \in [Range(RowKey) -> SvcEvents \cup {NoEvent}]
  /\ triedBy \in [SvcEvents -> SUBSET HandlerTenant] /\ due \in [SvcEvents -> SUBSET HandlerTenant]
  /\ \A c \in StartCalls : startPhase[c] = "subscribe" \/ task[c] # NoEvent => handlers # <<>>
  /\ \A e \in SvcEvents : due[e] \subseteq ToSet(handlers)
  /\ \A c \in StartCalls : WorkedThrough(c) /\ position[c] <= Len(handlers) + 1
  /\ \A e \in SvcEvents : stream[e] = "acknowledged" => due[e] \subseteq triedBy[e] /\ Accounted(e)

\* every event has its key in the table
LEMMA KeyInTable == ASSUME NEW e \in SvcEvents PROVE RowKey[e] \in Range(RowKey)
BY EventServiceAssumptions DEF Range

(* No service has started. *)
LEMMA ServiceInvInit == ServiceInit => ServiceInv
<1> SUFFICES ASSUME ServiceInit PROVE ServiceInv
  OBVIOUS
<1>1. handlers \in Seq(HandlerTenant) /\ DOMAIN handlers = {} /\ Len(handlers) = 0
  BY EmptySeq DEF ServiceInit
<1>2. /\ startTenant \in [StartCalls -> HandlerTenant]
      /\ startPhase \in [StartCalls -> {"unused", "connect", "register", "subscribe", "over"}]
      /\ task \in [StartCalls -> StartCalls \cup {NoEvent}] /\ bus \in StartCalls \cup {NoEvent}
      /\ open \subseteq StartCalls
  BY DEF ServiceInit, HandlerTenant
<1>3. /\ current \in [StartCalls -> SvcEvents \cup {NoEvent}] /\ position \in [StartCalls -> Nat \ {0}]
      /\ stream \in [SvcEvents -> {"new", "ready", "held", "acknowledged"}]
      /\ rows \in [Range(RowKey) -> SvcEvents \cup {NoEvent}]
      /\ triedBy \in [SvcEvents -> SUBSET HandlerTenant] /\ due \in [SvcEvents -> SUBSET HandlerTenant]
  BY DEF ServiceInit
<1>4. \A c \in StartCalls : /\ startPhase[c] # "subscribe" /\ task[c] = NoEvent
                            /\ WorkedThrough(c) /\ position[c] = 1
  BY DEF ServiceInit, WorkedThrough
<1>5. \A e \in SvcEvents : due[e] = {} /\ stream[e] # "acknowledged"
  BY DEF ServiceInit
<1> QED BY <1>1, <1>2, <1>3, <1>4, <1>5 DEF ServiceInv

(* What starting and stopping services must respect: handlers are only added. *)
LEMMA StartsKeep ==
  ASSUME ServiceInv, UNCHANGED <<due, workVars>>,
         startTenant' \in [StartCalls -> HandlerTenant],
         startPhase' \in [StartCalls -> {"unused", "connect", "register", "subscribe", "over"}],
         task' \in [StartCalls -> StartCalls \cup {NoEvent}], bus' \in StartCalls \cup {NoEvent},
         open' \subseteq StartCalls,
         UNCHANGED handlers \/ \E t \in HandlerTenant : handlers' = Append(handlers, t),
         \A c \in StartCalls : startPhase'[c] = "subscribe" \/ task'[c] # NoEvent => handlers' # <<>>
  PROVE  ServiceInv'
<1>0. handlers \in Seq(HandlerTenant) /\ Len(handlers) \in Nat /\ DOMAIN handlers = 1..Len(handlers)
  BY LenProperties DEF ServiceInv
<1>1. /\ handlers' \in Seq(HandlerTenant) /\ Len(handlers') \in Nat /\ Len(handlers) <= Len(handlers')
      /\ \A i \in DOMAIN handlers : handlers'[i] = handlers[i]
      /\ handlers # <<>> => handlers' # <<>>
  <2>1. CASE UNCHANGED handlers
    BY <1>0, <2>1
  <2>2. ASSUME NEW t \in HandlerTenant, handlers' = Append(handlers, t)
        PROVE  /\ handlers' \in Seq(HandlerTenant) /\ Len(handlers') \in Nat
               /\ Len(handlers) <= Len(handlers') /\ handlers' # <<>>
               /\ \A i \in DOMAIN handlers : handlers'[i] = handlers[i]
    <3>1. /\ handlers' \in Seq(HandlerTenant) /\ Len(handlers') = Len(handlers) + 1
          /\ handlers' # <<>> /\ \A i \in 1..Len(handlers) : handlers'[i] = handlers[i]
      <4>1. /\ Append(handlers, t) \in Seq(HandlerTenant)
            /\ Len(Append(handlers, t)) = Len(handlers) + 1 /\ Append(handlers, t) # <<>>
            /\ \A i \in 1..Len(handlers) : Append(handlers, t)[i] = handlers[i]
        BY <1>0, AppendProperties
      <4> QED BY <2>2, <4>1
    <3> QED BY <1>0, <3>1
  <2> QED BY <2>1, <2>2
<1>2. DOMAIN handlers' = 1..Len(handlers') /\ DOMAIN handlers \subseteq DOMAIN handlers'
  BY <1>0, <1>1, LenProperties
<1>3. UNCHANGED <<current, position, stream, rows, triedBy, failedFor, due>>
  BY DEF workVars
<1>4. ToSet(handlers) \subseteq ToSet(handlers')
  BY <1>1, <1>2 DEF ToSet
<1>5. \A e \in SvcEvents : due'[e] \subseteq ToSet(handlers')
  BY <1>3, <1>4 DEF ServiceInv
<1>6. ASSUME NEW c \in StartCalls PROVE WorkedThrough(c)' /\ position'[c] <= Len(handlers') + 1
  <2>1. WorkedThrough(c) /\ position[c] <= Len(handlers) + 1 /\ position[c] \in Nat
    BY DEF ServiceInv
  <2>2. ASSUME NEW i \in DOMAIN handlers', i < position[c]
        PROVE  i \in DOMAIN handlers /\ handlers'[i] = handlers[i]
    <3>0. i \in 1..Len(handlers')
      BY <1>2
    <3>1. i \in Nat /\ i >= 1
      BY <1>1, <3>0
    <3>2. i \in 1..Len(handlers)
      BY <1>0, <2>1, <2>2, <3>1
    <3> QED BY <1>0, <1>1, <3>2
  <2>3. position'[c] <= Len(handlers') + 1
    BY <1>0, <1>1, <1>3, <2>1
  <2> QED BY <1>1, <1>3, <2>1, <2>2, <2>3 DEF WorkedThrough, Accounted
<1>7. \A e \in SvcEvents : stream'[e] = "acknowledged" => due'[e] \subseteq triedBy'[e] /\ Accounted(e)'
  BY <1>3 DEF ServiceInv, Accounted
<1>8. /\ current' \in [StartCalls -> SvcEvents \cup {NoEvent}] /\ position' \in [StartCalls -> Nat \ {0}]
      /\ stream' \in [SvcEvents -> {"new", "ready", "held", "acknowledged"}]
      /\ rows' \in [Range(RowKey) -> SvcEvents \cup {NoEvent}]
      /\ triedBy' \in [SvcEvents -> SUBSET HandlerTenant] /\ due' \in [SvcEvents -> SUBSET HandlerTenant]
  BY <1>3 DEF ServiceInv
<1> QED BY <1>1, <1>5, <1>6, <1>7, <1>8 DEF ServiceInv

(* Starting and stopping. *)
LEMMA StartStepsKeep ==
  ASSUME ServiceInv,
         \/ \E c \in StartCalls : \/ \E t \in SvcTenants : BeginStart(c, t)
                                  \/ Connect(c) \/ Register(c) \/ Subscribe(c)
         \/ \E t \in SvcTenants : Stop(t)
  PROVE  ServiceInv'
<1>0. /\ startTenant \in [StartCalls -> HandlerTenant]
      /\ startPhase \in [StartCalls -> {"unused", "connect", "register", "subscribe", "over"}]
      /\ task \in [StartCalls -> StartCalls \cup {NoEvent}] /\ bus \in StartCalls \cup {NoEvent}
      /\ open \subseteq StartCalls /\ handlers \in Seq(HandlerTenant)
      /\ \A c \in StartCalls : startPhase[c] = "subscribe" \/ task[c] # NoEvent => handlers # <<>>
  BY DEF ServiceInv
<1>1. ASSUME NEW c \in StartCalls, NEW t \in SvcTenants, BeginStart(c, t) PROVE ServiceInv'
  <2>1. /\ startPhase' \in [StartCalls -> {"unused", "connect", "register", "subscribe", "over"}]
        /\ startTenant' \in [StartCalls -> HandlerTenant]
        /\ \A d \in StartCalls : startPhase'[d] = "subscribe" => startPhase[d] = "subscribe"
        /\ UNCHANGED <<bus, open, handlers, task, due, workVars>>
    BY <1>0, <1>1 DEF BeginStart, HandlerTenant
  <2> QED BY <1>0, <2>1, StartsKeep
<1>2. ASSUME NEW c \in StartCalls, Connect(c) PROVE ServiceInv'
  <2>1. /\ startPhase' \in [StartCalls -> {"unused", "connect", "register", "subscribe", "over"}]
        /\ \A d \in StartCalls : startPhase'[d] = "subscribe" => startPhase[d] = "subscribe"
        /\ bus' \in StartCalls \cup {NoEvent} /\ open' \subseteq StartCalls
        /\ UNCHANGED <<startTenant, handlers, task, due, workVars>>
    BY <1>0, <1>2 DEF Connect
  <2> QED BY <1>0, <2>1, StartsKeep
<1>3. ASSUME NEW c \in StartCalls, Register(c) PROVE ServiceInv'
  <2>1. /\ startPhase' \in [StartCalls -> {"unused", "connect", "register", "subscribe", "over"}]
        /\ startTenant[c] \in HandlerTenant /\ handlers' = Append(handlers, startTenant[c])
        /\ UNCHANGED <<startTenant, bus, open, task, due, workVars>>
    BY <1>0, <1>3 DEF Register
  <2>2. handlers' # <<>>
    BY <1>0, <2>1, AppendProperties
  <2> QED BY <1>0, <2>1, <2>2, StartsKeep
<1>4. ASSUME NEW c \in StartCalls, Subscribe(c) PROVE ServiceInv'
  <2>1. /\ startPhase' \in [StartCalls -> {"unused", "connect", "register", "subscribe", "over"}]
        /\ \A d \in StartCalls : startPhase'[d] = "subscribe" => startPhase[d] = "subscribe"
        /\ UNCHANGED <<startTenant, bus, open, handlers, due, workVars>>
        /\ startPhase[c] = "subscribe"
    BY <1>0, <1>4 DEF Subscribe
  <2>2. task' \in [StartCalls -> StartCalls \cup {NoEvent}]
    BY <1>0, <1>4 DEF Subscribe
  <2>3. handlers # <<>>
    BY <1>0, <2>1
  <2> QED BY <1>0, <2>1, <2>2, <2>3, StartsKeep
<1>5. ASSUME NEW t \in SvcTenants, Stop(t) PROVE ServiceInv'
  <2>1. open' \subseteq StartCalls /\ UNCHANGED <<startPhase, startTenant, bus, handlers, task, due, workVars>>
    BY <1>0, <1>5 DEF Stop
  <2> QED BY <1>0, <2>1, StartsKeep
<1> QED BY <1>1, <1>2, <1>3, <1>4, <1>5

(* A task whose connection is open has someone to give its event to. *)
LEMMA FetchKeeps ==
  ASSUME ServiceInv, NEW c \in StartCalls, NEW e \in SvcEvents, FetchEvent(c, e)
  PROVE  ServiceInv'
<1>1. /\ task[c] \in open /\ stream[e] = "ready"
      /\ current' = [current EXCEPT ![c] = e] /\ position' = [position EXCEPT ![c] = 1]
      /\ stream' = [stream EXCEPT ![e] = "held"]
      /\ UNCHANGED <<startPhase, startTenant, bus, open, handlers, task, due, rows, triedBy, failedFor>>
  BY DEF FetchEvent, startVars
<1>2. handlers # <<>> /\ Len(handlers) \in Nat
  BY <1>1, EventServiceAssumptions, LenProperties DEF ServiceInv
<1>3. /\ current' \in [StartCalls -> SvcEvents \cup {NoEvent}] /\ current'[c] = e
      /\ position' \in [StartCalls -> Nat \ {0}] /\ position'[c] = 1
      /\ stream' \in [SvcEvents -> {"new", "ready", "held", "acknowledged"}]
      /\ \A d \in StartCalls : d # c => current'[d] = current[d] /\ position'[d] = position[d]
      /\ \A x \in SvcEvents : stream'[x] = "acknowledged" => stream[x] = "acknowledged"
  BY <1>1 DEF ServiceInv
<1>4. ASSUME NEW d \in StartCalls PROVE WorkedThrough(d)' /\ position'[d] <= Len(handlers') + 1
  <2>1. CASE d = c
    <3>1. \A i \in DOMAIN handlers : ~(i < 1)
      BY LenProperties DEF ServiceInv
    <3> QED BY <1>1, <1>2, <1>3, <2>1, <3>1 DEF WorkedThrough
  <2>2. CASE d # c
    BY <1>1, <1>3, <2>2 DEF ServiceInv, WorkedThrough, Accounted
  <2> QED BY <2>1, <2>2
<1>5. \A x \in SvcEvents : stream'[x] = "acknowledged" => due'[x] \subseteq triedBy'[x] /\ Accounted(x)'
  BY <1>1, <1>3 DEF ServiceInv, Accounted
<1> QED BY <1>1, <1>3, <1>4, <1>5 DEF ServiceInv

(* The next handler is given the event, and stores it or is noted to have failed. *)
LEMMA HandleKeeps ==
  ASSUME ServiceInv, NEW c \in StartCalls, Handle(c)
  PROVE  ServiceInv'
<1>e. PICK e \in SvcEvents, p \in Nat : e = current[c] /\ p = position[c]
  BY DEF ServiceInv, Handle
<1>0. /\ e \in SvcEvents /\ p \in Nat \ {0} /\ p <= Len(handlers) /\ p \in DOMAIN handlers
      /\ handlers \in Seq(HandlerTenant) /\ Len(handlers) \in Nat /\ DOMAIN handlers = 1..Len(handlers)
  BY <1>e, LenProperties DEF ServiceInv, Handle
<1>1. /\ triedBy' = [triedBy EXCEPT ![e] = triedBy[e] \cup {handlers[p]}]
      /\ position' = [position EXCEPT ![c] = p + 1]
      /\ UNCHANGED <<startPhase, startTenant, bus, open, handlers, task, due, current, stream>>
  BY <1>e DEF Handle, startVars, NextHandler
<1>2. \/ rows' = [rows EXCEPT ![RowKey[e]] = e] /\ UNCHANGED failedFor
      \/ UNCHANGED rows /\ failedFor' = failedFor \cup {e}
  BY <1>e DEF Handle
<1>3. RowKey[e] \in Range(RowKey) /\ e # NoEvent
  BY <1>0, KeyInTable, EventServiceAssumptions
<1>4. /\ rows' \in [Range(RowKey) -> SvcEvents \cup {NoEvent}] /\ Accounted(e)'
      /\ \A x \in SvcEvents : Accounted(x) => Accounted(x)'
  <2>1. CASE rows' = [rows EXCEPT ![RowKey[e]] = e] /\ UNCHANGED failedFor
    <3>1. /\ rows' \in [Range(RowKey) -> SvcEvents \cup {NoEvent}] /\ rows'[RowKey[e]] = e
          /\ \A k \in Range(RowKey) : rows[k] # NoEvent => rows'[k] # NoEvent
      BY <1>0, <1>3, <2>1 DEF ServiceInv
    <3> QED BY <1>3, <2>1, <3>1, KeyInTable DEF Accounted
  <2>2. CASE UNCHANGED rows /\ failedFor' = failedFor \cup {e}
    BY <2>2 DEF ServiceInv, Accounted
  <2> QED BY <1>2, <2>1, <2>2
<1>5. handlers[p] \in HandlerTenant
  BY <1>0, ElementOfSeq
<1>6. /\ triedBy' \in [SvcEvents -> SUBSET HandlerTenant] /\ handlers[p] \in triedBy'[e]
      /\ \A x \in SvcEvents : triedBy[x] \subseteq triedBy'[x]
  BY <1>0, <1>1, <1>5 DEF ServiceInv
<1>7. /\ position' \in [StartCalls -> Nat \ {0}] /\ position'[c] = p + 1
      /\ \A d \in StartCalls : d # c => position'[d] = position[d]
  BY <1>0, <1>1 DEF ServiceInv
<1>8. ASSUME NEW d \in StartCalls PROVE WorkedThrough(d)' /\ position'[d] <= Len(handlers') + 1
  <2>0. WorkedThrough(d) /\ position[d] <= Len(handlers) + 1 /\ current[d] \in SvcEvents \cup {NoEvent}
    BY DEF ServiceInv
  <2>1. CASE d = c
    <3>1. current'[d] = e /\ current[d] = e /\ position[d] = p
      BY <1>1, <1>e, <2>1
    <3>2. \A i \in DOMAIN handlers : i < p + 1 => i < p \/ i = p
      BY <1>0
    <3>3. \A i \in DOMAIN handlers : i < p + 1 => handlers[i] \in triedBy'[e]
      BY <1>0, <1>3, <1>6, <2>0, <3>1, <3>2 DEF WorkedThrough
    <3>4. position'[d] <= Len(handlers') + 1
      BY <1>0, <1>1, <1>7, <2>1
    <3> QED BY <1>0, <1>1, <1>3, <1>4, <1>7, <2>0, <2>1, <3>1, <3>3, <3>4 DEF WorkedThrough
  <2>2. CASE d # c
    BY <1>1, <1>4, <1>6, <1>7, <2>0, <2>2 DEF WorkedThrough
  <2> QED BY <2>1, <2>2
<1>9. \A x \in SvcEvents : stream'[x] = "acknowledged" => due'[x] \subseteq triedBy'[x] /\ Accounted(x)'
  BY <1>1, <1>4, <1>6 DEF ServiceInv
<1> QED BY <1>1, <1>4, <1>6, <1>7, <1>8, <1>9 DEF ServiceInv

(* What is acknowledged has been through the whole list. *)
LEMMA AcknowledgeKeeps ==
  ASSUME ServiceInv, NEW c \in StartCalls, Acknowledge(c)
  PROVE  ServiceInv'
<1> DEFINE e == current[c]
           st == IF task[c] \in open THEN "acknowledged" ELSE "ready"
<1>0. /\ e \in SvcEvents /\ position[c] \in Nat \ {0} /\ position[c] > Len(handlers)
      /\ handlers \in Seq(HandlerTenant) /\ Len(handlers) \in Nat /\ DOMAIN handlers = 1..Len(handlers)
      /\ e # NoEvent /\ WorkedThrough(c)
  BY LenProperties DEF ServiceInv, Acknowledge
<1>1. /\ stream' = [stream EXCEPT ![e] = st] /\ current' = [current EXCEPT ![c] = NoEvent]
      /\ position' = [position EXCEPT ![c] = 1]
      /\ UNCHANGED <<startPhase, startTenant, bus, open, handlers, task, due, rows, triedBy, failedFor>>
  BY DEF Acknowledge, startVars
<1>2. st \in {"ready", "acknowledged"}
  OBVIOUS
<1>3. handlers # <<>> /\ \A i \in DOMAIN handlers : handlers[i] \in triedBy[e]
  BY <1>0 DEF WorkedThrough
<1>4. Len(handlers) > 0
  BY <1>0, <1>3, EmptySeq
<1>5. due[e] \subseteq triedBy[e] /\ Accounted(e)
  <2>1. due[e] \subseteq ToSet(handlers)
    BY <1>0 DEF ServiceInv
  <2>2. Accounted(e)
    BY <1>0, <1>4 DEF WorkedThrough
  <2> QED BY <1>3, <2>1, <2>2 DEF ToSet
<1> HIDE DEF e, st
<1>6. /\ current' \in [StartCalls -> SvcEvents \cup {NoEvent}] /\ current'[c] = NoEvent
      /\ position' \in [StartCalls -> Nat \ {0}] /\ position'[c] = 1
      /\ stream' \in [SvcEvents -> {"new", "ready", "held", "acknowledged"}]
      /\ \A d \in StartCalls : d # c => current'[d] = current[d] /\ position'[d] = position[d]
      /\ \A x \in SvcEvents : x # e => stream'[x] = stream[x]
  BY <1>0, <1>1, <1>2 DEF ServiceInv
<1>7. ASSUME NEW d \in StartCalls PROVE WorkedThrough(d)' /\ position'[d] <= Len(handlers') + 1
  <2>1. CASE d = c
    BY <1>0, <1>1, <1>6, <2>1 DEF WorkedThrough
  <2>2. CASE d # c
    BY <1>1, <1>6, <2>2 DEF ServiceInv, WorkedThrough, Accounted
  <2> QED BY <2>1, <2>2
<1>8. \A x \in SvcEvents : stream'[x] = "acknowledged" => due'[x] \subseteq triedBy'[x] /\ Accounted(x)'
  BY <1>1, <1>5, <1>6 DEF ServiceInv, Accounted
<1> QED BY <1>1, <1>6, <1>7, <1>8 DEF ServiceInv

(* Every step of the services keeps the invariant. *)
LEMMA ServiceInvStep ==
  ASSUME ServiceInv, [ServiceNext]_serviceVars
  PROVE  ServiceInv'
<1>1. ASSUME NEW e \in SvcEvents, Publish(e) PROVE ServiceInv'
  <2>1. /\ stream[e] = "new" /\ stream' = [stream EXCEPT ![e] = "ready"]
        /\ due' = [due EXCEPT ![e] = ToSet(handlers)]
        /\ UNCHANGED <<startPhase, startTenant, bus, open, handlers, task, current, position, rows,
                       triedBy, failedFor>>
    BY <1>1 DEF Publish, startVars
  <2>2. ToSet(handlers) \subseteq HandlerTenant
    BY ElementOfSeq, LenProperties DEF ServiceInv, ToSet
  <2>3. /\ stream' \in [SvcEvents -> {"new", "ready", "held", "acknowledged"}]
        /\ due' \in [SvcEvents -> SUBSET HandlerTenant]
        /\ \A x \in SvcEvents : due'[x] \subseteq ToSet(handlers)
        /\ \A x \in SvcEvents : stream'[x] = "acknowledged" => x # e /\ stream[x] = "acknowledged"
        /\ \A x \in SvcEvents : x # e => due'[x] = due[x]
    BY <2>1, <2>2 DEF ServiceInv
  <2>4. \A x \in SvcEvents : stream'[x] = "acknowledged" => due'[x] \subseteq triedBy'[x] /\ Accounted(x)'
    BY <2>1, <2>3 DEF ServiceInv, Accounted
  <2>5. \A d \in StartCalls : WorkedThrough(d)' /\ position'[d] <= Len(handlers') + 1
    BY <2>1 DEF ServiceInv, WorkedThrough, Accounted
  <2> QED BY <2>1, <2>3, <2>4, <2>5 DEF ServiceInv
<1>2. CASE UNCHANGED serviceVars
  BY <1>2 DEF serviceVars, ServiceInv, WorkedThrough, Accounted
<1> QED BY <1>1, <1>2, StartStepsKeep, FetchKeeps, HandleKeeps, AcknowledgeKeeps DEF ServiceNext

(* The invariant says what the run checks. *)
LEMMA ServiceShowsEvents == ServiceInv => EveryHandlerSeesEvent
BY DEF ServiceInv, EveryHandlerSeesEvent, Accounted

-----------------------------------------------------------------------------
(* What remains of a list after its first k entries are dropped. *)
LEMMA EntriesDropped ==
  ASSUME NEW S, NEW q \in Seq(S), NEW k \in 0..Len(q)
  PROVE  /\ SubSeq(q, k + 1, Len(q)) \in Seq(S)
         /\ Len(SubSeq(q, k + 1, Len(q))) = Len(q) - k
         /\ \A i \in 1..(Len(q) - k) : SubSeq(q, k + 1, Len(q))[i] = q[k + i]
<1>1. Len(q) \in Nat /\ k \in Nat /\ k <= Len(q) /\ \A i \in 1..Len(q) : q[i] \in S
  BY LenProperties, ElementOfSeq
<1>2. \A i \in (k + 1)..Len(q) : q[i] \in S
  BY <1>1
<1>3. /\ SubSeq(q, k + 1, Len(q)) \in Seq(S)
      /\ Len(SubSeq(q, k + 1, Len(q))) =
           IF k + 1 <= Len(q) THEN Len(q) - (k + 1) + 1 ELSE 0
      /\ \A i \in 1..(Len(q) - (k + 1) + 1) : SubSeq(q, k + 1, Len(q))[i] = q[(k + 1) + i - 1]
  BY <1>1, <1>2, SubSeqProperties
<1>4. \A i \in 1..(Len(q) - k) : (k + 1) + i - 1 = k + i
  BY <1>1
<1> QED BY <1>1, <1>3, <1>4

(* What remains of it after its j-th entry is popped. *)
LEMMA EntryPopped ==
  ASSUME NEW S, NEW q \in Seq(S), NEW j \in 1..Len(q)
  PROVE  /\ RemoveAt(q, j) \in Seq(S)
         /\ Len(RemoveAt(q, j)) = Len(q) - 1
         /\ \A i \in 1..(Len(q) - 1) : RemoveAt(q, j)[i] = IF i < j THEN q[i] ELSE q[i + 1]
<1>0. Len(q) \in Nat /\ j \in Int /\ \A i \in 1..Len(q) : q[i] \in S
  BY LenProperties, ElementOfSeq
<1> DEFINE f == SubSeq(q, 1, j - 1)
           b == SubSeq(q, j + 1, Len(q))
<1>1. f \in Seq(S) /\ Len(f) = j - 1 /\ \A i \in 1..(j - 1) : f[i] = q[i]
  <2>1. \A i \in 1..(j - 1) : q[i] \in S
    BY <1>0
  <2>2. /\ f \in Seq(S) /\ Len(f) = IF 1 <= j - 1 THEN j - 1 - 1 + 1 ELSE 0
        /\ \A i \in 1..(j - 1 - 1 + 1) : f[i] = q[1 + i - 1]
    BY <1>0, <2>1, SubSeqProperties
  <2> QED BY <1>0, <2>2
<1>2. b \in Seq(S) /\ Len(b) = Len(q) - j /\ \A i \in 1..(Len(q) - j) : b[i] = q[j + i]
  BY <1>0, EntriesDropped
<1> HIDE DEF f, b
<1>3. /\ f \o b \in Seq(S) /\ Len(f \o b) = Len(f) + Len(b)
      /\ \A i \in 1..(Len(f) + Len(b)) : (f \o b)[i] = IF i <= Len(f) THEN f[i] ELSE b[i - Len(f)]
  BY <1>1, <1>2, ConcatProperties
<1>4. RemoveAt(q, j) = f \o b
  BY DEF RemoveAt, f, b
<1>5. Len(f) + Len(b) = Len(q) - 1
  BY <1>0, <1>1, <1>2
<1>6. ASSUME NEW i \in 1..(Len(q) - 1)
      PROVE  (f \o b)[i] = IF i < j THEN q[i] ELSE q[i + 1]
  <2>1. CASE i < j
    BY <1>0, <1>1, <1>3, <1>5, <2>1
  <2>2. CASE ~(i < j)
    <3>1. (f \o b)[i] = b[i - (j - 1)]
      BY <1>0, <1>1, <1>3, <1>5, <2>2
    <3>2. i - (j - 1) \in 1..(Len(q) - j) /\ j + (i - (j - 1)) = i + 1
      BY <1>0, <2>2
    <3> QED BY <1>2, <2>2, <3>1, <3>2
  <2> QED BY <2>1, <2>2
<1> QED BY <1>3, <1>4, <1>5, <1>6

-----------------------------------------------------------------------------
(* The event store. *)

StoreCounters == [stored : Nat, deleted : Nat, bytes : Int]

\* Until the counters are reset they are exact; after a reset they stay behind the calls.
StoreInv ==
  /\ storeEvents \in Seq(StoredEvents) /\ storeStats \in StoreCounters /\ storeStuck \in BOOLEAN
  /\ IsFiniteSet(asked) /\ storeStats.stored <= Cardinality(asked)
  /\ asked = {} => storeStats = NoStats
  /\ storeStats.stored = Cardinality(asked) =>
       /\ storeStats.stored - storeStats.deleted = Len(storeEvents)
       /\ storeStats.bytes >= Len(storeEvents)
  /\ Len(storeEvents) <= StoreBatch
  /\ storeStuck <=> Len(storeEvents) = StoreBatch

(* The store is empty. *)
LEMMA StoreInvInit == StoreInit => StoreInv
<1> SUFFICES ASSUME StoreInit PROVE StoreInv
  OBVIOUS
<1>1. storeEvents \in Seq(StoredEvents) /\ Len(storeEvents) = 0
  BY EmptySeq DEF StoreInit
<1>2. IsFiniteSet(asked) /\ Cardinality(asked) = 0
  BY FS_EmptySet DEF StoreInit
<1>3. /\ storeStats \in StoreCounters /\ storeStats = NoStats
      /\ storeStats.stored = 0 /\ storeStats.deleted = 0 /\ storeStats.bytes = 0
  BY DEF StoreInit, StoreCounters, NoStats
<1>4. Len(storeEvents) <= StoreBatch /\ Len(storeEvents) # StoreBatch
  BY <1>1, EventServiceAssumptions
<1>5. /\ storeStats.stored <= Cardinality(asked)
      /\ storeStats.stored - storeStats.deleted = Len(storeEvents)
      /\ storeStats.bytes >= Len(storeEvents)
  BY <1>1, <1>2, <1>3
<1>6. storeStuck = FALSE
  BY DEF StoreInit
<1> QED BY <1>1, <1>2, <1>3, <1>4, <1>5, <1>6, Zenon DEF StoreInv

(* Every step of the store keeps the invariant. *)
LEMMA StoreInvStep ==
  ASSUME StoreInv, [StoreNext]_storeVars
  PROVE  StoreInv'
<1>0. /\ storeEvents \in Seq(StoredEvents) /\ Len(storeEvents) \in Nat
      /\ DOMAIN storeEvents = 1..Len(storeEvents) /\ storeStats \in StoreCounters
      /\ storeStats.stored \in Nat /\ storeStats.deleted \in Nat /\ storeStats.bytes \in Int
      /\ IsFiniteSet(asked) /\ Cardinality(asked) \in Nat /\ StoreBatch \in Nat \ {0}
  BY LenProperties, FS_CardinalityType, EventServiceAssumptions DEF StoreInv, StoreCounters
<1>i. /\ storeStats.stored <= Cardinality(asked) /\ Len(storeEvents) <= StoreBatch
      /\ storeStats.stored = Cardinality(asked) =>
           /\ storeStats.stored - storeStats.deleted = Len(storeEvents)
           /\ storeStats.bytes >= Len(storeEvents)
  BY Zenon DEF StoreInv
<1>s. ~storeStuck => Len(storeEvents) # StoreBatch
  BY Zenon DEF StoreInv
<1>1. ASSUME NEW e \in StoredEvents, StoreEvent(e) PROVE StoreInv'
  <2>1. storeEvents' \in Seq(StoredEvents) /\ Len(storeEvents') = Len(storeEvents) + 1
    BY <1>0, <1>1, AppendProperties DEF StoreEvent
  <2>2. IsFiniteSet(asked') /\ Cardinality(asked') = Cardinality(asked) + 1 /\ asked' # {}
    BY <1>0, <1>1, FS_AddElement DEF StoreEvent
  <2>3. /\ storeStats' \in StoreCounters /\ storeStats'.stored = storeStats.stored + 1
        /\ storeStats'.deleted = storeStats.deleted /\ storeStats'.bytes = storeStats.bytes + 1
    <3>1. storeStats' = [storeStats EXCEPT !.stored = storeStats.stored + 1,
                                           !.bytes = storeStats.bytes + 1]
      BY <1>1 DEF StoreEvent
    <3>2. storeStats.stored + 1 \in Nat /\ storeStats.bytes + 1 \in Int
      BY <1>0
    <3> QED BY <1>0, <3>1, <3>2 DEF StoreCounters
  <2>4. ~storeStuck /\ storeStuck' = (Len(storeEvents) + 1 >= StoreBatch)
    BY <1>1 DEF StoreEvent
  <2>b. Len(storeEvents) # StoreBatch
    BY <1>s, <2>4, Zenon
  <2>5. Len(storeEvents) < StoreBatch
    <3>1. Len(storeEvents) \in Nat /\ StoreBatch \in Nat /\ Len(storeEvents) <= StoreBatch
      BY <1>0, <1>i, Zenon DEF StoreInv
    <3> QED BY <3>1, <2>b
  <2>6. storeStuck' \in BOOLEAN /\ (storeStuck' <=> Len(storeEvents') = StoreBatch)
    <3>1. Len(storeEvents) + 1 >= StoreBatch => Len(storeEvents') = StoreBatch
      BY <1>0, <2>1, <2>5
    <3>2. Len(storeEvents') = StoreBatch => Len(storeEvents) + 1 >= StoreBatch
      BY <1>0, <2>1
    <3>3. storeStuck' = (Len(storeEvents) + 1 >= StoreBatch)
      BY <2>4
    <3>4. storeStuck' \in BOOLEAN
      BY <3>3
    <3>5. storeStuck' <=> (Len(storeEvents) + 1 >= StoreBatch)
      BY <3>3
    <3> QED BY <3>1, <3>2, <3>4, <3>5, Zenon
  <2>a. Len(storeEvents') <= StoreBatch
    BY <1>0, <2>1, <2>5
  <2>7. storeStats'.stored <= Cardinality(asked')
        /\ (storeStats'.stored = Cardinality(asked') => storeStats.stored = Cardinality(asked))
    BY <1>0, <1>i, <2>2, <2>3
  <2>8. storeStats'.stored = Cardinality(asked') =>
          /\ storeStats'.stored - storeStats'.deleted = Len(storeEvents')
          /\ storeStats'.bytes >= Len(storeEvents')
    <3> SUFFICES ASSUME storeStats'.stored = Cardinality(asked')
        PROVE /\ storeStats'.stored - storeStats'.deleted = Len(storeEvents')
              /\ storeStats'.bytes >= Len(storeEvents')
      OBVIOUS
    <3>1. /\ storeStats.stored - storeStats.deleted = Len(storeEvents)
          /\ storeStats.bytes >= Len(storeEvents)
      BY <1>i, <2>7, Zenon
    <3>2. /\ storeStats.stored \in Int /\ storeStats.deleted \in Int /\ storeStats.bytes \in Int
          /\ Len(storeEvents) \in Nat
      BY <1>0 DEF StoreCounters
    <3> QED BY <2>1, <2>3, <3>1, <3>2
  <2> QED BY <2>1, <2>2, <2>3, <2>6, <2>7, <2>8, <2>a, Zenon DEF StoreInv
<1>2. ASSUME NEW e \in StoredEvents, DeleteEvent(e) PROVE StoreInv'
  <2>1. PICK i \in DOMAIN storeEvents : storeEvents' = RemoveAt(storeEvents, i)
    BY <1>2 DEF DeleteEvent
  <2>2. storeEvents' \in Seq(StoredEvents) /\ Len(storeEvents') = Len(storeEvents) - 1
    <3>1. i \in 1..Len(storeEvents)
      BY <1>0
    <3>2. RemoveAt(storeEvents, i) \in Seq(StoredEvents) /\ Len(RemoveAt(storeEvents, i)) = Len(storeEvents) - 1
      BY <1>0, <3>1, EntryPopped
    <3> QED BY <2>1, <3>2
  <2>3. /\ storeStats' \in StoreCounters /\ storeStats'.stored = storeStats.stored
        /\ storeStats'.deleted = storeStats.deleted + 1 /\ storeStats'.bytes = storeStats.bytes - 1
    <3>1. storeStats' = [storeStats EXCEPT !.deleted = storeStats.deleted + 1,
                                           !.bytes = storeStats.bytes - 1]
      BY <1>2 DEF DeleteEvent
    <3>2. storeStats.deleted + 1 \in Nat /\ storeStats.bytes - 1 \in Int
      BY <1>0
    <3> QED BY <1>0, <3>1, <3>2 DEF StoreCounters
  <2>4. ~storeStuck /\ UNCHANGED <<storeStuck, asked>>
    BY <1>2 DEF DeleteEvent
  <2>b. Len(storeEvents) \in Nat /\ StoreBatch \in Nat /\ Len(storeEvents) <= StoreBatch
    BY <1>0, <1>i, Zenon DEF StoreInv
  <2>5. Len(storeEvents') <= StoreBatch /\ Len(storeEvents') # StoreBatch
    BY <2>b, <2>2
  <2>a. ~storeStuck' /\ storeStuck' \in BOOLEAN
    BY <2>4, Zenon DEF StoreInv
  <2>6. asked # {}
    <3>1. ASSUME asked = {} PROVE FALSE
      <4>1. storeStats.stored = 0 /\ storeStats.deleted = 0 /\ Cardinality(asked) = 0
        BY <3>1, FS_EmptySet DEF StoreInv, NoStats
      <4>2. Len(storeEvents) = 0
        BY <1>0, <4>1 DEF StoreInv
      <4> QED BY <1>0, <2>1, <4>2
    <3> QED BY <3>1
  <2>7. storeStats'.stored = Cardinality(asked') =>
          /\ storeStats'.stored - storeStats'.deleted = Len(storeEvents')
          /\ storeStats'.bytes >= Len(storeEvents')
    BY <1>0, <1>i, <2>2, <2>3, <2>4
  <2>8. IsFiniteSet(asked') /\ asked' # {} /\ storeStats'.stored <= Cardinality(asked')
    BY <1>0, <1>i, <2>3, <2>4, <2>6
  <2> QED BY <2>2, <2>3, <2>5, <2>7, <2>8, <2>a, Zenon DEF StoreInv
<1>3. ASSUME NEW k \in 1 .. StoreBatch, CleanupOldEvents(k) PROVE StoreInv'
  <2>1. /\ k \in 1..Len(storeEvents) /\ storeEvents' = SubSeq(storeEvents, k + 1, Len(storeEvents))
        /\ ~storeStuck /\ UNCHANGED <<storeStuck, asked>>
        /\ storeStats' = [storeStats EXCEPT !.deleted = storeStats.deleted + k]
    BY <1>3 DEF CleanupOldEvents, Removed
  <2>2. storeEvents' \in Seq(StoredEvents) /\ Len(storeEvents') = Len(storeEvents) - k
    <3>1. k \in 0..Len(storeEvents)
      BY <1>0, <2>1
    <3> QED BY <1>0, <2>1, <3>1, EntriesDropped
  <2>3. /\ storeStats' \in StoreCounters /\ storeStats'.stored = storeStats.stored
        /\ storeStats'.deleted = storeStats.deleted + k /\ storeStats'.bytes = storeStats.bytes
    <3>1. storeStats.deleted + k \in Nat
      BY <1>0, <2>1
    <3> QED BY <1>0, <2>1, <3>1 DEF StoreCounters
  <2>5. Len(storeEvents') <= StoreBatch /\ Len(storeEvents') # StoreBatch
    BY <1>0, <1>i, <2>1, <2>2
  <2>a. ~storeStuck' /\ storeStuck' \in BOOLEAN
    BY <2>1, Zenon DEF StoreInv
  <2>6. asked # {}
    <3>1. ASSUME asked = {} PROVE FALSE
      <4>1. storeStats.stored = 0 /\ storeStats.deleted = 0 /\ Cardinality(asked) = 0
        BY <3>1, FS_EmptySet DEF StoreInv, NoStats
      <4>2. Len(storeEvents) = 0
        BY <1>0, <4>1 DEF StoreInv
      <4> QED BY <1>0, <2>1, <4>2
    <3> QED BY <3>1
  <2>7. storeStats'.stored = Cardinality(asked') =>
          /\ storeStats'.stored - storeStats'.deleted = Len(storeEvents')
          /\ storeStats'.bytes >= Len(storeEvents')
    <3>1. k \in Nat
      BY <1>0
    <3>2. storeStats'.stored = storeStats.stored /\ Cardinality(asked') = Cardinality(asked)
      BY <2>1, <2>3
    <3> SUFFICES ASSUME storeStats.stored = Cardinality(asked)
                 PROVE  /\ storeStats'.stored - storeStats'.deleted = Len(storeEvents')
                        /\ storeStats'.bytes >= Len(storeEvents')
      BY <3>2
    <3>3. /\ storeStats.stored - storeStats.deleted = Len(storeEvents)
          /\ storeStats.bytes >= Len(storeEvents)
      BY <1>i
    <3>4. /\ storeStats.stored \in Nat /\ storeStats.deleted \in Nat
          /\ storeStats.bytes \in Int /\ Len(storeEvents) \in Nat
      BY <1>0
    <3>5. storeStats'.stored - storeStats'.deleted = Len(storeEvents) - k
      BY <2>3, <3>1, <3>3, <3>4
    <3>6. storeStats'.bytes >= Len(storeEvents) - k
      BY <2>3, <3>1, <3>3, <3>4
    <3> QED BY <2>2, <3>5, <3>6
  <2>8. IsFiniteSet(asked') /\ asked' # {} /\ storeStats'.stored <= Cardinality(asked')
    BY <1>0, <1>i, <2>1, <2>3, <2>6
  <2> QED BY <2>2, <2>3, <2>5, <2>7, <2>8, <2>a, Zenon DEF StoreInv
<1>4. CASE ResetStats
  <2>1. /\ storeStats # NoStats /\ storeStats' = NoStats
        /\ UNCHANGED <<storeEvents, storeStuck, asked>>
    BY <1>4 DEF ResetStats
  <2>2. NoStats \in StoreCounters /\ NoStats.stored = 0
    BY DEF NoStats, StoreCounters
  <2>3. Cardinality(asked) # 0
    BY <1>0, <2>1, FS_EmptySet DEF StoreInv
  <2>4. /\ storeStats'.stored <= Cardinality(asked') /\ storeStats'.stored # Cardinality(asked')
        /\ asked' # {} /\ storeStats' \in StoreCounters
    BY <1>0, <2>1, <2>2, <2>3, FS_EmptySet
  <2>5. UNCHANGED <<storeEvents, storeStuck, asked>>
    BY <2>1
  <2> QED BY <2>4, <2>5, Zenon DEF StoreInv
<1>5. CASE UNCHANGED storeVars
  BY <1>5 DEF storeVars, StoreInv
<1> QED BY <1>1, <1>2, <1>3, <1>4, <1>5 DEF StoreNext

(* The invariant says what the run checks. *)
LEMMA StoreCountsWhatIsThere == StoreInv => StoreCountsAgree
BY DEF StoreInv, StoreCountsAgree

-----------------------------------------------------------------------------
(* The processor of the dead letter queue. *)

DlqPcs == {"idle", "error", "unknown", "exhausted", "sleeping", "counted", "retried", "logged"}
PastSleep == {"counted", "retried", "error", "logged"}

\* a message that may be retried
Retriable(l) == letter[l].sound /\ EventTypeKnown(l) /\ letter[l].retries # DlqRetries

\* the calls that slept over a message and have gone on
DeadWork(l) == {c \in DlqCalls : /\ dlqCall[c].of = l /\ dlqCall[c].delay > 0
                                 /\ dlqCall[c].pc \in PastSleep}

DeadTypes ==
  /\ letter \in [DeadLetters -> Letters] /\ letterRow \subseteq DeadLetters
  /\ dlqCall \in [DlqCalls -> [pc : DlqPcs, of : DeadLetters \cup {NoEvent}, delay : Nat]]
  /\ letterMetric \in [DeadLetters -> Nat]

\* Only calls for messages that may be retried sleep, count and store.
DeadPath ==
  \A c \in DlqCalls :
    /\ dlqCall[c].pc = "sleeping" => dlqCall[c].delay > 0
    /\ dlqCall[c].pc \in {"sleeping", "counted", "retried"} =>
         dlqCall[c].of \in DeadLetters /\ Retriable(dlqCall[c].of)

\* A row belongs to the one call that stored it.
DeadRows ==
  /\ \A l \in DeadLetters :
       l \in letterRow <=> \E c \in DlqCalls : dlqCall[c].pc = "retried" /\ dlqCall[c].of = l
  /\ \A c, d \in DlqCalls :
       dlqCall[c].pc = "retried" /\ dlqCall[d].pc = "retried" /\ dlqCall[c].of = dlqCall[d].of => c = d

\* A message is counted by calls that slept over it, at most once by each.
DeadCounts ==
  \A l \in DeadLetters :
    /\ letterMetric[l] <= Cardinality(DeadWork(l))
    /\ letterMetric[l] # 0 => Retriable(l)

DeadInv == DeadTypes /\ DeadPath /\ DeadRows /\ DeadCounts

(* No call has begun. *)
LEMMA DeadInvInit == DeadInit => DeadInv
<1> SUFFICES ASSUME DeadInit PROVE DeadInv
  OBVIOUS
<1>1. DeadTypes
  BY DEF DeadInit, DeadTypes, DlqPcs
<1>2. DeadPath
  BY DEF DeadInit, DeadPath
<1>3. DeadRows
  BY DEF DeadInit, DeadRows
<1>4. DeadCounts
  <2> SUFFICES ASSUME NEW l \in DeadLetters
               PROVE  /\ letterMetric[l] <= Cardinality(DeadWork(l))
                      /\ letterMetric[l] # 0 => Retriable(l)
    BY DEF DeadCounts
  <2>1. letterMetric[l] = 0
    BY DEF DeadInit
  <2>2. IsFiniteSet(DeadWork(l))
    BY FS_Subset, EventServiceAssumptions DEF DeadWork
  <2> QED BY <2>1, <2>2, FS_CardinalityType
<1> QED BY <1>1, <1>2, <1>3, <1>4 DEF DeadInv

(* Every delay is positive. *)
LEMMA RetryDelayPositive ==
  ASSUME NEW n \in Nat
  PROVE  RetryDelay(n) \in Nat /\ RetryDelay(n) > 0
<1>1. CASE n < 6
  <2>1. n = 0 \/ n = 1 \/ n = 2 \/ n = 3 \/ n = 4 \/ n = 5
    BY <1>1
  <2> QED BY <1>1, <2>1 DEF RetryDelay
<1>2. CASE ~(n < 6)
  BY <1>2 DEF RetryDelay
<1> QED BY <1>1, <1>2

(* The work on a message only grows: a step changes one call, and one that is past its
   sleep stays so. *)
LEMMA DeadWorkGrows ==
  ASSUME DeadTypes, NEW l \in DeadLetters, DeadWork(l) \subseteq DeadWork(l)'
  PROVE  /\ Cardinality(DeadWork(l)) \in Nat /\ Cardinality(DeadWork(l)') \in Nat
         /\ Cardinality(DeadWork(l)) <= Cardinality(DeadWork(l)')
         /\ IsFiniteSet(DeadWork(l)) /\ IsFiniteSet(DeadWork(l)')
<1>1. IsFiniteSet(DeadWork(l)) /\ IsFiniteSet(DeadWork(l)')
  BY FS_Subset, EventServiceAssumptions DEF DeadWork
<1> QED BY <1>1, FS_Subset, FS_CardinalityType

(* A step that counts nothing and takes no call back. *)
LEMMA DeadCountsKept ==
  ASSUME DeadTypes, DeadCounts, UNCHANGED <<letter, letterMetric>>,
         \A l \in DeadLetters : DeadWork(l) \subseteq DeadWork(l)'
  PROVE  DeadCounts'
<1> SUFFICES ASSUME NEW l \in DeadLetters
             PROVE  /\ letterMetric'[l] <= Cardinality(DeadWork(l)')
                    /\ letterMetric'[l] # 0 => Retriable(l)'
  BY DEF DeadCounts
<1>1. letterMetric'[l] = letterMetric[l] /\ letterMetric[l] \in Nat
  BY DEF DeadTypes
<1>2. Retriable(l) => Retriable(l)'
  BY DEF Retriable, EventTypeKnown
<1>3. /\ Cardinality(DeadWork(l)) \in Nat /\ Cardinality(DeadWork(l)') \in Nat
      /\ Cardinality(DeadWork(l)) <= Cardinality(DeadWork(l)')
  BY DeadWorkGrows
<1>4. letterMetric[l] <= Cardinality(DeadWork(l)) /\ (letterMetric[l] # 0 => Retriable(l))
  BY DEF DeadCounts
<1> QED BY <1>1, <1>2, <1>3, <1>4

(* A call moves on: the rest of its record is as it was. *)
LEMMA DlqMoves ==
  ASSUME DeadTypes, NEW c \in DlqCalls, NEW how \in DlqPcs, DlqEnds(c, how)
  PROVE  /\ dlqCall' \in [DlqCalls -> [pc : DlqPcs, of : DeadLetters \cup {NoEvent}, delay : Nat]]
         /\ dlqCall'[c].pc = how
         /\ \A d \in DlqCalls : /\ dlqCall'[d].of = dlqCall[d].of
                                /\ dlqCall'[d].delay = dlqCall[d].delay
                                /\ d # c => dlqCall'[d].pc = dlqCall[d].pc
BY DEF DeadTypes, DlqEnds

(* Every step of the processor keeps the invariant. *)
LEMMA DeadInvStep ==
  ASSUME DeadInv, [DeadNext]_deadVars
  PROVE  DeadInv'
<1>0. DeadTypes /\ DeadPath /\ DeadRows /\ DeadCounts
  BY DEF DeadInv
<1>1. ASSUME NEW c \in DlqCalls, NEW l \in DeadLetters, ProcessDeadLetter(c, l) PROVE DeadInv'
  <2>1. PICK how \in {"error", "unknown", "exhausted", "sleeping"}, n \in Nat :
          /\ dlqCall' = [dlqCall EXCEPT ![c] = [pc |-> how, of |-> l, delay |-> n]]
          /\ how = "sleeping" => n > 0 /\ Retriable(l)
          /\ how # "sleeping" => n = 0
    <3>1. letter[l].retries \in Nat /\ DlqRetries \in Nat /\ letter[l] \in Letters
      BY <1>0, EventServiceAssumptions DEF DeadTypes, Letters
    <3>2. RetryDelay(letter[l].retries) \in Nat /\ RetryDelay(letter[l].retries) > 0
      BY <3>1, RetryDelayPositive
    <3>3. letter[l].retries < DlqRetries => letter[l].retries # DlqRetries
      BY <3>1
    <3>4. letter[l].retries >= DlqRetries \/ letter[l].retries < DlqRetries
      BY <3>1
    <3>5. CASE ~letter[l].sound
      BY <1>1, <3>5 DEF ProcessDeadLetter
    <3>6. CASE letter[l].sound /\ ~EventTypeKnown(l)
      BY <1>1, <3>6 DEF ProcessDeadLetter
    <3>7. CASE letter[l].sound /\ EventTypeKnown(l) /\ letter[l].retries >= DlqRetries
      BY <1>1, <3>7 DEF ProcessDeadLetter
    <3>8. CASE letter[l].sound /\ EventTypeKnown(l) /\ ~(letter[l].retries >= DlqRetries)
      <4>1. dlqCall' = [dlqCall EXCEPT ![c] = [pc |-> "sleeping", of |-> l,
                                               delay |-> RetryDelay(letter[l].retries)]]
        BY <1>1, <3>8 DEF ProcessDeadLetter
      <4>2. Retriable(l)
        BY <3>3, <3>4, <3>8, Zenon DEF Retriable
      <4> QED BY <4>1, <4>2, <3>2
    <3> QED BY <3>5, <3>6, <3>7, <3>8
  <2>2. dlqCall[c].pc = "idle" /\ UNCHANGED <<letter, letterRow, letterMetric>>
    BY <1>1 DEF ProcessDeadLetter
  <2>3. /\ dlqCall' \in [DlqCalls -> [pc : DlqPcs, of : DeadLetters \cup {NoEvent}, delay : Nat]]
        /\ dlqCall'[c].pc = how /\ dlqCall'[c].of = l /\ dlqCall'[c].delay = n
        /\ \A d \in DlqCalls : d # c => dlqCall'[d] = dlqCall[d]
    BY <1>0, <2>1 DEF DeadTypes, DlqPcs
  <2>4. DeadTypes'
    BY <1>0, <2>2, <2>3 DEF DeadTypes
  <2>5. DeadPath'
    BY <1>0, <2>1, <2>2, <2>3 DEF DeadPath, Retriable, EventTypeKnown
  <2>6. DeadRows'
    BY <1>0, <2>2, <2>3 DEF DeadRows
  <2>7. \A k \in DeadLetters : DeadWork(k) \subseteq DeadWork(k)'
    BY <2>2, <2>3 DEF DeadWork, PastSleep
  <2>8. DeadCounts'
    BY <1>0, <2>2, <2>7, DeadCountsKept
  <2> QED BY <2>4, <2>5, <2>6, <2>8 DEF DeadInv
<1>2. ASSUME NEW c \in DlqCalls, HandlerCounts(c) PROVE DeadInv'
  <2>1. PICK l \in DeadLetters : l = dlqCall[c].of
    BY <1>0, <1>2 DEF HandlerCounts, DeadPath
  <2>2. /\ dlqCall[c].pc = "sleeping" /\ dlqCall[c].delay > 0 /\ Retriable(l)
        /\ UNCHANGED <<letter, letterRow>>
    BY <1>0, <1>2, <2>1 DEF HandlerCounts, DeadPath
  <2>3. PICK how \in {"counted", "error"} :
          /\ DlqEnds(c, how)
          /\ \/ how = "counted" /\ letterMetric' = [letterMetric EXCEPT ![l] = @ + 1]
             \/ how = "error" /\ letterMetric' = letterMetric
    BY <1>2, <2>1 DEF HandlerCounts
  <2>4. /\ dlqCall' \in [DlqCalls -> [pc : DlqPcs, of : DeadLetters \cup {NoEvent}, delay : Nat]]
        /\ dlqCall'[c].pc = how
        /\ \A d \in DlqCalls : /\ dlqCall'[d].of = dlqCall[d].of
                               /\ dlqCall'[d].delay = dlqCall[d].delay
                               /\ d # c => dlqCall'[d].pc = dlqCall[d].pc
    <3>1. how \in DlqPcs
      BY DEF DlqPcs
    <3> QED BY <1>0, <2>3, <3>1, DlqMoves
  <2>5. letterMetric' \in [DeadLetters -> Nat]
    BY <1>0, <2>3 DEF DeadTypes
  <2>6. DeadTypes'
    BY <1>0, <2>2, <2>4, <2>5 DEF DeadTypes
  <2>7. \A k \in DeadLetters : Retriable(k) => Retriable(k)'
    BY <2>2 DEF Retriable, EventTypeKnown
  <2>8. DeadPath'
    <3> SUFFICES ASSUME NEW d \in DlqCalls
                 PROVE  /\ dlqCall'[d].pc = "sleeping" => dlqCall'[d].delay > 0
                        /\ dlqCall'[d].pc \in {"sleeping", "counted", "retried"} =>
                             dlqCall'[d].of \in DeadLetters /\ Retriable(dlqCall[d].of)'
      BY DEF DeadPath, Retriable, EventTypeKnown
    <3> QED BY <1>0, <2>1, <2>2, <2>4, <2>7 DEF DeadPath
  <2>9. DeadRows'
    BY <1>0, <2>2, <2>3, <2>4 DEF DeadRows
  <2>10. \A k \in DeadLetters : DeadWork(k) \subseteq DeadWork(k)'
    BY <2>2, <2>3, <2>4 DEF DeadWork, PastSleep
  <2>11. DeadCounts'
    <3>1. CASE how = "error"
      BY <1>0, <2>2, <2>3, <2>10, <3>1, DeadCountsKept
    <3>2. CASE how = "counted"
      <4> SUFFICES ASSUME NEW k \in DeadLetters
                   PROVE  /\ letterMetric'[k] <= Cardinality(DeadWork(k)')
                          /\ letterMetric'[k] # 0 => Retriable(k)'
        BY DEF DeadCounts
      <4>1. /\ Cardinality(DeadWork(k)) \in Nat /\ Cardinality(DeadWork(k)') \in Nat
            /\ Cardinality(DeadWork(k)) <= Cardinality(DeadWork(k)')
            /\ IsFiniteSet(DeadWork(k)) /\ IsFiniteSet(DeadWork(k)')
        BY <1>0, <2>10, DeadWorkGrows
      <4>2. letterMetric[k] \in Nat /\ letterMetric[k] <= Cardinality(DeadWork(k))
            /\ (letterMetric[k] # 0 => Retriable(k))
        BY <1>0 DEF DeadCounts, DeadTypes
      <4>3. CASE k # l
        <5>1. letterMetric'[k] = letterMetric[k]
          BY <1>0, <2>3, <3>2, <4>3 DEF DeadTypes
        <5> QED BY <4>1, <4>2, <5>1, <2>7
      <4>4. CASE k = l
        <5>1. letterMetric'[k] = letterMetric[k] + 1
          BY <1>0, <2>3, <3>2, <4>4 DEF DeadTypes
        <5>2. DeadWork(k)' = DeadWork(k) \cup {c} /\ c \notin DeadWork(k)
          BY <2>1, <2>2, <2>3, <2>4, <3>2, <4>4 DEF DeadWork, PastSleep
        <5>3. Cardinality(DeadWork(k)') = Cardinality(DeadWork(k)) + 1
          BY <4>1, <5>2, FS_AddElement
        <5>4. Retriable(k)'
          BY <2>2, <2>7, <4>4
        <5> QED BY <4>1, <4>2, <5>1, <5>3, <5>4
      <4> QED BY <4>3, <4>4
    <3> QED BY <3>1, <3>2
  <2> QED BY <2>6, <2>8, <2>9, <2>11 DEF DeadInv
<1>3. ASSUME NEW c \in DlqCalls, HandlerInserts(c) PROVE DeadInv'
  <2>1. PICK l \in DeadLetters : l = dlqCall[c].of
    BY <1>0, <1>3 DEF HandlerInserts, DeadPath
  <2>2. /\ dlqCall[c].pc = "counted" /\ Retriable(l) /\ UNCHANGED <<letter, letterMetric>>
    BY <1>0, <1>3, <2>1 DEF HandlerInserts, DeadPath
  <2>3. PICK how \in {"retried", "error"} :
          /\ DlqEnds(c, how)
          /\ \/ how = "retried" /\ l \notin letterRow /\ letterRow' = letterRow \cup {l}
             \/ how = "error" /\ letterRow' = letterRow
    BY <1>3, <2>1 DEF HandlerInserts
  <2>4. /\ dlqCall' \in [DlqCalls -> [pc : DlqPcs, of : DeadLetters \cup {NoEvent}, delay : Nat]]
        /\ dlqCall'[c].pc = how
        /\ \A d \in DlqCalls : /\ dlqCall'[d].of = dlqCall[d].of
                               /\ dlqCall'[d].delay = dlqCall[d].delay
                               /\ d # c => dlqCall'[d].pc = dlqCall[d].pc
    <3>1. how \in DlqPcs
      BY DEF DlqPcs
    <3> QED BY <1>0, <2>3, <3>1, DlqMoves
  <2>6. DeadTypes'
    BY <1>0, <2>2, <2>3, <2>4 DEF DeadTypes
  <2>7. \A k \in DeadLetters : Retriable(k) => Retriable(k)'
    BY <2>2 DEF Retriable, EventTypeKnown
  <2>8. DeadPath'
    <3> SUFFICES ASSUME NEW d \in DlqCalls
                 PROVE  /\ dlqCall'[d].pc = "sleeping" => dlqCall'[d].delay > 0
                        /\ dlqCall'[d].pc \in {"sleeping", "counted", "retried"} =>
                             dlqCall'[d].of \in DeadLetters /\ Retriable(dlqCall[d].of)'
      BY DEF DeadPath, Retriable, EventTypeKnown
    <3> QED BY <1>0, <2>1, <2>2, <2>3, <2>4, <2>7 DEF DeadPath
  <2>9. DeadRows'
    <3>1. CASE how = "error"
      BY <1>0, <2>2, <2>3, <2>4, <3>1 DEF DeadRows
    <3>2. CASE how = "retried"
      <4>1. \A d \in DlqCalls : dlqCall[d].pc = "retried" => dlqCall[d].of # l
        BY <1>0, <2>3, <3>2 DEF DeadRows
      <4>2. \A k \in DeadLetters :
              k \in letterRow' <=> \E d \in DlqCalls : dlqCall'[d].pc = "retried" /\ dlqCall'[d].of = k
        BY <1>0, <2>1, <2>2, <2>3, <2>4, <3>2 DEF DeadRows
      <4>3. \A d, e \in DlqCalls :
              dlqCall'[d].pc = "retried" /\ dlqCall'[e].pc = "retried" /\ dlqCall'[d].of = dlqCall'[e].of
                => d = e
        BY <1>0, <2>1, <2>4, <4>1 DEF DeadRows
      <4> QED BY <4>2, <4>3 DEF DeadRows
    <3> QED BY <3>1, <3>2
  <2>10. \A k \in DeadLetters : DeadWork(k) \subseteq DeadWork(k)'
    BY <2>2, <2>3, <2>4 DEF DeadWork, PastSleep
  <2>11. DeadCounts'
    BY <1>0, <2>2, <2>10, DeadCountsKept
  <2> QED BY <2>6, <2>8, <2>9, <2>11 DEF DeadInv
<1>4. ASSUME NEW c \in DlqCalls, RecordFailure(c) PROVE DeadInv'
  <2>2. /\ dlqCall[c].pc \in {"exhausted", "error"} /\ DlqEnds(c, "logged")
        /\ UNCHANGED <<letter, letterRow, letterMetric>>
    BY <1>4 DEF RecordFailure
  <2>4. /\ dlqCall' \in [DlqCalls -> [pc : DlqPcs, of : DeadLetters \cup {NoEvent}, delay : Nat]]
        /\ dlqCall'[c].pc = "logged"
        /\ \A d \in DlqCalls : /\ dlqCall'[d].of = dlqCall[d].of
                               /\ dlqCall'[d].delay = dlqCall[d].delay
                               /\ d # c => dlqCall'[d].pc = dlqCall[d].pc
    <3>1. "logged" \in DlqPcs
      BY DEF DlqPcs
    <3> QED BY <1>0, <2>2, <3>1, DlqMoves
  <2>6. DeadTypes'
    BY <1>0, <2>2, <2>4 DEF DeadTypes
  <2>8. DeadPath'
    BY <1>0, <2>2, <2>4 DEF DeadPath, Retriable, EventTypeKnown
  <2>9. DeadRows'
    BY <1>0, <2>2, <2>4 DEF DeadRows
  <2>10. \A k \in DeadLetters : DeadWork(k) \subseteq DeadWork(k)'
    BY <2>2, <2>4 DEF DeadWork, PastSleep
  <2>11. DeadCounts'
    BY <1>0, <2>2, <2>10, DeadCountsKept
  <2> QED BY <2>6, <2>8, <2>9, <2>11 DEF DeadInv
<1>5. CASE UNCHANGED deadVars
  <2>1. UNCHANGED <<letter, dlqCall, letterRow, letterMetric>>
    BY <1>5 DEF deadVars
  <2>2. DeadTypes' /\ DeadRows'
    BY <1>0, <2>1 DEF DeadTypes, DeadRows
  <2>3. DeadPath'
    BY <1>0, <2>1 DEF DeadPath, Retriable, EventTypeKnown
  <2>4. \A k \in DeadLetters : DeadWork(k) \subseteq DeadWork(k)'
    BY <2>1 DEF DeadWork
  <2>5. DeadCounts'
    BY <1>0, <2>1, <2>4, DeadCountsKept
  <2> QED BY <2>2, <2>3, <2>5 DEF DeadInv
<1> QED BY <1>1, <1>2, <1>3, <1>4, <1>5 DEF DeadNext

(* The invariant says what the run checks. *)
LEMMA DeadLettersCount == DeadInv => RetriesTakeEffectOnce
<1> SUFFICES ASSUME DeadInv, NEW l \in DeadLetters
             PROVE
    LET calls == {c \in DlqCalls : dlqCall[c].of = l}
        ended(how) == {c \in calls : dlqCall[c].pc = how}
    IN  /\ Cardinality(ended("retried")) <= 1
        /\ l \in letterRow <=> ended("retried") # {}
        /\ letterMetric[l] <= Cardinality({c \in calls : dlqCall[c].delay > 0})
        /\ letterMetric[l] - Cardinality(ended("retried")) <=
             Cardinality(ended("counted") \cup ended("error") \cup ended("logged"))
        /\ ~letter[l].sound \/ ~EventTypeKnown(l) \/ letter[l].retries = DlqRetries =>
             letterMetric[l] = 0 /\ l \notin letterRow
  BY DEF RetriesTakeEffectOnce
<1> DEFINE calls == {c \in DlqCalls : dlqCall[c].of = l}
           ended(how) == {c \in calls : dlqCall[c].pc = how}
           slept == {c \in calls : dlqCall[c].delay > 0}
           others == ended("counted") \cup ended("error") \cup ended("logged")
<1>0. DeadTypes /\ DeadPath /\ DeadRows /\ DeadCounts
  BY DEF DeadInv
<1>1. /\ IsFiniteSet(ended("retried")) /\ IsFiniteSet(slept) /\ IsFiniteSet(others)
      /\ IsFiniteSet(DeadWork(l))
  <2>1. ended("retried") \subseteq DlqCalls /\ slept \subseteq DlqCalls /\ others \subseteq DlqCalls
        /\ DeadWork(l) \subseteq DlqCalls
    BY DEF DeadWork
  <2> QED BY <2>1, FS_Subset, EventServiceAssumptions
<1>2. DeadWork(l) \subseteq slept /\ DeadWork(l) \subseteq ended("retried") \cup others
  BY DEF DeadWork, PastSleep
<1>3. letterMetric[l] \in Nat /\ letterMetric[l] <= Cardinality(DeadWork(l))
      /\ (letterMetric[l] # 0 => Retriable(l))
  BY <1>0 DEF DeadTypes, DeadCounts
<1>4. l \in letterRow <=> ended("retried") # {}
  BY <1>0 DEF DeadRows
<1>5. \A c, d \in ended("retried") : c = d
  BY <1>0 DEF DeadRows
<1>6. l \in letterRow => Retriable(l)
  BY <1>0 DEF DeadRows, DeadPath
<1> HIDE DEF calls, ended, slept, others
<1>7. Cardinality(ended("retried")) \in Nat /\ Cardinality(ended("retried")) <= 1
  <2>1. CASE ended("retried") = {}
    BY <2>1, FS_EmptySet
  <2>2. CASE ended("retried") # {}
    <3>1. PICK c \in ended("retried") : TRUE
      BY <2>2
    <3>2. ended("retried") = {c}
      BY <1>5, <3>1
    <3> QED BY <3>2, FS_Singleton
  <2> QED BY <2>1, <2>2
<1>8. Cardinality(DeadWork(l)) \in Nat /\ Cardinality(slept) \in Nat /\ Cardinality(others) \in Nat
      /\ Cardinality(DeadWork(l)) <= Cardinality(slept)
  BY <1>1, <1>2, FS_Subset, FS_CardinalityType
<1>9. Cardinality(DeadWork(l)) <= Cardinality(ended("retried")) + Cardinality(others)
  <2> DEFINE both == ended("retried") \cup others
             common == ended("retried") \cap others
  <2>1. IsFiniteSet(both) /\ IsFiniteSet(common)
        /\ Cardinality(both) = Cardinality(ended("retried")) + Cardinality(others) - Cardinality(common)
    BY <1>1, FS_Union, FS_Intersection
  <2>2. Cardinality(both) \in Nat /\ Cardinality(common) \in Nat
        /\ Cardinality(DeadWork(l)) <= Cardinality(both)
    BY <1>2, <2>1, FS_Subset, FS_CardinalityType
  <2> HIDE DEF both, common
  <2> QED BY <1>7, <1>8, <2>1, <2>2
<1>10. letterMetric[l] <= Cardinality(slept)
  BY <1>3, <1>8
<1>11. letterMetric[l] - Cardinality(ended("retried")) <= Cardinality(others)
  BY <1>3, <1>7, <1>8, <1>9
<1>12. ~letter[l].sound \/ ~EventTypeKnown(l) \/ letter[l].retries = DlqRetries =>
         letterMetric[l] = 0 /\ l \notin letterRow
  BY <1>3, <1>6, Zenon DEF Retriable
<1> QED BY <1>4, <1>7, <1>10, <1>11, <1>12 DEF calls, ended, slept, others

-----------------------------------------------------------------------------
(* The gateway of the chat. *)

EndpointStates == {"none", "receiving", "broadcasting", "ended", "crashed"}

ChatTypes ==
  /\ connections \in Seq(Clients) /\ alive \subseteq Clients
  /\ endpoint \in [Clients -> EndpointStates] /\ spoke \subseteq Clients
  /\ index \in [Clients -> Nat \ {0}] /\ target \in [Clients -> SUBSET Clients]
  /\ got \in [Clients -> [Clients -> Nat]] /\ audience \in [Clients -> SUBSET Clients]

\* A connection is listed once, and only between its connect and its disconnect.
ChatListed ==
  /\ \A i, j \in 1..Len(connections) : connections[i] = connections[j] => i = j
  /\ \A i \in 1..Len(connections) : endpoint[connections[i]] \notin {"none", "ended"}

\* Only a broadcast sends, and a client broadcasts once.
ChatOnce ==
  \A c \in Clients :
    /\ target[c] # {} => endpoint[c] = "broadcasting"
    /\ endpoint[c] = "broadcasting" => c \in spoke
    /\ c \in spoke => endpoint[c] # "none"
    /\ c \notin spoke => index[c] = 1 /\ target[c] = {} /\ \A d \in Clients : got[c][d] = 0

\* Where an undisturbed broadcast has got to in the list.
ChatReached(c) ==
  /\ \A d \in audience[c] : \E i \in 1..Len(connections) : connections[i] = d
  /\ \/ target[c] = {}
     \/ /\ index[c] - 1 \in 1..Len(connections)
        /\ target[c] = {connections[index[c] - 1]}
  /\ \A i \in 1..Len(connections) :
       connections[i] \in audience[c] =>
         got[c][connections[i]] = IF i < index[c] /\ connections[i] \notin target[c] THEN 1 ELSE 0

ChatRunning ==
  \A c \in Clients \ disturbed : endpoint[c] = "broadcasting" => ChatReached(c)

ChatFinished ==
  \A c \in spoke \ disturbed :
    endpoint[c] = "receiving" => \A d \in audience[c] : got[c][d] = 1

ChatInv == ChatTypes /\ ChatListed /\ ChatOnce /\ ChatRunning /\ ChatFinished

(* Nobody is connected. *)
LEMMA ChatInvInit == RealtimeInit => ChatInv
<1> SUFFICES ASSUME RealtimeInit PROVE ChatInv
  OBVIOUS
<1>1. connections \in Seq(Clients) /\ Len(connections) = 0
  BY EmptySeq DEF RealtimeInit
<1>2. ChatTypes
  BY <1>1 DEF RealtimeInit, ChatTypes, EndpointStates
<1>3. ChatListed
  BY <1>1 DEF ChatListed
<1>4. ChatOnce /\ ChatRunning /\ ChatFinished
  BY DEF RealtimeInit, ChatOnce, ChatRunning, ChatFinished
<1> QED BY <1>2, <1>3, <1>4 DEF ChatInv

(* A removal keeps the list a list of different connections, without the one removed, and
   leaves no broadcast undisturbed. *)
LEMMA ChatRemoval ==
  ASSUME ChatTypes, ChatListed, NEW x \in Clients, Removal(x)
  PROVE  /\ connections' \in Seq(Clients)
         /\ \A i, j \in 1..Len(connections') : connections'[i] = connections'[j] => i = j
         /\ \A i \in 1..Len(connections') :
              /\ connections'[i] # x
              /\ \E j \in 1..Len(connections) : connections'[i] = connections[j]
         /\ disturbed \subseteq disturbed'
         /\ \A c \in Clients : endpoint[c] = "broadcasting" => c \in disturbed'
<1>0. connections \in Seq(Clients) /\ Len(connections) \in Nat /\ DOMAIN connections = 1..Len(connections)
  BY LenProperties DEF ChatTypes
<1>1. PICK k \in DOMAIN connections : connections[k] = x /\ connections' = RemoveAt(connections, k)
  BY DEF Removal
<1>2. k \in 1..Len(connections)
  BY <1>0
<1>3. /\ RemoveAt(connections, k) \in Seq(Clients)
      /\ Len(RemoveAt(connections, k)) = Len(connections) - 1
      /\ \A i \in 1..(Len(connections) - 1) :
           RemoveAt(connections, k)[i] = IF i < k THEN connections[i] ELSE connections[i + 1]
  BY <1>0, <1>2, EntryPopped
<1>4. /\ connections' \in Seq(Clients) /\ Len(connections') = Len(connections) - 1
      /\ \A i \in 1..(Len(connections) - 1) :
           connections'[i] = IF i < k THEN connections[i] ELSE connections[i + 1]
  BY <1>1, <1>3
<1>5. \A i, j \in 1..Len(connections) : connections[i] = connections[j] => i = j
  BY DEF ChatListed
<1> DEFINE from(i) == IF i < k THEN i ELSE i + 1
<1>6. \A i \in 1..Len(connections') :
        from(i) \in 1..Len(connections) /\ from(i) # k /\ connections'[i] = connections[from(i)]
  BY <1>0, <1>2, <1>4
<1>7. \A i, j \in 1..Len(connections') : from(i) = from(j) => i = j
  BY <1>0, <1>2, <1>4
<1> HIDE DEF from
<1>8. \A i, j \in 1..Len(connections') : connections'[i] = connections'[j] => i = j
  BY <1>5, <1>6, <1>7
<1>9. \A i \in 1..Len(connections') : connections'[i] # x
  BY <1>1, <1>2, <1>5, <1>6
<1> QED BY <1>4, <1>6, <1>8, <1>9 DEF Removal

(* What a broadcast has reached depends on the list and on its own state only. *)
LEMMA ChatReachedKept ==
  ASSUME NEW c \in Clients, ChatReached(c), UNCHANGED connections,
         index'[c] = index[c], target'[c] = target[c], got'[c] = got[c],
         audience'[c] \subseteq audience[c]
  PROVE  ChatReached(c)'
BY DEF ChatReached

(* connect *)
LEMMA ConnectKeepsChat ==
  ASSUME ChatInv, NEW c \in Clients, ConnectClient(c)
  PROVE  ChatInv'
<1>0. ChatTypes /\ ChatListed /\ ChatOnce /\ ChatRunning /\ ChatFinished
  BY DEF ChatInv
<1>1. /\ endpoint[c] = "none" /\ connections' = Append(connections, c) /\ alive' = alive \cup {c}
      /\ endpoint' = [endpoint EXCEPT ![c] = "receiving"]
      /\ UNCHANGED <<spoke, index, target, got, audience, disturbed>>
  BY DEF ConnectClient, Joined
<1>2. /\ connections \in Seq(Clients) /\ Len(connections) \in Nat
      /\ connections' \in Seq(Clients) /\ Len(connections') = Len(connections) + 1
      /\ \A i \in 1..Len(connections) : connections'[i] = connections[i]
      /\ connections'[Len(connections) + 1] = c
  BY <1>0, <1>1, AppendProperties, LenProperties DEF ChatTypes
<1>3. /\ endpoint' \in [Clients -> EndpointStates] /\ endpoint'[c] = "receiving"
      /\ \A d \in Clients : d # c => endpoint'[d] = endpoint[d]
  BY <1>0, <1>1 DEF ChatTypes, EndpointStates
<1>4. \A i \in 1..Len(connections) : connections[i] # c /\ connections[i] \in Clients
  BY <1>0, <1>1, <1>2, ElementOfSeq DEF ChatListed
<1>5. ChatTypes'
  BY <1>0, <1>1, <1>2, <1>3 DEF ChatTypes
<1>6. \A i \in 1..Len(connections') : i \in 1..Len(connections) \/ i = Len(connections) + 1
  BY <1>2
<1>7. ChatListed'
  <2>1. \A i, j \in 1..Len(connections') : connections'[i] = connections'[j] => i = j
    BY <1>0, <1>2, <1>4, <1>6 DEF ChatListed
  <2>2. \A i \in 1..Len(connections') : endpoint'[connections'[i]] \notin {"none", "ended"}
    BY <1>0, <1>2, <1>3, <1>4, <1>6 DEF ChatListed
  <2> QED BY <2>1, <2>2 DEF ChatListed
<1>8. ChatOnce'
  BY <1>0, <1>1, <1>3 DEF ChatOnce
<1>9. ChatRunning'
  <2> SUFFICES ASSUME NEW b \in Clients \ disturbed, endpoint'[b] = "broadcasting"
               PROVE  ChatReached(b)'
    BY <1>1 DEF ChatRunning
  <2>1. b # c /\ endpoint[b] = "broadcasting" /\ ChatReached(b)
    BY <1>0, <1>3 DEF ChatRunning
  <2>2. c \notin audience[b]
    BY <1>4, <2>1 DEF ChatReached
  <2>3. \A d \in audience[b] : \E i \in 1..Len(connections') : connections'[i] = d
    <3> SUFFICES ASSUME NEW d \in audience[b]
                 PROVE  \E i \in 1..Len(connections') : connections'[i] = d
      OBVIOUS
    <3>1. PICK i \in 1..Len(connections) : connections[i] = d
      BY <2>1 DEF ChatReached
    <3>2. i \in 1..Len(connections') /\ connections'[i] = d
      BY <1>2, <3>1
    <3> QED BY <3>2
  <2>4. index[b] - 1 \in 1..Len(connections) =>
          /\ index[b] - 1 \in 1..Len(connections')
          /\ connections'[index[b] - 1] = connections[index[b] - 1]
    BY <1>2
  <2>5. target[b] = {} \/ (index[b] - 1 \in 1..Len(connections') /\ target[b] = {connections'[index[b] - 1]})
    BY <2>1, <2>4 DEF ChatReached
  <2>6. \A i \in 1..Len(connections') :
          connections'[i] \in audience[b] =>
            got[b][connections'[i]] = IF i < index[b] /\ connections'[i] \notin target[b] THEN 1 ELSE 0
    BY <1>2, <1>6, <2>1, <2>2 DEF ChatReached
  <2> QED BY <1>1, <2>3, <2>5, <2>6 DEF ChatReached
<1>10. ChatFinished'
  <2>1. c \notin spoke
    BY <1>0, <1>1 DEF ChatOnce
  <2>2. \A b \in spoke : b # c => endpoint'[b] = endpoint[b]
    BY <1>0, <1>3 DEF ChatTypes
  <2> QED BY <1>0, <1>1, <2>1, <2>2 DEF ChatFinished
<1> QED BY <1>5, <1>7, <1>8, <1>9, <1>10 DEF ChatInv

(* a client closes its end *)
LEMMA LeaveKeepsChat ==
  ASSUME ChatInv, NEW c \in Clients, ClientLeaves(c)
  PROVE  ChatInv'
<1>0. ChatTypes /\ ChatListed /\ ChatOnce /\ ChatRunning /\ ChatFinished
  BY DEF ChatInv
<1>1. /\ alive' = alive \ {c} /\ audience' = [d \in Clients |-> audience[d] \ {c}]
      /\ UNCHANGED <<connections, endpoint, spoke, index, target, got, disturbed>>
  BY DEF ClientLeaves
<1>2. /\ audience' \in [Clients -> SUBSET Clients]
      /\ \A b \in Clients : audience'[b] \subseteq audience[b]
  BY <1>0, <1>1 DEF ChatTypes
<1>3. ChatTypes' /\ ChatListed' /\ ChatOnce'
  BY <1>0, <1>1, <1>2 DEF ChatTypes, ChatListed, ChatOnce
<1>4. ChatRunning'
  <2> SUFFICES ASSUME NEW b \in Clients \ disturbed, endpoint[b] = "broadcasting"
               PROVE  ChatReached(b)'
    BY <1>1 DEF ChatRunning
  <2>1. ChatReached(b)
    BY <1>0 DEF ChatRunning
  <2> QED BY <1>1, <1>2, <2>1, ChatReachedKept
<1>5. ChatFinished'
  <2>1. \A b \in spoke : b \in Clients
    BY <1>0 DEF ChatTypes
  <2> QED BY <1>0, <1>1, <1>2, <2>1 DEF ChatFinished
<1> QED BY <1>3, <1>4, <1>5 DEF ChatInv

(* disconnect *)
LEMMA DisconnectKeepsChat ==
  ASSUME ChatInv, NEW c \in Clients, Disconnect(c)
  PROVE  ChatInv'
<1>0. ChatTypes /\ ChatListed /\ ChatOnce /\ ChatRunning /\ ChatFinished
  BY DEF ChatInv
<1>1. /\ endpoint[c] = "receiving" /\ endpoint' = [endpoint EXCEPT ![c] = "ended"]
      /\ UNCHANGED <<alive, spoke, index, target, got, audience>>
  BY DEF Disconnect
<1>2. /\ endpoint' \in [Clients -> EndpointStates] /\ endpoint'[c] = "ended"
      /\ \A d \in Clients : d # c => endpoint'[d] = endpoint[d]
  BY <1>0, <1>1 DEF ChatTypes, EndpointStates
<1>3. /\ connections \in Seq(Clients) /\ Len(connections) \in Nat
      /\ ToSet(connections) = {connections[i] : i \in 1..Len(connections)}
      /\ \A i \in 1..Len(connections) : connections[i] \in Clients
  BY <1>0, LenProperties, ElementOfSeq DEF ChatTypes, ToSet
<1>4. ChatOnce'
  BY <1>0, <1>1, <1>2 DEF ChatOnce
<1>5. CASE c \in ToSet(connections)
  <2>1. Removal(c)
    BY <1>5 DEF Disconnect
  <2>2. /\ connections' \in Seq(Clients)
        /\ \A i, j \in 1..Len(connections') : connections'[i] = connections'[j] => i = j
        /\ \A i \in 1..Len(connections') :
             /\ connections'[i] # c
             /\ \E j \in 1..Len(connections) : connections'[i] = connections[j]
        /\ disturbed \subseteq disturbed'
        /\ \A b \in Clients : endpoint[b] = "broadcasting" => b \in disturbed'
    BY <1>0, <2>1, ChatRemoval
  <2>3. ChatTypes'
    BY <1>0, <1>1, <1>2, <2>2 DEF ChatTypes
  <2>4. ChatListed'
    BY <1>0, <1>2, <1>3, <2>2 DEF ChatListed
  <2>5. ChatRunning'
    BY <1>2, <2>2 DEF ChatRunning
  <2>6. ChatFinished'
    <3>1. \A b \in spoke : b \in Clients
      BY <1>0 DEF ChatTypes
    <3> QED BY <1>0, <1>1, <1>2, <2>2, <3>1 DEF ChatFinished
  <2> QED BY <1>4, <2>3, <2>4, <2>5, <2>6 DEF ChatInv
<1>6. CASE c \notin ToSet(connections)
  <2>1. UNCHANGED <<connections, disturbed>>
    BY <1>6 DEF Disconnect
  <2>3. ChatTypes'
    BY <1>0, <1>1, <1>2, <2>1 DEF ChatTypes
  <2>4. ChatListed'
    BY <1>0, <1>2, <1>3, <1>6, <2>1 DEF ChatListed
  <2>5. ChatRunning'
    <3> SUFFICES ASSUME NEW b \in Clients \ disturbed, endpoint'[b] = "broadcasting"
                 PROVE  ChatReached(b)'
      BY <2>1 DEF ChatRunning
    <3>1. ChatReached(b)
      BY <1>0, <1>2 DEF ChatRunning
    <3> QED BY <1>1, <2>1, <3>1, ChatReachedKept
  <2>6. ChatFinished'
    <3>1. \A b \in spoke : b \in Clients
      BY <1>0 DEF ChatTypes
    <3> QED BY <1>0, <1>1, <1>2, <2>1, <3>1 DEF ChatFinished
  <2> QED BY <1>4, <2>3, <2>4, <2>5, <2>6 DEF ChatInv
<1> QED BY <1>5, <1>6

(* a broadcast begins *)
LEMMA SpeakKeepsChat ==
  ASSUME ChatInv, NEW c \in Clients, Speak(c)
  PROVE  ChatInv'
<1>0. ChatTypes /\ ChatListed /\ ChatOnce /\ ChatRunning /\ ChatFinished
  BY DEF ChatInv
<1>1. /\ endpoint[c] = "receiving" /\ c \notin spoke /\ spoke' = spoke \cup {c}
      /\ endpoint' = [endpoint EXCEPT ![c] = "broadcasting"]
      /\ audience' = [audience EXCEPT ![c] = ToSet(connections) \cap alive]
      /\ UNCHANGED <<connections, alive, index, target, got, disturbed>>
  BY DEF Speak
<1>2. /\ endpoint' \in [Clients -> EndpointStates] /\ endpoint'[c] = "broadcasting"
      /\ \A d \in Clients : d # c => endpoint'[d] = endpoint[d]
  BY <1>0, <1>1 DEF ChatTypes, EndpointStates
<1>3. /\ connections \in Seq(Clients) /\ Len(connections) \in Nat
      /\ ToSet(connections) = {connections[i] : i \in 1..Len(connections)}
      /\ \A i \in 1..Len(connections) : connections[i] \in Clients
  BY <1>0, LenProperties, ElementOfSeq DEF ChatTypes, ToSet
<1>4. /\ audience' \in [Clients -> SUBSET Clients] /\ audience'[c] = ToSet(connections) \cap alive
      /\ \A d \in Clients : d # c => audience'[d] = audience[d]
  BY <1>0, <1>1 DEF ChatTypes
<1>5. ChatTypes'
  BY <1>0, <1>1, <1>2, <1>4 DEF ChatTypes
<1>6. ChatListed'
  BY <1>0, <1>1, <1>2, <1>3 DEF ChatListed
<1>7. ChatOnce'
  BY <1>0, <1>1, <1>2 DEF ChatOnce
<1>8. ChatRunning'
  <2> SUFFICES ASSUME NEW b \in Clients \ disturbed, endpoint'[b] = "broadcasting"
               PROVE  ChatReached(b)'
    BY <1>1 DEF ChatRunning
  <2>1. CASE b # c
    <3>1. ChatReached(b)
      BY <1>0, <1>2, <2>1 DEF ChatRunning
    <3> QED BY <1>1, <1>4, <2>1, <3>1, ChatReachedKept
  <2>2. CASE b = c
    <3>1. index[c] = 1 /\ target[c] = {} /\ \A d \in Clients : got[c][d] = 0
      BY <1>0, <1>1 DEF ChatOnce
    <3>2. \A d \in audience'[c] : \E i \in 1..Len(connections) : connections[i] = d
      BY <1>3, <1>4
    <3>3. \A i \in 1..Len(connections) : ~(i < 1) /\ got[c][connections[i]] = 0
      BY <1>3, <3>1
    <3> QED BY <1>1, <2>2, <3>1, <3>2, <3>3 DEF ChatReached
  <2> QED BY <2>1, <2>2
<1>9. ChatFinished'
  <2>1. \A b \in spoke : b \in Clients
    BY <1>0 DEF ChatTypes
  <2> QED BY <1>0, <1>1, <1>2, <1>4, <2>1 DEF ChatFinished
<1> QED BY <1>5, <1>6, <1>7, <1>8, <1>9 DEF ChatInv

(* the loop takes the next connection *)
LEMMA TakeKeepsChat ==
  ASSUME ChatInv, NEW c \in Clients, TakeNext(c)
  PROVE  ChatInv'
<1>0. ChatTypes /\ ChatListed /\ ChatOnce /\ ChatRunning /\ ChatFinished
  BY DEF ChatInv
<1>1. /\ endpoint[c] = "broadcasting" /\ target[c] = {} /\ index[c] <= Len(connections)
      /\ target' = [target EXCEPT ![c] = {connections[index[c]]}]
      /\ index' = [index EXCEPT ![c] = index[c] + 1]
      /\ UNCHANGED <<connections, alive, endpoint, spoke, got, audience, disturbed>>
  BY DEF TakeNext
<1>2. /\ connections \in Seq(Clients) /\ Len(connections) \in Nat /\ index[c] \in Nat \ {0}
      /\ \A i \in 1..Len(connections) : connections[i] \in Clients
  BY <1>0, LenProperties, ElementOfSeq DEF ChatTypes
<1>3. index[c] \in 1..Len(connections) /\ connections[index[c]] \in Clients
  BY <1>1, <1>2
<1>4. /\ target' \in [Clients -> SUBSET Clients] /\ target'[c] = {connections[index[c]]}
      /\ \A d \in Clients : d # c => target'[d] = target[d]
  BY <1>0, <1>1, <1>3 DEF ChatTypes
<1>5. /\ index' \in [Clients -> Nat \ {0}] /\ index'[c] = index[c] + 1
      /\ \A d \in Clients : d # c => index'[d] = index[d]
  <2>1. index[c] + 1 \in Nat \ {0}
    BY <1>2
  <2> QED BY <1>0, <1>1, <2>1 DEF ChatTypes
<1>6. ChatTypes' /\ ChatListed'
  BY <1>0, <1>1, <1>4, <1>5 DEF ChatTypes, ChatListed
<1>7. ChatOnce'
  BY <1>0, <1>1, <1>4, <1>5 DEF ChatOnce
<1>8. ChatRunning'
  <2> SUFFICES ASSUME NEW b \in Clients \ disturbed, endpoint[b] = "broadcasting"
               PROVE  ChatReached(b)'
    BY <1>1 DEF ChatRunning
  <2>1. ChatReached(b)
    BY <1>0 DEF ChatRunning
  <2>2. CASE b # c
    BY <1>1, <1>4, <1>5, <2>1, <2>2, ChatReachedKept
  <2>3. CASE b = c
    <3>1. \A d \in audience[c] : \E i \in 1..Len(connections) : connections[i] = d
      BY <2>1, <2>3 DEF ChatReached
    <3>2. index'[c] - 1 = index[c]
      BY <1>2, <1>5
    <3>3. ASSUME NEW i \in 1..Len(connections), connections[i] \in audience[c]
          PROVE  got[c][connections[i]] =
                   IF i < index'[c] /\ connections[i] \notin target'[c] THEN 1 ELSE 0
      <4>1. got[c][connections[i]] = IF i < index[c] THEN 1 ELSE 0
        BY <1>1, <2>1, <2>3, <3>3 DEF ChatReached
      <4>2. connections[i] \in target'[c] <=> i = index[c]
        BY <1>0, <1>3, <1>4 DEF ChatListed
      <4>3. i < index'[c] /\ i # index[c] <=> i < index[c]
        BY <1>2, <1>5
      <4> QED BY <4>1, <4>2, <4>3
    <3>4. index'[c] - 1 \in 1..Len(connections) /\ target'[c] = {connections[index'[c] - 1]}
      BY <1>3, <1>4, <3>2
    <3> QED BY <1>1, <2>3, <3>1, <3>3, <3>4 DEF ChatReached
  <2> QED BY <2>2, <2>3
<1>9. ChatFinished'
  BY <1>0, <1>1 DEF ChatFinished
<1> QED BY <1>6, <1>7, <1>8, <1>9 DEF ChatInv

(* send_text returns or raises *)
LEMMA SendKeepsChat ==
  ASSUME ChatInv, NEW c \in Clients, NEW d \in Clients, SendText(c, d)
  PROVE  ChatInv'
<1>0. ChatTypes /\ ChatListed /\ ChatOnce /\ ChatRunning /\ ChatFinished
  BY DEF ChatInv
<1>1. /\ target[c] = {d} /\ target' = [target EXCEPT ![c] = {}]
      /\ UNCHANGED <<alive, spoke, index, audience>>
  BY DEF SendText
<1>2. /\ target' \in [Clients -> SUBSET Clients] /\ target'[c] = {}
      /\ \A b \in Clients : b # c => target'[b] = target[b]
  BY <1>0, <1>1 DEF ChatTypes
<1>3. endpoint[c] = "broadcasting" /\ c \in spoke
  BY <1>0, <1>1 DEF ChatOnce
<1>4. /\ connections \in Seq(Clients) /\ Len(connections) \in Nat
      /\ \A i \in 1..Len(connections) : connections[i] \in Clients
      /\ \A b \in spoke : b \in Clients
  BY <1>0, LenProperties, ElementOfSeq DEF ChatTypes
<1>5. CASE d \in alive
  <2>1. /\ got' = [got EXCEPT ![c][d] = got[c][d] + 1]
        /\ UNCHANGED <<connections, endpoint, disturbed>>
    BY <1>5 DEF SendText
  <2>2. got[c] \in [Clients -> Nat] /\ got[c][d] \in Nat /\ got[c][d] + 1 \in Nat
    BY <1>0 DEF ChatTypes
  <2>3. /\ got' \in [Clients -> [Clients -> Nat]] /\ got'[c][d] = got[c][d] + 1
        /\ \A e \in Clients : e # d => got'[c][e] = got[c][e]
        /\ \A b \in Clients : b # c => got'[b] = got[b]
    BY <1>0, <2>1, <2>2 DEF ChatTypes
  <2>4. ChatTypes' /\ ChatListed'
    BY <1>0, <1>1, <1>2, <2>1, <2>3 DEF ChatTypes, ChatListed
  <2>5. ChatOnce'
    BY <1>0, <1>1, <1>2, <1>3, <2>1, <2>3 DEF ChatOnce
  <2>6. ChatRunning'
    <3> SUFFICES ASSUME NEW b \in Clients \ disturbed, endpoint[b] = "broadcasting"
                 PROVE  ChatReached(b)'
      BY <2>1 DEF ChatRunning
    <3>1. ChatReached(b)
      BY <1>0 DEF ChatRunning
    <3>2. CASE b # c
      BY <1>1, <1>2, <2>1, <2>3, <3>1, <3>2, ChatReachedKept
    <3>3. CASE b = c
      <4>1. /\ \A e \in audience[c] : \E i \in 1..Len(connections) : connections[i] = e
            /\ index[c] - 1 \in 1..Len(connections) /\ connections[index[c] - 1] = d
        BY <1>1, <3>1, <3>3 DEF ChatReached
      <4>2. index[c] \in Nat
        BY <1>0 DEF ChatTypes
      <4>3. ASSUME NEW i \in 1..Len(connections), connections[i] \in audience[c]
            PROVE  got'[c][connections[i]] = IF i < index[c] THEN 1 ELSE 0
        <5>1. got[c][connections[i]] = IF i < index[c] /\ connections[i] # d THEN 1 ELSE 0
          BY <1>1, <3>1, <3>3, <4>3 DEF ChatReached
        <5>2. CASE connections[i] = d
          <6>1. i = index[c] - 1
            BY <1>0, <4>1, <5>2 DEF ChatListed
          <6>2. i < index[c] /\ got[c][d] = 0
            BY <4>2, <5>1, <5>2, <6>1
          <6> QED BY <2>3, <5>2, <6>2
        <5>3. CASE connections[i] # d
          BY <1>4, <2>3, <5>1, <5>3
        <5> QED BY <5>2, <5>3
      <4> QED BY <1>1, <1>2, <2>1, <3>3, <4>1, <4>3 DEF ChatReached
    <3> QED BY <3>2, <3>3
  <2>7. ChatFinished'
    BY <1>0, <1>1, <1>3, <1>4, <2>1, <2>3 DEF ChatFinished
  <2> QED BY <2>4, <2>5, <2>6, <2>7 DEF ChatInv
<1>6. CASE d \notin alive /\ d \in ToSet(connections)
  <2>1. Removal(d) /\ UNCHANGED <<endpoint, got>>
    BY <1>6 DEF SendText
  <2>2. /\ connections' \in Seq(Clients)
        /\ \A i, j \in 1..Len(connections') : connections'[i] = connections'[j] => i = j
        /\ \A i \in 1..Len(connections') :
             \E j \in 1..Len(connections) : connections'[i] = connections[j]
        /\ disturbed \subseteq disturbed'
        /\ \A b \in Clients : endpoint[b] = "broadcasting" => b \in disturbed'
    BY <1>0, <2>1, ChatRemoval
  <2>3. ChatTypes'
    BY <1>0, <1>1, <1>2, <2>1, <2>2 DEF ChatTypes
  <2>4. ChatListed'
    BY <1>0, <2>1, <2>2 DEF ChatListed
  <2>5. ChatOnce'
    BY <1>0, <1>1, <1>2, <2>1 DEF ChatOnce
  <2>6. ChatRunning' /\ ChatFinished'
    BY <1>0, <1>1, <2>1, <2>2 DEF ChatRunning, ChatFinished
  <2> QED BY <2>3, <2>4, <2>5, <2>6 DEF ChatInv
<1>7. CASE d \notin alive /\ d \notin ToSet(connections)
  <2>1. /\ endpoint' = [endpoint EXCEPT ![c] = "crashed"]
        /\ UNCHANGED <<connections, disturbed, got>>
    BY <1>7 DEF SendText
  <2>2. /\ endpoint' \in [Clients -> EndpointStates] /\ endpoint'[c] = "crashed"
        /\ \A b \in Clients : b # c => endpoint'[b] = endpoint[b]
    BY <1>0, <2>1 DEF ChatTypes, EndpointStates
  <2>3. ChatTypes'
    BY <1>0, <1>1, <1>2, <2>1, <2>2 DEF ChatTypes
  <2>4. ChatListed'
    BY <1>0, <1>4, <2>1, <2>2 DEF ChatListed
  <2>5. ChatOnce'
    BY <1>0, <1>1, <1>2, <1>3, <2>1, <2>2 DEF ChatOnce
  <2>6. ChatRunning'
    <3> SUFFICES ASSUME NEW b \in Clients \ disturbed, endpoint'[b] = "broadcasting"
                 PROVE  ChatReached(b)'
      BY <2>1 DEF ChatRunning
    <3>1. b # c /\ ChatReached(b)
      BY <1>0, <2>2 DEF ChatRunning
    <3> QED BY <1>1, <1>2, <2>1, <3>1, ChatReachedKept
  <2>7. ChatFinished'
    BY <1>0, <1>1, <1>4, <2>1, <2>2 DEF ChatFinished
  <2> QED BY <2>3, <2>4, <2>5, <2>6, <2>7 DEF ChatInv
<1> QED BY <1>5, <1>6, <1>7

(* a broadcast ends *)
LEMMA EndKeepsChat ==
  ASSUME ChatInv, NEW c \in Clients, BroadcastEnds(c)
  PROVE  ChatInv'
<1>0. ChatTypes /\ ChatListed /\ ChatOnce /\ ChatRunning /\ ChatFinished
  BY DEF ChatInv
<1>1. /\ endpoint[c] = "broadcasting" /\ target[c] = {} /\ index[c] > Len(connections)
      /\ endpoint' = [endpoint EXCEPT ![c] = "receiving"]
      /\ UNCHANGED <<connections, alive, spoke, index, target, got, audience, disturbed>>
  BY DEF BroadcastEnds
<1>2. /\ endpoint' \in [Clients -> EndpointStates] /\ endpoint'[c] = "receiving"
      /\ \A d \in Clients : d # c => endpoint'[d] = endpoint[d]
  BY <1>0, <1>1 DEF ChatTypes, EndpointStates
<1>3. /\ connections \in Seq(Clients) /\ Len(connections) \in Nat /\ index[c] \in Nat
      /\ \A i \in 1..Len(connections) : connections[i] \in Clients
      /\ \A b \in spoke : b \in Clients
  BY <1>0, LenProperties, ElementOfSeq DEF ChatTypes
<1>4. ChatTypes'
  BY <1>0, <1>1, <1>2 DEF ChatTypes
<1>5. ChatListed'
  BY <1>0, <1>1, <1>2, <1>3 DEF ChatListed
<1>6. ChatOnce'
  BY <1>0, <1>1, <1>2 DEF ChatOnce
<1>7. ChatRunning'
  <2> SUFFICES ASSUME NEW b \in Clients \ disturbed, endpoint'[b] = "broadcasting"
               PROVE  ChatReached(b)'
    BY <1>1 DEF ChatRunning
  <2>1. ChatReached(b)
    BY <1>0, <1>2 DEF ChatRunning
  <2> QED BY <1>1, <2>1, ChatReachedKept
<1>8. ChatFinished'
  <2>1. c \notin disturbed => \A d \in audience[c] : got[c][d] = 1
    <3> SUFFICES ASSUME c \notin disturbed, NEW d \in audience[c] PROVE got[c][d] = 1
      OBVIOUS
    <3>1. ChatReached(c)
      BY <1>0, <1>1 DEF ChatRunning
    <3>2. PICK i \in 1..Len(connections) : connections[i] = d
      BY <3>1 DEF ChatReached
    <3>3. i < index[c]
      BY <1>1, <1>3
    <3> QED BY <1>1, <3>1, <3>2, <3>3 DEF ChatReached
  <2> QED BY <1>0, <1>1, <1>2, <1>3, <2>1 DEF ChatFinished
<1> QED BY <1>4, <1>5, <1>6, <1>7, <1>8 DEF ChatInv

(* Every step of the gateway keeps the invariant. *)
LEMMA ChatInvStep ==
  ASSUME ChatInv, [RealtimeNext]_gatewayEnd
  PROVE  ChatInv'
<1>1. CASE UNCHANGED gatewayEnd
  <2>1. UNCHANGED <<connections, alive, endpoint, spoke, index, target, got, audience, disturbed>>
    BY <1>1 DEF gatewayEnd
  <2>2. ChatTypes' /\ ChatListed'
    BY <2>1 DEF ChatInv, ChatTypes, ChatListed
  <2>3. ChatOnce' /\ ChatFinished'
    BY <2>1 DEF ChatInv, ChatOnce, ChatFinished
  <2>4. ChatRunning'
    BY <2>1, ChatReachedKept DEF ChatInv, ChatRunning
  <2> QED BY <2>2, <2>3, <2>4 DEF ChatInv
<1>2. CASE RealtimeNext
  BY <1>2, ConnectKeepsChat, LeaveKeepsChat, DisconnectKeepsChat, SpeakKeepsChat, TakeKeepsChat,
     SendKeepsChat, EndKeepsChat DEF RealtimeNext
<1> QED BY <1>1, <1>2

(* The invariant says what the run checks. *)
LEMMA ChatReachesAll == ChatInv => BroadcastReachesAll
<1> SUFFICES ASSUME ChatInv PROVE BroadcastReachesAll
  OBVIOUS
<1>0. ChatTypes /\ ChatListed /\ ChatFinished
  BY DEF ChatInv
<1>1. DOMAIN connections = 1..Len(connections)
  BY <1>0, LenProperties DEF ChatTypes
<1>2. IsInjective(connections)
  BY <1>0, <1>1 DEF IsInjective, ChatListed
<1>3. \A c \in ToSet(connections) : endpoint[c] # "ended"
  BY <1>0, <1>1 DEF ToSet, ChatListed
<1> QED BY <1>0, <1>2, <1>3 DEF BroadcastReachesAll, ChatFinished

-----------------------------------------------------------------------------
(* The chat widget. *)

\* sockets over which an answer may still come
CanAnswer(s) == s = 0 \/ socket[s] \in {"open", "closing"}

\* At most one answer is awaited at a time.
WidgetInv ==
  /\ socket \in [Sockets -> {"unused", "connecting", "open", "closing", "closed"}]
  /\ ws \in Sockets \cup {0} /\ cleanupWs \in Sockets \cup {0} /\ awaited \subseteq Sockets \cup {0}
  /\ isConnected => \E s \in Sockets : socket[s] \in {"open", "closing"}
  /\ isLoading /\ ~lost => \E s \in awaited : CanAnswer(s)
  /\ awaited # {} => isLoading
  /\ \A s, t \in awaited : s = t

(* The widget is closed. *)
LEMMA WidgetInvInit == WidgetInit => WidgetInv
BY DEF WidgetInit, WidgetInv

(* A step that changes sockets keeps what is awaited answerable: none that is open or
   closing becomes anything else but by its onclose. *)
LEMMA SocketsKeep ==
  ASSUME WidgetInv, UNCHANGED <<isConnected, isLoading, awaited, lost>>,
         socket' \in [Sockets -> {"unused", "connecting", "open", "closing", "closed"}],
         ws' \in Sockets \cup {0}, cleanupWs' \in Sockets \cup {0},
         \A s \in Sockets : socket[s] \in {"open", "closing"} => socket'[s] \in {"open", "closing"}
  PROVE  WidgetInv'
<1>1. isConnected => \E s \in Sockets : socket'[s] \in {"open", "closing"}
  BY DEF WidgetInv
<1>2. isLoading /\ ~lost => \E s \in awaited : CanAnswer(s)'
  BY DEF WidgetInv, CanAnswer
<1> QED BY <1>1, <1>2 DEF WidgetInv

(* toggleChat *)
LEMMA ToggleKeepsWidget ==
  ASSUME WidgetInv, NEW s \in Sockets, ToggleChat(s)
  PROVE  WidgetInv'
<1> DEFINE cleaned == IF cleanupWs # 0 /\ socket[cleanupWs] = "open"
                      THEN [socket EXCEPT ![cleanupWs] = "closing"] ELSE socket
           States == {"unused", "connecting", "open", "closing", "closed"}
<1>0. socket \in [Sockets -> States] /\ ws \in Sockets \cup {0} /\ cleanupWs \in Sockets \cup {0}
  BY DEF WidgetInv
<1>1. /\ socket[s] = "unused" /\ ws' = (IF cleanupWs # 0 THEN 0 ELSE ws) /\ cleanupWs' = ws
      /\ UNCHANGED <<isConnected, isLoading, awaited, lost>>
      /\ socket' = cleaned \/ socket' = [cleaned EXCEPT ![s] = "connecting"]
  BY DEF ToggleChat
<1>2. /\ cleaned \in [Sockets -> States]
      /\ \A t \in Sockets : socket[t] \in {"open", "closing"} => cleaned[t] \in {"open", "closing"}
      /\ cleaned[s] = "unused"
  <2>1. CASE cleanupWs # 0 /\ socket[cleanupWs] = "open"
    <3>1. cleaned = [socket EXCEPT ![cleanupWs] = "closing"] /\ cleanupWs \in Sockets /\ cleanupWs # s
      BY <1>0, <1>1, <2>1
    <3> HIDE DEF cleaned
    <3> QED BY <1>0, <1>1, <3>1
  <2>2. CASE ~(cleanupWs # 0 /\ socket[cleanupWs] = "open")
    BY <1>0, <1>1, <2>2
  <2> QED BY <2>1, <2>2
<1> HIDE DEF cleaned
<1>3. /\ socket' \in [Sockets -> States]
      /\ \A t \in Sockets : socket[t] \in {"open", "closing"} => socket'[t] \in {"open", "closing"}
  BY <1>1, <1>2
<1>4. ws' \in Sockets \cup {0} /\ cleanupWs' \in Sockets \cup {0}
  BY <1>0, <1>1
<1> QED BY <1>1, <1>3, <1>4, SocketsKeep

(* Every step of the widget keeps the invariant. *)
LEMMA WidgetInvStep ==
  ASSUME WidgetInv, [WidgetNext]_widgetEnd
  PROVE  WidgetInv'
<1> DEFINE States == {"unused", "connecting", "open", "closing", "closed"}
<1>0. /\ socket \in [Sockets -> States] /\ ws \in Sockets \cup {0} /\ cleanupWs \in Sockets \cup {0}
      /\ awaited \subseteq Sockets \cup {0} /\ \A s, t \in awaited : s = t
  BY DEF WidgetInv
<1>z. 0 \notin Sockets
  BY RealtimeAssumptions DEF Sockets
<1>1. ASSUME NEW s \in Sockets, OnOpen(s) PROVE WidgetInv'
  <2>1. /\ socket[s] = "connecting" /\ socket' = [socket EXCEPT ![s] = "open"] /\ ws' = s
        /\ UNCHANGED <<isLoading, cleanupWs, awaited, lost>>
    BY <1>1 DEF OnOpen
  <2>2. /\ socket' \in [Sockets -> States] /\ socket'[s] = "open"
        /\ \A t \in Sockets : t # s => socket'[t] = socket[t]
    BY <1>0, <2>1
  <2>3. isLoading /\ ~lost => \E t \in awaited : CanAnswer(t)'
    BY <1>0, <2>1, <2>2 DEF WidgetInv, CanAnswer
  <2>4. \E t \in Sockets : socket'[t] \in {"open", "closing"}
    BY <2>2
  <2> QED BY <1>0, <2>1, <2>2, <2>3, <2>4 DEF WidgetInv
<1>2. ASSUME NEW s \in Sockets, OnClose(s) PROVE WidgetInv'
  <2>1. /\ socket' = [socket EXCEPT ![s] = "closed"] /\ ws' = 0 /\ awaited' = awaited \ {s}
        /\ UNCHANGED <<isLoading, cleanupWs>>
    BY <1>2 DEF OnClose
  <2>a. ~isConnected'
    BY <1>2 DEF OnClose, AfterClose
  <2>b. ~lost' => ~lost /\ s \notin awaited
    BY <1>2 DEF OnClose
  <2>2. /\ socket' \in [Sockets -> States] /\ \A t \in Sockets : t # s => socket'[t] = socket[t]
    BY <1>0, <2>1
  <2>3. isLoading /\ ~lost' => \E t \in awaited' : CanAnswer(t)'
    <3> SUFFICES ASSUME isLoading, ~lost' PROVE \E t \in awaited' : CanAnswer(t)'
      OBVIOUS
    <3>1. ~lost /\ s \notin awaited
      BY <2>b
    <3>2. PICK t \in awaited : CanAnswer(t)
      BY <3>1 DEF WidgetInv
    <3>3. t \in awaited' /\ (t = 0 \/ (t \in Sockets /\ socket'[t] = socket[t]))
      BY <1>0, <2>1, <2>2, <3>1
    <3> QED BY <3>2, <3>3 DEF CanAnswer
  <2>4. awaited' # {} => isLoading
    BY <2>1 DEF WidgetInv
  <2>5. awaited' \subseteq Sockets \cup {0} /\ \A p, q \in awaited' : p = q
    BY <1>0, <2>1
  <2>6. ws' \in Sockets \cup {0} /\ cleanupWs' \in Sockets \cup {0}
    BY <1>0, <2>1
  <2> QED BY <2>1, <2>2, <2>3, <2>4, <2>5, <2>6, <2>a DEF WidgetInv
<1>3. ASSUME NEW s \in Sockets, OnResponse(s) PROVE WidgetInv'
  <2>1. /\ s \in awaited /\ awaited' = awaited \ {s}
        /\ UNCHANGED <<ws, isConnected, cleanupWs, socket, lost>>
    BY <1>3 DEF OnResponse
  <2>2. ~isLoading'
    BY <1>3 DEF OnResponse
  <2>3. awaited' = {}
    BY <1>0, <2>1
  <2>4. isConnected => \E t \in Sockets : socket[t] \in {"open", "closing"}
    BY DEF WidgetInv
  <2> QED BY <1>0, <2>1, <2>2, <2>3, <2>4 DEF WidgetInv
<1>4. CASE RestAnswers
  <2>1. awaited' = {} /\ UNCHANGED <<ws, isConnected, cleanupWs, socket, lost>>
    BY <1>4 DEF RestAnswers
  <2>2. ~isLoading'
    BY <1>4 DEF RestAnswers
  <2>4. isConnected => \E t \in Sockets : socket[t] \in {"open", "closing"}
    BY DEF WidgetInv
  <2> QED BY <1>0, <2>1, <2>2, <2>4 DEF WidgetInv
<1>5. CASE SendMessage
  <2>1. ~isLoading /\ UNCHANGED <<ws, isConnected, cleanupWs, socket>>
    BY <1>5 DEF SendMessage
  <2>2. isLoading'
    BY <1>5 DEF SendMessage
  <2>3. awaited = {}
    BY <2>1 DEF WidgetInv
  <2>4. isConnected => \E t \in Sockets : socket[t] \in {"open", "closing"}
    BY DEF WidgetInv
  <2>5. CASE ws # 0 /\ socket[ws] = "open" /\ awaited' = {ws}
    <3>1. CanAnswer(ws)' /\ awaited' \subseteq Sockets \cup {0}
      BY <1>0, <2>1, <2>5 DEF CanAnswer
    <3>2. (\E t \in awaited' : CanAnswer(t)') /\ \A p, q \in awaited' : p = q
      BY <2>1, <2>5, <3>1 DEF CanAnswer
    <3> QED BY <1>0, <2>1, <2>2, <2>4, <3>1, <3>2 DEF WidgetInv
  <2>6. CASE lost' /\ awaited' = {}
    BY <1>0, <2>1, <2>2, <2>4, <2>6 DEF WidgetInv
  <2>7. CASE awaited' = {0}
    <3>1. \E t \in awaited' : CanAnswer(t)'
      BY <2>7 DEF CanAnswer
    <3>2. awaited' \subseteq Sockets \cup {0} /\ \A p, q \in awaited' : p = q
      BY <2>7
    <3> QED BY <1>0, <2>1, <2>2, <2>4, <3>1, <3>2 DEF WidgetInv
  <2> QED BY <1>5, <2>3, <2>5, <2>6, <2>7 DEF SendMessage
<1>6. CASE UNCHANGED widgetEnd
  BY <1>6 DEF widgetEnd, WidgetInv, CanAnswer
<1> QED BY <1>1, <1>2, <1>3, <1>4, <1>5, <1>6, ToggleKeepsWidget DEF WidgetNext

(* The invariant says what the run checks. *)
LEMMA WidgetShowsTruth == WidgetInv => WidgetIsHonest
BY DEF WidgetInv, WidgetIsHonest, CanAnswer

-----------------------------------------------------------------------------
(* The health checker: its status as a function of the results. *)

FailedRun(q, j) == \A k \in j - FailureThreshold + 1 .. j : ~q[k]
PassedRun(q, h) == \A k \in h - SuccessThreshold + 1 .. h : q[k]
IsDown(q) == \E j \in FailureThreshold .. Len(q) :
               FailedRun(q, j) /\ \A h \in j + SuccessThreshold .. Len(q) : ~PassedRun(q, h)
WasDown(q) == \E j \in FailureThreshold .. Len(q) : FailedRun(q, j)
StatusOf(q) == IF Len(q) = 0 THEN "unknown"
               ELSE IF IsDown(q) THEN "unhealthy"
               ELSE IF WasDown(q) \/ q[1] THEN "healthy" ELSE "degraded"

CheckStatuses == {"unknown", "healthy", "unhealthy", "degraded"}

\* The counters are the lengths of the runs the results end with.
EndsWith(q, n, ok) ==
  /\ n <= Len(q) /\ \A k \in Len(q) - n + 1 .. Len(q) : q[k] = ok
  /\ n < Len(q) => q[Len(q) - n] # ok

CheckerInv ==
  /\ checked \in Seq(BOOLEAN)
  /\ checker \in [status : CheckStatuses, failures : Nat, successes : Nat]
  /\ EndsWith(checked, checker.failures, FALSE) /\ EndsWith(checked, checker.successes, TRUE)
  /\ checker.status = StatusOf(checked)

(* One more result at the end of the results. *)
LEMMA OneMoreResult ==
  ASSUME NEW q \in Seq(BOOLEAN), NEW ok \in BOOLEAN
  PROVE  /\ Append(q, ok) \in Seq(BOOLEAN) /\ Len(q) \in Nat
         /\ Len(Append(q, ok)) = Len(q) + 1 /\ Append(q, ok)[Len(q) + 1] = ok
         /\ \A k \in 1..Len(q) : Append(q, ok)[k] = q[k]
         /\ \A k \in 1..Len(q) : q[k] \in BOOLEAN
BY AppendProperties, LenProperties, ElementOfSeq

(* It ends a run of the other kind and lengthens one of its own. *)
LEMMA EndsWithOneMore ==
  ASSUME NEW q \in Seq(BOOLEAN), NEW ok \in BOOLEAN, NEW n \in Nat, EndsWith(q, n, ok),
         NEW no \in BOOLEAN, no # ok
  PROVE  EndsWith(Append(q, ok), n + 1, ok) /\ EndsWith(Append(q, ok), 0, no)
<1> DEFINE r == Append(q, ok)
<1>0. /\ r \in Seq(BOOLEAN) /\ Len(q) \in Nat /\ Len(r) = Len(q) + 1 /\ r[Len(q) + 1] = ok
      /\ \A k \in 1..Len(q) : r[k] = q[k]
  BY OneMoreResult
<1> HIDE DEF r
<1>1. n <= Len(q) /\ (\A k \in Len(q) - n + 1 .. Len(q) : q[k] = ok)
      /\ (n < Len(q) => q[Len(q) - n] # ok)
  BY DEF EndsWith
<1>2. \A k \in Len(r) - (n + 1) + 1 .. Len(r) : r[k] = ok
  <2> TAKE k \in Len(r) - (n + 1) + 1 .. Len(r)
  <2>1. k \in Len(q) - n + 1 .. Len(q) \/ k = Len(q) + 1
    BY <1>0
  <2>2. k \in Len(q) - n + 1 .. Len(q) => k \in 1..Len(q)
    BY <1>0, <1>1
  <2> QED BY <1>0, <1>1, <2>1, <2>2
<1>3. n + 1 < Len(r) => r[Len(r) - (n + 1)] # ok
  <2> SUFFICES ASSUME n + 1 < Len(r) PROVE r[Len(r) - (n + 1)] # ok
    OBVIOUS
  <2>1. Len(r) - (n + 1) = Len(q) - n /\ Len(q) - n \in 1..Len(q) /\ n < Len(q)
    BY <1>0
  <2> QED BY <1>0, <1>1, <2>1
<1>4. n + 1 <= Len(r) /\ 0 <= Len(r) /\ Len(r) - 0 = Len(q) + 1
      /\ \A k \in Len(r) - 0 + 1 .. Len(r) : FALSE
  BY <1>0, <1>1
<1>5. EndsWith(r, n + 1, ok)
  BY <1>2, <1>3, <1>4 DEF EndsWith
<1>6. EndsWith(r, 0, no)
  BY <1>0, <1>4 DEF EndsWith
<1> QED BY <1>5, <1>6 DEF r

(* Runs that ended before are what they were. *)
LEMMA RunsStay ==
  ASSUME NEW q \in Seq(BOOLEAN), NEW ok \in BOOLEAN
  PROVE  /\ \A j \in FailureThreshold..Len(q) : FailedRun(Append(q, ok), j) <=> FailedRun(q, j)
         /\ \A h \in SuccessThreshold..Len(q) : PassedRun(Append(q, ok), h) <=> PassedRun(q, h)
<1> DEFINE r == Append(q, ok)
<1>0. Len(q) \in Nat /\ \A k \in 1..Len(q) : r[k] = q[k]
  BY OneMoreResult
<1>t. FailureThreshold \in Nat \ {0} /\ SuccessThreshold \in Nat \ {0}
  BY HealthAssumptions
<1> HIDE DEF r
<1>1. ASSUME NEW j \in FailureThreshold..Len(q) PROVE FailedRun(r, j) <=> FailedRun(q, j)
  <2>1. \A k \in j - FailureThreshold + 1 .. j : k \in 1..Len(q)
    BY <1>0, <1>t
  <2> QED BY <1>0, <2>1 DEF FailedRun
<1>2. ASSUME NEW h \in SuccessThreshold..Len(q) PROVE PassedRun(r, h) <=> PassedRun(q, h)
  <2>1. \A k \in h - SuccessThreshold + 1 .. h : k \in 1..Len(q)
    BY <1>0, <1>t
  <2> QED BY <1>0, <2>1 DEF PassedRun
<1> QED BY <1>1, <1>2 DEF r

(* A success: the checker is down until it is the last of enough of them. *)
LEMMA AfterSuccess ==
  ASSUME NEW q \in Seq(BOOLEAN), NEW n \in Nat, EndsWith(q, n, TRUE)
  PROVE  /\ IsDown(Append(q, TRUE)) <=> IsDown(q) /\ ~(n + 1 >= SuccessThreshold)
         /\ WasDown(Append(q, TRUE)) <=> WasDown(q)
<1> DEFINE r == Append(q, TRUE)
<1>0. /\ r \in Seq(BOOLEAN) /\ Len(q) \in Nat /\ Len(r) = Len(q) + 1 /\ r[Len(q) + 1] = TRUE
      /\ \A k \in 1..Len(q) : r[k] = q[k]
  BY OneMoreResult
<1>t. FailureThreshold \in Nat \ {0} /\ SuccessThreshold \in Nat \ {0}
  BY HealthAssumptions
<1>s. /\ \A j \in FailureThreshold..Len(q) : FailedRun(r, j) <=> FailedRun(q, j)
      /\ \A h \in SuccessThreshold..Len(q) : PassedRun(r, h) <=> PassedRun(q, h)
  BY RunsStay
<1>e. EndsWith(r, n + 1, TRUE)
  BY EndsWithOneMore
<1> HIDE DEF r
<1>1. ~FailedRun(r, Len(q) + 1)
  <2>1. Len(q) + 1 \in (Len(q) + 1) - FailureThreshold + 1 .. Len(q) + 1
    BY <1>0, <1>t
  <2> SUFFICES ASSUME FailedRun(r, Len(q) + 1) PROVE FALSE
    OBVIOUS
  <2>2. \A k \in (Len(q) + 1) - FailureThreshold + 1 .. Len(q) + 1 : ~r[k]
    BY DEF FailedRun
  <2>3. ~r[Len(q) + 1]
    BY <2>1, <2>2
  <2> QED BY <1>0, <2>3
<1>2. \A j \in FailureThreshold..Len(r) : FailedRun(r, j) => j \in FailureThreshold..Len(q) /\ FailedRun(q, j)
  <2> SUFFICES ASSUME NEW j \in FailureThreshold..Len(r), FailedRun(r, j)
               PROVE  j \in FailureThreshold..Len(q) /\ FailedRun(q, j)
    OBVIOUS
  <2>1. j # Len(q) + 1
    BY <1>1
  <2>2. j \in FailureThreshold..Len(q)
    BY <1>0, <1>t, <2>1
  <2> QED BY <1>s, <2>2
<1>3. \A j \in FailureThreshold..Len(q) : FailedRun(q, j) => j \in FailureThreshold..Len(r) /\ FailedRun(r, j)
  <2>1. \A j \in FailureThreshold..Len(q) : j \in FailureThreshold..Len(r)
    BY <1>0, <1>t
  <2> QED BY <1>s, <2>1
<1>4. WasDown(r) <=> WasDown(q)
  BY <1>2, <1>3 DEF WasDown
<1>5. ASSUME n + 1 >= SuccessThreshold PROVE Len(r) >= SuccessThreshold /\ PassedRun(r, Len(r))
  <2>1. n + 1 <= Len(r) /\ \A k \in Len(r) - (n + 1) + 1 .. Len(r) : r[k] = TRUE
    BY <1>e DEF EndsWith
  <2>2. \A k \in Len(r) - SuccessThreshold + 1 .. Len(r) : k \in Len(r) - (n + 1) + 1 .. Len(r)
    BY <1>0, <1>t, <1>5
  <2>3. \A k \in Len(r) - SuccessThreshold + 1 .. Len(r) : r[k]
    BY <2>1, <2>2
  <2>4. Len(r) >= SuccessThreshold
    BY <1>0, <1>t, <1>5, <2>1
  <2> QED BY <2>3, <2>4 DEF PassedRun
<1>6. ASSUME ~(n + 1 >= SuccessThreshold), Len(r) >= SuccessThreshold PROVE ~PassedRun(r, Len(r))
  <2>1. n + 1 < Len(r) /\ Len(r) - (n + 1) \in Len(r) - SuccessThreshold + 1 .. Len(r)
    BY <1>0, <1>t, <1>6
  <2>2. r[Len(r) - (n + 1)] # TRUE
    BY <1>e, <2>1 DEF EndsWith
  <2>3. Len(r) - (n + 1) \in 1..Len(r)
    BY <1>0, <2>1
  <2>4. r[Len(r) - (n + 1)] \in BOOLEAN
    BY <1>0, <2>3, ElementOfSeq
  <2>5. ~r[Len(r) - (n + 1)]
    BY <2>2, <2>4
  <2> QED BY <2>1, <2>5 DEF PassedRun
<1>7. ASSUME IsDown(r) PROVE IsDown(q) /\ ~(n + 1 >= SuccessThreshold)
  <2>1. PICK j \in FailureThreshold..Len(r) :
          FailedRun(r, j) /\ \A h \in j + SuccessThreshold .. Len(r) : ~PassedRun(r, h)
    BY <1>7 DEF IsDown
  <2>2. j \in FailureThreshold..Len(q) /\ FailedRun(q, j)
    BY <1>2, <2>1
  <2>3. \A h \in j + SuccessThreshold .. Len(q) :
          h \in j + SuccessThreshold .. Len(r) /\ h \in SuccessThreshold .. Len(q)
    BY <1>0, <1>t, <2>2
  <2>4. IsDown(q)
    BY <1>s, <2>1, <2>2, <2>3 DEF IsDown
  <2>5. ASSUME n + 1 >= SuccessThreshold PROVE FALSE
    <3>1. PassedRun(r, Len(r))
      BY <1>5, <2>5
    <3>2. Len(r) \notin j + SuccessThreshold .. Len(r)
      BY <2>1, <3>1
    <3>3. j \in Len(r) - SuccessThreshold + 1 .. Len(r)
      BY <1>0, <1>t, <2>2, <3>2
    <3>4. j \in j - FailureThreshold + 1 .. j
      BY <1>t, <2>2
    <3>5. ~r[j]
      BY <2>1, <3>4 DEF FailedRun
    <3>6. r[j]
      BY <3>1, <3>3 DEF PassedRun
    <3> QED BY <3>5, <3>6
  <2> QED BY <2>4, <2>5
<1>8. ASSUME IsDown(q), ~(n + 1 >= SuccessThreshold) PROVE IsDown(r)
  <2>1. PICK j \in FailureThreshold..Len(q) :
          FailedRun(q, j) /\ \A h \in j + SuccessThreshold .. Len(q) : ~PassedRun(q, h)
    BY <1>8 DEF IsDown
  <2>2. j \in FailureThreshold..Len(r) /\ FailedRun(r, j)
    BY <1>3, <2>1
  <2>3. ASSUME NEW h \in j + SuccessThreshold .. Len(r) PROVE ~PassedRun(r, h)
    <3>1. CASE h = Len(r)
      <4>1. Len(r) >= SuccessThreshold
        BY <1>0, <1>t, <2>1, <3>1
      <4> QED BY <1>6, <1>8, <3>1, <4>1
    <3>2. CASE h # Len(r)
      <4>1. h \in j + SuccessThreshold .. Len(q) /\ h \in SuccessThreshold .. Len(q)
        BY <1>0, <1>t, <2>1, <3>2
      <4> QED BY <1>s, <2>1, <4>1
    <3> QED BY <3>1, <3>2
  <2> QED BY <2>2, <2>3 DEF IsDown
<1>9. IsDown(r) <=> IsDown(q) /\ ~(n + 1 >= SuccessThreshold)
  BY <1>7, <1>8
<1> QED BY <1>4, <1>9 DEF r

(* A failure: the checker is down from the last of enough of them. *)
LEMMA AfterFailure ==
  ASSUME NEW q \in Seq(BOOLEAN), NEW n \in Nat, EndsWith(q, n, FALSE)
  PROVE  /\ n + 1 >= FailureThreshold => IsDown(Append(q, FALSE))
         /\ ~(n + 1 >= FailureThreshold) =>
              /\ IsDown(Append(q, FALSE)) <=> IsDown(q)
              /\ WasDown(Append(q, FALSE)) <=> WasDown(q)
<1> DEFINE r == Append(q, FALSE)
<1>0. /\ r \in Seq(BOOLEAN) /\ Len(q) \in Nat /\ Len(r) = Len(q) + 1 /\ r[Len(q) + 1] = FALSE
      /\ \A k \in 1..Len(q) : r[k] = q[k]
  BY OneMoreResult
<1>t. FailureThreshold \in Nat \ {0} /\ SuccessThreshold \in Nat \ {0}
  BY HealthAssumptions
<1>s. /\ \A j \in FailureThreshold..Len(q) : FailedRun(r, j) <=> FailedRun(q, j)
      /\ \A h \in SuccessThreshold..Len(q) : PassedRun(r, h) <=> PassedRun(q, h)
  BY RunsStay
<1>e. EndsWith(r, n + 1, FALSE)
  BY EndsWithOneMore
<1> HIDE DEF r
<1>1. ASSUME n + 1 >= FailureThreshold PROVE IsDown(r)
  <2>1. n + 1 <= Len(r) /\ \A k \in Len(r) - (n + 1) + 1 .. Len(r) : r[k] = FALSE
    BY <1>e DEF EndsWith
  <2>2. \A k \in Len(r) - FailureThreshold + 1 .. Len(r) : k \in Len(r) - (n + 1) + 1 .. Len(r)
    BY <1>0, <1>t, <1>1
  <2>3. \A k \in Len(r) - FailureThreshold + 1 .. Len(r) : ~r[k]
    BY <2>1, <2>2
  <2>4. Len(r) \in FailureThreshold..Len(r) /\ \A h \in Len(r) + SuccessThreshold .. Len(r) : FALSE
    BY <1>0, <1>t, <1>1, <2>1
  <2>5. FailedRun(r, Len(r))
    BY <2>3 DEF FailedRun
  <2> QED BY <2>4, <2>5 DEF IsDown
<1>2. ASSUME ~(n + 1 >= FailureThreshold) PROVE (IsDown(r) <=> IsDown(q)) /\ (WasDown(r) <=> WasDown(q))
  <2>1. Len(r) >= FailureThreshold => ~FailedRun(r, Len(r))
    <3> SUFFICES ASSUME Len(r) >= FailureThreshold PROVE ~FailedRun(r, Len(r))
      OBVIOUS
    <3>1. n + 1 < Len(r) /\ Len(r) - (n + 1) \in Len(r) - FailureThreshold + 1 .. Len(r)
      BY <1>0, <1>t, <1>2
    <3>2. r[Len(r) - (n + 1)] # FALSE
      BY <1>e, <3>1 DEF EndsWith
    <3>3. Len(r) - (n + 1) \in 1..Len(r)
      BY <1>0, <3>1
    <3>4. r[Len(r) - (n + 1)] \in BOOLEAN
      BY <1>0, <3>3, ElementOfSeq
    <3>5. r[Len(r) - (n + 1)]
      BY <3>2, <3>4
    <3> QED BY <3>1, <3>5 DEF FailedRun
  <2>2. \A j \in FailureThreshold..Len(r) : FailedRun(r, j) => j \in FailureThreshold..Len(q) /\ FailedRun(q, j)
    <3> SUFFICES ASSUME NEW j \in FailureThreshold..Len(r), FailedRun(r, j)
                 PROVE  j \in FailureThreshold..Len(q) /\ FailedRun(q, j)
      OBVIOUS
    <3>1. Len(r) >= FailureThreshold
      BY <1>0, <1>t
    <3>2. j # Len(r)
      BY <2>1, <3>1
    <3>3. j \in FailureThreshold..Len(q)
      BY <1>0, <1>t, <3>2
    <3> QED BY <1>s, <3>3
  <2>3. \A j \in FailureThreshold..Len(q) : FailedRun(q, j) => j \in FailureThreshold..Len(r) /\ FailedRun(r, j)
    <3>1. \A j \in FailureThreshold..Len(q) : j \in FailureThreshold..Len(r)
      BY <1>0, <1>t
    <3> QED BY <1>s, <3>1
  <2>4. WasDown(r) <=> WasDown(q)
    BY <2>2, <2>3 DEF WasDown
  <2>5. ASSUME IsDown(r) PROVE IsDown(q)
    <3>1. PICK j \in FailureThreshold..Len(r) :
            FailedRun(r, j) /\ \A h \in j + SuccessThreshold .. Len(r) : ~PassedRun(r, h)
      BY <2>5 DEF IsDown
    <3>2. j \in FailureThreshold..Len(q) /\ FailedRun(q, j)
      BY <2>2, <3>1
    <3>3. \A h \in j + SuccessThreshold .. Len(q) :
            h \in j + SuccessThreshold .. Len(r) /\ h \in SuccessThreshold .. Len(q)
      BY <1>0, <1>t, <3>2
    <3> QED BY <1>s, <3>1, <3>2, <3>3 DEF IsDown
  <2>6. ASSUME IsDown(q) PROVE IsDown(r)
    <3>1. PICK j \in FailureThreshold..Len(q) :
            FailedRun(q, j) /\ \A h \in j + SuccessThreshold .. Len(q) : ~PassedRun(q, h)
      BY <2>6 DEF IsDown
    <3>2. j \in FailureThreshold..Len(r) /\ FailedRun(r, j)
      BY <2>3, <3>1
    <3>3. ASSUME NEW h \in j + SuccessThreshold .. Len(r) PROVE ~PassedRun(r, h)
      <4>1. CASE h = Len(r)
        <5>1. Len(r) \in Len(r) - SuccessThreshold + 1 .. Len(r)
          BY <1>0, <1>t
        <5>2. ~r[Len(r)]
          BY <1>0
        <5> QED BY <4>1, <5>1, <5>2 DEF PassedRun
      <4>2. CASE h # Len(r)
        <5>1. h \in j + SuccessThreshold .. Len(q) /\ h \in SuccessThreshold .. Len(q)
          BY <1>0, <1>t, <3>1, <4>2
        <5> QED BY <1>s, <3>1, <5>1
      <4> QED BY <4>1, <4>2
    <3> QED BY <3>2, <3>3 DEF IsDown
  <2> QED BY <2>4, <2>5, <2>6
<1> QED BY <1>1, <1>2 DEF r

(* Nothing has been checked. *)
LEMMA CheckerInvInit == CheckerInit => CheckerInv
<1> SUFFICES ASSUME CheckerInit PROVE CheckerInv
  OBVIOUS
<1>1. checked \in Seq(BOOLEAN) /\ Len(checked) = 0
  BY EmptySeq DEF CheckerInit
<1>2. checker = [status |-> "unknown", failures |-> 0, successes |-> 0]
  BY DEF CheckerInit
<1>3. EndsWith(checked, 0, FALSE) /\ EndsWith(checked, 0, TRUE)
  BY <1>1 DEF EndsWith
<1>4. StatusOf(checked) = "unknown"
  BY <1>1 DEF StatusOf
<1> QED BY <1>1, <1>2, <1>3, <1>4 DEF CheckerInv, CheckStatuses

(* Every step of the checker keeps the invariant. *)
LEMMA CheckerInvStep ==
  ASSUME CheckerInv, [CheckerNext]_checkerVars
  PROVE  CheckerInv'
<1>0. /\ checked \in Seq(BOOLEAN) /\ Len(checked) \in Nat
      /\ checker \in [status : CheckStatuses, failures : Nat, successes : Nat]
      /\ checker.failures \in Nat /\ checker.successes \in Nat /\ checker.status \in CheckStatuses
      /\ EndsWith(checked, checker.failures, FALSE) /\ EndsWith(checked, checker.successes, TRUE)
      /\ checker.status = StatusOf(checked)
  BY LenProperties DEF CheckerInv
<1>t. FailureThreshold \in Nat \ {0} /\ SuccessThreshold \in Nat \ {0}
  BY HealthAssumptions
<1>d. Len(checked) = 0 => ~IsDown(checked) /\ ~WasDown(checked)
  <2>1. Len(checked) = 0 => \A j \in FailureThreshold..Len(checked) : FALSE
    BY <1>t
  <2> QED BY <2>1 DEF IsDown, WasDown
<1>w. IsDown(checked) => WasDown(checked)
  BY DEF IsDown, WasDown
<1>1. ASSUME checker' = OnSuccess(checker), checked' = Append(checked, TRUE) PROVE CheckerInv'
  <2> DEFINE n == checker.successes + 1
             r == Append(checked, TRUE)
  <2>1. /\ checker'.failures = 0 /\ checker'.successes = n /\ n \in Nat
        /\ checker'.status = IF \/ checker.status = "unhealthy" /\ n >= SuccessThreshold
                                \/ checker.status = "unknown"
                             THEN "healthy" ELSE checker.status
        /\ checker' \in [status : CheckStatuses, failures : Nat, successes : Nat]
    BY <1>0, <1>1 DEF OnSuccess, CheckStatuses
  <2>2. /\ r \in Seq(BOOLEAN) /\ Len(r) = Len(checked) + 1 /\ r[Len(checked) + 1] = TRUE
        /\ \A k \in 1..Len(checked) : r[k] = checked[k]
    BY <1>0, OneMoreResult
  <2>3. EndsWith(r, n, TRUE) /\ EndsWith(r, 0, FALSE)
    BY <1>0, EndsWithOneMore
  <2>4. /\ IsDown(r) <=> IsDown(checked) /\ ~(n >= SuccessThreshold)
        /\ WasDown(r) <=> WasDown(checked)
    BY <1>0, AfterSuccess
  <2>5. Len(r) # 0 /\ (Len(checked) # 0 => r[1] = checked[1]) /\ (Len(checked) = 0 => r[1])
    <3> HIDE DEF r
    <3>1. Len(r) # 0
      BY <1>0, <2>2
    <3>2. Len(checked) # 0 => 1 \in 1..Len(checked)
      BY <1>0
    <3>3. Len(checked) = 0 => Len(checked) + 1 = 1
      OBVIOUS
    <3>4. Len(checked) = 0 => r[1] = TRUE
      BY <2>2, <3>3
    <3> QED BY <2>2, <3>1, <3>2, <3>4
  <2> HIDE DEF n, r
  <2>6. checker'.status = StatusOf(r)
    <3>1. CASE Len(checked) = 0
      <4>1. checker.status = "unknown" /\ ~IsDown(r) /\ r[1]
        BY <1>0, <1>d, <2>4, <2>5, <3>1 DEF StatusOf
      <4> QED BY <2>1, <2>5, <4>1 DEF StatusOf
    <3>2. CASE Len(checked) # 0 /\ IsDown(checked)
      <4>1. checker.status = "unhealthy" /\ WasDown(r)
        BY <1>0, <1>w, <2>4, <3>2 DEF StatusOf
      <4> QED BY <2>1, <2>4, <2>5, <3>2, <4>1 DEF StatusOf
    <3>3. CASE Len(checked) # 0 /\ ~IsDown(checked)
      <4>1. checker.status = (IF WasDown(checked) \/ checked[1] THEN "healthy" ELSE "degraded")
        BY <1>0, <3>3 DEF StatusOf
      <4>2. StatusOf(r) = IF WasDown(checked) \/ checked[1] THEN "healthy" ELSE "degraded"
        BY <2>4, <2>5, <3>3 DEF StatusOf
      <4>3. checker.status \notin {"unhealthy", "unknown"}
        BY <4>1
      <4> QED BY <2>1, <4>1, <4>2, <4>3
    <3> QED BY <3>1, <3>2, <3>3
  <2>7. checked' = r
    BY <1>1 DEF r
  <2> QED BY <2>1, <2>2, <2>3, <2>6, <2>7 DEF CheckerInv
<1>2. ASSUME checker' = OnFailure(checker), checked' = Append(checked, FALSE) PROVE CheckerInv'
  <2> DEFINE n == checker.failures + 1
             r == Append(checked, FALSE)
  <2>1. /\ checker'.failures = n /\ checker'.successes = 0 /\ n \in Nat
        /\ checker'.status = IF n >= FailureThreshold THEN "unhealthy"
                             ELSE IF checker.status = "unknown" THEN "degraded" ELSE checker.status
        /\ checker' \in [status : CheckStatuses, failures : Nat, successes : Nat]
    BY <1>0, <1>2 DEF OnFailure, CheckStatuses
  <2>2. /\ r \in Seq(BOOLEAN) /\ Len(r) = Len(checked) + 1 /\ r[Len(checked) + 1] = FALSE
        /\ \A k \in 1..Len(checked) : r[k] = checked[k]
    BY <1>0, OneMoreResult
  <2>3. EndsWith(r, n, FALSE) /\ EndsWith(r, 0, TRUE)
    BY <1>0, EndsWithOneMore
  <2>4. /\ n >= FailureThreshold => IsDown(r)
        /\ ~(n >= FailureThreshold) => /\ IsDown(r) <=> IsDown(checked)
                                       /\ WasDown(r) <=> WasDown(checked)
    BY <1>0, AfterFailure
  <2>5. Len(r) # 0 /\ (Len(checked) # 0 => r[1] = checked[1]) /\ (Len(checked) = 0 => ~r[1])
    <3> HIDE DEF r
    <3>1. Len(r) # 0
      BY <1>0, <2>2
    <3>2. Len(checked) # 0 => 1 \in 1..Len(checked)
      BY <1>0
    <3>3. Len(checked) = 0 => Len(checked) + 1 = 1
      OBVIOUS
    <3>4. Len(checked) = 0 => r[1] = FALSE
      BY <2>2, <3>3
    <3> QED BY <2>2, <3>1, <3>2, <3>4
  <2> HIDE DEF n, r
  <2>6. checker'.status = StatusOf(r)
    <3>1. CASE n >= FailureThreshold
      BY <2>1, <2>4, <2>5, <3>1 DEF StatusOf
    <3>2. CASE ~(n >= FailureThreshold) /\ Len(checked) = 0
      <4>1. checker.status = "unknown" /\ ~IsDown(r) /\ ~WasDown(r) /\ ~r[1]
        BY <1>0, <1>d, <2>4, <2>5, <3>2 DEF StatusOf
      <4> QED BY <2>1, <2>5, <3>2, <4>1 DEF StatusOf
    <3>3. CASE ~(n >= FailureThreshold) /\ Len(checked) # 0
      <4>1. StatusOf(r) = StatusOf(checked)
        BY <2>4, <2>5, <3>3 DEF StatusOf
      <4>2. checker.status # "unknown"
        BY <1>0, <3>3 DEF StatusOf
      <4> QED BY <1>0, <2>1, <3>3, <4>1, <4>2
    <3> QED BY <3>1, <3>2, <3>3
  <2>7. checked' = r
    BY <1>2 DEF r
  <2> QED BY <2>1, <2>2, <2>3, <2>6, <2>7 DEF CheckerInv
<1>3. ASSUME NEW l \in Callers, NEW ok \in BOOLEAN, EndCheck(l, ok) PROVE CheckerInv'
  <2>1. CASE ok = TRUE
    BY <1>1, <1>3, <2>1 DEF EndCheck
  <2>2. CASE ok = FALSE
    BY <1>2, <1>3, <2>2 DEF EndCheck
  <2> QED BY <2>1, <2>2
<1>4. CASE UNCHANGED <<checker, checked>>
  BY <1>4 DEF CheckerInv, EndsWith, StatusOf, IsDown, WasDown, FailedRun, PassedRun
<1>5. ASSUME NEW l \in Callers, StartChecker(l) \/ BeginCheck(l) PROVE CheckerInv'
  BY <1>4, <1>5 DEF StartChecker, BeginCheck
<1>6. CASE StopChecker
  BY <1>4, <1>6 DEF StopChecker
<1>7. CASE UNCHANGED checkerVars
  BY <1>4, <1>7 DEF checkerVars
<1> QED BY <1>3, <1>5, <1>6, <1>7 DEF CheckerNext

(* The invariant says what the run checks. *)
LEMMA CheckerFollowsResults == CheckerInv => StatusFollowsResults
<1> SUFFICES ASSUME CheckerInv PROVE StatusFollowsResults
  OBVIOUS
<1> DEFINE unhealthy ==
             \E j \in FailureThreshold .. Len(checked) :
               /\ \A k \in j - FailureThreshold + 1 .. j : ~checked[k]
               /\ \A h \in j + SuccessThreshold .. Len(checked) :
                    \E k \in h - SuccessThreshold + 1 .. h : ~checked[k]
           status == IF checked = <<>> THEN "unknown"
                     ELSE IF unhealthy THEN "unhealthy"
                     ELSE IF ThresholdReached \/ checked[1] THEN "healthy" ELSE "degraded"
<1>1. unhealthy <=> IsDown(checked)
  BY DEF IsDown, FailedRun, PassedRun
<1>2. ThresholdReached <=> WasDown(checked)
  BY DEF ThresholdReached, WasDown, FailedRun
<1>3. checked = <<>> <=> Len(checked) = 0
  BY EmptySeq DEF CheckerInv
<1> HIDE DEF unhealthy
<1>4. status = StatusOf(checked)
  BY <1>1, <1>2, <1>3 DEF StatusOf
<1>5. checker.status = StatusOf(checked) /\ checker.status \in CheckStatuses
  BY DEF CheckerInv
<1>6. ManagerStatus({checker.status}) = checker.status
  <2>1. PICK x \in CheckStatuses : x = checker.status
    BY <1>5
  <2>2. ManagerStatus({x}) = x
    BY DEF ManagerStatus, CheckStatuses
  <2> QED BY <2>1, <2>2
<1>7. ManagerStatus({checker.status}) = status
  BY <1>4, <1>5, <1>6
<1> QED BY <1>7 DEF StatusFollowsResults, unhealthy

(* The probes: an attempt is only made when all before it failed. *)
ProbeInv ==
  /\ probing \in [Probes -> Seq(AnswerKinds)]
  /\ \A p \in Probes :
       /\ Len(probing[p]) <= Retries + 1
       /\ \A j \in 1 .. Len(probing[p]) - 1 : probing[p][j] \notin {"slow", "fast"}
  /\ reported # NoReport => \A p \in Probes : reported[p] = ProbeResult(probing[p]) /\ Ended(probing[p])

(* What a result says of the answers. *)
LEMMA ResultOfAnswers ==
  ASSUME NEW s \in Seq(AnswerKinds), s # <<>>
  PROVE  /\ ProbeResult(s) = "none" => Len(s) <= Retries /\ s[Len(s)] \notin {"slow", "fast"}
         /\ ProbeResult(s) = "unhealthy" => Len(s) > Retries /\ s[Len(s)] \notin {"slow", "fast"}
<1> DEFINE passed == IF s[Len(s)] = "slow" \/ Contains(s, "timeout") THEN "degraded" ELSE "healthy"
<1>1. passed \in {"degraded", "healthy"}
  OBVIOUS
<1>2. ProbeResult(s) = CASE s[Len(s)] \in {"fast", "slow"} -> passed
                         [] s[Len(s)] = "content" -> IF Len(s) <= Retries THEN passed ELSE "unhealthy"
                         [] OTHER -> IF Len(s) <= Retries THEN "none" ELSE "unhealthy"
  BY DEF ProbeResult, Last
<1>3. Len(s) \in Nat /\ Retries \in Nat
  BY LenProperties, HealthAssumptions
<1> HIDE DEF passed
<1>4. CASE s[Len(s)] \in {"fast", "slow"}
  BY <1>1, <1>2, <1>4
<1>5. CASE s[Len(s)] = "content"
  BY <1>1, <1>2, <1>3, <1>5
<1>6. CASE s[Len(s)] \notin {"fast", "slow", "content"}
  BY <1>2, <1>3, <1>6
<1> QED BY <1>4, <1>5, <1>6

(* No probe has been attempted. *)
LEMMA ProbeInvInit == ProbeInit => ProbeInv
<1> SUFFICES ASSUME ProbeInit PROVE ProbeInv
  OBVIOUS
<1>1. <<>> \in Seq(AnswerKinds) /\ Len(<<>>) = 0
  BY EmptySeq
<1>2. Retries \in Nat
  BY HealthAssumptions
<1> QED BY <1>1, <1>2 DEF ProbeInit, ProbeInv

(* Attempts and the gathering of the results keep it. *)
LEMMA ProbeInvStep ==
  ASSUME ProbeInv, [ProbeNext]_probeVars
  PROVE  ProbeInv'
<1>0. Retries \in Nat
  BY HealthAssumptions
<1>1. ASSUME NEW p \in Probes, NEW a \in AnswerKinds, Attempt(p, a) PROVE ProbeInv'
  <2>0. probing[p] \in Seq(AnswerKinds) /\ probing \in [Probes -> Seq(AnswerKinds)]
    BY DEF ProbeInv
  <2>1. PICK s \in Seq(AnswerKinds) : s = probing[p]
    BY <2>0
  <2>2. Len(s) \in Nat /\ (s = <<>> <=> Len(s) = 0)
    BY LenProperties, EmptySeq
  <2>3. /\ Append(s, a) \in Seq(AnswerKinds) /\ Len(Append(s, a)) = Len(s) + 1
        /\ \A j \in 1..Len(s) : Append(s, a)[j] = s[j]
    BY AppendProperties
  <2>4. /\ Len(s) <= Retries
        /\ s # <<>> => s[Len(s)] \notin {"slow", "fast"}
    BY <1>0, <1>1, <2>1, <2>2, ResultOfAnswers DEF Attempt, Ended
  <2>5. \A j \in 1..Len(s) : s[j] \notin {"slow", "fast"}
    <3>1. \A j \in 1 .. Len(s) - 1 : s[j] \notin {"slow", "fast"}
      BY <2>1 DEF ProbeInv
    <3> QED BY <2>2, <2>4, <3>1
  <2>6. probing' = [probing EXCEPT ![p] = Append(s, a)] /\ reported' = NoReport
    BY <1>1, <2>1 DEF Attempt
  <2>7. probing' \in [Probes -> Seq(AnswerKinds)]
    BY <2>0, <2>3, <2>6
  <2>8. probing'[p] = Append(s, a) /\ \A q \in Probes : q # p => probing'[q] = probing[q]
    BY <2>0, <2>6
  <2>9. /\ Len(probing'[p]) <= Retries + 1
        /\ \A j \in 1 .. Len(probing'[p]) - 1 : probing'[p][j] \notin {"slow", "fast"}
    <3>1. \A j \in 1 .. (Len(s) + 1) - 1 : j \in 1 .. Len(s)
      BY <2>2
    <3> QED BY <1>0, <2>2, <2>3, <2>4, <2>5, <2>8, <3>1
  <2>10. \A q \in Probes : /\ Len(probing'[q]) <= Retries + 1
                           /\ \A j \in 1 .. Len(probing'[q]) - 1 : probing'[q][j] \notin {"slow", "fast"}
    BY <2>8, <2>9 DEF ProbeInv
  <2>11. NoReport' = NoReport
    BY DEF NoReport
  <2> QED BY <2>6, <2>7, <2>10, <2>11 DEF ProbeInv
<1>2. CASE Gather
  BY <1>2 DEF Gather, ProbeInv, Ended, ProbeResult
<1>3. CASE UNCHANGED probeVars
  BY <1>3 DEF probeVars, ProbeInv, Ended, ProbeResult, NoReport
<1> QED BY <1>1, <1>2, <1>3 DEF ProbeNext

(* The invariant says what the run checks of the probes. *)
LEMMA ProbesTellAll == ProbeInv => ProbesAreTold
<1> SUFFICES ASSUME ProbeInv, reported # NoReport PROVE ProbesAreTold
  BY DEF ProbesAreTold
<1>1. ExitCode(ProbeStatus(reported)) = 0 <=> \A p \in Probes : reported[p] = "healthy"
  <2>1. ProbeStatus(reported) = "healthy" <=> \A p \in Probes : reported[p] = "healthy"
    BY HealthAssumptions DEF ProbeStatus
  <2>2. ExitCode(ProbeStatus(reported)) = 0 <=> ProbeStatus(reported) = "healthy"
    BY DEF ExitCode
  <2> QED BY <2>1, <2>2
<1>2. ASSUME NEW p \in Probes, reported[p] = "unhealthy"
      PROVE  /\ Len(probing[p]) = Retries + 1
             /\ \A j \in 1 .. Retries + 1 : probing[p][j] \notin {"slow", "fast"}
  <2>1. PICK s \in Seq(AnswerKinds) : s = probing[p]
    BY DEF ProbeInv
  <2>2. s # <<>> /\ ProbeResult(s) = "unhealthy" /\ Len(s) <= Retries + 1
        /\ \A j \in 1 .. Len(s) - 1 : s[j] \notin {"slow", "fast"}
    BY <1>2, <2>1 DEF ProbeInv, Ended
  <2>3. Len(s) > Retries /\ s[Len(s)] \notin {"slow", "fast"}
    BY <2>2, ResultOfAnswers
  <2>4. Len(s) \in Nat /\ Retries \in Nat
    BY LenProperties, HealthAssumptions
  <2>5. Len(s) = Retries + 1
    BY <2>2, <2>3, <2>4
  <2>6. \A j \in 1 .. Len(s) : j \in 1 .. Len(s) - 1 \/ j = Len(s)
    BY <2>4
  <2> QED BY <2>1, <2>2, <2>3, <2>5, <2>6
<1> QED BY <1>1, <1>2 DEF ProbesAreTold

-----------------------------------------------------------------------------
(* The scaler: the last decision that was not "none" is when it was last scaled. *)
Limits == [min : Int, max : Int, replicas : Int]
Decisions == {"cooldown", "scale_up", "max_replicas_reached", "scale_down", "min_replicas_reached"}
Taken == [what : Decisions, at : Nat, seen : Limits]
RespectsLimits(d) == /\ d.what = "scale_up" => d.seen.replicas + 1 <= d.seen.max
                     /\ d.what = "scale_down" => d.seen.replicas - 1 >= d.seen.min
Apart(s) == s[2].at - s[1].at < Cooldown <=> s[2].what = "cooldown"

ScalerInv ==
  /\ scaler \in Limits /\ lastScaled \in Nat /\ scalerTime \in Nat /\ decisions \in Seq(Taken)
  /\ Len(decisions) <= 2 /\ (Len(decisions) # 0 => decisions[Len(decisions)].at = lastScaled)
  /\ Len(decisions) = 2 => Apart(decisions)
  /\ \A j \in 1 .. Len(decisions) : RespectsLimits(decisions[j])

(* Nothing has been decided. *)
LEMMA ScalerInvInit == ScalerInit => ScalerInv
<1> SUFFICES ASSUME ScalerInit PROVE ScalerInv
  OBVIOUS
<1>1. decisions \in Seq(Taken) /\ Len(decisions) = 0
  BY EmptySeq DEF ScalerInit
<1>2. scaler \in Limits /\ lastScaled \in Nat /\ scalerTime \in Nat
  BY HealthAssumptions DEF ScalerInit, Limits
<1> QED BY <1>1, <1>2 DEF ScalerInv

(* At most one decision is kept beside a new one, the one before it. *)
LEMMA LastTwo ==
  ASSUME NEW s \in Seq(Taken), Len(s) <= 2, NEW d \in Taken
  PROVE  LET h == Append(s, d)
             k == SubSeq(h, IF Len(h) > 2 THEN 2 ELSE 1, Len(h))
         IN  /\ k \in Seq(Taken) /\ Len(k) \in 1..2 /\ k[Len(k)] = d
             /\ Len(k) = 2 => Len(s) # 0 /\ k[1] = s[Len(s)]
<1> DEFINE h == Append(s, d)
<1>0. Len(s) \in Nat /\ h \in Seq(Taken) /\ Len(h) = Len(s) + 1 /\ h[Len(s) + 1] = d
      /\ \A i \in 1..Len(s) : h[i] = s[i]
  BY LenProperties, AppendProperties
<1> HIDE DEF h
<1>1. CASE Len(s) = 2
  <2>1. SubSeq(h, 2, Len(h)) \in Seq(Taken) /\ Len(SubSeq(h, 2, Len(h))) = 2
        /\ SubSeq(h, 2, Len(h))[1] = h[2] /\ SubSeq(h, 2, Len(h))[2] = h[3]
    BY <1>0, <1>1, SubSeqProperties
  <2> QED BY <1>0, <1>1, <2>1 DEF h
<1>2. CASE Len(s) = 1
  <2>1. SubSeq(h, 1, Len(h)) = h
    BY <1>0, SubSeqFull
  <2> QED BY <1>0, <1>2, <2>1 DEF h
<1>3. CASE Len(s) = 0
  <2>1. SubSeq(h, 1, Len(h)) = h
    BY <1>0, SubSeqFull
  <2> QED BY <1>0, <1>3, <2>1 DEF h
<1>4. Len(s) = 0 \/ Len(s) = 1 \/ Len(s) = 2
  <2>1. Len(s) \in Nat
    BY <1>0
  <2>2. \A n \in Nat : n <= 2 => n = 0 \/ n = 1 \/ n = 2
    OBVIOUS
  <2> QED BY <2>1, <2>2
<1> QED BY <1>1, <1>2, <1>3, <1>4

(* A decision, an update and the clock keep it. *)
LEMMA ScalerInvStep ==
  ASSUME ScalerInv, [ScalerNext]_scalerVars
  PROVE  ScalerInv'
<1>0. /\ scaler \in Limits /\ lastScaled \in Nat /\ scalerTime \in Nat /\ decisions \in Seq(Taken)
      /\ Len(decisions) <= 2 /\ (Len(decisions) # 0 => decisions[Len(decisions)].at = lastScaled)
  BY DEF ScalerInv
<1>c. Cooldown \in Nat /\ MaxTime \in Nat /\ ScalerStart \in Nat
  BY HealthAssumptions
<1>r. scaler.min \in Int /\ scaler.max \in Int /\ scaler.replicas \in Int
  BY <1>0 DEF Limits
<1>1. ASSUME NEW load \in {"high", "normal", "low"}, AskScaler(load) PROVE ScalerInv'
  <2>1. CASE Decision(load) = "none"
    <3>1. UNCHANGED <<scaler, lastScaled, scalerTime, decisions>>
      BY <1>1, <2>1 DEF AskScaler
    <3> QED BY <3>1 DEF ScalerInv, Apart
  <2>2. CASE Decision(load) # "none"
    <3> DEFINE d == [what |-> Decision(load), at |-> scalerTime, seen |-> scaler]
               h == Append(decisions, d)
    <3>1. Decision(load) \in Decisions
      BY <2>2 DEF Decision, Decisions
    <3>2. d \in Taken /\ d.what = Decision(load) /\ d.at = scalerTime /\ d.seen = scaler
      BY <1>0, <3>1 DEF Taken
    <3>3. decisions' = SubSeq(h, IF Len(h) > 2 THEN 2 ELSE 1, Len(h)) /\ lastScaled' = scalerTime
      BY <1>1, <2>2 DEF AskScaler
    <3>4. RespectsLimits(d)
      <4>1. /\ Decision(load) = "scale_up" => scaler.replicas < scaler.max
            /\ Decision(load) = "scale_down" => scaler.replicas > scaler.min
        BY DEF Decision
      <4> HIDE DEF d
      <4> QED BY <1>r, <3>2, <4>1 DEF RespectsLimits
    <3>5. scalerTime - lastScaled < Cooldown <=> d.what = "cooldown"
      <4>1. scalerTime - lastScaled < Cooldown <=> Decision(load) = "cooldown"
        BY DEF Decision
      <4> QED BY <3>2, <4>1
    <3> HIDE DEF d
    <3>6. /\ decisions' \in Seq(Taken) /\ Len(decisions') \in 1..2 /\ decisions'[Len(decisions')] = d
          /\ Len(decisions') = 2 => Len(decisions) # 0 /\ decisions'[1] = decisions[Len(decisions)]
      BY <1>0, <3>2, <3>3, LastTwo
    <3>7. Len(decisions') = 2 => Apart(decisions')
      <4> SUFFICES ASSUME Len(decisions') = 2 PROVE Apart(decisions')
        OBVIOUS
      <4>1. decisions'[2] = d /\ decisions'[1].at = lastScaled
        BY <1>0, <3>6
      <4>2. decisions'[2].at - decisions'[1].at = scalerTime - lastScaled
        BY <3>2, <4>1
      <4> QED BY <3>5, <4>1, <4>2 DEF Apart
    <3>8. \A j \in 1 .. Len(decisions') : RespectsLimits(decisions'[j])
      <4>1. Len(decisions) # 0 => RespectsLimits(decisions[Len(decisions)])
        <5>1. Len(decisions) # 0 => Len(decisions) \in 1 .. Len(decisions)
          BY <1>0, LenProperties
        <5> QED BY <5>1 DEF ScalerInv
      <4>2. \A j \in 1 .. Len(decisions') : j = Len(decisions') \/ (j = 1 /\ Len(decisions') = 2)
        BY <3>6
      <4> QED BY <3>4, <3>6, <4>1, <4>2
    <3>9. scaler' = scaler /\ scalerTime' = scalerTime
      BY <1>1 DEF AskScaler
    <3> QED BY <1>0, <3>2, <3>3, <3>6, <3>7, <3>8, <3>9 DEF ScalerInv
  <2> QED BY <2>1, <2>2
<1>2. ASSUME NEW lo \in 0 .. 1, NEW hi \in 1 .. 2, UpdateScaler(ScalerStart - lo, ScalerStart + hi - 1)
      PROVE ScalerInv'
  <2>1. ScalerStart - lo \in Int /\ ScalerStart + hi - 1 \in Int
    BY <1>c
  <2>2. scaler' \in Limits /\ UNCHANGED <<lastScaled, scalerTime, decisions>>
    BY <1>0, <1>2, <2>1 DEF UpdateScaler, Limits
  <2> QED BY <1>0, <2>2 DEF ScalerInv, Apart
<1>3. CASE ScalerTick
  <2>1. scalerTime' \in Nat /\ UNCHANGED <<scaler, lastScaled, decisions>>
    BY <1>0, <1>3 DEF ScalerTick
  <2> QED BY <1>0, <2>1 DEF ScalerInv, Apart
<1>4. CASE UNCHANGED scalerVars
  BY <1>4 DEF scalerVars, ScalerInv, Apart
<1> QED BY <1>1, <1>2, <1>3, <1>4 DEF ScalerNext

(* The invariant says what the run checks of the scaler. *)
LEMMA ScalerKeepsCooldown == ScalerInv => CooldownHolds
<1> SUFFICES ASSUME ScalerInv PROVE CooldownHolds
  OBVIOUS
<1>1. DOMAIN decisions = 1 .. Len(decisions)
  BY LenProperties DEF ScalerInv
<1> QED BY <1>1 DEF ScalerInv, CooldownHolds, Apart, RespectsLimits

-----------------------------------------------------------------------------
(* The capacity configurations. *)
CapacityModes == {"normal", "degraded", "emergency"}
Capacity == [min : Nat, max : Nat, requests : Nat, timeout : Nat, attempts : Nat \ {0},
             mode : CapacityModes]
CapacityInv ==
  /\ capacities \in [CapacityEnvironments -> Capacity]
  /\ \A e \in CapacityEnvironments : capacities[e].min <= capacities[e].max
  /\ capacityFile \in [CapacityEnvironments -> Capacity \cup {NoFile}]
  /\ \A e \in CapacityEnvironments :
       capacityFile[e] # NoFile => capacityFile[e].min <= capacityFile[e].max

(* The larger of two numbers. *)
LEMMA AtLeastIsLarger ==
  ASSUME NEW n \in Int, NEW k \in Int
  PROVE  AtLeast(n, k) \in {n, k} /\ AtLeast(n, k) >= n /\ AtLeast(n, k) >= k
<1>1. \E x \in {n, k} : \A y \in {n, k} : x >= y
  <2>1. CASE n >= k
    BY <2>1
  <2>2. CASE k >= n
    BY <2>2
  <2> QED BY <2>1, <2>2
<1>2. AtLeast(n, k) = CHOOSE x \in {n, k} : \A y \in {n, k} : x >= y
  BY DEF AtLeast, Max
<1> QED BY <1>1, <1>2

(* What the smaller configurations have, of any configuration. *)
LEMMA SmallerConfigurations ==
  ASSUME NEW c \in Capacity, c.min <= c.max
  PROVE  /\ Degraded(c) \in Capacity /\ Emergency(c) \in Capacity
         /\ Degraded(c).min <= Degraded(c).max /\ Emergency(c).min <= Emergency(c).max
         /\ Emergency(c).max <= Degraded(c).max /\ Emergency(c).requests <= Degraded(c).requests
         /\ c.timeout <= Degraded(c).timeout /\ Degraded(c).timeout <= Emergency(c).timeout
         /\ Emergency(c).attempts <= Degraded(c).attempts /\ Degraded(c).attempts <= c.attempts
         /\ Degraded(c).max <= c.max \/ Degraded(c).max = 5
         /\ Degraded(c).requests <= c.requests \/ Degraded(c).requests = 10
<1>0. /\ c.min \in Nat /\ c.max \in Nat /\ c.requests \in Nat /\ c.timeout \in Nat
      /\ c.attempts \in Nat \ {0}
  BY DEF Capacity
<1>1. /\ c.min \div 2 \in Nat /\ c.max \div 2 \in Nat /\ c.requests \div 2 \in Nat
      /\ c.min \div 2 <= c.max \div 2 /\ c.max \div 2 <= c.max /\ c.requests \div 2 <= c.requests
      /\ c.attempts - 1 \in Nat /\ c.timeout * 2 \in Nat /\ c.timeout * 4 \in Nat
      /\ c.timeout <= c.timeout * 2 /\ c.timeout * 2 <= c.timeout * 4
  BY <1>0
<1> DEFINE w == AtLeast(1, c.min \div 2)
           x == AtLeast(5, c.max \div 2)
           y == AtLeast(10, c.requests \div 2)
           z == AtLeast(1, c.attempts - 1)
<1>2. /\ w \in {1, c.min \div 2} /\ w >= 1 /\ x \in {5, c.max \div 2} /\ x >= 5 /\ x >= c.max \div 2
      /\ y \in {10, c.requests \div 2} /\ y >= 10 /\ z \in {1, c.attempts - 1} /\ z >= 1
  BY <1>1, AtLeastIsLarger
<1> HIDE DEF w, x, y, z
<1>3. /\ w \in Nat /\ x \in Nat /\ y \in Nat /\ z \in Nat \ {0}
      /\ w <= x /\ 5 <= x /\ 5 <= y /\ 1 <= z /\ z <= c.attempts
      /\ x <= c.max \/ x = 5
      /\ y <= c.requests \/ y = 10
  BY <1>0, <1>1, <1>2
<1>4. Degraded(c) = [min |-> w, max |-> x, requests |-> y, timeout |-> c.timeout * 2,
                     attempts |-> z, mode |-> "degraded"]
  BY DEF Degraded, w, x, y, z
<1>5. Emergency(c) = [min |-> 1, max |-> 5, requests |-> 5, timeout |-> c.timeout * 4,
                      attempts |-> 1, mode |-> "emergency"]
  BY DEF Emergency
<1>6. Degraded(c) \in Capacity
  BY <1>1, <1>3, <1>4 DEF Capacity, CapacityModes
<1>7. Emergency(c) \in Capacity
  BY <1>1, <1>5 DEF Capacity, CapacityModes
<1>8. /\ Degraded(c).min = w /\ Degraded(c).max = x /\ Degraded(c).requests = y
      /\ Degraded(c).timeout = c.timeout * 2 /\ Degraded(c).attempts = z
  BY <1>4
<1>9. /\ Emergency(c).min = 1 /\ Emergency(c).max = 5 /\ Emergency(c).requests = 5
      /\ Emergency(c).timeout = c.timeout * 4 /\ Emergency(c).attempts = 1
  BY <1>5
<1> QED BY <1>1, <1>3, <1>6, <1>7, <1>8, <1>9

(* The three configurations are pools. *)
LEMMA CapacityInvInit == CapacityInit => CapacityInv
<1> SUFFICES ASSUME CapacityInit PROVE CapacityInv
  OBVIOUS
<1>1. /\ DevelopmentConfig \in Capacity /\ DevelopmentConfig.min <= DevelopmentConfig.max
      /\ StagingConfig \in Capacity /\ StagingConfig.min <= StagingConfig.max
      /\ ProductionConfig \in Capacity /\ ProductionConfig.min <= ProductionConfig.max
  BY DEF DevelopmentConfig, StagingConfig, ProductionConfig, Configured, Capacity, CapacityModes
<1>2. \A e \in CapacityEnvironments : capacities[e] \in Capacity /\ capacities[e].min <= capacities[e].max
  <2>1. /\ capacities["development"] = DevelopmentConfig /\ capacities["staging"] = StagingConfig
        /\ capacities["production"] = ProductionConfig
    BY DEF CapacityInit, CapacityEnvironments
  <2> QED BY <1>1, <2>1 DEF CapacityEnvironments
<1>3. capacities \in [CapacityEnvironments -> Capacity]
  BY <1>2 DEF CapacityInit
<1>4. capacityFile = [e \in CapacityEnvironments |-> NoFile]
  BY DEF CapacityInit
<1> QED BY <1>2, <1>3, <1>4 DEF CapacityInv

(* Updates and saved variants stay pools. *)
LEMMA CapacityInvStep ==
  ASSUME CapacityInv, [CapacityNext]_capacityVars
  PROVE  CapacityInv'
<1>0. /\ capacities \in [CapacityEnvironments -> Capacity]
      /\ \A e \in CapacityEnvironments : capacities[e].min <= capacities[e].max
      /\ capacityFile \in [CapacityEnvironments -> Capacity \cup {NoFile}]
      /\ \A e \in CapacityEnvironments :
           capacityFile[e] # NoFile => capacityFile[e].min <= capacityFile[e].max
  BY DEF CapacityInv
<1>n. NoFile' = NoFile /\ Capacity' = Capacity
  BY DEF NoFile, Capacity, CapacityModes
<1>1. ASSUME NEW e \in CapacityEnvironments, NEW c \in Capacity, c.min <= c.max,
             capacities' = [capacities EXCEPT ![e] = c], capacityFile' = capacityFile
      PROVE  CapacityInv'
  <2>1. /\ capacities' \in [CapacityEnvironments -> Capacity] /\ capacities'[e] = c
        /\ \A f \in CapacityEnvironments : f # e => capacities'[f] = capacities[f]
    BY <1>0, <1>1
  <2> QED BY <1>0, <1>1, <1>n, <2>1 DEF CapacityInv
<1>2. ASSUME NEW e \in CapacityEnvironments, NEW f \in {"min", "max"}, NEW v \in {1, 4, 8},
             (f = "min" => v <= capacities[e].max) /\ (f = "max" => v >= capacities[e].min),
             UpdateCapacity(e, f, v)
      PROVE  CapacityInv'
  <2>0. PICK c \in Capacity : c = capacities[e] /\ c.min <= c.max
    BY <1>0
  <2>1. CASE f = "min"
    <3> DEFINE d == [c EXCEPT !.min = v]
    <3>1. d \in Capacity /\ d.min = v /\ d.max = c.max
      BY <2>0 DEF Capacity
    <3>2. capacities' = [capacities EXCEPT ![e] = d]
      BY <1>2, <2>0, <2>1 DEF UpdateCapacity
    <3>3. d.min <= d.max
      BY <1>2, <2>0, <2>1, <3>1
    <3> QED BY <1>1, <1>2, <3>1, <3>2, <3>3 DEF UpdateCapacity
  <2>2. CASE f = "max"
    <3> DEFINE d == [c EXCEPT !.max = v]
    <3>1. d \in Capacity /\ d.max = v /\ d.min = c.min
      BY <2>0 DEF Capacity
    <3>2. capacities' = [capacities EXCEPT ![e] = d]
      BY <1>2, <2>0, <2>2 DEF UpdateCapacity
    <3>3. d.min <= d.max
      BY <1>2, <2>0, <2>2, <3>1
    <3> QED BY <1>1, <1>2, <3>1, <3>2, <3>3 DEF UpdateCapacity
  <2> QED BY <2>1, <2>2
<1>3. ASSUME NEW e \in CapacityEnvironments, NEW v \in {4, 12}, UpdateCapacity(e, "requests", v)
      PROVE  CapacityInv'
  <2>0. PICK c \in Capacity : c = capacities[e] /\ c.min <= c.max
    BY <1>0
  <2> DEFINE d == [c EXCEPT !.requests = v]
  <2>1. d \in Capacity /\ d.max = c.max /\ d.min = c.min
    BY <2>0 DEF Capacity
  <2>2. capacities' = [capacities EXCEPT ![e] = d]
    BY <1>3, <2>0 DEF UpdateCapacity
  <2> QED BY <1>1, <1>3, <2>0, <2>1, <2>2 DEF UpdateCapacity
<1>4. ASSUME NEW e \in CapacityEnvironments, NEW mode \in {"normal", "degraded", "emergency"},
             SaveCapacity(e, mode)
      PROVE  CapacityInv'
  <2>0. PICK c \in Capacity : c = capacities[e] /\ c.min <= c.max
    BY <1>0
  <2>1. Variant(e, mode) \in {c, Degraded(c), Emergency(c)}
    BY <2>0 DEF Variant
  <2>2. Variant(e, mode) \in Capacity /\ Variant(e, mode).min <= Variant(e, mode).max
    BY <2>0, <2>1, SmallerConfigurations
  <2>3. PICK d \in Capacity : d = Variant(e, mode) /\ d.min <= d.max
    BY <2>2
  <2>4. capacityFile' = [capacityFile EXCEPT ![e] = d] /\ capacities' = capacities
    BY <1>4, <2>3 DEF SaveCapacity
  <2>5. /\ capacityFile' \in [CapacityEnvironments -> Capacity \cup {NoFile}] /\ capacityFile'[e] = d
        /\ \A f \in CapacityEnvironments : f # e => capacityFile'[f] = capacityFile[f]
    BY <1>0, <2>4
  <2> QED BY <1>0, <1>n, <2>3, <2>4, <2>5 DEF CapacityInv
<1>5. CASE UNCHANGED capacityVars
  BY <1>5, <1>n DEF capacityVars, CapacityInv
<1> QED BY <1>2, <1>3, <1>4, <1>5 DEF CapacityNext

(* The invariant says what the run checks of the configurations. *)
LEMMA CapacityShrinks == CapacityInv => DegradingShrinks
<1> SUFFICES ASSUME CapacityInv, NEW e \in CapacityEnvironments
             PROVE  LET c == capacities[e] d == Degraded(c) m == Emergency(c)
                    IN  /\ d.min <= d.max /\ m.max <= d.max /\ m.requests <= d.requests
                        /\ c.timeout <= d.timeout /\ d.timeout <= m.timeout
                        /\ m.attempts <= d.attempts /\ d.attempts <= c.attempts
                        /\ d.max <= c.max \/ d.max = 5
                        /\ d.requests <= c.requests \/ d.requests = 10
                        /\ Loaded(e) # NoFile => Loaded(e).min <= Loaded(e).max
  BY DEF DegradingShrinks
<1>1. capacities[e] \in Capacity /\ capacities[e].min <= capacities[e].max
  BY DEF CapacityInv
<1>2. Loaded(e) # NoFile => Loaded(e).min <= Loaded(e).max
  BY DEF CapacityInv, Loaded
<1> QED BY <1>1, <1>2, SmallerConfigurations

-----------------------------------------------------------------------------
(* The router's history and counts. *)

(* One element joins or leaves a finite set, or nothing changes but what it is. *)
LEMMA OneChanges ==
  ASSUME NEW X, IsFiniteSet(X), NEW a \in X, NEW S \in SUBSET X, NEW T \in SUBSET X,
         \A x \in X : x # a => (x \in S <=> x \in T)
  PROVE  /\ IsFiniteSet(S) /\ IsFiniteSet(T) /\ Cardinality(S) \in Nat /\ Cardinality(T) \in Nat
         /\ Cardinality(T) = IF a \in S THEN (IF a \in T THEN Cardinality(S) ELSE Cardinality(S) - 1)
                             ELSE IF a \in T THEN Cardinality(S) + 1 ELSE Cardinality(S)
<1>1. IsFiniteSet(S) /\ IsFiniteSet(T)
  BY FS_Subset
<1>2. Cardinality(S) \in Nat /\ Cardinality(T) \in Nat
  BY <1>1, FS_CardinalityType
<1>3. CASE (a \in S) <=> (a \in T)
  <2>1. S = T
    BY <1>3
  <2> QED BY <1>1, <1>2, <1>3, <2>1
<1>4. CASE a \in S /\ a \notin T
  <2>1. S = T \cup {a}
    BY <1>4
  <2>2. Cardinality(S) = Cardinality(T) + 1
    BY <1>1, <1>4, <2>1, FS_AddElement
  <2> QED BY <1>1, <1>2, <1>4, <2>2
<1>5. CASE a \notin S /\ a \in T
  <2>1. T = S \cup {a}
    BY <1>5
  <2>2. Cardinality(T) = Cardinality(S) + 1
    BY <1>1, <1>5, <2>1, FS_AddElement
  <2> QED BY <1>1, <1>2, <1>5, <2>2
<1> QED BY <1>3, <1>4, <1>5

AnalysisStages == {"new", "scored", "blind", "pushed", "stored", "lost"}
AnalysesAt(calls, stages) == {a \in Analyses : calls[a].stage \in stages}
PushedAt == {"pushed", "stored"}
MayHangAt == {"pushed", "lost"}

(* A request that fails after its lpush no longer counts as pushed, so it is the window
   that a history of more requests than it must fill. *)
NoveltyInv ==
  /\ patterns \in Seq(Features)
  /\ analysis \in [Analyses -> [stage : AnalysisStages, feature : Features \cup {"none"}]]
  /\ \A a \in Analyses : analysis[a].stage # "new" => analysis[a].feature \in Features
  /\ noveltyOf \in [Analyses -> Int] /\ finishedBefore \in [Analyses -> Seq(Features)]
  /\ Len(patterns) <= HistoryWindow + Cardinality(AnalysesAt(analysis, MayHangAt))
  /\ Len(patterns) >= Cardinality(AnalysesAt(analysis, PushedAt)) \/ Len(patterns) >= HistoryWindow
  /\ \A a \in Analyses :
       noveltyOf[a] = 0 => analysis[a].feature \in ToSet(finishedBefore[a])

(* Nothing has been analysed. *)
LEMMA NoveltyInvInit == NoveltyInit => NoveltyInv
<1> SUFFICES ASSUME NoveltyInit PROVE NoveltyInv
  OBVIOUS
<1>1. patterns \in Seq(Features) /\ Len(patterns) = 0 /\ <<>> \in Seq(Features)
  BY EmptySeq DEF NoveltyInit
<1>2. /\ analysis \in [Analyses -> [stage : AnalysisStages, feature : Features \cup {"none"}]]
      /\ \A a \in Analyses : analysis[a].stage = "new"
  BY DEF NoveltyInit, NoAnalysis, AnalysisStages
<1>3. /\ noveltyOf \in [Analyses -> Int] /\ finishedBefore \in [Analyses -> Seq(Features)]
      /\ \A a \in Analyses : noveltyOf[a] # 0
  BY <1>1 DEF NoveltyInit
<1>4. AnalysesAt(analysis, MayHangAt) = {} /\ AnalysesAt(analysis, PushedAt) = {}
  BY <1>2 DEF AnalysesAt, MayHangAt, PushedAt
<1>5. HistoryWindow \in Nat /\ Cardinality({}) = 0
  BY RouterAssumptions, FS_EmptySet
<1>6. /\ Len(patterns) <= HistoryWindow + Cardinality(AnalysesAt(analysis, MayHangAt))
      /\ Len(patterns) >= Cardinality(AnalysesAt(analysis, PushedAt))
  BY <1>1, <1>4, <1>5
<1> QED BY <1>1, <1>2, <1>3, <1>6 DEF NoveltyInv

(* A call moves to another stage. *)
LEMMA StageMoves ==
  ASSUME NoveltyInv, NEW a \in Analyses, NEW s \in AnalysisStages \ {"new"},
         NEW f \in Features,
         analysis' = [analysis EXCEPT ![a] = [stage |-> s, feature |-> f]]
  PROVE  /\ analysis' \in [Analyses -> [stage : AnalysisStages, feature : Features \cup {"none"}]]
         /\ analysis'[a].stage = s /\ analysis'[a].feature = f
         /\ \A b \in Analyses : b # a => analysis'[b] = analysis[b]
         /\ \A b \in Analyses : analysis'[b].stage # "new" => analysis'[b].feature \in Features
         /\ \A st \in {PushedAt, MayHangAt} :
              LET n == Cardinality(AnalysesAt(analysis, st))
              IN  /\ n \in Nat
                  /\ Cardinality(AnalysesAt(analysis', st)) =
                       IF analysis[a].stage \in st THEN (IF s \in st THEN n ELSE n - 1)
                       ELSE IF s \in st THEN n + 1 ELSE n
<1>1. analysis \in [Analyses -> [stage : AnalysisStages, feature : Features \cup {"none"}]]
  BY DEF NoveltyInv
<1>2. [stage |-> s, feature |-> f] \in [stage : AnalysisStages, feature : Features \cup {"none"}]
  OBVIOUS
<1>3. /\ analysis' \in [Analyses -> [stage : AnalysisStages, feature : Features \cup {"none"}]]
      /\ analysis'[a] = [stage |-> s, feature |-> f]
      /\ \A b \in Analyses : b # a => analysis'[b] = analysis[b]
  BY <1>1, <1>2
<1>4. analysis'[a].stage = s /\ analysis'[a].feature = f
  BY <1>3
<1>5. \A b \in Analyses : analysis'[b].stage # "new" => analysis'[b].feature \in Features
  BY <1>3, <1>4 DEF NoveltyInv
<1>6. ASSUME NEW st \in {PushedAt, MayHangAt}
      PROVE  /\ Cardinality(AnalysesAt(analysis, st)) \in Nat
             /\ Cardinality(AnalysesAt(analysis', st)) =
                  IF analysis[a].stage \in st
                  THEN (IF s \in st THEN Cardinality(AnalysesAt(analysis, st))
                        ELSE Cardinality(AnalysesAt(analysis, st)) - 1)
                  ELSE IF s \in st THEN Cardinality(AnalysesAt(analysis, st)) + 1
                  ELSE Cardinality(AnalysesAt(analysis, st))
  <2> DEFINE S == AnalysesAt(analysis, st)
             T == AnalysesAt(analysis', st)
  <2>1. S \in SUBSET Analyses /\ T \in SUBSET Analyses /\ (a \in S <=> analysis[a].stage \in st)
        /\ (a \in T <=> s \in st) /\ \A x \in Analyses : x # a => (x \in S <=> x \in T)
    BY <1>3, <1>4 DEF AnalysesAt
  <2>2. IsFiniteSet(Analyses)
    BY RouterAssumptions
  <2> HIDE DEF S, T
  <2>3. /\ Cardinality(S) \in Nat
        /\ Cardinality(T) = IF a \in S THEN (IF a \in T THEN Cardinality(S) ELSE Cardinality(S) - 1)
                            ELSE IF a \in T THEN Cardinality(S) + 1 ELSE Cardinality(S)
    BY <2>1, <2>2, OneChanges
  <2> QED BY <2>1, <2>3 DEF S, T
<1> QED BY <1>3, <1>4, <1>5, <1>6

(* Every step of a request keeps the invariant. *)
LEMMA NoveltyInvStep ==
  ASSUME NoveltyInv, [NoveltyNext]_noveltyVars
  PROVE  NoveltyInv'
<1> DEFINE may == Cardinality(AnalysesAt(analysis, MayHangAt))
           put == Cardinality(AnalysesAt(analysis, PushedAt))
<1>w. HistoryWindow \in Nat \ {0}
  BY RouterAssumptions
<1>0. /\ patterns \in Seq(Features) /\ Len(patterns) \in Nat
      /\ noveltyOf \in [Analyses -> Int] /\ finishedBefore \in [Analyses -> Seq(Features)]
      /\ analysis \in [Analyses -> [stage : AnalysisStages, feature : Features \cup {"none"}]]
  BY LenProperties DEF NoveltyInv
<1>l. /\ Len(patterns) <= HistoryWindow + may
      /\ Len(patterns) >= put \/ Len(patterns) >= HistoryWindow
  BY DEF NoveltyInv
<1>n. \A a \in Analyses : noveltyOf[a] = 0 => analysis[a].feature \in ToSet(finishedBefore[a])
  BY DEF NoveltyInv
<1>f. IsFiniteSet(AnalysesAt(analysis, MayHangAt)) /\ IsFiniteSet(AnalysesAt(analysis, PushedAt))
  BY RouterAssumptions, FS_Subset DEF AnalysesAt
<1>c. may \in Nat /\ put \in Nat
  BY <1>f, FS_CardinalityType
<1> HIDE DEF may, put
<1>1. ASSUME NEW a \in Analyses, NEW f \in Features, NEW fails \in BOOLEAN, ReadPatterns(a, f, fails)
      PROVE  NoveltyInv'
  <2>1. PICK s \in {"blind", "scored"} :
          analysis' = [analysis EXCEPT ![a] = [stage |-> s, feature |-> f]]
    BY <1>1 DEF ReadPatterns
  <2>2. analysis[a].stage = "new" /\ patterns' = patterns
    BY <1>1 DEF ReadPatterns
  <2>3. s \in AnalysisStages \ {"new"}
    BY DEF AnalysisStages
  <2>4. /\ analysis' \in [Analyses -> [stage : AnalysisStages, feature : Features \cup {"none"}]]
        /\ analysis'[a].stage = s /\ analysis'[a].feature = f
        /\ \A b \in Analyses : b # a => analysis'[b] = analysis[b]
        /\ \A b \in Analyses : analysis'[b].stage # "new" => analysis'[b].feature \in Features
    BY <2>1, <2>3, StageMoves
  <2>5. /\ Cardinality(AnalysesAt(analysis', MayHangAt)) = may
        /\ Cardinality(AnalysesAt(analysis', PushedAt)) = put
    BY <2>1, <2>2, <2>3, StageMoves DEF may, put, MayHangAt, PushedAt
  <2>6. PICK h \in Seq(Features) : /\ h = IF fails THEN <<>> ELSE patterns
                                   /\ noveltyOf' = [noveltyOf EXCEPT ![a] = NoveltyScore(f, h)]
    BY <1>0, <1>1, EmptySeq DEF ReadPatterns
  <2>7. finishedBefore' = [finishedBefore EXCEPT ![a] = patterns]
    BY <1>1 DEF ReadPatterns
  <2>8. NoveltyScore(f, h) \in Int /\ (NoveltyScore(f, h) = 0 => f \in ToSet(patterns))
    <3>1. NoveltyScore(f, h) \in Int /\ (NoveltyScore(f, h) = 0 => f \in ToSet(h))
      BY DEF NoveltyScore
    <3>2. f \in ToSet(h) => ~fails
      BY <2>6 DEF ToSet
    <3> QED BY <2>6, <3>1, <3>2
  <2>9. noveltyOf' \in [Analyses -> Int] /\ finishedBefore' \in [Analyses -> Seq(Features)]
        /\ noveltyOf'[a] = NoveltyScore(f, h) /\ finishedBefore'[a] = patterns
        /\ \A b \in Analyses : b # a => noveltyOf'[b] = noveltyOf[b] /\ finishedBefore'[b] = finishedBefore[b]
    BY <1>0, <2>6, <2>7, <2>8
  <2>10. \A b \in Analyses : noveltyOf'[b] = 0 => analysis'[b].feature \in ToSet(finishedBefore'[b])
    BY <1>n, <2>4, <2>8, <2>9
  <2> QED BY <1>0, <1>l, <2>2, <2>4, <2>5, <2>9, <2>10 DEF NoveltyInv
<1>2. ASSUME NEW a \in Analyses, NEW s \in {"pushed", "stored", "lost"}, analysis[a].stage # "new",
             analysis' = [analysis EXCEPT ![a].stage = s], noveltyOf' = noveltyOf,
             finishedBefore' = finishedBefore, patterns' \in Seq(Features),
             LET m == IF analysis[a].stage \in MayHangAt THEN (IF s \in MayHangAt THEN may ELSE may - 1)
                      ELSE IF s \in MayHangAt THEN may + 1 ELSE may
                 p == IF analysis[a].stage \in PushedAt THEN (IF s \in PushedAt THEN put ELSE put - 1)
                      ELSE IF s \in PushedAt THEN put + 1 ELSE put
             IN  /\ Len(patterns') <= HistoryWindow + m
                 /\ Len(patterns') >= p \/ Len(patterns') >= HistoryWindow
      PROVE  NoveltyInv'
  <2>1. PICK f \in Features : f = analysis[a].feature
    BY <1>2 DEF NoveltyInv
  <2>2. analysis' = [analysis EXCEPT ![a] = [stage |-> s, feature |-> f]]
    <3>1. [analysis[a] EXCEPT !.stage = s] = [stage |-> s, feature |-> f]
      BY <1>0, <2>1
    <3>2. analysis' = [analysis EXCEPT ![a] = [analysis[a] EXCEPT !.stage = s]]
      BY <1>2
    <3> QED BY <3>1, <3>2
  <2>3. s \in AnalysisStages \ {"new"}
    BY DEF AnalysisStages
  <2>4. /\ analysis' \in [Analyses -> [stage : AnalysisStages, feature : Features \cup {"none"}]]
        /\ analysis'[a].stage = s /\ analysis'[a].feature = f
        /\ \A b \in Analyses : b # a => analysis'[b] = analysis[b]
        /\ \A b \in Analyses : analysis'[b].stage # "new" => analysis'[b].feature \in Features
    BY <2>2, <2>3, StageMoves
  <2>5. /\ Cardinality(AnalysesAt(analysis', MayHangAt)) =
             IF analysis[a].stage \in MayHangAt THEN (IF s \in MayHangAt THEN may ELSE may - 1)
             ELSE IF s \in MayHangAt THEN may + 1 ELSE may
        /\ Cardinality(AnalysesAt(analysis', PushedAt)) =
             IF analysis[a].stage \in PushedAt THEN (IF s \in PushedAt THEN put ELSE put - 1)
             ELSE IF s \in PushedAt THEN put + 1 ELSE put
    BY <2>2, <2>3, StageMoves DEF may, put
  <2>6. \A b \in Analyses : noveltyOf'[b] = 0 => analysis'[b].feature \in ToSet(finishedBefore'[b])
    BY <1>2, <1>n, <2>1, <2>4
  <2>7. /\ Len(patterns') <= HistoryWindow + Cardinality(AnalysesAt(analysis', MayHangAt))
        /\ \/ Len(patterns') >= Cardinality(AnalysesAt(analysis', PushedAt))
           \/ Len(patterns') >= HistoryWindow
    BY <1>2, <2>5
  <2> QED BY <1>0, <1>2, <2>4, <2>6, <2>7 DEF NoveltyInv
<1>3. ASSUME NEW a \in Analyses, PushPattern(a) PROVE NoveltyInv'
  <2>1. /\ analysis[a].stage \in {"scored", "blind"} /\ analysis[a].stage # "new"
        /\ analysis' = [analysis EXCEPT ![a].stage = "pushed"]
        /\ noveltyOf' = noveltyOf /\ finishedBefore' = finishedBefore
    BY <1>3 DEF PushPattern
  <2>2. analysis[a].feature \in Features
    BY <2>1 DEF NoveltyInv
  <2>3. patterns' \in Seq(Features) /\ Len(patterns') = Len(patterns) + 1
    <3>1. PICK f \in Features : f = analysis[a].feature /\ patterns' = <<f>> \o patterns
      BY <1>3, <2>2 DEF PushPattern
    <3>2. <<f>> \in Seq(Features) /\ Len(<<f>>) = 1
      OBVIOUS
    <3> QED BY <1>0, <3>1, <3>2, ConcatProperties
  <2>4. /\ analysis[a].stage \notin MayHangAt /\ "pushed" \in MayHangAt
        /\ analysis[a].stage \notin PushedAt /\ "pushed" \in PushedAt
    BY <2>1 DEF MayHangAt, PushedAt
  <2>5. /\ Len(patterns') <= HistoryWindow + (may + 1)
        /\ Len(patterns') >= put + 1 \/ Len(patterns') >= HistoryWindow
    BY <1>0, <1>c, <1>l, <1>w, <2>3
  <2> QED BY <1>2, <2>1, <2>3, <2>4, <2>5
<1>4. ASSUME NEW a \in Analyses, TrimPatterns(a) PROVE NoveltyInv'
  <2>1. /\ analysis[a].stage = "pushed"
        /\ analysis' = [analysis EXCEPT ![a].stage = "stored"]
        /\ noveltyOf' = noveltyOf /\ finishedBefore' = finishedBefore /\ patterns' = Trimmed(patterns)
    BY <1>4 DEF TrimPatterns
  <2>2. PICK n \in Nat : /\ n = IF Len(patterns) < HistoryWindow THEN Len(patterns) ELSE HistoryWindow
                         /\ patterns' = SubSeq(patterns, 1, n)
    BY <1>0, <1>w, <2>1 DEF Trimmed
  <2>3. \A i \in 1..n : i \in 1..Len(patterns)
    BY <1>0, <1>w, <2>2
  <2>4. patterns' \in Seq(Features) /\ Len(patterns') = n
    <3>1. \A i \in 1..n : patterns[i] \in Features
      BY <1>0, <2>3, ElementOfSeq
    <3> QED BY <1>0, <2>2, <2>3, <3>1, SubSeqProperties
  <2>5. /\ "pushed" \in MayHangAt /\ "stored" \notin MayHangAt
        /\ "pushed" \in PushedAt /\ "stored" \in PushedAt
    BY DEF MayHangAt, PushedAt
  <2>6. may - 1 >= 0
    <3>1. a \in AnalysesAt(analysis, MayHangAt)
      BY <2>1, <2>5 DEF AnalysesAt
    <3>2. may # 0
      BY <1>f, <3>1, FS_EmptySet DEF may
    <3> QED BY <1>c, <3>2
  <2>7. /\ Len(patterns') <= HistoryWindow + (may - 1)
        /\ Len(patterns') >= put \/ Len(patterns') >= HistoryWindow
    BY <1>0, <1>c, <1>l, <1>w, <2>2, <2>4, <2>6
  <2> QED BY <1>2, <2>1, <2>4, <2>5, <2>7
<1>5. ASSUME NEW a \in Analyses, StoreFails(a) PROVE NoveltyInv'
  <2>1. /\ analysis[a].stage \in {"scored", "blind", "pushed"} /\ analysis[a].stage # "new"
        /\ analysis' = [analysis EXCEPT ![a].stage = "lost"]
        /\ noveltyOf' = noveltyOf /\ finishedBefore' = finishedBefore /\ patterns' = patterns
    BY <1>5 DEF StoreFails
  <2>2. "lost" \in MayHangAt /\ "lost" \notin PushedAt
    BY DEF MayHangAt, PushedAt
  <2>3. /\ Len(patterns') <= HistoryWindow + may /\ Len(patterns') <= HistoryWindow + (may + 1)
        /\ Len(patterns') >= put - 1 \/ Len(patterns') >= HistoryWindow
        /\ Len(patterns') >= put \/ Len(patterns') >= HistoryWindow
    BY <1>0, <1>c, <1>l, <1>w, <2>1
  <2> QED BY <1>0, <1>2, <2>1, <2>2, <2>3
<1>6. CASE UNCHANGED noveltyVars
  BY <1>6 DEF noveltyVars, NoveltyInv, AnalysesAt
<1> QED BY <1>1, <1>3, <1>4, <1>5, <1>6 DEF NoveltyNext

(* The invariant says what the run checks of the history. *)
LEMMA NoveltyIsRecent == NoveltyInv => HistoryIsRecent
<1> SUFFICES ASSUME NoveltyInv PROVE HistoryIsRecent
  OBVIOUS
<1> DEFINE pushed == {a \in Analyses : analysis[a].stage \in {"pushed", "stored"}}
           hanging == {a \in Analyses : analysis[a].stage \in {"pushed", "lost"}}
<1>1. pushed = AnalysesAt(analysis, PushedAt) /\ hanging = AnalysesAt(analysis, MayHangAt)
  BY DEF AnalysesAt, PushedAt, MayHangAt
<1>2. IsFiniteSet(pushed)
  BY RouterAssumptions, FS_Subset
<1>3. Cardinality(pushed) \in Nat /\ Len(patterns) \in Nat /\ HistoryWindow \in Nat
  BY <1>2, FS_CardinalityType, RouterAssumptions, LenProperties DEF NoveltyInv
<1>4. /\ Len(patterns) <= HistoryWindow + Cardinality(hanging)
      /\ Len(patterns) >= Cardinality(pushed) \/ Len(patterns) >= HistoryWindow
      /\ \A a \in Analyses : noveltyOf[a] = 0 => analysis[a].feature \in ToSet(finishedBefore[a])
  BY <1>1 DEF NoveltyInv
<1> HIDE DEF pushed, hanging
<1>5. Cardinality(pushed) > HistoryWindow \/ Len(patterns) >= Cardinality(pushed)
  BY <1>3, <1>4
<1> QED BY <1>4, <1>5 DEF HistoryIsRecent, pushed, hanging

TrackStages == {"new", "tier", "tierQueued", "all", "allQueued", "tracked", "raised"}
TrackCalls == [stage : TrackStages, tier : RouterTiers \cup {"none"}, success : BOOLEAN]
QueuedFor(calls, k) ==
  {t \in Trackings : \/ calls[t].stage = "tierQueued" /\ calls[t].tier = k
                     \/ calls[t].stage = "allQueued" /\ k = "all"}
CountedFor(calls, k) ==
  {t \in Trackings : calls[t].stage \in {"all", "allQueued", "tracked"} /\ calls[t].tier = k}
TrackedOf(calls) == {t \in Trackings : calls[t].stage = "tracked"}
IsQueued(stage, tier, k) ==
  (stage = "tierQueued" /\ tier = k) \/ (stage = "allQueued" /\ k = "all")
IsCounted(stage, tier, k) == stage \in {"all", "allQueued", "tracked"} /\ tier = k
After(n, was, is) == IF was THEN (IF is THEN n ELSE n - 1) ELSE IF is THEN n + 1 ELSE n

(* Every pipeline that may still execute belongs to a call that found its key missing, so
   the aggregate and these pipelines together stay within those calls; a request that
   got past its tier's pipeline is in the tier's aggregate. *)
CountInv ==
  /\ aggregate \in [AggregateKeys -> [total : Nat, successful : Nat]]
  /\ tracking \in [Trackings -> TrackCalls]
  /\ \A t \in Trackings : tracking[t].stage # "new" => tracking[t].tier \in RouterTiers
  /\ overlappers \in [AggregateKeys -> SUBSET Trackings]
  /\ \A k \in RouterTiers : \A t \in overlappers[k] : tracking[t].stage \notin {"new", "tier"}
  /\ \A t \in overlappers["all"] : tracking[t].stage \in {"allQueued", "tracked", "raised"}
  /\ \A k \in AggregateKeys :
       /\ aggregate[k].successful <= aggregate[k].total
       /\ aggregate[k].total + Cardinality(QueuedFor(tracking, k)) <= Cardinality(overlappers[k])
  /\ \A k \in RouterTiers : Cardinality(CountedFor(tracking, k)) <= aggregate[k].total
  /\ aggregate["all"].total = Cardinality(TrackedOf(tracking))

(* The sets of calls are finite. *)
LEMMA CallsAreFinite ==
  ASSUME NEW calls, NEW k
  PROVE  /\ Cardinality(QueuedFor(calls, k)) \in Nat /\ Cardinality(CountedFor(calls, k)) \in Nat
         /\ Cardinality(TrackedOf(calls)) \in Nat
         /\ \A S \in SUBSET Trackings : IsFiniteSet(S) /\ Cardinality(S) \in Nat
<1>1. IsFiniteSet(Trackings)
  BY RouterAssumptions
<1>2. \A S \in SUBSET Trackings : IsFiniteSet(S) /\ Cardinality(S) \in Nat
  BY <1>1, FS_Subset, FS_CardinalityType
<1>3. /\ QueuedFor(calls, k) \in SUBSET Trackings /\ CountedFor(calls, k) \in SUBSET Trackings
      /\ TrackedOf(calls) \in SUBSET Trackings
  BY DEF QueuedFor, CountedFor, TrackedOf
<1> QED BY <1>2, <1>3

(* Nothing has been tracked. *)
LEMMA CountInvInit == TrackInit => CountInv
<1> SUFFICES ASSUME TrackInit PROVE CountInv
  OBVIOUS
<1>1. /\ tracking \in [Trackings -> TrackCalls] /\ \A t \in Trackings : tracking[t].stage = "new"
      /\ overlappers \in [AggregateKeys -> SUBSET Trackings] /\ \A k \in AggregateKeys : overlappers[k] = {}
  BY DEF TrackInit, TrackCalls, TrackStages
<1>2. /\ aggregate \in [AggregateKeys -> [total : Nat, successful : Nat]]
      /\ \A k \in AggregateKeys : aggregate[k].total = 0 /\ aggregate[k].successful = 0
  BY DEF TrackInit
<1>3. TrackedOf(tracking) = {} /\ \A k : QueuedFor(tracking, k) = {} /\ CountedFor(tracking, k) = {}
  BY <1>1 DEF TrackedOf, QueuedFor, CountedFor
<1>4. Cardinality({}) = 0
  BY FS_EmptySet
<1>5. "all" \in AggregateKeys /\ \A k \in RouterTiers : k \in AggregateKeys
  BY DEF AggregateKeys
<1>6. \A k \in AggregateKeys :
        /\ aggregate[k].successful <= aggregate[k].total
        /\ aggregate[k].total + Cardinality(QueuedFor(tracking, k)) <= Cardinality(overlappers[k])
  <2> SUFFICES ASSUME NEW k \in AggregateKeys
               PROVE  /\ aggregate[k].successful <= aggregate[k].total
                      /\ aggregate[k].total + Cardinality(QueuedFor(tracking, k)) <= Cardinality(overlappers[k])
    OBVIOUS
  <2>1. Cardinality(QueuedFor(tracking, k)) = 0 /\ Cardinality(overlappers[k]) = 0
    BY <1>1, <1>3, <1>4
  <2>2. aggregate[k].total = 0 /\ aggregate[k].successful = 0
    BY <1>2
  <2> QED BY <2>1, <2>2
<1>7. /\ \A k \in RouterTiers : Cardinality(CountedFor(tracking, k)) <= aggregate[k].total
      /\ aggregate["all"].total = Cardinality(TrackedOf(tracking))
  BY <1>2, <1>3, <1>4, <1>5
<1> QED BY <1>1, <1>2, <1>5, <1>6, <1>7 DEF CountInv

(* A call moves to another stage, ... *)
LEMMA TrackingMoves ==
  ASSUME CountInv, NEW t \in Trackings, NEW s \in TrackStages \ {"new"}, NEW tier \in RouterTiers,
         NEW ok \in BOOLEAN,
         tracking' = [tracking EXCEPT ![t] = [stage |-> s, tier |-> tier, success |-> ok]]
  PROVE  /\ tracking' \in [Trackings -> TrackCalls]
         /\ tracking'[t].stage = s /\ tracking'[t].tier = tier
         /\ \A u \in Trackings : u # t => tracking'[u] = tracking[u]
         /\ \A u \in Trackings : tracking'[u].stage # "new" => tracking'[u].tier \in RouterTiers
<1>0. tracking \in [Trackings -> TrackCalls]
  BY DEF CountInv
<1>1. [stage |-> s, tier |-> tier, success |-> ok] \in TrackCalls
  BY DEF TrackCalls
<1>2. /\ tracking' \in [Trackings -> TrackCalls]
      /\ tracking'[t] = [stage |-> s, tier |-> tier, success |-> ok]
      /\ \A u \in Trackings : u # t => tracking'[u] = tracking[u]
  BY <1>0, <1>1
<1>3. tracking'[t].stage = s /\ tracking'[t].tier = tier
  BY <1>2
<1>4. \A u \in Trackings : tracking'[u].stage # "new" => tracking'[u].tier \in RouterTiers
  BY <1>2, <1>3 DEF CountInv
<1> QED BY <1>2, <1>3, <1>4

(* ... and joins or leaves each of the sets; nobody else does. *)
LEMMA CallsMove ==
  ASSUME NEW t \in Trackings, tracking[t].stage = "new" \/ tracking'[t].tier = tracking[t].tier,
         \A u \in Trackings : u # t => tracking'[u] = tracking[u]
  PROVE  /\ \A k : Cardinality(QueuedFor(tracking', k)) =
                  After(Cardinality(QueuedFor(tracking, k)), IsQueued(tracking[t].stage, tracking'[t].tier, k), IsQueued(tracking'[t].stage, tracking'[t].tier, k))
         /\ \A k : Cardinality(CountedFor(tracking', k)) =
                  After(Cardinality(CountedFor(tracking, k)), IsCounted(tracking[t].stage, tracking'[t].tier, k), IsCounted(tracking'[t].stage, tracking'[t].tier, k))
         /\ Cardinality(TrackedOf(tracking')) =
              After(Cardinality(TrackedOf(tracking)), tracking[t].stage = "tracked", tracking'[t].stage = "tracked")
<1>f. IsFiniteSet(Trackings)
  BY RouterAssumptions
<1>1. ASSUME NEW S \in SUBSET Trackings, NEW T \in SUBSET Trackings,
             \A x \in Trackings : x # t => (x \in S <=> x \in T)
      PROVE  Cardinality(T) = After(Cardinality(S), t \in S, t \in T)
  BY <1>f, <1>1, OneChanges DEF After
<1>2. ASSUME NEW k
      PROVE  Cardinality(QueuedFor(tracking', k)) =
               After(Cardinality(QueuedFor(tracking, k)), IsQueued(tracking[t].stage, tracking'[t].tier, k), IsQueued(tracking'[t].stage, tracking'[t].tier, k))
  <2>1. QueuedFor(tracking, k) \in SUBSET Trackings /\ QueuedFor(tracking', k) \in SUBSET Trackings
    BY DEF QueuedFor
  <2>2. \A x \in Trackings : x # t => (x \in QueuedFor(tracking, k) <=> x \in QueuedFor(tracking', k))
    BY DEF QueuedFor
  <2>3. (t \in QueuedFor(tracking, k) <=> IsQueued(tracking[t].stage, tracking'[t].tier, k)) /\ (t \in QueuedFor(tracking', k) <=> IsQueued(tracking'[t].stage, tracking'[t].tier, k))
    BY DEF QueuedFor, IsQueued
  <2>4. Cardinality(QueuedFor(tracking', k)) =
          After(Cardinality(QueuedFor(tracking, k)), t \in QueuedFor(tracking, k), t \in QueuedFor(tracking', k))
    BY <1>1, <2>1, <2>2
  <2> QED BY <2>3, <2>4 DEF After
<1>3. ASSUME NEW k
      PROVE  Cardinality(CountedFor(tracking', k)) =
               After(Cardinality(CountedFor(tracking, k)), IsCounted(tracking[t].stage, tracking'[t].tier, k), IsCounted(tracking'[t].stage, tracking'[t].tier, k))
  <2>1. CountedFor(tracking, k) \in SUBSET Trackings /\ CountedFor(tracking', k) \in SUBSET Trackings
    BY DEF CountedFor
  <2>2. \A x \in Trackings : x # t => (x \in CountedFor(tracking, k) <=> x \in CountedFor(tracking', k))
    BY DEF CountedFor
  <2>3. (t \in CountedFor(tracking, k) <=> IsCounted(tracking[t].stage, tracking'[t].tier, k)) /\ (t \in CountedFor(tracking', k) <=> IsCounted(tracking'[t].stage, tracking'[t].tier, k))
    BY DEF CountedFor, IsCounted
  <2>4. Cardinality(CountedFor(tracking', k)) =
          After(Cardinality(CountedFor(tracking, k)), t \in CountedFor(tracking, k), t \in CountedFor(tracking', k))
    BY <1>1, <2>1, <2>2
  <2> QED BY <2>3, <2>4 DEF After
<1>4. Cardinality(TrackedOf(tracking')) = After(Cardinality(TrackedOf(tracking)), tracking[t].stage = "tracked", tracking'[t].stage = "tracked")
  <2>1. TrackedOf(tracking) \in SUBSET Trackings /\ TrackedOf(tracking') \in SUBSET Trackings
    BY DEF TrackedOf
  <2>2. \A x \in Trackings : x # t => (x \in TrackedOf(tracking) <=> x \in TrackedOf(tracking'))
    BY DEF TrackedOf
  <2>3. (t \in TrackedOf(tracking) <=> tracking[t].stage = "tracked") /\ (t \in TrackedOf(tracking') <=> tracking'[t].stage = "tracked")
    BY DEF TrackedOf
  <2>4. Cardinality(TrackedOf(tracking')) =
          After(Cardinality(TrackedOf(tracking)), t \in TrackedOf(tracking), t \in TrackedOf(tracking'))
    BY <1>1, <2>1, <2>2
  <2> QED BY <2>3, <2>4 DEF After
<1> QED BY <1>2, <1>3, <1>4

(* Every step of a tracked request keeps the invariant. *)
LEMMA CountInvStep ==
  ASSUME CountInv, [TrackNext]_trackVars
  PROVE  CountInv'
<1>0. /\ aggregate \in [AggregateKeys -> [total : Nat, successful : Nat]]
      /\ tracking \in [Trackings -> TrackCalls]
      /\ \A t \in Trackings : tracking[t].stage # "new" => tracking[t].tier \in RouterTiers
      /\ overlappers \in [AggregateKeys -> SUBSET Trackings]
  BY DEF CountInv
<1>o. /\ \A k \in RouterTiers : \A t \in overlappers[k] : tracking[t].stage \notin {"new", "tier"}
      /\ \A t \in overlappers["all"] : tracking[t].stage \in {"allQueued", "tracked", "raised"}
  BY DEF CountInv
<1>n. /\ \A k \in AggregateKeys :
           /\ aggregate[k].successful <= aggregate[k].total
           /\ aggregate[k].total + Cardinality(QueuedFor(tracking, k)) <= Cardinality(overlappers[k])
      /\ \A k \in RouterTiers : Cardinality(CountedFor(tracking, k)) <= aggregate[k].total
      /\ aggregate["all"].total = Cardinality(TrackedOf(tracking))
  BY DEF CountInv
<1>k. "all" \in AggregateKeys /\ "all" \notin RouterTiers /\ \A k \in RouterTiers : k \in AggregateKeys
  BY RouterAssumptions DEF AggregateKeys
<1>a. \A k \in AggregateKeys : aggregate[k].total \in Nat /\ aggregate[k].successful \in Nat
  BY <1>0
<1>c. \A k \in AggregateKeys :
        /\ Cardinality(QueuedFor(tracking, k)) \in Nat /\ Cardinality(CountedFor(tracking, k)) \in Nat
        /\ Cardinality(TrackedOf(tracking)) \in Nat /\ Cardinality(overlappers[k]) \in Nat
  BY <1>0, CallsAreFinite
<1>1. ASSUME NEW t \in Trackings, NEW tier \in RouterTiers, NEW ok \in BOOLEAN, TrackRequest(t, tier, ok)
      PROVE  CountInv'
  <2>1. /\ tracking' = [tracking EXCEPT ![t] = [stage |-> "tier", tier |-> tier, success |-> ok]]
        /\ tracking[t].stage = "new" /\ aggregate' = aggregate /\ overlappers' = overlappers
    BY <1>1 DEF TrackRequest
  <2>2. "tier" \in TrackStages \ {"new"}
    BY DEF TrackStages
  <2>3. /\ tracking' \in [Trackings -> TrackCalls] /\ tracking'[t].stage = "tier"
        /\ \A u \in Trackings : u # t => tracking'[u] = tracking[u]
        /\ \A u \in Trackings : tracking'[u].stage # "new" => tracking'[u].tier \in RouterTiers
        /\ tracking'[t].tier = tier
    BY <2>1, <2>2, TrackingMoves
  <2>m. /\ \A k : Cardinality(QueuedFor(tracking', k)) =
                 After(Cardinality(QueuedFor(tracking, k)), IsQueued("new", tier, k), IsQueued("tier", tier, k))
        /\ \A k : Cardinality(CountedFor(tracking', k)) =
                 After(Cardinality(CountedFor(tracking, k)), IsCounted("new", tier, k), IsCounted("tier", tier, k))
        /\ Cardinality(TrackedOf(tracking')) = After(Cardinality(TrackedOf(tracking)), "new" = "tracked", "tier" = "tracked")
    <3>1. /\ \A k : Cardinality(QueuedFor(tracking', k)) =
                   After(Cardinality(QueuedFor(tracking, k)), IsQueued(tracking[t].stage, tracking'[t].tier, k),
                         IsQueued(tracking'[t].stage, tracking'[t].tier, k))
          /\ \A k : Cardinality(CountedFor(tracking', k)) =
                   After(Cardinality(CountedFor(tracking, k)), IsCounted(tracking[t].stage, tracking'[t].tier, k),
                         IsCounted(tracking'[t].stage, tracking'[t].tier, k))
          /\ Cardinality(TrackedOf(tracking')) =
               After(Cardinality(TrackedOf(tracking)), tracking[t].stage = "tracked", tracking'[t].stage = "tracked")
      BY <2>1, <2>3, CallsMove
    <3> QED BY <2>1, <2>3, <3>1
  <2>c. /\ \A k : Cardinality(QueuedFor(tracking', k)) = Cardinality(QueuedFor(tracking, k))
        /\ \A k : Cardinality(CountedFor(tracking', k)) = Cardinality(CountedFor(tracking, k))
        /\ Cardinality(TrackedOf(tracking')) = Cardinality(TrackedOf(tracking))
    BY <2>m DEF After, IsQueued, IsCounted
  <2>4. \A k \in AggregateKeys : t \notin overlappers[k]
    BY <1>o, <2>1 DEF AggregateKeys
  <2>5. /\ \A k \in RouterTiers : \A u \in overlappers[k] : tracking'[u].stage \notin {"new", "tier"}
        /\ \A u \in overlappers["all"] : tracking'[u].stage \in {"allQueued", "tracked", "raised"}
    BY <1>0, <1>k, <1>o, <2>3, <2>4
  <2> QED BY <1>0, <1>n, <2>1, <2>3, <2>5, <2>c DEF CountInv
<1>s. ASSUME NEW t \in Trackings, tracking[t].stage # "new", NEW s \in TrackStages \ {"new"},
             tracking' = [tracking EXCEPT ![t].stage = s]
      PROVE  \E tier \in RouterTiers, ok \in BOOLEAN :
               /\ tier = tracking[t].tier /\ ok = tracking[t].success
               /\ tracking' = [tracking EXCEPT ![t] = [stage |-> s, tier |-> tier, success |-> ok]]
  <2>1. PICK tier \in RouterTiers, ok \in BOOLEAN, st \in TrackStages :
          tier = tracking[t].tier /\ ok = tracking[t].success /\ st = tracking[t].stage
    BY <1>0, <1>s DEF TrackCalls
  <2>2. tracking[t] = [stage |-> st, tier |-> tier, success |-> ok]
    BY <1>0, <2>1 DEF TrackCalls
  <2>3. [tracking[t] EXCEPT !.stage = s] = [stage |-> s, tier |-> tier, success |-> ok]
    BY <2>2
  <2>4. tracking' = [tracking EXCEPT ![t] = [tracking[t] EXCEPT !.stage = s]]
    BY <1>s
  <2> QED BY <2>1, <2>3, <2>4
<1>2. ASSUME NEW t \in Trackings, tracking[t].stage \notin {"new", "tracked", "raised"},
             tracking' = [tracking EXCEPT ![t].stage = "raised"],
             aggregate' = aggregate, overlappers' = overlappers
      PROVE  CountInv'
  <2>3. "raised" \in TrackStages \ {"new"}
    BY DEF TrackStages
  <2>1. PICK tier \in RouterTiers, ok \in BOOLEAN :
          /\ tier = tracking[t].tier /\ ok = tracking[t].success
          /\ tracking' = [tracking EXCEPT ![t] = [stage |-> "raised", tier |-> tier, success |-> ok]]
    BY <1>2, <1>s, <2>3
  <2>2. PICK old : old = tracking[t].stage
    OBVIOUS
  <2>m. /\ \A k : Cardinality(QueuedFor(tracking', k)) =
                 After(Cardinality(QueuedFor(tracking, k)), IsQueued(old, tier, k), IsQueued("raised", tier, k))
        /\ \A k : Cardinality(CountedFor(tracking', k)) =
                 After(Cardinality(CountedFor(tracking, k)), IsCounted(old, tier, k), IsCounted("raised", tier, k))
        /\ Cardinality(TrackedOf(tracking')) = After(Cardinality(TrackedOf(tracking)), old = "tracked", "raised" = "tracked")
    <3>0. tracking'[t].stage = "raised" /\ tracking'[t].tier = tier /\ \A u \in Trackings : u # t => tracking'[u] = tracking[u]
      BY <2>1, <2>3, TrackingMoves
    <3>1. /\ \A k : Cardinality(QueuedFor(tracking', k)) =
                   After(Cardinality(QueuedFor(tracking, k)), IsQueued(tracking[t].stage, tracking'[t].tier, k),
                         IsQueued(tracking'[t].stage, tracking'[t].tier, k))
          /\ \A k : Cardinality(CountedFor(tracking', k)) =
                   After(Cardinality(CountedFor(tracking, k)), IsCounted(tracking[t].stage, tracking'[t].tier, k),
                         IsCounted(tracking'[t].stage, tracking'[t].tier, k))
          /\ Cardinality(TrackedOf(tracking')) =
               After(Cardinality(TrackedOf(tracking)), tracking[t].stage = "tracked", tracking'[t].stage = "tracked")
      BY <2>1, <3>0, CallsMove
    <3> QED BY <2>2, <3>0, <3>1
  <2>4. /\ tracking' \in [Trackings -> TrackCalls] /\ tracking'[t].stage = "raised"
        /\ \A u \in Trackings : u # t => tracking'[u] = tracking[u]
        /\ \A u \in Trackings : tracking'[u].stage # "new" => tracking'[u].tier \in RouterTiers
    BY <2>1, <2>3, TrackingMoves
  <2>t. Cardinality(TrackedOf(tracking')) = Cardinality(TrackedOf(tracking))
    BY <1>2, <2>2, <2>m DEF After
  <2>5. \A k \in AggregateKeys :
          \/ Cardinality(QueuedFor(tracking', k)) = Cardinality(QueuedFor(tracking, k))
          \/ Cardinality(QueuedFor(tracking', k)) = Cardinality(QueuedFor(tracking, k)) - 1
    BY <2>m DEF After, IsQueued
  <2>6. \A k \in RouterTiers :
          \/ Cardinality(CountedFor(tracking', k)) = Cardinality(CountedFor(tracking, k))
          \/ Cardinality(CountedFor(tracking', k)) = Cardinality(CountedFor(tracking, k)) - 1
    BY <2>m DEF After, IsCounted
  <2>7. \A k \in AggregateKeys :
          aggregate[k].total + Cardinality(QueuedFor(tracking', k)) <= Cardinality(overlappers[k])
    BY <1>a, <1>c, <1>n, <2>5
  <2>8. \A k \in RouterTiers : Cardinality(CountedFor(tracking', k)) <= aggregate[k].total
    BY <1>a, <1>c, <1>k, <1>n, <2>6
  <2>9. /\ \A k \in RouterTiers : \A u \in overlappers[k] : tracking'[u].stage \notin {"new", "tier"}
        /\ \A u \in overlappers["all"] : tracking'[u].stage \in {"allQueued", "tracked", "raised"}
    BY <1>0, <1>k, <1>o, <2>4
  <2> QED BY <1>0, <1>2, <1>n, <2>4, <2>t, <2>7, <2>8, <2>9 DEF CountInv
<1>3. ASSUME NEW t \in Trackings, NEW s \in {"tierQueued", "allQueued"},
             tracking[t].stage = IF s = "tierQueued" THEN "tier" ELSE "all",
             tracking' = [tracking EXCEPT ![t].stage = s], aggregate' = aggregate,
             overlappers' = [overlappers EXCEPT ![IF s = "tierQueued" THEN tracking[t].tier ELSE "all"] = @ \cup {t}]
      PROVE  CountInv'
  <2>3. s \in TrackStages \ {"new"}
    BY DEF TrackStages
  <2>1. PICK tier \in RouterTiers, ok \in BOOLEAN :
          /\ tier = tracking[t].tier /\ ok = tracking[t].success
          /\ tracking' = [tracking EXCEPT ![t] = [stage |-> s, tier |-> tier, success |-> ok]]
    BY <1>3, <1>s, <2>3
  <2>2. PICK old : old = tracking[t].stage
    OBVIOUS
  <2>m. /\ \A k : Cardinality(QueuedFor(tracking', k)) =
                 After(Cardinality(QueuedFor(tracking, k)), IsQueued(old, tier, k), IsQueued(s, tier, k))
        /\ \A k : Cardinality(CountedFor(tracking', k)) =
                 After(Cardinality(CountedFor(tracking, k)), IsCounted(old, tier, k), IsCounted(s, tier, k))
        /\ Cardinality(TrackedOf(tracking')) = After(Cardinality(TrackedOf(tracking)), old = "tracked", s = "tracked")
    <3>0. tracking'[t].stage = s /\ tracking'[t].tier = tier /\ \A u \in Trackings : u # t => tracking'[u] = tracking[u]
      BY <2>1, <2>3, TrackingMoves
    <3>1. /\ \A k : Cardinality(QueuedFor(tracking', k)) =
                   After(Cardinality(QueuedFor(tracking, k)), IsQueued(tracking[t].stage, tracking'[t].tier, k),
                         IsQueued(tracking'[t].stage, tracking'[t].tier, k))
          /\ \A k : Cardinality(CountedFor(tracking', k)) =
                   After(Cardinality(CountedFor(tracking, k)), IsCounted(tracking[t].stage, tracking'[t].tier, k),
                         IsCounted(tracking'[t].stage, tracking'[t].tier, k))
          /\ Cardinality(TrackedOf(tracking')) =
               After(Cardinality(TrackedOf(tracking)), tracking[t].stage = "tracked", tracking'[t].stage = "tracked")
      BY <2>1, <3>0, CallsMove
    <3> QED BY <2>2, <3>0, <3>1
  <2>4. PICK key \in AggregateKeys : key = IF s = "tierQueued" THEN tier ELSE "all"
    BY <1>k
  <2>5. /\ overlappers' \in [AggregateKeys -> SUBSET Trackings] /\ overlappers'[key] = overlappers[key] \cup {t}
        /\ \A k \in AggregateKeys : k # key => overlappers'[k] = overlappers[k]
    BY <1>0, <1>3, <2>1, <2>4
  <2>6. t \notin overlappers[key]
    BY <1>3, <1>o, <2>4
  <2>7. Cardinality(overlappers'[key]) = Cardinality(overlappers[key]) + 1
    <3>1. IsFiniteSet(overlappers[key])
      BY <1>0, CallsAreFinite
    <3> QED BY <2>5, <2>6, <3>1, FS_AddElement
  <2>8. /\ tracking' \in [Trackings -> TrackCalls] /\ tracking'[t].stage = s
        /\ \A u \in Trackings : u # t => tracking'[u] = tracking[u]
        /\ \A u \in Trackings : tracking'[u].stage # "new" => tracking'[u].tier \in RouterTiers
    BY <2>1, <2>3, TrackingMoves
  <2>t. Cardinality(TrackedOf(tracking')) = Cardinality(TrackedOf(tracking))
    BY <1>3, <2>2, <2>m DEF After
  <2>9. \A k \in AggregateKeys :
          Cardinality(QueuedFor(tracking', k)) =
            IF k = key THEN Cardinality(QueuedFor(tracking, k)) + 1 ELSE Cardinality(QueuedFor(tracking, k))
    <3>1. \A k \in AggregateKeys : ~IsQueued(old, tier, k) /\ (IsQueued(s, tier, k) <=> k = key)
      BY <1>3, <1>k, <2>2, <2>4 DEF IsQueued
    <3> QED BY <2>m, <3>1 DEF After
  <2>10. \A k \in RouterTiers : Cardinality(CountedFor(tracking', k)) = Cardinality(CountedFor(tracking, k))
    <3>1. \A k \in RouterTiers : IsCounted(old, tier, k) <=> IsCounted(s, tier, k)
      BY <1>3, <2>2 DEF IsCounted
    <3> QED BY <2>m, <3>1 DEF After
  <2>11. \A k \in AggregateKeys :
           aggregate[k].total + Cardinality(QueuedFor(tracking', k)) <= Cardinality(overlappers'[k])
    <3> SUFFICES ASSUME NEW k \in AggregateKeys
                 PROVE  aggregate[k].total + Cardinality(QueuedFor(tracking', k)) <= Cardinality(overlappers'[k])
      OBVIOUS
    <3>0. /\ aggregate[k].total \in Nat /\ Cardinality(QueuedFor(tracking, k)) \in Nat
          /\ Cardinality(overlappers[k]) \in Nat
          /\ aggregate[k].total + Cardinality(QueuedFor(tracking, k)) <= Cardinality(overlappers[k])
      BY <1>a, <1>c, <1>n
    <3>1. CASE k = key
      <4>1. /\ Cardinality(overlappers'[k]) = Cardinality(overlappers[k]) + 1
            /\ Cardinality(QueuedFor(tracking', k)) = Cardinality(QueuedFor(tracking, k)) + 1
        BY <2>7, <2>9, <3>1
      <4>2. \A x, y, z \in Int : x + y <= z => x + (y + 1) <= z + 1
        OBVIOUS
      <4>3. aggregate[k].total + (Cardinality(QueuedFor(tracking, k)) + 1) <= Cardinality(overlappers[k]) + 1
        BY <3>0, <4>2
      <4> QED BY <4>1, <4>3
    <3>2. CASE k # key
      BY <2>5, <2>9, <3>0, <3>2
    <3> QED BY <3>1, <3>2
  <2>12. /\ \A k \in RouterTiers : \A u \in overlappers'[k] : tracking'[u].stage \notin {"new", "tier"}
         /\ \A u \in overlappers'["all"] : tracking'[u].stage \in {"allQueued", "tracked", "raised"}
    <3>1. ASSUME NEW k \in RouterTiers, NEW u \in overlappers'[k] PROVE tracking'[u].stage \notin {"new", "tier"}
      <4>1. u \in Trackings /\ (u = t \/ u \in overlappers[k])
        BY <1>k, <2>5, <3>1
      <4> QED BY <1>o, <2>8, <4>1
    <3>2. ASSUME NEW u \in overlappers'["all"] PROVE tracking'[u].stage \in {"allQueued", "tracked", "raised"}
      <4>1. u \in Trackings /\ (u \in overlappers["all"] \/ (u = t /\ key = "all"))
        BY <1>k, <2>5, <3>2
      <4>2. key = "all" => s = "allQueued"
        BY <1>k, <2>4
      <4>3. t \in overlappers["all"] => FALSE
        BY <1>3, <1>o
      <4> QED BY <1>o, <2>8, <4>1, <4>2, <4>3
    <3> QED BY <3>1, <3>2
  <2> QED BY <1>0, <1>3, <1>n, <2>5, <2>8, <2>t, <2>10, <2>11, <2>12 DEF CountInv
<1>4. ASSUME NEW t \in Trackings, ReadAggregate(t) PROVE CountInv'
  <2>1. tracking[t].stage \in {"tier", "all"} /\ aggregate' = aggregate
    BY <1>4 DEF ReadAggregate
  <2>2. KeyOf(t) = IF tracking[t].stage = "tier" THEN tracking[t].tier ELSE "all"
    BY <2>1 DEF KeyOf
  <2>3. CASE aggregate[KeyOf(t)].total > 0
    BY <1>2, <1>4, <2>1, <2>3 DEF ReadAggregate
  <2>4. CASE ~(aggregate[KeyOf(t)].total > 0)
    <3>1. /\ tracking' = [tracking EXCEPT ![t].stage = IF @ = "tier" THEN "tierQueued" ELSE "allQueued"]
          /\ overlappers' = [overlappers EXCEPT ![KeyOf(t)] = @ \cup {t}]
      BY <1>4, <2>4 DEF ReadAggregate
    <3>2. CASE tracking[t].stage = "tier"
      <4>1. tracking' = [tracking EXCEPT ![t].stage = "tierQueued"]
        BY <3>1, <3>2
      <4>2. overlappers' = [overlappers EXCEPT ![tracking[t].tier] = @ \cup {t}]
        BY <2>2, <3>1, <3>2
      <4> QED BY <1>3, <2>1, <3>2, <4>1, <4>2
    <3>3. CASE tracking[t].stage = "all"
      <4>1. tracking' = [tracking EXCEPT ![t].stage = "allQueued"]
        BY <3>1, <3>3
      <4>2. overlappers' = [overlappers EXCEPT !["all"] = @ \cup {t}]
        BY <2>2, <3>1, <3>3
      <4> QED BY <1>3, <2>1, <3>3, <4>1, <4>2
    <3> QED BY <2>1, <3>2, <3>3
  <2> QED BY <2>3, <2>4
<1>5. ASSUME NEW t \in Trackings, ExecutePipeline(t) PROVE CountInv'
  <2>0. tracking[t].stage \in {"tierQueued", "allQueued"} /\ overlappers' = overlappers
    BY <1>5 DEF ExecutePipeline
  <2>2. PICK s \in {"all", "tracked"} : s = IF tracking[t].stage = "tierQueued" THEN "all" ELSE "tracked"
    OBVIOUS
  <2>9. s \in TrackStages \ {"new"}
    BY DEF TrackStages
  <2>3. tracking' = [tracking EXCEPT ![t].stage = s] /\ tracking[t].stage # "new"
    BY <1>5, <2>0, <2>2 DEF ExecutePipeline
  <2>1. PICK tier \in RouterTiers, ok \in BOOLEAN :
          /\ tier = tracking[t].tier /\ ok = tracking[t].success
          /\ tracking' = [tracking EXCEPT ![t] = [stage |-> s, tier |-> tier, success |-> ok]]
    BY <1>s, <2>3, <2>9
  <2>o. PICK old : old = tracking[t].stage
    OBVIOUS
  <2>m. /\ \A k : Cardinality(QueuedFor(tracking', k)) =
                 After(Cardinality(QueuedFor(tracking, k)), IsQueued(old, tier, k), IsQueued(s, tier, k))
        /\ \A k : Cardinality(CountedFor(tracking', k)) =
                 After(Cardinality(CountedFor(tracking, k)), IsCounted(old, tier, k), IsCounted(s, tier, k))
        /\ Cardinality(TrackedOf(tracking')) = After(Cardinality(TrackedOf(tracking)), old = "tracked", s = "tracked")
    <3>0. tracking'[t].stage = s /\ tracking'[t].tier = tier /\ \A u \in Trackings : u # t => tracking'[u] = tracking[u]
      BY <2>1, <2>9, TrackingMoves
    <3>1. /\ \A k : Cardinality(QueuedFor(tracking', k)) =
                   After(Cardinality(QueuedFor(tracking, k)), IsQueued(tracking[t].stage, tracking'[t].tier, k),
                         IsQueued(tracking'[t].stage, tracking'[t].tier, k))
          /\ \A k : Cardinality(CountedFor(tracking', k)) =
                   After(Cardinality(CountedFor(tracking, k)), IsCounted(tracking[t].stage, tracking'[t].tier, k),
                         IsCounted(tracking'[t].stage, tracking'[t].tier, k))
          /\ Cardinality(TrackedOf(tracking')) =
               After(Cardinality(TrackedOf(tracking)), tracking[t].stage = "tracked", tracking'[t].stage = "tracked")
      BY <2>1, <3>0, CallsMove
    <3> QED BY <2>o, <3>0, <3>1
  <2>4. PICK key \in AggregateKeys : key = IF tracking[t].stage = "tierQueued" THEN tier ELSE "all"
    BY <1>k
  <2>5. KeyOf(t) = key
    BY <2>0, <2>1, <2>4 DEF KeyOf
  <2>6. /\ Counts(key, ok).total = aggregate[key].total + 1 /\ Counts(key, ok).total \in Nat
        /\ Counts(key, ok).successful \in Nat /\ Counts(key, ok).successful <= Counts(key, ok).total
        /\ Counts(key, ok) \in [total : Nat, successful : Nat]
    <3>1. PICK i \in {0, 1} : i = IF ok THEN 1 ELSE 0
      OBVIOUS
    <3>2. Counts(key, ok) = [total |-> aggregate[key].total + 1, successful |-> aggregate[key].successful + i]
      BY <3>1 DEF Counts
    <3>3. /\ aggregate[key].total + 1 \in Nat /\ aggregate[key].successful + i \in Nat
          /\ aggregate[key].successful + i <= aggregate[key].total + 1
      BY <1>a, <1>n
    <3> QED BY <3>2, <3>3
  <2>7. aggregate' = [aggregate EXCEPT ![key] = Counts(key, ok)]
    BY <1>5, <2>1, <2>5 DEF ExecutePipeline
  <2>8. /\ aggregate' \in [AggregateKeys -> [total : Nat, successful : Nat]]
        /\ aggregate'[key] = Counts(key, ok)
        /\ \A k \in AggregateKeys : k # key => aggregate'[k] = aggregate[k]
    BY <1>0, <2>6, <2>7
  <2>10. /\ tracking' \in [Trackings -> TrackCalls] /\ tracking'[t].stage = s
         /\ \A u \in Trackings : u # t => tracking'[u] = tracking[u]
         /\ \A u \in Trackings : tracking'[u].stage # "new" => tracking'[u].tier \in RouterTiers
    BY <2>1, <2>9, TrackingMoves
  <2>11. \A k \in AggregateKeys :
           Cardinality(QueuedFor(tracking', k)) =
             IF k = key THEN Cardinality(QueuedFor(tracking, k)) - 1 ELSE Cardinality(QueuedFor(tracking, k))
    <3>1. \A k \in AggregateKeys : (IsQueued(old, tier, k) <=> k = key) /\ ~IsQueued(s, tier, k)
      BY <1>k, <2>0, <2>2, <2>4, <2>o DEF IsQueued
    <3> QED BY <2>m, <3>1 DEF After
  <2>12. \A k \in RouterTiers :
           Cardinality(CountedFor(tracking', k)) =
             IF k = key THEN Cardinality(CountedFor(tracking, k)) + 1 ELSE Cardinality(CountedFor(tracking, k))
    <3>1. \A k \in RouterTiers : IF k = key THEN ~IsCounted(old, tier, k) /\ IsCounted(s, tier, k)
                                 ELSE IsCounted(old, tier, k) <=> IsCounted(s, tier, k)
      BY <1>k, <2>0, <2>2, <2>4, <2>o DEF IsCounted
    <3> QED BY <2>m, <3>1 DEF After
  <2>13. Cardinality(TrackedOf(tracking')) =
           IF key = "all" THEN Cardinality(TrackedOf(tracking)) + 1 ELSE Cardinality(TrackedOf(tracking))
    <3>1. old # "tracked" /\ (s = "tracked" <=> key = "all")
      BY <1>k, <2>0, <2>2, <2>4, <2>o
    <3> QED BY <2>m, <3>1 DEF After
  <2>14. \A k \in AggregateKeys :
           /\ aggregate'[k].successful <= aggregate'[k].total
           /\ aggregate'[k].total + Cardinality(QueuedFor(tracking', k)) <= Cardinality(overlappers[k])
    <3> SUFFICES ASSUME NEW k \in AggregateKeys
                 PROVE  /\ aggregate'[k].successful <= aggregate'[k].total
                        /\ aggregate'[k].total + Cardinality(QueuedFor(tracking', k)) <= Cardinality(overlappers[k])
      OBVIOUS
    <3>1. CASE k = key
      BY <1>a, <1>c, <1>n, <2>6, <2>8, <2>11, <3>1
    <3>2. CASE k # key
      BY <1>n, <2>8, <2>11, <3>2
    <3> QED BY <3>1, <3>2
  <2>15. \A k \in RouterTiers : Cardinality(CountedFor(tracking', k)) <= aggregate'[k].total
    <3> SUFFICES ASSUME NEW k \in RouterTiers
                 PROVE  Cardinality(CountedFor(tracking', k)) <= aggregate'[k].total
      OBVIOUS
    <3>1. CASE k = key
      BY <1>a, <1>c, <1>n, <2>6, <2>8, <2>12, <3>1
    <3>2. CASE k # key
      BY <1>k, <1>n, <2>8, <2>12, <3>2
    <3> QED BY <3>1, <3>2
  <2>16. aggregate'["all"].total = Cardinality(TrackedOf(tracking'))
    BY <1>k, <1>n, <2>6, <2>8, <2>13
  <2>17. /\ \A k \in RouterTiers : \A u \in overlappers[k] : tracking'[u].stage \notin {"new", "tier"}
         /\ \A u \in overlappers["all"] : tracking'[u].stage \in {"allQueued", "tracked", "raised"}
    <3>1. \A k \in RouterTiers : \A u \in overlappers[k] : u \in Trackings
      BY <1>0, <1>k
    <3>2. \A u \in overlappers["all"] : u \in Trackings
      BY <1>0, <1>k
    <3>3. t \in overlappers["all"] => s = "tracked"
      BY <1>o, <2>2
    <3> QED BY <1>o, <2>10, <3>1, <3>2, <3>3
  <2> QED BY <1>0, <2>0, <2>8, <2>10, <2>14, <2>15, <2>16, <2>17 DEF CountInv
<1>6. ASSUME NEW t \in Trackings, TrackFails(t) PROVE CountInv'
  BY <1>2, <1>6 DEF TrackFails
<1>7. CASE UNCHANGED trackVars
  BY <1>7 DEF trackVars, CountInv, QueuedFor, CountedFor, TrackedOf
<1> QED BY <1>1, <1>4, <1>5, <1>6, <1>7 DEF TrackNext

(* The invariant says what the run checks of the aggregates. *)
LEMMA CountsExactly == CountInv => CountsAreExact
<1> SUFFICES ASSUME CountInv PROVE CountsAreExact
  OBVIOUS
<1>1. \A k \in AggregateKeys : aggregate[k].total \in Nat /\ overlappers[k] \in SUBSET Trackings
  BY DEF CountInv
<1>2. \A k \in AggregateKeys : aggregate[k].total <= Cardinality(overlappers[k])
  <2> SUFFICES ASSUME NEW k \in AggregateKeys PROVE aggregate[k].total <= Cardinality(overlappers[k])
    OBVIOUS
  <2>1. aggregate[k].total + Cardinality(QueuedFor(tracking, k)) <= Cardinality(overlappers[k])
    BY DEF CountInv
  <2>2. Cardinality(QueuedFor(tracking, k)) \in Nat /\ Cardinality(overlappers[k]) \in Nat
    BY <1>1, CallsAreFinite
  <2> QED BY <1>1, <2>1, <2>2
<1>3. \A k \in RouterTiers :
        Cardinality({t \in Trackings : tracking[t].stage = "tracked" /\ tracking[t].tier = k})
          <= aggregate[k].total
  <2> SUFFICES ASSUME NEW k \in RouterTiers
               PROVE  Cardinality({t \in Trackings : tracking[t].stage = "tracked" /\ tracking[t].tier = k})
                        <= aggregate[k].total
    OBVIOUS
  <2> DEFINE S == {t \in Trackings : tracking[t].stage = "tracked" /\ tracking[t].tier = k}
  <2>1. S \subseteq CountedFor(tracking, k) /\ CountedFor(tracking, k) \in SUBSET Trackings /\ S \in SUBSET Trackings
    BY DEF CountedFor
  <2> HIDE DEF S
  <2>2. IsFiniteSet(CountedFor(tracking, k)) /\ Cardinality(S) \in Nat /\ Cardinality(CountedFor(tracking, k)) \in Nat
    BY <2>1, CallsAreFinite
  <2>3. Cardinality(S) <= Cardinality(CountedFor(tracking, k))
    BY <2>1, <2>2, FS_Subset
  <2>4. Cardinality(CountedFor(tracking, k)) <= aggregate[k].total /\ aggregate[k].total \in Nat
    BY <1>1 DEF CountInv, AggregateKeys
  <2>5. Cardinality(S) <= aggregate[k].total
    BY <2>2, <2>3, <2>4
  <2> QED BY <2>5 DEF S
<1> QED BY <1>2, <1>3 DEF CountsAreExact, CountInv, TrackedOf

(* The scores of a schema and of a model. *)
LEMMA ScoresGrow == ScoresAreMonotone
<1>1. ASSUME NEW n \in 0 .. 10, NEW r \in 0 .. n - 1
      PROVE  /\ Strictness(r, n, 0) <= Strictness(r + 1, n, 0)
             /\ Strictness(r, n, 1) = IF Strictness(r, n, 0) = 3 THEN 2 ELSE Strictness(r, n, 0)
  BY DEF Strictness
<1>2. ASSUME NEW t \in {4, 5, 8, 9, 32, 33}, NEW c \in 0 .. 9
      PROVE  ModelFor(t, c) <= ModelFor(t + 1, c) /\ ModelFor(t, c) <= ModelFor(t, c + 1)
  BY DEF ModelFor
<1> QED BY <1>1, <1>2 DEF ScoresAreMonotone

-----------------------------------------------------------------------------
(* The executions of a runbook.  One that shares its id with no other is alone with its
   record; its loop and its rollback walk the list of steps, upwards and then downwards. *)

BookRecord == [status : {"none", "pending", "running", "completed", "failed"},
               executed : Seq(1 .. BookSteps)]
BookRunner == [stage : {"none", "created", "step", "rollback", "ended", "cancelled"},
               uses : BookRuns \cup {0}, at : 0 .. BookSteps]

BookTypes ==
  /\ rollbackAvailable \in BOOLEAN
  /\ entryOf \in [BookRuns -> BookRuns \cup {0}]
  /\ record \in [BookRuns -> BookRecord] /\ runner \in [BookRuns -> BookRunner]
  /\ undone \in [BookRuns -> Seq(1 .. BookSteps)]
  /\ shared \subseteq BookRuns

\* Whoever uses the record of another shares its id.
OwnRecords ==
  \A x \in BookRuns :
    /\ entryOf[x] = 0 <=> runner[x].stage = "none"
    /\ runner[x].stage = "none" => x \notin shared
    /\ entryOf[x] \notin {0, x} => x \in shared /\ entryOf[x] \in shared
    /\ runner[x].stage \in {"step", "rollback"} => runner[x].uses # 0 /\ runner[x].at # 0
    /\ runner[x].uses \notin {0, x} => x \in shared /\ runner[x].uses \in shared

\* The steps of done are in the order of the list, each after those it depends on.
InOrder(done) ==
  /\ \A i, j \in DOMAIN done : i < j => done[i] < done[j]
  /\ \A i \in DOMAIN done : BookDeps[done[i]] \subseteq {done[k] : k \in 1 .. i - 1}

\* Of the first n steps those left out lack a dependency among the ones before.
LeftOut(done, n) ==
  \A s \in 1 .. n : s \notin ToSet(done) =>
    \E d \in BookDeps[s] : d \notin {e \in ToSet(done) : e < s}

\* The rollback has come down to step n.
DownTo(u, done, n) ==
  /\ \A i, j \in DOMAIN u : i < j => u[j] < u[i]
  /\ ToSet(u) = {s \in ToSet(done) \cap WithRollback : s >= n}

ExecutionOk(doer, rec, u) ==
  /\ InOrder(rec.executed)
  /\ doer.stage = "none" => rec.executed = <<>> /\ rec.status = "none" /\ u = <<>>
  /\ doer.stage = "created" => rec.executed = <<>> /\ rec.status = "pending" /\ u = <<>>
  /\ doer.stage = "step" =>
       /\ rec.status = "running" /\ u = <<>>
       /\ doer.at \in 1 .. BookSteps /\ \A i \in DOMAIN rec.executed : rec.executed[i] < doer.at
       /\ BookDeps[doer.at] \subseteq ToSet(rec.executed)
       /\ LeftOut(rec.executed, doer.at - 1)
  /\ doer.stage = "rollback" =>
       /\ rec.status = "running" /\ rollbackAvailable
       /\ doer.at \in ToSet(rec.executed) \cap WithRollback
       /\ DownTo(u, rec.executed, doer.at + 1)
  /\ doer.stage = "cancelled" => rec.status \in {"pending", "running"}
  /\ rec.status = "failed" =>
       IF rollbackAvailable THEN DownTo(u, rec.executed, 1) ELSE u = <<>>
  /\ rec.status = "completed" => u = <<>> /\ LeftOut(rec.executed, BookSteps)

BookInv ==
  /\ BookTypes /\ OwnRecords
  /\ \A x \in BookRuns \ shared : ExecutionOk(runner[x], record[x], undone[x])

(* What a sequence is made of. *)
LEMMA ElementsOf ==
  ASSUME NEW T, NEW q \in Seq(T)
  PROVE  /\ \A i \in DOMAIN q : i \in Nat /\ q[i] \in T
         /\ \A e \in ToSet(q) : e \in T
<1>1. DOMAIN q = 1 .. Len(q) /\ Len(q) \in Nat
  BY LenProperties
<1>2. \A i \in 1 .. Len(q) : q[i] \in T
  BY ElementOfSeq
<1>3. \A i \in 1 .. Len(q) : i \in Nat
  OBVIOUS
<1> QED BY <1>1, <1>2, <1>3 DEF ToSet

\* Nothing has run.
LEMMA BookStarts == BookInit => BookInv
<1> SUFFICES ASSUME BookInit PROVE BookInv
  OBVIOUS
<1> USE RunbookAssumptions
<1>1. BookTypes
  BY EmptySeq DEF BookInit, BookTypes, BookRecord, BookRunner
<1>2. OwnRecords
  BY DEF BookInit, OwnRecords
<1>3. ASSUME NEW x \in BookRuns PROVE ExecutionOk(runner[x], record[x], undone[x])
  BY DEF BookInit, ExecutionOk, InOrder
<1> QED BY <1>1, <1>2, <1>3 DEF BookInv

(* What has been executed in order and undone downwards is what RollbackIsExact says. *)
LEMMA RunbooksAreExact == BookInv => RollbackIsExact
<1> SUFFICES ASSUME BookInv, NEW x \in BookRuns \ shared
             PROVE  LET done == record[x].executed
                    IN  /\ IsInjective(done)
                        /\ \A i \in DOMAIN done : BookDeps[done[i]] \subseteq {done[k] : k \in 1 .. i - 1}
                        /\ record[x].status = "failed" =>
                             IF rollbackAvailable THEN UndoesLatestFirst(undone[x], done)
                             ELSE undone[x] = <<>>
                        /\ record[x].status = "completed" =>
                             /\ undone[x] = <<>>
                             /\ \A s \in (1..BookSteps) \ ToSet(done) :
                                  \E d \in BookDeps[s] : d \notin {e \in ToSet(done) : e < s}
  BY DEF RollbackIsExact
<1> DEFINE done == record[x].executed  u == undone[x]
<1>1. done \in Seq(1 .. BookSteps) /\ u \in Seq(1 .. BookSteps)
  BY DEF BookInv, BookTypes, BookRecord
<1>2. ExecutionOk(runner[x], record[x], u)
  BY DEF BookInv
<1>3. InOrder(done)
  BY <1>2 DEF ExecutionOk
<1>n. BookSteps \in Nat
  BY RunbookAssumptions
<1> DEFINE T == 1 .. BookSteps
<1>s. \A q \in Seq(T) : \A i \in DOMAIN q : i \in Nat /\ q[i] \in T
  <2> HIDE DEF T
  <2> QED BY ElementsOf
<1>4. \A i \in DOMAIN done : i \in Nat /\ done[i] \in 1 .. BookSteps /\ done[i] \in Int
  BY <1>1, <1>n, <1>s
<1>5. \A i \in DOMAIN u : i \in Nat /\ u[i] \in Int
  BY <1>1, <1>n, <1>s
<1>6. IsInjective(done)
  <2> SUFFICES ASSUME NEW i \in DOMAIN done, NEW j \in DOMAIN done, done[i] = done[j] PROVE i = j
    BY DEF IsInjective
  <2>1. ~(i < j) /\ ~(j < i)
    BY <1>3, <1>4 DEF InOrder
  <2> QED BY <1>4, <2>1
<1>7. record[x].status = "failed" /\ rollbackAvailable => UndoesLatestFirst(u, done)
  <2> SUFFICES ASSUME DownTo(u, done, 1) PROVE UndoesLatestFirst(u, done)
    BY <1>2 DEF ExecutionOk
  <2>1. \A s \in ToSet(done) : s >= 1
    <3> HIDE DEF done
    <3> QED BY <1>4, <1>n DEF ToSet
  <2>2. ToSet(u) = ToSet(done) \cap WithRollback
    BY <2>1 DEF DownTo
  <2>3. ASSUME NEW i \in DOMAIN u, NEW j \in DOMAIN u, NEW k \in DOMAIN done, NEW l \in DOMAIN done,
               i < j, done[k] = u[i], done[l] = u[j]
        PROVE  l < k
    <3>1. done[l] < done[k]
      BY <2>3 DEF DownTo
    <3>2. ~(k < l) /\ k # l
      BY <1>3, <1>4, <3>1 DEF InOrder
    <3> QED BY <1>4, <3>2
  <2> QED BY <2>2, <2>3 DEF UndoesLatestFirst
<1>8. record[x].status = "completed" => u = <<>> /\ LeftOut(done, BookSteps)
  BY <1>2 DEF ExecutionOk
<1>9. record[x].status = "failed" /\ ~rollbackAvailable => u = <<>>
  BY <1>2 DEF ExecutionOk
<1> HIDE DEF done, u
<1> QED BY <1>3, <1>6, <1>7, <1>8, <1>9 DEF InOrder, LeftOut, done, u

\* A nonempty set of positions has a first and a last one.
LEMMA FirstPosition ==
  ASSUME NEW S \in SUBSET Nat, S # {}
  PROVE  FirstOf(S) \in S /\ \A t \in S : FirstOf(S) <= t
<1>1. \E s \in S : \A t \in S : s <= t
  BY FirstFailure
<1> QED BY <1>1 DEF FirstOf

(* The last position of a bounded set is the one nearest to the bound. *)
LEMMA LastPosition ==
  ASSUME NEW n \in Nat, NEW S \in SUBSET (1 .. n), S # {}
  PROVE  LastOf(S) \in S /\ \A t \in S : LastOf(S) >= t
<1> DEFINE Q == {n - s : s \in S}
<1>1. Q \in SUBSET Nat /\ Q # {}
  <2>1. \A s \in S : n - s \in Nat
    OBVIOUS
  <2> QED BY <2>1
<1>2. PICK q \in Q : \A k \in Q : q <= k
  BY <1>1, FirstFailure
<1>3. PICK s \in S : q = n - s
  BY <1>2
<1>4. \A t \in S : n - s <= n - t
  BY <1>2, <1>3
<1>5. \A t \in S : s >= t
  BY <1>4
<1> QED BY <1>3, <1>5 DEF LastOf

(* The positions that the loop over the steps has left. *)
LEMMA LoopGoesOn ==
  ASSUME NEW done \in Seq(1 .. BookSteps), NEW i \in 0 .. BookSteps,
         \A k \in DOMAIN done : done[k] <= i, LeftOut(done, i)
  PROVE  LET next == Eligible(i, ToSet(done))
         IN  /\ next = {} => LeftOut(done, BookSteps)
             /\ next # {} =>
                  /\ FirstOf(next) \in 1 .. BookSteps
                  /\ \A k \in DOMAIN done : done[k] < FirstOf(next)
                  /\ BookDeps[FirstOf(next)] \subseteq ToSet(done)
                  /\ LeftOut(done, FirstOf(next) - 1)
<1> DEFINE next == Eligible(i, ToSet(done))
<1>0. BookSteps \in Nat
  BY RunbookAssumptions
<1>1. ASSUME NEW n \in 0 .. BookSteps, \A s \in next : s > n
      PROVE  LeftOut(done, n)
  <2> SUFFICES ASSUME NEW s \in 1 .. n, s \notin ToSet(done)
               PROVE  \E d \in BookDeps[s] : d \notin {e \in ToSet(done) : e < s}
    BY DEF LeftOut
  <2>1. CASE s \in 1 .. i
    BY <2>1 DEF LeftOut
  <2>2. CASE s \in (i + 1) .. BookSteps
    <3>1. s \notin next
      BY <1>0, <1>1
    <3>2. ~ (BookDeps[s] \subseteq ToSet(done))
      BY <2>2, <3>1 DEF Eligible, DependenciesMet
    <3> QED BY <3>2
  <2> QED BY <1>0, <2>1, <2>2
<1>2. next \in SUBSET ((i + 1) .. BookSteps) /\ \A s \in next : BookDeps[s] \subseteq ToSet(done)
  BY DEF Eligible, DependenciesMet
<1>3. CASE next = {}
  BY <1>0, <1>1, <1>3
<1>4. CASE next # {}
  <2>0. next \in SUBSET Nat
    BY <1>0, <1>2
  <2>1. FirstOf(next) \in next /\ \A s \in next : FirstOf(next) <= s
    BY <1>4, <2>0, FirstPosition
  <2> DEFINE f == FirstOf(next)
  <2>2. f \in (i + 1) .. BookSteps /\ BookDeps[f] \subseteq ToSet(done)
    BY <1>2, <2>1
  <2>3. \A s \in next : s \in Nat /\ f <= s
    BY <2>0, <2>1
  <2>4. \A k \in DOMAIN done : done[k] \in Nat
    BY <1>0
  <2> HIDE DEF next, f
  <2>5. f - 1 \in 0 .. BookSteps /\ \A s \in next : s > f - 1
    BY <1>0, <2>2, <2>3
  <2>6. LeftOut(done, f - 1)
    BY <1>1, <2>5
  <2>7. f \in 1 .. BookSteps /\ \A k \in DOMAIN done : done[k] < f
    BY <1>0, <2>2, <2>4
  <2> QED BY <1>4, <2>2, <2>6, <2>7 DEF f, next
<1> QED BY <1>3, <1>4

(* The elements of a sequence that grows. *)
LEMMA ElementsAppended ==
  ASSUME NEW T, NEW q \in Seq(T), NEW e \in T
  PROVE  /\ ToSet(Append(q, e)) = ToSet(q) \cup {e}
         /\ ToSet(q) = {q[k] : k \in 1 .. Len(q)}
         /\ Append(q, e) \in Seq(T) /\ DOMAIN q = 1 .. Len(q) /\ Len(q) \in Nat
         /\ DOMAIN Append(q, e) = 1 .. (Len(q) + 1)
         /\ \A k \in 1 .. Len(q) : Append(q, e)[k] = q[k]
         /\ Append(q, e)[Len(q) + 1] = e
<1>1. DOMAIN q = 1 .. Len(q) /\ Len(q) \in Nat
  BY LenProperties
<1>2. /\ Append(q, e) \in Seq(T) /\ DOMAIN Append(q, e) = 1 .. (Len(q) + 1)
      /\ \A k \in 1 .. Len(q) : Append(q, e)[k] = q[k]
      /\ Append(q, e)[Len(q) + 1] = e
  BY AppendProperties, <1>1
<1> DEFINE w == Append(q, e)
<1> HIDE DEF w
<1>3. ToSet(w) = ToSet(q) \cup {e}
  BY <1>1, <1>2 DEF ToSet, w
<1> QED BY <1>1, <1>2, <1>3 DEF ToSet, w

(* A step that succeeds is added to those executed. *)
LEMMA StepAdded ==
  ASSUME NEW done \in Seq(1 .. BookSteps), NEW s \in 1 .. BookSteps, InOrder(done),
         \A k \in DOMAIN done : done[k] < s, BookDeps[s] \subseteq ToSet(done), LeftOut(done, s - 1)
  PROVE  /\ InOrder(Append(done, s)) /\ LeftOut(Append(done, s), s)
         /\ \A k \in DOMAIN Append(done, s) : Append(done, s)[k] <= s
<1> DEFINE more == Append(done, s)  n == Len(done)
<1>0. BookSteps \in Nat
  BY RunbookAssumptions
<1>1. /\ ToSet(more) = ToSet(done) \cup {s} /\ ToSet(done) = {done[k] : k \in 1 .. n}
      /\ more \in Seq(1 .. BookSteps) /\ DOMAIN done = 1 .. n /\ n \in Nat
      /\ DOMAIN more = 1 .. (n + 1) /\ \A k \in 1 .. n : more[k] = done[k]
      /\ more[n + 1] = s
  <2> DEFINE T == 1 .. BookSteps
  <2> HIDE DEF T
  <2>1. done \in Seq(T) /\ s \in T
    BY DEF T
  <2>2. more \in Seq(T) => more \in Seq(1 .. BookSteps)
    BY DEF T
  <2> QED BY <2>1, <2>2, ElementsAppended
<1>2. \A k \in 1 .. n : done[k] \in Nat /\ done[k] < s
  BY <1>0, <1>1
<1>3. s \in Nat
  BY <1>0
<1> HIDE DEF more, n
<1>4. \A k \in DOMAIN more : more[k] <= s
  BY <1>1, <1>2, <1>3
<1>5. InOrder(more)
  <2>1. ASSUME NEW i \in DOMAIN more, NEW j \in DOMAIN more, i < j PROVE more[i] < more[j]
    <3>1. i \in 1 .. n
      BY <1>1, <2>1
    <3>2. CASE j \in 1 .. n
      BY <1>1, <2>1, <3>1, <3>2 DEF InOrder
    <3>3. CASE j = n + 1
      BY <1>1, <1>2, <3>1, <3>3
    <3> QED BY <1>1, <3>2, <3>3
  <2>2. ASSUME NEW i \in DOMAIN more
        PROVE  BookDeps[more[i]] \subseteq {more[k] : k \in 1 .. i - 1}
    <3>1. CASE i \in 1 .. n
      <4>1. BookDeps[done[i]] \subseteq {done[k] : k \in 1 .. i - 1}
        BY <1>1, <3>1 DEF InOrder
      <4>2. \A k \in 1 .. i - 1 : done[k] = more[k]
        BY <1>1, <3>1
      <4> QED BY <1>1, <3>1, <4>1, <4>2
    <3>2. CASE i = n + 1
      <4>1. i - 1 = n
        BY <1>1, <3>2
      <4> QED BY <1>1, <3>2, <4>1
    <3> QED BY <1>1, <3>1, <3>2
  <2> QED BY <2>1, <2>2 DEF InOrder
<1>6. LeftOut(more, s)
  <2> SUFFICES ASSUME NEW t \in 1 .. s, t \notin ToSet(more)
               PROVE  \E d \in BookDeps[t] : d \notin {e \in ToSet(more) : e < t}
    BY DEF LeftOut
  <2>1. t \in 1 .. s - 1 /\ t \notin ToSet(done)
    BY <1>1, <1>3
  <2>2. PICK d \in BookDeps[t] : d \notin {e \in ToSet(done) : e < t}
    BY <2>1 DEF LeftOut
  <2>3. d \notin {e \in ToSet(more) : e < t}
    BY <1>1, <1>3, <2>1, <2>2
  <2> QED BY <2>3
<1> QED BY <1>4, <1>5, <1>6 DEF more

\* What has been executed are steps.
LEMMA StepsDone ==
  ASSUME NEW done \in Seq(1 .. BookSteps)
  PROVE  \A s \in ToSet(done) : s \in 1 .. BookSteps
<1> DEFINE T == 1 .. BookSteps
<1> HIDE DEF T
<1>1. done \in Seq(T)
  BY DEF T
<1>2. \A s \in ToSet(done) : s \in T
  BY <1>1, ElementsOf
<1> QED BY <1>2 DEF T

(* The rollback goes down the list. *)
LEMMA RollbackGoesDown ==
  ASSUME NEW done \in Seq(1 .. BookSteps), NEW u, NEW i \in 1 .. BookSteps + 1, DownTo(u, done, i)
  PROVE  LET left == {s \in 1 .. (i - 1) : s \in ToSet(done) /\ s \in WithRollback}
         IN  /\ left = {} => DownTo(u, done, 1)
             /\ left # {} =>
                  /\ LastOf(left) \in 1 .. BookSteps
                  /\ LastOf(left) \in ToSet(done) \cap WithRollback
                  /\ DownTo(u, done, LastOf(left) + 1)
<1> DEFINE left == {s \in 1 .. (i - 1) : s \in ToSet(done) /\ s \in WithRollback}
<1>0. BookSteps \in Nat
  BY RunbookAssumptions
<1>1. \A s \in ToSet(done) : s \in 1 .. BookSteps
  BY StepsDone
<1>2. ASSUME NEW n \in 1 .. BookSteps + 1, n <= i, \A s \in left : s < n
      PROVE  DownTo(u, done, n)
  <2>1. ASSUME NEW s \in ToSet(done) \cap WithRollback PROVE s >= n <=> s >= i
    <3>1. s \in 1 .. BookSteps /\ (s >= n => s \notin left)
      BY <1>0, <1>1, <1>2
    <3> QED BY <1>0, <1>2, <3>1
  <2> QED BY <2>1 DEF DownTo
<1>3. CASE left = {}
  BY <1>0, <1>2, <1>3
<1>4. CASE left # {}
  <2>1. left \in SUBSET (1 .. BookSteps)
    BY <1>0
  <2>2. LastOf(left) \in left /\ \A s \in left : LastOf(left) >= s
    BY <1>0, <1>4, <2>1, LastPosition
  <2> DEFINE l == LastOf(left)
  <2>3. l \in 1 .. (i - 1) /\ l \in ToSet(done) \cap WithRollback /\ l \in 1 .. BookSteps
    BY <2>1, <2>2
  <2>4. \A s \in left : s \in Nat /\ l >= s
    BY <1>0, <2>1, <2>2
  <2> HIDE DEF left, l
  <2>5. l + 1 \in 1 .. BookSteps + 1 /\ l + 1 <= i /\ \A s \in left : s < l + 1
    BY <1>0, <2>3, <2>4
  <2>6. DownTo(u, done, l + 1)
    BY <1>2, <2>5
  <2> QED BY <1>4, <2>3, <2>6 DEF l, left
<1> QED BY <1>3, <1>4

(* A rollback script that ends is added to those run. *)
LEMMA UndoAdded ==
  ASSUME NEW done \in Seq(1 .. BookSteps), NEW u \in Seq(1 .. BookSteps), NEW s \in 1 .. BookSteps,
         s \in ToSet(done) \cap WithRollback, DownTo(u, done, s + 1)
  PROVE  DownTo(Append(u, s), done, s)
<1> DEFINE more == Append(u, s)  n == Len(u)
<1>0. BookSteps \in Nat
  BY RunbookAssumptions
<1>1. /\ ToSet(more) = ToSet(u) \cup {s} /\ ToSet(u) = {u[k] : k \in 1 .. n}
      /\ DOMAIN u = 1 .. n /\ n \in Nat
      /\ DOMAIN more = 1 .. (n + 1) /\ \A k \in 1 .. n : more[k] = u[k]
      /\ more[n + 1] = s
  <2> DEFINE T == 1 .. BookSteps
  <2> HIDE DEF T
  <2>1. u \in Seq(T) /\ s \in T
    BY DEF T
  <2> QED BY <2>1, ElementsAppended
<1>2. \A x \in ToSet(done) : x \in Nat
  BY <1>0, StepsDone
<1>3. s \in Nat
  BY <1>0
<1> HIDE DEF more, n
<1>4. \A k \in 1 .. n : u[k] > s
  <2>1. \A x \in ToSet(u) : x >= s + 1 /\ x \in Nat
    BY <1>2 DEF DownTo
  <2> SUFFICES ASSUME NEW k \in 1 .. n PROVE u[k] > s
    OBVIOUS
  <2>2. u[k] \in ToSet(u)
    BY <1>1
  <2>3. u[k] >= s + 1 /\ u[k] \in Nat
    BY <2>1, <2>2
  <2> QED BY <1>3, <2>3
<1>5. ASSUME NEW i \in DOMAIN more, NEW j \in DOMAIN more, i < j PROVE more[j] < more[i]
  <2>1. i \in 1 .. n
    BY <1>1, <1>5
  <2>2. CASE j \in 1 .. n
    BY <1>1, <1>5, <2>1, <2>2 DEF DownTo
  <2>3. CASE j = n + 1
    BY <1>1, <1>3, <1>4, <2>1, <2>3
  <2> QED BY <1>1, <2>2, <2>3
<1>6. ToSet(more) = {x \in ToSet(done) \cap WithRollback : x >= s}
  <2>1. ToSet(u) = {x \in ToSet(done) \cap WithRollback : x >= s + 1}
    BY DEF DownTo
  <2>2. \A x \in ToSet(done) : x >= s <=> x = s \/ x >= s + 1
    BY <1>2, <1>3
  <2> QED BY <1>1, <2>1, <2>2
<1> QED BY <1>5, <1>6 DEF DownTo, more

\* The loop's next step, or its end, changes the record in use and the task only.
LEMMA GoOnSays ==
  ASSUME BookTypes, NEW x \in BookRuns, NEW r \in BookRuns, NEW rec \in BookRecord,
         NEW i \in 0 .. BookSteps, GoOn(x, r, rec, i)
  PROVE  LET next == Eligible(i, ToSet(rec.executed))
         IN  /\ record' \in [BookRuns -> BookRecord] /\ runner' \in [BookRuns -> BookRunner]
             /\ \A y \in BookRuns : y # r => record'[y] = record[y]
             /\ \A y \in BookRuns : y # x => runner'[y] = runner[y]
             /\ runner'[x].uses = r /\ record'[r].executed = rec.executed
             /\ \/ next = {} /\ runner'[x].stage = "ended" /\ record'[r].status = "completed"
                \/ /\ next # {} /\ runner'[x].stage = "step" /\ record'[r].status = rec.status
                   /\ runner'[x].at = FirstOf(next) /\ runner'[x].at # 0
<1> DEFINE next == Eligible(i, ToSet(rec.executed))  f == FirstOf(next)
<1>0. record \in [BookRuns -> BookRecord] /\ runner \in [BookRuns -> BookRunner] /\ BookSteps \in Nat
  BY RunbookAssumptions DEF BookTypes
<1>1. next # {} => f \in 0 .. BookSteps /\ f # 0
  <2>1. next \in SUBSET (1 .. BookSteps)
    BY <1>0 DEF Eligible
  <2>2. next \in SUBSET Nat
    BY <2>1, <1>0
  <2>3. next # {} => f \in next
    BY <2>2, FirstPosition
  <2> QED BY <1>0, <2>1, <2>3
<1>2. i \in 0 .. BookSteps /\ r \in BookRuns \cup {0}
  BY <1>0
<1> HIDE DEF next, f
<1>3. CASE next = {}
  <2>1. /\ record' = [record EXCEPT ![r] = [rec EXCEPT !.status = "completed"]]
        /\ runner' = [runner EXCEPT ![x] = [stage |-> "ended", uses |-> r, at |-> i]]
    BY <1>3 DEF GoOn, next
  <2>2. /\ [rec EXCEPT !.status = "completed"] \in BookRecord
        /\ [rec EXCEPT !.status = "completed"].executed = rec.executed
        /\ [rec EXCEPT !.status = "completed"].status = "completed"
    BY DEF BookRecord
  <2>3. [stage |-> "ended", uses |-> r, at |-> i] \in BookRunner
    BY <1>2 DEF BookRunner
  <2> QED BY <1>0, <1>3, <2>1, <2>2, <2>3 DEF next
<1>4. CASE next # {}
  <2>1. /\ record' = [record EXCEPT ![r] = rec]
        /\ runner' = [runner EXCEPT ![x] = [stage |-> "step", uses |-> r, at |-> f]]
    BY <1>4 DEF GoOn, next, f
  <2>2. [stage |-> "step", uses |-> r, at |-> f] \in BookRunner
    BY <1>1, <1>2, <1>4 DEF BookRunner
  <2> QED BY <1>0, <1>1, <1>4, <2>1, <2>2 DEF next, f
<1> QED BY <1>3, <1>4

\* The rollback's next script, or its end, changes the record in use and the task only.
LEMMA RollBackSays ==
  ASSUME BookTypes, NEW x \in BookRuns, NEW i \in 0 .. BookSteps + 1, runner[x].uses \in BookRuns,
         RollBackFrom(x, i)
  PROVE  LET left == ToRollBack(x, i)
             r == runner[x].uses
         IN  /\ record' \in [BookRuns -> BookRecord] /\ runner' \in [BookRuns -> BookRunner]
             /\ \A y \in BookRuns : y # r => record'[y] = record[y]
             /\ \A y \in BookRuns : y # x => runner'[y] = runner[y]
             /\ runner'[x].uses = r /\ record'[r].executed = record[r].executed
             /\ \/ left = {} /\ runner'[x].stage = "ended" /\ record'[r].status = "failed"
                \/ /\ left # {} /\ runner'[x].stage = "rollback"
                   /\ record'[r].status = record[r].status /\ runner'[x].at = LastOf(left)
                   /\ runner'[x].at # 0
<1> DEFINE left == ToRollBack(x, i)  r == runner[x].uses  l == LastOf(left)
<1>0. record \in [BookRuns -> BookRecord] /\ runner \in [BookRuns -> BookRunner] /\ BookSteps \in Nat
  BY RunbookAssumptions DEF BookTypes
<1>1. left # {} => l \in 0 .. BookSteps /\ l # 0
  <2>1. left \in SUBSET (1 .. BookSteps)
    BY <1>0 DEF ToRollBack
  <2>2. left # {} => l \in left
    BY <1>0, <2>1, LastPosition
  <2> QED BY <1>0, <2>1, <2>2
<1>2. record[r] \in BookRecord /\ runner[x] \in BookRunner /\ r \in BookRuns
  BY <1>0
<1> HIDE DEF left, r, l
<1>3. CASE left = {}
  <2>1. /\ record' = [record EXCEPT ![r].status = "failed"]
        /\ runner' = [runner EXCEPT ![x].stage = "ended"]
    BY <1>3 DEF RollBackFrom, left, r
  <2>2. /\ [record[r] EXCEPT !.status = "failed"] \in BookRecord
        /\ [record[r] EXCEPT !.status = "failed"].executed = record[r].executed
        /\ [record[r] EXCEPT !.status = "failed"].status = "failed"
    BY <1>2 DEF BookRecord
  <2>3. /\ [runner[x] EXCEPT !.stage = "ended"] \in BookRunner
        /\ [runner[x] EXCEPT !.stage = "ended"].uses = runner[x].uses
        /\ [runner[x] EXCEPT !.stage = "ended"].stage = "ended"
    BY <1>2 DEF BookRunner
  <2> QED BY <1>0, <1>2, <1>3, <2>1, <2>2, <2>3 DEF left, r
<1>4. CASE left # {}
  <2>1. record' = record /\ runner' = [runner EXCEPT ![x].stage = "rollback", ![x].at = l]
    BY <1>4 DEF RollBackFrom, left, l
  <2>2. /\ [runner[x] EXCEPT !.stage = "rollback", !.at = l] \in BookRunner
        /\ [runner[x] EXCEPT !.stage = "rollback", !.at = l].uses = runner[x].uses
        /\ [runner[x] EXCEPT !.stage = "rollback", !.at = l].stage = "rollback"
        /\ [runner[x] EXCEPT !.stage = "rollback", !.at = l].at = l
    BY <1>1, <1>2, <1>4 DEF BookRunner
  <2>3. /\ runner'[x] = [runner[x] EXCEPT !.stage = "rollback", !.at = l]
        /\ runner' \in [BookRuns -> BookRunner]
        /\ \A y \in BookRuns : y # x => runner'[y] = runner[y]
    BY <1>0, <2>1, <2>2
  <2> QED BY <1>0, <1>1, <1>2, <1>4, <2>1, <2>2, <2>3 DEF left, r, l
<1> QED BY <1>3, <1>4

\* An execution is started: those that now share its id are noted.
LEMMA ExecuteKeeps ==
  ASSUME BookInv, NEW x \in BookRuns, NEW same \in BOOLEAN, ExecuteRunbook(x, same)
  PROVE  BookInv'
<1> DEFINE earlier == {y \in BookRuns : same /\ entryOf[y] # 0 /\ entryOf[y] = entryOf[x - 1]}
           sharers == earlier \cup {x}
<1>0. BookTypes /\ OwnRecords /\ record[x] \in BookRecord /\ runner[x] \in BookRunner
  BY DEF BookInv, BookTypes
<1>1. /\ entryOf' = [y \in BookRuns |-> IF y \in sharers THEN x ELSE entryOf[y]]
      /\ shared' = IF same THEN shared \cup sharers ELSE shared
      /\ record' = [record EXCEPT ![x].status = "pending"]
      /\ runner' = [runner EXCEPT ![x].stage = "created"]
      /\ rollbackAvailable' = rollbackAvailable /\ undone' = undone
      /\ runner[x].stage = "none"
  BY DEF ExecuteRunbook
<1>2. sharers \in SUBSET BookRuns /\ (~same => sharers = {x}) /\ 0 \notin BookRuns
  BY RunbookAssumptions
<1> HIDE DEF sharers
<1>3. /\ [record[x] EXCEPT !.status = "pending"] \in BookRecord
      /\ [record[x] EXCEPT !.status = "pending"].executed = record[x].executed
      /\ [record[x] EXCEPT !.status = "pending"].status = "pending"
  BY <1>0 DEF BookRecord
<1>4. /\ [runner[x] EXCEPT !.stage = "created"] \in BookRunner
      /\ [runner[x] EXCEPT !.stage = "created"].uses = runner[x].uses
      /\ [runner[x] EXCEPT !.stage = "created"].at = runner[x].at
      /\ [runner[x] EXCEPT !.stage = "created"].stage = "created"
  BY <1>0 DEF BookRunner
<1>5. /\ record' \in [BookRuns -> BookRecord] /\ runner' \in [BookRuns -> BookRunner]
      /\ \A y \in BookRuns : y # x => record'[y] = record[y] /\ runner'[y] = runner[y]
      /\ record'[x].executed = record[x].executed /\ record'[x].status = "pending"
      /\ runner'[x].uses = runner[x].uses /\ runner'[x].stage = "created"
  BY <1>0, <1>1, <1>3, <1>4 DEF BookTypes
<1>6. BookTypes'
  BY <1>0, <1>1, <1>2, <1>5 DEF BookTypes
<1>7. OwnRecords'
  <2> SUFFICES ASSUME NEW y \in BookRuns
               PROVE  /\ entryOf'[y] = 0 <=> runner'[y].stage = "none"
                      /\ runner'[y].stage = "none" => y \notin shared'
                      /\ entryOf'[y] \notin {0, y} => y \in shared' /\ entryOf'[y] \in shared'
                      /\ runner'[y].stage \in {"step", "rollback"} =>
                           runner'[y].uses # 0 /\ runner'[y].at # 0
                      /\ runner'[y].uses \notin {0, y} => y \in shared' /\ runner'[y].uses \in shared'
    BY DEF OwnRecords
  <2>1. y \in sharers /\ y # x => same /\ entryOf[y] # 0
    BY DEF sharers
  <2>2. entryOf'[y] = IF y \in sharers THEN x ELSE entryOf[y]
    BY <1>1
  <2>3. shared \subseteq shared' /\ (same => sharers \subseteq shared') /\ x \in sharers
    BY <1>1 DEF sharers
  <2>4. shared' \subseteq shared \cup sharers /\ (~same => shared' = shared)
    BY <1>1
  <2> QED BY <1>0, <1>2, <1>5, <2>1, <2>2, <2>3, <2>4 DEF OwnRecords
<1>8. ASSUME NEW y \in BookRuns \ shared'
      PROVE  ExecutionOk(runner'[y], record'[y], undone'[y]) /\ rollbackAvailable' = rollbackAvailable
  <2>1. ExecutionOk(runner[y], record[y], undone[y])
    BY <1>1 DEF BookInv
  <2>2. CASE y # x
    BY <1>1, <1>5, <2>1, <2>2
  <2>3. CASE y = x
    <3>1. record[x].executed = <<>> /\ undone[x] = <<>> /\ InOrder(record[x].executed)
      BY <1>1, <2>1, <2>3 DEF ExecutionOk
    <3> QED BY <1>1, <1>5, <2>3, <3>1 DEF ExecutionOk
  <2> QED BY <1>1, <2>2, <2>3
<1>9. \A y \in BookRuns \ shared' : (ExecutionOk(runner[y], record[y], undone[y]))'
  BY <1>8 DEF ExecutionOk, DownTo, LeftOut, InOrder
<1> QED BY <1>6, <1>7, <1>9 DEF BookInv

(* A step of x that changes only its task and the record it uses keeps the types and who
   uses what, and touches nobody's own record but its own. *)
LEMMA StepStaysOwn ==
  ASSUME BookInv, NEW x \in BookRuns, NEW r \in BookRuns, r = x \/ {x, r} \subseteq shared,
         record' \in [BookRuns -> BookRecord], runner' \in [BookRuns -> BookRunner],
         undone' \in [BookRuns -> Seq(1 .. BookSteps)],
         \A y \in BookRuns : y # r => record'[y] = record[y],
         \A y \in BookRuns : y # x => runner'[y] = runner[y] /\ undone'[y] = undone[y],
         runner[x].stage # "none", runner'[x].stage # "none",
         \/ runner'[x].uses = r
         \/ runner'[x].stage = "cancelled" /\ runner'[x].uses = runner[x].uses,
         runner'[x].stage \in {"step", "rollback"} => runner'[x].at # 0,
         UNCHANGED <<rollbackAvailable, entryOf, shared>>,
         x \notin shared => ExecutionOk(runner'[x], record'[x], undone'[x])
  PROVE  BookInv'
<1>0. BookTypes /\ OwnRecords /\ 0 \notin BookRuns
  BY RunbookAssumptions DEF BookInv
<1>1. BookTypes'
  BY <1>0 DEF BookTypes
<1>2. OwnRecords'
  <2> SUFFICES ASSUME NEW y \in BookRuns
               PROVE  /\ entryOf'[y] = 0 <=> runner'[y].stage = "none"
                      /\ runner'[y].stage = "none" => y \notin shared'
                      /\ entryOf'[y] \notin {0, y} => y \in shared' /\ entryOf'[y] \in shared'
                      /\ runner'[y].stage \in {"step", "rollback"} =>
                           runner'[y].uses # 0 /\ runner'[y].at # 0
                      /\ runner'[y].uses \notin {0, y} => y \in shared' /\ runner'[y].uses \in shared'
    BY DEF OwnRecords
  <2>1. CASE y = x
    BY <1>0, <2>1 DEF OwnRecords
  <2>2. CASE y # x
    BY <1>0, <2>2 DEF OwnRecords
  <2> QED BY <2>1, <2>2
<1>3. ASSUME NEW y \in BookRuns \ shared' PROVE ExecutionOk(runner'[y], record'[y], undone'[y])
  <2>1. ExecutionOk(runner[y], record[y], undone[y]) /\ y \notin shared
    BY DEF BookInv
  <2> QED BY <2>1
<1>4. \A y \in BookRuns \ shared' : (ExecutionOk(runner[y], record[y], undone[y]))'
  BY <1>3 DEF ExecutionOk, DownTo, LeftOut, InOrder
<1> QED BY <1>1, <1>2, <1>4 DEF BookInv

\* Whoever runs uses its own record, unless it shares its id.
LEMMA UsesOwn ==
  ASSUME BookInv, NEW x \in BookRuns
  PROVE  /\ runner[x].stage \in {"step", "rollback"} =>
              /\ runner[x].uses \in BookRuns
              /\ runner[x].uses = x \/ {x, runner[x].uses} \subseteq shared
              /\ runner[x].at \in 1 .. BookSteps
         /\ runner[x].stage # "none" =>
              /\ entryOf[x] \in BookRuns
              /\ entryOf[x] = x \/ {x, entryOf[x]} \subseteq shared
<1>1. runner[x] \in BookRunner /\ entryOf[x] \in BookRuns \cup {0}
  BY DEF BookInv, BookTypes
<1>2. runner[x].uses \in BookRuns \cup {0} /\ runner[x].at \in 0 .. BookSteps
  BY <1>1 DEF BookRunner
<1>3. BookSteps \in Nat
  BY RunbookAssumptions
<1> QED BY <1>1, <1>2, <1>3 DEF BookInv, OwnRecords

\* _execute_runbook_steps begins.
LEMMA StartRunnerKeeps ==
  ASSUME BookInv, NEW x \in BookRuns, StartRunner(x)
  PROVE  BookInv'
<1> DEFINE r == entryOf[x]  rec == [record[r] EXCEPT !.status = "running"]
<1>0. BookTypes /\ BookSteps \in Nat /\ undone \in [BookRuns -> Seq(1 .. BookSteps)]
  BY RunbookAssumptions DEF BookInv, BookTypes
<1>1. runner[x].stage = "created" /\ GoOn(x, r, rec, 0)
      /\ UNCHANGED <<rollbackAvailable, entryOf, undone, shared>>
  BY DEF StartRunner
<1>2. r \in BookRuns /\ (r = x \/ {x, r} \subseteq shared)
  BY <1>1, UsesOwn
<1>3. rec \in BookRecord /\ rec.executed = record[r].executed /\ rec.status = "running"
      /\ record[r].executed \in Seq(1 .. BookSteps)
  BY <1>0, <1>2 DEF BookTypes, BookRecord
<1>z. 0 \in 0 .. BookSteps
  BY <1>0
<1> DEFINE next == Eligible(0, ToSet(rec.executed))
<1> HIDE DEF r, rec
<1>4. /\ record' \in [BookRuns -> BookRecord] /\ runner' \in [BookRuns -> BookRunner]
      /\ \A y \in BookRuns : y # r => record'[y] = record[y]
      /\ \A y \in BookRuns : y # x => runner'[y] = runner[y]
      /\ runner'[x].uses = r /\ record'[r].executed = rec.executed
      /\ \/ next = {} /\ runner'[x].stage = "ended" /\ record'[r].status = "completed"
         \/ /\ next # {} /\ runner'[x].stage = "step" /\ record'[r].status = rec.status
            /\ runner'[x].at = FirstOf(next) /\ runner'[x].at # 0
  BY <1>0, <1>1, <1>2, <1>3, <1>z, GoOnSays
<1>5. ASSUME x \notin shared PROVE ExecutionOk(runner'[x], record'[x], undone'[x])
  <2>1. r = x /\ record[x].executed = <<>> /\ undone[x] = <<>> /\ InOrder(record[x].executed)
    BY <1>1, <1>2, <1>5 DEF BookInv, ExecutionOk
  <2>2. LeftOut(record[x].executed, 0) /\ DOMAIN record[x].executed = {}
    BY <2>1, EmptySeq DEF LeftOut
  <2>3. /\ next = {} => LeftOut(record[x].executed, BookSteps)
        /\ next # {} =>
             /\ FirstOf(next) \in 1 .. BookSteps
             /\ \A k \in DOMAIN record[x].executed : record[x].executed[k] < FirstOf(next)
             /\ BookDeps[FirstOf(next)] \subseteq ToSet(record[x].executed)
             /\ LeftOut(record[x].executed, FirstOf(next) - 1)
    BY <1>0, <1>3, <1>z, <2>1, <2>2, LoopGoesOn
  <2> HIDE DEF next
  <2> QED BY <1>1, <1>3, <1>4, <2>1, <2>3 DEF ExecutionOk
<1> HIDE DEF next
<1> QED BY <1>0, <1>1, <1>2, <1>4, <1>5, StepStaysOwn

\* A step succeeds and the loop goes on.
LEMMA StepSucceedsKeeps ==
  ASSUME BookInv, NEW x \in BookRuns, StepSucceeds(x)
  PROVE  BookInv'
<1> DEFINE r == runner[x].uses  at == runner[x].at
           rec == [record[r] EXCEPT !.executed = Append(@, at)]
<1>0. BookTypes /\ BookSteps \in Nat /\ undone \in [BookRuns -> Seq(1 .. BookSteps)]
  BY RunbookAssumptions DEF BookInv, BookTypes
<1>1. runner[x].stage = "step" /\ GoOn(x, r, rec, at)
      /\ UNCHANGED <<rollbackAvailable, entryOf, undone, shared>>
  BY DEF StepSucceeds
<1>2. r \in BookRuns /\ (r = x \/ {x, r} \subseteq shared)
  BY <1>1, UsesOwn
<1>3. at \in 1 .. BookSteps /\ at \in 0 .. BookSteps
  BY <1>0, <1>1, UsesOwn
<1>4. /\ record[r] \in BookRecord /\ record[r].executed \in Seq(1 .. BookSteps)
      /\ Append(record[r].executed, at) \in Seq(1 .. BookSteps)
  <2>1. record[r] \in BookRecord /\ record[r].executed \in Seq(1 .. BookSteps)
    BY <1>0, <1>2 DEF BookTypes, BookRecord
  <2> DEFINE T == 1 .. BookSteps
  <2> HIDE DEF T, at, r
  <2>2. record[r].executed \in Seq(T) /\ at \in T
    BY <1>3, <2>1 DEF T
  <2>3. Append(record[r].executed, at) \in Seq(T)
    BY <2>2, ElementsAppended
  <2> QED BY <2>1, <2>3 DEF T
<1>5. /\ rec \in BookRecord /\ rec.executed = Append(record[r].executed, at)
      /\ rec.status = record[r].status /\ rec.executed \in Seq(1 .. BookSteps)
  <2> HIDE DEF r, at
  <2> QED BY <1>4 DEF BookRecord
<1> DEFINE next == Eligible(at, ToSet(rec.executed))
<1> HIDE DEF r, rec, at
<1>6. /\ record' \in [BookRuns -> BookRecord] /\ runner' \in [BookRuns -> BookRunner]
      /\ \A y \in BookRuns : y # r => record'[y] = record[y]
      /\ \A y \in BookRuns : y # x => runner'[y] = runner[y]
      /\ runner'[x].uses = r /\ record'[r].executed = rec.executed
      /\ \/ next = {} /\ runner'[x].stage = "ended" /\ record'[r].status = "completed"
         \/ /\ next # {} /\ runner'[x].stage = "step" /\ record'[r].status = rec.status
            /\ runner'[x].at = FirstOf(next) /\ runner'[x].at # 0
  BY <1>0, <1>1, <1>2, <1>3, <1>5, GoOnSays
<1>7. ASSUME x \notin shared PROVE ExecutionOk(runner'[x], record'[x], undone'[x])
  <2> DEFINE old == record[x].executed
  <2>1. /\ r = x /\ InOrder(old) /\ record[x].status = "running" /\ undone[x] = <<>>
        /\ \A k \in DOMAIN old : old[k] < at
        /\ BookDeps[at] \subseteq ToSet(old) /\ LeftOut(old, at - 1)
    BY <1>1, <1>2, <1>7 DEF BookInv, ExecutionOk, at
  <2>2. old \in Seq(1 .. BookSteps) /\ rec.executed = Append(old, at)
    BY <1>4, <1>5, <2>1
  <2> HIDE DEF old
  <2>3. /\ InOrder(rec.executed) /\ LeftOut(rec.executed, at)
        /\ \A k \in DOMAIN rec.executed : rec.executed[k] <= at
    BY <1>3, <2>1, <2>2, StepAdded
  <2>4. /\ next = {} => LeftOut(rec.executed, BookSteps)
        /\ next # {} =>
             /\ FirstOf(next) \in 1 .. BookSteps
             /\ \A k \in DOMAIN rec.executed : rec.executed[k] < FirstOf(next)
             /\ BookDeps[FirstOf(next)] \subseteq ToSet(rec.executed)
             /\ LeftOut(rec.executed, FirstOf(next) - 1)
    BY <1>3, <1>5, <2>3, LoopGoesOn
  <2> HIDE DEF next
  <2> QED BY <1>1, <1>5, <1>6, <2>1, <2>3, <2>4 DEF ExecutionOk
<1> HIDE DEF next
<1>8. \A y \in BookRuns : undone'[y] = undone[y]
  BY <1>1
<1>9. /\ r = x \/ {x, r} \subseteq shared
      /\ runner'[x].stage \in {"step", "rollback"} => runner'[x].at # 0
      /\ runner'[x].stage # "none"
  BY <1>2, <1>6
<1> QED BY <1>0, <1>1, <1>2, <1>6, <1>7, <1>8, <1>9, StepStaysOwn

\* A step fails: the rollback begins at the end of the list, if there is one.
LEMMA StepFailsKeeps ==
  ASSUME BookInv, NEW x \in BookRuns, StepReturnsFalse(x)
  PROVE  BookInv'
<1> DEFINE r == runner[x].uses  i == IF rollbackAvailable THEN BookSteps + 1 ELSE 0
           left == ToRollBack(x, i)
<1>0. BookTypes /\ BookSteps \in Nat /\ undone \in [BookRuns -> Seq(1 .. BookSteps)]
  BY RunbookAssumptions DEF BookInv, BookTypes
<1>1. runner[x].stage = "step" /\ RollBackFrom(x, i)
      /\ UNCHANGED <<rollbackAvailable, entryOf, undone, shared>>
  BY DEF StepReturnsFalse
<1>2. r \in BookRuns /\ (r = x \/ {x, r} \subseteq shared)
  BY <1>1, UsesOwn
<1>3. i \in 0 .. BookSteps + 1
  BY <1>0
<1>4. /\ record' \in [BookRuns -> BookRecord] /\ runner' \in [BookRuns -> BookRunner]
      /\ \A y \in BookRuns : y # r => record'[y] = record[y]
      /\ \A y \in BookRuns : y # x => runner'[y] = runner[y]
      /\ runner'[x].uses = r /\ record'[r].executed = record[r].executed
      /\ \/ left = {} /\ runner'[x].stage = "ended" /\ record'[r].status = "failed"
         \/ /\ left # {} /\ runner'[x].stage = "rollback"
            /\ record'[r].status = record[r].status /\ runner'[x].at = LastOf(left)
            /\ runner'[x].at # 0
  <2> HIDE DEF i
  <2> QED BY <1>0, <1>1, <1>2, <1>3, RollBackSays
<1>5. ASSUME x \notin shared PROVE ExecutionOk(runner'[x], record'[x], undone'[x])
  <2> DEFINE old == record[x].executed
  <2>1. /\ r = x /\ InOrder(old) /\ record[x].status = "running" /\ undone[x] = <<>>
    BY <1>1, <1>2, <1>5 DEF BookInv, ExecutionOk
  <2>2. entryOf[x] = x
    BY <1>1, <1>5, UsesOwn
  <2>3. old \in Seq(1 .. BookSteps)
    BY <1>0 DEF BookTypes, BookRecord
  <2>4. left = {s \in 1 .. (i - 1) : s \in ToSet(old) /\ s \in WithRollback}
    BY <2>2 DEF ToRollBack, Executed
  <2>5. CASE rollbackAvailable
    <3>1. i = BookSteps + 1 /\ i \in 1 .. BookSteps + 1
      BY <1>0, <2>5
    <3>2. DownTo(<<>>, old, i)
      <4>1. \A s \in ToSet(old) : s \in 1 .. BookSteps
        BY <2>3, StepsDone
      <4>2. {s \in ToSet(old) \cap WithRollback : s >= i} = {}
        BY <1>0, <3>1, <4>1
      <4>3. ToSet(<<>>) = {} /\ DOMAIN <<>> = {}
        BY EmptySeq DEF ToSet
      <4> QED BY <4>2, <4>3 DEF DownTo
    <3> HIDE DEF left, i, old
    <3>3. /\ left = {} => DownTo(<<>>, old, 1)
          /\ left # {} =>
               /\ LastOf(left) \in 1 .. BookSteps
               /\ LastOf(left) \in ToSet(old) \cap WithRollback
               /\ DownTo(<<>>, old, LastOf(left) + 1)
      BY <2>3, <2>4, <3>1, <3>2, RollbackGoesDown
    <3> QED BY <1>1, <1>4, <2>1, <2>5, <3>3 DEF ExecutionOk, old
  <2>6. CASE ~rollbackAvailable
    <3>1. left = {}
      BY <2>4, <2>6
    <3> HIDE DEF left
    <3> QED BY <1>1, <1>4, <2>1, <2>6, <3>1 DEF ExecutionOk
  <2> QED BY <2>5, <2>6
<1> HIDE DEF left, r
<1>8. \A y \in BookRuns : undone'[y] = undone[y]
  BY <1>1
<1>9. /\ r = x \/ {x, r} \subseteq shared
      /\ runner'[x].stage \in {"step", "rollback"} => runner'[x].at # 0
      /\ runner'[x].stage # "none" /\ runner[x].stage # "none"
  BY <1>1, <1>2, <1>4
<1> QED BY <1>0, <1>1, <1>2, <1>4, <1>5, <1>8, <1>9, StepStaysOwn

\* A rollback script ends and the rollback goes on below it.
LEMMA RollBackStepKeeps ==
  ASSUME BookInv, NEW x \in BookRuns, RollBackStep(x)
  PROVE  BookInv'
<1> DEFINE r == runner[x].uses  i == runner[x].at  left == ToRollBack(x, i)
<1>0. BookTypes /\ BookSteps \in Nat /\ undone \in [BookRuns -> Seq(1 .. BookSteps)]
  BY RunbookAssumptions DEF BookInv, BookTypes
<1>1. /\ runner[x].stage = "rollback" /\ RollBackFrom(x, i)
      /\ UNCHANGED <<rollbackAvailable, entryOf, shared>>
      /\ undone' = [undone EXCEPT ![x] = Append(undone[x], i)]
  BY DEF RollBackStep
<1>2. r \in BookRuns /\ (r = x \/ {x, r} \subseteq shared) /\ i \in 1 .. BookSteps
  BY <1>1, UsesOwn
<1>3. i \in 0 .. BookSteps + 1 /\ i \in 1 .. BookSteps + 1
  BY <1>0, <1>2
<1>4. /\ record' \in [BookRuns -> BookRecord] /\ runner' \in [BookRuns -> BookRunner]
      /\ \A y \in BookRuns : y # r => record'[y] = record[y]
      /\ \A y \in BookRuns : y # x => runner'[y] = runner[y]
      /\ runner'[x].uses = r /\ record'[r].executed = record[r].executed
      /\ \/ left = {} /\ runner'[x].stage = "ended" /\ record'[r].status = "failed"
         \/ /\ left # {} /\ runner'[x].stage = "rollback"
            /\ record'[r].status = record[r].status /\ runner'[x].at = LastOf(left)
            /\ runner'[x].at # 0
  <2> HIDE DEF i
  <2> QED BY <1>0, <1>1, <1>2, <1>3, RollBackSays
<1>5. /\ undone' \in [BookRuns -> Seq(1 .. BookSteps)] /\ undone'[x] = Append(undone[x], i)
      /\ \A y \in BookRuns : y # x => undone'[y] = undone[y]
  <2> DEFINE T == 1 .. BookSteps
  <2> HIDE DEF T, i
  <2>1. undone[x] \in Seq(T) /\ i \in T
    BY <1>0, <1>2 DEF T
  <2>2. Append(undone[x], i) \in Seq(T)
    BY <2>1, ElementsAppended
  <2> QED BY <1>0, <1>1, <2>2 DEF T
<1>6. ASSUME x \notin shared PROVE ExecutionOk(runner'[x], record'[x], undone'[x])
  <2> DEFINE old == record[x].executed
  <2>1. /\ r = x /\ InOrder(old) /\ record[x].status = "running" /\ rollbackAvailable
        /\ i \in ToSet(old) \cap WithRollback /\ DownTo(undone[x], old, i + 1)
    BY <1>1, <1>2, <1>6 DEF BookInv, ExecutionOk
  <2>2. entryOf[x] = x
    BY <1>1, <1>6, UsesOwn
  <2>3. old \in Seq(1 .. BookSteps) /\ undone[x] \in Seq(1 .. BookSteps)
    BY <1>0 DEF BookTypes, BookRecord
  <2>4. left = {s \in 1 .. (i - 1) : s \in ToSet(old) /\ s \in WithRollback}
    BY <2>2 DEF ToRollBack, Executed
  <2> DEFINE u == undone'[x]
  <2>5. DownTo(u, old, i)
    <3> HIDE DEF i, old
    <3> QED BY <1>2, <1>5, <2>1, <2>3, UndoAdded
  <2> HIDE DEF left, i, old, u
  <2>6. /\ left = {} => DownTo(u, old, 1)
        /\ left # {} =>
             /\ LastOf(left) \in 1 .. BookSteps
             /\ LastOf(left) \in ToSet(old) \cap WithRollback
             /\ DownTo(u, old, LastOf(left) + 1)
    BY <1>3, <2>3, <2>4, <2>5, RollbackGoesDown
  <2> QED BY <1>1, <1>4, <2>1, <2>6 DEF ExecutionOk, old, u
<1> HIDE DEF left, r
<1>9. /\ r = x \/ {x, r} \subseteq shared
      /\ runner'[x].stage \in {"step", "rollback"} => runner'[x].at # 0
      /\ runner'[x].stage # "none" /\ runner[x].stage # "none"
  BY <1>1, <1>2, <1>4
<1>10. /\ \A y \in BookRuns : y # x => runner'[y] = runner[y] /\ undone'[y] = undone[y]
       /\ UNCHANGED <<rollbackAvailable, entryOf, shared>>
       /\ undone' \in [BookRuns -> Seq(1 .. BookSteps)]
  BY <1>1, <1>4, <1>5
<1> QED BY <1>2, <1>4, <1>6, <1>9, <1>10, StepStaysOwn

\* A task is cancelled: its record keeps its status.
LEMMA CancelRunnerKeeps ==
  ASSUME BookInv, NEW x \in BookRuns, CancelRunner(x)
  PROVE  BookInv'
<1>0. BookTypes /\ undone \in [BookRuns -> Seq(1 .. BookSteps)] /\ runner[x] \in BookRunner
  BY DEF BookInv, BookTypes
<1>1. /\ runner[x].stage \in {"created", "step", "rollback"}
      /\ runner' = [runner EXCEPT ![x].stage = "cancelled"]
      /\ UNCHANGED <<rollbackAvailable, entryOf, record, undone, shared>>
  BY DEF CancelRunner
<1>2. /\ [runner[x] EXCEPT !.stage = "cancelled"] \in BookRunner
      /\ [runner[x] EXCEPT !.stage = "cancelled"].uses = runner[x].uses
      /\ [runner[x] EXCEPT !.stage = "cancelled"].stage = "cancelled"
  BY <1>0 DEF BookRunner
<1>3. /\ runner' \in [BookRuns -> BookRunner]
      /\ \A y \in BookRuns : y # x => runner'[y] = runner[y]
      /\ runner'[x].uses = runner[x].uses /\ runner'[x].stage = "cancelled"
  BY <1>0, <1>1, <1>2 DEF BookTypes
<1>4. ASSUME x \notin shared PROVE ExecutionOk(runner'[x], record'[x], undone'[x])
  <2>1. ExecutionOk(runner[x], record[x], undone[x])
    BY <1>4 DEF BookInv
  <2> QED BY <1>1, <1>3, <2>1 DEF ExecutionOk
<1>5. \A y \in BookRuns : record'[y] = record[y] /\ undone'[y] = undone[y]
  BY <1>1
<1>6. record' \in [BookRuns -> BookRecord] /\ undone' \in [BookRuns -> Seq(1 .. BookSteps)]
  BY <1>0, <1>1 DEF BookTypes
<1> QED BY <1>1, <1>3, <1>4, <1>5, <1>6, StepStaysOwn

(* Every step of a runbook keeps its invariant. *)
LEMMA BookInvStep == BookInv /\ [BookNext]_bookVars => BookInv'
<1>1. ASSUME BookInv, UNCHANGED bookVars PROVE BookInv'
  <2>1. UNCHANGED <<rollbackAvailable, entryOf, record, runner, undone, shared>>
    BY <1>1 DEF bookVars
  <2>2. BookTypes'
    BY <1>1, <2>1 DEF BookInv, BookTypes
  <2>3. OwnRecords'
    BY <1>1, <2>1 DEF BookInv, OwnRecords
  <2>4. ASSUME NEW x \in BookRuns \ shared PROVE (ExecutionOk(runner[x], record[x], undone[x]))'
    <3>1. ExecutionOk(runner[x], record[x], undone[x])
      BY <1>1 DEF BookInv
    <3> QED BY <2>1, <3>1 DEF ExecutionOk, DownTo, LeftOut, InOrder
  <2> QED BY <2>1, <2>2, <2>3, <2>4 DEF BookInv
<1>2. ASSUME BookInv, BookNext PROVE BookInv'
  BY <1>2, ExecuteKeeps, StartRunnerKeeps, StepSucceedsKeeps, StepFailsKeeps,
     RollBackStepKeeps, CancelRunnerKeeps DEF BookNext
<1> QED BY <1>1, <1>2
=============================================================================
