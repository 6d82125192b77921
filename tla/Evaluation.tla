----------------------------- MODULE Evaluation -----------------------------
(***************************************************************************)
(* docs/evaluation/episode_replay.py: one recorded episode, the replays of *)
(* it that run together, and the clean-up; and the detector of flaky tests *)
(* of platform/integration-tests/_plugins/flakiness_manager.py.            *)
(*                                                                         *)
(* An episode is stored in Redis, where it expires, and then in a file.    *)
(* The functions that replay a step never suspend, so a replay runs from   *)
(* the answer of _load_episode to the first call of Redis in               *)
(* _store_episode in one go.  Redis and the disk are external: a call may  *)
(* fail, with or without effect, and a file may be cut short.              *)
(***************************************************************************)
EXTENDS Integers, Sequences, FiniteSets, FiniteSetsExt

CONSTANTS
  ReplayCalls,   \* calls of replay_episode
  Recorder,      \* the call of record_episode
  ModeOf,        \* ModeOf[r]: the mode a replay is asked for
  OriginalSteps, \* the steps recorded: records of type and success
  EpisodeTtl,    \* 86400 seconds
  EpisodeDays,   \* the ages cleanup_old_episodes is called with
  LastEpisodeTick,
  NoEpisode,
  FlakyTests,    \* ids of tests
  CollectedIds,  \* those of them that the plugin forms, <path>::<name>
  FlakyServices, \* the services of service_mappings
  ServiceOfTest, \* ServiceOfTest[t]: the service named in the path of t
  FlakyPercent,  \* 10
  ReasonPercent, \* 20
  WindowDays,    \* window_days
  LastFlakyDay,  \* bounds: days, and executions in all
  MaxExecuted,
  NoFlakyReport

ASSUME EvaluationAssumptions ==
  /\ CollectedIds \subseteq FlakyTests /\ ServiceOfTest \in [FlakyTests -> FlakyServices]
  /\ FlakyPercent \in Nat /\ ReasonPercent \in Nat /\ FlakyPercent <= ReasonPercent
  /\ WindowDays \in Nat /\ LastFlakyDay \in Nat /\ MaxExecuted \in Nat
  /\ EpisodeTtl \in Nat \ {0} /\ LastEpisodeTick \in Nat /\ EpisodeDays \subseteq Nat
  /\ Recorder \notin ReplayCalls /\ ModeOf \in [ReplayCalls -> {"exact", "similar", "adaptive"}]

VARIABLES
  epNow,         \* the clock, in seconds
  writer,        \* of a call: where it is, the id and episode it stores, when it ended
  redisEpisodes, \* by id: the episode and when it was stored
  fileEpisodes,  \* the same, for the directory
  activeReplays, \* active_replays: ids
  cleaner,       \* the clean-up: its cutoff and the keys it has yet to look at
  cutoffs        \* history: the latest cutoff of a clean-up

episodeVars ==
  <<epNow, writer, redisEpisodes, fileEpisodes, activeReplays, cleaner, cutoffs>>

Storers == ReplayCalls \cup {Recorder}

\* replay_<id>_<second> is named by its second, the recorded episode by 0.
EpisodeIds == 0 .. LastEpisodeTick
SourceId == 0

StepTypes == {"input", "router_decision", "tool_call", "response"}

IdleWriter == [pc |-> "idle", id |-> SourceId, ep |-> NoEpisode, left |-> 0]
NotCleaning == [pc |-> "idle", cutoff |-> 0, keys |-> {}]

EpisodeInit ==
  /\ epNow = 1
  /\ writer = [w \in Storers |-> IdleWriter]
  /\ redisEpisodes = [i \in EpisodeIds |-> NoEpisode]
  /\ fileEpisodes = [i \in EpisodeIds |-> NoEpisode]
  /\ activeReplays = {}
  /\ cleaner = NotCleaning /\ cutoffs = 0

-----------------------------------------------------------------------------
\* Where the output of a replayed step comes from.
OutputOf(mode) ==
  CASE mode = "exact" -> "original" [] mode = "similar" -> "selected" [] OTHER -> "current"

\* _replay_step: an unknown type is a failed step with no output, never an error
ReplayStep(step, mode) ==
  IF step.type \in StepTypes
  THEN [type |-> step.type, output |-> OutputOf(mode), success |-> TRUE]
  ELSE [type |-> step.type, output |-> "none", success |-> FALSE]

StepsThat(steps, good) == Cardinality({i \in DOMAIN steps : steps[i].success = good})

\* the metrics of an episode that is complete
Completed(steps) ==
  [steps |-> steps, status |-> "completed",
   good |-> StepsThat(steps, TRUE), bad |-> Len(steps) - StepsThat(steps, TRUE)]

\* record_episode, up to the call of Redis
RecordEpisode ==
  /\ writer[Recorder].pc = "idle"
  /\ LET steps == [i \in DOMAIN OriginalSteps |->
                     [type |-> OriginalSteps[i].type, output |-> "original",
                      success |-> OriginalSteps[i].success]]
     IN  writer' = [writer EXCEPT ![Recorder] =
                      [pc |-> "storing", id |-> SourceId, ep |-> Completed(steps), left |-> 0]]
  /\ UNCHANGED <<epNow, redisEpisodes, fileEpisodes, activeReplays, cleaner, cutoffs>>

\* _load_episode: Redis first, then the file; any error, such as a file cut short, is None
LoadEpisode(id) ==
  IF redisEpisodes[id] # NoEpisode THEN redisEpisodes[id].ep
  ELSE IF fileEpisodes[id] # NoEpisode THEN fileEpisodes[id].ep ELSE NoEpisode

Replayed(steps, mode) == [i \in DOMAIN steps |-> ReplayStep(steps[i], mode)]

\* replay_episode, from the answer of Redis on to the first call in _store_episode
ReplayEpisode(r) ==
  /\ writer[r].pc = "idle"
  /\ \E answered \in BOOLEAN :
       LET source == IF answered THEN LoadEpisode(SourceId) ELSE NoEpisode
       IN  IF source = NoEpisode
           THEN writer' = [writer EXCEPT ![r].pc = "notfound"] /\ UNCHANGED activeReplays
           ELSE /\ writer' = [writer EXCEPT ![r] =
                     [pc |-> "storing", id |-> epNow,
                      ep |-> Completed(Replayed(source.steps, ModeOf[r])), left |-> 0]]
                /\ activeReplays' = activeReplays \cup {epNow}
  /\ UNCHANGED <<epNow, redisEpisodes, fileEpisodes, cleaner, cutoffs>>

-----------------------------------------------------------------------------
\* _store_episode
EntryOf(w) == [ep |-> writer[w].ep, at |-> epNow]

\* finally: the entry of the id is removed, whoever made it
Leaves(w, how) ==
  /\ writer' = [writer EXCEPT ![w].pc = how, ![w].left = epNow]
  /\ activeReplays' = activeReplays \ {writer[w].id}

\* The except clause of replay_episode stores the episode again as FAILED; an error in
\* that, and any error of the recorder, goes to the caller.
StoreRaises(w) ==
  IF w \in ReplayCalls /\ writer[w].ep.status = "completed"
  THEN /\ writer' = [writer EXCEPT ![w].pc = "storing", ![w].ep.status = "failed"]
       /\ UNCHANGED activeReplays
  ELSE Leaves(w, "raised")

\* setex, whose effect may outlive the error it ends with
StoreInRedis(w) ==
  /\ writer[w].pc = "storing"
  /\ \E effect, ok \in BOOLEAN :
       /\ ok => effect
       /\ redisEpisodes' = IF effect THEN [redisEpisodes EXCEPT ![writer[w].id] = EntryOf(w)]
                           ELSE redisEpisodes
       /\ IF ok THEN writer' = [writer EXCEPT ![w].pc = "redis"] /\ UNCHANGED activeReplays
          ELSE StoreRaises(w)
  /\ UNCHANGED <<epNow, fileEpisodes, cleaner, cutoffs>>

\* The file, and the way out: open may fail, and a dump may stop in the middle.
StoreInFile(w) ==
  /\ writer[w].pc = "redis"
  /\ \/ /\ fileEpisodes' = [fileEpisodes EXCEPT ![writer[w].id] = EntryOf(w)]
        /\ Leaves(w, IF writer[w].ep.status = "completed" THEN "returned" ELSE "raised")
     \/ /\ \/ UNCHANGED fileEpisodes
           \/ fileEpisodes' = [fileEpisodes EXCEPT ![writer[w].id] =
                                 [ep |-> NoEpisode, at |-> epNow]]
        /\ StoreRaises(w)
  /\ UNCHANGED <<epNow, redisEpisodes, cleaner, cutoffs>>

\* Cancellation while Redis is awaited is no Exception: only finally runs.
CancelReplay(r) ==
  /\ writer[r].pc = "storing"
  /\ Leaves(r, "cancelled")
  /\ redisEpisodes' \in {redisEpisodes, [redisEpisodes EXCEPT ![writer[r].id] = EntryOf(r)]}
  /\ UNCHANGED <<epNow, fileEpisodes, cleaner, cutoffs>>

\* A second passes, and Redis forgets what has reached its time to live.
EpisodeTick ==
  /\ epNow < LastEpisodeTick
  /\ epNow' = epNow + 1
  /\ redisEpisodes' = [i \in EpisodeIds |->
       IF redisEpisodes[i] # NoEpisode /\ redisEpisodes[i].at + EpisodeTtl <= epNow'
       THEN NoEpisode ELSE redisEpisodes[i]]
  /\ UNCHANGED <<writer, fileEpisodes, activeReplays, cleaner, cutoffs>>

-----------------------------------------------------------------------------
\* cleanup_old_episodes: the keys one by one, then the directory
BeginCleanup(age) ==
  /\ cleaner.pc = "idle" /\ epNow - age > 0
  /\ cleaner' = [pc |-> "keys", cutoff |-> epNow - age,
                 keys |-> {i \in EpisodeIds : redisEpisodes[i] # NoEpisode}]
  /\ cutoffs' = IF epNow - age > cutoffs THEN epNow - age ELSE cutoffs
  /\ UNCHANGED <<epNow, writer, redisEpisodes, fileEpisodes, activeReplays>>

\* A key is judged by the start_time of its episode, which is in its id.
CleanKey(i) ==
  /\ cleaner.pc = "keys" /\ i \in cleaner.keys
  /\ redisEpisodes' = IF i < cleaner.cutoff THEN [redisEpisodes EXCEPT ![i] = NoEpisode]
                      ELSE redisEpisodes
  /\ cleaner' = [cleaner EXCEPT !.keys = @ \ {i}]
  /\ UNCHANGED <<epNow, writer, fileEpisodes, activeReplays, cutoffs>>

\* A file is judged by when it was written; the first that cannot be removed ends it.
CleanFiles ==
  /\ cleaner.pc = "keys" /\ cleaner.keys = {}
  /\ \E gone \in SUBSET {i \in EpisodeIds : /\ fileEpisodes[i] # NoEpisode
                                            /\ fileEpisodes[i].at < cleaner.cutoff} :
       fileEpisodes' = [i \in EpisodeIds |-> IF i \in gone THEN NoEpisode ELSE fileEpisodes[i]]
  /\ cleaner' = NotCleaning
  /\ UNCHANGED <<epNow, writer, redisEpisodes, activeReplays, cutoffs>>

\* Redis fails: the clean-up answers 0 and leaves the files
CleanupFails ==
  /\ cleaner.pc = "keys"
  /\ cleaner' = NotCleaning
  /\ UNCHANGED <<epNow, writer, redisEpisodes, fileEpisodes, activeReplays, cutoffs>>

EpisodeNext ==
  \/ RecordEpisode \/ EpisodeTick \/ CleanFiles \/ CleanupFails
  \/ \E w \in Storers : StoreInRedis(w) \/ StoreInFile(w)
  \/ \E r \in ReplayCalls : ReplayEpisode(r) \/ CancelReplay(r)
  \/ \E age \in EpisodeDays : BeginCleanup(age)
  \/ \E i \in EpisodeIds : CleanKey(i)

-----------------------------------------------------------------------------
\* get_episode_stats: episodes_by_status, of what Redis still holds
EpisodesByStatus(s) ==
  Cardinality({i \in EpisodeIds : redisEpisodes[i] # NoEpisode /\ redisEpisodes[i].ep.status = s})

StillStoring(r) == writer[r].pc \in {"storing", "redis"}
Begun(r) == writer[r].pc \notin {"idle", "notfound"}

\* Two replays begun within a second have one id, one key and one file.
Alone(r) == \A q \in ReplayCalls \ {r} : Begun(q) => writer[q].id # writer[r].id

\* What a call stored before it returned is in its file until a clean-up may take it,
\* and nothing else is in Redis.
KeptAsReturned(w) ==
  LET i == writer[w].id
  IN  /\ \/ fileEpisodes[i] # NoEpisode /\ fileEpisodes[i].ep = writer[w].ep
         \/ fileEpisodes[i] = NoEpisode /\ cutoffs > writer[w].left
      /\ redisEpisodes[i] = NoEpisode \/ redisEpisodes[i].ep = writer[w].ep

(* An episode whose recording or replay returned is kept as it was returned, whole and
   with every step counted, unless another replay was begun in the same second; a key
   and a file disagree only about an episode that is being stored, failed, was cancelled
   or shares its id; failures are counted only if a call failed; and the entry of a
   replay that shares its id with no other is there exactly while it is under way. *)
EpisodesAreKept ==
  /\ writer[Recorder].pc = "returned" => KeptAsReturned(Recorder)
  /\ \A r \in ReplayCalls : Begun(r) =>
       /\ Len(writer[r].ep.steps) = Len(OriginalSteps)
       /\ writer[r].ep.good + writer[r].ep.bad = Len(OriginalSteps)
       /\ Alone(r) =>
            /\ writer[r].pc = "returned" => KeptAsReturned(r)
            /\ StillStoring(r) <=> writer[r].id \in activeReplays
  /\ \A i \in EpisodeIds \ {SourceId} :
       (/\ redisEpisodes[i] # NoEpisode /\ fileEpisodes[i] # NoEpisode
        /\ redisEpisodes[i].ep # fileEpisodes[i].ep) =>
         \E r \in ReplayCalls :
           writer[r].id = i /\ (~Alone(r) \/ writer[r].pc # "returned")
  /\ (\A r \in ReplayCalls : writer[r].pc # "raised" /\ ~StillStoring(r)) =>
       EpisodesByStatus("failed") = 0 \/ \E r \in ReplayCalls : writer[r].pc = "cancelled"

-----------------------------------------------------------------------------
(* The detector of flaky tests over its database, called directly by whoever runs
   tests, and the plugin, which analyses the tests a session has collected.  The plugin
   itself records nothing: a report has no attribute node, so pytest_runtest_logreport
   raises and the session ends. *)
VARIABLES
  flakyDay,     \* today
  executions,   \* test_executions: how many of a test, by day and status
  flakyReports, \* flakiness_reports
  testSession   \* a test session: the tests it will run and those marked flaky

flakyVars == <<flakyDay, executions, flakyReports, testSession>>

Outcomes == {"passed", "failed", "skipped"}
NoSession == [pc |-> "none", selected |-> {}, marked |-> {}]

FlakyInit ==
  /\ flakyDay = 1
  /\ executions = [t \in FlakyTests |-> [d \in 1 .. LastFlakyDay |-> [o \in Outcomes |-> 0]]]
  /\ flakyReports = [t \in FlakyTests |-> NoFlakyReport]
  /\ testSession = NoSession

\* the executions of t with outcome o in the days of a set
TimesRun(t, o, days) == MapThenSumSet(LAMBDA d : executions[t][d][o], days)
ExecutedSoFar ==
  MapThenSumSet(LAMBDA x : TimesRun(x[1], x[2], 1 .. LastFlakyDay), FlakyTests \X Outcomes)

\* record_test_execution
RecordExecution(t, o) ==
  /\ ExecutedSoFar < MaxExecuted
  /\ executions' = [executions EXCEPT ![t][flakyDay][o] = @ + 1]
  /\ UNCHANGED <<flakyDay, flakyReports, testSession>>

Window(day) == {d \in 1 .. LastFlakyDay : d <= day /\ d >= day - WindowDays}

(* analyze_flakiness as of a day: the rate is that of the failures among all
   executions, skipped ones included *)
Analysis(t, day) ==
  LET failed == TimesRun(t, "failed", Window(day))
      passed == TimesRun(t, "passed", Window(day))
      total == failed + passed + TimesRun(t, "skipped", Window(day))
  IN  IF total = 0 THEN NoFlakyReport
      ELSE [total |-> total, passed |-> passed, failed |-> failed, day |-> day,
            status |-> IF failed * 100 >= FlakyPercent * total THEN "flaky" ELSE "stable",
            reason |-> failed * 100 >= ReasonPercent * total]

\* _store_flakiness_report; a test without executions keeps the report it has
StoreReports(tests) ==
  flakyReports' = [t \in FlakyTests |->
                IF t \in tests /\ Analysis(t, flakyDay) # NoFlakyReport
                THEN Analysis(t, flakyDay) ELSE flakyReports[t]]

AnalyzeFlakiness(t) ==
  /\ StoreReports({t})
  /\ UNCHANGED <<flakyDay, executions, testSession>>

\* analyze_changed_files
ImpactLevel(affected, critical) ==
  IF critical \/ Cardinality(affected) >= 5 THEN "high"
  ELSE IF Cardinality(affected) >= 3 THEN "medium"
  ELSE IF affected # {} THEN "low" ELSE "none"

(* The filters of pytest_collection_modifyitems and _should_run_test.  Paths of items
   are absolute and those of get_impacted_tests relative, so none is equal. *)
SelectedTests(affected, critical) ==
  CASE ImpactLevel(affected, critical) = "low" -> {}
    [] ImpactLevel(affected, critical) = "medium" ->
         {t \in CollectedIds : ServiceOfTest[t] \in affected}
    [] OTHER -> CollectedIds

\* pytest_collection_modifyitems: no status is ever "quarantined"
CollectTests(affected, critical) ==
  /\ testSession.pc = "none"
  /\ LET selected == SelectedTests(affected, critical)
     IN  /\ StoreReports(selected)
         /\ testSession' = [pc |-> "collected", selected |-> selected,
                        marked |-> {t \in selected : LET a == Analysis(t, flakyDay)
                                                     IN  a # NoFlakyReport /\ a.status = "flaky"}]
  /\ UNCHANGED <<flakyDay, executions>>

\* The first report of a call, or the end of a session without tests.
LogReport ==
  /\ testSession.pc = "collected"
  /\ testSession' = NoSession
  /\ UNCHANGED <<flakyDay, executions, flakyReports>>

FlakyDayPasses ==
  /\ flakyDay < LastFlakyDay
  /\ flakyDay' = flakyDay + 1
  /\ UNCHANGED <<executions, flakyReports, testSession>>

FlakyNext ==
  \/ LogReport \/ FlakyDayPasses
  \/ \E t \in FlakyTests : AnalyzeFlakiness(t) \/ \E o \in Outcomes : RecordExecution(t, o)
  \/ \E affected \in SUBSET FlakyServices, critical \in BOOLEAN : CollectTests(affected, critical)

\* get_global_flakiness_metrics
TestsWith(status) ==
  Cardinality({t \in FlakyTests : flakyReports[t] # NoFlakyReport /\ flakyReports[t].status = status})

(* A report tells of executions that were there: since its day only executions of that
   day can have been added, so it is what an analysis of that day would say of fewer or
   as many executions; a rate of ReasonPercent never goes without the status; every test
   with a report is counted once, as stable or flaky; and a session marks only tests
   it runs whose executions of the last days were analysed as flaky. *)
ReportsAreMeasured ==
  /\ \A t \in FlakyTests : flakyReports[t] # NoFlakyReport =>
       LET now == Analysis(t, flakyReports[t].day)
       IN  /\ now # NoFlakyReport /\ flakyReports[t].day <= flakyDay
           /\ flakyReports[t].total <= now.total /\ flakyReports[t].failed <= now.failed
           /\ flakyReports[t].total = now.total => flakyReports[t] = now
           /\ flakyReports[t].reason => flakyReports[t].status = "flaky"
  /\ TestsWith("stable") + TestsWith("flaky") =
       Cardinality({t \in FlakyTests : flakyReports[t] # NoFlakyReport})
  /\ \A t \in testSession.marked :
       /\ t \in testSession.selected /\ flakyReports[t] # NoFlakyReport
       /\ \E d \in 1 .. flakyDay : executions[t][d]["failed"] > 0
=============================================================================
