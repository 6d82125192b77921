----------------------------- MODULE MCPlatform -----------------------------
(* TLC instance of the parts of the platform that keep their state to
   themselves.  focus says which of them this behaviour is about, and the others
   keep their initial state. *)
EXTENDS DisasterRecovery, Replication, SchemaMigrations, EventService,
        SemanticCache, ModelGateway, RealtimeChat, HedgedCalls, WorkflowLoader,
        Router, Incidents, ServiceTree, Deployment, ServiceHealth, WebPages,
        LocalStack, Evaluation, TLC

CONSTANTS A, B, c1, c2, c3, c4, nodeA, nodeB, nodeC, newA, newB

VARIABLE focus

Init ==
  /\ focus \in {"failover", "mirroring", "replication", "runbooks", "schema",
               "service", "store", "cache", "gateway", "realtime", "widget",
               "hedging", "timeouts", "documents", "names", "scan", "novelty",
               "tracking", "routes", "incidents", "slo", "baselines", "tree",
               "deployment", "checker", "probes", "scaler", "capacity", "signup",
               "subscription", "admin", "stack", "compose", "experience", "letters",
               "episodes", "merges", "flaky"}
  /\ FailoverInit /\ MirrorInit /\ ReplicaInit /\ BookInit
  /\ SchemaInit /\ ServiceInit /\ StoreInit /\ CacheInit
  /\ GatewayInit /\ RealtimeInit /\ WidgetInit /\ HedgeInit
  /\ TimeoutInit /\ LoaderInit /\ NamedInit /\ ScanInit
  /\ NoveltyInit /\ TrackInit /\ RouteInit /\ IncidentInit
  /\ SloInit /\ BaselineInit /\ TreeInit /\ DeployInit
  /\ CheckerInit /\ ProbeInit /\ ScalerInit /\ CapacityInit
  /\ SignupInit /\ SubInit /\ AdminInit /\ StackInit
  /\ ComposeInit /\ UxInit /\ DeadInit /\ EpisodeInit
  /\ MergeInit /\ FlakyInit
  /\ focus # "runbooks" => rollbackAvailable
  /\ focus # "hedging" => cancelOthers
  /\ focus # "slo" => sloType = "availability"
  /\ focus # "tree" => protocol = "http" /\ tree["services"].exists
  /\ focus # "stack" => appsLogs
  /\ focus # "letters" => \A l \in DeadLetters : letter[l] = UnknownLetter

Next ==
  /\ UNCHANGED focus
  /\ \/ focus = "failover" /\ FailoverNext
     \/ focus # "failover" /\ UNCHANGED failoverVars
  /\ \/ focus = "mirroring" /\ MirrorNext
     \/ focus # "mirroring" /\ UNCHANGED mirrorVars
  /\ \/ focus = "replication" /\ ReplicaNext
     \/ focus # "replication" /\ UNCHANGED replicaVars
  /\ \/ focus = "runbooks" /\ BookNext
     \/ focus # "runbooks" /\ UNCHANGED bookVars
  /\ \/ focus = "schema" /\ SchemaNext
     \/ focus # "schema" /\ UNCHANGED schemaVars
  /\ \/ focus = "service" /\ ServiceNext
     \/ focus # "service" /\ UNCHANGED serviceVars
  /\ \/ focus = "store" /\ StoreNext
     \/ focus # "store" /\ UNCHANGED storeVars
  /\ \/ focus = "cache" /\ CacheNext
     \/ focus # "cache" /\ UNCHANGED cacheVars
  /\ \/ focus = "gateway" /\ GatewayNext
     \/ focus # "gateway" /\ UNCHANGED gatewayVars
  /\ \/ focus = "realtime" /\ RealtimeNext
     \/ focus # "realtime" /\ UNCHANGED gatewayEnd
  /\ \/ focus = "widget" /\ WidgetNext
     \/ focus # "widget" /\ UNCHANGED widgetEnd
  /\ \/ focus = "hedging" /\ HedgeNext
     \/ focus # "hedging" /\ UNCHANGED hedgeVars
  /\ \/ focus = "timeouts" /\ TimeoutNext
     \/ focus # "timeouts" /\ UNCHANGED timeoutVars
  /\ \/ focus = "documents" /\ LoaderNext
     \/ focus # "documents" /\ UNCHANGED workflowVars
  /\ \/ focus = "names" /\ NamedNext
     \/ focus # "names" /\ UNCHANGED namedVars
  /\ \/ focus = "scan" /\ ScanNext
     \/ focus # "scan" /\ UNCHANGED scanVars
  /\ \/ focus = "novelty" /\ NoveltyNext
     \/ focus # "novelty" /\ UNCHANGED noveltyVars
  /\ \/ focus = "tracking" /\ TrackNext
     \/ focus # "tracking" /\ UNCHANGED trackVars
  /\ \/ focus = "routes" /\ RouteNext
     \/ focus # "routes" /\ UNCHANGED routeVars
  /\ \/ focus = "incidents" /\ IncidentNext
     \/ focus # "incidents" /\ UNCHANGED incidentVars
  /\ \/ focus = "slo" /\ SloNext
     \/ focus # "slo" /\ UNCHANGED sloVars
  /\ \/ focus = "baselines" /\ BaselineNext
     \/ focus # "baselines" /\ UNCHANGED baselineVars
  /\ \/ focus = "tree" /\ TreeNext
     \/ focus # "tree" /\ UNCHANGED treeVars
  /\ \/ focus = "deployment" /\ DeployNext
     \/ focus # "deployment" /\ UNCHANGED deployVars
  /\ \/ focus = "checker" /\ CheckerNext
     \/ focus # "checker" /\ UNCHANGED checkerVars
  /\ \/ focus = "probes" /\ ProbeNext
     \/ focus # "probes" /\ UNCHANGED probeVars
  /\ \/ focus = "scaler" /\ ScalerNext
     \/ focus # "scaler" /\ UNCHANGED scalerVars
  /\ \/ focus = "capacity" /\ CapacityNext
     \/ focus # "capacity" /\ UNCHANGED capacityVars
  /\ \/ focus = "signup" /\ SignupNext
     \/ focus # "signup" /\ UNCHANGED signupVars
  /\ \/ focus = "subscription" /\ SubNext
     \/ focus # "subscription" /\ UNCHANGED subVars
  /\ \/ focus = "admin" /\ AdminNext
     \/ focus # "admin" /\ UNCHANGED adminVars
  /\ \/ focus = "stack" /\ StackNext
     \/ focus # "stack" /\ UNCHANGED stackVars
  /\ \/ focus = "compose" /\ ComposeNext
     \/ focus # "compose" /\ UNCHANGED composeVars
  /\ \/ focus = "experience" /\ UxNext
     \/ focus # "experience" /\ UNCHANGED uxVars
  /\ \/ focus = "letters" /\ DeadNext
     \/ focus # "letters" /\ UNCHANGED deadVars
  /\ \/ focus = "episodes" /\ EpisodeNext
     \/ focus # "episodes" /\ UNCHANGED episodeVars
  /\ \/ focus = "merges" /\ MergeNext
     \/ focus # "merges" /\ UNCHANGED mergeVars
  /\ \/ focus = "flaky" /\ FlakyNext
     \/ focus # "flaky" /\ UNCHANGED flakyVars

vars == <<focus, failoverVars, mirrorVars, replicaVars, bookVars, schemaVars,
          serviceVars, storeVars, cacheVars, gatewayVars, gatewayEnd, widgetEnd,
          hedgeVars, timeoutVars, workflowVars, namedVars, scanVars, noveltyVars,
          trackVars, routeVars, incidentVars, sloVars, baselineVars, treeVars,
          deployVars, checkerVars, probeVars, scalerVars, capacityVars, signupVars,
          subVars, adminVars, stackVars, composeVars, uxVars, deadVars, episodeVars,
          mergeVars, flakyVars>>
Spec == Init /\ [][Next]_vars

\* Step 2 of the runbook depends on the one listed after it, steps 4 and 5 on two.
Dependencies == <<{}, {3}, {1}, {1, 3}, {2, 4}>>

\* The events of a run are stored under its run_id.
RowKeys == [e \in SvcEvents |-> 1]

\* A step of a known type, one of another, and how the replays are asked for.
EpisodeSteps == <<[type |-> "input", success |-> TRUE], [type |-> "other", success |-> FALSE]>>
Modes == [r \in ReplayCalls |-> IF r = c1 THEN "exact" ELSE "similar"]
TestServices == [t \in FlakyTests |-> IF t = c1 THEN 1 ELSE 4]

TenantOfChat == [m \in Chats |-> IF m = c3 THEN B ELSE A]

\* Documents whose node names differ, and one that repeats a name.
Documents == {<<nodeA, nodeB, nodeC>>, <<nodeA, nodeB, nodeA>>}
ToInsert == <<newA, newB>>

-----------------------------------------------------------------------------
\* The other parts never leave their initial state, so what is said of a part is
\* evaluated where the part moves.

\* Failing over, mirroring and replicating agree with what was last decided: routing
\* points where the last failover verified, a pause holds, slot and tasks agree.
RegionsHold ==
  /\ focus = "failover" => LastFailoverWins
  /\ focus = "mirroring" => PauseHolds
  /\ focus = "replication" => SlotAndTasksAgree
  /\ focus = "runbooks" => RollbackIsExact


\* Every handler of a running tenant sees an event, the store counts what it holds, and
\* retries of a dead letter take effect once.
EventServiceHolds ==
  /\ focus = "service" => EveryHandlerSeesEvent
  /\ focus = "store" => StoreCountsAgree
  /\ focus = "letters" => RetriesTakeEffectOnce

\* The cache answers with what was stored for the question, and the gateway keeps to its
\* windows, its bucket and its breaker.
GatewayAndCacheHold ==
  /\ focus = "cache" => AnswersMatch
  /\ focus = "gateway" => GatewayHolds

\* A broadcast reaches every connection it should, and the widget shows what it knows.
ChatIsHonest ==
  /\ focus = "realtime" => BroadcastReachesAll
  /\ focus = "widget" => WidgetIsHonest

\* Hedged calls and timeouts leave nothing behind but what the code is known to leak.
HedgingHolds ==
  /\ focus = "hedging" => HedgeLeavesNothing
  /\ focus = "timeouts" => TrackingIsExact

\* Workflows are refused for their cycles only, what one inserts stands where it should,
\* valid ones are kept, and ready means all known.
WorkflowsHold ==
  /\ focus = "documents" => CyclesAreFound /\ InsertionIsExact
  /\ focus = "names" => OnlyValidIsKept
  /\ focus = "scan" => ReadyKnowsAll

\* The router's history, counts and scores follow what was asked and routed.
RoutingHolds ==
  /\ focus = "novelty" => HistoryIsRecent
  /\ focus = "tracking" => CountsAreExact
  /\ focus = "routes" => ScoresAreMonotone

\* Incident records, SLO, misroute and experience alarms, baselines, recorded episodes and
\* reports of flaky tests follow what happened.
OperationsHold ==
  /\ focus = "incidents" => RecordTells
  /\ focus = "slo" => AlarmsFollowOutages
  /\ focus = "baselines" => CalculationsChain
  /\ focus = "episodes" => EpisodesAreKept
  /\ focus = "flaky" => ReportsAreMeasured
  /\ focus = "routes" => MisrouteIsTold
  /\ focus = "experience" => ExperienceHolds

\* Merging services traces what was there; a deployment that reports success says what is
\* served, and only a rollback takes away what traffic reaches.
ReleasesHold ==
  /\ focus = "merges" => LegacyIsTraced
  /\ focus = "deployment" => DeploymentsAgree

\* Health verdicts, scaling and capacity variants follow what was measured.
HealthHolds ==
  /\ focus = "checker" => StatusFollowsResults
  /\ focus = "probes" => ProbesAreTold
  /\ focus = "scaler" => CooldownHolds
  /\ focus = "capacity" => DegradingShrinks

\* The pages show what the server holds.
PagesHold ==
  /\ focus = "signup" => RegisteredAsSelected
  /\ focus = "subscription" => SubscriptionIsCurrent
  /\ focus = "admin" => DashboardShowsRange

\* The developer scripts leave what they say.
ScriptsHold ==
  /\ focus \in {"stack", "compose"} => LocalScriptsHold
=============================================================================
