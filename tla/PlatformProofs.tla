---------------------------- MODULE PlatformProofs ----------------------------
(***************************************************************************)
(* Theorems about the platform, for any constants, from the invariants of  *)
(* its parts: a step of MCPlatform is a step or a stutter of each part.    *)
(***************************************************************************)
EXTENDS MCPlatform, PlatformLemmas, ServiceLemmas

-----------------------------------------------------------------------------
(* A step of the platform is a step of each of these parts, or leaves the part alone. *)
LEMMA RegionSteps ==
  [Next]_vars => /\ [FailoverNext]_failoverVars /\ [MirrorNext]_mirrorVars
                 /\ [ReplicaNext]_replicaVars /\ [BookNext]_bookVars
BY DEF Next, vars

(* The regions agree with what was last decided, for any regions, any number of failovers
   and tasks, and any runbook: traffic and configuration follow the last failover that was
   verified, a pause of a mirror or of a replication holds until the next command, one
   health check at a time uses the connection of a replication, and an execution of a
   runbook that fails has undone what can be undone, the latest first. *)
THEOREM RegionsAreSound == Spec => []RegionsHold
<1> DEFINE RegionsInv == FailoverInv /\ MirrorInv /\ ReplicaInv /\ BookInv
<1>1. Init => RegionsInv
  BY FailoverInvInit, MirrorInvInit, ReplicaInvInit, BookStarts DEF Init
<1>2. RegionsInv /\ [Next]_vars => RegionsInv'
  BY RegionSteps, FailoverInvStep, MirrorInvStep, ReplicaInvStep, BookInvStep
<1>3. RegionsInv => RegionsHold
  BY FailoverWins, MirrorPauses, ReplicaAgrees, RunbooksAreExact DEF RegionsHold
<1> HIDE DEF RegionsInv
<1> QED BY <1>1, <1>2, <1>3, PTL DEF Spec

-----------------------------------------------------------------------------
(* A step of the platform is a step of each of these parts, or leaves the part alone. *)
LEMMA HedgingSteps == [Next]_vars => [HedgeNext]_hedgeVars /\ [TimeoutNext]_timeoutVars
BY DEF Next, vars

(* Whatever the number of hedges, urls, operations and events kept: when hedge_request has
   ended nothing it started is under way, and it is remembered until it is cancelled; the
   timeout manager tracks exactly the operations under way, but for those that share an
   id and those its clean-up dropped, and keeps the most recent timeouts. *)
THEOREM HedgingIsSound == Spec => []HedgingHolds
<1> DEFINE HedgingInv == HedgeInv /\ TrackInv /\ EventsInv
<1>1. Init => HedgingInv
  BY HedgeInvInit, TimeoutInvInit DEF Init
<1>2. HedgingInv /\ [Next]_vars => HedgingInv'
  BY HedgingSteps, HedgeInvStep, TimeoutInvStep
<1>3. HedgingInv => HedgingHolds
  BY HedgeInvLeavesNothing, TimeoutTracksExactly DEF HedgingHolds
<1> HIDE DEF HedgingInv
<1> QED BY <1>1, <1>2, <1>3, PTL DEF Spec

-----------------------------------------------------------------------------
(* A step of the platform is a step of each page, or leaves the page alone. *)
LEMMA PageSteps ==
  [Next]_vars => [SignupNext]_signupVars /\ [SubNext]_subVars /\ [AdminNext]_adminVars
BY DEF Next, vars

(* The pages show what the server holds, for any plans, ranges and number of requests and
   handlers: the account has the plan that was selected, the subscription shown is the
   server's unless handlers overlapped or something failed, and the metrics on the
   dashboard are of the range selected. *)
THEOREM PagesAreSound == Spec => []PagesHold
<1> DEFINE PagesInv == SignupInv /\ SubInv /\ AdminInv
<1>1. Init => PagesInv
  BY SignupInvInit, SubInvInit, AdminInvInit DEF Init
<1>2. PagesInv /\ [Next]_vars => PagesInv'
  BY PageSteps, SignupInvStep, SubInvStep, AdminInvStep
<1>3. PagesInv => PagesHold
  BY SignupRegistersSelected, SubShowsCurrent, AdminShowsRange DEF PagesHold
<1> HIDE DEF PagesInv
<1> QED BY <1>1, <1>2, <1>3, PTL DEF Spec

-----------------------------------------------------------------------------
(* A step of the platform is a step of the services, of the store and of the processor,
   or leaves them alone. *)
LEMMA EventSteps ==
  ASSUME [Next]_vars
  PROVE  [ServiceNext]_serviceVars /\ [StoreNext]_storeVars /\ [DeadNext]_deadVars
BY DEF Next, vars

(* libs/events, for any number of tenants, starts, events and calls: an acknowledged
   event was given to every handler registered when it was published, the counters of the
   store tell what is in it until they are reset, and a dead letter takes effect at most
   once, counted by calls that slept over it and by each at most once. *)
THEOREM EventServiceIsSound == Spec => []EventServiceHolds
<1> DEFINE EventInv == ServiceInv /\ StoreInv /\ DeadInv
<1>1. Init => EventInv
  BY ServiceInvInit, StoreInvInit, DeadInvInit DEF Init
<1>2. EventInv /\ [Next]_vars => EventInv'
  BY EventSteps, ServiceInvStep, StoreInvStep, DeadInvStep
<1>3. EventInv => EventServiceHolds
  BY ServiceShowsEvents, StoreCountsWhatIsThere, DeadLettersCount DEF EventServiceHolds
<1> HIDE DEF EventInv
<1> QED BY <1>1, <1>2, <1>3, PTL DEF Spec

-----------------------------------------------------------------------------
(* A step of the platform is a step of either end, or leaves it alone. *)
LEMMA ChatSteps ==
  ASSUME [Next]_vars
  PROVE  [RealtimeNext]_gatewayEnd /\ [WidgetNext]_widgetEnd
BY DEF Next, vars

(* The gateway's broadcast and the widget, for any clients and any number of sockets: a
   broadcast during which nobody was removed has reached everyone who was there when it
   began and still is, once; a connection is listed once; the widget shows itself
   connected while a socket is, and waits for answers that can still come unless the
   socket it asked over closed. *)
THEOREM ChatStaysHonest == Spec => []ChatIsHonest
<1> DEFINE EndsInv == ChatInv /\ WidgetInv
<1>1. Init => EndsInv
  BY ChatInvInit, WidgetInvInit DEF Init
<1>2. EndsInv /\ [Next]_vars => EndsInv'
  BY ChatSteps, ChatInvStep, WidgetInvStep
<1>3. EndsInv => ChatIsHonest
  BY ChatReachesAll, WidgetShowsTruth DEF ChatIsHonest
<1> HIDE DEF EndsInv
<1> QED BY <1>1, <1>2, <1>3, PTL DEF Spec

-----------------------------------------------------------------------------
(* Each of the four parts takes its own steps or keeps its state. *)
LEMMA HealthSteps ==
  [Next]_vars => /\ [CheckerNext]_checkerVars /\ [ProbeNext]_probeVars
                 /\ [ScalerNext]_scalerVars /\ [CapacityNext]_capacityVars
BY DEF Next, vars

(* Whatever checks overlap, the health status is what the runs of results make it; a probe
   is reported unhealthy only after every attempt failed; two decisions of a scaler are
   a cooldown apart unless the later one says so; and the degraded and the emergency
   configuration never exceed what they are derived from, beyond their floors. *)
THEOREM HealthIsSound == Spec => []HealthHolds
<1> DEFINE HealthInv == CheckerInv /\ ProbeInv /\ ScalerInv /\ CapacityInv
<1>1. Init => HealthInv
  BY CheckerInvInit, ProbeInvInit, ScalerInvInit, CapacityInvInit DEF Init
<1>2. HealthInv /\ [Next]_vars => HealthInv'
  BY HealthSteps, CheckerInvStep, ProbeInvStep, ScalerInvStep, CapacityInvStep
<1>3. HealthInv => HealthHolds
  BY CheckerFollowsResults, ProbesTellAll, ScalerKeepsCooldown, CapacityShrinks DEF HealthHolds
<1> HIDE DEF HealthInv
<1> QED BY <1>1, <1>2, <1>3, PTL DEF Spec

-----------------------------------------------------------------------------
(* Each of the three parts takes its own steps or keeps its state. *)
LEMMA RoutingSteps ==
  [Next]_vars => [NoveltyNext]_noveltyVars /\ [TrackNext]_trackVars /\ [RouteNext]_routeVars
BY DEF Next, vars

(* For any number of requests and any history window: however requests overlap or fail
   between lpush and ltrim, the history holds the last window's worth of them and
   exceeds it only by those; the aggregates count what executed, once; and a request that
   asks for more is never scored lower or given a smaller model. *)
THEOREM RoutingIsSound == Spec => []RoutingHolds
<1> DEFINE RoutingInv == NoveltyInv /\ CountInv
<1>1. Init => RoutingInv
  BY NoveltyInvInit, CountInvInit DEF Init
<1>2. RoutingInv /\ [Next]_vars => RoutingInv'
  BY RoutingSteps, NoveltyInvStep, CountInvStep
<1>3. RoutingInv => RoutingHolds
  BY NoveltyIsRecent, CountsExactly, ScoresGrow DEF RoutingHolds
<1> HIDE DEF RoutingInv
<1> QED BY <1>1, <1>2, <1>3, PTL DEF Spec

-----------------------------------------------------------------------------
(* A step of the platform is a step of the cache and of the gateway, or leaves them alone. *)
LEMMA GatewayAndCacheSteps ==
  ASSUME [Next]_vars PROVE [CacheNext]_cacheVars /\ [GatewayNext]_gatewayVars
BY DEF Next, vars

(* For any keys, contents, retrievals, chats, tenants, limits and clock: retrieve answers
   with content similar to the query unless the key was stored or deleted under its hands,
   and the model gateway grants no more than its limits in any WindowSize ticks, no more
   tokens than a bucket can have held, and opens its circuit as its failures say. *)
THEOREM GatewayAndCacheAreSound == Spec => []GatewayAndCacheHold
<1> DEFINE Inv == CacheInv /\ GatewayInv
<1>1. Init => Inv
  BY CacheStarts, GatewayStarts DEF Init
<1>2. Inv /\ [Next]_vars => Inv'
  BY GatewayAndCacheSteps, CacheSteps, GatewaySteps
<1>3. Inv => GatewayAndCacheHold
  BY CacheAnswers, GatewayBounds DEF GatewayAndCacheHold
<1> HIDE DEF Inv
<1> QED BY <1>1, <1>2, <1>3, PTL DEF Spec

-----------------------------------------------------------------------------
(* A step of the platform is a step of the developer scripts, or leaves them alone. *)
LEMMA LocalScriptSteps ==
  ASSUME [Next]_vars PROVE [StackNext]_stackVars /\ [ComposeNext]_composeVars
BY DEF Next, vars

(* For any processes, terminals and containers: after a stop only processes whose pid file
   was lost still run (the server npm leaves when it is killed by force is not counted as
   one: it is known only by the web port it keeps), and a terminal that was told its services are ready waited for each
   of them, unless another terminal's script came between. *)
THEOREM ScriptsAreSound == Spec => []ScriptsHold
<1> DEFINE Inv == StackInv /\ ComposeInv
<1>1. Init => Inv
  BY StackStarts, ComposeStarts DEF Init
<1>2. Inv /\ [Next]_vars => Inv'
  BY LocalScriptSteps, StackSteps, ComposeKeeps
<1>3. Inv => ScriptsHold
  BY StackLeaves, ComposeReports DEF ScriptsHold, LocalScriptsHold
<1> HIDE DEF Inv
<1> QED BY <1>1, <1>2, <1>3, PTL DEF Spec

-----------------------------------------------------------------------------
(* A step of the platform is a step of the workflow loaders, or leaves them alone. *)
LEMMA WorkflowSteps ==
  ASSUME [Next]_vars
  PROVE  /\ LoaderNext \/ UNCHANGED workflowVars
         /\ NamedNext \/ UNCHANGED namedVars
         /\ ScanNext \/ UNCHANGED scanVars
BY DEF Next, vars

(* For any documents, insertions, revisions and files of a directory: the depth-first
   search of _check_circular_dependencies refuses a workflow as circular exactly when it has
   a cycle, a first load puts the new nodes where they belong and makes no cycle, a second
   one is refused, only what was validated is kept and it is what was answered, and a loader
   that is ready knows every workflow of the directory it read. *)
THEOREM WorkflowsAreSound == Spec => []WorkflowsHold
<1> DEFINE Inv == LoaderInv /\ DocumentInv /\ NamedInv /\ ReadyKnowsAll
<1>1. Init => Inv
  BY LoaderStarts, DocumentStarts, NamedStarts, ScanStarts DEF Init
<1>2. Inv /\ [Next]_vars => Inv'
  BY WorkflowSteps, LoaderSteps, DocumentSteps, NamedSteps, ScanSteps
<1>3. Inv => WorkflowsHold
  BY LoaderFinds, InsertionsAreExact DEF NamedInv, WorkflowsHold
<1> HIDE DEF Inv
<1> QED BY <1>1, <1>2, <1>3, PTL DEF Spec

-----------------------------------------------------------------------------
(* A step of the platform is a step of a merge and of a deployment, or leaves them alone. *)
LEMMA ReleaseSteps ==
  ASSUME [Next]_vars
  PROVE  /\ MergeNext \/ UNCHANGED mergeVars
         /\ DeployNext \/ UNCHANGED deployVars
BY DEF Next, vars

(* For any legacy files, services, tags and numbers of runs and faults: the headers of
   the legacy files follow their names up to the faults met and the registry lists what was
   set aside.  A deployment that reports success leaves a Deployment of every service behind
   an ingress; unless "py" logged a warning, traffic is open to the tag that was applied; and
   where the run changed a Deployment to its own tag, no pod serves the image of an earlier
   run.  Traffic is opened only after every service was found healthy, and what it then
   reaches is there, except for what a rollback deleted since; the cluster runs nothing but
   the latest image or that of the manifests; and the experience monitor is left only under
   a run of the shell script. *)
THEOREM ReleasesAreSound == Spec => []ReleasesHold
<1> DEFINE Inv == MergeInv /\ DeployInv
<1>1. Init => Inv
  BY MergeStarts, DeployStarts DEF Init
<1>2. Inv /\ [Next]_vars => Inv'
  BY ReleaseSteps, MergeSteps, DeploySteps
<1>3. Inv => ReleasesHold
  BY MergeTells, DeployTells DEF ReleasesHold
<1> HIDE DEF Inv
<1> QED BY <1>1, <1>2, <1>3, PTL DEF Spec
=============================================================================
