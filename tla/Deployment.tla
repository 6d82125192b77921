------------------------------ MODULE Deployment ------------------------------
(* Putting the system into production, and watching it there. *)
EXTENDS Integers, Sequences, FiniteSets

-----------------------------------------------------------------------------
(***************************************************************************)
(* The two deployment scripts, scripts/production_deployment.py ("py") and *)
(* scripts/deploy_to_production.sh ("sh", with health_check_validation.py),*)
(* one run after the other against one namespace.  A service's image is a  *)
(* tag and the number of the run that built it last.                       *)
(***************************************************************************)

CONSTANTS
  LastService,   \* the services are 1..LastService, in the order of the scripts' lists
  ReleaseTags,   \* values of TAG other than "latest"
  MaxRuns,       \* bound: deployments that are started
  MaxPodFailures \* bound: pods that fail by themselves

ASSUME DeployAssumptions ==
  /\ LastService \in Nat \ {0} /\ MaxRuns \in Nat /\ MaxPodFailures \in Nat
  /\ ReleaseTags \cap {"latest", "none"} = {}

VARIABLES
  images,        \* the registry: which run built the image of a service and a tag, 0 for none
  manifest,      \* the tag in k8s/production/manifests, rewritten by sed
  cluster,       \* the tag of each Deployment of the namespace, or "none"
  running,       \* the build its ready pods run, 0 for no ready pod
  rolling,       \* Deployments whose rollout is not complete
  ingress,       \* "none", "closed" or, patched with the production host, "open"
  uxMonitor,     \* user_experience_monitor.py runs in the background
  deployment,    \* the run under way
  runs,          \* history: how many were started, what the last one reported, and the
                 \* services whose Deployment a rollback deleted
  podFailures

deployVars == <<images, manifest, cluster, running, rolling, ingress, uxMonitor, deployment,
                runs, podFailures>>

Members == 1 .. LastService
DeployTags == ReleaseTags \cup {"latest"}
NoDeployment == [at |-> 0]
NothingReported == [script |-> "none"]

\* Seeded fault: traffic is opened with what was applied, before the wait and the tests.
Flow_TrafficFirst ==
  [py |-> <<"validate", "build", "apply", "traffic", "wait", "monitoring", "experience", "tests", "alerts">>,
   sh |-> <<"validate", "secrets", "build", "rewrite", "apply", "traffic", "wait", "monitoring",
            "tests", "experience", "alerts", "report">>]

\* deploy() and main(): the steps in their order
Flow ==
  [py |-> <<"validate", "build", "apply", "wait", "monitoring", "experience", "tests", "traffic", "alerts">>,
   sh |-> <<"validate", "secrets", "build", "rewrite", "apply", "wait", "monitoring", "tests",
            "experience", "traffic", "alerts", "report">>]

DeployInit ==
  /\ images = [i \in Members |-> [t \in DeployTags |-> 0]] /\ manifest = "latest"
  /\ cluster = [i \in Members |-> "none"] /\ running = [i \in Members |-> 0] /\ rolling = {}
  /\ ingress = "none" /\ uxMonitor = FALSE /\ deployment = NoDeployment
  /\ runs = [count |-> 0, reported |-> NothingReported, removed |-> {}] /\ podFailures = 0

At(step) == deployment.at # 0 /\ Flow[deployment.script][deployment.at] = step

(* missing is what the configuration file of "py" lacks: its namespace, only its domain
   or registry ("other"), or nothing.  results are the validation's results per service,
   warned says that a failed apply or patch was logged and passed over, changed which
   Deployments this run gave another tag. *)
Missing == {"nothing", "namespace", "other"}
StartDeployment(script, tag, missing) ==
  /\ deployment = NoDeployment /\ runs.count < MaxRuns
  /\ script = "sh" => missing = "nothing"
  /\ deployment' = [script |-> script, tag |-> tag, missing |-> missing, at |-> 1, item |-> 0,
                    results |-> [i \in Members |-> "unknown"], warned |-> FALSE, changed |-> {}]
  /\ runs' = [runs EXCEPT !.count = @ + 1, !.reported = NothingReported]
  /\ UNCHANGED <<images, manifest, cluster, running, rolling, ingress, uxMonitor, podFailures>>

\* trap cleanup EXIT: however the shell script ends, the monitor it started is killed
Cleaned == IF deployment.script = "sh" THEN uxMonitor' = FALSE ELSE UNCHANGED uxMonitor

(* An exception of "py" ends in _rollback_deployment.  It reads the namespace from the
   configuration, whose lack raises again, and deletes all of its workloads, the last
   release's too, as far as kubectl gets: its exit code is not looked at.  An ingress is
   not one of them.  The shell script exits (set -e) and leaves the namespace as it is. *)
Abort ==
  /\ \E gone \in SUBSET {i \in Members : cluster[i] # "none"} :
       /\ deployment.script = "sh" \/ deployment.missing = "namespace" => gone = {}
       /\ cluster' = [i \in Members |-> IF i \in gone THEN "none" ELSE cluster[i]]
       /\ running' = [i \in Members |-> IF i \in gone THEN 0 ELSE running[i]]
       /\ rolling' = rolling \ gone
       /\ runs' = [runs EXCEPT !.removed = @ \cup gone]
  /\ Cleaned /\ deployment' = NoDeployment
  /\ UNCHANGED <<images, manifest, ingress, podFailures>>

\* "completed successfully": what the last step leaves a reader of the run with
Report(d) == [script |-> d.script, tag |-> d.tag, warned |-> d.warned, changed |-> d.changed]

\* the last step's successor is the end of the script
Onward ==
  IF deployment.at = Len(Flow[deployment.script])
    THEN deployment' = NoDeployment /\ runs' = [runs EXCEPT !.reported = Report(deployment)] /\ Cleaned
    ELSE /\ deployment' = [deployment EXCEPT !.at = @ + 1, !.item = 0]
         /\ UNCHANGED <<runs, uxMonitor>>

Item(n) == deployment' = [deployment EXCEPT !.item = n] /\ UNCHANGED <<runs, uxMonitor>>
Objects == <<images, manifest, cluster, running, rolling, ingress, podFailures>>

\* _validate_environment; check_prerequisites and validate_config
ValidateEnvironment ==
  /\ At("validate")
  /\ \/ deployment.missing = "nothing" /\ Onward /\ UNCHANGED Objects
     \/ Abort

\* setup_namespace
SetupNamespace ==
  /\ At("secrets")
  /\ \/ Onward /\ UNCHANGED Objects
     \/ Abort

\* docker build and docker push of one service
BuildAndPush ==
  /\ At("build")
  /\ \/ /\ deployment.item < LastService
        /\ images' = [images EXCEPT ![deployment.item + 1][deployment.tag] = runs.count]
        /\ Item(deployment.item + 1)
        /\ UNCHANGED <<manifest, cluster, running, rolling, ingress, podFailures>>
     \/ deployment.item < LastService /\ Abort
     \/ deployment.item = LastService /\ Onward /\ UNCHANGED Objects

\* sed "s|latest|$TAG|g" (and the registry and the domain): nothing to replace the second time
Rewritten == IF manifest = "latest" THEN deployment.tag ELSE manifest
RewriteManifests ==
  /\ At("rewrite") /\ manifest' = Rewritten /\ Onward
  /\ UNCHANGED <<images, cluster, running, rolling, ingress, podFailures>>

(* kubectl apply of item 0, the configuration, of the services and of the ingress.  "py"
   applies k8s/production, which nothing rewrites.  A Deployment that did not change is
   not rolled out, even if its tag has another image since; the ingress takes back the
   hosts of its manifest, if it names any.  A failure is a warning of "py" and the end of
   "sh". *)
AppliedTag(name) == IF name = "py" THEN "latest" ELSE manifest
ApplyItem ==
  /\ At("apply") /\ deployment.item <= LastService + 1
  /\ LET i   == deployment.item
         tag == AppliedTag(deployment.script)
     IN  /\ IF i \in Members /\ cluster[i] # tag
              THEN /\ cluster' = [cluster EXCEPT ![i] = tag] /\ rolling' = rolling \cup {i}
                   /\ deployment' = [deployment EXCEPT !.item = i + 1, !.changed = @ \cup {i}]
                   /\ runs' = [runs EXCEPT !.removed = @ \ {i}]
              ELSE /\ deployment' = [deployment EXCEPT !.item = i + 1]
                   /\ UNCHANGED <<cluster, rolling, runs>>
         /\ ingress' \in IF i # LastService + 1 THEN {ingress}
                         ELSE {"closed"} \cup ({ingress} \ {"none"})
  /\ UNCHANGED <<images, manifest, running, uxMonitor, podFailures>>

PassOver == deployment' = [deployment EXCEPT !.item = @ + 1, !.warned = TRUE]
ApplyFails ==
  /\ At("apply") /\ deployment.item <= LastService + 1
  /\ IF deployment.script = "py" THEN PassOver /\ UNCHANGED <<runs, uxMonitor, Objects>> ELSE Abort

ApplyDone == At("apply") /\ deployment.item = LastService + 2 /\ Onward /\ UNCHANGED Objects

\* kubectl rollout status of every Deployment there is
RolloutComplete == rolling = {}
WaitForDeployments ==
  /\ At("wait")
  /\ \/ RolloutComplete /\ Onward /\ UNCHANGED Objects
     \/ Abort

\* kubectl apply of the monitoring stack, and in the end of the alert rules
SetupMonitoring ==
  /\ At("monitoring") \/ At("alerts")
  /\ \/ Onward /\ UNCHANGED Objects
     \/ deployment.script = "sh" /\ Abort

\* _setup_user_experience_tracking, setup_user_experience_monitoring
SetupUserExperience ==
  /\ At("experience")
  /\ \/ /\ deployment' = [deployment EXCEPT !.at = @ + 1, !.item = 0]
        /\ uxMonitor' = (uxMonitor \/ deployment.script = "sh")
        /\ UNCHANGED <<runs, Objects>>
     \/ deployment.script = "sh" /\ Abort

\* https://<domain>/.../health of a service: only ready pods behind the ingress answer
Answers(i) == running[i] # 0 /\ ingress # "none"

\* _check_deployment_status, _check_pod_health: what each may report
DeploymentStatus(i) == {IF cluster[i] = "none" THEN "failed"
                        ELSE IF i \in rolling THEN "unhealthy" ELSE "healthy", "error"}
PodHealth(i) == {IF running[i] # 0 /\ i \notin rolling THEN "healthy" ELSE "unhealthy", "error"}

\* _check_endpoint_health ... _check_resource_utilization
EndpointHealth(i) == (IF Answers(i) THEN {"healthy"} ELSE {}) \cup {"unhealthy", "error"}
ServiceConnectivity == {"healthy", "unhealthy", "error"}
ResourceUtilization == {"healthy", "unknown", "error"}

ChecksOf(i) ==
  [deployment : DeploymentStatus(i), pods : PodHealth(i), endpoint : EndpointHealth(i),
   connectivity : ServiceConnectivity, resources : ResourceUtilization]

\* _determine_service_status
ServiceStatus(c) ==
  LET bad == {"unhealthy", "error", "failed"}
  IN  IF {c.deployment, c.pods, c.endpoint} \cap bad # {} THEN "unhealthy"
      ELSE IF {c.connectivity, c.resources} \cap bad # {} THEN "degraded" ELSE "healthy"

\* summary: every service that is not healthy counts
HealthyServices == Cardinality({i \in Members : deployment.results[i] = "healthy"})
UnhealthyServices == Cardinality({i \in Members : deployment.results[i] \notin {"healthy", "unknown"}})

\* _calculate_overall_status, whose "degraded" makes the validator exit with 1
OverallStatus ==
  IF UnhealthyServices = 0 THEN "healthy"
  ELSE IF HealthyServices > UnhealthyServices THEN "degraded" ELSE "unhealthy"

\* _health_check_validation stops at the first service without a 200; the validator goes on
CheckService ==
  /\ At("tests") /\ deployment.item < LastService
  /\ LET i == deployment.item + 1
     IN  \/ /\ deployment.script = "py" /\ Answers(i)
            /\ deployment' = [deployment EXCEPT !.item = i, !.results[i] = "healthy"]
            /\ UNCHANGED <<runs, uxMonitor, Objects>>
         \/ deployment.script = "py" /\ Abort
         \/ /\ deployment.script = "sh"
            /\ \E c \in ChecksOf(i) :
                 deployment' = [deployment EXCEPT !.item = i, !.results[i] = ServiceStatus(c)]
            /\ UNCHANGED <<runs, uxMonitor, Objects>>

\* the validator's exit code under set -e, the load test and the end-to-end tests
FinishTests ==
  /\ At("tests") /\ deployment.item = LastService
  /\ \/ (deployment.script = "sh" => OverallStatus = "healthy") /\ Onward /\ UNCHANGED Objects
     \/ Abort

\* kubectl patch ingress: a failure is a warning of "py" and the end of "sh"
EnableTraffic ==
  /\ At("traffic")
  /\ \/ /\ ingress # "none" /\ ingress' = "open" /\ Onward
        /\ UNCHANGED <<images, manifest, cluster, running, rolling, podFailures>>
     \/ /\ deployment.script = "py"
        /\ deployment' = [deployment EXCEPT !.at = @ + 1, !.item = 0, !.warned = TRUE]
        /\ UNCHANGED <<runs, uxMonitor, Objects>>
     \/ deployment.script = "sh" /\ Abort

\* generate_deployment_report only reads; what fails in its here-document is not noticed
GenerateReport == At("report") /\ Onward /\ UNCHANGED Objects

\* Kubernetes: pods of the new specification become ready, pulling the tag's present image
PodsReady(i) ==
  /\ i \in rolling /\ images[i][cluster[i]] # 0
  /\ running' = [running EXCEPT ![i] = images[i][cluster[i]]] /\ rolling' = rolling \ {i}
  /\ UNCHANGED <<images, manifest, cluster, ingress, uxMonitor, deployment, runs, podFailures>>

PodFails(i) ==
  /\ running[i] # 0 /\ podFailures < MaxPodFailures
  /\ podFailures' = podFailures + 1
  /\ running' = [running EXCEPT ![i] = 0] /\ rolling' = rolling \cup {i}
  /\ UNCHANGED <<images, manifest, cluster, ingress, uxMonitor, deployment, runs>>

DeployNext ==
  \/ \E script \in {"py", "sh"}, tag \in DeployTags, missing \in Missing :
       StartDeployment(script, tag, missing)
  \/ ValidateEnvironment \/ SetupNamespace \/ BuildAndPush \/ RewriteManifests
  \/ ApplyItem \/ ApplyFails \/ ApplyDone \/ WaitForDeployments
  \/ SetupMonitoring \/ SetupUserExperience \/ CheckService \/ FinishTests
  \/ EnableTraffic \/ GenerateReport
  \/ \E i \in Members : PodsReady(i) \/ PodFails(i)

-----------------------------------------------------------------------------
(* What a run that reports success leaves behind, until the next one starts and whatever
   pods fail.  Every service has a Deployment and an ingress before it.  If "py" logged no
   warning, and always after "sh", traffic is open and every Deployment has the tag of
   the manifests that were applied, which is not the run's own tag for "py" with another
   than "latest" nor for a second "sh", whose sed finds no "latest" any more.  And where the
   run changed a Deployment to its own tag, no pod serves the image of an earlier run;
   where it left one alone, because its tag had not changed, pods may go on serving that. *)
SuccessIsServed ==
  LET r == runs.reported
  IN  r # NothingReported =>
        /\ ingress # "none" /\ \A i \in Members : cluster[i] # "none"
        /\ ~r.warned =>
             ingress = "open" /\ \A i \in Members : cluster[i] = AppliedTag(r.script)
        /\ r.script = "sh" => ~r.warned
        /\ \A i \in r.changed : cluster[i] = r.tag => running[i] \in {0, runs.count}

(* Traffic is opened only when every service was found healthy, although "py" goes on after
   failed applies and the validator after an unhealthy service.  Afterwards a service
   that traffic reaches has a Deployment, unless a failed run of "py" deleted it: that
   rollback closes nothing, and what it deleted stays missing under open traffic until a
   later run applies it again. *)
TrafficHasServices ==
  /\ (At("traffic") \/ At("alerts") \/ At("report")) =>
       \A i \in Members : deployment.results[i] = "healthy"
  /\ ingress = "open" => \A i \in Members : cluster[i] = "none" => i \in runs.removed
  /\ \A i \in runs.removed : cluster[i] = "none" /\ running[i] = 0

(* However runs follow each other, a service runs the latest image or that of the first
   release, and no user experience monitor is left when the script that started it has ended. *)
DeploymentsAgree ==
  /\ SuccessIsServed /\ TrafficHasServices
  /\ \A i \in Members : cluster[i] \in {"none", "latest", manifest}
  /\ uxMonitor => deployment # NoDeployment

-----------------------------------------------------------------------------
(***************************************************************************)
(* scripts/user_experience_monitor.py: eight loops that read metrics, one  *)
(* that raises alerts and one that reports, started together.  A tick is   *)
(* the alert loop's minute; the reading loops wake when they like, because *)
(* only the order of their readings matters to the others.                 *)
(***************************************************************************)

CONSTANTS
  SlowSum,      \* the sum of readings above which response times alert
  Recently,     \* ticks during which an alert is not repeated (5 minutes)
  DayLength,    \* ticks of a day
  ReportEvery,  \* ticks between two reports (1 hour)
  LastUxTick    \* bound: the last tick

ASSUME UxAssumptions ==
  /\ SlowSum \in Nat /\ Recently \in Nat \ {0} /\ DayLength \in Nat \ {0}
  /\ ReportEvery \in Nat \ {0} /\ LastUxTick \in Nat

VARIABLES
  uxRunning,   \* is_running
  monitored,   \* the loops: those that have not ended
  p95,         \* response_time_p95._sum: everything observed, capped above SlowSum
  gauge,       \* chat_completion_rate and user_satisfaction; 0 before the first reading
  uxAlerts,      \* self.alerts
  uxClock,
  alertAt,     \* when the alert loop wakes
  reportAt,    \* when the report loop wakes
  reports      \* reports generated

uxVars == <<uxRunning, monitored, p95, gauge, uxAlerts, uxClock, alertAt, reportAt, reports>>

\* the loops whose metric nobody in the monitor reads back are one loop
ReadingLoops == {"times", "chat_completion_rate", "user_satisfaction", "others"}
UxLoops == ReadingLoops \cup {"alerts", "reports"}

UxInit ==
  /\ uxRunning = FALSE /\ monitored = {} /\ p95 = 0
  /\ gauge = [g \in {"chat_completion_rate", "user_satisfaction"} |-> 0]
  /\ uxAlerts = <<>> /\ uxClock = 0 /\ alertAt = 0 /\ reportAt = ReportEvery /\ reports = 0

\* start_monitoring: without the metrics port nothing starts, and main stops the monitor
StartMonitoring(port) ==
  /\ ~uxRunning /\ monitored = {} /\ uxClock = 0
  /\ uxRunning' = port /\ monitored' = IF port THEN UxLoops ELSE {}
  /\ UNCHANGED <<p95, gauge, uxAlerts, uxClock, alertAt, reportAt, reports>>

\* a pass of _monitor_response_times: a histogram only ever adds to its sum
ReadTimes(seconds) ==
  /\ uxRunning /\ "times" \in monitored /\ uxClock < LastUxTick
  /\ p95' = IF p95 + seconds > SlowSum THEN SlowSum + 1 ELSE p95 + seconds
  /\ UNCHANGED <<uxRunning, monitored, gauge, uxAlerts, uxClock, alertAt, reportAt, reports>>

\* a pass of _monitor_chat_completion or _monitor_user_satisfaction: 1 is low, 2 is good
ReadGauge(g, value) ==
  /\ uxRunning /\ g \in monitored /\ uxClock < LastUxTick
  /\ gauge' = [gauge EXCEPT ![g] = value]
  /\ UNCHANGED <<uxRunning, monitored, p95, uxAlerts, uxClock, alertAt, reportAt, reports>>

\* timedelta.seconds: the days of the difference are left out
SecondsOf(later, earlier) == (later - earlier) % DayLength

\* Seeded fault: only the first alert ever sent is looked at.
RecentAlerts_Last(type) ==
  {i \in 1..Len(uxAlerts) : i = 1 /\ uxAlerts[i].type = type /\ SecondsOf(uxClock, uxAlerts[i].at) < Recently}

\* recent_alerts of _send_alert, which returns if there are any
RecentAlerts(type) ==
  {i \in 1..Len(uxAlerts) : uxAlerts[i].type = type /\ SecondsOf(uxClock, uxAlerts[i].at) < Recently}

\* the checks of a pass in order, each with whether it alerts; a labelled Counter has no
\* _sum, so that the second one raises and the pass ends there
Checks == <<[type |-> "response_time", alerting |-> p95 > SlowSum, raises |-> FALSE],
            [type |-> "error_rate", alerting |-> FALSE, raises |-> TRUE],
            [type |-> "completion_rate", alerting |-> gauge["chat_completion_rate"] < 2, raises |-> FALSE],
            [type |-> "satisfaction", alerting |-> gauge["user_satisfaction"] < 2, raises |-> FALSE]>>

\* Seeded fault: a check that raises is skipped, and the others go on.
Reached_All == {i \in 1..Len(Checks) : ~Checks[i].raises}

\* the checks a pass of _check_alerts gets through
Reached == {i \in 1..Len(Checks) : \A j \in 1..i : ~Checks[j].raises}

\* a pass of _check_alerts, with or without the exception followed by a minute's sleep
CheckAlerts ==
  LET due == SelectSeq([i \in 1..Len(Checks) |-> i], LAMBDA i : i \in Reached /\ Checks[i].alerting)
      type(k) == Checks[due[k]].type
      sent == SelectSeq([k \in 1..Len(due) |-> k], LAMBDA k : RecentAlerts(type(k)) = {}) IN
  /\ "alerts" \in monitored /\ uxRunning /\ uxClock = alertAt
  /\ uxAlerts' = uxAlerts \o [k \in 1..Len(sent) |-> [type |-> type(sent[k]), at |-> uxClock]]
  /\ alertAt' = uxClock + 1
  /\ UNCHANGED <<uxRunning, monitored, p95, gauge, uxClock, reportAt, reports>>

\* a pass of _generate_reports once its hour is over: the hourly report reads the same
\* _sum, so the pass raises and the loop sleeps for another hour before its first one
GenerateReports ==
  /\ "reports" \in monitored /\ uxClock = reportAt
  /\ reportAt' = uxClock + 2 * ReportEvery
  /\ UNCHANGED <<uxRunning, monitored, p95, gauge, uxAlerts, uxClock, alertAt, reports>>

\* whether loop l is about to look at is_running: the report loop does in the middle
\* between two passes
Looks(l) ==
  CASE l = "alerts" -> uxClock = alertAt
    [] l = "reports" -> reportAt > ReportEvery /\ uxClock = reportAt - ReportEvery
    [] OTHER -> TRUE

LoopEnds(l) ==
  /\ l \in monitored /\ ~uxRunning /\ Looks(l)
  /\ monitored' = monitored \ {l}
  /\ UNCHANGED <<uxRunning, p95, gauge, uxAlerts, uxClock, alertAt, reportAt, reports>>

StopMonitoring ==
  /\ uxRunning /\ uxRunning' = FALSE
  /\ UNCHANGED <<monitored, p95, gauge, uxAlerts, uxClock, alertAt, reportAt, reports>>

\* KeyboardInterrupt reaches asyncio.run, which cancels every loop and ends the program
Interrupted ==
  /\ monitored # {} /\ uxRunning' = FALSE /\ monitored' = {}
  /\ UNCHANGED <<p95, gauge, uxAlerts, uxClock, alertAt, reportAt, reports>>

\* the clock goes on when the loops that are due have had their pass
UxTick ==
  /\ uxClock < LastUxTick /\ monitored # {}
  /\ "alerts" \in monitored => uxClock < alertAt
  /\ "reports" \in monitored => uxClock < reportAt /\ (uxRunning \/ ~Looks("reports"))
  /\ uxClock' = uxClock + 1
  /\ UNCHANGED <<uxRunning, monitored, p95, gauge, uxAlerts, alertAt, reportAt, reports>>

UxNext ==
  \/ \E port \in BOOLEAN : StartMonitoring(port)
  \/ \E n \in 1..2 : ReadTimes(n)
  \/ \E g \in DOMAIN gauge, v \in 1..2 : ReadGauge(g, v)
  \/ CheckAlerts \/ GenerateReports \/ StopMonitoring \/ Interrupted \/ UxTick
  \/ \E l \in UxLoops : LoopEnds(l)

\* "Don't send duplicate alerts": two alerts of a type are five minutes apart, and never
\* come within five minutes of the same time of day, because .seconds leaves the days out
\* and alerts are never removed: a condition that lasts goes quiet after its first day.
AlertsAreApart ==
  \A i, j \in 1..Len(uxAlerts) :
    i < j /\ uxAlerts[i].type = uxAlerts[j].type =>
      /\ uxAlerts[j].at - uxAlerts[i].at >= Recently
      /\ p95 > SlowSum => uxAlerts[j].at < uxAlerts[1].at + DayLength

\* The pass never gets past the error rates: neither completion nor satisfaction alerts,
\* although both are low before their first reading, and no report is ever made.
LaterChecksStarve ==
  /\ \A i \in 1..Len(uxAlerts) : uxAlerts[i].type = "response_time"
  /\ reports = 0

\* What the monitor says of the experience.
ExperienceHolds == AlertsAreApart /\ LaterChecksStarve

=============================================================================
