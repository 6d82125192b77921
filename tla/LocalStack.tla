------------------------------ MODULE LocalStack ------------------------------
(***************************************************************************)
(* The scripts that run the platform on a developer's machine, two         *)
(* machines of their own.  The native stack: start-local-dev.sh and        *)
(* stop-local-dev.sh with processes, ports and pid files.  The container   *)
(* stack: start-infrastructure, start-backend, start-frontend,             *)
(* start-local, restart-service and stop-service, run from two terminals.  *)
(* The many services are one of each kind: nats, an application three      *)
(* directories deep, a front end two directories deep.                     *)
(***************************************************************************)
EXTENDS Integers, Sequences, FiniteSets

CONSTANTS
  StackPids,      \* process ids of the machine
  MaxStackRuns,   \* bound: runs of the native scripts
  Terminals,      \* terminals in which container scripts run
  MaxComposeRuns      \* bound: runs of the container scripts

ASSUME StackAssumptions ==
  StackPids \subseteq Nat \ {0} /\ MaxStackRuns \in Nat /\ MaxComposeRuns \in Nat

VARIABLES
  process,     \* what runs under each pid: a service, "other", or "none"
  listener,    \* the pid listening on each service's port; Child: a server npm left; 0: none
  pidFile,     \* logs/<service>.pid, 0: no file
  appsLogs,    \* apps/logs exists, which is where "../../logs" of an application points
  script,      \* the native script that runs: its name, position and stage
  stackRuns,
  untracked,   \* history: processes no pid file in logs/ names any more
  lastScript   \* history: the last script that ran to its end

stackVars == <<process, listener, pidFile, appsLogs, script, stackRuns, untracked, lastScript>>

Stack == <<"nats", "app", "web">>
StackServices == {"nats", "app", "web"}
Child == -1
NoScript == [name |-> "none", at |-> 0, stage |-> "next"]

StackInit ==
  /\ process = [p \in StackPids |-> "none"] /\ listener = [s \in StackServices |-> 0]
  /\ pidFile = [s \in StackServices |-> 0] /\ appsLogs \in BOOLEAN
  /\ script = NoScript /\ stackRuns = 0 /\ untracked = {} /\ lastScript = "none"

RunScript(name) ==
  /\ script = NoScript /\ stackRuns < MaxStackRuns
  /\ script' = [name |-> name, at |-> 1, stage |-> "next"] /\ stackRuns' = stackRuns + 1
  /\ lastScript' = "none"
  /\ UNCHANGED <<process, listener, pidFile, appsLogs, untracked>>

\* the service that the running script has come to; stop-local-dev.sh goes backwards
Turn == IF script.name = "start" THEN Stack[script.at] ELSE Stack[Len(Stack) + 1 - script.at]
AtNext(name) == script.name = name /\ script.stage = "next" /\ script.at <= Len(Stack)
NextTurn == [script EXCEPT !.at = @ + 1, !.stage = "next"]

\* start_service, start_frontend and nc -z: a port in use skips the service
SkipService ==
  /\ AtNext("start") /\ listener[Turn] # 0
  /\ script' = NextTurn
  /\ UNCHANGED <<process, listener, pidFile, appsLogs, stackRuns, untracked, lastScript>>

\* Seeded fault: the pid file is only written where there is none.
Recorded_First(s, p) == IF s = "app" \/ pidFile[s] # 0 THEN pidFile ELSE [pidFile EXCEPT ![s] = p]

\* echo $pid > "../../logs/...": the file of an application lands in apps/logs
Recorded(s, p) == IF s = "app" THEN pidFile ELSE [pidFile EXCEPT ![s] = p]

\* the processes that no file names once p of service s has been recorded
NowLost(s, p) == IF s = "app" THEN {p} ELSE {pidFile[s]} \cap {q \in StackPids : process[q] = s}

\* the process is started in the background and is reported started, whatever becomes of it
LaunchService(p) ==
  /\ AtNext("start") /\ listener[Turn] = 0 /\ process[p] = "none"
  /\ Turn = "app" => appsLogs
  /\ process' = [process EXCEPT ![p] = Turn] /\ pidFile' = Recorded(Turn, p)
  /\ untracked' = untracked \cup NowLost(Turn, p) /\ script' = NextTurn
  /\ UNCHANGED <<listener, appsLogs, stackRuns, lastScript>>

\* without apps/logs neither the log nor the pid file can be written: set -e ends the script
LaunchFails ==
  /\ AtNext("start") /\ listener[Turn] = 0 /\ Turn = "app" /\ ~appsLogs
  /\ script' = NoScript
  /\ UNCHANGED <<process, listener, pidFile, appsLogs, stackRuns, untracked, lastScript>>

\* check_service
StackStatus(s) ==
  IF pidFile[s] = 0 THEN "not started" ELSE
  IF process[pidFile[s]] = "none" THEN "stopped" ELSE
  IF listener[s] # 0 THEN "running" ELSE "starting"

\* stop_service: kill -0 of the recorded pid; without a file there is a warning
CheckRecorded ==
  /\ AtNext("stop")
  /\ IF pidFile[Turn] # 0 /\ process[pidFile[Turn]] # "none"
     THEN script' = [script EXCEPT !.stage = "alive"] /\ UNCHANGED pidFile
     ELSE script' = NextTurn /\ pidFile' = [pidFile EXCEPT ![Turn] = 0]
  /\ UNCHANGED <<process, listener, appsLogs, stackRuns, untracked, lastScript>>

\* what is left when p ends; npm takes its server with it unless it is killed with -9
Without(p) == [process EXCEPT ![p] = "none"]
Freed(p) == [s \in StackServices |-> IF listener[s] = p THEN 0 ELSE listener[s]]
FreedByForce(p) == [s \in StackServices |->
  IF listener[s] # p THEN listener[s] ELSE IF s = "web" THEN Child ELSE 0]

\* kill: the signal reaches a process, which may end at once, later, or never; if it
\* ended since kill -0 the command fails and set -e ends the script
TermSent(ends) ==
  LET p == pidFile[Turn] IN
  /\ script.name = "stop" /\ script.stage = "alive"
  /\ script' = IF process[p] = "none" THEN NoScript ELSE [script EXCEPT !.stage = "signalled"]
  /\ IF ends /\ process[p] # "none"
     THEN process' = Without(p) /\ listener' = Freed(p) /\ untracked' = untracked \ {p}
     ELSE UNCHANGED <<process, listener, untracked>>
  /\ UNCHANGED <<pidFile, appsLogs, stackRuns, lastScript>>

\* Seeded fault: a process that ignores the signal is left alone.
Forced_Never(p) == process

\* kill -9
Forced(p) == Without(p)

\* a second later: kill -9 if it is still there; the pid file goes
StopEnds ==
  LET p == pidFile[Turn] IN
  /\ script.name = "stop" /\ script.stage = "signalled"
  /\ IF process[p] = "none" THEN UNCHANGED <<process, listener, untracked>>
     ELSE process' = Forced(p) /\ listener' = FreedByForce(p) /\ untracked' = untracked \ {p}
  /\ pidFile' = [pidFile EXCEPT ![Turn] = 0] /\ script' = NextTurn
  /\ UNCHANGED <<appsLogs, stackRuns, lastScript>>

\* the end of a script: "All services started successfully!" with the statuses, or the
\* question whether to remove logs/*.log and logs/*.pid
ScriptEnds(remove) ==
  /\ script.name # "none" /\ script.at > Len(Stack)
  /\ pidFile' = IF remove /\ script.name = "stop" THEN [s \in StackServices |-> 0] ELSE pidFile
  /\ script' = NoScript /\ lastScript' = script.name
  /\ UNCHANGED <<process, listener, appsLogs, stackRuns, untracked>>

\* the processes: one binds its port, or ends because another has it; one ends by itself;
\* one that has nothing to do with the stack begins under a free pid
Binds(p) ==
  /\ process[p] \in StackServices /\ \A s \in StackServices : listener[s] # p
  /\ IF listener[process[p]] = 0
     THEN listener' = [listener EXCEPT ![process[p]] = p] /\ UNCHANGED <<process, untracked>>
     ELSE process' = Without(p) /\ untracked' = untracked \ {p} /\ UNCHANGED listener
  /\ UNCHANGED <<pidFile, appsLogs, script, stackRuns, lastScript>>
EndsByItself(p) ==
  /\ process[p] # "none"
  /\ process' = Without(p) /\ listener' = Freed(p) /\ untracked' = untracked \ {p}
  /\ UNCHANGED <<pidFile, appsLogs, script, stackRuns, lastScript>>
ChildEnds ==
  /\ listener["web"] = Child /\ listener' = [listener EXCEPT !["web"] = 0]
  /\ UNCHANGED <<process, pidFile, appsLogs, script, stackRuns, untracked, lastScript>>
OtherBegins(p) ==
  /\ process[p] = "none" /\ process' = [process EXCEPT ![p] = "other"]
  /\ UNCHANGED <<listener, pidFile, appsLogs, script, stackRuns, untracked, lastScript>>

StackNext ==
  \/ \E name \in {"start", "stop"} : RunScript(name)
  \/ SkipService \/ LaunchFails \/ CheckRecorded \/ StopEnds \/ ChildEnds
  \/ \E p \in StackPids : LaunchService(p) \/ Binds(p) \/ EndsByItself(p) \/ OtherBegins(p)
  \/ \E b \in BOOLEAN : TermSent(b) \/ ScriptEnds(b)

\* A run of stop-local-dev.sh that gets to its end leaves no process of the stack but
\* those no pid file in logs/ named: the applications, and processes whose file a later
\* start overwrote because they had not bound their port yet.  The server that npm leaves
\* behind when it is killed by force is none of these processes: it is seen only at the
\* web port, where it may listen on after the stop.  The file of an application
\* is never in logs/, so check_service calls it "Not started" whatever runs.
StopLeavesOnlyLost ==
  lastScript = "stop" =>
    /\ \A p \in StackPids : process[p] \in StackServices => p \in untracked
    /\ \A s \in StackServices : pidFile[s] = 0
AppsLookStopped == StackStatus("app") = "not started"

-----------------------------------------------------------------------------
VARIABLES
  container,  \* each container: "absent", "starting", "ready" or "exited"
  terminal,   \* the script in each terminal: what it still has to do, and what it waited for
  upset,      \* history: terminals whose script another script or an exit disturbed
  scripts

composeVars == <<container, terminal, upset, scripts>>

ContainerNames == {"infra", "gateway", "front"}
Below == [infra |-> {}, gateway |-> {"infra"}, front |-> {"infra", "gateway"}]

\* what each script does, a step at a time
ComposeSteps == [
  infrastructure |-> <<<<"up", "infra">>, <<"wait", "infra">>>>,
  backend |-> <<<<"check", "infra">>, <<"up", "gateway">>, <<"wait", "gateway">>>>,
  frontend |-> <<<<"check", "gateway">>, <<"up", "front">>, <<"wait", "front">>>>,
  local |-> <<<<"down", "infra">>, <<"up", "infra">>, <<"wait", "infra">>,
              <<"up", "gateway">>, <<"wait", "gateway">>, <<"up", "front">>, <<"wait", "front">>>>,
  restartGateway |-> <<<<"restart", "gateway">>, <<"wait", "gateway">>>>,
  stopGateway |-> <<<<"stop", "gateway">>>>]

Quiet == [todo |-> <<>>, waited |-> {}, told |-> FALSE]

ComposeInit ==
  /\ container = [c \in ContainerNames |-> "absent"] /\ terminal = [t \in Terminals |-> Quiet]
  /\ upset = {} /\ scripts = 0

RunCompose(t, name) ==
  /\ terminal[t].todo = <<>> /\ scripts < MaxComposeRuns
  /\ terminal' = [terminal EXCEPT ![t] = [todo |-> ComposeSteps[name], waited |-> {}, told |-> FALSE]]
  /\ scripts' = scripts + 1 /\ upset' = upset \ {t}
  /\ UNCHANGED container

Doing(t, what) == terminal[t].todo # <<>> /\ Head(terminal[t].todo)[1] = what
Of(t) == Head(terminal[t].todo)[2]

\* set -e and exit 1 drop the rest of the script; the last step ends it with its report
GiveUp(t) == terminal' = [terminal EXCEPT ![t] = Quiet]
Proceed(t, heard) ==
  LET rest == Tail(terminal[t].todo) IN
  terminal' = [terminal EXCEPT ![t] =
    [todo |-> rest, waited |-> @.waited \cup heard, told |-> rest = <<>>]]

\* taking a container away may belie the scripts of the other terminals
Disturbed(t) == upset \cup (Terminals \ {t})

\* up -d starts what is not running, with what it depends on; a port in use or an
\* image that does not build fails the script
ComposeUp(t) ==
  LET begun == {c \in Below[Of(t)] \cup {Of(t)} : container[c] \notin {"starting", "ready"}} IN
  /\ Doing(t, "up")
  /\ container' = [c \in ContainerNames |-> IF c \in begun THEN "starting" ELSE container[c]]
  /\ Proceed(t, {}) /\ UNCHANGED <<upset, scripts>>
ComposeFails(t) ==
  /\ Doing(t, "up") \/ Doing(t, "restart") \/ Doing(t, "stop")
  /\ GiveUp(t) /\ UNCHANGED <<container, upset, scripts>>

\* down || true takes every container away; restart and stop one of them
ComposeDown(t) ==
  /\ Doing(t, "down")
  /\ container' = [c \in ContainerNames |-> "absent"] /\ Proceed(t, {})
  /\ upset' = Disturbed(t) /\ UNCHANGED scripts
ComposeRestart(t) ==
  /\ Doing(t, "restart") /\ container[Of(t)] # "absent"
  /\ container' = [container EXCEPT ![Of(t)] = "starting"] /\ Proceed(t, {})
  /\ upset' = Disturbed(t) /\ UNCHANGED scripts
ComposeStop(t) ==
  /\ Doing(t, "stop") /\ container[Of(t)] # "absent"
  /\ container' = [container EXCEPT ![Of(t)] = "exited"] /\ Proceed(t, {})
  /\ upset' = Disturbed(t) /\ UNCHANGED scripts

\* a check before the start looks once; a wait looks until the container answers
ComposeCheck(t) ==
  /\ Doing(t, "check")
  /\ IF container[Of(t)] = "ready" THEN Proceed(t, {Of(t)}) ELSE GiveUp(t)
  /\ UNCHANGED <<container, upset, scripts>>

\* Seeded fault: the script waits for the container to run, not for its answer.
Answering_Running(c) == container[c] \in {"starting", "ready"}

\* pg_isready, redis-cli ping, nats server check, curl -f of the health page
Answering(c) == container[c] = "ready"
ComposeWait(t) ==
  /\ Doing(t, "wait") /\ Answering(Of(t))
  /\ Proceed(t, {Of(t)}) /\ UNCHANGED <<container, upset, scripts>>

\* Docker: a container gets ready, or exits
ContainerReady(c) ==
  /\ container[c] = "starting" /\ container' = [container EXCEPT ![c] = "ready"]
  /\ UNCHANGED <<terminal, upset, scripts>>
ContainerExits(c) ==
  /\ container[c] \in {"starting", "ready"} /\ container' = [container EXCEPT ![c] = "exited"]
  /\ upset' = Terminals /\ UNCHANGED <<terminal, scripts>>

ComposeNext ==
  \/ \E t \in Terminals :
       \/ \E name \in DOMAIN ComposeSteps : RunCompose(t, name)
       \/ ComposeUp(t) \/ ComposeFails(t) \/ ComposeDown(t) \/ ComposeRestart(t)
       \/ ComposeStop(t) \/ ComposeCheck(t) \/ ComposeWait(t)
  \/ \E c \in ContainerNames : ContainerReady(c) \/ ContainerExits(c)

\* "All services started successfully!": when a script has ended with its report, every
\* container it waited for still answers, unless a script in another terminal or an exit
\* came in between.
ReportIsTrue ==
  \A t \in Terminals \ upset :
    terminal[t].told => \A c \in terminal[t].waited : container[c] = "ready"

\* Both families of scripts leave what they say they leave.
LocalScriptsHold == StopLeavesOnlyLost /\ AppsLookStopped /\ ReportIsTrue
===============================================================================
