------------------------------ MODULE ServiceTree ------------------------------
(***************************************************************************)
(* The scripts that move a service's directory about and write files into  *)
(* it (scripts/migrate_*.py, decisions_apply.py, finalize_migration.py,    *)
(* complete_service_structure.py, generate_*.py and the cleanups), run in  *)
(* any order, dry or with --apply, on one service.  A file is missing, the *)
(* service's own, or written from a template.                              *)
(***************************************************************************)
EXTENDS Integers, Sequences, SequencesExt, FiniteSets

CONSTANTS
  MaxScripts,   \* bound: scripts that are run
  LegacyFiles,  \* the files of platform/legacy-dockerfiles
  MaxMerges,    \* bound: runs of merge_duplicates_and_legacy.py
  MaxDepth      \* nested directories until a path is too long for the file system

ASSUME TreeAssumptions ==
  /\ MaxMerges \in Nat /\ MaxScripts \in Nat /\ MaxDepth \in Nat \ {0}
  /\ "dockerfile" \notin LegacyFiles

VARIABLES
  tree,         \* the directories: services/x, apps/x, apps/<plane>/x, ...
  specs,        \* which of contracts/x.yaml and contracts/x.yml are still there
  rootFile,     \* the files of the repository's root
  protocol,     \* the service's protocol in the scripts' tables
  ran           \* history: how many scripts were run, and which in which mode

treeVars == <<tree, specs, rootFile, protocol, ran>>

\* legacy is <plane>/x-legacy, inside is <plane>/x-legacy/x, backup is apps/x_legacy
Locations == {"services", "apps", "plane", "legacy", "inside", "backup"}
Kinds == {"docker", "make", "readme", "ci", "openapi", "proto", "codegen", "tests",
          "dashboards", "alerts", "slo", "runbook", "manifests", "kustomize", "chart"}
Deploys == {"manifests", "kustomize", "chart"}            \* what lies in deploy/
RootFiles == {"Makefile", "shared"}                       \* /Makefile, /contracts/shared.*
Protocols == {"http", "grpc"}                             \* of the services' tables
Absent == [exists |-> FALSE]

(* A directory that holds nothing.  code is where the service's own Python files are,
   src and base say that src/ and deploy/base/ exist.  dirs and charts are the service
   directories nested in its deploy/, and those of them with a Chart.yaml: a path of
   "D" for deploy/ and "H" for deploy/helm/.  specs are root contracts moved in there,
   sections the files of BuildFiles with a section on generated code. *)
Bare == [exists |-> TRUE, code |-> "none", src |-> FALSE, base |-> FALSE,
         file |-> [k \in Kinds |-> "none"], dirs |-> {}, charts |-> {}, specs |-> {},
         sections |-> {}]

TreeInit ==
  /\ \E start \in {"services", "apps"} :
       tree = [l \in Locations |->
                 IF l = start THEN [Bare EXCEPT !.code = "flat", !.base = TRUE,
                                                !.file = [k \in Kinds |-> "own"]]
                 ELSE Absent]
  /\ specs = {"yaml", "yml"} /\ rootFile = [f \in RootFiles |-> "own"]
  /\ protocol \in Protocols
  /\ ran = [count |-> 0, which |-> {}]

Under == {l \in Locations \ {"services"} : tree[l].exists}
ChartsOf(n) == n.charts \cup (IF n.file["chart"] = "none" THEN {} ELSE {<<>>})


\* write_if_missing
Filled(n, kinds) ==
  [n EXCEPT !.file = [k \in Kinds |->
                        IF k \in kinds /\ n.file[k] = "none" THEN "made" ELSE n.file[k]]]

\* files opened for writing, whatever they held
Overwritten(n, kinds) ==
  [n EXCEPT !.file = [k \in Kinds |-> IF k \in kinds THEN "made" ELSE n.file[k]],
            !.sections = @ \ kinds]

\* ensure_dirs before the first file is written
Made(n) == IF n.exists THEN n ELSE Bare

\* what the templates of each script are for
TreeTemplates == {"openapi", "dashboards", "alerts", "slo", "runbook", "chart", "docker", "tests"}
Phase2Templates == TreeTemplates \ {"chart"}
Phase2Chart == {"chart"}

(* ensure_service_layout and scaffold_service_layout: directories in a dry run too,
   files only with --apply; phase 2 writes the chart whatever is there *)
Layout(n, apply) ==
  LET d == [Made(n) EXCEPT !.src = TRUE] IN IF apply THEN Filled(d, TreeTemplates) ELSE d
LayoutNewChart(n, apply) ==
  LET d == [Made(n) EXCEPT !.src = TRUE]
  IN  IF apply THEN Overwritten(Filled(d, Phase2Templates), Phase2Chart) ELSE d

(* The loops over "deploy/helm/<any>/Chart.yaml" take the directory two or three levels
   above a chart for its service: deploy/helm ("H") or deploy ("D"). *)
Swept(n, from, step, apply) ==
  LET new == {Append(p, step) : p \in from}
  IN  [n EXCEPT !.dirs = @ \cup new, !.charts = IF apply THEN @ \cup new ELSE @]

(* move_dir, move, safe_move: a destination that exists is left alone and the source
   becomes <dst>-legacy, or goes into the <dst>-legacy there is *)
Landing(t) ==
  IF ~t["plane"].exists THEN "plane" ELSE IF ~t["legacy"].exists THEN "legacy" ELSE "inside"
Moved(t, from, apply) ==
  IF apply THEN [t EXCEPT ![from] = Absent, ![Landing(t)] = t[from]] ELSE t

(* shutil.move of contracts/x.yaml and x.yml to <path>/contracts/openapi.yaml of l: the
   last one moved is the one that is left *)
Contracted(t, l, path, files, last) ==
  IF files = {} THEN t
  ELSE [t EXCEPT ![l].specs = {s \in @ : s[1] # path} \cup
                   {<<path, IF last \in files THEN last ELSE CHOOSE f \in files : TRUE>>}]

RunTool(script, apply) ==
  /\ ran.count < MaxScripts
  /\ ran' = [count |-> ran.count + 1, which |-> ran.which \cup {<<script, apply>>}]

Deepest(t) == \A l \in Locations : t[l].exists => \A p \in t[l].dirs : Len(p) <= MaxDepth

(* main of migrate_tree.py: services/x moves, its layout is completed, the contracts
   move, then two passes over the charts: the first where contracts are missing *)
MigrateTree(apply) ==
  LET from == "services"
      moved == IF tree[from].exists
               THEN LET m == Moved(tree, from, apply)
                    IN  [m EXCEPT !["plane"] = Layout(m["plane"], apply)]
               ELSE tree
      owners == {l \in {"plane", "inside"} : moved[l].exists /\ moved[l].file["chart"] # "none"}
      files == IF apply THEN specs ELSE {}
      once(t) == [l \in Locations |->
                    IF l # "services" /\ t[l].exists
                    THEN Swept(t[l], {p \in ChartsOf(t[l]) :
                                        Append(p, "H") \notin t[l].charts \cup {s[1] : s \in t[l].specs}},
                               "H", apply)
                    ELSE t[l]]
      twice(t) == [l \in Locations |->
                     IF l # "services" /\ t[l].exists
                     THEN Swept(t[l], ChartsOf(t[l]), "H", apply) ELSE t[l]]
  IN  /\ RunTool("migrate_tree", apply)
      /\ \/ /\ tree[from].exists /\ apply /\ Landing(tree) = "inside" /\ tree["inside"].exists
            /\ UNCHANGED <<tree, specs>>                     \* shutil.move raises
         \/ /\ ~(tree[from].exists /\ apply /\ Landing(tree) = "inside" /\ tree["inside"].exists)
            /\ IF owners = {} THEN tree' = twice(once(moved)) /\ UNCHANGED specs
               ELSE \E l \in owners : /\ tree' = twice(once(Contracted(moved, l, <<"D">>, files, "yml")))
                                      /\ specs' = specs \ files
      /\ Deepest(tree')

(* main of migrate_tree_phase2.py, for a service it has a target for *)
Phase2(apply) ==
  LET from == "apps"
      moved == IF tree[from].exists
               THEN LET m == Moved(tree, from, apply)
                    IN  [m EXCEPT !["plane"] = LayoutNewChart(m["plane"], apply)]
               ELSE tree
      owners == {l \in Locations \ {"services"} :
                   /\ moved[l].exists /\ moved[l].file["chart"] # "none"
                   /\ l = "legacy" => moved[l].file["chart"] = "own"}
      files == IF apply THEN specs ELSE {}
  IN  /\ RunTool("phase2", apply)
      /\ \/ /\ tree[from].exists /\ apply /\ Landing(tree) = "inside" /\ tree["inside"].exists
            /\ UNCHANGED <<tree, specs>>
         \/ /\ ~(tree[from].exists /\ apply /\ Landing(tree) = "inside" /\ tree["inside"].exists)
            /\ IF owners = {} THEN tree' = moved /\ UNCHANGED specs
               ELSE \E l \in owners : /\ tree' = Contracted(moved, l, <<"H">>, files, "yaml")
                                      /\ specs' = specs \ files

(* main of migrate_tree_phase3.py: the last pass skips paths with deploy/deploy, and so
   the charts it writes itself *)
Phase3(apply) ==
  /\ RunTool("phase3", apply)
  /\ tree' = [l \in Locations |->
                IF l \in Under
                THEN Swept(tree[l], {p \in ChartsOf(tree[l]) : ~Contains(p, "D")}, "D", apply)
                ELSE tree[l]]
  /\ Deepest(tree')
  /\ UNCHANGED specs

(* main of decisions_apply.py: its last loop meets the charts it has just written, one
   level deeper each time, until a path is too long and it raises *)
Deeper(p) == {p \o [i \in 1 .. k |-> "D"] : k \in 1 .. (MaxDepth - Len(p))}
DecisionsApply(apply) ==
  /\ RunTool("decisions", apply)
  /\ \/ /\ \A l \in Under : ChartsOf(tree[l]) = {}
        /\ UNCHANGED tree
     \/ \E l \in Under : \E p \in ChartsOf(tree[l]) :
          /\ apply /\ \A q \in ChartsOf(tree[l]) \ {p} : ~IsPrefix(q, p)
          /\ tree' = [tree EXCEPT ![l].dirs = @ \cup Deeper(p), ![l].charts = @ \cup Deeper(p)]
     \/ /\ ~apply /\ \E l \in Under : ChartsOf(tree[l]) # {}
        /\ tree' = [l \in Locations |->
                      IF l \in Under THEN Swept(tree[l], ChartsOf(tree[l]), "D", FALSE) ELSE tree[l]]
        /\ Deepest(tree')
  /\ UNCHANGED specs

(* migrate_services.py: it makes src/ before it asks whether src/ is missing, so it moves
   no code, and it writes its files whatever is there *)
BuildFiles == {"docker", "make", "readme", "ci"}
ServiceContract == {"openapi"}
BaseManifests == {"manifests", "kustomize"}
ServiceObjectives == {"slo"}
CreateServiceStructure(n) ==
  Overwritten([Made(n) EXCEPT !.src = TRUE, !.base = TRUE],
              BuildFiles \cup ServiceContract \cup BaseManifests \cup ServiceObjectives)
MigrateServices ==
  /\ RunTool("migrate_services", TRUE)
  /\ tree' = [tree EXCEPT !["apps"] = CreateServiceStructure(@)]
  /\ UNCHANGED <<specs, rootFile>>

\* shutil.copytree with dirs_exist_ok
MergedCopy(old, new) ==
  IF ~old.exists THEN new
  ELSE [new EXCEPT !.code = IF @ = "none" THEN old.code ELSE @,
                   !.src = @ \/ old.src, !.base = @ \/ old.base,
                   !.file = [k \in Kinds |-> IF new.file[k] = "none" THEN old.file[k] ELSE new.file[k]],
                   !.dirs = @ \cup old.dirs, !.charts = @ \cup old.charts, !.specs = @ \cup old.specs,
                   !.sections = @ \cup old.sections]

(* finalize_migration.py: backup_and_move_source, then the root Makefile is written *)
FinalizeMigration ==
  /\ RunTool("finalize", TRUE)
  /\ LET n == tree["apps"]
     IN  tree' = IF ~n.exists \/ n.src THEN tree
                 ELSE [tree EXCEPT !["backup"] = MergedCopy(@, n),
                                   !["apps"].src = TRUE,
                                   !["apps"].code = IF @ = "flat" THEN "src" ELSE @]
  /\ rootFile' = [rootFile EXCEPT !["Makefile"] = "made"]
  /\ UNCHANGED specs

(* complete_service_structure.py writes what is missing *)
EnsureDirectoryStructure(n) == [Made(n) EXCEPT !.src = TRUE, !.base = TRUE]
CreateTestsStructure(n) == Filled(n, {"tests"})
CreateObservabilityFiles(n) == Filled(n, {"dashboards", "alerts", "slo", "runbook"})
CreateContracts(n) == Filled(n, {"openapi"})
CompleteStructure ==
  /\ RunTool("complete", TRUE)
  /\ tree' = [tree EXCEPT !["apps"] =
                CreateContracts(CreateObservabilityFiles(CreateTestsStructure(EnsureDirectoryStructure(@))))]
  /\ UNCHANGED <<specs, rootFile>>

(* generate_contracts_and_codegen.py needs apps/x.  The Makefile and the README it only
   appends to, when they are there. *)
CreateOpenapiContract(n) == Overwritten(n, {"openapi"})
CreateGrpcContract(n) == Overwritten(n, {"proto"})
CreateCodegenConfig(n) == Overwritten(n, {"codegen"})
CreateMakefileTargets(n) ==
  IF n.file["make"] = "none" THEN n ELSE [n EXCEPT !.sections = @ \cup {"make"}]
UpdateServiceReadme(n) ==
  IF n.file["readme"] = "none" THEN n ELSE [n EXCEPT !.sections = @ \cup {"readme"}]
CreateSharedContracts(r) == [r EXCEPT !["shared"] = "made"]
GenerateContracts ==
  /\ tree["apps"].exists /\ RunTool("contracts", TRUE)
  /\ LET n == tree["apps"]
         contract == IF protocol = "http" THEN CreateOpenapiContract(n) ELSE CreateGrpcContract(n)
     IN  tree' = [tree EXCEPT !["apps"] =
                    UpdateServiceReadme(CreateMakefileTargets(CreateCodegenConfig(contract)))]
  /\ rootFile' = CreateSharedContracts(rootFile)
  /\ UNCHANGED specs

(* generate_observability.py *)
GenerateDashboard(n) == Overwritten(n, {"dashboards"})
GenerateAlerts(n) == Overwritten(n, {"alerts"})
GenerateSlo(n) == Overwritten(n, {"slo"})
GenerateRunbook(n) == Overwritten(n, {"runbook"})
GenerateObservability ==
  /\ RunTool("observability", TRUE)
  /\ tree' = [tree EXCEPT !["apps"] =
                GenerateRunbook(GenerateSlo(GenerateAlerts(GenerateDashboard(Made(@)))))]
  /\ UNCHANGED <<specs, rootFile>>

(* generate_k8s_manifests.py needs deploy/base: it looks for the manifests, but writes
   the kustomizations whatever they hold *)
CreateBaseManifests(n) == Overwritten(Filled(n, {"manifests"}), {"kustomize"})
CreateEnvironmentOverlays(n) == Overwritten(n, {"kustomize"})
GenerateManifests ==
  /\ tree["apps"].exists /\ tree["apps"].base /\ RunTool("k8s", TRUE)
  /\ tree' = [tree EXCEPT !["apps"] = CreateEnvironmentOverlays(CreateBaseManifests(@))]
  /\ UNCHANGED <<specs, rootFile>>

\* deploy/ is removed and made again with one chart
Rebuilt(n, chart) ==
  [n EXCEPT !.base = FALSE,
            !.file = [k \in Kinds |-> IF k = "chart" THEN chart
                                      ELSE IF k \in Deploys THEN "none" ELSE n.file[k]],
            !.dirs = {}, !.charts = {}, !.specs = {}]
Corrupted == {l \in {"plane", "legacy"} : tree[l].exists /\ <<"D">> \in tree[l].dirs}

(* emergency_cleanup.py rebuilds every corrupted service from its templates *)
EmergencyCleanup ==
  /\ RunTool("emergency", TRUE)
  /\ tree' = [l \in Locations |-> IF l \in Corrupted THEN Rebuilt(tree[l], "made") ELSE tree[l]]
  /\ UNCHANGED specs

(* cleanup_corrupted_directories.py keeps the chart with the most files: nothing to do
   when that is the service's, and there is none to keep without values and templates *)
CleanupCorrupted ==
  /\ RunTool("corrupted", TRUE)
  /\ \E keeps \in SUBSET Corrupted :
       /\ \A l \in Corrupted \ keeps : tree[l].charts # {}
       /\ tree' = [l \in Locations |->
                     IF l \in Corrupted \ keeps THEN Rebuilt(tree[l], "made") ELSE tree[l]]
  /\ UNCHANGED specs

(* final_structure_fix.py keeps a chart that names its service: not one of x in x-legacy *)
FinalStructureFix ==
  /\ RunTool("final", TRUE)
  /\ tree' = [l \in Locations |->
                IF l \in {"plane", "legacy"} /\ tree[l].exists
                THEN Rebuilt(tree[l], IF l = "plane" /\ tree[l].file["chart"] # "none"
                                      THEN tree[l].file["chart"] ELSE "made")
                ELSE tree[l]]
  /\ UNCHANGED specs

(* cleanup_structure.py: a deploy/helm with another helm in it is replaced by the chart
   that has the directory's name, or else by the first one found *)
CleanupStructure ==
  LET nested(n) == \E p \in n.dirs : p[1] = "H"
      flat(n, chart) ==
        [n EXCEPT !.dirs = {p \in @ : ~Contains(p, "H")}, !.charts = {p \in @ : ~Contains(p, "H")},
                  !.specs = IF nested(n) THEN {s \in @ : ~Contains(s[1], "H")} ELSE @,
                  !.file["chart"] = chart]
  IN  /\ RunTool("cleanup", TRUE)
      /\ \E first \in BOOLEAN :
           tree' = [l \in Locations |->
                      IF l \notin Under THEN tree[l]
                      ELSE flat(tree[l],
                                IF nested(tree[l]) /\ l = "legacy" /\ first
                                THEN "made" ELSE tree[l].file["chart"])]
      /\ UNCHANGED specs

TreeNext ==
  /\ UNCHANGED protocol
  /\ \/ /\ UNCHANGED rootFile
        /\ \/ \E apply \in BOOLEAN :
                MigrateTree(apply) \/ Phase2(apply) \/ Phase3(apply) \/ DecisionsApply(apply)
           \/ EmergencyCleanup \/ CleanupCorrupted \/ FinalStructureFix \/ CleanupStructure
     \/ MigrateServices \/ FinalizeMigration \/ CompleteStructure
     \/ GenerateContracts \/ GenerateObservability \/ GenerateManifests

-----------------------------------------------------------------------------
Scripts == {r[1] : r \in {x \in ran.which : x[2]}}
Cleanups == {"emergency", "corrupted", "final", "cleanup"}

\* the scripts that may destroy a service's own file of a kind
Reckless(kind) ==
  (IF kind \in BuildFiles \cup {"openapi", "manifests", "kustomize", "slo"}
   THEN {"migrate_services"} ELSE {}) \cup
  (IF kind \in {"openapi", "proto", "codegen"} THEN {"contracts"} ELSE {}) \cup
  (IF kind \in {"dashboards", "alerts", "slo", "runbook"} THEN {"observability"} ELSE {}) \cup
  (IF kind = "kustomize" THEN {"k8s"} ELSE {}) \cup
  (IF kind \in Deploys THEN Cleanups ELSE {}) \cup (IF kind = "chart" THEN {"phase2"} ELSE {})

(* Whatever scripts are run, in whatever order, dry or not, and however often: the
   service's own code is in one place, not counting a backup; a file of its own is gone
   only after a script that writes or removes such files without looking, and so are the
   root's; a contract
   written at the root is gone only when another one was moved over it or a cleanup
   removed it; and directories nest beyond deploy/deploy only after decisions_apply.py. *)
TreeIsSafe ==
  /\ Cardinality({l \in Locations \ {"backup"} : tree[l].exists /\ tree[l].code # "none"}) = 1
  /\ \A k \in Kinds :
       \/ \E l \in Locations : tree[l].exists /\ tree[l].file[k] = "own"
       \/ Scripts \cap Reckless(k) # {}
  /\ rootFile["Makefile"] = "own" \/ "finalize" \in Scripts
  /\ rootFile["shared"] = "own" \/ "contracts" \in Scripts
  /\ \A s \in {"yaml", "yml"} \ specs :
       \/ \E l \in Under : \E m \in tree[l].specs : m[2] = s
       \/ \E l \in Under : tree[l].specs # {}
       \/ Scripts \cap Cleanups # {}
  /\ \A l \in Under : \A p \in tree[l].dirs :
       Len(SelectSeq(p, LAMBDA d : d = "D")) > 1 => \E r \in ran.which : r[1] = "decisions"

-----------------------------------------------------------------------------
(* scripts/merge_duplicates_and_legacy.py, run again and again over the legacy
   Dockerfile of one service and the legacy files of the platform.  Each file gets a
   header and then a new name; a run may die between the two. *)
VARIABLES
  dockerfile,   \* Dockerfile.legacy and Dockerfile_legacy_todo of the service
  legacy,       \* per platform file: headers and suffixes it has, whether it is whole
  merging,      \* the run under way, the files it has yet to visit and those it has done
  techDebt,     \* TECH-DEBT.md
  mergeLog      \* history: runs, and errors they met

mergeVars == <<dockerfile, legacy, merging, techDebt, mergeLog>>

\* A text with n headers; a failed write leaves nothing of it.
Text(n) == [headers |-> n, whole |-> TRUE]
NoText == [headers |-> -1, whole |-> FALSE]
NoMerge == [pc |-> "idle", left |-> {}, done |-> {}]

MergeInit ==
  /\ dockerfile = [legacy |-> Text(0), todo |-> NoText]
  /\ legacy = [f \in LegacyFiles |-> [text |-> Text(0), suffixes |-> 0]]
  /\ merging = NoMerge /\ techDebt = {}
  /\ mergeLog = [runs |-> 0, faults |-> 0]

\* Seeded fault: only the header is written back.
WithHeader_Alone(t) == [headers |-> 1, whole |-> FALSE]

\* add_todo_header: the text with one header more
WithHeader(t) == [t EXCEPT !.headers = @ + 1]

\* ... or an error it reports as False: nothing read, or nothing left after truncation
HeaderFails(t) == {t, [headers |-> 0, whole |-> FALSE]}

BeginMerge ==
  /\ merging.pc = "idle" /\ mergeLog.runs < MaxMerges
  /\ merging' = [NoMerge EXCEPT !.pc = "dockerfile"]
  /\ mergeLog' = [mergeLog EXCEPT !.runs = @ + 1]
  /\ UNCHANGED <<dockerfile, legacy, techDebt>>

Faulty == mergeLog' = [mergeLog EXCEPT !.faults = @ + 1]

(* merge_dockerfile_conflicts, and the directory listing that follows.  The move
   replaces a file an earlier run has left. *)
MergeDockerfile ==
  /\ merging.pc = "dockerfile"
  /\ LET old == dockerfile.legacy
         on(done) == [pc |-> "platform", left |-> LegacyFiles, done |-> done]
     IN  \/ /\ old = NoText
            /\ merging' = on({}) /\ UNCHANGED <<dockerfile, mergeLog>>
         \/ /\ old # NoText
            /\ dockerfile' = [legacy |-> NoText, todo |-> WithHeader(old)]
            /\ merging' = on({"dockerfile"}) /\ UNCHANGED mergeLog
         \/ /\ old # NoText
            /\ \E t \in HeaderFails(old) : dockerfile' = [dockerfile EXCEPT !.legacy = t]
            /\ merging' = on({}) /\ Faulty
         \/ /\ old # NoText      \* the move raises
            /\ dockerfile' = [dockerfile EXCEPT !.legacy = WithHeader(old)]
            /\ merging' = NoMerge /\ Faulty
  /\ UNCHANGED <<legacy, techDebt>>

(* consolidate_platform_legacy: the next file of the listing, which is every file of
   the directory, visited by an earlier run or not *)
MergePlatformFile(f) ==
  /\ merging.pc = "platform" /\ f \in merging.left
  /\ LET on(done) == [merging EXCEPT !.left = @ \ {f}, !.done = @ \cup done]
     IN  \/ /\ legacy' = [legacy EXCEPT ![f] = [text |-> WithHeader(@.text),
                                                suffixes |-> @.suffixes + 1]]
            /\ merging' = on({f}) /\ UNCHANGED mergeLog
         \/ /\ \E t \in HeaderFails(legacy[f].text) : legacy' = [legacy EXCEPT ![f].text = t]
            /\ merging' = on({}) /\ Faulty
         \/ /\ legacy' = [legacy EXCEPT ![f].text = WithHeader(@)]
            /\ merging' = NoMerge /\ Faulty
  /\ UNCHANGED <<dockerfile, techDebt>>

\* generate_tech_debt_md over what this run has processed
WriteTechDebt ==
  /\ merging.pc = "platform" /\ merging.left = {}
  /\ techDebt' = merging.done
  /\ merging' = NoMerge
  /\ UNCHANGED <<dockerfile, legacy, mergeLog>>

\* Between runs somebody brings the legacy Dockerfile back.
BringBack ==
  /\ merging.pc = "idle" /\ dockerfile.legacy = NoText
  /\ dockerfile' = [dockerfile EXCEPT !.legacy = Text(0)]
  /\ UNCHANGED <<legacy, merging, techDebt, mergeLog>>

MergeNext ==
  \/ BeginMerge \/ MergeDockerfile \/ WriteTechDebt \/ BringBack
  \/ \E f \in LegacyFiles : MergePlatformFile(f)

(* Without a fault every run renames every platform file once more, header for suffix,
   and the registry lists them all afterwards; headers and suffixes drift apart by no
   more than the faults met, a text is lost to a fault only, and a Dockerfile that the
   registry lists has been set aside, with one header however often it was brought back. *)
LegacyIsTraced ==
  /\ \A f \in LegacyFiles :
       /\ legacy[f].suffixes <= mergeLog.runs
       /\ legacy[f].text.headers - legacy[f].suffixes \in -MaxMerges .. mergeLog.faults
       /\ mergeLog.faults = 0 =>
            legacy[f].text.whole /\ legacy[f].text.headers = legacy[f].suffixes
  /\ merging.pc = "idle" /\ mergeLog.faults = 0 /\ mergeLog.runs > 0 =>
       /\ LegacyFiles \subseteq techDebt
       /\ \A f \in LegacyFiles : legacy[f].suffixes = mergeLog.runs
  /\ "dockerfile" \in techDebt => dockerfile.todo # NoText
  /\ dockerfile.todo # NoText /\ mergeLog.faults = 0 => dockerfile.todo.headers = 1
================================================================================
