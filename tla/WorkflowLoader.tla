---------------------------- MODULE WorkflowLoader ----------------------------
(***************************************************************************)
(* libs/workflows/workflow_loader.py: loading a workflow from a dictionary *)
(* (insert_after, then _validate_spec with its depth-first search for      *)
(* cycles) and by name (files, overrides, cache); and the WorkflowLoader   *)
(* of the orchestrator, its directory scan and its validate_workflow.      *)
(*                                                                         *)
(* A node is its id; _validate_step accepts the steps or does not.  Names, *)
(* settings and texts are left out, and so are patch, which changes no id, *)
(* and extends, whose result is not validated.                             *)
(***************************************************************************)
EXTENDS Integers, Sequences, SequencesExt, FiniteSets, FiniteSetsExt

CONSTANTS
  NodeLists,    \* the lists of nodes of documents
  NewNodes,     \* a list of nodes to insert
  MaxEdges,     \* bound: edges of a document
  MaxLoads      \* bound: loads of a document

ASSUME WorkflowAssumptions ==
  /\ \A ns \in NodeLists \cup {NewNodes} : ns \in Seq(ToSet(ns))
  /\ {MaxEdges, MaxLoads} \subseteq Nat

EndNode == "end"          \* a target that need not be a node
Stranger == "stranger"    \* no node at all

VARIABLES
  document,     \* the dictionary of the caller: nodes, edges, insert
  loads,        \* loads of it begun so far
  search,       \* the depth-first search: visited and the frames of has_cycle
  outcome,      \* of the load: "none", "searching", "loaded" or why it raised
  original      \* history: the document as it was first given

workflowVars == <<document, loads, search, outcome, original>>

NoDocument == [nodes |-> <<>>, edges |-> {}, insert |-> <<>>]
NoSearch == [visited |-> {}, frames |-> <<>>]

LoaderInit ==
  /\ document = NoDocument /\ original = NoDocument
  /\ loads = 0 /\ search = NoSearch /\ outcome = "none"

\* Any document; insert is the entry of insert_after: the id and the nodes to insert.
GiveDocument(ns, es, ins) ==
  /\ document = NoDocument /\ loads = 0
  /\ document' = [nodes |-> ns, edges |-> es, insert |-> ins]
  /\ original' = document'
  /\ UNCHANGED <<loads, search, outcome>>

\* The j-th new node x goes behind the node at p, with an edge from that and one to
\* the node it comes to stand before.
InsertOne(d, p, j, x) ==
  LET ns == InsertAt(d.nodes, p + j, x)
  IN  [nodes |-> ns,
       edges |-> d.edges \cup {<<d.nodes[p], x>>}
                         \cup (IF p + j < Len(ns) THEN {<<x, ns[p + j + 1]>>} ELSE {}),
       insert |-> d.insert]

(* _apply_insert_after changes the caller's own lists; only the entry itself is taken
   from a copy. *)
Inserted(d) ==
  IF d.insert = <<>> \/ d.insert[1] \notin ToSet(d.nodes) THEN d
  ELSE LET p == CHOOSE i \in DOMAIN d.nodes :
                  /\ d.nodes[i] = d.insert[1]
                  /\ \A h \in 1 .. i - 1 : d.nodes[h] # d.insert[1]
           new == d.insert[2]
           grown[j \in 0 .. Len(new)] ==
             IF j = 0 THEN d ELSE InsertOne(grown[j - 1], p, j, new[j])
       IN  grown[Len(new)]

UniqueIds(d) == Cardinality(ToSet(d.nodes)) = Len(d.nodes)
KnownEdges(d) ==
  \A e \in d.edges : e[1] \in ToSet(d.nodes) /\ e[2] \in ToSet(d.nodes) \cup {EndNode}

(* _load_workflow_from_data up to _check_circular_dependencies *)
LoadFromData ==
  /\ document # NoDocument /\ outcome # "searching" /\ loads < MaxLoads
  /\ loads' = loads + 1
  /\ document' = Inserted(document)
  /\ outcome' = IF ~UniqueIds(document') THEN "duplicate"
                ELSE IF ~KnownEdges(document') THEN "unknown" ELSE "searching"
  /\ search' = NoSearch
  /\ UNCHANGED original

Frame(n) == [node |-> n, todo |-> {e[2] : e \in {x \in document.edges : x[1] = n}}]
Top == search.frames[Len(search.frames)]

\* Seeded fault: nodes stay on rec_stack when has_cycle has left them.
RecStack_Stays == search.visited

\* rec_stack: the nodes that has_cycle has entered and not left
RecStack == {search.frames[i].node : i \in DOMAIN search.frames}

Enter(n, frames) == [visited |-> search.visited \cup {n}, frames |-> Append(frames, Frame(n))]

\* the loop over the steps: the next one that was not visited, in the order of the list
SearchFrom(i) ==
  /\ outcome = "searching" /\ search.frames = <<>>
  /\ document.nodes[i] \notin search.visited
  /\ \A h \in 1 .. i - 1 : document.nodes[h] \in search.visited
  /\ search' = Enter(document.nodes[i], <<>>)
  /\ UNCHANGED <<document, loads, outcome, original>>

\* has_cycle looks at a neighbor (edges keep the order of the file: any)
LookAt(n) ==
  /\ outcome = "searching" /\ search.frames # <<>> /\ n \in Top.todo
  /\ LET rest == [search.frames EXCEPT ![Len(search.frames)].todo = @ \ {n}]
     IN  IF n \notin search.visited
         THEN search' = Enter(n, rest) /\ UNCHANGED outcome
         ELSE /\ search' = [visited |-> search.visited, frames |-> rest]
              /\ outcome' = IF n \in RecStack THEN "circular" ELSE outcome
  /\ UNCHANGED <<document, loads, original>>

\* rec_stack.remove(node)
Left == [visited |-> search.visited, frames |-> Front(search.frames)]

Backtrack ==
  /\ outcome = "searching" /\ search.frames # <<>> /\ Top.todo = {}
  /\ search' = Left
  /\ UNCHANGED <<document, loads, outcome, original>>

\* the end of _validate_spec: _validate_step of every step
SearchEnds(ok) ==
  /\ outcome = "searching" /\ search.frames = <<>>
  /\ ToSet(document.nodes) \subseteq search.visited
  /\ outcome' = IF ok THEN "loaded" ELSE "invalidStep"
  /\ UNCHANGED <<document, loads, search, original>>

(* The orchestrator's validate_workflow, which does not look for cycles and knows no
   end that is not a node. *)
ValidateWorkflow(d, hasStart) ==
  /\ UniqueIds(d) /\ hasStart
  /\ \A e \in d.edges : {e[1], e[2]} \subseteq ToSet(d.nodes)

LoaderNext ==
  \/ /\ document = NoDocument
     /\ \E ns \in NodeLists :
          \E es \in kSubset(MaxEdges, ToSet(ns) \X (ToSet(ns) \cup {EndNode, Stranger})),
             ins \in {<<>>} \cup (ToSet(ns) \X {NewNodes}) : GiveDocument(ns, es, ins)
  \/ LoadFromData \/ Backtrack
  \/ \E ok \in BOOLEAN : SearchEnds(ok)
  \/ \E i \in DOMAIN document.nodes : SearchFrom(i)
  \/ \E n \in ToSet(document.nodes) \cup {EndNode} : LookAt(n)

\* The reference definition: some nodes, each of which leads to one of them.
HasCycle(d) ==
  \E S \in (SUBSET ToSet(d.nodes)) \ {{}} : \A n \in S : \E e \in d.edges : e[1] = n /\ e[2] \in S

Forward(d) ==
  \A i, j \in DOMAIN d.nodes : <<d.nodes[i], d.nodes[j]>> \in d.edges => i < j

\* The ids to insert are new and differ.
NewIds(d) ==
  IsInjective(NewNodes) /\ ToSet(NewNodes) \cap (ToSet(d.nodes) \cup {EndNode}) = {}
WellFormed(d) == UniqueIds(d) /\ KnownEdges(d) /\ Forward(d) /\ NewIds(d)

(* A workflow is loaded only without a cycle and refused as circular only with one.  What
   is loaded the orchestrator calls valid as well, unless it leads to the end that is not
   a node. *)
CyclesAreFound ==
  /\ outcome = "loaded" =>
       /\ ~HasCycle(document)
       /\ {e \in document.edges : e[2] = EndNode} = {} =>
            ValidateWorkflow(document, TRUE)
  /\ outcome = "circular" => HasCycle(document)

(* A first load puts the new nodes in order behind the one they are to follow, the old
   ones around them; where the edges lead forward and the ids are unique, the new ones
   among them, it is not refused because of what it inserts.  A document with an insertion
   that took place cannot be loaded again, because it already contains the new nodes. *)
InsertionIsExact ==
  /\ loads = 1 =>
       \/ /\ original.insert = <<>> \/ original.insert[1] \notin ToSet(original.nodes)
          /\ document = original
       \/ LET old == original.nodes
          IN  \E p \in DOMAIN old :
                /\ old[p] = original.insert[1]
                /\ document.nodes =
                     SubSeq(old, 1, p) \o original.insert[2] \o SubSeq(old, p + 1, Len(old))
  /\ loads = 1 /\ WellFormed(original) =>
       outcome \in {"searching", "loaded", "invalidStep"} /\ Forward(document)
  /\ loads > 1 /\ original # document => outcome = "duplicate"

-----------------------------------------------------------------------------
(* Loading by name.  _merge_specs asks whether "nodes" is in the override, which is a
   WorkflowSpec and no dictionary: TypeError.  So a load succeeds only where there is
   no override, and its result stays in the cache whatever becomes of the files. *)
CONSTANTS
  Revisions,    \* contents of a file that are valid workflows
  MaxEdits      \* bound: edits of files

VARIABLES
  files,        \* usecase, base, tenant (or default) and environment file of a name
  cached,       \* the entries with and without a tenant: a revision or "none"
  edits,
  answered      \* history: what the last load of an entry returned or raised

Overrides == {"tenant", "environment"}
Places == {"usecase", "base"} \cup Overrides
Entries == {"tenant", "plain"}
namedVars == <<files, cached, edits, answered>>

NamedInit ==
  /\ files = [p \in Places |-> "absent"] /\ edits = 0
  /\ cached = [e \in Entries |-> "none"] /\ answered = [e \in Entries |-> "none"]

EditFile(p, c) ==
  /\ edits < MaxEdits /\ files[p] # c
  /\ files' = [files EXCEPT ![p] = c] /\ edits' = edits + 1
  /\ UNCHANGED <<cached, answered>>

\* _load_base_workflow: the use case, or else the base
BaseSpec == IF files["usecase"] # "absent" THEN files["usecase"] ELSE files["base"]

\* Seeded fault: the result is kept before it has been validated.
Kept_Early(e) == BaseSpec

\* the line that fills the cache, after _validate_spec
Kept(e) == IF BaseSpec \in Revisions THEN BaseSpec ELSE cached[e]

Overridden(e) ==
  \/ e = "tenant" /\ files["tenant"] # "absent"
  \/ files["environment"] # "absent"

LoadByName(e) ==
  /\ IF cached[e] # "none"
     THEN answered' = [answered EXCEPT ![e] = cached[e]] /\ UNCHANGED cached
     ELSE LET raises == BaseSpec = "absent" \/ Overridden(e)
          IN  /\ cached' = IF raises THEN cached ELSE [cached EXCEPT ![e] = Kept(e)]
              /\ answered' = [answered EXCEPT ![e] =
                    IF raises \/ BaseSpec \notin Revisions THEN "raised" ELSE BaseSpec]
  /\ UNCHANGED <<files, edits>>

ClearCache ==
  /\ cached' = [e \in Entries |-> "none"]
  /\ UNCHANGED <<files, edits, answered>>

NamedNext ==
  \/ \E p \in Places, c \in Revisions \cup {"absent", "broken"} : EditFile(p, c)
  \/ \E e \in Entries : LoadByName(e)
  \/ ClearCache

(* Only valid workflows are kept and returned, a load that raises keeps none, and what
   was returned last is what is kept until the cache is cleared. *)
OnlyValidIsKept ==
  \A e \in Entries :
    /\ cached[e] \in Revisions \cup {"none"}
    /\ cached[e] # "none" => answered[e] = cached[e]

-----------------------------------------------------------------------------
(* The orchestrator's loader.  initialize may be called again; it adds to workflows
   and takes nothing out of it, and files of the same name replace one another in the
   order of the directory. *)
CONSTANT YamlFiles      \* the files of the directory

VARIABLES
  yaml,         \* content of a file: "absent", "broken" or the name it defines
  registry,     \* workflow_registry.yaml: "absent", "good" or "broken"
  workflows,    \* per name, the file it was loaded from, or "none"
  loaderReady,  \* _ready
  readAt        \* history: yaml when the last successful initialize read it

WorkflowNames == {"order", "faq"}
scanVars == <<yaml, registry, workflows, loaderReady, readAt>>

ScanInit ==
  /\ yaml = [f \in YamlFiles |-> "absent"] /\ readAt = yaml
  /\ registry = "absent" /\ loaderReady = FALSE
  /\ workflows = [n \in WorkflowNames |-> "none"]

EditYaml(f, c) ==
  /\ yaml' = [yaml EXCEPT ![f] = c]
  /\ UNCHANGED <<registry, workflows, loaderReady, readAt>>

EditRegistry(c) ==
  /\ registry' = c
  /\ UNCHANGED <<yaml, workflows, loaderReady, readAt>>

\* initialize: a registry that cannot be read raises; a broken file is skipped
InitializeLoader ==
  /\ IF registry = "broken"
     THEN loaderReady' = FALSE /\ UNCHANGED <<workflows, readAt>>
     ELSE /\ loaderReady' = TRUE /\ readAt' = yaml
          /\ workflows' \in
               {w \in [WorkflowNames -> YamlFiles \cup {"none"}] :
                  \A n \in WorkflowNames :
                    LET of == {f \in YamlFiles : yaml[f] = n}
                    IN  IF of = {} THEN w[n] = workflows[n] ELSE w[n] \in of}
  /\ UNCHANGED <<yaml, registry>>

ScanNext ==
  \/ \E f \in YamlFiles, c \in WorkflowNames \cup {"absent", "broken"} : EditYaml(f, c)
  \/ \E c \in {"absent", "good", "broken"} : EditRegistry(c)
  \/ InitializeLoader

(* A loader that is ready knows every workflow the directory defined when it was
   initialized last, each from a file that defined it then. *)
ReadyKnowsAll ==
  loaderReady => \A n \in WorkflowNames :
    LET of == {f \in YamlFiles : readAt[f] = n} IN of # {} => workflows[n] \in of
=============================================================================
