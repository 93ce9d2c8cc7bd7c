------------------------ MODULE DefinitionValidation ------------------------
(***************************************************************************)
(* The rules a submitted definition must pass: a name, supported handlers  *)
(* with the configuration they need, valid and unique node ids, known      *)
(* dependencies, no cycles.  All but the last look at one node at a time   *)
(* and are operators; the cycle rule is an iterative depth-first search,   *)
(* whose while loop is a state machine here, one step per round.           *)
(*                                                                         *)
(* All rules run on every definition and their errors are collected, so    *)
(* the search must cope with the ill-formed graphs the others report.      *)
(*                                                                         *)
(* The request schema has already turned away anything but a string name   *)
(* and a list of nodes with an id, a handler, a list of dependencies and a *)
(* config object.  A JSON value has a kind; a string also has its text,    *)
(* which is empty when there is nothing in it but blanks.                  *)
(***************************************************************************)
EXTENDS Naturals, Sequences, FiniteSets, Functions

CONSTANTS
  Id,         \* strings used as node ids and in dependency lists
  ValidId,    \* those that match NODE_ID_PATTERN
  Value,      \* JSON values in configs
  Definition  \* the definitions submitted: a name, blank or not, and nodes

Handler == {"input", "output", "call_external_service", "llm_service",
            "integration_barrier", "unsupported"}

\* The keys that a rule or a handler looks at, and one that none does.
ConfigKey == {"url", "latency_ms", "prompt", "other"}

Config == UNION {[K -> Value] : K \in SUBSET ConfigKey}

NodeDef == [id : Id, deps : Seq(Id), handler : Handler, config : Config]

ASSUME ValidIdAssumption == ValidId \subseteq Id
ASSUME DefinitionAssumption == 
  Definition \subseteq [named : BOOLEAN, nodes : Seq(NodeDef)]

VARIABLES
  named,       \* the definition under validation has a non-blank name
  nodes,       \* dag.nodes of the definition under validation
  graph,       \* the ids that occur once, with their dependencies on such ids
  visited,
  active,
  stackIndex,  \* stack_index: position of an active node on the path
  path,        \* traversal_stack
  frames,      \* frame_stack: a node and the next dependency to look at
  cycles       \* the cyclic_dependency errors

searchVars ==
  <<named, nodes, graph, visited, active, stackIndex, path, frames, cycles>>

-----------------------------------------------------------------------------
(***************************************************************************)
(* The rules that need no search                                           *)
(***************************************************************************)
\* RequiredWorkflowFieldsRule
NameMissing == ~named

\* valid_node_ids: any non-blank id can be referred to.
KnownIds == {nodes[i].id : i \in DOMAIN nodes}

\* Counter(identifiers)[x]: valid ids only.
Occurrences(x) ==
  IF x \in ValidId THEN Cardinality({i \in DOMAIN nodes : nodes[i].id = x}) ELSE 0

\* NodeIdValidityRule and UniqueNodeIdsRule.
NodeIdErrors ==
  {i \in DOMAIN nodes : nodes[i].id \notin ValidId \/ Occurrences(nodes[i].id) > 1}

\* Mutant: repeated references go unnoticed.
RepeatsIgnored(i, j) ==
  LET dep == nodes[i].deps[j] IN dep \notin KnownIds \/ dep = nodes[i].id

\* Dependency j of node i is unknown, the node itself, or a repetition of an
\* earlier reference.
BadReference(i, j) ==
  LET dep == nodes[i].deps[j]
  IN  \/ dep \notin KnownIds
      \/ dep = nodes[i].id
      \/ \E k \in 1..(j - 1) : nodes[i].deps[k] = dep

\* DependencyReferenceRule: the nodes it complains about.
ReferenceErrors ==
  {i \in DOMAIN nodes : \E j \in DOMAIN nodes[i].deps : BadReference(i, j)}

\* ALLOWED_HANDLERS.  The barrier handler is allowed in integration tests only.
AllowedHandlers == {"input", "output", "call_external_service", "llm_service"}

\* HandlerDefinitionRule
HandlerErrors == {i \in DOMAIN nodes : nodes[i].handler \notin AllowedHandlers}

\* isinstance(config.get(key), str) and config[key].strip()
NonBlank(config, key) ==
  key \in DOMAIN config /\ config[key].kind = "string" /\ config[key].is # <<>>

\* Mutant: the llm handler may come without its prompt.
PromptOptional(n) ==
  CASE n.handler = "call_external_service" -> NonBlank(n.config, "url")
    [] n.handler \in {"input", "output"} -> DOMAIN n.config = {}
    [] OTHER -> TRUE

Configured(n) ==
  CASE n.handler = "call_external_service" -> NonBlank(n.config, "url")
    [] n.handler = "llm_service" -> NonBlank(n.config, "prompt")
    [] n.handler \in {"input", "output"} -> DOMAIN n.config = {}
    [] OTHER -> TRUE

\* NodeConfigurationRule
ConfigErrors == {i \in DOMAIN nodes : ~Configured(nodes[i])}

-----------------------------------------------------------------------------
(***************************************************************************)
(* CycleDetectionRule                                                      *)
(***************************************************************************)
DepsOf(x) == nodes[CHOOSE i \in DOMAIN nodes : nodes[i].id = x].deps

\* Self-references are left to the reference rule.
Graph ==
  [x \in {y \in KnownIds : Occurrences(y) = 1} |->
     SelectSeq(DepsOf(x), LAMBDA y : y # x /\ Occurrences(y) = 1)]

SearchInit ==
  /\ \E d \in Definition : named = d.named /\ nodes = d.nodes
  /\ graph = Graph
  /\ visited = {} /\ active = {}
  /\ stackIndex = <<>>
  /\ path = <<>> /\ frames = <<>>
  /\ cycles = {}

Top == frames[Len(frames)]

\* stack_index[x] = len(traversal_stack), and x joins the path.
Enter(x, rest) ==
  /\ visited' = visited \cup {x}
  /\ active' = active \cup {x}
  /\ stackIndex' = [y \in active \cup {x} |->
                      IF y = x THEN Len(path) ELSE stackIndex[y]]
  /\ path' = Append(path, x)
  /\ frames' = Append(rest, [node |-> x, next |-> 1])
  /\ UNCHANGED <<named, nodes, graph, cycles>>

\* The for loop: the first id of the graph that was not visited.
StartSearch ==
  /\ frames = <<>>
  /\ \E i \in DOMAIN nodes :
       /\ nodes[i].id \in (DOMAIN graph) \ visited
       /\ \A j \in 1..(i - 1) : nodes[j].id \notin (DOMAIN graph) \ visited
       /\ Enter(nodes[i].id, frames)

\* All dependencies of the top frame have been looked at.
Exhausted == Top.next > Len(graph[Top.node])

\* Mutant: a finished node stays active, so that a diamond looks cyclic.
StillActive(x) == active

\* active.remove(node_id)
Deactivated(x) == active \ {x}

Leave ==
  /\ frames # <<>> /\ Exhausted
  /\ frames' = SubSeq(frames, 1, Len(frames) - 1)
  /\ active' = Deactivated(Top.node)
  /\ stackIndex' = [y \in Deactivated(Top.node) |-> stackIndex[y]]
  /\ path' = SubSeq(path, 1, Len(path) - 1)
  /\ UNCHANGED <<named, nodes, graph, visited, cycles>>

Dependency == graph[Top.node][Top.next]

\* Mutant: the index of the frame is not stored back.
NotAdvanced == frames

\* frame_stack[-1] = (node_id, dependency_index + 1)
Advanced == [frames EXCEPT ![Len(frames)].next = @ + 1]

\* Mutant: the path is cut one place too late.
LateCut(x) == SubSeq(path, stackIndex[x] + 2, Len(path))

\* traversal_stack[cycle_start_index:]; the closing dependency is implied.
CyclePath(x) == SubSeq(path, stackIndex[x] + 1, Len(path))

ReportCycle ==
  /\ frames # <<>> /\ ~Exhausted
  /\ Dependency \in active
  /\ cycles' = cycles \cup {CyclePath(Dependency)}
  /\ frames' = Advanced
  /\ UNCHANGED <<named, nodes, graph, visited, active, stackIndex, path>>

\* The dependency was explored before.
Seen(x) == x \notin DOMAIN graph \/ x \in visited

SkipDependency ==
  /\ frames # <<>> /\ ~Exhausted
  /\ Dependency \notin active
  /\ Seen(Dependency)
  /\ frames' = Advanced
  /\ UNCHANGED <<named, nodes, graph, visited, active, stackIndex, path, cycles>>

Descend ==
  /\ frames # <<>> /\ ~Exhausted
  /\ Dependency \notin active
  /\ ~Seen(Dependency)
  /\ Enter(Dependency, Advanced)

SearchDone == frames = <<>> /\ (DOMAIN graph) \subseteq visited

SearchReturns == SearchDone /\ UNCHANGED searchVars

SearchNext ==
  \/ StartSearch \/ Leave \/ ReportCycle \/ SkipDependency \/ Descend
  \/ SearchReturns

SearchSpec == SearchInit /\ [][SearchNext]_searchVars

FairSearchSpec == SearchSpec /\ WF_searchVars(SearchNext)

\* WorkflowDefinitionService.accept: no rule reported anything.
Accepted ==
  /\ SearchDone
  /\ ~NameMissing
  /\ NodeIdErrors = {} /\ HandlerErrors = {} /\ ConfigErrors = {}
  /\ ReferenceErrors = {} /\ cycles = {}

-----------------------------------------------------------------------------
(***************************************************************************)
(* What the engine does with an accepted definition                        *)
(***************************************************************************)
\* DAG.from_workflow looks every dependency up in dependants_by_id.
BuildRaises ==
  \E i \in DOMAIN nodes : ~(Range(nodes[i].deps) \subseteq KnownIds)

\* Mutant: a node keeps only one of its dependants.
LastDependant(x) ==
  LET I == {i \in DOMAIN nodes : x \in Range(nodes[i].deps)}
  IN  {nodes[i].id : i \in {j \in I : \A k \in I : k <= j}}

Dependants(x) ==
  {nodes[i].id : i \in {j \in DOMAIN nodes : x \in Range(nodes[j].deps)}}

Roots == {nodes[i].id : i \in {j \in DOMAIN nodes : nodes[j].deps = <<>>}}

Terminals == {x \in KnownIds : Dependants(x) = {}}

\* evaluate_ready_node_ids, with the nodes of done completed and the others
\* pending.
ReadyAfter(done) ==
  {i \in DOMAIN nodes : /\ nodes[i].id \notin done
                        /\ Range(nodes[i].deps) \subseteq done}

-----------------------------------------------------------------------------
(***************************************************************************)
(* Properties                                                              *)
(***************************************************************************)
\* The three records of the current path never disagree: the active set, the
\* stored positions and the frames all describe the traversal stack.
PathBookkeeping ==
  /\ active = Range(path)
  /\ DOMAIN stackIndex = active
  /\ \A i \in DOMAIN path : stackIndex[path[i]] = i - 1
  /\ Len(frames) = Len(path)
  /\ \A i \in DOMAIN path : frames[i].node = path[i]

\* x depends on y in the definition as submitted.
DependsOn(x, y) ==
  \E i \in DOMAIN nodes : nodes[i].id = x /\ y \in Range(nodes[i].deps)

\* Every reported cycle path is a cycle of the definition.
CyclesAreReal ==
  \A p \in cycles :
    /\ p # <<>>
    /\ \A i \in 1..(Len(p) - 1) : DependsOn(p[i], p[i + 1])
    /\ DependsOn(p[Len(p)], p[1])

\* No set of nodes each of which waits for another of the set.
Acyclic ==
  \A S \in SUBSET KnownIds :
    S # {} => \E x \in S : \A y \in S : ~DependsOn(x, y)

\* Among the definitions whose name and handlers are in order, one is accepted
\* exactly when its ids are valid and unique, every reference is known and made
\* once, and the graph has no cycle.
AcceptedIsDag ==
  SearchDone /\ ~NameMissing /\ HandlerErrors \cup ConfigErrors = {} =>
    (Accepted <=>
       /\ KnownIds \subseteq ValidId
       /\ \A i, j \in DOMAIN nodes : nodes[i].id = nodes[j].id => i = j
       /\ \A i \in DOMAIN nodes :
            /\ Range(nodes[i].deps) \subseteq KnownIds
            /\ Cardinality(Range(nodes[i].deps)) = Len(nodes[i].deps)
       /\ Acyclic)

\* The nodes that can be reached from S by following next.
Reachable(S, next(_)) ==
  LET step[k \in 0..Len(nodes)] ==
        IF k = 0 THEN S
        ELSE step[k - 1] \cup UNION {next(x) : x \in step[k - 1]}
  IN  step[Len(nodes)]

\* The graph built from an accepted definition covers it: building it does not
\* raise, following dependants from the roots meets every node, and so does
\* following dependencies back from the terminals.  The failure walk relies on
\* it to find everything behind a failed node.
DagCoversDefinition ==
  Accepted =>
    /\ ~BuildRaises
    /\ Reachable(Roots, Dependants) = KnownIds
    /\ Reachable(Terminals, LAMBDA x : Range(DepsOf(x))) = KnownIds

\* The search ends on every definition, the cyclic ones included.
SearchTerminates == <>SearchDone

=============================================================================
