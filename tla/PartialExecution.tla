-------------------------- MODULE PartialExecution --------------------------
(***************************************************************************)
(* How a partial execution ("execute up to here" in the editor) is planned *)
(* from the workflow and the data of an earlier run: the trigger is found, *)
(* disabled nodes are taken out, the subgraph that leads to the            *)
(* destination is cut out, the nodes from which to start are found, moved  *)
(* to the start of their cycles and given their input.                     *)
(*                                                                         *)
(* The two searches are recursive.  A step is one call, and the calls that *)
(* are still to be made are part of the state, the next one first: a call  *)
(* makes its own calls before those that its caller makes after it.  What  *)
(* the searches find is compared with definitions by reachability.  A      *)
(* connection is of type main and goes from an output of a node to the     *)
(* only input of another; sub-nodes and tools are left out.                *)
(***************************************************************************)
EXTENDS Positions, SequencesExt

CONSTANTS
    Workflows,  \* the workflows that are planned for
    RunDatas,   \* the data of earlier runs: of every node that ran, the outputs
                \* that had items in any of its runs and in the last one
    Marks,      \* the destination, and the nodes that are disabled, were edited
                \* (dirty), have pinned data, or failed in their last run
    Triggers,   \* the nodes whose type is a trigger
    Loops       \* the nodes of type splitInBatches: output 0 is done, 1 the loop

VARIABLES
    request,    \* the request of the editor
    stage,      \* how far it has come
    trigger,    \* the node that was taken for the trigger
    graph,      \* the workflow without the disabled nodes that were taken out so far
    branches,   \* the calls of findSubgraphRecursive that are still to be made
    subgraph,   \* what they have kept
    runData,    \* the data of the earlier run that is still of use
    visits,     \* the calls of findStartNodesRecursive that are still to be made
    found,      \* the start nodes they have found
    start,      \* the start nodes
    stack       \* and their input

planVars == <<runData, visits, found, start, stack>>
vars == <<request, stage, trigger, graph, branches, subgraph, planVars>>

Nodes(g) == Range(g.nodes)
Connections(g) == Range(g.conns)

ASSUME WorkflowsAssumption ==
    \A w \in Workflows :
      /\ w.nodes \in Seq(Nodes(w))
      /\ w.conns \in Seq([from : Nodes(w), output : Nat, to : Nodes(w)])
      /\ \A m \in Marks :
           {m.dest} \cup m.disabled \cup m.dirty \cup m.pinned \cup m.failed \subseteq Nodes(w)

ASSUME RunDatasAssumption ==
    \A d \in RunDatas : \A n \in DOMAIN d : d[n].last \subseteq d[n].any

NoNode == 0
NoGraph == [nodes |-> <<>>, conns |-> <<>>]

PartialInit ==
    /\ \E w \in Workflows, d \in RunDatas, m \in Marks :
         request = [workflow |-> w, runData |-> d, dest |-> m.dest, disabled |-> m.disabled,
                    dirty |-> m.dirty, pinned |-> m.pinned, failed |-> m.failed]
    /\ stage = "asked" /\ trigger = NoNode
    /\ graph = NoGraph /\ branches = <<>> /\ subgraph = NoGraph
    /\ runData = <<>> /\ visits = <<>> /\ found = {} /\ start = {} /\ stack = {}

-----------------------------------------------------------------------------
(* DirectedGraph: maps of nodes and connections in the order of insertion *)

\* Op(x), where x is computed once
Once(x, Op(_)) == CHOOSE y \in {Op(v) : v \in {x}} : TRUE

GetDirectParentConnections(g, n) == AtPositions(g.conns, {i \in DOMAIN g.conns : g.conns[i].to = n})
GetDirectChildConnections(g, n) == AtPositions(g.conns, {i \in DOMAIN g.conns : g.conns[i].from = n})

(***************************************************************************)
(* The nodes that can be reached from a set of nodes along connections:    *)
(* the least set that has them and from which no connection leads out.     *)
(***************************************************************************)
Closed(conns, S) == \A c \in conns : c.from \in S => c.to \in S

Reach(conns, from) ==
    LET all == from \cup {c.to : c \in conns} IN
    {n \in all : \A S \in SUBSET all : from \subseteq S /\ Closed(conns, S) => n \in S}

Reversed(conns) == {[from |-> c.to, to |-> c.from] : c \in conns}

After(conns, n) == Reach(conns, {c.to : c \in {d \in conns : d.from = n}})

\* getChildrenRecursive collects what it has not collected yet and goes on from
\* there: MCPartialExecution compares it with the least closed set.
GetChildren(g, n) == After(Connections(g), n)

\* getParentConnections goes back from a node as far as connections lead.  The nodes
\* it passes must be part of the graph, or it fails an assertion.
HasParentConnections(g, nodes) == Reach(Reversed(Connections(g)), nodes) \subseteq Nodes(g)

\* Mutant: the connections of the node go, and nothing replaces them.
RemoveNodeOnly(g, n) ==
    [nodes |-> AtPositions(g.nodes, {i \in DOMAIN g.nodes : g.nodes[i] # n}),
     conns |-> AtPositions(g.conns, {i \in DOMAIN g.conns : n \notin {g.conns[i].from, g.conns[i].to}})]

(***************************************************************************)
(* removeNode with reconnectConnections: every parent gets a connection to *)
(* every child.  They are computed before the node goes and added after.   *)
(***************************************************************************)
RemoveNode(g, n) ==
    LET incoming == GetDirectParentConnections(g, n)
        outgoing == GetDirectChildConnections(g, n)
        width == Len(outgoing)
        rewired == [k \in 1 .. (Len(incoming) * width) |->
                      [incoming[((k - 1) \div width) + 1] EXCEPT
                         !.to = outgoing[((k - 1) % width) + 1].to]]
    IN
    [nodes |-> AtPositions(g.nodes, {i \in DOMAIN g.nodes : g.nodes[i] # n}),
     conns |-> PutAll(AtPositions(g.conns, {i \in DOMAIN g.conns :
                                              n \notin {g.conns[i].from, g.conns[i].to}}),
                      rewired)]

(***************************************************************************)
(* Tarjan's algorithm as it is written.  A component is popped as long as  *)
(* the low link of the top of the stack is the id of its root.             *)
(***************************************************************************)
Visit(state, n) ==
    [state EXCEPT !.ids[n] = state.id, !.low[n] = state.id, !.id = @ + 1, !.stack = Append(@, n)]

LowerLink(state, n, child) ==
    IF child \in Range(state.stack)
    THEN [state EXCEPT !.low[n] = Min({@, state.low[child]})] ELSE state

PopComponent(state, n) ==
    LET rest == Max({0} \cup {i \in DOMAIN state.stack : state.low[state.stack[i]] # state.ids[n]})
        scc == {state.stack[i] : i \in (rest + 1)..Len(state.stack)}
    IN
    IF state.low[n] # state.ids[n] \/ scc = {} THEN state
    ELSE [state EXCEPT !.stack = SubSeq(@, 1, rest), !.found = @ \cup {scc}]

Unvisited == -1

TarjanStates(g) ==
    [id : Int, ids : [Nodes(g) -> Int], low : [Nodes(g) -> Int],
     stack : Seq(Nodes(g)), found : SUBSET SUBSET Nodes(g)]

GetStronglyConnectedComponents(g) ==
    LET none == [n \in Nodes(g) |-> Unvisited]
        followNode[n \in Nodes(g), state \in TarjanStates(g)] ==
          LET Child(s, c) == LowerLink(followNode[c.to, s], n, c.to) IN
          IF state.ids[n] # Unvisited THEN state
          ELSE Once(FoldLeft(Child, Visit(state, n), GetDirectChildConnections(g, n)),
                    LAMBDA s : PopComponent(s, n))
    IN
    FoldLeft(LAMBDA s, n : followNode[n, s],
             [id |-> 0, ids |-> none, low |-> none, stack |-> <<>>, found |-> {}], g.nodes).found

\* The nodes of the set that a depth-first search meets first: none or one
DepthFirstSearch(g, from, set) ==
    LET search[n \in Nodes(g), state \in [seen : SUBSET Nodes(g), hit : SUBSET Nodes(g)]] ==
          LET seen == state.seen \cup {n} IN
          IF n \in state.seen \/ state.hit # {} THEN state
          ELSE IF n \in set THEN [seen |-> seen, hit |-> {n}]
          ELSE FoldLeft(LAMBDA s, c : search[c.to, s], [state EXCEPT !.seen = seen],
                        GetDirectChildConnections(g, n))
    IN
    search[from, [seen |-> {}, hit |-> {}]].hit

-----------------------------------------------------------------------------
(* The steps of runPartialWorkflow2 *)

\* getParentNodes of the workflow, disabled nodes included
GetParentNodes(g, n) == {k \in Nodes(g) \ {n} : n \in GetChildren(g, k)}

(***************************************************************************)
(* The nodes that may become the trigger: the destination itself, else a   *)
(* trigger before it (with run data, with pinned data, any), else a parent *)
(* with run data.  Which of several depends on names and types.            *)
(***************************************************************************)
FindTrigger(in) ==
    LET parents == GetParentNodes(in.workflow, in.dest) \ in.disabled
        triggers == parents \cap Triggers
        ran == DOMAIN in.runData
    IN
    IF in.dest \in Triggers \ in.disabled THEN {in.dest}
    ELSE IF triggers = {} THEN parents \cap ran
    ELSE IF triggers \cap ran # {} THEN triggers \cap ran
    ELSE IF triggers \cap in.pinned # {} THEN triggers \cap in.pinned
    ELSE triggers

\* A UserError: there is nothing to start from, or the destination is disabled.
Refuse ==
    /\ stage = "asked"
    /\ FindTrigger(request) = {} \/ request.dest \in request.disabled
    /\ stage' = "refused"
    /\ UNCHANGED <<request, trigger, graph, branches, subgraph, planVars>>

\* Step 1
ChooseTrigger(t) ==
    /\ stage = "asked"
    /\ request.dest \notin request.disabled
    /\ stage' = "filtering" /\ trigger' = t /\ graph' = request.workflow
    /\ UNCHANGED <<request, branches, subgraph, planVars>>

\* Step 2, filterDisabledNodes: the next node of the workflow that is disabled goes,
FilterDisabledNodes(i) ==
    /\ stage = "filtering"
    /\ graph.nodes[i] \in request.disabled
    /\ \A j \in 1..(i - 1) : graph.nodes[j] \notin request.disabled
    /\ graph' = RemoveNode(graph, graph.nodes[i])
    /\ UNCHANGED <<request, stage, trigger, branches, subgraph, planVars>>

\* and findSubgraph starts when none is left.
FindSubgraph ==
    /\ stage = "filtering"
    /\ Nodes(graph) \cap request.disabled = {}
    /\ stage' = "cutting" /\ branches' = <<[node |-> request.dest, branch |-> <<>>]>>
    /\ UNCHANGED <<request, trigger, graph, subgraph, planVars>>

\* Both ends of the connections of a branch, in the order they are added
Ends(branch) ==
    [k \in 1 .. (2 * Len(branch)) |->
       IF k % 2 = 1 THEN branch[(k + 1) \div 2].from ELSE branch[k \div 2].to]

\* Mutant: only the end of a branch is kept.
KeepBranchEnd(g, branch) ==
    LET last == AtPositions(branch, DOMAIN branch \cap {Len(branch)}) IN
    [nodes |-> PutAll(g.nodes, Ends(last)), conns |-> PutAll(g.conns, last)]

KeepBranch(g, branch) ==
    [nodes |-> PutAll(g.nodes, Ends(branch)), conns |-> PutAll(g.conns, branch)]

(***************************************************************************)
(* findSubgraphRecursive: from the destination back to the trigger along   *)
(* every branch.  A branch is kept if it comes to the trigger or, with     *)
(* visited, to a node where it has been.  A node that is no node of the    *)
(* graph (any more) fails an assertion.                                    *)
(***************************************************************************)
FindSubgraphRecursive ==
    /\ stage = "cutting" /\ branches # <<>>
    /\ LET current == Head(branches).node
           branch == Head(branches).branch
           parents == GetDirectParentConnections(graph, current)
           visited == \E c \in Range(branch) : c.to = current
       IN
       \/ /\ current # trigger /\ current \notin Nodes(graph)
          /\ stage' = "failed"
          /\ UNCHANGED <<branches, subgraph>>
       \/ /\ current = trigger
          /\ subgraph' = KeepBranch([subgraph EXCEPT !.nodes = PutAll(@, <<trigger>>)], branch)
          /\ branches' = Tail(branches)
          /\ UNCHANGED stage
       \/ /\ current # trigger /\ current \in Nodes(graph) /\ visited /\ current # request.dest
          /\ subgraph' = KeepBranch(subgraph, branch)
          /\ branches' = Tail(branches)
          /\ UNCHANGED stage
       \/ /\ current # trigger /\ current \in Nodes(graph) /\ visited /\ current = request.dest
          /\ branches' = Tail(branches)
          /\ UNCHANGED <<stage, subgraph>>
       \/ /\ current # trigger /\ current \in Nodes(graph) /\ ~visited
          /\ branches' = [k \in DOMAIN parents |->
                            [node |-> parents[k].from, branch |-> Append(branch, parents[k])]]
                         \o Tail(branches)
          /\ UNCHANGED <<stage, subgraph>>
    /\ UNCHANGED <<request, trigger, graph, planVars>>

\* Mutant: the parents of a cleaned node lose their data too.
CleanRunDataUpstream(data, g, toClean) ==
    LET cleaned == toClean \cup UNION {GetChildren(g, n) : n \in toClean}
        parents == {c.from : c \in {d \in Connections(g) : d.to \in cleaned}}
    IN
    [n \in (DOMAIN data \cap Nodes(g)) \ (cleaned \cup parents) |-> data[n]]

CleanRunData(data, g, toClean) ==
    LET cleaned == toClean \cup UNION {GetChildren(g, n) : n \in toClean} IN
    [n \in (DOMAIN data \cap Nodes(g)) \ cleaned |-> data[n]]

(***************************************************************************)
(* The rest of findSubgraph looks for sub-nodes in everything that comes   *)
(* before the subgraph, beyond the trigger and the destination too.  Then  *)
(* step 3: the data of dirty nodes goes, and findStartNodes starts at the  *)
(* trigger; an assertion fails if that is not part of the subgraph.        *)
(***************************************************************************)
FindStartNodes ==
    /\ stage = "cutting" /\ branches = <<>>
    /\ stage' = IF HasParentConnections(graph, Nodes(subgraph)) /\ trigger \in Nodes(subgraph)
                THEN "finding" ELSE "failed"
    /\ runData' = CleanRunData(request.runData, subgraph, request.dirty \cap Nodes(subgraph))
    /\ visits' = <<[node |-> trigger, seen |-> {}]>>
    /\ UNCHANGED <<request, trigger, graph, branches, subgraph, found, start, stack>>

\* The failed runs of a node are part of its run data.
IsDirty(in, data, n) ==
    IF n \in DOMAIN data THEN n \in in.failed ELSE n \notin in.pinned

\* Mutant: outputs without items are followed too.
FollowsOutputAlways(in, data, c) == TRUE

FollowsOutput(in, data, c) ==
    \/ c.from \in in.pinned
    \/ c.from \in DOMAIN data /\ c.output \in data[c.from].any

\* A loop node whose done output had nothing in the last run is not through;
\* one that is in no loop is looked at like any node, at its loop output.
LoopIsUnfinished(g, data, n) ==
    LET output == IF n \in GetChildren(g, n) THEN 0 ELSE 1 IN
    n \in Loops /\ (n \in DOMAIN data => output \notin data[n].last)

IsStartNode(in, g, data, n) ==
    IsDirty(in, data, n) \/ n = in.dest \/ LoopIsUnfinished(g, data, n)

(***************************************************************************)
(* findStartNodesRecursive: from the trigger along the outputs that had    *)
(* data up to the first node that has to run; every branch has a set of    *)
(* seen nodes of its own.                                                  *)
(***************************************************************************)
FindStartNodesRecursive ==
    /\ stage = "finding" /\ visits # <<>>
    /\ LET current == Head(visits).node
           seen == Head(visits).seen
           followed == AtPositions(subgraph.conns,
                         {i \in DOMAIN subgraph.conns :
                            /\ subgraph.conns[i].from = current
                            /\ FollowsOutput(request, runData, subgraph.conns[i])})
       IN
       \/ /\ IsStartNode(request, subgraph, runData, current)
          /\ found' = found \cup {current}
          /\ visits' = Tail(visits)
       \/ /\ ~IsStartNode(request, subgraph, runData, current) /\ current \in seen
          /\ visits' = Tail(visits)
          /\ UNCHANGED found
       \/ /\ ~IsStartNode(request, subgraph, runData, current) /\ current \notin seen
          /\ visits' = [k \in DOMAIN followed |->
                          [node |-> followed[k].to, seen |-> seen \cup {current}]]
                       \o Tail(visits)
          /\ UNCHANGED found
    /\ UNCHANGED <<request, stage, trigger, graph, branches, subgraph, runData, start, stack>>

\* A start node that is part of a component is replaced by its first node.
HandleCycles(g, nodes, from) ==
    LET cycles == GetStronglyConnectedComponents(g) IN
    UNION {LET cycle == UNION {c \in cycles : n \in c} IN
           IF cycle = {} THEN {n} ELSE DepthFirstSearch(g, from, cycle) : n \in nodes}

(***************************************************************************)
(* recreateNodeExecutionStack for nodes with one input: a start node is    *)
(* put on the stack for every connection whose source has data, and once   *)
(* if it has no incoming connection.                                       *)
(***************************************************************************)
RecreateNodeExecutionStack(in, g, nodes, data) ==
    {[from |-> NoNode, to |-> n] : n \in {k \in nodes : GetDirectParentConnections(g, k) = <<>>}}
    \cup {[from |-> c.from, to |-> c.to] :
            c \in {d \in Connections(g) : d.to \in nodes /\ d.from \in DOMAIN data \cup in.pinned}}

\* Steps 4 to 7
StartFromCycles ==
    /\ stage = "finding" /\ visits = <<>>
    /\ stage' = "planned"
    /\ start' = HandleCycles(subgraph, found, trigger)
    /\ runData' = CleanRunData(runData, subgraph, start')
    /\ stack' = RecreateNodeExecutionStack(request, subgraph, start', runData')
    /\ UNCHANGED <<request, trigger, graph, branches, subgraph, visits, found>>

PartialNext ==
    \/ Refuse
    \/ \E t \in FindTrigger(request) : ChooseTrigger(t)
    \/ \E i \in DOMAIN graph.nodes : FilterDisabledNodes(i)
    \/ FindSubgraph
    \/ FindSubgraphRecursive
    \/ FindStartNodes
    \/ FindStartNodesRecursive
    \/ StartFromCycles

PartialSpec == PartialInit /\ [][PartialNext]_vars

-----------------------------------------------------------------------------
(* Properties *)

Planned == stage = "planned"

\* The connections on ways that go through neither the trigger nor the destination
Ways == {c \in Connections(graph) : c.from # request.dest /\ c.to # trigger}

\* The nodes from which ways lead to the destination,
Before == Reach(Reversed(Ways), {request.dest})

\* and those to which ways lead from the trigger, or from a cycle before the
\* destination, whether ways lead from the trigger to that cycle or not
Fed == Reach(Ways, {trigger} \cup {n \in Before : n \in After(Ways, n)})

(***************************************************************************)
(* What findSubgraph, which walks every branch, really keeps: exactly the  *)
(* connections on the ways to the destination that come from the trigger   *)
(* or from any cycle, where no way goes through the trigger or the         *)
(* destination.  Its fourth rule, "if the current node was already         *)
(* visited, keep this branch", does not ask whether the trigger leads to   *)
(* the cycle (find-subgraph.ts:80); SubgraphLeadsFromTrigger does.         *)
(***************************************************************************)
SubgraphIsExact ==
    Planned => Connections(subgraph) = {c \in Ways : c.from \in Fed /\ c.to \in Before}

(***************************************************************************)
(* "Find all nodes that can lead from the trigger to the destination node" *)
(* (find-subgraph.ts:72), of which handleCycles says that a cycle the      *)
(* trigger is not connected to is no part (handle-cycles.ts:46): every     *)
(* connection of the subgraph is on a way from the trigger.                *)
(***************************************************************************)
SubgraphLeadsFromTrigger ==
    Planned => \A c \in Connections(subgraph) :
                 c.from \in Reach(Ways, {trigger}) /\ c.to \in Before

\* The data that the nodes which were edited, and all after them, have not lost
ValidData ==
    LET changed == Reach(Connections(subgraph), request.dirty \cap Nodes(subgraph)) IN
    [n \in (DOMAIN request.runData \cap Nodes(subgraph)) \ changed |-> request.runData[n]]

\* A node has to run if it is the destination, failed, has no data, or is a loop
\* that is not through.
HasToRun(n) ==
    LET data == ValidData
        loops == n \in After(Connections(subgraph), n)
    IN
    \/ n = request.dest
    \/ n \in DOMAIN data /\ n \in request.failed
    \/ n \notin DOMAIN data /\ n \notin request.pinned
    \/ n \in Loops /\ n \notin DOMAIN data
    \/ n \in Loops /\ loops /\ 0 \notin data[n].last
    \/ n \in Loops /\ ~loops /\ 1 \notin data[n].last

\* The connections that the earlier run took up to such nodes
Taken ==
    {c \in Connections(subgraph) :
       ~HasToRun(c.from) /\ (c.from \in request.pinned \/ c.output \in ValidData[c.from].any)}

(***************************************************************************)
(* findStartNodes, which gives every branch its own set of seen nodes,     *)
(* finds exactly the first nodes that have to run on the ways the earlier  *)
(* run took: dirty ones, the destination, and loops that are not through   *)
(* (find-start-nodes.ts:50).                                               *)
(***************************************************************************)
StartNodesAreFrontier ==
    Planned => found = {n \in Reach(Taken, {trigger}) : HasToRun(n)}

\* Every start node is on the stack, or after a node that is.
StartNodesRun ==
    Planned => start \subseteq Reach(Connections(subgraph), {s.to : s \in stack})

\* No node of the subgraph is on a cycle: then no cycle can be missed.
SubgraphIsAcyclic ==
    \A c \in Connections(subgraph) : c.to \notin After(Connections(subgraph), c.to)

(***************************************************************************)
(* Without cycles every start node runs: the data that is deleted at and   *)
(* below the start nodes is never all the input of one of them, unless it  *)
(* gets it anew from another one that runs (workflow-execute.ts:292).      *)
(* With cycles it need not: a start node inside a cycle that handleCycles  *)
(* misses, or moved to where the earlier run did not enter the cycle, can  *)
(* lose its input and is then left out of the stack without an error.      *)
(***************************************************************************)
AcyclicPlansRun == SubgraphIsAcyclic => StartNodesRun

(***************************************************************************)
(* "Node ... is not part of this graph" (directed-graph.ts:218): no search *)
(* comes to a node that was taken out of the graph, and the trigger is in  *)
(* the subgraph of its destination.                                        *)
(***************************************************************************)
NodesArePartOfGraph == stage # "failed"

\* It holds where the disabled nodes of the workflow form no cycle.
Inner(g) == {c \in Connections(g) : {c.from, c.to} \subseteq request.disabled}

DisabledAreAcyclic ==
    \A n \in request.disabled : n \notin After(Inner(request.workflow), n)

(***************************************************************************)
(* "If it is" part of a cycle, handleCycles "replaces the start node with  *)
(* the start of the cycle" (handle-cycles.ts:9): at most one start node is *)
(* left in a set of nodes that can all be reached from each other, and it  *)
(* has a connection from outside, so that no cycle is executed partially.  *)
(***************************************************************************)
CyclesStartAtTheirEntry ==
    LET conns == Connections(subgraph)
        Cycle(n) == {k \in After(conns, n) : n \in After(conns, k)}
    IN
    Planned => \A n \in start :
                 Cardinality(Cycle(n)) > 1 =>
                   /\ start \cap Cycle(n) = {n}
                   /\ \E c \in conns : c.from \notin Cycle(n) /\ c.to = n

=============================================================================
