----------------------- MODULE PartialExecution_proofs -----------------------
(***************************************************************************)
(* The searches of a partial execution proved for any workflow, any run    *)
(* data and any choice of nodes that are disabled, dirty, pinned or        *)
(* failed: findSubgraph keeps exactly the connections on the ways to the   *)
(* destination, findStartNodes finds exactly the first nodes that have to  *)
(* run, no search leaves the graph unless disabled nodes form a cycle, and *)
(* without cycles every start node runs.                                   *)
(*                                                                         *)
(* Both searches are recursive; the invariants speak of the calls that are *)
(* still to be made.  What was found is sound because every pending call   *)
(* brings along a way; it is complete because of a set E of nodes that     *)
(* were searched and behind which nothing is missing but what the pending  *)
(* calls will find.  Reachability is the least closed set, so that no      *)
(* induction over paths is needed: what can be reached is in every closed  *)
(* set, and E is one when no call is pending.                              *)
(***************************************************************************)
EXTENDS PartialExecution, SequenceLemmas

-----------------------------------------------------------------------------
(* Reachability *)

\* The nodes themselves can be reached, and what a connection leads to from there.
LEMMA ReachClosed ==
    ASSUME NEW conns, NEW from
    PROVE  from \subseteq Reach(conns, from) /\ Closed(conns, Reach(conns, from))
<1> DEFINE all == from \cup {c.to : c \in conns}
<1>1. from \subseteq Reach(conns, from)
  BY DEF Reach
<1>2. ASSUME NEW c \in conns, c.from \in Reach(conns, from)
      PROVE  c.to \in Reach(conns, from)
  <2>1. c.to \in all
    OBVIOUS
  <2>2. ASSUME NEW S \in SUBSET all, from \subseteq S, Closed(conns, S) PROVE c.to \in S
    <3>1. c.from \in S
      BY <1>2, <2>2 DEF Reach
    <3>2. QED
      BY <2>2, <3>1 DEF Closed
  <2>3. QED
    BY <2>1, <2>2 DEF Reach
<1>3. QED
  BY <1>1, <1>2 DEF Closed

\* Nothing else can be reached: what can be is in every closed set.
LEMMA ReachLeast ==
    ASSUME NEW conns, NEW from, NEW S, from \subseteq S, Closed(conns, S)
    PROVE  Reach(conns, from) \subseteq S
<1> DEFINE all == from \cup {c.to : c \in conns}
           T == S \cap all
<1>1. T \in SUBSET all /\ from \subseteq T
  OBVIOUS
<1>2. Closed(conns, T)
  BY DEF Closed
<1>3. QED
  BY <1>1, <1>2 DEF Reach

\* What can be reached is there from the start, or a connection leads to it.
LEMMA ReachPredecessor ==
    ASSUME NEW conns, NEW from, NEW n \in Reach(conns, from), n \notin from
    PROVE  \E c \in conns : c.to = n /\ c.from \in Reach(conns, from)
<1> DEFINE R == Reach(conns, from)
           S == R \ {n}
<1>1. from \subseteq R /\ Closed(conns, R)
  BY ReachClosed
<1>2. SUFFICES ASSUME \A c \in conns : ~(c.to = n /\ c.from \in R) PROVE FALSE
  OBVIOUS
<1>3. from \subseteq S
  BY <1>1
<1>4. Closed(conns, S)
  BY <1>1, <1>2 DEF Closed
<1> HIDE DEF S
<1>5. R \subseteq S
  BY <1>3, <1>4, ReachLeast
<1>6. QED
  BY <1>5 DEF S

\* The first step of a way, and the ways that go on from it.
LEMMA AfterStep ==
    ASSUME NEW conns, NEW c \in conns
    PROVE  c.to \in After(conns, c.from) /\ After(conns, c.to) \subseteq After(conns, c.from)
<1> DEFINE Succ(n) == {d.to : d \in {e \in conns : e.from = n}}
           A == After(conns, c.from)
<1>1. Succ(c.from) \subseteq A /\ Closed(conns, A)
  BY ReachClosed DEF After
<1>2. c.to \in A
  BY <1>1
<1>3. Succ(c.to) \subseteq A
  BY <1>1, <1>2 DEF Closed
<1>4. After(conns, c.to) \subseteq A
  BY <1>1, <1>3, ReachLeast DEF After
<1>5. QED
  BY <1>2, <1>4

\* What comes after a node stays in a closed set that has the node.
LEMMA AfterInClosed ==
    ASSUME NEW conns, NEW S, Closed(conns, S), NEW n \in S
    PROVE  After(conns, n) \subseteq S
<1>1. {d.to : d \in {e \in conns : e.from = n}} \subseteq S
  BY DEF Closed
<1>2. QED
  BY <1>1, ReachLeast DEF After

\* What comes after a node has a connection from the node or from after it.
LEMMA AfterPredecessor ==
    ASSUME NEW conns, NEW n, NEW m \in After(conns, n)
    PROVE  \E c \in conns : c.to = m /\ c.from \in {n} \cup After(conns, n)
<1> DEFINE first == {d.to : d \in {e \in conns : e.from = n}}
<1>1. CASE m \in first
  BY <1>1
<1>2. CASE m \notin first
  <2>1. \E c \in conns : c.to = m /\ c.from \in Reach(conns, first)
    BY <1>2, ReachPredecessor DEF After
  <2>2. QED
    BY <2>1 DEF After
<1>3. QED
  BY <1>1, <1>2

\* Deleting below every node of a set is deleting what can be reached from the set.
LEMMA ReachOfSet ==
    ASSUME NEW conns, NEW from
    PROVE  from \cup UNION {After(conns, n) : n \in from} = Reach(conns, from)
<1> DEFINE R == Reach(conns, from)
           U == from \cup UNION {After(conns, n) : n \in from}
<1>1. from \subseteq R /\ Closed(conns, R)
  BY ReachClosed
<1>2. \A n \in from : After(conns, n) \subseteq R
  BY <1>1, AfterInClosed
<1>3. U \subseteq R
  BY <1>1, <1>2
<1>4. ASSUME NEW c \in conns, c.from \in U PROVE c.to \in U
  <2>1. CASE c.from \in from
    BY <2>1, AfterStep
  <2>2. CASE c.from \notin from
    <3>1. PICK n \in from : c.from \in After(conns, n)
      BY <1>4, <2>2
    <3>2. Closed(conns, After(conns, n))
      BY ReachClosed DEF After
    <3>3. QED
      BY <3>1, <3>2 DEF Closed
  <2>3. QED
    BY <2>1, <2>2
<1>5. Closed(conns, U)
  BY <1>4 DEF Closed
<1> HIDE DEF U
<1>6. from \subseteq U
  BY DEF U
<1>7. R \subseteq U
  BY <1>5, <1>6, ReachLeast
<1>8. QED
  BY <1>3, <1>7 DEF U

-----------------------------------------------------------------------------
(* The inductive invariant *)

\* The connections that findSubgraph has to keep, and the nodes of its pending calls
Exact == {c \in Ways : c.from \in Fed /\ c.to \in Before}
Called == {p.node : p \in Range(branches)}

\* The trigger, once a branch has come to it
Arrived == IF trigger \in Nodes(subgraph) THEN {trigger} ELSE {}

\* What a pending call brings along: a way from its node to the destination,
\* unless it has come back to the destination, where it will be dropped.
BranchOK(p) ==
    /\ IsSeq(p.branch)
    /\ p.branch = <<>> => p.node = request.dest
    /\ p.branch # <<>> => trigger # request.dest /\ \E c \in Range(p.branch) : c.to = request.dest
    /\ p.node # request.dest =>
         /\ p.node \in Before
         /\ \A c \in Range(p.branch) :
              /\ c \in Ways /\ c.to \in Before
              /\ c.to \in After(Ways, p.node)
              /\ c.from \in {p.node} \cup After(Ways, p.node)

\* E are nodes whose parents were called.  A connection that has to be kept and leads
\* to one of them is kept, or is on the branch of a call that will keep it.
Explored(E) ==
    /\ trigger \notin E
    /\ request.dest \in E \cup Called \cup Arrived
    /\ \A c \in Connections(graph) : c.to \in E => c.from \in E \cup Called \cup Arrived
    /\ \A p \in Range(branches) : \A c \in Range(p.branch) : c.to \in E
    /\ \A c \in Ways : c.to \in E /\ c.from \in Fed =>
         \/ c \in Connections(subgraph)
         \/ \E p \in Range(branches) : c \in Range(p.branch) /\ p.node \in Fed \ {request.dest}

CutInv ==
    stage = "cutting" =>
      /\ IsSeq(branches)
      /\ \A p \in Range(branches) : BranchOK(p)
      /\ Connections(subgraph) \subseteq Exact
      /\ \E E \in SUBSET Nodes(graph) : Explored(E)

\* The run data with which findStartNodes works, the connections it follows, and
\* the nodes of its pending calls
Data == CleanRunData(request.runData, subgraph, request.dirty \cap Nodes(subgraph))
Starts(n) == IsStartNode(request, subgraph, Data, n)
Followed == {c \in Connections(subgraph) : ~Starts(c.from) /\ FollowsOutput(request, Data, c)}
Visited == {v.node : v \in Range(visits)}

\* E are nodes whose followed children were called.
Searched(E) ==
    /\ \A n \in E : ~Starts(n)
    /\ trigger \in E \cup found \cup Visited
    /\ \A c \in Followed : c.from \in E => c.to \in E \cup found \cup Visited
    /\ \A v \in Range(visits) : v.seen \subseteq E

FindInv ==
    stage \in {"finding", "planned"} =>
      /\ Connections(subgraph) = Exact
      /\ stage = "finding" => runData = Data
      /\ stage = "planned" => visits = <<>>
      /\ IsSeq(visits)
      /\ Visited \subseteq Reach(Followed, {trigger})
      /\ found \subseteq {n \in Reach(Followed, {trigger}) : Starts(n)}
      /\ \E E \in SUBSET Reach(Followed, {trigger}) : Searched(E)

\* The graphs are maps of nodes and connections, and nothing is found before its time.
Stages == {"asked", "refused", "filtering", "cutting", "finding", "planned", "failed"}

IsGraph(g) == IsSeq(g.nodes) /\ IsSeq(g.conns)

Shape ==
    /\ stage \in Stages
    /\ request.workflow \in Workflows
    /\ IsGraph(graph) /\ IsGraph(subgraph)
    /\ subgraph = [nodes |-> subgraph.nodes, conns |-> subgraph.conns]
    /\ stage \in {"asked", "filtering"} => subgraph = NoGraph
    /\ stage \in {"asked", "filtering", "cutting"} => found = {}

PlanInv == Shape /\ CutInv /\ FindInv

-----------------------------------------------------------------------------
(* The ways to the destination *)

\* They depend on the request, the trigger and the graph only.
LEMMA WaysFixed ==
    ASSUME UNCHANGED <<request, trigger, graph>>
    PROVE  /\ Ways' = Ways /\ Before' = Before /\ Fed' = Fed /\ Exact' = Exact
           /\ request' = request /\ trigger' = trigger /\ graph' = graph
<1>1. Ways' = Ways
  BY DEF Ways
<1>2. Before' = Before
  BY <1>1 DEF Before
<1>3. Fed' = Fed
  BY <1>1, <1>2 DEF Fed
<1>4. QED
  BY <1>1, <1>2, <1>3 DEF Exact

\* A way to the destination begins before it.
LEMMA BeforeStep ==
    /\ request.dest \in Before
    /\ \A c \in Ways : c.to \in Before => c.from \in Before
<1>1. {request.dest} \subseteq Before /\ Closed(Reversed(Ways), Before)
  BY ReachClosed DEF Before
<1>2. ASSUME NEW c \in Ways, c.to \in Before PROVE c.from \in Before
  <2>1. [from |-> c.to, to |-> c.from] \in Reversed(Ways)
    BY DEF Reversed
  <2>2. QED
    BY <1>1, <1>2, <2>1 DEF Closed
<1>3. QED
  BY <1>1, <1>2

\* Whatever has the destination and is closed backwards has all that is before it.
LEMMA BeforeLeast ==
    ASSUME NEW S, request.dest \in S, \A c \in Ways : c.to \in S => c.from \in S
    PROVE  Before \subseteq S
<1>1. Closed(Reversed(Ways), S)
  BY DEF Closed, Reversed
<1>2. QED
  BY <1>1, ReachLeast DEF Before

\* What is fed has a way from something that is fed, except for the trigger.
LEMMA FedSteps ==
    /\ trigger \in Fed
    /\ \A n \in Before : n \in After(Ways, n) => n \in Fed
    /\ Closed(Ways, Fed)
    /\ \A n \in Fed \ {trigger} : \E c \in Ways : c.to = n /\ c.from \in Fed
<1> DEFINE sources == {trigger} \cup {n \in Before : n \in After(Ways, n)}
<1>1. sources \subseteq Fed /\ Closed(Ways, Fed)
  BY ReachClosed DEF Fed
<1>2. ASSUME NEW n \in Fed, n # trigger
      PROVE  \E c \in Ways : c.to = n /\ c.from \in Fed
  <2>1. CASE n \in sources
    <3>1. n \in After(Ways, n)
      BY <1>2, <2>1
    <3>2. PICK c \in Ways : c.to = n /\ c.from \in {n} \cup After(Ways, n)
      BY <3>1, AfterPredecessor
    <3>3. After(Ways, n) \subseteq Fed
      BY <1>1, AfterInClosed
    <3>4. QED
      BY <3>2, <3>3
  <2>2. CASE n \notin sources
    BY <2>2, ReachPredecessor DEF Fed
  <2>3. QED
    BY <2>1, <2>2
<1>3. QED
  BY <1>1, <1>2

-----------------------------------------------------------------------------
(* findSubgraph *)

\* The calls that a call makes bring along a way, too.
LEMMA BranchGrows ==
    ASSUME NEW p, BranchOK(p), p.node # trigger,
           \A d \in Range(p.branch) : d.to # p.node,
           NEW c \in Connections(graph), c.to = p.node
    PROVE  BranchOK([node |-> c.from, branch |-> Append(p.branch, c)])
<1> DEFINE b == Append(p.branch, c)
           q == [node |-> c.from, branch |-> b]
<1>1. IsSeq(b) /\ Range(b) = Range(p.branch) \cup {c} /\ b # <<>>
  BY AppendIsSeq DEF BranchOK
<1>2. q.node = c.from /\ q.branch = b
  OBVIOUS
<1>3. p.node = request.dest => p.branch = <<>>
  BY DEF BranchOK
<1>4. trigger # request.dest
  BY <1>3 DEF BranchOK
<1>5. \E d \in Range(b) : d.to = request.dest
  BY <1>1, <1>3 DEF BranchOK
<1>6. ASSUME c.from # request.dest
      PROVE  /\ c.from \in Before
             /\ \A d \in Range(b) :
                  /\ d \in Ways /\ d.to \in Before
                  /\ d.to \in After(Ways, c.from)
                  /\ d.from \in {c.from} \cup After(Ways, c.from)
  <2>1. c \in Ways
    BY <1>6 DEF Ways
  <2>2. p.node \in Before
    BY BeforeStep DEF BranchOK
  <2>3. c.from \in Before
    BY <2>1, <2>2, BeforeStep
  <2>4. c.to \in After(Ways, c.from) /\ After(Ways, c.to) \subseteq After(Ways, c.from)
    BY <2>1, AfterStep
  <2>5. ASSUME NEW d \in Range(p.branch)
        PROVE  /\ d \in Ways /\ d.to \in Before
               /\ d.to \in After(Ways, c.from) /\ d.from \in After(Ways, c.from)
    <3>1. p.node # request.dest
      BY <1>3, SeqIsSeq DEF BranchOK, Range
    <3>2. QED
      BY <2>4, <3>1 DEF BranchOK
  <2>6. QED
    BY <1>1, <2>1, <2>2, <2>3, <2>4, <2>5
<1> HIDE DEF b
<1>7. BranchOK(q)
  BY <1>1, <1>2, <1>4, <1>5, <1>6 DEF BranchOK
<1>8. QED
  BY <1>7 DEF b

\* A branch that has come to the trigger, or to a node where it has been, has only
\* connections that have to be kept.
LEMMA BranchIsExact ==
    ASSUME NEW p, BranchOK(p),
           \/ p.node = trigger
           \/ p.node # request.dest /\ \E c \in Range(p.branch) : c.to = p.node
    PROVE  Range(p.branch) \subseteq Exact
<1>1. SUFFICES ASSUME NEW c \in Range(p.branch) PROVE c \in Exact
  OBVIOUS
<1>2. p.branch # <<>>
  BY DEF Range
<1>3. p.node # request.dest
  BY <1>2 DEF BranchOK
<1>4. p.node \in Fed
  BY <1>3, FedSteps DEF BranchOK
<1>5. c \in Ways /\ c.to \in Before /\ c.from \in {p.node} \cup After(Ways, p.node)
  BY <1>3 DEF BranchOK
<1>6. After(Ways, p.node) \subseteq Fed
  BY <1>4, FedSteps, AfterInClosed
<1>7. QED
  BY <1>4, <1>5, <1>6 DEF Exact

\* What the graph operations compute.
LEMMA ParentConnections ==
    ASSUME NEW g, IsGraph(g), NEW n
    PROVE  /\ IsSeq(GetDirectParentConnections(g, n))
           /\ Range(GetDirectParentConnections(g, n)) = {c \in Connections(g) : c.to = n}
<1> DEFINE I == {i \in DOMAIN g.conns : g.conns[i].to = n}
<1>1. /\ IsSeq(AtPositions(g.conns, I))
      /\ Range(AtPositions(g.conns, I)) = {g.conns[i] : i \in I}
  BY AtPositionsIsSeq DEF IsGraph
<1>2. {g.conns[i] : i \in I} = {c \in Connections(g) : c.to = n}
  BY DEF Connections, Range
<1>3. QED
  BY <1>1, <1>2 DEF GetDirectParentConnections

LEMMA KeepBranchKeeps ==
    ASSUME NEW g, IsGraph(g), NEW branch, IsSeq(branch)
    PROVE  /\ IsGraph(KeepBranch(g, branch))
           /\ Connections(KeepBranch(g, branch)) = Connections(g) \cup Range(branch)
           /\ Nodes(g) \subseteq Nodes(KeepBranch(g, branch))
           /\ \A n \in Nodes(KeepBranch(g, branch)) :
                n \in Nodes(g) \/ \E c \in Range(branch) : n \in {c.from, c.to}
           /\ KeepBranch(g, branch) = [nodes |-> KeepBranch(g, branch).nodes,
                                       conns |-> KeepBranch(g, branch).conns]
<1> DEFINE ends == Ends(branch)
           k == KeepBranch(g, branch)
<1>1. Len(branch) \in Nat
  BY SeqIsSeq DEF IsSeq
<1>2. DOMAIN ends = 1..(2 * Len(branch)) /\ ends = [i \in 1..(2 * Len(branch)) |-> ends[i]]
  BY DEF Ends
<1>3. 2 * Len(branch) \in Nat
  BY <1>1
<1>3a. ASSUME NEW i \in 1..(2 * Len(branch))
       PROVE  \E c \in Range(branch) : ends[i] \in {c.from, c.to}
  <2>1. DOMAIN branch = 1..Len(branch)
    BY SeqIsSeq DEF IsSeq
  <2>2. CASE i % 2 = 1
    <3>1. (i + 1) \div 2 \in DOMAIN branch
      BY <1>1, <2>1, <2>2
    <3>2. ends[i] = branch[(i + 1) \div 2].from
      BY <2>2 DEF Ends
    <3>3. QED
      BY <3>1, <3>2 DEF Range
  <2>3. CASE i % 2 # 1
    <3>1. i \div 2 \in DOMAIN branch
      BY <1>1, <2>1, <2>3
    <3>2. ends[i] = branch[i \div 2].to
      BY <2>3 DEF Ends
    <3>3. QED
      BY <3>1, <3>2 DEF Range
  <2>4. QED
    BY <2>2, <2>3
<1> HIDE DEF ends
<1>3b. \A n \in Range(ends) : \E c \in Range(branch) : n \in {c.from, c.to}
  BY <1>2, <1>3a DEF Range
<1>4. IsSeq(ends)
  BY <1>2, <1>3, TabulatedIsSeq
<1>5. /\ IsSeq(PutAll(g.nodes, ends))
      /\ Range(PutAll(g.nodes, ends)) = Range(g.nodes) \cup Range(ends)
  BY <1>4, PutAllIsSeq DEF IsGraph
<1>6. /\ IsSeq(PutAll(g.conns, branch))
      /\ Range(PutAll(g.conns, branch)) = Range(g.conns) \cup Range(branch)
  BY PutAllIsSeq DEF IsGraph
<1>7. k = [nodes |-> PutAll(g.nodes, ends), conns |-> PutAll(g.conns, branch)]
  BY DEF KeepBranch, ends
<1>8. k.nodes = PutAll(g.nodes, ends) /\ k.conns = PutAll(g.conns, branch)
  BY <1>7
<1>9. QED
  BY <1>3b, <1>5, <1>6, <1>7, <1>8 DEF IsGraph, Connections, Nodes

\* A branch is kept: all of it has to be.
LEMMA KeepStep ==
    ASSUME CutInv, stage = "cutting", branches # <<>>,
           UNCHANGED <<request, trigger, graph, stage>>,
           NEW p, p = Head(branches),
           \/ p.node = trigger
           \/ p.node # request.dest /\ \E c \in Range(p.branch) : c.to = p.node,
           branches' = Tail(branches),
           Connections(subgraph') = Connections(subgraph) \cup Range(p.branch),
           Nodes(subgraph) \subseteq Nodes(subgraph'),
           p.node = trigger => trigger \in Nodes(subgraph')
    PROVE  CutInv'
<1>1. /\ Ways' = Ways /\ Before' = Before /\ Fed' = Fed /\ Exact' = Exact
      /\ request' = request /\ trigger' = trigger /\ graph' = graph
  BY WaysFixed
<1>2. IsSeq(branches') /\ Range(branches) = {p} \cup Range(branches')
  BY TailIsSeq DEF CutInv
<1>3. \A q \in Range(branches) : BranchOK(q)
  BY DEF CutInv
<1>4. \A q \in Range(branches') : BranchOK(q)'
  BY <1>1, <1>2, <1>3 DEF BranchOK
<1>5. Range(p.branch) \subseteq Exact
  BY <1>2, <1>3, BranchIsExact
<1>6. Connections(subgraph') \subseteq Exact'
  BY <1>1, <1>5 DEF CutInv
<1>7. PICK E \in SUBSET Nodes(graph) : Explored(E)
  BY DEF CutInv
<1>8. Called = {p.node} \cup Called'
  BY <1>2 DEF Called
<1>9. Arrived \subseteq Arrived'
  BY <1>1 DEF Arrived
<1>10. p.node \in E \cup Arrived'
  BY <1>1, <1>2, <1>7 DEF Explored, Arrived
<1>11. Explored(E)'
  <2>1. trigger' \notin E
    BY <1>1, <1>7 DEF Explored
  <2>2. request.dest' \in E \cup Called' \cup Arrived'
    BY <1>1, <1>7, <1>8, <1>9, <1>10 DEF Explored
  <2>3. \A c \in Connections(graph') : c.to \in E => c.from \in E \cup Called' \cup Arrived'
    BY <1>1, <1>7, <1>8, <1>9, <1>10 DEF Explored
  <2>4. \A q \in Range(branches') : \A c \in Range(q.branch) : c.to \in E
    BY <1>2, <1>7 DEF Explored
  <2>5. ASSUME NEW c \in Ways, c.to \in E, c.from \in Fed
        PROVE  \/ c \in Connections(subgraph')
               \/ \E q \in Range(branches') :
                    c \in Range(q.branch) /\ q.node \in Fed \ {request.dest}
    BY <1>2, <1>7, <2>5 DEF Explored
  <2>6. QED
    BY <1>1, <2>1, <2>2, <2>3, <2>4, <2>5 DEF Explored
<1>12. QED
  BY <1>1, <1>2, <1>4, <1>6, <1>7, <1>11 DEF CutInv

\* A branch that has come back to the destination is dropped.
LEMMA DropStep ==
    ASSUME CutInv, stage = "cutting", branches # <<>>,
           UNCHANGED <<request, trigger, graph, stage, subgraph>>,
           NEW p, p = Head(branches), p.node = request.dest,
           \E c \in Range(p.branch) : c.to = p.node,
           branches' = Tail(branches)
    PROVE  CutInv'
<1>1. /\ Ways' = Ways /\ Before' = Before /\ Fed' = Fed /\ Exact' = Exact
      /\ request' = request /\ trigger' = trigger /\ graph' = graph /\ subgraph' = subgraph
  BY WaysFixed
<1>2. IsSeq(branches') /\ Range(branches) = {p} \cup Range(branches')
  BY TailIsSeq DEF CutInv
<1>3. \A q \in Range(branches') : BranchOK(q)'
  BY <1>1, <1>2 DEF BranchOK, CutInv
<1>4. PICK E \in SUBSET Nodes(graph) : Explored(E)
  BY DEF CutInv
<1>5. Called = {p.node} \cup Called'
  BY <1>2 DEF Called
<1>6. p.node \in E
  BY <1>2, <1>4 DEF Explored
<1>7. Explored(E)'
  <2>1. Arrived' = Arrived
    BY <1>1 DEF Arrived
  <2>2. \A c \in Ways : c.to \in E /\ c.from \in Fed =>
           \/ c \in Connections(subgraph)
           \/ \E q \in Range(branches') : c \in Range(q.branch) /\ q.node \in Fed \ {request.dest}
    BY <1>2, <1>4 DEF Explored
  <2>3. QED
    BY <1>1, <1>2, <1>4, <1>5, <1>6, <2>1, <2>2 DEF Explored
<1>8. QED
  BY <1>1, <1>2, <1>3, <1>4, <1>7 DEF CutInv

\* A call makes a call for every parent.
LEMMA ExpandStep ==
    ASSUME CutInv, IsGraph(graph), stage = "cutting", branches # <<>>,
           UNCHANGED <<request, trigger, graph, stage, subgraph>>,
           NEW p, p = Head(branches), p.node # trigger, p.node \in Nodes(graph),
           \A c \in Range(p.branch) : c.to # p.node,
           NEW calls, IsSeq(calls), branches' = calls \o Tail(branches),
           Range(calls) = {[node |-> c.from, branch |-> Append(p.branch, c)] :
                             c \in {d \in Connections(graph) : d.to = p.node}}
    PROVE  CutInv'
<1> DEFINE Call(c) == [node |-> c.from, branch |-> Append(p.branch, c)]
           above == {c \in Connections(graph) : c.to = p.node}
<1>1. /\ Ways' = Ways /\ Before' = Before /\ Fed' = Fed /\ Exact' = Exact
      /\ request' = request /\ trigger' = trigger /\ graph' = graph /\ subgraph' = subgraph
  BY WaysFixed
<1>2. IsSeq(Tail(branches)) /\ Range(branches) = {p} \cup Range(Tail(branches))
  BY TailIsSeq DEF CutInv
<1>6. Range(calls) = {Call(c) : c \in above}
  OBVIOUS
<1>8. IsSeq(branches') /\ Range(branches') = {Call(c) : c \in above} \cup Range(Tail(branches))
  <2>1. /\ IsSeq(calls \o Tail(branches))
        /\ Range(calls \o Tail(branches)) = Range(calls) \cup Range(Tail(branches))
    BY <1>2, ConcatIsSeq
  <2>2. QED
    BY <1>6, <2>1
<1>9. \A q \in Range(branches) : BranchOK(q)
  BY DEF CutInv
<1>10. \A c \in above : /\ Call(c).node = c.from /\ Call(c).branch = Append(p.branch, c)
                        /\ Range(Call(c).branch) = Range(p.branch) \cup {c}
                        /\ BranchOK(Call(c))
  <2>1. BranchOK(p)
    BY <1>2, <1>9
  <2>2. ASSUME NEW c \in above PROVE BranchOK(Call(c))
    BY <2>1, BranchGrows
  <2>3. ASSUME NEW c \in above PROVE Range(Append(p.branch, c)) = Range(p.branch) \cup {c}
    BY <2>1, AppendIsSeq DEF BranchOK
  <2>4. QED
    BY <2>2, <2>3
<1> HIDE DEF Call
<1>11. \A q \in Range(branches') : BranchOK(q)'
  <2>1. \A q \in Range(branches') : BranchOK(q)
    BY <1>2, <1>8, <1>9, <1>10
  <2>2. QED
    BY <1>1, <2>1 DEF BranchOK
<1>12. PICK E \in SUBSET Nodes(graph) : Explored(E)
  BY DEF CutInv
<1> DEFINE F == E \cup {p.node}
<1>13. Called \subseteq {p.node} \cup Called' /\ \A c \in above : c.from \in Called'
  BY <1>2, <1>8, <1>10 DEF Called
<1>14. Arrived' = Arrived
  BY <1>1 DEF Arrived
<1>15. Explored(F)'
  <2>1. trigger' \notin F
    BY <1>1, <1>12 DEF Explored
  <2>2. request.dest' \in F \cup Called' \cup Arrived'
    BY <1>1, <1>12, <1>13, <1>14 DEF Explored
  <2>3. \A c \in Connections(graph') : c.to \in F => c.from \in F \cup Called' \cup Arrived'
    BY <1>1, <1>12, <1>13, <1>14 DEF Explored
  <2>4. \A q \in Range(branches') : \A c \in Range(q.branch) : c.to \in F
    <3>1. \A q \in Range(branches) : \A c \in Range(q.branch) : c.to \in E
      BY <1>12 DEF Explored
    <3>2. QED
      BY <1>2, <1>8, <1>10, <3>1
  <2>5. ASSUME NEW c \in Ways, c.to \in F, c.from \in Fed
        PROVE  \/ c \in Connections(subgraph)
               \/ \E q \in Range(branches') :
                    c \in Range(q.branch) /\ q.node \in Fed \ {request.dest}
    <3>1. CASE c.to = p.node
      <4>1. c \in above /\ c.from # request.dest
        BY <3>1 DEF Ways
      <4>2. Call(c) \in Range(branches') /\ c \in Range(Call(c).branch) /\ Call(c).node = c.from
        BY <1>8, <1>10, <4>1
      <4>3. QED
        BY <2>5, <4>1, <4>2
    <3>2. CASE c.to \in E
      <4>1. \/ c \in Connections(subgraph)
            \/ \E q \in Range(branches) :
                 c \in Range(q.branch) /\ q.node \in Fed \ {request.dest}
        BY <1>12, <2>5, <3>2 DEF Explored
      <4>2. CASE c \in Range(p.branch) /\ p.node \in Fed \ {request.dest}
        <5>1. PICK d \in Ways : d.to = p.node /\ d.from \in Fed
          BY <4>2, FedSteps
        <5>2. d \in above /\ d.from # request.dest
          BY <5>1 DEF Ways
        <5>3. /\ Call(d) \in Range(branches') /\ c \in Range(Call(d).branch)
              /\ Call(d).node = d.from
          BY <1>8, <1>10, <4>2, <5>2
        <5>4. QED
          BY <5>1, <5>2, <5>3
      <4>3. QED
        BY <1>2, <1>8, <4>1, <4>2
    <3>3. QED
      BY <2>5, <3>1, <3>2
  <2>6. QED
    BY <1>1, <2>1, <2>2, <2>3, <2>4, <2>5 DEF Explored
<1>16. Connections(subgraph') \subseteq Exact'
  BY <1>1 DEF CutInv
<1>17. F \in SUBSET Nodes(graph')
  BY <1>1, <1>12
<1>18. QED
  BY <1>8, <1>11, <1>15, <1>16, <1>17 DEF CutInv

\* When no call is pending, nothing is missing.
LEMMA CutIsExact ==
    ASSUME CutInv, stage = "cutting", branches = <<>>
    PROVE  Connections(subgraph) = Exact
<1>1. PICK E \in SUBSET Nodes(graph) : Explored(E)
  BY DEF CutInv
<1>2. Range(branches) = {}
  BY DEF Range
<1>3. Called = {}
  BY <1>2 DEF Called
<1> DEFINE S == E \cup {trigger, request.dest}
<1>4. request.dest \in E \cup {trigger}
  BY <1>1, <1>3 DEF Explored, Arrived
<1>5. ASSUME NEW c \in Ways, c.to \in S PROVE c.to \in E /\ c.from \in S
  <2>1. c.to \in E
    BY <1>4, <1>5 DEF Ways
  <2>2. c \in Connections(graph)
    BY DEF Ways
  <2>3. QED
    BY <1>1, <1>3, <2>1, <2>2 DEF Explored, Arrived
<1>6. Before \subseteq S
  <2> HIDE DEF S
  <2>1. request.dest \in S
    BY DEF S
  <2>2. QED
    BY <1>5, <2>1, BeforeLeast
<1>7. ASSUME NEW c \in Exact PROVE c \in Connections(subgraph)
  <2>1. c \in Ways /\ c.from \in Fed /\ c.to \in S
    BY <1>6 DEF Exact
  <2>2. c.to \in E
    BY <1>5, <2>1
  <2>3. QED
    BY <1>1, <1>2, <2>1, <2>2 DEF Explored
<1>8. QED
  BY <1>7 DEF CutInv

-----------------------------------------------------------------------------
(* findStartNodes *)

\* Which nodes start and which connections are followed depends on the request and
\* the subgraph only.
LEMMA DataFixed ==
    ASSUME UNCHANGED <<request, trigger, graph, subgraph>>
    PROVE  /\ Data' = Data /\ \A n : Starts(n)' <=> Starts(n)
           /\ Followed' = Followed /\ Exact' = Exact
           /\ Reach(Followed, {trigger})' = Reach(Followed, {trigger})
           /\ request' = request /\ trigger' = trigger /\ subgraph' = subgraph
<1>1. Exact' = Exact
  BY WaysFixed
<1>2. Data' = Data
  BY DEF Data
<1>3. \A n : Starts(n)' <=> Starts(n)
  BY <1>2 DEF Starts
<1>4. Followed' = Followed
  BY <1>2, <1>3 DEF Followed
<1>5. QED
  BY <1>1, <1>2, <1>3, <1>4

\* The connections that a call of findStartNodesRecursive follows.
LEMMA FollowedConnections ==
    ASSUME IsGraph(subgraph), runData = Data, NEW n, ~Starts(n),
           NEW s, s = AtPositions(subgraph.conns,
                        {i \in DOMAIN subgraph.conns :
                           /\ subgraph.conns[i].from = n
                           /\ FollowsOutput(request, runData, subgraph.conns[i])})
    PROVE  IsSeq(s) /\ Range(s) = {c \in Followed : c.from = n}
<1> DEFINE I == {i \in DOMAIN subgraph.conns :
                   /\ subgraph.conns[i].from = n
                   /\ FollowsOutput(request, runData, subgraph.conns[i])}
<1>1. IsSeq(s) /\ Range(s) = {subgraph.conns[i] : i \in I}
  BY AtPositionsIsSeq DEF IsGraph
<1>2. {subgraph.conns[i] : i \in I} =
        {c \in Connections(subgraph) : c.from = n /\ FollowsOutput(request, Data, c)}
  BY DEF Connections, Range
<1>3. QED
  BY <1>1, <1>2 DEF Followed

\* The search comes to a node that has to run.
LEMMA StartFound ==
    ASSUME FindInv, stage = "finding", visits # <<>>,
           UNCHANGED <<request, stage, trigger, graph, subgraph, runData>>,
           NEW v, v = Head(visits), Starts(v.node),
           found' = found \cup {v.node}, visits' = Tail(visits)
    PROVE  FindInv'
<1>1. /\ Data' = Data /\ \A n : Starts(n)' <=> Starts(n)
      /\ Followed' = Followed /\ Exact' = Exact
      /\ Reach(Followed, {trigger})' = Reach(Followed, {trigger})
      /\ request' = request /\ trigger' = trigger /\ subgraph' = subgraph
  BY DataFixed
<1>2. IsSeq(visits') /\ Range(visits) = {v} \cup Range(visits')
  BY TailIsSeq DEF FindInv
<1>3. Visited = {v.node} \cup Visited'
  BY <1>2 DEF Visited
<1>4. PICK E \in SUBSET Reach(Followed, {trigger}) : Searched(E)
  BY DEF FindInv
<1>5. Searched(E)'
  BY <1>1, <1>2, <1>3, <1>4 DEF Searched
<1>6. found' \subseteq {n \in Reach(Followed, {trigger}) : Starts(n)}
  BY <1>3 DEF FindInv
<1>7. QED
  BY <1>1, <1>2, <1>3, <1>4, <1>5, <1>6 DEF FindInv

\* It comes to a node where this branch has been.
LEMMA StartSkipped ==
    ASSUME FindInv, stage = "finding", visits # <<>>,
           UNCHANGED <<request, stage, trigger, graph, subgraph, runData, found>>,
           NEW v, v = Head(visits), v.node \in v.seen, visits' = Tail(visits)
    PROVE  FindInv'
<1>1. /\ Data' = Data /\ \A n : Starts(n)' <=> Starts(n)
      /\ Followed' = Followed /\ Exact' = Exact
      /\ Reach(Followed, {trigger})' = Reach(Followed, {trigger})
      /\ request' = request /\ trigger' = trigger /\ subgraph' = subgraph
  BY DataFixed
<1>2. IsSeq(visits') /\ Range(visits) = {v} \cup Range(visits')
  BY TailIsSeq DEF FindInv
<1>3. Visited = {v.node} \cup Visited'
  BY <1>2 DEF Visited
<1>4. PICK E \in SUBSET Reach(Followed, {trigger}) : Searched(E)
  BY DEF FindInv
<1>5. v.node \in E
  BY <1>2, <1>4 DEF Searched
<1>6. Searched(E)'
  BY <1>1, <1>2, <1>3, <1>4, <1>5 DEF Searched
<1>7. QED
  BY <1>1, <1>2, <1>3, <1>4, <1>6 DEF FindInv

\* It goes on along the connections that the earlier run took.
LEMMA StartFollowed ==
    ASSUME FindInv, IsGraph(subgraph), stage = "finding", visits # <<>>,
           UNCHANGED <<request, stage, trigger, graph, subgraph, runData, found>>,
           NEW v, v = Head(visits), ~Starts(v.node),
           NEW calls, IsSeq(calls), visits' = calls \o Tail(visits),
           Range(calls) = {[node |-> c.to, seen |-> v.seen \cup {v.node}] :
                             c \in {d \in Followed : d.from = v.node}}
    PROVE  FindInv'
<1> DEFINE Call(c) == [node |-> c.to, seen |-> v.seen \cup {v.node}]
           below == {c \in Followed : c.from = v.node}
           R == Reach(Followed, {trigger})
<1>1. /\ Data' = Data /\ \A n : Starts(n)' <=> Starts(n)
      /\ Followed' = Followed /\ Exact' = Exact /\ R' = R
      /\ request' = request /\ trigger' = trigger /\ subgraph' = subgraph
  BY DataFixed
<1>2. IsSeq(Tail(visits)) /\ Range(visits) = {v} \cup Range(Tail(visits))
  BY TailIsSeq DEF FindInv
<1>5. Range(calls) = {Call(c) : c \in below}
  OBVIOUS
<1>7. IsSeq(visits') /\ Range(visits') = {Call(c) : c \in below} \cup Range(Tail(visits))
  <2>1. /\ IsSeq(calls \o Tail(visits))
        /\ Range(calls \o Tail(visits)) = Range(calls) \cup Range(Tail(visits))
    BY <1>2, ConcatIsSeq
  <2>2. QED
    BY <1>5, <2>1
<1>8. \A c \in below : Call(c).node = c.to /\ Call(c).seen = v.seen \cup {v.node}
  OBVIOUS
<1> HIDE DEF Call
<1>9. PICK E \in SUBSET R : Searched(E)
  BY DEF FindInv
<1> DEFINE F == E \cup {v.node}
<1>10. Visited \subseteq {v.node} \cup Visited' /\ \A c \in below : c.to \in Visited'
  BY <1>2, <1>7, <1>8 DEF Visited
<1>11. v.node \in R
  BY <1>2 DEF FindInv, Visited
<1>12. \A c \in below : c.to \in R
  BY <1>11, ReachClosed DEF Closed
<1>13. Visited' \subseteq R
  <2>1. \A q \in Range(Tail(visits)) : q.node \in R
    BY <1>2 DEF FindInv, Visited
  <2>2. \A q \in Range(visits') : q.node \in R
    BY <1>7, <1>8, <1>12, <2>1
  <2> HIDE DEF R
  <2>3. QED
    BY <2>2 DEF Visited
<1>14. Searched(F)'
  <2>1. \A n \in F : ~Starts(n)'
    BY <1>1, <1>9 DEF Searched
  <2>2. trigger' \in F \cup found' \cup Visited'
    BY <1>1, <1>9, <1>10 DEF Searched
  <2>3. \A c \in Followed' : c.from \in F => c.to \in F \cup found' \cup Visited'
    BY <1>1, <1>9, <1>10 DEF Searched
  <2>4. \A q \in Range(visits') : q.seen \subseteq F
    <3>1. \A q \in Range(visits) : q.seen \subseteq E
      BY <1>9 DEF Searched
    <3>2. QED
      BY <1>2, <1>7, <1>8, <3>1
  <2>5. QED
    BY <2>1, <2>2, <2>3, <2>4 DEF Searched
<1>15. F \in SUBSET R
  BY <1>9, <1>11
<1> HIDE DEF F, R
<1>16. QED
  BY <1>1, <1>7, <1>13, <1>14, <1>15 DEF FindInv, R

\* When no call is pending, every node that has to run and can be reached is found.
LEMMA FoundIsFrontier ==
    ASSUME FindInv, stage \in {"finding", "planned"}, visits = <<>>
    PROVE  found = {n \in Reach(Followed, {trigger}) : Starts(n)}
<1>1. PICK E \in SUBSET Reach(Followed, {trigger}) : Searched(E)
  BY DEF FindInv
<1>2. Visited = {}
  BY DEF Visited, Range
<1>3. found \subseteq {n \in Reach(Followed, {trigger}) : Starts(n)}
  BY DEF FindInv
<1> DEFINE S == E \cup found
<1>4. {trigger} \subseteq S
  BY <1>1, <1>2 DEF Searched
<1>5. Closed(Followed, S)
  BY <1>1, <1>2, <1>3 DEF Searched, Closed, Followed
<1> HIDE DEF S
<1>6. Reach(Followed, {trigger}) \subseteq S
  BY <1>4, <1>5, ReachLeast
<1>7. \A n \in E : ~Starts(n)
  BY <1>1 DEF Searched
<1>8. QED
  BY <1>3, <1>6, <1>7 DEF S

-----------------------------------------------------------------------------
(* The theorems *)

\* Removing a node leaves maps of nodes and connections.
LEMMA RemoveNodeIsGraph ==
    ASSUME NEW g, IsGraph(g), NEW n
    PROVE  IsGraph(RemoveNode(g, n))
<1> DEFINE incoming == GetDirectParentConnections(g, n)
           outgoing == GetDirectChildConnections(g, n)
           width == Len(outgoing)
           size == Len(incoming) * width
           rewired == [k \in 1 .. size |->
                         [incoming[((k - 1) \div width) + 1] EXCEPT
                            !.to = outgoing[((k - 1) % width) + 1].to]]
           I == {i \in DOMAIN g.conns : n \notin {g.conns[i].from, g.conns[i].to}}
           J == {i \in DOMAIN g.nodes : g.nodes[i] # n}
<1>1. IsSeq(incoming) /\ IsSeq(outgoing)
  <2>1. IsSeq(AtPositions(g.conns, {i \in DOMAIN g.conns : g.conns[i].from = n}))
    BY AtPositionsIsSeq DEF IsGraph
  <2>2. QED
    BY <2>1, ParentConnections DEF GetDirectChildConnections
<1>2. Len(incoming) \in Nat /\ width \in Nat
  BY <1>1, SeqIsSeq DEF IsSeq
<1>3. size \in Nat
  <2> HIDE DEF incoming, width
  <2> QED BY <1>2
<1>4. DOMAIN rewired = 1..size /\ rewired = [k \in 1..size |-> rewired[k]]
  OBVIOUS
<1> HIDE DEF size
<1>5. IsSeq(rewired)
  <2> HIDE DEF rewired
  <2> QED BY <1>3, <1>4, TabulatedIsSeq
<1>6. IsSeq(AtPositions(g.conns, I)) /\ IsSeq(AtPositions(g.nodes, J))
  BY AtPositionsIsSeq DEF IsGraph
<1>7. RemoveNode(g, n) = [nodes |-> AtPositions(g.nodes, J),
                          conns |-> PutAll(AtPositions(g.conns, I), rewired)]
  BY Zenon DEF RemoveNode, size
<1> HIDE DEF rewired, I, J
<1>8. IsSeq(PutAll(AtPositions(g.conns, I), rewired))
  BY <1>5, <1>6, PutAllIsSeq
<1>9. QED
  BY <1>6, <1>7, <1>8 DEF IsGraph

LEMMA WorkflowIsGraph ==
    ASSUME NEW w \in Workflows
    PROVE  IsGraph(w)
<1>1. w.nodes \in Seq(Nodes(w))
  BY WorkflowsAssumption
<1>2. w.conns \in Seq([from : Nodes(w), output : Nat, to : Nodes(w)])
  BY WorkflowsAssumption
<1>3. IsSeq(w.nodes)
  BY <1>1, SeqIsSeq
<1>4. IsSeq(w.conns)
  BY <1>2, SeqIsSeq
<1>5. QED
  BY <1>3, <1>4 DEF IsGraph

LEMMA NoGraphIsGraph ==
    IsGraph(NoGraph) /\ Connections(NoGraph) = {} /\ Nodes(NoGraph) = {}
<1>1. Range(<<>>) = {} /\ <<>> \in Seq({})
  BY EmptySeq DEF Range
<1>2. QED
  BY <1>1 DEF IsGraph, IsSeq, NoGraph, Connections, Nodes

LEMMA PlanInit == PartialInit => PlanInv
<1> SUFFICES ASSUME PartialInit PROVE PlanInv
  OBVIOUS
<1>1. request.workflow \in Workflows
  BY DEF PartialInit
<1>2. stage = "asked" /\ graph = NoGraph /\ subgraph = NoGraph /\ found = {}
  BY DEF PartialInit
<1>3. Shape
  BY <1>1, <1>2, NoGraphIsGraph DEF Shape, Stages, NoGraph
<1>4. CutInv /\ FindInv
  BY <1>2 DEF CutInv, FindInv
<1>5. QED
  BY <1>3, <1>4 DEF PlanInv

\* findSubgraph starts: the only call is that for the destination.
LEMMA CutStarts ==
    ASSUME Shape, FindSubgraph
    PROVE  CutInv'
<1>0. PICK p : p = [node |-> request.dest, branch |-> <<>>]
  OBVIOUS
<1>1. /\ Ways' = Ways /\ Before' = Before /\ Fed' = Fed /\ Exact' = Exact
      /\ request' = request /\ trigger' = trigger /\ graph' = graph /\ subgraph' = subgraph
  BY WaysFixed DEF FindSubgraph
<1>2. branches' = <<p>> /\ stage = "filtering" /\ subgraph = NoGraph
  BY <1>0 DEF FindSubgraph, Shape
<1>3. IsSeq(branches') /\ Range(branches') = {p}
  BY <1>2, SingletonIsSeq
<1>4. Range(<<>>) = {} /\ IsSeq(<<>>)
  BY EmptySeq DEF Range, IsSeq
<1>5. p.node = request.dest /\ p.branch = <<>>
  BY <1>0
<1>6. BranchOK(p)'
  BY <1>1, <1>4, <1>5 DEF BranchOK
<1>7. Connections(subgraph') = {}
  BY <1>1, <1>2, NoGraphIsGraph
<1>8. Explored({})'
  BY <1>1, <1>3, <1>4, <1>5 DEF Explored, Called
<1>9. QED
  BY <1>3, <1>6, <1>7, <1>8 DEF CutInv

\* findStartNodes starts: the only call is that for the trigger.
LEMMA FindStarts ==
    ASSUME Shape, CutInv, FindStartNodes
    PROVE  FindInv'
<1>0. PICK v : v = [node |-> trigger, seen |-> {}]
  OBVIOUS
<1>1. SUFFICES ASSUME stage' \in {"finding", "planned"} PROVE FindInv'
  BY DEF FindInv
<1>2. /\ Data' = Data /\ Followed' = Followed /\ Exact' = Exact
      /\ request' = request /\ trigger' = trigger /\ subgraph' = subgraph
  BY DataFixed DEF FindStartNodes
<1>3. visits' = <<v>> /\ found' = {} /\ runData' = Data /\ stage' = "finding"
  BY <1>0, <1>1 DEF FindStartNodes, Shape, Data
<1>4. Connections(subgraph) = Exact
  BY CutIsExact DEF FindStartNodes
<1>5. IsSeq(visits') /\ Range(visits') = {v}
  BY <1>3, SingletonIsSeq
<1>6. v.node = trigger /\ v.seen = {}
  BY <1>0
<1>7. Visited' = {trigger}
  BY <1>5, <1>6 DEF Visited
<1>8. Visited' \subseteq Reach(Followed, {trigger})'
  BY <1>2, <1>7, ReachClosed
<1>9. Searched({})'
  BY <1>2, <1>3, <1>5, <1>6, <1>7 DEF Searched
<1>10. QED
  BY <1>2, <1>3, <1>4, <1>5, <1>8, <1>9 DEF FindInv

\* A call of findSubgraphRecursive.
LEMMA CutCall ==
    ASSUME Shape, CutInv, FindSubgraphRecursive
    PROVE  Shape' /\ CutInv' /\ stage' \in {"cutting", "failed"}
<1> DEFINE p == Head(branches)
           parents == GetDirectParentConnections(graph, p.node)
           visited == \E c \in Range(p.branch) : c.to = p.node
           more == [subgraph EXCEPT !.nodes = PutAll(@, <<trigger>>)]
           calls == [k \in DOMAIN parents |->
                       [node |-> parents[k].from, branch |-> Append(p.branch, parents[k])]]
<1>0. stage = "cutting" /\ branches # <<>>
  BY Zenon DEF FindSubgraphRecursive
<1>1. /\ stage = "cutting" /\ branches # <<>> /\ UNCHANGED <<request, trigger, graph, planVars>>
      /\ \/ /\ p.node # trigger /\ p.node \notin Nodes(graph)
            /\ stage' = "failed" /\ UNCHANGED <<branches, subgraph>>
         \/ /\ p.node = trigger /\ subgraph' = KeepBranch(more, p.branch)
            /\ branches' = Tail(branches) /\ UNCHANGED stage
         \/ /\ p.node # trigger /\ p.node \in Nodes(graph) /\ visited /\ p.node # request.dest
            /\ subgraph' = KeepBranch(subgraph, p.branch)
            /\ branches' = Tail(branches) /\ UNCHANGED stage
         \/ /\ p.node # trigger /\ p.node \in Nodes(graph) /\ visited /\ p.node = request.dest
            /\ branches' = Tail(branches) /\ UNCHANGED <<stage, subgraph>>
         \/ /\ p.node # trigger /\ p.node \in Nodes(graph) /\ ~visited
            /\ branches' = calls \o Tail(branches)
            /\ UNCHANGED <<stage, subgraph>>
  BY Zenon DEF FindSubgraphRecursive
<1>2. IsSeq(p.branch)
  <2>1. p \in Range(branches)
    BY <1>0, TailIsSeq DEF CutInv
  <2>2. BranchOK(p)
    BY <1>0, <2>1 DEF CutInv
  <2>3. QED
    BY <2>2 DEF BranchOK
<1>3. IsGraph(graph) /\ IsGraph(subgraph)
  BY DEF Shape
<1>4. /\ IsGraph(more) /\ Connections(more) = Connections(subgraph)
      /\ Nodes(subgraph) \subseteq Nodes(more) /\ trigger \in Nodes(more)
  <2>1. more.conns = subgraph.conns /\ more.nodes = PutAll(subgraph.nodes, <<trigger>>)
    BY DEF Shape
  <2>2. IsSeq(<<trigger>>) /\ Range(<<trigger>>) = {trigger}
    BY SingletonIsSeq
  <2>3. /\ IsSeq(PutAll(subgraph.nodes, <<trigger>>))
        /\ Range(PutAll(subgraph.nodes, <<trigger>>)) = Range(subgraph.nodes) \cup {trigger}
    BY <1>3, <2>2, PutAllIsSeq DEF IsGraph
  <2>4. QED
    BY <1>3, <2>1, <2>3 DEF IsGraph, Connections, Nodes
<1>11. /\ IsSeq(calls)
       /\ Range(calls) = {[node |-> c.from, branch |-> Append(p.branch, c)] :
                            c \in {d \in Connections(graph) : d.to = p.node}}
  <2>1. IsSeq(parents) /\ Range(parents) = {d \in Connections(graph) : d.to = p.node}
    BY <1>3, ParentConnections
  <2> HIDE DEF parents, p
  <2>2. DOMAIN calls = DOMAIN parents /\ calls = [k \in DOMAIN parents |-> calls[k]]
    OBVIOUS
  <2>3. Range(calls) = {[node |-> c.from, branch |-> Append(p.branch, c)] : c \in Range(parents)}
    BY DEF Range
  <2> HIDE DEF calls
  <2>4. QED
    BY <2>1, <2>2, <2>3, MappedIsSeq
<1> HIDE DEF p, parents, more, calls
<1>5. CASE stage' = "failed" /\ UNCHANGED <<branches, subgraph>>
  BY <1>1, <1>5 DEF Shape, Stages, CutInv, planVars
<1>6. CASE /\ p.node = trigger /\ subgraph' = KeepBranch(more, p.branch)
           /\ branches' = Tail(branches) /\ UNCHANGED stage
  <2>1. /\ IsGraph(subgraph') /\ Connections(subgraph') = Connections(more) \cup Range(p.branch)
        /\ Nodes(more) \subseteq Nodes(subgraph')
        /\ subgraph' = [nodes |-> subgraph'.nodes, conns |-> subgraph'.conns]
    BY <1>2, <1>4, <1>6, KeepBranchKeeps
  <2>2. CutInv'
    BY <1>1, <1>4, <1>6, <2>1, KeepStep DEF p
  <2>3. QED
    BY <1>1, <1>6, <2>1, <2>2 DEF Shape, planVars
<1>7. CASE /\ p.node # trigger /\ visited /\ p.node # request.dest
           /\ subgraph' = KeepBranch(subgraph, p.branch)
           /\ branches' = Tail(branches) /\ UNCHANGED stage
  <2>1. /\ IsGraph(subgraph')
        /\ Connections(subgraph') = Connections(subgraph) \cup Range(p.branch)
        /\ Nodes(subgraph) \subseteq Nodes(subgraph')
        /\ subgraph' = [nodes |-> subgraph'.nodes, conns |-> subgraph'.conns]
    BY <1>2, <1>3, <1>7, KeepBranchKeeps
  <2>2. CutInv'
    BY <1>1, <1>7, <2>1, KeepStep DEF p
  <2>3. QED
    BY <1>1, <1>7, <2>1, <2>2 DEF Shape, planVars
<1>8. CASE /\ visited /\ p.node = request.dest
           /\ branches' = Tail(branches) /\ UNCHANGED <<stage, subgraph>>
  <2>1. CutInv'
    BY <1>1, <1>8, DropStep DEF p
  <2>2. QED
    BY <1>1, <1>8, <2>1 DEF Shape, planVars
<1>9. CASE /\ p.node # trigger /\ p.node \in Nodes(graph) /\ ~visited
           /\ branches' = calls \o Tail(branches)
           /\ UNCHANGED <<stage, subgraph>>
  <2>1. CutInv'
    BY <1>1, <1>3, <1>9, <1>11, ExpandStep DEF p
  <2>2. QED
    BY <1>1, <1>9, <2>1 DEF Shape, planVars
<1>10. QED
  BY <1>1, <1>5, <1>6, <1>7, <1>8, <1>9

\* A call of findStartNodesRecursive.
LEMMA FindCall ==
    ASSUME Shape, FindInv, FindStartNodesRecursive
    PROVE  Shape' /\ FindInv' /\ stage' = "finding"
<1> DEFINE v == Head(visits)
           followed == AtPositions(subgraph.conns,
                         {i \in DOMAIN subgraph.conns :
                            /\ subgraph.conns[i].from = v.node
                            /\ FollowsOutput(request, runData, subgraph.conns[i])})
           starts == IsStartNode(request, subgraph, runData, v.node)
           calls == [k \in DOMAIN followed |->
                       [node |-> followed[k].to, seen |-> v.seen \cup {v.node}]]
<1>0. /\ stage = "finding" /\ request' = request /\ stage' = stage
      /\ graph' = graph /\ subgraph' = subgraph
  BY Zenon DEF FindStartNodesRecursive
<1>1. /\ stage = "finding" /\ visits # <<>>
      /\ UNCHANGED <<request, stage, trigger, graph, branches, subgraph, runData, start, stack>>
      /\ \/ starts /\ found' = found \cup {v.node} /\ visits' = Tail(visits)
         \/ ~starts /\ v.node \in v.seen /\ visits' = Tail(visits) /\ UNCHANGED found
         \/ /\ ~starts /\ v.node \notin v.seen
            /\ visits' = calls \o Tail(visits)
            /\ UNCHANGED found
  BY Zenon DEF FindStartNodesRecursive
<1>2. runData = Data /\ (starts <=> Starts(v.node))
  <2>1. runData = Data
    BY <1>0 DEF FindInv
  <2>2. QED
    BY <2>1, Zenon DEF Starts
<1>3. Shape'
  BY <1>0 DEF Shape
<1>4. ASSUME ~Starts(v.node)
      PROVE  /\ IsSeq(calls)
             /\ Range(calls) = {[node |-> c.to, seen |-> v.seen \cup {v.node}] :
                                  c \in {d \in Followed : d.from = v.node}}
  <2>1. IsSeq(followed) /\ Range(followed) = {d \in Followed : d.from = v.node}
    BY <1>2, <1>4, FollowedConnections DEF Shape
  <2> HIDE DEF followed, v
  <2>2. DOMAIN calls = DOMAIN followed /\ calls = [k \in DOMAIN followed |-> calls[k]]
    OBVIOUS
  <2>3. Range(calls) = {[node |-> c.to, seen |-> v.seen \cup {v.node}] : c \in Range(followed)}
    BY DEF Range
  <2> HIDE DEF calls
  <2>4. QED
    BY <2>1, <2>2, <2>3, MappedIsSeq
<1> HIDE DEF v, followed, starts, calls
<1>5. CASE starts /\ found' = found \cup {v.node} /\ visits' = Tail(visits)
  BY <1>1, <1>2, <1>3, <1>5, StartFound DEF v
<1>6. CASE v.node \in v.seen /\ visits' = Tail(visits) /\ UNCHANGED found
  BY <1>1, <1>3, <1>6, StartSkipped DEF v
<1>7. CASE /\ ~starts
           /\ visits' = calls \o Tail(visits)
           /\ UNCHANGED found
  <2>1. IsGraph(subgraph)
    BY DEF Shape
  <2>2. FindInv'
    BY <1>1, <1>2, <1>4, <1>7, <2>1, StartFollowed DEF v
  <2>3. QED
    BY <1>1, <1>3, <2>2
<1>8. QED
  BY <1>1, <1>5, <1>6, <1>7

\* The last steps leave the subgraph and the nodes that were found alone.
LEMMA CyclesKeep ==
    ASSUME Shape, FindInv, StartFromCycles
    PROVE  Shape' /\ FindInv' /\ stage' = "planned"
<1>1. /\ stage = "finding" /\ visits = <<>> /\ stage' = "planned"
      /\ UNCHANGED <<request, trigger, graph, branches, subgraph, visits, found>>
  BY Zenon DEF StartFromCycles
<1>2. /\ Data' = Data /\ \A n : Starts(n)' <=> Starts(n)
      /\ Followed' = Followed /\ Exact' = Exact
      /\ Reach(Followed, {trigger})' = Reach(Followed, {trigger})
      /\ request' = request /\ trigger' = trigger /\ subgraph' = subgraph
  BY <1>1, DataFixed
<1>3. PICK E \in SUBSET Reach(Followed, {trigger}) : Searched(E)
  BY <1>1 DEF FindInv
<1>4. Visited' = Visited
  BY <1>1 DEF Visited
<1>5. Searched(E)'
  BY <1>1, <1>2, <1>3, <1>4 DEF Searched
<1>6. FindInv'
  BY <1>1, <1>2, <1>3, <1>4, <1>5 DEF FindInv
<1>7. QED
  BY <1>1, <1>6 DEF Shape, Stages

LEMMA PlanNext == PlanInv /\ [PartialNext]_vars => PlanInv'
<1> SUFFICES ASSUME PlanInv, [PartialNext]_vars PROVE PlanInv'
  OBVIOUS
<1>0. Shape /\ CutInv /\ FindInv
  BY DEF PlanInv
<1>1. CASE Refuse
  <2>1. /\ stage = "asked" /\ stage' = "refused"
        /\ UNCHANGED <<request, trigger, graph, branches, subgraph, planVars>>
    BY <1>1 DEF Refuse
  <2>2. QED
    BY <1>0, <2>1 DEF PlanInv, Shape, Stages, CutInv, FindInv, planVars
<1>2. ASSUME NEW t \in FindTrigger(request), ChooseTrigger(t) PROVE PlanInv'
  <2>1. /\ stage = "asked" /\ stage' = "filtering" /\ graph' = request.workflow
        /\ UNCHANGED <<request, branches, subgraph, planVars>>
    BY <1>2 DEF ChooseTrigger
  <2>2. IsGraph(graph')
    BY <1>0, <2>1, WorkflowIsGraph DEF Shape
  <2>3. QED
    BY <1>0, <2>1, <2>2 DEF PlanInv, Shape, Stages, CutInv, FindInv, planVars
<1>3. ASSUME NEW i \in DOMAIN graph.nodes, FilterDisabledNodes(i) PROVE PlanInv'
  <2>1. /\ stage = "filtering" /\ graph' = RemoveNode(graph, graph.nodes[i])
        /\ UNCHANGED <<request, stage, trigger, branches, subgraph, planVars>>
    BY <1>3 DEF FilterDisabledNodes
  <2>2. IsGraph(graph')
    BY <1>0, <2>1, RemoveNodeIsGraph DEF Shape
  <2>3. QED
    BY <1>0, <2>1, <2>2 DEF PlanInv, Shape, Stages, CutInv, FindInv, planVars
<1>4. CASE FindSubgraph
  <2>1. CutInv'
    BY <1>0, <1>4, CutStarts
  <2>2. QED
    BY <1>0, <1>4, <2>1 DEF FindSubgraph, PlanInv, Shape, Stages, FindInv, planVars
<1>5. CASE FindSubgraphRecursive
  BY <1>0, <1>5, CutCall DEF PlanInv, FindInv
<1>6. CASE FindStartNodes
  <2>1. FindInv'
    BY <1>0, <1>6, FindStarts
  <2>2. /\ stage = "cutting" /\ stage' \in {"finding", "failed"}
        /\ UNCHANGED <<request, trigger, graph, branches, subgraph, found, start, stack>>
    BY <1>6 DEF FindStartNodes
  <2>3. QED
    BY <1>0, <2>1, <2>2 DEF PlanInv, Shape, Stages, CutInv
<1>7. CASE FindStartNodesRecursive
  BY <1>0, <1>7, FindCall DEF PlanInv, CutInv
<1>8. CASE StartFromCycles
  BY <1>0, <1>8, CyclesKeep DEF PlanInv, CutInv
<1>9. CASE UNCHANGED vars
  <2>1. UNCHANGED <<request, stage, trigger, graph, branches, subgraph, runData, visits, found>>
    BY <1>9 DEF vars, planVars
  <2>2. /\ Ways' = Ways /\ Fed' = Fed /\ Exact' = Exact /\ Before' = Before
        /\ Data' = Data /\ \A n : Starts(n)' <=> Starts(n)
        /\ Followed' = Followed
        /\ Reach(Followed, {trigger})' = Reach(Followed, {trigger})
    BY <2>1, WaysFixed, DataFixed
  <2>3. Called' = Called /\ Arrived' = Arrived /\ Visited' = Visited
    BY <2>1 DEF Called, Arrived, Visited
  <2>4. CutInv'
    <3>1. \A E : Explored(E)' <=> Explored(E)
      BY <2>1, <2>2, <2>3 DEF Explored
    <3>2. \A p : BranchOK(p)' <=> BranchOK(p)
      BY <2>1, <2>2 DEF BranchOK
    <3>3. QED
      BY <1>0, <2>1, <2>2, <3>1, <3>2 DEF CutInv
  <2>5. FindInv'
    <3>1. \A E : Searched(E)' <=> Searched(E)
      BY <2>1, <2>2, <2>3 DEF Searched
    <3>2. QED
      BY <1>0, <2>1, <2>2, <2>3, <3>1 DEF FindInv
  <2>6. QED
    BY <1>0, <2>1, <2>4, <2>5 DEF PlanInv, Shape
<1>10. QED
  BY <1>1, <1>2, <1>3, <1>4, <1>5, <1>6, <1>7, <1>8, <1>9 DEF PartialNext

LEMMA PlanInvariant == PartialSpec => []PlanInv
BY PlanInit, PlanNext, PTL DEF PartialSpec

(***************************************************************************)
(* For every workflow, the subgraph that is cut out has exactly the        *)
(* connections on the ways from the trigger, or from a cycle, to the       *)
(* destination (find-subgraph.ts:6).                                       *)
(***************************************************************************)
THEOREM SubgraphExact == PartialSpec => []SubgraphIsExact
<1>1. PlanInv => SubgraphIsExact
  BY DEF PlanInv, FindInv, SubgraphIsExact, Planned, Exact
<1>2. QED
  BY <1>1, PlanInvariant, PTL

\* The terms in which the frontier is stated are those of the code.
LEMMA StartsIsHasToRun ==
    /\ Data = ValidData
    /\ \A n : Starts(n) <=> HasToRun(n)
    /\ Followed = Taken
<1> DEFINE conns == Connections(subgraph)
           dirty == request.dirty \cap Nodes(subgraph)
<1>1. Data = ValidData
  <2>1. dirty \cup UNION {GetChildren(subgraph, n) : n \in dirty} = Reach(conns, dirty)
    BY ReachOfSet DEF GetChildren
  <2>2. QED
    BY <2>1 DEF Data, ValidData, CleanRunData
<1>2. ASSUME NEW n PROVE Starts(n) <=> HasToRun(n)
  <2>1. GetChildren(subgraph, n) = After(conns, n)
    BY DEF GetChildren
  <2>2. QED
    BY <1>1, <2>1 DEF Starts, IsStartNode, IsDirty, LoopIsUnfinished, HasToRun
<1>3. ASSUME NEW c, ~HasToRun(c.from)
      PROVE  FollowsOutput(request, Data, c) <=>
               c.from \in request.pinned \/ c.output \in ValidData[c.from].any
  BY <1>1, <1>3 DEF FollowsOutput, HasToRun
<1>4. Followed = Taken
  BY <1>2, <1>3 DEF Followed, Taken
<1>5. QED
  BY <1>1, <1>2, <1>4

(***************************************************************************)
(* For every workflow and all run data, the start nodes that are found are *)
(* exactly the first nodes that have to run on the ways that the earlier   *)
(* run took from the trigger (find-start-nodes.ts:50).                     *)
(***************************************************************************)
THEOREM StartNodesFrontier == PartialSpec => []StartNodesAreFrontier
<1>1. ASSUME PlanInv, Planned PROVE found = {n \in Reach(Taken, {trigger}) : HasToRun(n)}
  <2>1. FindInv /\ stage = "planned" /\ visits = <<>>
    BY <1>1 DEF PlanInv, Planned, FindInv
  <2>2. found = {n \in Reach(Followed, {trigger}) : Starts(n)}
    BY <2>1, FoundIsFrontier
  <2>3. QED
    BY <2>2, StartsIsHasToRun
<1>2. PlanInv => StartNodesAreFrontier
  BY <1>1 DEF StartNodesAreFrontier
<1>3. QED
  BY <1>2, PlanInvariant, PTL

-----------------------------------------------------------------------------
(* Disabled nodes are taken out of the graph *)

\* The numbers 1 to rows * width stand for the places of a table, row by row.
LEMMA TablePlaces ==
    ASSUME NEW rows \in Nat, NEW width \in Nat
    PROVE  /\ \A k \in 1..(rows * width) : /\ ((k - 1) \div width) + 1 \in 1..rows
                                           /\ ((k - 1) % width) + 1 \in 1..width
           /\ \A i \in 1..rows, j \in 1..width : \E k \in 1..(rows * width) :
                ((k - 1) \div width) + 1 = i /\ ((k - 1) % width) + 1 = j
<1>1. ASSUME NEW k \in 1..(rows * width)
      PROVE  /\ ((k - 1) \div width) + 1 \in 1..rows
             /\ ((k - 1) % width) + 1 \in 1..width
  <2> DEFINE q == (k - 1) \div width
             r == (k - 1) % width
  <2>1. width > 0
    <3>1. width = 0 => rows * width = 0
      OBVIOUS
    <3>2. QED
      BY <3>1
  <2>2. q \in Int /\ r \in 0..(width - 1) /\ k - 1 = width * q + r
    BY <2>1
  <2> HIDE DEF q, r
  <2>3. q >= 0
    <3>1. SUFFICES ASSUME q <= -1 PROVE FALSE
      BY <2>2
    <3>2. width * q <= -width
      BY <2>1, <2>2, <3>1
    <3>3. QED
      BY <2>2, <3>2
  <2>4. q < rows
    <3>1. SUFFICES ASSUME q >= rows PROVE FALSE
      BY <2>2
    <3>2. width * q >= width * rows
      BY <2>1, <2>2, <3>1
    <3>3. width * rows = rows * width /\ rows * width \in Nat
      OBVIOUS
    <3>4. QED
      BY <2>2, <3>2, <3>3
  <2>5. q + 1 \in 1..rows /\ r + 1 \in 1..width
    BY <2>2, <2>3, <2>4
  <2>6. QED
    BY <2>5 DEF q, r
<1>2. ASSUME NEW i \in 1..rows, NEW j \in 1..width
      PROVE  \E k \in 1..(rows * width) :
               ((k - 1) \div width) + 1 = i /\ ((k - 1) % width) + 1 = j
  <2> DEFINE m == width * (i - 1)
             k == m + j
             q == (k - 1) \div width
             r == (k - 1) % width
  <2>1. m \in Nat /\ m + width = width * i /\ width > 0
    OBVIOUS
  <2>2. width * i <= width * rows /\ width * rows = rows * width
    BY <2>1
  <2>3. k \in 1..(rows * width)
    <3> HIDE DEF m
    <3> QED BY <2>1, <2>2
  <2>4. q \in Int /\ r \in 0..(width - 1) /\ k - 1 = width * q + r
    <3>1. k \in Int
      BY <2>3
    <3> HIDE DEF k
    <3>2. QED
      BY <2>1, <3>1
  <2> HIDE DEF q, r
  <2>5. width * (q - (i - 1)) = (j - 1) - r
    BY <2>4
  <2>6. q = i - 1
    <3>1. CASE q - (i - 1) >= 1
      <4>1. width * (q - (i - 1)) >= width
        BY <2>1, <2>4, <3>1
      <4>2. QED
        BY <2>4, <2>5, <4>1
    <3>2. CASE q - (i - 1) <= -1
      <4>1. width * (q - (i - 1)) <= -width
        BY <2>1, <2>4, <3>2
      <4>2. QED
        BY <2>4, <2>5, <4>1
    <3>3. QED
      BY <2>4, <3>1, <3>2
  <2>7. r = j - 1
    BY <2>4, <2>5, <2>6
  <2>8. q + 1 = i /\ r + 1 = j
    BY <2>6, <2>7
  <2>9. QED
    BY <2>3, <2>8 DEF q, r
<1>3. QED
  BY <1>1, <1>2

\* A connection has its ends and its output, and nothing else.
IsConnection(c) == c = [from |-> c.from, output |-> c.output, to |-> c.to]

\* The connection from one of the parents to one of the children
Joined(c, d) == [c EXCEPT !.to = d.to]

LEMMA JoinedEnds ==
    ASSUME NEW c, NEW d, IsConnection(c)
    PROVE  IsConnection(Joined(c, d)) /\ Joined(c, d).from = c.from /\ Joined(c, d).to = d.to
BY DEF IsConnection, Joined

\* What is left of a graph: the other nodes, the connections between them, and the
\* connections that join a parent and a child.
LEMMA RemoveNodeLeaves ==
    ASSUME NEW g, IsGraph(g), NEW n
    PROVE  /\ Nodes(RemoveNode(g, n)) = Nodes(g) \ {n}
           /\ Connections(RemoveNode(g, n)) =
                {c \in Connections(g) : c.from # n /\ c.to # n}
                \cup {Joined(c, d) : c \in {e \in Connections(g) : e.to = n},
                                     d \in {e \in Connections(g) : e.from = n}}
<1> DEFINE incoming == GetDirectParentConnections(g, n)
           outgoing == GetDirectChildConnections(g, n)
           width == Len(outgoing)
           size == Len(incoming) * width
           rewired == [k \in 1 .. size |->
                         [incoming[((k - 1) \div width) + 1] EXCEPT
                            !.to = outgoing[((k - 1) % width) + 1].to]]
           I == {i \in DOMAIN g.conns : n \notin {g.conns[i].from, g.conns[i].to}}
           J == {i \in DOMAIN g.nodes : g.nodes[i] # n}
           K == {i \in DOMAIN g.conns : g.conns[i].from = n}
<1>1. IsSeq(incoming) /\ Range(incoming) = {e \in Connections(g) : e.to = n}
  BY ParentConnections
<1>2. IsSeq(outgoing) /\ Range(outgoing) = {e \in Connections(g) : e.from = n}
  <2>1. IsSeq(AtPositions(g.conns, K)) /\ Range(AtPositions(g.conns, K)) = {g.conns[i] : i \in K}
    BY AtPositionsIsSeq DEF IsGraph
  <2>2. {g.conns[i] : i \in K} = {e \in Connections(g) : e.from = n}
    BY DEF Connections, Range
  <2>3. QED
    BY <2>1, <2>2 DEF GetDirectChildConnections
<1>3. /\ Len(incoming) \in Nat /\ DOMAIN incoming = 1..Len(incoming)
      /\ width \in Nat /\ DOMAIN outgoing = 1..width
  BY <1>1, <1>2, SeqIsSeq DEF IsSeq
<1>4. RemoveNode(g, n) = [nodes |-> AtPositions(g.nodes, J),
                          conns |-> PutAll(AtPositions(g.conns, I), rewired)]
  BY Zenon DEF RemoveNode
<1>5. DOMAIN rewired = 1..size /\ rewired = [k \in 1..size |-> rewired[k]]
  OBVIOUS
<1>6. \A k \in 1..size : rewired[k] = Joined(incoming[((k - 1) \div width) + 1],
                                              outgoing[((k - 1) % width) + 1])
  BY Zenon DEF Joined
<1> HIDE DEF incoming, outgoing, width, rewired
<1>7. size \in Nat
  BY <1>3
<1>8. /\ \A k \in 1..size : /\ ((k - 1) \div width) + 1 \in DOMAIN incoming
                            /\ ((k - 1) % width) + 1 \in DOMAIN outgoing
      /\ \A i \in DOMAIN incoming, j \in DOMAIN outgoing : \E k \in 1..size :
           ((k - 1) \div width) + 1 = i /\ ((k - 1) % width) + 1 = j
  <2>1. PICK rows \in Nat : rows = Len(incoming)
    BY <1>3, Zenon
  <2>2. /\ \A k \in 1..(rows * width) : /\ ((k - 1) \div width) + 1 \in 1..rows
                                        /\ ((k - 1) % width) + 1 \in 1..width
        /\ \A i \in 1..rows, j \in 1..width : \E k \in 1..(rows * width) :
             ((k - 1) \div width) + 1 = i /\ ((k - 1) % width) + 1 = j
    BY <1>3, TablePlaces, Zenon
  <2>3. size = rows * width /\ DOMAIN incoming = 1..rows /\ DOMAIN outgoing = 1..width
    BY <1>3, <2>1
  <2> HIDE DEF size
  <2>4. QED
    BY <2>2, <2>3, Zenon
<1> HIDE DEF size
<1>9. IsSeq(rewired)
  BY <1>5, <1>7, TabulatedIsSeq
<1>10. Range(rewired) = {Joined(c, d) : c \in Range(incoming), d \in Range(outgoing)}
  <2>1. ASSUME NEW k \in DOMAIN rewired
        PROVE  rewired[k] \in {Joined(c, d) : c \in Range(incoming), d \in Range(outgoing)}
    BY <1>5, <1>6, <1>8 DEF Range
  <2>2. ASSUME NEW i \in DOMAIN incoming, NEW j \in DOMAIN outgoing
        PROVE  Joined(incoming[i], outgoing[j]) \in Range(rewired)
    <3>1. PICK k \in 1..size : ((k - 1) \div width) + 1 = i /\ ((k - 1) % width) + 1 = j
      BY <1>8
    <3>2. rewired[k] = Joined(incoming[i], outgoing[j])
      BY <1>6, <3>1
    <3>3. QED
      BY <1>5, <3>2 DEF Range
  <2>3. ASSUME NEW c \in Range(incoming), NEW d \in Range(outgoing)
        PROVE  Joined(c, d) \in Range(rewired)
    <3>1. PICK i \in DOMAIN incoming : c = incoming[i]
      BY DEF Range
    <3>2. PICK j \in DOMAIN outgoing : d = outgoing[j]
      BY DEF Range
    <3>3. QED
      BY <2>2, <3>1, <3>2
  <2>4. Range(rewired) \subseteq {Joined(c, d) : c \in Range(incoming), d \in Range(outgoing)}
    BY <2>1 DEF Range
  <2>5. {Joined(c, d) : c \in Range(incoming), d \in Range(outgoing)} \subseteq Range(rewired)
    BY <2>3
  <2>6. QED
    BY <2>4, <2>5
<1>11. /\ IsSeq(AtPositions(g.conns, I)) /\ Range(AtPositions(g.conns, I)) = {g.conns[i] : i \in I}
       /\ Range(AtPositions(g.nodes, J)) = {g.nodes[i] : i \in J}
  BY AtPositionsIsSeq DEF IsGraph
<1>12. /\ {g.conns[i] : i \in I} = {c \in Connections(g) : c.from # n /\ c.to # n}
       /\ {g.nodes[i] : i \in J} = Nodes(g) \ {n}
  BY DEF Connections, Nodes, Range
<1> HIDE DEF I, J
<1>13. Range(PutAll(AtPositions(g.conns, I), rewired)) =
         Range(AtPositions(g.conns, I)) \cup Range(rewired)
  BY <1>9, <1>11, PutAllIsSeq
<1>14. /\ Nodes(RemoveNode(g, n)) = Range(AtPositions(g.nodes, J))
       /\ Connections(RemoveNode(g, n)) = Range(PutAll(AtPositions(g.conns, I), rewired))
  BY <1>4 DEF Nodes, Connections
<1>15. QED
  BY <1>1, <1>2, <1>10, <1>11, <1>12, <1>13, <1>14


\* The way to the destination is never cut, no way leads out of the graph, and the
\* disabled nodes that are left form no cycle.
OnWay ==
    /\ \A c \in Connections(graph) : IsConnection(c) /\ {c.from, c.to} \subseteq Nodes(graph)
    /\ \A n \in request.disabled : n \notin After(Inner(graph), n)
    /\ {trigger, request.dest} \subseteq Nodes(graph) \ request.disabled
    /\ request.dest \in {trigger} \cup After(Connections(graph), trigger)
    /\ stage = "cutting" => Called \subseteq Nodes(graph) /\ Nodes(subgraph) \subseteq Nodes(graph)

WayInv ==
    /\ request.dest \in Nodes(request.workflow)
    /\ DisabledAreAcyclic =>
         /\ stage # "failed"
         /\ stage \in {"filtering", "cutting"} => OnWay

\* Without a connection from the node to itself, removing it leaves connections
\* between the nodes that are left.
LEMMA RemoveNodeConnections ==
    ASSUME NEW g, IsGraph(g), NEW n,
           \A c \in Connections(g) : IsConnection(c) /\ {c.from, c.to} \subseteq Nodes(g),
           \A c \in Connections(g) : c.from # n \/ c.to # n
    PROVE  \A c \in Connections(RemoveNode(g, n)) :
             IsConnection(c) /\ {c.from, c.to} \subseteq Nodes(RemoveNode(g, n))
<1> SUFFICES ASSUME NEW c \in Connections(RemoveNode(g, n))
             PROVE  IsConnection(c) /\ {c.from, c.to} \subseteq Nodes(g) \ {n}
  BY RemoveNodeLeaves
<1>1. CASE c \in Connections(g) /\ c.from # n /\ c.to # n
  BY <1>1
<1>2. ASSUME NEW d \in Connections(g), NEW e \in Connections(g),
             d.to = n, e.from = n, c = Joined(d, e)
      PROVE  IsConnection(c) /\ {c.from, c.to} \subseteq Nodes(g) \ {n}
  BY <1>2, JoinedEnds
<1>3. QED
  BY <1>1, <1>2, RemoveNodeLeaves

\* The way from one of the other nodes to another is not cut.
LEMMA RemoveNodeKeepsWays ==
    ASSUME NEW g, IsGraph(g), NEW n, NEW a, NEW b, a # n, b # n,
           \A c \in Connections(g) : IsConnection(c),
           \A c \in Connections(g) : c.from # n \/ c.to # n,
           b \in After(Connections(g), a)
    PROVE  b \in After(Connections(RemoveNode(g, n)), a)
<1> DEFINE old == Connections(g)
           new == Connections(RemoveNode(g, n))
           A == After(new, a)
           T == A \cup {m \in {n} : \E c \in old : c.to = n /\ c.from \in {a} \cup A}
<1>1. /\ \A c \in old : c.from # n /\ c.to # n => c \in new
      /\ \A d \in old, e \in old : d.to = n /\ e.from = n => Joined(d, e) \in new
  BY RemoveNodeLeaves
<1>2. \A c \in new : c.to # n
  <2>1. ASSUME NEW d \in old, NEW e \in old, d.to = n, e.from = n PROVE Joined(d, e).to # n
    BY <2>1, JoinedEnds
  <2>2. QED
    BY <2>1, RemoveNodeLeaves
<1>3. \A c \in new : c.from \in {a} \cup A => c.to \in A
  <2>1. Closed(new, A)
    BY ReachClosed DEF After
  <2>2. QED
    BY <2>1, AfterStep DEF Closed
<1>4. n \notin A
  BY <1>2, AfterPredecessor
<1> HIDE DEF A, new
<1>5. ASSUME NEW c \in old, c.from \in {a} \cup T PROVE c.to \in T
  <2>1. CASE c.to = n
    <3>1. c.from # n
      BY <2>1
    <3>2. QED
      BY <1>5, <2>1, <3>1
  <2>2. CASE c.to # n /\ c.from # n
    BY <1>1, <1>3, <1>5, <2>2
  <2>3. CASE c.from = n
    <3>1. PICK d \in old : d.to = n /\ d.from \in {a} \cup A
      BY <1>4, <1>5, <2>3
    <3>2. Joined(d, c) \in new /\ Joined(d, c).from = d.from /\ Joined(d, c).to = c.to
      BY <1>1, <2>3, <3>1, JoinedEnds
    <3>3. QED
      BY <1>3, <3>1, <3>2
  <2>4. QED
    BY <2>1, <2>2, <2>3
<1> HIDE DEF T
<1>6. Closed(old, T) /\ {c.to : c \in {d \in old : d.from = a}} \subseteq T
  BY <1>5 DEF Closed
<1>7. After(old, a) \subseteq T
  BY <1>6, ReachLeast DEF After
<1>8. b \in A
  BY <1>7 DEF T
<1>9. QED
  BY <1>8 DEF A, new

\* Disabled nodes that form no cycle form none when one of them is taken out.
LEMMA RemoveNodeAcyclic ==
    ASSUME NEW g, IsGraph(g), NEW n \in request.disabled, NEW m,
           \A c \in Connections(g) : IsConnection(c),
           m \notin After(Inner(g), m)
    PROVE  m \notin After(Inner(RemoveNode(g, n)), m)
<1> DEFINE old == Inner(g)
           new == Inner(RemoveNode(g, n))
           A == After(old, m)
<1>1. \A c \in old : c.from \in {m} \cup A => c.to \in A
  <2>1. Closed(old, A)
    BY ReachClosed DEF After
  <2>2. QED
    BY <2>1, AfterStep DEF Closed
<1>2. ASSUME NEW c \in new, c.from \in {m} \cup A PROVE c.to \in A
  <2>1. c \in Connections(RemoveNode(g, n)) /\ {c.from, c.to} \subseteq request.disabled
    BY DEF Inner
  <2> HIDE DEF A
  <2>2. CASE c \in Connections(g)
    BY <1>1, <1>2, <2>1, <2>2 DEF Inner
  <2>3. ASSUME NEW d \in Connections(g), NEW e \in Connections(g),
               d.to = n, e.from = n, c = Joined(d, e)
        PROVE  c.to \in A
    <3>1. c.from = d.from /\ c.to = e.to
      BY <2>3, JoinedEnds
    <3>2. d \in old /\ e \in old
      BY <2>1, <2>3, <3>1 DEF Inner
    <3>3. QED
      BY <1>1, <1>2, <2>3, <3>1, <3>2
  <2>4. QED
    BY <2>1, <2>2, <2>3, RemoveNodeLeaves
<1>3. After(new, m) \subseteq A
  <2> HIDE DEF A, new
  <2>1. Closed(new, A) /\ {c.to : c \in {d \in new : d.from = m}} \subseteq A
    BY <1>2 DEF Closed
  <2>2. QED
    BY <2>1, ReachLeast DEF After
<1>4. QED
  BY <1>3

\* The request stays as it is.
LEMMA RequestFixed ==
    ASSUME [PartialNext]_vars
    PROVE  request' = request
<1>1. ASSUME NEW t, ChooseTrigger(t) PROVE request' = request
  BY <1>1 DEF ChooseTrigger
<1>2. ASSUME NEW i, FilterDisabledNodes(i) PROVE request' = request
  BY <1>2 DEF FilterDisabledNodes
<1>3. CASE FindSubgraphRecursive
  BY <1>3, Zenon DEF FindSubgraphRecursive
<1>4. CASE FindStartNodesRecursive
  BY <1>4, Zenon DEF FindStartNodesRecursive
<1>5. CASE Refuse \/ FindSubgraph \/ FindStartNodes \/ StartFromCycles \/ UNCHANGED vars
  BY <1>5 DEF Refuse, FindSubgraph, FindStartNodes, StartFromCycles, vars
<1>6. QED
  BY <1>1, <1>2, <1>3, <1>4, <1>5 DEF PartialNext

\* The trigger is a node that is not disabled, and leads to the destination.
LEMMA TriggerLeads ==
    ASSUME NEW t \in FindTrigger(request), request.dest \in Nodes(request.workflow)
    PROVE  /\ t \in Nodes(request.workflow) \ request.disabled
           /\ request.dest \in {t} \cup After(Connections(request.workflow), t)
<1> DEFINE parents == GetParentNodes(request.workflow, request.dest) \ request.disabled
<1>1. t \in parents \/ (t = request.dest /\ t \notin request.disabled)
  BY DEF FindTrigger
<1>2. QED
  BY <1>1 DEF GetParentNodes, GetChildren

LEMMA WayStarts ==
    ASSUME Shape, request.dest \in Nodes(request.workflow), DisabledAreAcyclic,
           NEW t \in FindTrigger(request), ChooseTrigger(t)
    PROVE  OnWay'
<1>1. /\ stage' = "filtering" /\ graph' = request.workflow /\ trigger' = t
      /\ request' = request /\ request.dest \notin request.disabled
  BY DEF ChooseTrigger
<1>2. ASSUME NEW c \in Connections(request.workflow)
      PROVE  IsConnection(c) /\ {c.from, c.to} \subseteq Nodes(request.workflow)
  <2> DEFINE w == request.workflow
  <2>1. w \in Workflows
    BY DEF Shape
  <2> HIDE DEF w
  <2>2. w.conns \in Seq([from : Nodes(w), output : Nat, to : Nodes(w)])
    BY <2>1, WorkflowsAssumption
  <2>3. Range(w.conns) \subseteq [from : Nodes(w), output : Nat, to : Nodes(w)]
    <3>1. \A Q, q : q \in Seq(Q) => Range(q) \subseteq Q
      BY DEF Range
    <3>2. QED
      BY <2>2, <3>1, Zenon
  <2>4. c \in [from : Nodes(w), output : Nat, to : Nodes(w)]
    BY <2>3 DEF Connections, w
  <2>5. QED
    BY <2>4 DEF IsConnection, w
<1>3. Inner(graph)' = Inner(request.workflow)
  BY <1>1 DEF Inner
<1>4. \A n \in request'.disabled : n \notin After(Inner(graph), n)'
  BY <1>1, <1>3 DEF DisabledAreAcyclic
<1>5. QED
  BY <1>1, <1>2, <1>4, TriggerLeads DEF OnWay

LEMMA WayFiltered ==
    ASSUME Shape, OnWay, NEW i \in DOMAIN graph.nodes, FilterDisabledNodes(i)
    PROVE  OnWay'
<1>1. PICK n : n = graph.nodes[i]
  OBVIOUS
<1>2. /\ stage = "filtering" /\ stage' = stage /\ graph' = RemoveNode(graph, n)
      /\ n \in request.disabled /\ trigger' = trigger /\ request' = request
  BY <1>1 DEF FilterDisabledNodes
<1>3. IsGraph(graph)
  BY DEF Shape
<1>4. ASSUME NEW c \in Connections(graph) PROVE c.from # n \/ c.to # n
  <2>1. SUFFICES ASSUME c.from = n, c.to = n PROVE FALSE
    OBVIOUS
  <2>2. c \in Inner(graph)
    BY <1>2, <2>1 DEF Inner
  <2>3. n \in After(Inner(graph), n)
    BY <2>1, <2>2, AfterStep
  <2>4. QED
    BY <1>2, <2>3 DEF OnWay
<1>5. \A c \in Connections(graph)' : IsConnection(c) /\ {c.from, c.to} \subseteq Nodes(graph)'
  BY <1>2, <1>3, <1>4, RemoveNodeConnections DEF OnWay
<1>6. ASSUME NEW m \in request.disabled PROVE m \notin After(Inner(graph), m)'
  <2>1. m \notin After(Inner(RemoveNode(graph, n)), m)
    BY <1>2, <1>3, RemoveNodeAcyclic DEF OnWay
  <2>2. Inner(graph)' = Inner(RemoveNode(graph, n))
    BY <1>2 DEF Inner
  <2>3. QED
    BY <2>1, <2>2
<1>7. {trigger, request.dest} \subseteq Nodes(graph') \ request.disabled
  BY <1>2, <1>3, RemoveNodeLeaves DEF OnWay
<1>8. request.dest \in {trigger} \cup After(Connections(graph'), trigger)
  <2>1. CASE request.dest = trigger
    BY <2>1
  <2>2. CASE request.dest \in After(Connections(graph), trigger)
    <3>1. trigger # n /\ request.dest # n
      BY <1>2 DEF OnWay
    <3>2. request.dest \in After(Connections(RemoveNode(graph, n)), trigger)
      BY <1>3, <1>4, <2>2, <3>1, RemoveNodeKeepsWays DEF OnWay
    <3>3. QED
      BY <1>2, <3>2
  <2>3. QED
    BY <2>1, <2>2 DEF OnWay
<1>9. QED
  BY <1>2, <1>5, <1>6, <1>7, <1>8 DEF OnWay

\* A branch that is kept is one of the graph, so its nodes are nodes of the graph.
LEMMA WayKept ==
    ASSUME Shape, CutInv, OnWay, FindSubgraphRecursive
    PROVE  Nodes(subgraph') \subseteq Nodes(graph)
<1> DEFINE p == Head(branches)
           more == [subgraph EXCEPT !.nodes = PutAll(@, <<trigger>>)]
<1>1. /\ stage = "cutting" /\ branches # <<>>
      /\ \/ subgraph' = subgraph
         \/ p.node = trigger /\ subgraph' = KeepBranch(more, p.branch)
         \/ p.node # request.dest /\ subgraph' = KeepBranch(subgraph, p.branch)
  BY Zenon DEF FindSubgraphRecursive
<1>2. Nodes(subgraph) \subseteq Nodes(graph) /\ IsGraph(subgraph)
  BY <1>1 DEF OnWay, Shape
<1>3. IsGraph(more) /\ Nodes(more) = Nodes(subgraph) \cup {trigger}
  <2>1. more.conns = subgraph.conns /\ more.nodes = PutAll(subgraph.nodes, <<trigger>>)
    BY DEF Shape
  <2>2. IsSeq(<<trigger>>) /\ Range(<<trigger>>) = {trigger}
    BY SingletonIsSeq
  <2>3. /\ IsSeq(PutAll(subgraph.nodes, <<trigger>>))
        /\ Range(PutAll(subgraph.nodes, <<trigger>>)) = Range(subgraph.nodes) \cup {trigger}
    BY <1>2, <2>2, PutAllIsSeq DEF IsGraph
  <2>4. QED
    BY <1>2, <2>1, <2>3 DEF IsGraph, Nodes
<1>4. BranchOK(p)
  BY <1>1, TailIsSeq DEF CutInv
<1> HIDE DEF p, more
<1>5. ASSUME p.node = trigger \/ p.node # request.dest, NEW c \in Range(p.branch)
      PROVE  {c.from, c.to} \subseteq Nodes(graph)
  <2>1. p.branch # <<>>
    BY <1>5, EmptySeq DEF Range
  <2>2. p.node # request.dest
    BY <1>4, <1>5, <2>1 DEF BranchOK
  <2>3. c \in Connections(graph)
    BY <1>4, <1>5, <2>2 DEF BranchOK, Ways
  <2>4. QED
    BY <2>3 DEF OnWay
<1>6. trigger \in Nodes(graph) /\ IsSeq(p.branch)
  BY <1>4 DEF OnWay, BranchOK
<1>7. CASE p.node = trigger /\ subgraph' = KeepBranch(more, p.branch)
  <2>1. \A n \in Nodes(subgraph') :
          n \in Nodes(more) \/ \E c \in Range(p.branch) : n \in {c.from, c.to}
    BY <1>3, <1>6, <1>7, KeepBranchKeeps
  <2>2. QED
    BY <1>2, <1>3, <1>5, <1>6, <1>7, <2>1
<1>8. CASE p.node # request.dest /\ subgraph' = KeepBranch(subgraph, p.branch)
  <2>1. \A n \in Nodes(subgraph') :
          n \in Nodes(subgraph) \/ \E c \in Range(p.branch) : n \in {c.from, c.to}
    BY <1>2, <1>6, <1>8, KeepBranchKeeps
  <2>2. QED
    BY <1>2, <1>5, <1>8, <2>1
<1>9. QED
  BY <1>1, <1>2, <1>7, <1>8

\* What comes before nodes of the graph are nodes of the graph.
LEMMA WayBack ==
    ASSUME OnWay, NEW N \in SUBSET Nodes(graph)
    PROVE  HasParentConnections(graph, N)
<1>1. Closed(Reversed(Connections(graph)), Nodes(graph))
  BY DEF Closed, Reversed, OnWay
<1>2. QED
  BY <1>1, ReachLeast DEF HasParentConnections

\* A call is for a node of the graph, and makes calls for nodes of the graph.
LEMMA WayCalled ==
    ASSUME Shape, CutInv, OnWay, FindSubgraphRecursive
    PROVE  stage' # "failed" /\ OnWay'
<1>0. Nodes(subgraph') \subseteq Nodes(graph)
  BY WayKept
<1> DEFINE p == Head(branches)
           parents == GetDirectParentConnections(graph, p.node)
           calls == [k \in DOMAIN parents |->
                       [node |-> parents[k].from, branch |-> Append(p.branch, parents[k])]]
<1>1. /\ stage = "cutting" /\ branches # <<>> /\ UNCHANGED <<request, trigger, graph>>
      /\ \/ p.node # trigger /\ p.node \notin Nodes(graph) /\ stage' = "failed"
         \/ stage' = stage /\ branches' = Tail(branches)
         \/ stage' = stage /\ branches' = calls \o Tail(branches)
  BY Zenon DEF FindSubgraphRecursive
<1>2. /\ p \in Range(branches) /\ IsSeq(Tail(branches))
      /\ Range(Tail(branches)) \subseteq Range(branches)
  BY <1>1, TailIsSeq DEF CutInv
<1>3. p.node \in Nodes(graph)
  BY <1>1, <1>2 DEF OnWay, Called
<1>4. /\ IsSeq(calls)
      /\ \A q \in Range(calls) : \E c \in Connections(graph) : q.node = c.from
  <2>1. IsSeq(parents) /\ Range(parents) = {d \in Connections(graph) : d.to = p.node}
    BY ParentConnections DEF Shape
  <2> HIDE DEF parents, p
  <2>2. DOMAIN calls = DOMAIN parents /\ calls = [k \in DOMAIN parents |-> calls[k]]
    OBVIOUS
  <2>3. ASSUME NEW q \in Range(calls) PROVE \E c \in Range(parents) : q.node = c.from
    BY DEF Range
  <2> HIDE DEF calls
  <2>4. QED
    BY <2>1, <2>2, <2>3, MappedIsSeq
<1> HIDE DEF p, parents, calls
<1>5. stage' = stage /\ \A q \in Range(branches)' : q \in Range(branches) \cup Range(calls)
  <2>1. CASE branches' = Tail(branches)
    BY <1>1, <1>2, <1>3, <2>1
  <2>2. CASE branches' = calls \o Tail(branches)
    <3>1. Range(calls \o Tail(branches)) = Range(calls) \cup Range(Tail(branches))
      BY <1>2, <1>4, ConcatIsSeq
    <3>2. QED
      BY <1>1, <1>2, <1>3, <2>2, <3>1
  <2>3. QED
    BY <1>1, <1>3, <2>1, <2>2
<1>6. Called' \subseteq Nodes(graph)
  BY <1>1, <1>4, <1>5 DEF Called, OnWay
<1>7. Inner(graph)' = Inner(graph)
  BY <1>1 DEF Inner
<1>8. QED
  BY <1>0, <1>1, <1>5, <1>6, <1>7 DEF OnWay

\* When no call is pending, one has come to the trigger: otherwise all nodes from which
\* a way leads to the destination were searched, and the trigger is one of them.
LEMMA WayArrived ==
    ASSUME CutInv, OnWay, stage = "cutting", branches = <<>>
    PROVE  trigger \in Nodes(subgraph)
<1> SUFFICES ASSUME trigger \notin Nodes(subgraph) PROVE FALSE
  OBVIOUS
<1>1. Arrived = {} /\ Called = {}
  BY DEF Arrived, Called, Range
<1>2. PICK E \in SUBSET Nodes(graph) : Explored(E)
  BY DEF CutInv
<1>3. /\ trigger \notin E /\ request.dest \in E
      /\ \A c \in Connections(graph) : c.to \in E => c.from \in E
  BY <1>1, <1>2 DEF Explored
<1> DEFINE S == Nodes(graph) \ E
<1>4. Closed(Connections(graph), S) /\ trigger \in S
  BY <1>3 DEF Closed, OnWay
<1>5. After(Connections(graph), trigger) \subseteq S
  BY <1>4, AfterInClosed
<1>6. QED
  BY <1>3, <1>5 DEF OnWay

LEMMA WayInit == PartialInit => WayInv
<1> SUFFICES ASSUME PartialInit PROVE WayInv
  OBVIOUS
<1>1. PICK w \in Workflows, m \in Marks : request.workflow = w /\ request.dest = m.dest
  BY DEF PartialInit
<1>2. m.dest \in Nodes(w)
  BY WorkflowsAssumption
<1>3. QED
  BY <1>1, <1>2 DEF WayInv, PartialInit

LEMMA WayNext == PlanInv /\ WayInv /\ [PartialNext]_vars => WayInv'
<1> SUFFICES ASSUME PlanInv, WayInv, [PartialNext]_vars PROVE WayInv'
  OBVIOUS
<1>0. Shape /\ CutInv
  BY DEF PlanInv
<1>1. /\ request' = request /\ DisabledAreAcyclic' = DisabledAreAcyclic
      /\ request.dest \in Nodes(request.workflow)
  <2>1. request' = request
    BY RequestFixed
  <2>2. QED
    BY <2>1 DEF DisabledAreAcyclic, Inner, WayInv
<1>2. SUFFICES ASSUME DisabledAreAcyclic
               PROVE  /\ stage' # "failed"
                      /\ stage' \in {"filtering", "cutting"} => OnWay'
  BY <1>1 DEF WayInv
<1>3. stage # "failed" /\ (stage \in {"filtering", "cutting"} => OnWay)
  BY <1>2 DEF WayInv
<1>4. CASE Refuse
  BY <1>4 DEF Refuse
<1>5. ASSUME NEW t \in FindTrigger(request), ChooseTrigger(t)
      PROVE  stage' # "failed" /\ OnWay'
  BY <1>0, <1>1, <1>2, <1>5, WayStarts DEF ChooseTrigger
<1>6. ASSUME NEW i \in DOMAIN graph.nodes, FilterDisabledNodes(i)
      PROVE  stage' # "failed" /\ OnWay'
  BY <1>0, <1>3, <1>6, WayFiltered DEF FilterDisabledNodes
<1>7. CASE FindSubgraph
  <2>1. /\ stage = "filtering" /\ stage' = "cutting" /\ UNCHANGED <<request, trigger, graph>>
        /\ branches' = <<[node |-> request.dest, branch |-> <<>>]>>
        /\ subgraph' = NoGraph
    BY <1>0, <1>7 DEF FindSubgraph, Shape
  <2>2. Called' = {request.dest}
    <3>1. Range(<<[node |-> request.dest, branch |-> <<>>]>>) =
            {[node |-> request.dest, branch |-> <<>>]}
      BY SingletonIsSeq
    <3>2. QED
      BY <2>1, <3>1 DEF Called
  <2>3. Inner(graph)' = Inner(graph) /\ Nodes(subgraph') = {}
    BY <2>1, EmptySeq DEF Inner, Nodes, NoGraph, Range
  <2>4. QED
    BY <1>3, <2>1, <2>2, <2>3 DEF OnWay
<1>8. CASE FindSubgraphRecursive
  <2>1. stage = "cutting"
    BY <1>8, Zenon DEF FindSubgraphRecursive
  <2>2. QED
    BY <1>0, <1>3, <1>8, <2>1, WayCalled
<1>9. CASE FindStartNodes
  <2>1. /\ stage = "cutting" /\ branches = <<>>
        /\ stage' = IF HasParentConnections(graph, Nodes(subgraph)) /\ trigger \in Nodes(subgraph)
                    THEN "finding" ELSE "failed"
    BY <1>9 DEF FindStartNodes
  <2>2. HasParentConnections(graph, Nodes(subgraph))
    BY <1>3, <2>1, WayBack DEF OnWay
  <2>3. QED
    BY <1>0, <1>3, <2>1, <2>2, WayArrived
<1>10. CASE FindStartNodesRecursive
  <2>1. stage = "finding" /\ stage' = stage
    BY <1>10, Zenon DEF FindStartNodesRecursive
  <2>2. QED
    BY <2>1
<1>11. CASE StartFromCycles
  BY <1>11 DEF StartFromCycles
<1>12. CASE UNCHANGED vars
  <2>1. UNCHANGED <<request, stage, trigger, graph, branches, subgraph>>
    BY <1>12 DEF vars
  <2>2. Inner(graph)' = Inner(graph) /\ Called' = Called
    BY <2>1 DEF Inner, Called
  <2>3. QED
    BY <1>3, <2>1, <2>2 DEF OnWay
<1>13. QED
  BY <1>4, <1>5, <1>6, <1>7, <1>8, <1>9, <1>10, <1>11, <1>12 DEF PartialNext

LEMMA WayInvariant == PartialSpec => []WayInv
BY PlanInvariant, WayInit, WayNext, PTL DEF PartialSpec

(***************************************************************************)
(* For every workflow whose disabled nodes form no cycle, no search comes  *)
(* to a node that was taken out of the graph, and the trigger is in the    *)
(* subgraph of its destination: the assertions of directed-graph.ts:218    *)
(* and directed-graph.ts:261 do not fail.                                  *)
(***************************************************************************)
THEOREM NodesAreInGraph == PartialSpec => [](DisabledAreAcyclic => NodesArePartOfGraph)
<1>1. WayInv => (DisabledAreAcyclic => NodesArePartOfGraph)
  BY DEF WayInv, NodesArePartOfGraph
<1>2. QED
  BY <1>1, WayInvariant, PTL

-----------------------------------------------------------------------------
(* Start nodes run *)

\* What a plan consists of
StackInv ==
    stage = "planned" =>
      /\ runData = CleanRunData(Data, subgraph, start)
      /\ stack = RecreateNodeExecutionStack(request, subgraph, start, runData)

LEMMA StackNext == PlanInv /\ StackInv /\ [PartialNext]_vars => StackInv'
<1> SUFFICES ASSUME PlanInv, StackInv, [PartialNext]_vars, stage' = "planned"
             PROVE  /\ runData' = CleanRunData(Data', subgraph', start')
                    /\ stack' = RecreateNodeExecutionStack(request', subgraph', start', runData')
  BY DEF StackInv
<1>1. CASE StartFromCycles
  <2>1. /\ stage = "finding" /\ request' = request /\ subgraph' = subgraph
        /\ runData' = CleanRunData(runData, subgraph, start')
        /\ stack' = RecreateNodeExecutionStack(request, subgraph, start', runData')
    BY <1>1 DEF StartFromCycles
  <2>2. runData = Data
    BY <2>1 DEF PlanInv, FindInv
  <2>3. Data' = Data
    BY <2>1 DEF Data
  <2>4. QED
    BY <2>1, <2>2, <2>3
<1>2. CASE UNCHANGED vars
  <2>1. UNCHANGED <<request, stage, subgraph, runData, start, stack>>
    BY <1>2 DEF vars, planVars
  <2>2. Data' = Data
    BY <2>1 DEF Data
  <2>3. QED
    BY <2>1, <2>2 DEF StackInv
<1>3. ASSUME NEW t, ChooseTrigger(t) PROVE FALSE
  BY <1>3 DEF ChooseTrigger
<1>4. ASSUME NEW i, FilterDisabledNodes(i) PROVE FALSE
  BY <1>4 DEF FilterDisabledNodes
<1>5. CASE FindSubgraphRecursive
  BY <1>5, CutCall DEF PlanInv
<1>6. CASE FindStartNodesRecursive
  <2>1. stage = "finding" /\ stage' = stage
    BY <1>6, Zenon DEF FindStartNodesRecursive
  <2>2. QED
    BY <2>1
<1>7. CASE Refuse \/ FindSubgraph \/ FindStartNodes
  BY <1>7 DEF Refuse, FindSubgraph, FindStartNodes
<1>8. QED
  BY <1>1, <1>2, <1>3, <1>4, <1>5, <1>6, <1>7 DEF PartialNext

LEMMA StackInvariant == PartialSpec => []StackInv
<1>1. PartialInit => StackInv
  BY DEF PartialInit, StackInv
<1>2. QED
  BY <1>1, PlanInvariant, StackNext, PTL DEF PartialSpec

\* Without a cycle, some node of a set comes after no node of the set: one after which
\* there are most connections.
LEMMA FirstNode ==
    ASSUME NEW g, IsGraph(g), NEW B, B # {},
           \A c \in Connections(g) : c.to \notin After(Connections(g), c.to)
    PROVE  \E n \in B : \A m \in B : n \notin After(Connections(g), m)
<1> DEFINE conns == Connections(g)
           size == Len(g.conns)
           Below(n) == {i \in DOMAIN g.conns : g.conns[i].to \in After(conns, n)}
           Place(n) == size + 1 - Cardinality(Below(n))
           line == [k \in 1..(size + 1) |-> k]
           I == {Place(n) : n \in B}
<1>1. size \in Nat /\ DOMAIN g.conns = 1..size /\ IsFiniteSet(DOMAIN g.conns)
  <2>1. size \in Nat /\ DOMAIN g.conns = 1..size
    BY LenProperties DEF IsGraph, IsSeq
  <2>2. QED
    BY <2>1, FS_Interval
<1>2. \A n : IsFiniteSet(Below(n)) /\ Cardinality(Below(n)) \in 0..size
  <2>1. TAKE n
  <2>2. Below(n) \in SUBSET (1..size) /\ IsFiniteSet(1..size)
    BY <1>1
  <2> HIDE DEF Below, size
  <2>3. Cardinality(1..size) = size
    BY <1>1, FS_Interval
  <2>4. IsFiniteSet(Below(n)) /\ Cardinality(Below(n)) <= size /\ Cardinality(Below(n)) \in Nat
    BY <2>2, <2>3, FS_Subset, FS_CardinalityType
  <2>5. QED
    BY <1>1, <2>4
<1>3. ASSUME NEW m, NEW n \in After(conns, m) PROVE Place(m) < Place(n)
  <2>1. PICK c \in conns : c.to = n
    BY AfterPredecessor
  <2>2. n \notin After(conns, n)
    BY <2>1
  <2>3. After(conns, n) \subseteq After(conns, m)
    <3>1. Closed(conns, After(conns, m))
      BY ReachClosed DEF After
    <3>2. QED
      BY <3>1, AfterInClosed
  <2>4. PICK i \in DOMAIN g.conns : g.conns[i] = c
    BY <2>1 DEF Connections, Range
  <2>5. Below(n) \in SUBSET Below(m) /\ i \in Below(m) /\ i \notin Below(n)
    BY <2>1, <2>2, <2>3, <2>4
  <2>6. IsFiniteSet(Below(m)) /\ Cardinality(Below(m)) \in 0..size /\ Cardinality(Below(n)) \in 0..size
    BY <1>2
  <2> HIDE DEF Below, size
  <2>7. Cardinality(Below(n)) <= Cardinality(Below(m)) /\ Cardinality(Below(n)) # Cardinality(Below(m))
    BY <2>5, <2>6, FS_Subset
  <2>8. QED
    BY <1>1, <2>6, <2>7
<1>4. \A n : Place(n) \in 1..(size + 1)
  <2> HIDE DEF Below, size
  <2> QED BY <1>1, <1>2
<1>5. IsSeq(line) /\ DOMAIN line = 1..(size + 1)
  <2> HIDE DEF size
  <2>1. DOMAIN line = 1..(size + 1) /\ line \in Seq(1..(size + 1))
    BY <1>1
  <2>2. QED
    BY <2>1, SeqIsSeq
<1> HIDE DEF Place, line
<1>6. I \in SUBSET DOMAIN line /\ I # {}
  BY <1>4, <1>5
<1> HIDE DEF I
<1>7. PICK i \in I : \A j \in I : i <= j
  BY <1>5, <1>6, FirstPosition
<1>8. PICK n \in B : i = Place(n)
  BY DEF I
<1>9. ASSUME NEW m \in B, n \in After(conns, m) PROVE FALSE
  <2>1. Place(m) < Place(n) /\ Place(m) \in I
    BY <1>3, <1>9 DEF I
  <2>2. Place(m) \in Int /\ Place(n) \in Int
    <3> HIDE DEF size
    <3> QED BY <1>1, <1>4
  <2>3. QED
    BY <1>7, <1>8, <2>1, <2>2
<1>10. QED
  BY <1>9

\* A start node without input on the stack comes after another one.
LEMMA StartedAgain ==
    ASSUME PlanInv, StackInv, stage = "planned", start = found,
           NEW n \in start, n \notin {s.to : s \in stack}
    PROVE  \E m \in start : n \in After(Connections(subgraph), m)
<1> DEFINE conns == Connections(subgraph)
<1>1. /\ conns \subseteq Ways
      /\ n \in Reach(Followed, {trigger}) /\ \A m \in start : Starts(m)
      /\ IsGraph(subgraph)
  BY DEF PlanInv, FindInv, Shape, Exact
<1>2. /\ runData = CleanRunData(Data, subgraph, start)
      /\ stack = RecreateNodeExecutionStack(request, subgraph, start, runData)
  BY DEF StackInv
<1>3. n # trigger
  <2>1. SUFFICES ASSUME n = trigger PROVE FALSE
    OBVIOUS
  <2> DEFINE parents == GetDirectParentConnections(subgraph, n)
  <2>2. IsSeq(parents) /\ Range(parents) = {d \in conns : d.to = n}
    BY <1>1, ParentConnections
  <2>3. Range(parents) = {}
    BY <1>1, <2>1, <2>2 DEF Ways
  <2>4. parents = <<>>
    <3> HIDE DEF parents
    <3> QED BY <2>2, <2>3 DEF IsSeq
  <2>5. [from |-> NoNode, to |-> n] \in stack
    BY <1>2, <2>4 DEF RecreateNodeExecutionStack
  <2>6. QED
    BY <2>5
<1>4. PICK c \in Followed : c.to = n
  BY <1>1, <1>3, ReachPredecessor
<1>5. c \in conns /\ ~Starts(c.from) /\ FollowsOutput(request, Data, c)
  BY DEF Followed
<1>6. c.from \notin DOMAIN runData /\ c.from \notin request.pinned
  <2>1. SUFFICES ASSUME c.from \in DOMAIN runData \cup request.pinned PROVE FALSE
    OBVIOUS
  <2>2. [from |-> c.from, to |-> c.to] \in stack
    BY <1>2, <1>4, <1>5, <2>1 DEF RecreateNodeExecutionStack
  <2>3. QED
    BY <1>4, <2>2
<1>7. c.from \in DOMAIN Data
  BY <1>5, <1>6 DEF FollowsOutput
<1>8. c.from \in Nodes(subgraph)
  BY <1>7 DEF Data, CleanRunData
<1>9. c.from \in start \cup UNION {GetChildren(subgraph, m) : m \in start}
  BY <1>2, <1>6, <1>7, <1>8 DEF CleanRunData
<1>10. PICK m \in start : c.from \in After(conns, m)
  BY <1>1, <1>5, <1>9 DEF GetChildren
<1>11. Closed(conns, After(conns, m))
  BY ReachClosed DEF After
<1>12. QED
  BY <1>4, <1>5, <1>10, <1>11 DEF Closed

(***************************************************************************)
(* For every workflow and all run data: where handleCycles left the start  *)
(* nodes alone, every start node runs if the subgraph has no cycle.  Data  *)
(* is deleted at and below the start nodes, but a start node loses its     *)
(* input only to one that comes before it and gives it new input           *)
(* (workflow-execute.ts:292).                                              *)
(***************************************************************************)
THEOREM StartNodesRunWithoutCycles ==
    PartialSpec => [](start = found => AcyclicPlansRun)
<1>1. ASSUME PlanInv, StackInv, SubgraphIsAcyclic, start = found, Planned
      PROVE  start \subseteq Reach(Connections(subgraph), {s.to : s \in stack})
  <2> DEFINE conns == Connections(subgraph)
             R == Reach(conns, {s.to : s \in stack})
             B == start \ R
  <2>1. {s.to : s \in stack} \subseteq R /\ Closed(conns, R)
    BY ReachClosed
  <2>2. ASSUME NEW n \in B PROVE \E m \in B : n \in After(conns, m)
    <3>1. PICK m \in start : n \in After(conns, m)
      BY <1>1, <2>1, <2>2, StartedAgain DEF Planned
    <3>2. m \notin R
      BY <2>1, <3>1, AfterInClosed
    <3>3. QED
      BY <3>1, <3>2
  <2>3. IsGraph(subgraph)
    BY <1>1 DEF PlanInv, Shape
  <2> HIDE DEF B
  <2>4. B = {}
    BY <1>1, <2>2, <2>3, FirstNode DEF SubgraphIsAcyclic
  <2>5. QED
    BY <2>4 DEF B
<1>2. PlanInv /\ StackInv => (start = found => AcyclicPlansRun)
  BY <1>1 DEF AcyclicPlansRun, StartNodesRun
<1>3. QED
  BY <1>2, PlanInvariant, StackInvariant, PTL

=============================================================================
