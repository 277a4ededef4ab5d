------------------------- MODULE MCPartialExecution -------------------------
(* Families of requests for PartialExecution.  Node 1 is a trigger, node 2 a *)
(* loop node with two outputs, the others are plain nodes.                   *)
EXTENDS PartialExecution

MCTriggers == {1}
MCLoops == {2}

Conn(from, output, to) == [from |-> from, output |-> output, to |-> to]

\* All workflows over the nodes 1..n with some of these connections, which come node
\* by node and output by output, as fromWorkflow adds them
WorkflowsOver(n, conns) ==
    {[nodes |-> [i \in 1..n |-> i], conns |-> SelectSeq(conns, LAMBDA c : c \in some)] :
       some \in SUBSET Range(conns)}

Unmarked(dest) == [dest |-> dest, disabled |-> {}, dirty |-> {}, pinned |-> {}, failed |-> {}]
Ran(any, last) == [any |-> any, last |-> last]
NothingRan == {<<>>}

\* getChildrenRecursive, as it is written, computes the least closed set
RECURSIVE GetChildrenRecursive(_, _, _)
GetChildrenRecursive(g, n, children) ==
    FoldLeft(LAMBDA all, c : IF c.to \in all THEN all
                             ELSE GetChildrenRecursive(g, c.to, all \cup {c.to}),
             children, GetDirectChildConnections(g, n))

ASSUME GetChildrenIsReach ==
    \A w \in Workflows : \A n \in Nodes(w) : GetChildrenRecursive(w, n, {}) = GetChildren(w, n)

\* handleCycles leaves start nodes alone where there is no cycle
ASSUME HandleCyclesKeepsNodes ==
    \A w \in Workflows :
      LET conns == Connections(w) IN
      (\A n \in Nodes(w) : n \notin After(conns, n)) =>
        \A n \in Reach(conns, MCTriggers) : HandleCycles(w, {n}, 1) = {n}

-----------------------------------------------------------------------------
(* Four nodes and nearly every way to connect them, earlier runs of any    *)
(* reach, and at most one thing that is special.                           *)

MCWorkflows ==
    WorkflowsOver(4, <<Conn(1, 0, 2), Conn(1, 0, 3), Conn(1, 0, 4), Conn(2, 0, 3), Conn(2, 0, 4),
                       Conn(2, 1, 3), Conn(3, 0, 2), Conn(3, 0, 4), Conn(4, 0, 2)>>)

MCRunDatas ==
    LET first == 1 :> Ran({0}, {0})
        loop == {<<>>, 2 :> Ran({1}, {1}), 2 :> Ran({0, 1}, {0}), 2 :> Ran({0}, {0})}
        node == {<<>>, 3 :> Ran({}, {}), 3 :> Ran({0}, {0})}
    IN {first @@ l @@ n : l \in loop, n \in node} \cup {<<>>, 3 :> Ran({0}, {0})}

MCMarks ==
    {Unmarked(1), Unmarked(4)}
    \cup {[Unmarked(4) EXCEPT !.disabled = {n}] : n \in 1..4}
    \cup {[Unmarked(4) EXCEPT !.dirty = {n}] : n \in {2, 3}}
    \cup {[Unmarked(4) EXCEPT !.pinned = {n}] : n \in {1, 2}}
    \cup {[Unmarked(4) EXCEPT !.failed = {3}]}

-----------------------------------------------------------------------------
\* A loop of two disabled nodes before the destination
LoopWorkflows ==
    WorkflowsOver(4, <<Conn(1, 0, 2), Conn(2, 0, 4), Conn(2, 1, 3), Conn(3, 0, 2)>>)
LoopDisabled == {[Unmarked(4) EXCEPT !.disabled = {2, 3}]}

\* A cycle that leads to the destination, and to which the trigger may not lead
CycleWorkflows ==
    WorkflowsOver(4, <<Conn(1, 0, 2), Conn(1, 0, 4), Conn(2, 1, 3), Conn(3, 0, 2), Conn(3, 0, 4)>>)
CycleMarks == {Unmarked(4)}

\* Loops in loops: five nodes, the last of which is the destination
NestedWorkflows ==
    WorkflowsOver(5, <<Conn(1, 0, 2), Conn(2, 0, 5), Conn(2, 1, 3), Conn(3, 0, 4),
                       Conn(3, 0, 2), Conn(4, 0, 3), Conn(4, 0, 5)>>)
NestedRunDatas == {(1 :> Ran({0}, {0})) @@ (2 :> Ran({0, 1}, {0})) @@ (3 :> Ran({0}, {0}))}
NestedMarks == {Unmarked(5)}
=============================================================================
