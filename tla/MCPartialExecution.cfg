SPECIFICATION PartialSpec
CONSTANTS
    Workflows <- MCWorkflows
    RunDatas <- MCRunDatas
    Marks <- MCMarks
    Triggers <- MCTriggers
    Loops <- MCLoops
CHECK_DEADLOCK FALSE
INVARIANTS
    SubgraphIsExact
    StartNodesAreFrontier
    AcyclicPlansRun
    NodesArePartOfGraph
