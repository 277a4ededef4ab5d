SPECIFICATION PartialSpec
CONSTANTS
    Workflows <- LoopWorkflows
    RunDatas <- NothingRan
    Marks <- LoopDisabled
    Triggers <- MCTriggers
    Loops <- MCLoops
CHECK_DEADLOCK FALSE
INVARIANT NodesArePartOfGraph
