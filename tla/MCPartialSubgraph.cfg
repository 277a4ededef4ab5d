SPECIFICATION PartialSpec
CONSTANTS
    Workflows <- CycleWorkflows
    RunDatas <- NothingRan
    Marks <- CycleMarks
    Triggers <- MCTriggers
    Loops <- MCLoops
CHECK_DEADLOCK FALSE
INVARIANT SubgraphLeadsFromTrigger
