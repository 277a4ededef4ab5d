SPECIFICATION PartialSpec
CONSTANTS
    Workflows <- NestedWorkflows
    RunDatas <- NestedRunDatas
    Marks <- NestedMarks
    Triggers <- MCTriggers
    Loops <- MCLoops
CHECK_DEADLOCK FALSE
INVARIANT CyclesStartAtTheirEntry
