SPECIFICATION FairLifecycleSpec
CHECK_DEADLOCK FALSE
CONSTANTS
    x = x
    y = y
    x1 = x1
    x2 = x2
    x3 = x3
    y1 = y1
    y2 = y2
    NoRun = NoRun
    Execs = {x, y}
    Callers = {x1, x2, y1, y2}
    FirstRuns = {x1, y1}
    WaitingRuns = {}
    TimedRuns = {x1}
    ResponseRuns = {y1}
    ExecOf <- MCExecOf
    ModeOf <- MCModeOf
    ExecutionsMode = "regular"
    ProductionLimit = 1
    EvaluationLimit <- Unset
    ResolvedLimit = 1
INVARIANTS
    FinishedRunHoldsNoSlot
PROPERTIES
    EveryExecutionEnds
    ShutdownCompletes
