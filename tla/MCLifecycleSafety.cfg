SPECIFICATION LifecycleSpec
CHECK_DEADLOCK FALSE
CONSTANTS
    x = x
    y = y
    x1 = x1
    x2 = x2
    x3 = x3
    y1 = y1
    y2 = y2
    NoRun = NoRun
    Execs = {x, y}
    Callers = {x1, x2, x3, y1}
    FirstRuns = {x1, y1}
    WaitingRuns = {x1, x2, x3}
    TimedRuns = {}
    ResponseRuns = {x1}
    ExecOf <- MCExecOf
    ModeOf <- MCModeOf
    ExecutionsMode = "regular"
    ProductionLimit = 1
    EvaluationLimit <- Unset
    ResolvedLimit = 1
SYMMETRY ResumeSymmetry
INVARIANTS
    LifecycleTypeOK
    OneRunInCharge
    QuietRowIsQuiet
    RunningEntryIsLive
