SPECIFICATION ScalingSpec
CHECK_DEADLOCK FALSE
CONSTANTS
    m1 = m1
    m2 = m2
    e1 = e1
    NoMain = NoMain
    Mains = {m1, m2}
    Execs = {e1}
    Origin <- MCOrigin
    BatchSize = 1
    MaxRuns = 2
    MaxFaults = 1
    MaxStops = 1
INVARIANTS
    ScalingTypeOK
    OneEngine
PROPERTIES
    OutcomeReachesRow
    InProgressSettles
    EntrySettles
