SPECIFICATION FairSpec
CONSTANTS
    p1 = p1
    p2 = p2
    p3 = p3
    p4 = p4
    v1 = v1
    v2 = v2
    x1 = x1
    x2 = x2
    x3 = x3
    y1 = y1
    y2 = y2
    Callers <- MCCallers
    Execs <- MCExecs
    ExecOf <- MCExecOf
    ModeOf <- MCModeOf
    ExecutionsMode = "regular"
    ProductionLimit = 2
    EvaluationLimit <- Unset
    ResolvedLimit = 1
INVARIANTS
    TypeOK
    SlotAccounting
    NoIdleSlotWhileQueued
    ParkedOnce
    OverAdmissionBounded
PROPERTIES
    AdmitsInOrder
    QueuedIsServed
