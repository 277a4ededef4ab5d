SPECIFICATION FairBrokerSpec
CHECK_DEADLOCK FALSE
CONSTANTS
    Requests = {r1}
    Runners = {n1}
    Python = {}
    TypeOf <- MCTypeOf
    MaxConcurrency = 2
    RunnerMode = "internal"
    MaxTasks = 2
    Offers = {o1, o2}
INVARIANTS
    BrokerTypeOK
    RunnerWithinCapacity
    JobIsOwed
    BrokerTaskIsBacked
    SettingsExpected
PROPERTIES
    KeepsContract
    EveryJobSettles
    RunnerSlotFreed
