SPECIFICATION LWSpec
CONSTANTS
    m1 = m1
    m2 = m2
    w1 = w1
    NoHost = NoHost
    Hosts <- MCHosts
    Execs <- MCExecs
    MaxFaults = 2
INVARIANTS
    LWTypeOK
    SoleLeader
PROPERTIES
    OneLeaderEventually
    WaitsSurviveFailover
CHECK_DEADLOCK FALSE
