SPECIFICATION PubSpec
CONSTANTS
    m1 = m1
    m2 = m2
    w1 = w1
    NoHost = NoHost
    NoWorkflow = NoWorkflow
    Hosts <- MCHosts
    Workflows <- MCWorkflows
    MaxChanges = 2
    MaxTerms = 2
    MaxFaults = 1
INVARIANTS
    PubTypeOK
    DemotedIsQuiet
    SettledIsPublished
PROPERTIES
    PublishedInOrder
    QueueDrains
CHECK_DEADLOCK FALSE
