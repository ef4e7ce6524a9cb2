CONSTANTS
    gate = gate
    client = client
    other = other
    Apps <- Account
    First <- OurGate
    Later <- OurClients
    Retention = 2
    PageSize = 1
    MaxPages = 2
    MaxTime = 3
    MaxEntries = 2
    MaxLate = 1
    MaxFailures = 1
    MaxCuts = 1
    Repairs = TRUE
SPECIFICATION FairSpec
CHECK_DEADLOCK FALSE
INVARIANTS
    TypeOK
    InOrder
    NothingReplayed
    NothingSkipped
    IssueNamesNewest
PROPERTIES
    EventuallyReported
