CONSTANTS
    first = first
    second = second
    old = old
    new = new
    Hosts <- BothHosts
    Background <- TwoTasks
    MaxChanges = 3
    MaxFailures = 1
    FailureKinds = {"refused", "answer"}
    Disturbances = {"restart", "stop", "remove", "dashboard", "url", "users"}
    DeletesOnRemove = TRUE
SPECIFICATION FairSpec
CHECK_DEADLOCK FALSE
INVARIANTS
    TypeOK
    TakenDown
    GateAsConfigured
    NothingForgotten
PROPERTIES
    ForeignUntouched
    NeverClosed
    EventuallySettled
