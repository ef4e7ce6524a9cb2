CONSTANTS
    first = first
    second = second
    old = old
    new = new
    Hosts <- OneHost
    Background <- TwoTasks
    MaxChanges = 2
    MaxFailures = 0
    FailureKinds = {}
    Disturbances = {"users"}
    DeletesOnRemove = TRUE
SPECIFICATION Spec
CHECK_DEADLOCK FALSE
INVARIANTS
    DisabledMeansDown
