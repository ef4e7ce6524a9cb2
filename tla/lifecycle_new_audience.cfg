CONSTANTS
    first = first
    second = second
    old = old
    new = new
    Hosts <- OneHost
    Background <- OneTask
    MaxChanges = 2
    MaxFailures = 0
    FailureKinds = {}
    Disturbances = {"users", "dashboard"}
    DeletesOnRemove = TRUE
SPECIFICATION Spec
CHECK_DEADLOCK FALSE
INVARIANTS
    AudienceFollowsGate
