CONSTANTS
    google = google
    alexa = alexa
    backup = backup
    googleName = googleName
    alexaName = alexaName
    backupName = backupName
    old = old
    new = new
    Consoles <- TwoConsoles
    Scripts <- OneScript
    Names <- AllNames
    NameOf <- OwnNames
    Hosts <- BothHosts
    MaxChanges = 3
    MaxFailures = 1
    FailureKinds = {"refused", "answer"}
    Disturbances = {"reload", "restart", "abandon", "dashboard"}
SPECIFICATION FairSpec
CHECK_DEADLOCK FALSE
INVARIANTS
    TypeOK
    GateNamesLive
    ClientsServed
PROPERTIES
    SweepComplete
    EventuallyServed
