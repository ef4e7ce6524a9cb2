CONSTANTS
    alice = alice
    bob = bob
    carol = carol
    old = old
    new = new
    noHost = noHost
    noGate = noGate
    Emails <- TwoEmails
    Hosts <- BothHosts
    NoHost <- noHost
    NoGate <- noGate
    MaxChanges = 3
    MaxFailures = 2
    FailingCalls <- Calls
    FailureKinds <- HandledKinds
    Disturbances = {"reload", "restart", "crash"}
SPECIFICATION FairSpec
CHECK_DEADLOCK FALSE
INVARIANTS
    TypeOK
    SyncedOrReported
    SnapshotIsGate
PROPERTIES
    EventuallyFollows
