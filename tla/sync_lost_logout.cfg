CONSTANTS
    alice = alice
    bob = bob
    carol = carol
    old = old
    new = new
    noHost = noHost
    noGate = noGate
    Emails <- TwoEmails
    Hosts <- BothHosts
    NoHost <- noHost
    NoGate <- noGate
    MaxChanges = 3
    MaxFailures = 1
    FailingCalls = {"revoke"}
    FailureKinds = {"unavailable"}
    Disturbances = {"restart"}
SPECIFICATION Spec
SYMMETRY EmailSymmetry
CHECK_DEADLOCK FALSE
INVARIANTS
    LoggedOutOrReported
