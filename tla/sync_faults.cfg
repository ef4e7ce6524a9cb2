CONSTANTS
    alice = alice
    bob = bob
    carol = carol
    old = old
    new = new
    noHost = noHost
    noGate = noGate
    Emails <- ThreeEmails
    Hosts <- BothHosts
    NoHost <- noHost
    NoGate <- noGate
    MaxChanges = 3
    MaxFailures = 1
    FailingCalls <- Calls
    FailureKinds <- Kinds
    Disturbances <- AllButRunningReload
SPECIFICATION Spec
SYMMETRY EmailSymmetry
CHECK_DEADLOCK FALSE
INVARIANTS
    AllowRuleNeverEmpty
    NoUrlIssueIsTrue
    SessionsCovered
PROPERTIES
    ImplementsPolicy
