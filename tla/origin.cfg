CONSTANTS
    r1 = r1
    r2 = r2
    alice = alice
    bob = bob
    old = old
    new = new
    Requests <- TwoRequests
    Users <- TwoUsers
    Hosts <- BothHosts
    MaxKey = 3
    MaxSetups = 2
    MaxChanges = 2
SPECIFICATION Spec
SYMMETRY Interchangeable
CHECK_DEADLOCK FALSE
INVARIANTS
    TypeOK
    InstalledOnce
PROPERTIES
    RotationNeedsNoRestart
    JudgedByItsGate
    PassedOnForCause
