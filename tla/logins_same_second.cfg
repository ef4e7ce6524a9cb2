CONSTANTS
    gate = gate
    client = client
    other = other
    Apps <- JustGate
    First <- OurGate
    Later <- NoClients
    Retention = 2
    PageSize = 1
    MaxPages = 2
    MaxTime = 1
    MaxEntries = 2
    MaxLate = 2
    MaxFailures = 0
    MaxCuts = 0
    Repairs = FALSE
SPECIFICATION Spec
CHECK_DEADLOCK FALSE
INVARIANTS
    OnCursorMeansHandled
