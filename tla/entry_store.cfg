CONSTANTS
    claude = claude
    custom = custom
    backup = backup
    probe = probe
    a1 = a1
    a2 = a2
    None = None
    Uris <- Callbacks
    Published <- KnownApps
    Tokens <- TwoTokens
    Order <- Couple
    Name <- OwnNames
    ByUsername <- NoUsername
    Addresses <- TwoAddresses
    Versions <- SomeReleases
    MaxChanges = 2
    MaxFailures = 1
SPECIFICATION FairSpec
CHECK_DEADLOCK FALSE
INVARIANTS
    TypeOK
    NoDuplicateClients
    McpIssueTrue
PROPERTIES
    NothingLost
    OthersKeepTheirs
    EventuallyMigrated
