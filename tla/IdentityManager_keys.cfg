SPECIFICATION SafeSpec
CONSTANTS
    p1 = p1
    p2 = p2
    user = user
    k1 = k1
    k2 = k2
    Process <- AdminsAndUser
    Admin <- Admins
    KeyName <- MCKeyName
    AllowSoftwareFallback = FALSE
    Platforms <- MCPlatforms
    InitialStates <- MCInitialStates
    Faults <- Orderly
    NoOwner = NoOwner
    NoIdentity = NoIdentity
    NoResult = NoResult
SYMMETRY Interchangeable
INVARIANTS
    RecoveryIsReal
PROPERTIES
    NoOrphanKey
