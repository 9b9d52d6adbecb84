SPECIFICATION SafeSpec
CONSTANTS
    p1 = p1
    p2 = p2
    user = user
    k1 = k1
    k2 = k2
    Process <- Admins
    Admin <- Admins
    KeyName <- MCKeyName
    AllowSoftwareFallback = TRUE
    Platforms <- MCPlatforms
    InitialStates <- CleanMachine
    Faults <- NoFaults
    NoOwner = NoOwner
    NoIdentity = NoIdentity
    NoResult = NoResult
PROPERTIES
    ProbeEstablishesCapability
