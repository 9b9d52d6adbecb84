SPECIFICATION SafeSpec
CONSTANTS
    p1 = p1
    p2 = p2
    user = user
    k1 = k1
    k2 = k2
    Process <- Admins
    Admin <- Admins
    KeyName <- MCKeyName
    AllowSoftwareFallback = TRUE
    Platforms <- TpmPlatform
    InitialStates <- CleanMachine
    Faults <- WriteThrowing
    NoOwner = NoOwner
    NoIdentity = NoIdentity
    NoResult = NoResult
PROPERTIES
    FailedEstablishmentDeletesKey
