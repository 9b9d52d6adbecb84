SPECIFICATION GuardedSpec
CONSTANTS
    admin = admin
    user = user
    k1 = k1
    Process <- AdminAndUser
    Admin <- OneAdmin
    KeyName <- OneKeyName
    AllowSoftwareFallback = TRUE
    Platforms <- MCPlatforms
    InitialStates <- MCInitialStates
    Faults <- EveryFault
    NoOwner = NoOwner
    NoIdentity = NoIdentity
    NoResult = NoResult
    NoOutcome = NoOutcome
INVARIANTS
    GuardedInv
PROPERTIES
    EveryCommandAnswers
    ImplementsIdentityManager
    ImplementsMachineIdentity
