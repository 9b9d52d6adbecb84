SPECIFICATION SafeSpec
CONSTANTS
    p1 = p1
    p2 = p2
    user = user
    k1 = k1
    k2 = k2
    Process <- AdminsAndUser
    Admin <- Admins
    KeyName <- MCKeyName
    AllowSoftwareFallback = TRUE
    Platforms <- MCPlatforms
    InitialStates <- MCInitialStates
    Faults <- KeepsKeys
    NoOwner = NoOwner
    NoIdentity = NoIdentity
    NoResult = NoResult
SYMMETRY Interchangeable
INVARIANTS
    TypeOK
    AnswersAgree
    CommittedKeyPresent
    IInv
PROPERTIES
    CommittedOnce
    PinnedForGood
    NoDowngrade
    KeyCreationIsAuthorised
    UnsupportedIsPermanent
