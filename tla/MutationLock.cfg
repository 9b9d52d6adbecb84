SPECIFICATION Spec
CONSTANTS
    p1 = p1
    p2 = p2
    user = user
    Process <- MCProcess
    Admin <- MCAdmin
    Faults <- AllFaults
    NoOwner = NoOwner
    NoOutcome = NoOutcome
INVARIANTS
    LockInv
    AcquiredOwns
PROPERTIES
    AcquireAnswers
    ImplementsLockService
