SPECIFICATION Spec
CONSTANTS
    p1 = p1
    p2 = p2
    r1 = r1
    r2 = r2
    t1 = t1
    t2 = t2
    Process <- Admins
    Admin <- Admins
    Record <- MCRecord
    TempName <- MCTempName
    Held <- OneHeld
    Faults <- AnyFault
    None = None
SYMMETRY Interchangeable
INVARIANTS
    StoreInv
    NeverTorn
    StateIsProtected
PROPERTIES
    ImplementsAtomicFile
    TempsCleanedUp
