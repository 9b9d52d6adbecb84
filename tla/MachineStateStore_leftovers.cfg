SPECIFICATION Busy
CONSTANTS
    p1 = p1
    p2 = p2
    r1 = r1
    r2 = r2
    t1 = t1
    t2 = t2
    Process <- OneAdmin
    Admin <- OneAdmin
    Record <- MCRecord
    TempName <- MCTempName
    Held <- NoneHeld
    Faults <- FullDisk
    None = None
PROPERTIES
    LeftoversAreCleaned
