SPECIFICATION Spec
CONSTANTS
    p1 = p1
    p2 = p2
    k1 = k1
    k2 = k2
    Process <- OneProcess
    KeyName <- MCKeyName
    Stores <- ProperStore
    Faults <- NoFault
    NoOperation = NoOperation
    NoOutcome = NoOutcome
    NoName = NoName
PROPERTIES
    TransientIsRetryable
