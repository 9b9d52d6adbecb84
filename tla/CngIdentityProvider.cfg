SPECIFICATION Spec
CONSTANTS
    p1 = p1
    p2 = p2
    k1 = k1
    k2 = k2
    Process <- MCProcess
    KeyName <- MCKeyName
    Stores <- AllStores
    Faults <- AnyFault
    NoOperation = NoOperation
    NoOutcome = NoOutcome
    NoName = NoName
SYMMETRY Interchangeable
INVARIANTS
    ProviderInv
PROPERTIES
    PermanentVerdictIsTrue
    ExportableIsRefused
    ImplementsIdentityProvider
