SPECIFICATION Spec
CONSTANTS
    product = product
    here = here
    there = there
    value1 = value1
    value2 = value2
    name1 = name1
    k1 = k1
    k2 = k2
    k3 = k3
    x1 = x1
    x2 = x2
    c1 = c1
    c2 = c2
    None = None
    Garbled = Garbled
    NoIdentity = NoIdentity
    ProductPrefix <- MCProductPrefix
    MaxItems = 32
    MaxEntitlements = 3
    Machine = {here, there}
    Here = here
    IdentityValue = {value1, value2}
    KeyName = {name1}
    Uint32Modulus = 4
    Uint64Modulus = 16
    Authority <- MCAuthority
    KeyId <- MCKeyId
    Documents <- MCDocuments
    Conforming <- MCConforming
    OtherPayloads <- MCOtherPayloads
    TrustStores <- MCTrustStores
    Time <- MCTime
    NewRecords <- MCNewRecords
    OtherCarriers <- MCOtherCarriers
    MaxIssued = 2
    MaxEdits = 1
INVARIANTS
    TypeOK
    AcceptedIsIssued
    OneEncoding
    GrantIsExact
    UnsupportedIsHonest
    ConformingIsAccepted
    WhatIsReadWasSealedHere
    OwnStateIsReadable
    ExitCodeIsCoherent
