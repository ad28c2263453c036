CONSTANTS
    k1 = k1
    k2 = k2
    k3 = k3
    Keys <- ThreeKeys
    EmptyKey = EmptyKey
    IntKeys = {1, 2, 3}
    NoObject = NoObject
    Lifetime = 2
    MaxTime = 6
    MaxObjects = 4
SPECIFICATION Spec
INVARIANTS
    TypeOK
    MapsAgree
    PurgeComplete
    ReturnedSessionStays
PROPERTY StoreSpec
SYMMETRY KeySymmetry
