CONSTANTS
    k1 = k1
    k2 = k2
    k3 = k3
    k4 = k4
    c1 = c1
    c2 = c2
    r1 = r1
    r2 = r2
    r3 = r3
    Keys <- FourKeys
    Clients <- TwoClients
    Requests <- ThreeRequests
    InFlight = {1, 2}
    EmptyKey = EmptyKey
    NoObject = NoObject
    Lifetime = 1
    MaxTime = 2
    MaxObjects = 2
SPECIFICATION Spec
INVARIANTS
    SessionsAreNotShared
    ClientKeepsSession
PROPERTY NoNeedlessSession
SYMMETRY Symmetry
\* Every request has been served.
CHECK_DEADLOCK FALSE
