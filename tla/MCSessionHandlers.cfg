CONSTANTS
    r1 = r1
    r2 = r2
    r3 = r3
    r4 = r4
    u1 = u1
    Requests <- FourRequests
    Workers = {1, 2, 3}
    Users = {u1}
    Missing = Missing
    Null = Null
SPECIFICATION Spec
INVARIANTS
    SessionObjectSound
    UserReferenceSafe
    SendsCounted
    OnlyEarlyEchoHarms
SYMMETRY RequestSymmetry
\* Every request has been served.
CHECK_DEADLOCK FALSE
