CONSTANTS
    d1 = d1
    d2 = d2
    s1 = s1
    e1 = e1
    w1 = w1
    c1 = c1
    Workers = {1, 2}
    Conns = {c1}
    NoConn = NoConn
    Db = {d1, d2}
    Send = {s1}
    Echo = {e1}
    EchoOf <- EchoOfOne
    Ws = {w1}
    Signal = Signal
SPECIFICATION Spec
INVARIANTS
    BlockedOnlyByRunning
    PoolOutlivesConnections
PROPERTIES
    ShutdownEnds
    RequestsServed
\* A stopped process takes no steps.
CHECK_DEADLOCK FALSE
