\* One peer that resets its connection before the server asks for its address.
CONSTANTS
    c1 = c1
    c2 = c2
    Connections <- Peers
    Workloads <- OneShort
SPECIFICATION Spec
INVARIANT ServerKeepsRunning
\* The process may end with an exception.
CHECK_DEADLOCK FALSE
