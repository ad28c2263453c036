CONSTANTS
    c1 = c1
    c2 = c2
    Connections <- Peers
    Workloads <- OneLongOrTwoShort
SPECIFICATION Spec
INVARIANTS
    SessionConsistent
    ExchangesInOrder
    RequestsAnswered
PROPERTIES
    SessionsEnd
    ListenerServesAll
\* The process may end with an exception.
CHECK_DEADLOCK FALSE
