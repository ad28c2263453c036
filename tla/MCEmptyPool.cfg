\* num_db_conn = 0: the configuration is not validated.
CONSTANTS
    w1 = w1
    w2 = w2
    w3 = w3
    Threads <- ThreeThreads
    NumConn = 0
    NoThread = NoThread
SPECIFICATION Spec
INVARIANT PopFindsConnection
CHECK_DEADLOCK FALSE
