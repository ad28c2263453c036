CONSTANTS
    w1 = w1
    w2 = w2
    w3 = w3
    Threads <- ThreeThreads
    NumConn = 2
    NoThread = NoThread
SPECIFICATION Spec
INVARIANTS
    TypeOK
    PopFindsConnection
    EveryConnectionInOnePlace
    NoLostWakeup
    UnlockOnlyLocked
PROPERTY PoolSpec
