CONSTANTS
    n1 = n1
    n2 = n2
    w1 = w1
    w2 = w2
    Nodes = {n1, n2}
    Workers = {w1}
    PING_TIMEOUT_COUNT = 2
    PoolSize = 1
    TimeoutMod = 4
    Settings <- MCAgain
SPECIFICATION Spec
CHECK_DEADLOCK FALSE
INVARIANT ConnectedHasPeer
