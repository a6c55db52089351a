CONSTANTS
    Addrs = {a1, a2}
    NoAddr = noaddr
    PeerIds <- MCPeerIds
    MaxPeers = 2
    SessionCapacity = 2
    CountMod = 4
    Workers = {w1, w2}
    TIMER = timer
    o1 = o1
    o2 = o2
    o3 = o3
    Objects = {o1, o2}
    InitialPool <- MCInitialPool
    NULL = null
    MaxClosed = 2
SPECIFICATION Spec
CHECK_DEADLOCK FALSE
CONSTRAINT MCRefusals
SYMMETRY MCSymmetry
INVARIANTS
    TypeOK
    ObjectsNotShared
    SlotsMatchIds
    ObjectsComeBack
PROPERTY ImplementsPeerUse
