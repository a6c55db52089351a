CONSTANTS
    a1 = a1
    a2 = a2
    a3 = a3
    noaddr = noaddr
    Addrs <- MCAddrs
    NoAddr <- noaddr
    PeerIds <- MCPeerIds
    MaxPeers = 2
    SessionCapacity = 3
    CountMod = 4
    MaxHeld = 3
    MaxKeys = 2
SPECIFICATION Spec
SYMMETRY MCSymmetry
INVARIANTS
    TypeOK
    SessionIdsExclusive
    RefCountCovers
    NoPrematureErase
    GoodIffConnected
    CapacityConserved
PROPERTIES
    IdsLostOnlyWhenFull
    NoIdReuseBeforeRecycle
