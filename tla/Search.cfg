CONSTANTS
    a = a
    b = b
    t = t
    NoNode = NoNode
    Peers <- MCPeers
    Tracker = t
    Contents <- MCContents
    Pid <- MCPid
    Loaded <- MCLoaded
    KeyBits = 3
    KLEN_KEY = 1
    KBUCKET_SIZE = 1
    KALPHA_REQUESTS = 3
    CidsPerMessage = 2
    SessionCapacity = 2
    MaxCloses = 1
SPECIFICATION Spec
CHECK_DEADLOCK FALSE
INVARIANTS
    TypeOK
    NotWithItself
    MetWhenQuiet
PROPERTIES
    GoodNodesKept
