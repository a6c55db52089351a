CONSTANTS
    a = a
    b = b
    v = v
    w1 = w1
    w2 = w2
    w3 = w3
    Workers <- MCWorkers
    MessageLens <- MCMessageLens
    StartNumbers = {15}
    Word = 16
    SndWnd = 2
    RcvWnd = 2
    WndRcv = 1
    Mss = 2
    Overhead = 1
    BufferSize = 3
    MaxInFlight <- MCMaxInFlight
    MaxAcks = 1
SPECIFICATION Spec
SYMMETRY MCSymmetry
CHECK_DEADLOCK FALSE
INVARIANTS
    TypeOK
    NothingForgotten
    NothingRests
    OneAwake
PROPERTIES
    ImplementsChannel
    ReadersUndisturbed
