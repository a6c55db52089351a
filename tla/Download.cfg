CONSTANTS
    p1 = p1
    p2 = p2
    p3 = p3
    a = a
    b = b
    c = c
    w1 = w1
    Paths = {p1, p2, p3}
    Contents = {a, b, c}
    ContentOf <- ThreeFiles
    Workers = {w1}
    FragmentNum = 1
    SegmentSize = 1
    m_MaxDownloadNum = 2
    MaxAdds = 3
    MaxCrashes = 1
    MaxLosses = 0
SPECIFICATION Spec
CHECK_DEADLOCK FALSE
SYMMETRY MCSymmetry
INVARIANTS
    TypeOK
    ListsAgree
    CurDownloadInRange
    CompleteMeansWhole
