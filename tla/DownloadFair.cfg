CONSTANTS
    p1 = p1
    p2 = p2
    p3 = p3
    a = a
    b = b
    c = c
    w1 = w1
    Paths = {p1}
    Contents = {a}
    ContentOf <- OneFile
    Workers = {w1}
    FragmentNum = 3
    SegmentSize = 2
    m_MaxDownloadNum = 1
    MaxAdds = 2
    MaxCrashes = 1
    MaxLosses = 1
SPECIFICATION FairSpec
CHECK_DEADLOCK FALSE
INVARIANTS
    DoneMeansWritten
PROPERTY DownloadsComplete
