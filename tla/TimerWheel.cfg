CONSTANTS
    Timers = {t1, t2}
    Adders = {a1}
    Intervals = {10}
    RefreshInterval = 2
    MsecTick = 2
    SecTick = 3
    MinTick = 2
    WordSize = 211
    MaxTimers = 2
SPECIFICATION Spec
SYMMETRY MCSymmetry
INVARIANTS
    TypeOK
    TimerCountExact
    OnTime
PROPERTY NeverEarly
