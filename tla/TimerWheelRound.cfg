CONSTANTS
    Timers = {t1}
    Adders = {a1}
    Intervals = {4}
    RefreshInterval = 2
    MsecTick = 2
    SecTick = 2
    MinTick = 2
    WordSize = 75
    MaxTimers = 1
SPECIFICATION Spec
INVARIANT KeepsRunning
