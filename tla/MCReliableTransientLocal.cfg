CONSTANTS
    r1 = r1
    r2 = r2
    UNKNOWN = UNKNOWN
    MaxSN = 2
    Readers = {r1, r2}
    Reliable = {r1, r2}
    Targets = {UNKNOWN, r1}
    Volatile = FALSE
    Depth = 1
    MaxHB = 2
    MaxTimers = 1
    MaxLost = 0
    MaxWaits = 0
    Window = 1
SPECIFICATION Spec
INVARIANTS
    NoLoss
    AckedIsReceived
    HistoryKeepsUnacked
    InOrderDelivery
