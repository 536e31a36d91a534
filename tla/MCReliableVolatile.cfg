CONSTANTS
    r1 = r1
    r2 = r2
    UNKNOWN = UNKNOWN
    MaxSN = 2
    Readers = {r1}
    Reliable = {r1}
    Targets = {UNKNOWN}
    Volatile = TRUE
    Depth = 1
    MaxHB = 3
    MaxTimers = 1
    MaxLost = 1
    MaxWaits = 1
    Window = 1
SPECIFICATION Spec
INVARIANTS
    TypeOK
    WaitIsTruthful
    IInv
