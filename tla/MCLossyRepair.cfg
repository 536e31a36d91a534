CONSTANTS
    MaxSN = 2
    ValueSize = 3
    FragSize = 5
    FragsPerTimer = 1
    Settings <- RepairedSettings
SPECIFICATION FairSpec
INVARIANT AckedIsComplete
PROPERTIES EventuallyAcked RepairEnds
CHECK_DEADLOCK FALSE
