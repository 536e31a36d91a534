CONSTANTS
    MaxSN = 1
    ValueSize = 3
    FragSize = 5
    FragsPerTimer = 1
    Settings <- ThreeLosses
SPECIFICATION FairSpec
PROPERTY EventuallyReceived
CHECK_DEADLOCK FALSE
