CONSTANTS
    t1 = t1
    t2 = t2
    NoTask = NoTask
    Tasks = {t1, t2}
    MaxSN = 5
    Applications <- SoundApplications
SPECIFICATION FairSpec
INVARIANTS TypeOK NumbersConsecutive  WaitCoversOwnWrites
PROPERTY CallsReturn
CHECK_DEADLOCK FALSE
