CONSTANTS
    t1 = t1
    t2 = t2
    NoTask = NoTask
    Tasks = {t1, t2}
    MaxSN = 5
    Applications <- ThreadApplications
SPECIFICATION Spec
INVARIANT NumbersUnique
CHECK_DEADLOCK FALSE
