CONSTANTS
    TheReader = r1
    TheWriter = 1
    Nobody = Nobody
    Readers = {r1}
    Writers = {1}
    MaxSN = 3
    GcModulus = 2
    Situations <- SomeSituations
SPECIFICATION FairSpec
INVARIANTS
    NotificationPending
    SamplesAreIndexed
PROPERTIES
    NeverTwice
    ImplementsReliableDelivery
    DataIsRead
CHECK_DEADLOCK FALSE
