CONSTANTS
    A = A
    B = B
    C = C
    D = D
    Prefix = {A, B, C, D}
    Secured = {A, B, D}
    Listeners = {A, B}
    AckCapacity = 1
    Situations <- SomeSituations
SPECIFICATION Spec
INVARIANTS
    DeliveredAsSent
    NothingInClear
    AddresseesGetIt
CHECK_DEADLOCK FALSE
