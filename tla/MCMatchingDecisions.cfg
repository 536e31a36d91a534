CONSTANTS
    is_loopback <- Loopback
    Situations <- OwnQos
    Bindings = {}
    Credentials = {}
    Settings = {}
    SecurityInfos = {}
SPECIFICATION Spec
INVARIANT MatchedComplies
CHECK_DEADLOCK FALSE
