CONSTANTS
    me = me  p = p  r = r lw = lw w = w  t = t
    Me = me
    Remote = {p}
    LocalEndpoint = {r, lw}
    RemoteEndpoint = {w}
    Topic = {t}
    Owner <- OwnerP
    Kind <- KindRW
    TopicOf <- OneTopic
    LeaseTicks = 3
    Compatible <- All
    NotifCapacity = 1
    CommandCapacity = 2
    Audible = {p}
    MaxMissed <- Flaky
    Starts <- AllStarts
    is_loopback <- Loopback
    Situations <- TopicReaders
    Bindings <- SomeBindings
    Credentials <- SomeCredentials
    Settings <- SomeQos
    SecurityInfos <- SomeInfos

SPECIFICATION MCSpec
INVARIANTS MatchedIsKnown ShutdownDisposesAll ToldIsTrue AnnouncedIsMatched DecideAlike AnnouncementsSurvive
PROPERTY LeaseSurvivesTwoLosses
CHECK_DEADLOCK FALSE
