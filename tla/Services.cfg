SPECIFICATION MCSpec
CONSTANTS
    s = s
    a = a
    b = b
    c = c
    Node = {s, a, b}
    Seeds = {s}
    Bits = 3
    NodeId <- TwoClients
    Keys <- OneKey
    DHT_K_BUCKET_SIZE = 1
    DHT_ALPHA = 1
    TTL = 1
    TimeWrap = 16
    Horizon = 2
    MaxCalls = 1
    Peer = {p}
    NoPeer = NoPeer
    MAX_SINGLE_PORT_ATTEMPTS = 2
    MAX_MULTI_PORT_ATTEMPTS = 2
    MAX_PORT_RANGE = 2
    DEFAULT_MULTI_PORT_RANGE = 2
    Thread = {t1, t2}
    Client <- OneClient
    Timeout = 2
    MaxQueries = 2
    MaxWaiting = 1
    d = d
    Party = {c, a, b, d}
    SuperNode = {c, a}
    Coordinator = {c}
    Known <- WithC
    MaxReports = 3
    MaxAsked = 3
INVARIANTS NothingForgotten KeptWhileFresh MultiPortIsDue
PROPERTIES AnswersAreClosest FreshValues PhasesAdvance QueriesEnd
CHECK_DEADLOCK FALSE
