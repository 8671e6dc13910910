SPECIFICATION CoordSpec
CONSTANTS
    c = c
    a = a
    b = b
    d = d
    Party = {c, a, b, d}
    SuperNode = {c, a}
    Coordinator = {c}
    Known <- All
    MaxReports = 4
    MaxAsked = 4
SYMMETRY Clients
INVARIANTS EveryPairIsCoordinated
CHECK_DEADLOCK FALSE
