SPECIFICATION FairSpec
CONSTANTS
    Loops = {l1}
    Handlers = {r1}
    Health = health
    Conns = {c1, c2, c3}
    Nil = Nil
    MaxFaults = 1
INVARIANTS
    TypeOK
    SingleConnection
PROPERTIES
    Recovers
    OutageShows
    CloseReturns
CHECK_DEADLOCK FALSE
