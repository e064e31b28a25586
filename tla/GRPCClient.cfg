SPECIFICATION FairSpec
CONSTANTS
    Loops = {l1, l2}
    StreamKinds = {node, vm}
    UnaryKinds = {vmInfo}
    Conns = {c1, c2}
    Nil = Nil
    MaxRetries = 2
    MaxFaults = 1
INVARIANTS
    TypeOK
    StreamsOnConn
    OneConnection
    ClosedForGood
PROPERTIES
    CallsReturn
    CloseReturns
    Recovers
    ImplementsSink
