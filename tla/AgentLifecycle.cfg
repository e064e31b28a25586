SPECIFICATION FairSpec
CONSTANTS
    Senders = {node, vm}
    NodeLoop = node
    MaxFaults = 1
INVARIANTS
    TypeOK
    ShutdownIsFinal
CHECK_DEADLOCK FALSE
PROPERTIES
    StopsOnSignal
    ComesBack
    StreamFlagSettles
