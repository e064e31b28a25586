SPECIFICATION FairSpec
CONSTANTS
    Modules = {"m1", "m2"}
    Tables <- MCTables
    Present = 2
    MaxTicks = 2
    MaxBack = 1
    MaxFaults = 2
INVARIANTS
    TypeOK
    CoresAgree
    SticksReported
    UsageAddsUp
PROPERTIES
    CyclesEnd
CHECK_DEADLOCK FALSE
