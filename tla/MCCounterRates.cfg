SPECIFICATION Spec
CONSTANTS
    NodeLoops = {n1}
    VMLoops = {v1, v2}
    KeyUsers = {{n1}, {v1, v2}}
    None = None
    Width = 3
    MaxTime = 2
    MaxGrowth = 2
    MaxResets = 1
    MaxFaults = 1
SYMMETRY Symmetry
INVARIANTS
    TypeOK
    NoInventedGrowth
    NeverOverReports
