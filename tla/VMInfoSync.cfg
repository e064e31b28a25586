SPECIFICATION FairSpec
CONSTANTS
    VMIDs = {v1, v2}
    Infos = {i1, i2}
    None = None
    NeedResults = 1
    MaxChanges = 2
    MaxFaults = 1
    MaxRestarts = 1
INVARIANTS
    TypeOK
    DeltaNeedsFull
    ReplicaFollowsLatest
PROPERTIES
    Converges
    AgreementLasts
