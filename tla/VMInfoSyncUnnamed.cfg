SPECIFICATION Spec
CONSTANTS
    VMIDs = {v1}
    Infos = {i1}
    None = None
    NeedResults = 0
    MaxChanges = 1
    MaxFaults = 0
    MaxRestarts = 0
INVARIANTS
    SyncNamesNode
