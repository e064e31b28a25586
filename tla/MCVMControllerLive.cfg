SPECIFICATION FairSpec
CONSTANTS
    Handlers = {h1, h2}
    Names = {a, b}
    Files = {f, g}
    a = a
    b = b
    f = f
    g = g
    Creates <- MCApartCreates
    Updates <- MCUpdates
    Deletes <- MCDeletes
    Migrates <- MCMigrates
    Total <- MCTotal
    Width = 16
    Unit = 2
    MaxDomainRam = 4
    Nil = Nil
    MaxFaults = 2
    MaxRestarts = 0
PROPERTIES
    OperationsEnd
