SPECIFICATION Spec
CONSTANTS
    c1 = c1
    c2 = c2
    r1 = r1
    r2 = r2
    r3 = r3
    f1 = f1
    f2 = f2
    f3 = f3
    f4 = f4
    NoFile = NoFile
    NoOne = NoOne
    NoChange = NoChange
    Clients <- MCClients
    Changes <- MCChanges
    Files <- MCFiles
    Locked = FALSE
    MaxFaults = 0
SYMMETRY PersistenceSymmetry
INVARIANT ChangesKept
