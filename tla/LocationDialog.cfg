SPECIFICATION Spec
CONSTANTS
    Names = {n1, n2}
    Objs = {o1, o2, o3}
    None = None
    NoHandle = NoHandle
    Absent = Absent
    Samples <- MCSamples
    Stores <- MCStores
    MaxEdits = 3
    MaxAdmin = 1
    MaxQueue = 3
INVARIANTS
    LocationsConverge
PROPERTIES
    EnablesTheChoice
    PromiseKept
