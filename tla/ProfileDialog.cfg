SPECIFICATION Spec
CONSTANTS
    Ncus = {1, 2, 3}
    Modes = {0, 1}
    Off = 12
    None = None
    Automatic <- MCAutomatic
    Samples <- MCSamples
    Stores <- MCStores
    MaxEdits = 3
    MaxAdmin = 1
    MaxQueue = 1
INVARIANTS
    ShowsObjects
PROPERTIES
    SavedAsShown
    CancelRestores
CHECK_DEADLOCK FALSE
