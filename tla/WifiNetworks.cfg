SPECIFICATION Spec
CONSTANTS
    Ncus = {n1, n2}
    Essids = {e1, e2}
    None = None
    Gone = Gone
SYMMETRY MCSymmetry
INVARIANTS
    ItemsOfLiveNetworks
    OneTicked
PROPERTIES
    ReportShown
