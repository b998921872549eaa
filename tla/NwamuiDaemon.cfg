SPECIFICATION MCSpec
CONSTANTS
    Locs = {nonet, home}
    Ncps = {ncp1}
    Enms = {enm1}
    Wlans = {}
    NoNet = nonet
    System = {nonet, ncp1}
    Groups = {0, 1}
    NcuGroup = 1
    None = None
    NamelessNcus = TRUE
    MaxChanges = 2
    MaxLosses = 1
INVARIANTS
    StatusIsCurrent
    ListsConverge
    StatesConverge
CHECK_DEADLOCK FALSE
