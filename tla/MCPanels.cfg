SPECIFICATION PanelsSpec
CONSTANTS
    None = None
    Gone = Gone
    Ncus = {w}
    Essids = {e1, e2}
    ComboNcps <- MCComboNcps
    PlaceOf <- MCPlaceOf
    Devs <- MCDevs
    MaxNcus = 2
    Addrs = {1}
    Routes = {1}
    Configs <- MCConfigs
    MaxAddrs = 1
    MaxIpEdits = 5
    ProfileNames <- MCProfileNames
    Automatic = 1
    Ids <- MCIds
    MaxProfileEdits = 3
    MaxProfileAdmin = 1
    ObjectNames <- MCObjectNames
    Subjects <- MCSubjects
    Texts <- MCTexts
    Conditions <- MCConditions
    IsLocation = FALSE
    MaxRules = 3
    MaxRuleEdits = 3
    MaxRuleAdmin = 2
    ViewNcps <- MCViewNcps
    ViewedNcus <- MCViewedNcus
    NcpOf <- MCNcpOf
    Wireless <- MCWireless
    IfaceOf <- MCIfaceOf
    LinkOf <- MCLinkOf
    ModesOf <- MCModesOf
    Enms = {1, 2}
    Envs = {3, 4}
    StatusNcps = {p1, p2}
    Opened = p1
    Links = {n1, n2}
    Groups = {0, 1}
    Locs = {l1, l2}
INVARIANTS
    ComboMatchesLists
    OkLosesNothing
    OkStoresTheChoice
    ViewsTell
    RowsFollow
PROPERTIES
    ActivatesTheChoice
    RenameLosesNone
    RulesRoundTrip
CHECK_DEADLOCK FALSE
