SPECIFICATION MCSpec
CONSTANTS
    Devs = {wifi1, wired1}
    Wireless = {wifi1}
    Groups = {g1, g2}
    Policies <- MCPolicies
    None = None
    g2 = g2
    MaxChanges = 4
INVARIANTS
    NcusConverge
    PromptsCount
PROPERTIES
    ReloadRepairsCount
CHECK_DEADLOCK FALSE
