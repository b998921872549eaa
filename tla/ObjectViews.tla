------------------------------ MODULE ObjectViews ------------------------------
(* What the two programs show of the objects, besides the dialogs: the tooltip *)
(* and the items of the menu for NCUs, the items for network modifiers and for *)
(* locations, the status page, and the dialog for wireless networks.           *)
EXTENDS WirelessChooser

CONSTANTS
    \* the views of NCUs: NCPs, NCUs, what they are and may be in
    ViewNcps, ViewedNcus, NcpOf, Wireless, IfaceOf, LinkOf, ModesOf,
    \* the items for network modifiers and for locations
    Enms, Envs,
    \* the status page: NCPs, the one it lists, connections, groups, locations
    StatusNcps, Opened, Links, Groups, Locs

VARIABLES
    obj, lists, shownNcp, lines, sensitive,
    listed, activeEnv, cache, byHand, good, asked,
    links, groups, activeNcp, inView, listens, profile, activeLoc, location, stale

Views == INSTANCE NcuViews WITH Ncps <- ViewNcps, NcuNames <- ViewedNcus
Items(enms, envs) == INSTANCE ModeItems WITH Enms <- enms, Envs <- envs
Status == INSTANCE StatusPage WITH Ncps <- StatusNcps

\* The items for network modifiers and those for locations are apart.
ASSUME ObjectViewsAssumption ==
    /\ Views!ViewsAssumption /\ Status!StatusPageAssumption
    /\ Items(Enms, {})!ModeItemsAssumption /\ Items({}, Envs)!ModeItemsAssumption

===============================================================================
