-------------------------------- MODULE Panels --------------------------------
(* Parts of the two programs that only look at objects or edit a copy, each   *)
(* on its own: of the preferences application the combo box of its window,    *)
(* the pages for addresses, for profiles and for the status, and the dialog   *)
(* for rules; of nwam-manager the tooltip, the items of its menu and the      *)
(* dialog for wireless networks.                                              *)
(* A behaviour is one of one part, chosen at the start; parts that have a     *)
(* variable of the same name share it, and the variables of the others keep   *)
(* the value None, or those of the status page one without connections.       *)
EXTENDS ObjectViews

CONSTANTS
    \* the combo box: NCPs, the place of each in the alphabet, devices, bound
    ComboNcps, PlaceOf, Devs, MaxNcus,
    \* the page for addresses: addresses, routes, configurations, bounds
    Addrs, Routes, Configs, MaxAddrs, MaxIpEdits,
    \* the page for profiles: names, the automatic one, objects, bounds
    ProfileNames, Automatic, Ids, MaxProfileEdits, MaxProfileAdmin,
    \* the dialog for rules: names of objects, fields, texts, conditions, bounds
    ObjectNames, Subjects, Texts, Conditions, IsLocation, MaxRules, MaxRuleEdits, MaxRuleAdmin

VARIABLES
    part,
    list, kids, combo, sel, selNcu, page, panelNcu, typed, pending, edited, result,
    stored, screen, shown, choice, edits, outcome,
    events, objs, toggled, admin,
    open, all

-----------------------------------------------------------------------------
Combo == INSTANCE ShowCombo WITH Ncps <- ComboNcps, NameOf <- PlaceOf
Ip == INSTANCE IpPanel WITH Stores <- Configs, MaxRows <- MaxAddrs, MaxEdits <- MaxIpEdits
Profiles == INSTANCE ProfilePanel WITH
    Names <- ProfileNames, MaxEdits <- MaxProfileEdits, MaxAdmin <- MaxProfileAdmin
Rules == INSTANCE RulesDialog WITH
    Names <- ObjectNames, Stored <- Conditions,
    MaxRows <- MaxRules, MaxEdits <- MaxRuleEdits, MaxAdmin <- MaxRuleAdmin

ASSUME PanelsAssumption ==
    /\ Combo!ComboAssumption /\ Ip!IpAssumption /\ Ip!StoresAssumption
    /\ Profiles!PanelAssumption /\ Rules!RulesAssumption

-----------------------------------------------------------------------------
\* The variables only one part has, and those parts share.
OfCombo    == <<list, kids, combo, sel, selNcu, panelNcu, typed, pending, edited, result>>
OfIp       == <<screen, shown>>
OfProfiles == <<events, objs, toggled>>
OfRules    == <<open, all>>
OfViews    == <<lists, shownNcp, lines, sensitive>>
OfItems    == <<activeEnv, cache, byHand, good>>
OfChooser  == <<wifi, active, ghosts, tracked, dialogVars, orphans, selected>>
OfStatus   == <<links, groups, activeNcp, inView, listens, profile, activeLoc, location, stale>>

NoCombo ==
    /\ list = None /\ kids = None /\ combo = None /\ sel = None /\ selNcu = None
    /\ panelNcu = None /\ typed = None /\ pending = None /\ edited = None /\ result = None
NoIp == screen = None /\ shown = None
NoProfiles == events = None /\ objs = None /\ toggled = None
NoRules == open = None /\ all = None
NoViews == lists = None /\ shownNcp = None /\ lines = None /\ sensitive = None
NoModeItems == activeEnv = None /\ cache = None /\ byHand = None /\ good = None
NoChooser ==
    /\ wifi = None /\ active = None /\ ghosts = None /\ tracked = None
    /\ window = None /\ seen = None /\ orphans = None /\ selected = None
NoStatus ==
    /\ links = [n \in {} |-> None] /\ inView = {} /\ stale = {}
    /\ groups = None /\ activeNcp = None /\ listens = None /\ profile = None
    /\ activeLoc = None /\ location = None

panelVars ==
    <<part, OfCombo, OfIp, OfProfiles, OfRules, OfViews, OfItems, OfChooser, OfStatus,
      ncus, menu, page, stored, obj, choice, edits, outcome, rows, admin, listed, asked>>

PanelsInit ==
    \/ /\ part = "combo" /\ Combo!Init
       /\ NoIp /\ NoProfiles /\ NoRules /\ NoViews /\ NoModeItems /\ NoChooser /\ NoStatus
       /\ ncus = None /\ menu = None /\ stored = None /\ obj = None /\ choice = None /\ edits = None
       /\ outcome = None /\ rows = None /\ admin = None /\ listed = None /\ asked = None
    \/ /\ part = "ip" /\ Ip!Init
       /\ NoCombo /\ NoProfiles /\ NoRules /\ NoViews /\ NoModeItems /\ NoChooser /\ NoStatus
       /\ ncus = None /\ menu = None /\ page = None /\ rows = None /\ admin = None /\ listed = None /\ asked = None
    \/ /\ part = "profiles" /\ Profiles!Init
       /\ NoCombo /\ NoIp /\ NoRules /\ NoViews /\ NoModeItems /\ NoChooser /\ NoStatus
       /\ ncus = None /\ menu = None /\ obj = None
    \/ /\ part = "rules" /\ Rules!Init
       /\ NoCombo /\ NoIp /\ NoProfiles /\ NoViews /\ NoModeItems /\ NoChooser /\ NoStatus
       /\ menu = None /\ page = None /\ stored = None /\ choice = None /\ outcome = None
       /\ listed = None /\ asked = None
    \/ /\ \/ /\ part = "views" /\ Views!Init
             /\ NoModeItems /\ NoStatus /\ menu = None /\ listed = None /\ asked = None
          \/ part = "enms" /\ Items(Enms, {})!Init /\ NoViews /\ NoStatus
          \/ part = "envs" /\ Items({}, Envs)!Init /\ NoViews /\ NoStatus
          \/ /\ part = "status" /\ Status!Init /\ NoViews /\ NoModeItems
             /\ menu = None /\ obj = None /\ listed = None /\ asked = None
       /\ NoCombo /\ NoIp /\ NoProfiles /\ NoRules /\ NoChooser
       /\ ncus = None /\ page = None /\ stored = None /\ choice = None /\ edits = None
       /\ outcome = None /\ rows = None /\ admin = None
    \/ /\ part = "chooser" /\ ChooserInit
       /\ NoCombo /\ NoIp /\ NoProfiles /\ NoRules /\ NoViews /\ NoModeItems /\ NoStatus
       /\ page = None /\ stored = None /\ obj = None /\ choice = None /\ edits = None
       /\ outcome = None /\ admin = None /\ listed = None /\ asked = None

ComboStep ==
    /\ part = "combo" /\ Combo!Next
    /\ UNCHANGED <<part, OfIp, OfProfiles, OfRules, OfViews, OfItems, OfChooser, OfStatus,
                   ncus, menu, stored, obj, choice, edits, outcome, rows, admin, listed, asked>>
IpStep ==
    /\ part = "ip" /\ Ip!Next
    /\ UNCHANGED <<part, OfCombo, OfProfiles, OfRules, OfViews, OfItems, OfChooser, OfStatus,
                   ncus, menu, page, rows, admin, listed, asked>>
ProfilesStep ==
    /\ part = "profiles" /\ Profiles!Next
    /\ UNCHANGED <<part, OfCombo, OfIp, OfRules, OfViews, OfItems, OfChooser, OfStatus,
                   ncus, menu, obj>>
RulesStep ==
    /\ part = "rules" /\ Rules!Next
    /\ UNCHANGED <<part, OfCombo, OfIp, OfProfiles, OfViews, OfItems, OfChooser, OfStatus,
                   menu, page, stored, choice, outcome, listed, asked>>
ViewsStep ==
    /\ part = "views" /\ Views!Next
    /\ UNCHANGED <<part, OfCombo, OfIp, OfProfiles, OfRules, OfItems, OfChooser, OfStatus,
                   ncus, menu, page, stored, choice, edits, outcome, rows, admin, listed, asked>>
ItemsStep ==
    /\ \/ part = "enms" /\ Items(Enms, {})!Next
       \/ part = "envs" /\ Items({}, Envs)!Next
    /\ UNCHANGED <<part, OfCombo, OfIp, OfProfiles, OfRules, OfViews, OfChooser, OfStatus,
                   ncus, page, stored, choice, edits, outcome, rows, admin>>
StatusStep ==
    /\ part = "status" /\ Status!Next
    /\ UNCHANGED <<part, OfCombo, OfIp, OfProfiles, OfRules, OfViews, OfItems, OfChooser,
                   ncus, menu, page, stored, obj, choice, edits, outcome, rows, admin, listed, asked>>

ChooserStep ==
    /\ part = "chooser" /\ ChooserNext
    /\ UNCHANGED <<part, OfCombo, OfIp, OfProfiles, OfRules, OfViews, OfItems, OfStatus,
                   page, stored, obj, choice, edits, outcome, admin, listed, asked>>

PanelsNext ==
    \/ ComboStep \/ IpStep \/ ProfilesStep \/ RulesStep
    \/ ViewsStep \/ ItemsStep \/ StatusStep \/ ChooserStep

PanelsSpec == PanelsInit /\ [][PanelsNext]_panelVars

-----------------------------------------------------------------------------
\* The properties of the parts, as their modules state them.

\* The combo box lists the profiles and their connections (show_combo_add,
\* show_combo_remove).
ComboMatchesLists == part = "combo" => Combo!ComboMatchesLists

\* OK stores and commits everything typed (show_changed_cb, apply).
OkLosesNothing == part = "combo" => Combo!OkLosesNothing

\* The status page has a row for each connection in use (nwam_conn_stat_panel.c).
RowsFollow == part = "status" => Status!RowsFollow

\* OK stores the addresses the user left on the page (nwam_conn_conf_ip_panel.c).
OkStoresTheChoice == part = "ip" => Ip!OkStoresTheChoice

\* Only the profile the user chose is activated (nwam_profile_panel.c, apply).
ActivatesTheChoice == [][part = "profiles" => Profiles!AsksForTheChoice]_panelVars

\* Renaming a profile never loses one (nwamui_ncp_name_cell_edited).
RenameLosesNone == [][part = "profiles" => Profiles!KeepsAsMany]_panelVars

\* What is saved as rules is what is shown when the dialog is opened again
\* (update_cond_from_row, populate_fields_from_string).
RulesRoundTrip == [][part = "rules" => Rules!RoundTrip]_panelVars

\* The tooltip and the items of the menu say what is so, and ask for what they
\* say, and the dialog for wireless networks lists what the menu does
\* (nwam-tooltip-widget.c, nwam-ncu-item.c, nwam-enm-item.c, nwam-env-item.c,
\* nwam_wireless_chooser.c).
ViewsTell ==
    /\ part = "views" => Views!ViewsFollow
    /\ part = "enms" => Items(Enms, {})!ItemsTell
    /\ part = "envs" => Items({}, Envs)!ItemsTell
    /\ part = "chooser" => ChooserTells

===============================================================================
