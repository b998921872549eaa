----------------------------- MODULE WifiNetworks -----------------------------
(***************************************************************************)
(* The wireless networks of the NCUs of the active NCP: the hash of an NCU *)
(* (common/nwamui_ncu.c), its networks' life states, which decide what a   *)
(* report of nwamd's announces (common/nwamui_daemon.c), and the section   *)
(* of the status icon's menu that lives on these announcements             *)
(* (daemon/status_icon.c).                                                 *)
(*                                                                         *)
(* A network is its ESSID.  Reports and answers come at any moment and     *)
(* with any content, as nwamd's do.  What a reload dispatches from nwamd's *)
(* cache is a report for each NCU.                                         *)
(***************************************************************************)
EXTENDS Naturals

CONSTANTS
    Ncus, Essids,
    None, Gone      \* no network; one that is in no hash any more

ASSUME NamesAssumption == {None, Gone} \cap Essids = {} /\ None # Gone

VARIABLES
    ncus,       \* the NCUs of the active NCP
    wifi,       \* what an NCU keeps: networks, their life, wifi_info
    active,     \* prv->active of the NCUs
    menu,       \* number of items an NCU's network has in the menu
    ghosts,     \* there are items whose network's NCU is gone
    tracked     \* the status icon's active_ncp is not NULL

menuVars == <<menu, ghosts>>
vars     == <<ncus, wifi, active, menu, ghosts, tracked>>

Lives == {"none", "new", "modified", "dead"}      \* "none": not in the hash
Kept  == [life : [Essids -> Lives], connected : SUBSET Essids,
          info : Essids \cup {None, Gone}]

Nothing == [life |-> [e \in Essids |-> "none"], connected |-> {}, info |-> None]
NoItems == [e \in Essids |-> 0]

Live(k) == {e \in Essids : k.life[e] \in {"new", "modified"}}

-----------------------------------------------------------------------------
(* nwamui_ncu.c: what becomes of what an NCU keeps.                        *)

Dead(k)       == {e \in Essids : k.life[e] = "dead"}
Dropped(k, S) == [k EXCEPT !.life = [e \in Essids |-> IF e \in S THEN "none" ELSE @[e]],
                           !.connected = @ \ S]

\* nwamui_ncu_wifi_hash_clean_dead_wifi_nets: wifi_info keeps its network.
CleanDead(k) ==
    [Dropped(k, Dead(k)) EXCEPT !.info = IF @ \in Dead(k) THEN Gone ELSE @]

\* Mutated: networks not in the next report stay what they are.
MarkNew(k) ==
    [k EXCEPT !.life = [e \in Essids |-> IF @[e] = "modified" THEN "dead" ELSE @[e]]]

\* nwamui_ncu_wifi_hash_mark_each, with DEAD.
MarkDead(k) ==
    [k EXCEPT !.life = [e \in Essids |-> IF @[e] = "none" THEN "none" ELSE "dead"]]

\* Mutated: a network that was dead is found again as a new one.
InsertNew(k, S) ==
    [k EXCEPT !.life = [e \in Essids |-> IF e \in S THEN "new" ELSE @[e]]]

\* nwamui_ncu_wifi_hash_insert_or_update_from_wlan_t, for every network of S.
Insert(k, S) ==
    [k EXCEPT !.life = [e \in Essids |->
        IF e \notin S THEN @[e]
        ELSE IF @[e] \in {"none", "new"} THEN "new" ELSE "modified"]]

\* Mutated: the status of the former one is kept.
SetInfoOnly(k, e) == [k EXCEPT !.info = e]

\* nwamui_ncu_set_wifi_info: the former one is disconnected.
SetInfo(k, e) ==
    [k EXCEPT !.info = e,
              !.connected = IF e = k.info THEN @ ELSE @ \ {k.info}]

Connect(k, e) == [SetInfo(k, e) EXCEPT !.connected = @ \cup {e}]

-----------------------------------------------------------------------------
Init ==
    /\ ncus \in SUBSET Ncus
    /\ wifi = [n \in Ncus |-> Nothing]
    /\ active = [n \in Ncus |-> FALSE]
    /\ menu = [n \in Ncus |-> NoItems] /\ ghosts = FALSE
    /\ tracked \in BOOLEAN

\* foreach_wifi_in_ncu_emit, and what the menu makes of it.
Emitted(k, items) ==
    [e \in Essids |-> CASE k.life[e] = "new" -> items[e] + 1
                        [] k.life[e] = "dead" /\ items[e] > 0 -> items[e] - 1
                        [] OTHER -> items[e]]

\* What a report of the networks S makes of an NCU's.  Of the networks that are
\* selected or connected the last one, by strength, is what wifi_info becomes.
Reported(k, S) ==
    LET scanned == Insert(MarkDead(CleanDead(k)), S)
    IN  {scanned} \cup {SetInfo(scanned, e) : e \in S} \cup {Connect(scanned, e) : e \in S}

\* WLAN_SCAN_REPORT, WLAN_NEED_CHOICE, and a reload that dispatches from the
\* cache: dispatch_scan_results_from_wlan_array.
HandleReport(n) ==
    /\ n \in ncus
    /\ UNCHANGED <<ncus, active, ghosts, tracked>>
    /\ \E S \in SUBSET Essids : \E k \in Reported(wifi[n], S) :
          /\ wifi' = [wifi EXCEPT ![n] = k]
          /\ menu' = [menu EXCEPT ![n] = Emitted(k, @)]

\* WLAN_CONNECTION_REPORT.
HandleConnection(n) ==
    /\ n \in ncus
    /\ \E e \in Essids :
          LET k == Insert(wifi[n], {e})
          IN  wifi' \in {[wifi EXCEPT ![n] = Connect(k, e)],
                         [wifi EXCEPT ![n] = [k EXCEPT !.connected = @ \ {e}]]}
    /\ UNCHANGED <<ncus, active, menuVars, tracked>>

\* WLAN_NEED_KEY.
HandleNeedKey(n) ==
    /\ n \in ncus
    /\ \E e \in Essids :
          wifi' = [wifi EXCEPT ![n] = SetInfo(Insert(@, {e}), e)]
    /\ UNCHANGED <<ncus, active, menuVars, tracked>>

\* nwamui_object_real_get_active of an NCU, its states having changed.
ActiveChanges(n) ==
    /\ n \in ncus
    /\ active' = [active EXCEPT ![n] = ~@]
    /\ wifi' =
         IF wifi[n].info \notin Essids THEN wifi
         ELSE [wifi EXCEPT ![n].connected =
                 IF active'[n] THEN @ \cup {wifi[n].info} ELSE @ \ {wifi[n].info}]
    /\ UNCHANGED <<ncus, menuVars, tracked>>

\* The user joins, by its name, a network of the hash or one that is in no hash
\* (nwam_wireless_dialog's apply); the tooltip, with none set, finds the network
\* nwamd is connected to (nwamui_ncu_get_connection_state_string).
Joined(n) ==
    /\ n \in ncus
    /\ \E e \in {Gone} \cup {x \in Essids : wifi[n].life[x] # "none"} :
          wifi' = [wifi EXCEPT ![n] = SetInfo(@, e)]
    /\ UNCHANGED <<ncus, active, menuVars, tracked>>

-----------------------------------------------------------------------------
(* The active NCP and the menu.                                            *)

NcuAdded(n) ==
    /\ n \notin ncus
    /\ ncus' = ncus \cup {n}
    /\ UNCHANGED <<wifi, active, menuVars, tracked>>

\* on_ncp_notify_many_wireless: the section is emptied with the last NCU.
SectionEmptied(left) == tracked /\ left = {}

\* The items of an NCU's networks stay when it goes: ncp_remove_ncu.
NcuRemoved(n) ==
    /\ n \in ncus
    /\ ncus' = ncus \ {n}
    /\ wifi' = [wifi EXCEPT ![n] = Nothing]
    /\ active' = [active EXCEPT ![n] = FALSE]
    /\ IF SectionEmptied(ncus')
       THEN menu' = [m \in Ncus |-> NoItems] /\ ghosts' = FALSE
       ELSE menu' = [menu EXCEPT ![n] = NoItems] /\ ghosts' = (ghosts \/ menu[n] # NoItems)
    /\ UNCHANGED tracked

\* daemon_active_ncp_changed, the status being an error.
NcpLost ==
    /\ tracked
    /\ tracked' = FALSE
    /\ menu' = [m \in Ncus |-> NoItems] /\ ghosts' = FALSE
    /\ UNCHANGED <<ncus, wifi, active>>

\* daemon_active_ncp_changed: nwam_menu_recreate_ncu_menuitems makes the section anew.
NcpShown ==
    /\ ~tracked
    /\ tracked' = TRUE
    /\ menu' = [n \in Ncus |-> [e \in Essids |-> IF e \in Live(wifi[n]) THEN 1 ELSE 0]]
    /\ ghosts' = FALSE
    /\ UNCHANGED <<ncus, wifi, active>>

Next ==
    \/ \E n \in Ncus : \/ HandleReport(n) \/ HandleConnection(n) \/ HandleNeedKey(n)
                       \/ Joined(n) \/ ActiveChanges(n) \/ NcuAdded(n) \/ NcuRemoved(n)
    \/ NcpLost \/ NcpShown

Spec == Init /\ [][Next]_vars

-----------------------------------------------------------------------------
(* Properties.                                                             *)

\* Types; a network that is in no hash has no state, and wifi_info is one that is.
TypeOK ==
    /\ ncus \subseteq Ncus /\ wifi \in [Ncus -> Kept] /\ active \in [Ncus -> BOOLEAN]
    /\ menu \in [Ncus -> [Essids -> Nat]] /\ ghosts \in BOOLEAN /\ tracked \in BOOLEAN
    /\ \A n \in Ncus : \A e \in Essids : wifi[n].life[e] = "none" =>
          e \notin wifi[n].connected /\ wifi[n].info # e
    /\ \A n \in Ncus \ ncus : wifi[n] = Nothing

\* However reports, answers of nwamd and the coming and going of NCUs and of the
\* NCP interleave, no network is in the menu twice, and an item's network is one
\* its NCU still knows of.  (foreach_wifi_in_ncu_emit.)
ItemsOfLiveNetworks ==
    \A n \in Ncus : \A e \in Essids :
        menu[n][e] \in (IF e \in Live(wifi[n]) THEN {0, 1} ELSE {0})

\* With no wireless NCU left there is no network in the menu, whatever items
\* NCUs that were removed before have left behind.  (on_ncp_notify_many_wireless.)
NoneWithoutWireless == tracked /\ ncus = {} => ~ghosts

\* No NCU has two networks that are ticked in the menu, and the one that is, is
\* its wifi_info; "Wifi status is not good maintained" (nwam-wifi-item.c).
OneTicked ==
    \A n \in Ncus : wifi[n].connected \subseteq {wifi[n].info}

\* After a report the menu has of its NCU the networks that were there and are
\* reported again, and those that are reported and were not known; no others.
ReportShown ==
    [][\A n \in Ncus : wifi'[n] # wifi[n] /\ HandleReport(n) =>
         LET seen    == Live(wifi'[n])
             known   == {e \in Essids : menu[n][e] > 0}
             unknown == {e \in Essids : wifi[n].life[e] \in {"none", "dead"}}
         IN  {e \in Essids : menu'[n][e] > 0} = seen \cap (known \cup unknown)]_vars
=============================================================================
