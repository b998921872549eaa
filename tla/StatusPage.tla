----------------------------- MODULE StatusPage -----------------------------
(* The page of the preferences window that lists the connections in use      *)
(* (src/capplet/nwam_conn_stat_panel.c).  It filters the connections of the  *)
(* NCP that was active when the window opened; a row is filtered again when  *)
(* its connection tells of any change (src/common/nwamui_ncp.c), and all of  *)
(* them when the priority group changes -- but opening the page once more,   *)
(* which the window does before it is shown, ends that.                      *)
(* What a row says is drawn anew whenever it is seen and is left out, as are *)
(* the order of the rows and the dialogs its buttons open.                   *)
CONSTANTS
    Ncps,       \* the NCPs; the page lists the connections of Opened
    Opened,     \* the NCP that was active when the window opened
    Links,      \* the connections it may have
    Groups,     \* the priority groups
    Locs,       \* the locations
    None

StatusPageAssumption == Opened \in Ncps /\ None \notin Ncps \cup Locs

VARIABLES
    links,      \* the connections of the NCP, with their settings
    groups,     \* the group each NCP was told to be in
    activeNcp,  \* the active NCP
    inView,     \* the connections that have a row
    listens,    \* whether the page listens to the group of the NCP
    profile,    \* the NCP the page names
    activeLoc,  \* the active location
    location,   \* the location it names, or None for "Unknown env"
    stale       \* the connections not filtered since the group changed

vars == <<links, groups, activeNcp, inView, listens, profile, activeLoc, location, stale>>

Settings == [manual : BOOLEAN, enabled : BOOLEAN, group : Groups]

-----------------------------------------------------------------------------
\* The filter: a connection chosen by hand is in use if it is enabled, any
\* other if it is of the group of the active NCP.
InUse(s, p, gs) == IF s.manual THEN s.enabled ELSE s.group = gs[p]

AllInUse(ls, p, gs) == {n \in DOMAIN ls : InUse(ls[n], p, gs)}

\* Mutant of Refiltered: only the rows there are, are filtered again.
RefilteredIfShown(n, s) == IF InUse(s, activeNcp, groups) THEN inView ELSE inView \ {n}

\* The row of a connection is filtered again.
Refiltered(n, s) == IF InUse(s, activeNcp, groups) THEN inView \cup {n} ELSE inView \ {n}

\* The page names the location out of a variable that was never set, so it may
\* not look for the name at all.
Named(l) == {l, None}

-----------------------------------------------------------------------------
\* The connection is added, changed by the user or by a reload, or removed.
AddLink(n, s) ==
    /\ n \notin DOMAIN links
    /\ links' = [m \in DOMAIN links \cup {n} |-> IF m = n THEN s ELSE links[m]]
    /\ inView' = Refiltered(n, s)
    /\ UNCHANGED <<groups, activeNcp, listens, profile, activeLoc, location, stale>>

ChangeLink(n, s) ==
    /\ n \in DOMAIN links
    /\ links' = [links EXCEPT ![n] = s]
    /\ inView' = Refiltered(n, s)
    /\ stale' = stale \ {n}
    /\ UNCHANGED <<groups, activeNcp, listens, profile, activeLoc, location>>

RemoveLink(n) ==
    /\ n \in DOMAIN links
    /\ links' = [m \in DOMAIN links \ {n} |-> links[m]]
    /\ inView' = inView \ {n}
    /\ stale' = stale \ {n}
    /\ UNCHANGED <<groups, activeNcp, listens, profile, activeLoc, location>>

\* nwamd moves on to another priority group of the active NCP.
ChangeGroup(g) ==
    /\ groups[activeNcp] # g
    /\ groups' = [groups EXCEPT ![activeNcp] = g]
    /\ IF listens /\ activeNcp = Opened
       THEN inView' = AllInUse(links, activeNcp, groups') /\ stale' = {}
       ELSE stale' = DOMAIN links /\ UNCHANGED inView
    /\ UNCHANGED <<links, activeNcp, listens, profile, activeLoc, location>>

\* Another NCP becomes active: the page names it and lists what it did.
ChangeNcp(p) ==
    /\ p # activeNcp
    /\ activeNcp' = p /\ profile' = p
    /\ stale' = DOMAIN links
    /\ UNCHANGED <<links, groups, inView, listens, activeLoc, location>>

\* Another location becomes active.
ChangeLoc(l) ==
    /\ l # activeLoc
    /\ activeLoc' = l
    /\ location' \in Named(l)
    /\ UNCHANGED <<links, groups, activeNcp, inView, listens, profile, stale>>

\* The page is opened again, or refreshed: it is given no NCP.
Refresh ==
    /\ listens' = FALSE
    /\ location' \in Named(activeLoc)
    /\ UNCHANGED <<links, groups, activeNcp, inView, profile, activeLoc, stale>>

-----------------------------------------------------------------------------
\* The page as it is made, with the active NCP; the window refreshes it.
Init ==
    /\ activeNcp = Opened /\ profile = Opened
    /\ links \in [Links -> Settings]
    /\ groups \in [Ncps -> Groups]
    /\ inView = AllInUse(links, Opened, groups)
    /\ listens = TRUE
    /\ activeLoc \in Locs /\ location \in Named(activeLoc)
    /\ stale = {}

Next ==
    \/ \E n \in Links, s \in Settings : AddLink(n, s) \/ ChangeLink(n, s)
    \/ \E n \in Links : RemoveLink(n)
    \/ \E g \in Groups : ChangeGroup(g)
    \/ \E p \in Ncps : ChangeNcp(p)
    \/ \E l \in Locs : ChangeLoc(l)
    \/ Refresh

Spec == Init /\ [][Next]_vars

-----------------------------------------------------------------------------
\* However nwamd, the user and reloads change the connections, a row is there
\* exactly for a connection in use: always for one chosen by hand, and for the
\* others unless the active group changed without them
\* (conn_view_filter_visible_cb, ncu_notify_cb, ncp_notify_pri_group_changed).
RowsFollow ==
    /\ inView \subseteq DOMAIN links
    /\ \A n \in DOMAIN links :
           links[n].manual \/ n \notin stale => (n \in inView) = InUse(links[n], activeNcp, groups)

===============================================================================
