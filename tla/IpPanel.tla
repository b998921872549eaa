------------------------------- MODULE IpPanel -------------------------------
(* The page of the preferences window that edits the IPv4 and IPv6 settings  *)
(* of a connection (src/capplet/nwam_conn_conf_ip_panel.c) and the           *)
(* connection object behind it (src/common/nwamui_ncu.c).  The page keeps    *)
(* some of what the user does in its widgets until apply(), writes some of   *)
(* it into the object at once, and edits the object's lists of addresses in  *)
(* place; the object reaches nwamd when it is committed.  Meanwhile the      *)
(* configuration may change in nwamd, and the object reloads it.             *)
(* One connection is modelled, and the page showing it or a read-only one.   *)
(* Cancel, which ends the program and undoes nothing, is left out.           *)
(* An address stands for an address with its prefix.  IPv6                   *)
(* autoconfiguration, which the object always stores, is left out.           *)
EXTENDS Integers, SequencesExt

CONSTANTS
    Addrs,      \* the addresses; 0, none of them, is an empty cell
    Routes,     \* the default routes; 0, none of them, is an empty entry
    MaxRows,    \* bound: rows of a list of addresses
    Stores,     \* bound: the configurations found in nwamd
    MaxEdits    \* bound: things the user does on the page

IpAssumption == 0 \notin Addrs \cup Routes /\ MaxRows \in Nat

Families == {"v4", "v6"}
Modes == {"off", "dhcp", "manual", "both"}      \* the rows of ipv4_combo
Lists == SeqOf(Addrs, MaxRows)

VARIABLES
    stored,     \* the configuration in nwamd
    obj,        \* the connection object: its settings and its flag for changes
    screen,     \* the widgets of the page
    shown,      \* whether the page shows this connection
    choice,     \* <<what the user left the page with>>, or nothing while it is shown
    edits,      \* how many the user did
    outcome     \* "open", or "ok" once OK closed the window

vars == <<stored, obj, screen, shown, choice, edits, outcome>>

Both(v4, v6) == [f \in Families |-> IF f = "v4" THEN v4 ELSE v6]

-----------------------------------------------------------------------------
\* The stored addresses of a family in use, each put before those read earlier.
RowsRead(c, f) == IF c.on[f] THEN Reverse(c.addrs[f]) ELSE <<>>

\* The object reads the stored configuration; finding no DHCP in it changes
\* nothing.
Read(o, c) ==
    [o EXCEPT !.active = c.on,
              !.dhcp   = [f \in Families |-> @[f] \/ (c.on[f] /\ c.dhcp[f])],
              !.rows   = [f \in Families |-> RowsRead(c, f)]]

Reload(o, c) ==
    [Read(o, c) EXCEPT !.route = c.route, !.enabled = c.enabled, !.modified = FALSE]

\* The mode the page shows for the object.
ModeOf(o) ==
    IF ~o.active["v4"] THEN "off"
    ELSE IF o.rows["v4"] = <<>> THEN "dhcp"
    ELSE IF o.dhcp["v4"] THEN "both" ELSE "manual"

\* Filling the page when a connection is brought up, or on Refresh.
Populated(o) ==
    [mode |-> ModeOf(o), on6 |-> o.active["v6"], manual6 |-> o.rows["v6"] # <<>>,
     route |-> o.route]

\* Any notification of the object fills the entries for the routes again, and
\* leaves the combos alone.
Refilled(o) == [screen EXCEPT !.route = o.route]

\* What the page says: each family's use, DHCP, addresses and route.
Static(s, f) == IF f = "v4" THEN s.mode \in {"manual", "both"} ELSE s.on6 /\ s.manual6
On(s, f) == IF f = "v4" THEN s.mode # "off" ELSE s.on6
Chosen ==
    [on    |-> [f \in Families |-> On(screen, f)],
     dhcp  |-> screen.mode \in {"dhcp", "both"},
     addrs |-> [f \in Families |-> IF Static(screen, f) THEN ToSet(obj.rows[f]) ELSE {}],
     route |-> [f \in Families |-> IF On(screen, f) THEN screen.route[f] ELSE 0]]

\* What a stored configuration says.
SavedIn(c) ==
    [on    |-> c.on,
     dhcp  |-> c.on["v4"] /\ c.dhcp["v4"],
     addrs |-> [f \in Families |-> IF c.on[f] THEN ToSet(c.addrs[f]) ELSE {}],
     route |-> c.route]

\* A configuration nwamd may hold: IPv4, if used, has DHCP or an address.
Config(m, l4, on6, l6, r) ==
    [on      |-> Both(m # "off", on6),
     dhcp    |-> Both(m \in {"dhcp", "both"}, on6),
     addrs   |-> Both(IF m \in {"manual", "both"} THEN l4 ELSE <<>>, IF on6 THEN l6 ELSE <<>>),
     route   |-> Both(IF m = "off" THEN 0 ELSE r, 0),
     enabled |-> TRUE]

StoresAssumption ==
    Stores \subseteq {Config(m, l4, on6, l6, r) : m \in Modes, l4 \in Lists \ {<<>>}, on6 \in BOOLEAN,
                                                 l6 \in Lists, r \in Routes \cup {0}}

Unread == [active |-> Both(FALSE, FALSE), dhcp |-> Both(FALSE, TRUE), rows |-> Both(<<>>, <<>>),
           route |-> Both(0, 0), enabled |-> TRUE, modified |-> FALSE]

Init ==
    /\ stored \in Stores
    /\ obj = Reload(Unread, stored)
    /\ screen = Populated(obj) /\ shown = TRUE
    /\ choice = <<>> /\ edits = 0
    /\ outcome = "open"

-----------------------------------------------------------------------------
\* The user does something on the page.
Edit ==
    /\ shown /\ outcome = "open"
    /\ edits < MaxEdits /\ edits' = edits + 1

\* ipv4_combo sets the object at once.
ChooseMode ==
    /\ Edit
    /\ \E m \in Modes \ {screen.mode} :
          LET a == m # "off"
              d == IF a THEN m # "manual" ELSE obj.dhcp["v4"]
          IN  /\ screen' = [screen EXCEPT !.mode = m]
              /\ obj' = [obj EXCEPT !.active["v4"] = a, !.dhcp["v4"] = d,
                            !.modified = @ \/ a # obj.active["v4"] \/ d # obj.dhcp["v4"]]
    /\ UNCHANGED <<stored, shown, choice, outcome>>

\* ipv6_combo does only when IPv6 is turned off.
ChooseIpv6 ==
    /\ Edit
    /\ screen' = [screen EXCEPT !.on6 = ~screen.on6]
    /\ obj' = IF ~screen.on6 THEN obj
              ELSE [obj EXCEPT !.active["v6"] = FALSE, !.modified = @ \/ obj.active["v6"]]
    /\ UNCHANGED <<stored, shown, choice, outcome>>

\* The box that allows addresses for IPv6 is only a widget.
ToggleManual ==
    /\ Edit /\ screen.on6
    /\ screen' = [screen EXCEPT !.manual6 = ~screen.manual6]
    /\ UNCHANGED <<stored, obj, shown, choice, outcome>>

\* The lists are edited in the object; Add puts an empty row at the end.
AddRow ==
    /\ Edit
    /\ \E f \in Families :
          /\ Static(screen, f) /\ Len(obj.rows[f]) < MaxRows
          /\ obj' = [obj EXCEPT !.rows[f] = Append(@, 0), !.modified = TRUE]
    /\ UNCHANGED <<stored, screen, shown, choice, outcome>>

DeleteRow ==
    /\ Edit
    /\ \E f \in Families : \E i \in DOMAIN obj.rows[f] :
          /\ Static(screen, f)
          /\ obj' = [obj EXCEPT !.rows[f] = RemoveAt(@, i), !.modified = TRUE]
    /\ UNCHANGED <<stored, screen, shown, choice, outcome>>

\* The row's address is one object, changed in place.
WithCell(o, f, i, a) == [o EXCEPT !.rows[f][i] = a]

\* A cell takes only a valid address.  That does not count as a change of the
\* object, but it is announced, and fills the entries for the routes again.
EditCell ==
    /\ Edit
    /\ \E f \in Families, a \in Addrs : \E i \in DOMAIN obj.rows[f] :
          /\ Static(screen, f) /\ obj.rows[f][i] # a
          /\ obj' = WithCell(obj, f, i, a)
          /\ screen' = Refilled(obj')
    /\ UNCHANGED <<stored, shown, choice, outcome>>

\* The default routes are typed in entries.
TypeRoute ==
    /\ Edit
    /\ \E f \in Families, r \in Routes \cup {0} :
          On(screen, f) /\ r # screen.route[f] /\ screen' = [screen EXCEPT !.route[f] = r]
    /\ UNCHANGED <<stored, obj, shown, choice, outcome>>

-----------------------------------------------------------------------------
\* apply() for IPv4; with manual addresses and no row it fails, after it set
\* the rest, and the settings for IPv6 are not applied.
Applied4(o) ==
    IF screen.mode = "off" THEN [o EXCEPT !.active["v4"] = FALSE, !.route["v4"] = 0]
    ELSE [o EXCEPT !.active["v4"] = TRUE, !.dhcp["v4"] = screen.mode # "manual",
                   !.rows["v4"] = IF screen.mode = "dhcp" THEN <<>> ELSE @,
                   !.route["v4"] = screen.route["v4"]]

Applied6(o) ==
    IF screen.on6
    THEN [o EXCEPT !.active["v6"] = TRUE, !.route["v6"] = screen.route["v6"],
                   !.rows["v6"] = IF screen.manual6 THEN @ ELSE <<>>]
    ELSE [o EXCEPT !.active["v6"] = FALSE, !.dhcp["v6"] = FALSE, !.route["v6"] = 0,
                   !.rows["v6"] = <<>>]

Refused == screen.mode \in {"manual", "both"} /\ obj.rows["v4"] = <<>>

\* Mutant of Applied: addresses typed before DHCP was chosen stay.
AppliedKeeping ==
    [Applied6(Applied4(obj)) EXCEPT !.modified = TRUE,
        !.rows["v4"] = IF screen.mode = "off" THEN @ ELSE obj.rows["v4"]]

\* Setting a route always counts as a change.
Applied == [Applied6(Applied4(obj)) EXCEPT !.modified = TRUE]

\* The user goes to another connection, which is read-only: nothing of it is
\* changed here.
Leave ==
    /\ shown /\ outcome = "open" /\ ~Refused
    /\ obj' = Applied
    /\ shown' = FALSE
    /\ choice' = <<Chosen>>
    /\ UNCHANGED <<stored, screen, outcome, edits>>

Return ==
    /\ ~shown /\ outcome = "open"
    /\ shown' = TRUE
    /\ screen' = Populated(obj)
    /\ choice' = <<>>
    /\ UNCHANGED <<stored, obj, outcome, edits>>

\* The page stays, with the entries for the routes filled again.
LeaveRefused ==
    /\ shown /\ outcome = "open" /\ Refused
    /\ obj' = [Applied4(obj) EXCEPT !.modified = TRUE]
    /\ screen' = Refilled(obj')
    /\ UNCHANGED <<stored, shown, choice, outcome, edits>>

\* Refresh fills the page from the object.
Refresh ==
    /\ shown /\ outcome = "open"
    /\ screen' = Populated(obj)
    /\ UNCHANGED <<stored, obj, shown, choice, outcome, edits>>

\* commit() writes what the object says: no addresses for a family that is off
\* or has none, and no use of the connection when both are.
Committed(o) ==
    [on      |-> o.active,
     dhcp    |-> [f \in Families |-> o.active[f] /\ o.dhcp[f]],
     addrs   |-> [f \in Families |-> IF o.active[f] THEN o.rows[f] ELSE <<>>],
     route   |-> o.route,
     enabled |-> o.enabled /\ (o.active["v4"] \/ o.active["v6"])]

\* nwamd refuses a configuration with an empty address.
Blank(c) == \E f \in Families : 0 \in ToSet(c.addrs[f])

\* OK applies the page, if it shows this connection, and commits a changed object.
Ok ==
    /\ outcome = "open" /\ (shown => ~Refused)
    /\ LET o == IF shown THEN Applied ELSE obj
           c == Committed(o)
       IN  /\ choice' = IF shown THEN <<Chosen>> ELSE choice
           /\ \/ /\ ~(o.modified /\ Blank(c))
                 /\ stored' = IF o.modified THEN c ELSE stored
                 /\ obj' = [o EXCEPT !.modified = FALSE, !.enabled = c.enabled]
                 /\ outcome' = "ok"
              \/ /\ o.modified          \* nwamd may refuse it for other reasons
                 /\ obj' = [o EXCEPT !.enabled = c.enabled]
                 /\ UNCHANGED <<stored, outcome>>
    /\ UNCHANGED <<screen, shown, edits>>

OkRefused ==
    /\ shown /\ outcome = "open" /\ Refused
    /\ obj' = [Applied4(obj) EXCEPT !.modified = TRUE]
    /\ UNCHANGED <<stored, screen, shown, choice, outcome, edits>>

-----------------------------------------------------------------------------
\* nwamd announces a change of the stored configuration: an object without
\* changes reloads it, or does not when the uninitialised variable the answer
\* is computed in says it has changes.
Announced ==
    /\ outcome = "open"
    /\ stored' \in Stores \ {stored}
    /\ \/ UNCHANGED <<obj, screen>>
       \/ /\ ~obj.modified
          /\ obj' = Reload(obj, stored')
          /\ screen' = IF shown THEN Refilled(obj') ELSE screen
    /\ UNCHANGED <<shown, choice, outcome, edits>>

\* The state of the connection changes: the object announces it.
StateChanges ==
    /\ shown /\ outcome = "open"
    /\ screen' = Refilled(obj)
    /\ UNCHANGED <<stored, obj, shown, choice, outcome, edits>>

Next ==
    \/ ChooseMode \/ ChooseIpv6 \/ ToggleManual \/ AddRow \/ DeleteRow \/ EditCell \/ TypeRoute
    \/ Leave \/ Return \/ LeaveRefused \/ Refresh \/ Ok \/ OkRefused
    \/ Announced \/ StateChanges

Spec == Init /\ [][Next]_vars

-----------------------------------------------------------------------------
\* After OK the stored configuration is, in both families, the one the user
\* left on the page: its use, DHCP, addresses and route, whatever was typed,
\* hidden, refilled or reloaded before.
OkStoresTheChoice ==
    outcome = "ok" => \A i \in DOMAIN choice : choice[i] = SavedIn(stored)

==============================================================================
