------------------------------ MODULE WirelessMenu ------------------------------
(* The wireless section of the status icon's menu: the menu shell that keeps  *)
(* its items in sections between separators (src/daemon/nwam-menu.c), the     *)
(* items, each the view of one network object (nwam-menuitem.c,               *)
(* nwam-wifi-item.c), and the status icon, which makes items for networks,    *)
(* and puts away for later use those it no longer needs (status_icon.c).      *)
(* A network object is a number, in the order of their names.  There is at    *)
(* most one wireless NCU.  Which networks are announced is up to WifiNetworks *)
(* and here any; those revived by a report of a connection are left out.      *)
EXTENDS Integers, SequencesExt

CONSTANT Nets       \* the network objects

WirelessMenuAssumption == Nets \subseteq Nat \ {0}

VARIABLES
    links,      \* whether there is a wireless NCU: wireless_link_num > 0
    live,       \* its networks
    strong,     \* those with a strong signal
    joined,     \* the one that is connected, or none: a set
    tracked,    \* active_ncp of the status icon is not NULL
    menu,       \* the widgets of the menu
    count,      \* children_number of the section
    cache       \* the items put away

vars == <<links, live, strong, joined, tracked, menu, count, cache>>

-----------------------------------------------------------------------------
\* A widget; an item has a network, 0 if that is gone, shows whether it is
\* connected, and may be told when that changes.
Widget(k, i) == [kind |-> k, id |-> i, tick |-> FALSE, hears |-> FALSE, shown |-> TRUE]
ItemOf(n)  == Widget("item", n)

\* Refresh and Join, below a separator, follow the section.
Root == <<Widget("static", 1), Widget("static", 2), Widget("wireless", 0), Widget("controls", 0),
          Widget("refresh", 0), Widget("join", 0), Widget("separator", 0)>>
Separators == {"wireless", "controls", "separator"}
Controls   == {"controls", "refresh", "join"}

\* The section goes from its separator to the next one.
Least(S)   == CHOOSE i \in S : \A j \in S : i <= j
Left(ws)   == Least({i \in DOMAIN ws : ws[i].kind = "wireless"})
Stop(ws)   == Least({i \in DOMAIN ws : i > Left(ws) /\ ws[i].kind \in Separators})
Section(ws) == [i \in 1 .. Stop(ws) - Left(ws) - 1 |-> ws[Left(ws) + i]]
WithSection(ws, is) == SubSeq(ws, 1, Left(ws)) \o is \o SubSeq(ws, Stop(ws), Len(ws))

ShownIf(ws, kinds, b) ==
    [i \in DOMAIN ws |-> IF ws[i].kind \in kinds THEN [ws[i] EXCEPT !.shown = b] ELSE ws[i]]

\* The menu and the items put away.
State(ws, c, put) == [menu |-> ws, count |-> c, cache |-> put]

\* The separator shows while the section has items.
Counted(s, c) == [s EXCEPT !.count = c, !.menu = ShownIf(s.menu, {"wireless"}, c > 0)]

\* The strongest, T, come first, and among them the names decide.
Before(T, n, k) == IF (n \in T) = (k \in T) THEN n < k ELSE n \in T
InOrder(is, T) == SortSeq(is, LAMBDA a, b : Before(T, a.id, b.id))

\* Adding an item sorts the section again.
Inserted(s, i, T) ==
    Counted([s EXCEPT !.menu = WithSection(@, InOrder(Append(Section(@), i), T))], s.count + 1)

Removed(s, i) ==
    Counted([s EXCEPT !.menu = WithSection(@, SelectSeq(Section(@), LAMBDA j : j # i))], s.count - 1)

-----------------------------------------------------------------------------
\* An item that gives up its network disconnects that from all items.
Deaf(is, n) == [k \in DOMAIN is |-> IF is[k].id = n THEN [is[k] EXCEPT !.hears = FALSE] ELSE is[k]]

\* An item given another network is connected to it, and shows it.
GivenTo(i, n) ==
    IF i.id = n THEN [i EXCEPT !.shown = TRUE]
    ELSE [ItemOf(n) EXCEPT !.hears = TRUE, !.tick = n \in joined]

\* An item put away is used before a new one is made.
Created(s, n, T) ==
    IF s.cache = <<>> THEN Inserted(s, GivenTo(ItemOf(0), n), T)
    ELSE LET i == Head(s.cache)
             t == IF i.id = n THEN s ELSE [s EXCEPT !.menu = Deaf(@, i.id), !.cache = Deaf(@, i.id)]
         IN  Inserted([t EXCEPT !.cache = Tail(@)], GivenTo(i, n), T)

\* Of a network that is gone its item keeps nothing that matters.
Gone(is, T) ==
    [k \in DOMAIN is |-> IF is[k].kind = "item" /\ is[k].id \notin T THEN ItemOf(0) ELSE is[k]]

Deleted(s, n) ==
    LET is == Section(s.menu)
        of == {k \in DOMAIN is : is[k].id = n}
    IN  IF of = {} THEN s
        ELSE LET i == is[Least(of)] IN [Removed(s, i) EXCEPT !.cache = <<i>> \o @]

MovedToCache(s) ==
    LET is == Section(s.menu) IN [FoldLeft(Removed, s, is) EXCEPT !.cache = is \o @]

\* Only what the network itself says counts.
Ticked(n) == n \in joined

\* Items show their networks as they are.
Synced(ws, T) ==
    [k \in DOMAIN ws |-> IF ws[k].kind = "item" /\ ws[k].id \in T
                         THEN [ws[k] EXCEPT !.tick = Ticked(ws[k].id)] ELSE ws[k]]

\* The section is hidden, and the controls come and go, with the wireless NCU.
Updated(s, l) ==
    [s EXCEPT !.menu = IF l THEN ShownIf(@, Controls, TRUE)
                       ELSE ShownIf(@, Controls \cup {"wireless", "item"}, FALSE)]

\* on_ncp_notify_many_wireless.
LinksSeen(s, l) == Updated(IF l THEN [s EXCEPT !.menu = Synced(@, Nets)] ELSE MovedToCache(s), l)

-----------------------------------------------------------------------------
Now == State(menu, count, cache)

\* The networks T are left.
Becomes(s, T) ==
    /\ menu' = s.menu /\ count' = s.count
    /\ cache' = Gone(s.cache, T)

Init ==
    /\ links = FALSE /\ live = {} /\ strong = {} /\ joined = {}
    /\ tracked = FALSE
    /\ menu = ShownIf(Root, {"wireless"}, FALSE) /\ count = 0 /\ cache = <<>>

\* A network is found.
Find ==
    /\ links
    /\ \E n \in Nets \ live :
          /\ live' = live \cup {n}
          /\ \/ strong' = strong /\ Becomes(Created(Now, n, strong), live')
             \/ strong' = strong \cup {n} /\ Becomes(Created(Now, n, strong \cup {n}), live')
    /\ UNCHANGED <<links, joined, tracked>>

Lose ==
    /\ \E n \in live :
          /\ live' = live \ {n} /\ strong' = strong \ {n} /\ joined' = joined \ {n}
          /\ Becomes(Deleted(Now, n), live')
    /\ UNCHANGED <<links, tracked>>

SignalChanges ==
    /\ \E n \in live : strong' = IF n \in strong THEN strong \ {n} ELSE strong \cup {n}
    /\ UNCHANGED <<links, live, joined, tracked, menu, count, cache>>

\* A network is connected or not; the items that hear of it show it.
Told(is, T, j) ==
    [k \in DOMAIN is |-> IF is[k].hears /\ is[k].id \in T
                         THEN [is[k] EXCEPT !.tick = is[k].id \in j] ELSE is[k]]

StatusChanges ==
    /\ \E n \in live : joined' = {n} \ joined
    /\ menu' = Told(menu, joined \cup joined', joined')
    /\ cache' = Told(cache, joined \cup joined', joined')
    /\ UNCHANGED <<links, live, strong, tracked, count>>

\* The user clicks an item, which shows its network again and connects to it.
Click ==
    /\ \E n \in live : menu' = Synced(menu, {n})
    /\ UNCHANGED <<links, live, strong, joined, tracked, count, cache>>

\* The wireless NCU, with its networks, comes or goes.
LinksChange ==
    /\ tracked /\ UNCHANGED tracked
    /\ links' \in BOOLEAN \ {links}
    /\ live' = {} /\ strong' = {} /\ joined' = {}
    /\ Becomes(LinksSeen(Now, links'), {})

\* Without nwamd, or an active NCP, there are no items.
Disconnected ==
    /\ tracked /\ tracked' = FALSE
    /\ Becomes(MovedToCache(Now), live)
    /\ UNCHANGED <<links, live, strong, joined>>

\* Mutant of Recreated: the section is not emptied.
RecreatedTwice(order, l) ==
    LET shown == [Updated(Now, l) EXCEPT !.menu = ShownIf(@, {"wireless"}, count > 0)]
    IN  LinksSeen(FoldLeft(LAMBDA t, n : Created(t, n, strong), shown, order), l)

\* With an NCP again, there are items for the networks it kept, made in the
\* order of a hash table.
Recreated(order, l) ==
    LET clean == MovedToCache(Updated(Now, l))
        shown == [clean EXCEPT !.menu = ShownIf(@, {"wireless"}, clean.count > 0)]
    IN  LinksSeen(FoldLeft(LAMBDA t, n : Created(t, n, strong), shown, order), l)

Connected ==
    /\ ~tracked /\ tracked' = TRUE
    /\ links' \in BOOLEAN
    /\ IF links /\ links' THEN UNCHANGED <<live, strong, joined>>
       ELSE live' = {} /\ strong' = {} /\ joined' = {}
    /\ \E order \in SetToSeqs(live') : Becomes(Recreated(order, links'), live')

Next ==
    \/ Find \/ Lose \/ SignalChanges \/ StatusChanges \/ Click
    \/ LinksChange \/ Disconnected \/ Connected

Spec == Init /\ [][Next]_vars

-----------------------------------------------------------------------------
\* Whatever is found, lost, put away and used again, the section has one item
\* for each network and for nothing else, counts them, and leaves the other
\* widgets in their places; the separator above the networks shows exactly
\* while there are some, no item is hidden, and with an NCP the controls show
\* exactly while there is a wireless NCU.
Networks == [k \in 1 .. Len(Section(menu)) |-> Section(menu)[k].id]
SectionMatchesNetworks ==
    /\ [k \in DOMAIN menu |-> menu[k].kind]
         = [k \in DOMAIN menu |-> WithSection(Root, Section(menu))[k].kind]
    /\ ToSet(Networks) \subseteq live /\ (tracked => live \subseteq ToSet(Networks))
    /\ IsInjective(Networks) /\ count = Len(Networks)
    /\ \A k \in DOMAIN menu :
          /\ menu[k].kind = "wireless" => menu[k].shown = (Networks # <<>>)
          /\ menu[k].kind = "item" => menu[k].shown
          /\ menu[k].kind \in Controls /\ tracked => menu[k].shown = links

\* "wait for wifi_net_notify to update self" (nwam-wifi-item.c:225): an item of
\* the menu shows whether its network is connected.  It does not, when another
\* item that had the network before was given another one.
ItemsShowStatus ==
    \A k \in DOMAIN menu : menu[k].kind = "item" => menu[k].tick = (menu[k].id \in joined)
===============================================================================
