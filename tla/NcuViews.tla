------------------------------- MODULE NcuViews -------------------------------
(* How an NCU tells that it is connected, and the two views nwam-manager has *)
(* of it: a line of the tooltip (src/daemon/nwam-tooltip-widget.c) and an    *)
(* item of the menu (src/daemon/nwam-ncu-item.c).  The state of the          *)
(* connection is worked out of the states of the interface and of the link,  *)
(* which are read when somebody asks first and may not be readable yet; the  *)
(* views are told of changes, and are handed from one NCU to another when    *)
(* the NCP changes (src/daemon/nwam-menuitem.c).                             *)
(* Writing a line asks for the icon of the NCU, and that may work out the    *)
(* state the text has just been made of: `early' marks such a line, whose    *)
(* text says "Unknown" until the next change.  The names, the network and    *)
(* the strength in a text, and the tick of an item, are left out; the        *)
(* section of the items is in StatusIcon.                                    *)
EXTENDS Naturals, SequencesExt

CONSTANTS
    Ncps,       \* the NCPs
    NcuNames,   \* the NCUs there may be
    NcpOf,      \* [NcuNames -> Ncps]
    Wireless,   \* those that are wireless; the others are wired
    IfaceOf,    \* bound: the states an interface may be in
    LinkOf,     \* bound: the states a link may be in
    ModesOf,    \* bound: how an NCU may be activated
    None

\* The states of an interface by what is made of them: "stopping" is
\* online-to-offline, "down" offline or disabled because the link is down or a
\* condition not met, "off" so for another reason, "waiting", "timedout" and
\* "starting" are offline-to-online, and "up" and "online" online.
Ifaces == {"unread", "duplicate", "degraded", "stopping", "down", "off",
           "waiting", "timedout", "starting", "up", "online"}
\* The states of a link, of which only those of a wireless one matter.
LinkStates == {"unread", "scanning", "selection", "key", "connecting", "other"}
\* The states of the connection.
Conns == {"unknown", "duplicate address", "unavailable", "unplugged", "scanning",
          "needs selection", "needs key", "waiting for address", "timed out", "connecting",
          "connecting to network", "connected", "connected to network"}

ViewsAssumption ==
    /\ NcpOf \in [NcuNames -> Ncps] /\ Wireless \subseteq NcuNames
    /\ IfaceOf \in [NcuNames -> SUBSET Ifaces] /\ LinkOf \in [NcuNames -> SUBSET LinkStates]
    /\ ModesOf \in [NcuNames -> SUBSET {"manual", "prioritized"}]
    /\ \A n \in NcuNames : "unread" \in IfaceOf[n] /\ "unread" \in LinkOf[n]
    /\ None \notin Ncps \cup NcuNames \cup Conns

VARIABLES
    lists,      \* the NCUs of each NCP, in the order they were added
    obj,        \* the objects of the NCUs: what was read and what was made of it
    shownNcp,   \* the NCP the icon shows, or None
    lines,      \* the lines of the tooltip for NCUs
    sensitive   \* whether each item of the menu can be used

vars == <<lists, obj, shownNcp, lines, sensitive>>

New(mode) == [iface |-> "unread", link |-> "unread", conn |-> "unknown", mode |-> mode]

\* Whether the item of an NCU can be used; the rest is activated by its priority.
Usable(r) == r.mode = "manual"

-----------------------------------------------------------------------------
\* What a wireless link makes of an interface that is not online.
OfLink(l, otherwise) ==
    IF l = "scanning" THEN "scanning"
    ELSE IF l = "selection" THEN "needs selection"
    ELSE IF l = "key" THEN "needs key"
    ELSE IF l = "connecting" THEN "connecting to network" ELSE otherwise

\* What a wired interface that is not online makes of the state before.
OfCable(i, before) ==
    IF i = "off" THEN before
    ELSE IF before = "connected" THEN "unplugged" ELSE "unavailable"

OfStart(i) ==
    IF i = "waiting" THEN "waiting for address"
    ELSE IF i = "timedout" THEN "timed out" ELSE "connecting"

\* The state of the connection for what was read of the NCU; in some states of
\* the interface it stays what it was.
Conn(n, r) ==
    LET wireless == n \in Wireless
    IN  CASE r.iface = "unread"                              -> "unknown"
          [] r.iface = "duplicate"                           -> "duplicate address"
          [] r.iface = "degraded"                            -> "unavailable"
          [] r.iface \in {"down", "off"} /\ wireless         -> OfLink(r.link, "unavailable")
          [] r.iface \in {"down", "off"} /\ ~wireless        -> OfCable(r.iface, r.conn)
          [] r.iface \in {"waiting", "timedout", "starting"} ->
                 IF wireless THEN OfLink(r.link, OfStart(r.iface)) ELSE OfStart(r.iface)
          [] r.iface = "up" /\ wireless                      -> "connected to network"
          [] r.iface = "up" /\ ~wireless                     -> "connected"
          [] r.iface \in {"stopping", "online"}              -> r.conn

\* What was not read yet is read; it may still not be readable.
IfaceRead(n, r) == {[r EXCEPT !.iface = i] : i \in IF r.iface = "unread" THEN IfaceOf[n] ELSE {r.iface}}
LinkRead(n, r)  == {[r EXCEPT !.link = l] : l \in IF r.link = "unread" THEN LinkOf[n] ELSE {r.link}}
Read(n, r)      == UNION {LinkRead(n, q) : q \in IfaceRead(n, r)}

\* Whether the NCU counts as active; `first' is whether it is chosen by hand
\* or of the priority group in use.
Active(r, first) == r.iface \in {"up", "online", "waiting"} \/ (first /\ r.link = "key")

\* The state of the connection is worked out, only if it is unknown.
Known(n, r) == IF r.conn = "unknown" THEN [r EXCEPT !.conn = Conn(n, r)] ELSE r
Learnt(n, r) == IF r.conn = "unknown" THEN {Known(n, q) : q \in Read(n, r)} ELSE {r}

\* The icon for the NCU is chosen; the priority group of the NCP is not followed.
IconChosen(n, r) ==
    UNION {IF Active(q, first) THEN Learnt(n, q) ELSE {q} : q \in Read(n, r), first \in BOOLEAN}

\* A line is written: its text is made first, its icon then.
Written(n, r) == {[rec |-> q, text |-> r.conn, early |-> q.conn # r.conn] : q \in IconChosen(n, r)}
Unwritten(r)  == [rec |-> r, text |-> None, early |-> FALSE]

\* An item or a line gets an NCU: connecting writes it, and so does syncing.
Bound(n) == UNION {Written(n, v.rec) : v \in Written(n, obj[n])}

-----------------------------------------------------------------------------
\* What the NCU tells when its state was worked out anew.
Told(n, before, r) == IF r.conn = before THEN {Unwritten(r)} ELSE Written(n, r)

\* The icon hears of a new state of an NCU of its NCP: a message may be shown,
\* for which the state of the connection is asked for.
Noticed(n, v) ==
    IF v.rec.conn # "unknown" THEN {[v EXCEPT !.rec = q] : q \in Read(n, v.rec)}
    ELSE UNION {IF q.conn = v.rec.conn THEN {[v EXCEPT !.rec = q]} ELSE Written(n, q)
                : q \in Learnt(n, v.rec)}

\* The lines that listen to the NCU are written again.
Rewritten(n, v) ==
    [k \in DOMAIN lines |->
        IF n \in lines[k].heard /\ v.text # None
        THEN [lines[k] EXCEPT !.text = v.text, !.early = v.early] ELSE lines[k]]

Listed(n) == \E k \in DOMAIN lists[NcpOf[n]] : lists[NcpOf[n]][k] = n

\* An event of nwamd set the NCU's states to those of r.
Reported(n, r, changed) ==
    /\ \E v \in Told(n, r.conn, [r EXCEPT !.conn = Conn(n, r)]) :
           \E w \in (IF changed /\ NcpOf[n] = shownNcp THEN Noticed(n, v) ELSE {v}) :
               /\ obj' = [obj EXCEPT ![n] = w.rec]
               /\ lines' = Rewritten(n, w)
    /\ UNCHANGED <<lists, shownNcp, sensitive>>

\* nwamd tells of the interface.
InterfaceEvent(n) ==
    /\ Listed(n)
    /\ \E i \in IfaceOf[n] : Reported(n, [obj[n] EXCEPT !.iface = i], i # obj[n].iface)

\* nwamd tells of the link; the interface is read if it was not.
LinkEvent(n) ==
    /\ Listed(n)
    /\ \E l \in LinkOf[n] : \E r \in IfaceRead(n, [obj[n] EXCEPT !.link = l]) :
           Reported(n, r, l # obj[n].link)

\* The network of a wireless NCU changes, of which its line tells.
WifiInfo(n) ==
    /\ Listed(n) /\ n \in Wireless
    /\ \E k \in DOMAIN lines : n \in lines[k].heard
    /\ \E v \in Written(n, obj[n]) : obj' = [obj EXCEPT ![n] = v.rec] /\ lines' = Rewritten(n, v)
    /\ UNCHANGED <<lists, shownNcp, sensitive>>

\* Somebody else asks for the states of the NCU.
Query(n) ==
    /\ Listed(n)
    /\ \E r \in Read(n, obj[n]) : obj' = [obj EXCEPT ![n] = r]
    /\ UNCHANGED <<lists, shownNcp, lines, sensitive>>

\* The item of an NCU, if it has one, is told how the NCU is activated.
ItemTold(n, r) == [m \in DOMAIN sensitive |-> IF m = n THEN Usable(r) ELSE sensitive[m]]

\* An NCU gets an item, which is synchronised with it.
WithItem(n, r) ==
    [m \in DOMAIN sensitive \cup {n} |-> IF m = n THEN Usable(r) ELSE sensitive[m]]

\* The NCU is reloaded.
Reload(n) ==
    /\ Listed(n)
    /\ \E mode \in ModesOf[n] :
           /\ obj' = [obj EXCEPT ![n].mode = mode]
           /\ sensitive' = ItemTold(n, [obj[n] EXCEPT !.mode = mode])
    /\ UNCHANGED <<lists, shownNcp, lines>>

-----------------------------------------------------------------------------
Line(n, v) == [of |-> n, heard |-> {n}, text |-> v.text, early |-> v.early]

\* Mutant of LineReused: a line still listens to the NCU it had.
LineStillConnected(line, n, v) == [Line(n, v) EXCEPT !.heard = line.heard \cup {n}]

\* A line that is used again listens to its new NCU only.
LineReused(line, n, v) == Line(n, v)

\* An NCU appears in an NCP; in the one shown it gets an item and a line.
AddNcu(n) ==
    /\ ~Listed(n)
    /\ lists' = [lists EXCEPT ![NcpOf[n]] = Append(@, n)]
    /\ \E mode \in ModesOf[n] :
           IF NcpOf[n] = shownNcp
           THEN \E w \in Written(n, New(mode)) : \E v \in Written(n, w.rec) :
                    /\ obj' = [obj EXCEPT ![n] = v.rec]
                    /\ lines' = Append(lines, Line(n, v))
                    /\ sensitive' = WithItem(n, v.rec)
           ELSE obj' = [obj EXCEPT ![n] = New(mode)] /\ UNCHANGED <<lines, sensitive>>
    /\ UNCHANGED shownNcp

\* An NCU vanishes.  A line that still has it keeps the object, which is told
\* nothing any more; another object may get its name.
RemoveNcu(n) ==
    /\ Listed(n)
    /\ lists' = [lists EXCEPT ![NcpOf[n]] = RemoveAt(@, CHOOSE k \in DOMAIN @ : @[k] = n)]
    /\ IF NcpOf[n] = shownNcp
       THEN /\ lines' = RemoveAt(lines, CHOOSE k \in DOMAIN lines : lines[k].of = n)
            /\ sensitive' = [m \in DOMAIN sensitive \ {n} |-> sensitive[m]]
       ELSE /\ lines' = [k \in DOMAIN lines |->
                            IF lines[k].of = n THEN [lines[k] EXCEPT !.of = None, !.heard = {}]
                            ELSE lines[k]]
            /\ UNCHANGED sensitive
    /\ obj' = [obj EXCEPT ![n] = New("manual")]
    /\ UNCHANGED shownNcp

\* Another NCP is active: its NCUs take over the lines there are, those that
\* are missing are made and those left over are dropped.
Shows(p) ==
    LET now  == lists[p]
        kept == {k \in DOMAIN now \cap DOMAIN lines : lines[k].of = now[k]}
        new  == DOMAIN now \ kept
    IN  \E v \in [new -> UNION {Bound(now[k]) : k \in new}] :
            /\ \A k \in new : v[k] \in Bound(now[k])
            /\ obj' = [n \in NcuNames |->
                          IF \E k \in new : now[k] = n
                          THEN v[CHOOSE k \in new : now[k] = n].rec ELSE obj[n]]
            /\ lines' = [k \in DOMAIN now |->
                            IF k \in kept THEN lines[k]
                            ELSE IF k \in DOMAIN lines THEN LineReused(lines[k], now[k], v[k])
                                 ELSE Line(now[k], v[k])]

ShowNcp(p) ==
    /\ p # shownNcp
    /\ shownNcp' = p
    /\ Shows(p)
    /\ sensitive' = [n \in {lists[p][k] : k \in DOMAIN lists[p]} |-> Usable(obj[n])]
    /\ UNCHANGED lists

\* nwamd fails: the items go, the lines stay and still listen.
ShowNone ==
    /\ shownNcp # None
    /\ shownNcp' = None
    /\ sensitive' = [n \in {} |-> TRUE]
    /\ UNCHANGED <<lists, obj, lines>>

-----------------------------------------------------------------------------
Init ==
    /\ lists = [p \in Ncps |-> <<>>]
    /\ obj = [n \in NcuNames |-> New("manual")]
    /\ shownNcp = None
    /\ lines = <<>>
    /\ sensitive = [n \in {} |-> TRUE]

Next ==
    \/ \E n \in NcuNames :
           \/ InterfaceEvent(n) \/ LinkEvent(n) \/ WifiInfo(n) \/ Query(n) \/ Reload(n)
           \/ AddNcu(n) \/ RemoveNcu(n)
    \/ \E p \in Ncps : ShowNcp(p)
    \/ ShowNone

Spec == Init /\ [][Next]_vars

-----------------------------------------------------------------------------
\* While an NCP is shown, the tooltip has one line for each of its NCUs, which
\* says the state its object was last worked out to be in unless it was written
\* too early, and exactly the items of NCUs activated by hand can be used
\* (nwam-tooltip-widget.c, nwam-ncu-item.c, status_icon.c, nwam-menuitem.c).
ViewsFollow ==
    shownNcp # None =>
        LET shown == {lists[shownNcp][k] : k \in DOMAIN lists[shownNcp]}
        IN  /\ {lines[k].of : k \in DOMAIN lines} = shown
            /\ Len(lines) = Len(lists[shownNcp])
            /\ \A k \in DOMAIN lines : lines[k].early \/ lines[k].text = obj[lines[k].of].conn
            /\ DOMAIN sensitive = shown
            /\ \A n \in shown : sensitive[n] = (obj[n].mode = "manual")

===============================================================================
