------------------------------ MODULE ModeItems ------------------------------
(* The items of the menu for network modifiers (src/daemon/nwam-enm-item.c)  *)
(* and for locations (src/daemon/nwam-env-item.c), and the switch between    *)
(* choosing the location by hand and leaving it to nwamd                     *)
(* (src/daemon/status_icon.c).  An object caches the state nwamd told or was *)
(* asked for (src/common/nwamui_object.c) and tells its items of changes;    *)
(* items that are put away keep their object, listen on, and are used again  *)
(* for another one.  Names, icons and notifications are left out.            *)
EXTENDS Naturals, Sequences, FiniteSets

CONSTANTS
    Enms,       \* the network modifiers there may be
    Envs,       \* the locations there may be
    None

ModeItemsAssumption ==
    /\ Enms \cap Envs = {} /\ IsFiniteSet(Envs)
    /\ None \notin Enms \cup Envs /\ None \notin (Enms \cup Envs) \X BOOLEAN

Objects == Enms \cup Envs
Kinds == {"enm", "env"}
KindOf(o) == IF o \in Enms THEN "enm" ELSE "env"

VARIABLES
    listed,     \* the objects nwamd has, those of a kind in order
    obj,        \* of each object: its state as cached, and whether it is
                \* activated by hand (network modifier) or enabled (location)
    activeEnv,  \* the location told to be active last, or None
    menu,       \* the objects that have an item, with their items
    cache,      \* the items of each kind that were put away
    byHand,     \* which entry of the switch is ticked
    good,       \* whether nwamd runs
    asked       \* what a click on a network modifier just asked nwamd for, or None

vars == <<listed, obj, activeEnv, menu, cache, byHand, good, asked>>

States == {"unread", "active", "other"}
New == [state |-> "unread", byHand |-> FALSE]

Active(o) == o.state = "active"

\* The state is read if it was not; it may still not be readable.
Read(o) == {[o EXCEPT !.state = s] : s \in IF o.state = "unread" THEN States ELSE {o.state}}

\* A list without the object, which it has once.
Without(l, o) ==
    LET i == CHOOSE n \in DOMAIN l : l[n] = o
    IN  SubSeq(l, 1, i - 1) \o SubSeq(l, i + 1, Len(l))

\* Choosing is by hand if some location is enabled.
SelectionIsManual(l, os) == \E k \in DOMAIN l["env"] : os[l["env"][k]].byHand

-----------------------------------------------------------------------------
\* An item: its object, or None once that is gone; whether it says the object
\* is active; whether it can be used; and, for the property, whether the state
\* could not be read when it was written or the user clicked it since, and
\* whether it came into the menu since the switch was last set.
Item(o, of, usable) ==
    [of |-> o, on |-> Active(of), usable |-> usable,
     unsure |-> of.state = "unread", fresh |-> TRUE]

\* An item is told that its object is active or not any more.
Told(i, of) == [i EXCEPT !.on = Active(of), !.unsure = of.state = "unread"]

\* An item is made for an object, whose state was just read.
Made(o, of) == Item(o, of, IF o \in Enms THEN of.byHand ELSE SelectionIsManual(listed, obj))

\* An item is used again: for its own object nothing happens, for another one
\* it is written anew, but a location's item stays usable or not.
Reused(i, o, of) ==
    IF i.of = o THEN [i EXCEPT !.fresh = TRUE]
    ELSE [Told(i, of) EXCEPT !.of = o, !.fresh = TRUE,
                             !.usable = IF o \in Enms THEN of.byHand ELSE @]

\* The items in the menu and those put away that have the object, told of it.
MenuTold(m, o, of)  == [x \in DOMAIN m |-> IF m[x].of = o THEN Told(m[x], of) ELSE m[x]]
CacheTold(c, o, of) == [k \in Kinds |-> [n \in DOMAIN c[k] |-> IF c[k][n].of = o THEN Told(c[k][n], of) ELSE c[k][n]]]

WithItem(m, o, i) == [x \in DOMAIN m \cup {o} |-> IF x = o THEN i ELSE m[x]]

-----------------------------------------------------------------------------
\* An object appears; an item put away is used for it, or one is made.
AddObject(o) ==
    LET k == KindOf(o)
    IN  /\ good /\ \A n \in DOMAIN listed[k] : listed[k][n] # o
        /\ listed' = [listed EXCEPT ![k] = Append(@, o)]
        /\ \E h \in BOOLEAN : \E of \in Read([New EXCEPT !.byHand = h]) :
               /\ obj' = [obj EXCEPT ![o] = of]
               /\ menu' = WithItem(menu, o, IF cache[k] = <<>> THEN Made(o, of)
                                            ELSE Reused(Head(cache[k]), o, of))
        /\ cache' = IF cache[k] = <<>> THEN cache ELSE [cache EXCEPT ![k] = Tail(@)]
        /\ asked' = None
        /\ UNCHANGED <<activeEnv, byHand, good>>

\* An object vanishes; its item is put away and keeps it, unheard of.
RemoveObject(o) ==
    LET k == KindOf(o)
        gone(i) == IF i.of = o THEN [i EXCEPT !.of = None] ELSE i
    IN  /\ good /\ \E n \in DOMAIN listed[k] : listed[k][n] = o
        /\ listed' = [listed EXCEPT ![k] = Without(@, o)]
        /\ obj' = [obj EXCEPT ![o] = New]
        /\ activeEnv' = IF activeEnv = o THEN None ELSE activeEnv
        /\ menu' = [x \in DOMAIN menu \ {o} |-> menu[x]]
        /\ cache' = [cache EXCEPT ![k] =
                        (IF o \in DOMAIN menu THEN <<gone(menu[o])>> ELSE <<>>)
                        \o [n \in DOMAIN @ |-> gone(@[n])]]
        /\ asked' = None
        /\ UNCHANGED <<byHand, good>>

\* Whether the object tells of the state nwamd told.
StateChanged(o, s) == obj[o].state # s

\* The items of locations in some order, before those put away.
Orders(S) ==
    {f \in [1 .. Cardinality(S) -> S] : \A x, y \in DOMAIN f : f[x] = f[y] => x = y}
EnvItems(m, c) ==
    {[n \in DOMAIN f |-> m[f[n]]] \o c["env"] : f \in Orders(DOMAIN m \cap Envs)}

\* The items of locations are put away and made anew, in the order of the list.
Recreated(s, os) ==
    LET l == listed["env"]
    IN  [items |-> [o \in {l[n] : n \in DOMAIN l} |->
                       LET n == CHOOSE n \in DOMAIN l : l[n] = o
                       IN  IF n \in DOMAIN s THEN Reused(s[n], o, os[o]) ELSE Made(o, os[o])],
         rest  |-> SubSeq(s, Len(l) + 1, Len(s))]

\* The switch is set, and with it the items of the section.
SectionSet(m, hand) ==
    [x \in DOMAIN m |-> IF x \in Envs THEN [m[x] EXCEPT !.usable = hand, !.fresh = FALSE] ELSE m[x]]

\* nwamd tells the state of an object.
StateEvent(o) ==
    /\ good /\ \E n \in DOMAIN listed[KindOf(o)] : listed[KindOf(o)][n] = o
    /\ \E s \in States \ {"unread"} :
           LET of   == [obj[o] EXCEPT !.state = s]
               os   == [obj EXCEPT ![o] = of]
               told == StateChanged(o, s)
               m    == IF told THEN MenuTold(menu, o, of) ELSE menu
               c    == IF told THEN CacheTold(cache, o, of) ELSE cache
               hand == SelectionIsManual(listed, os)
           IN  IF o \in Envs /\ s = "active"
               THEN /\ activeEnv' = o
                    /\ byHand' = hand
                    /\ IF o = activeEnv
                       THEN obj' = os /\ menu' = SectionSet(m, hand) /\ cache' = c
                       ELSE \E f \in [Envs -> States] :
                            LET read == [x \in Objects |-> IF x \in Envs THEN [os[x] EXCEPT !.state = f[x]] ELSE os[x]] IN
                            /\ \A x \in Envs : read[x] \in Read(os[x])
                            /\ \E q \in EnvItems(m, c) :
                               LET r == Recreated(q, read)
                               IN  /\ obj' = read
                                   /\ menu' = SectionSet([x \in (DOMAIN m \cap Enms) \cup DOMAIN r.items |->
                                                             IF x \in Enms THEN m[x] ELSE r.items[x]], hand)
                                   /\ cache' = [c EXCEPT !["env"] = r.rest]
               ELSE obj' = os /\ menu' = m /\ cache' = c /\ UNCHANGED <<activeEnv, byHand>>
    /\ asked' = None
    /\ UNCHANGED <<listed, good>>

\* Somebody else asks for the state of an object.
Query(o) ==
    /\ \E n \in DOMAIN listed[KindOf(o)] : listed[KindOf(o)][n] = o
    /\ \E of \in Read(obj[o]) : obj' = [obj EXCEPT ![o] = of]
    /\ asked' = None
    /\ UNCHANGED <<listed, activeEnv, menu, cache, byHand, good>>

\* An object is reloaded.  A network modifier tells its items how it is
\* activated; that a location is enabled is told by nobody.
Reload(o, h) ==
    LET now(i) == IF i.of = o /\ o \in Enms THEN [i EXCEPT !.usable = h] ELSE i
    IN  /\ good /\ \E n \in DOMAIN listed[KindOf(o)] : listed[KindOf(o)][n] = o
        /\ obj' = [obj EXCEPT ![o].byHand = h]
        /\ menu' = [x \in DOMAIN menu |-> now(menu[x])]
        /\ cache' = [k \in Kinds |-> [n \in DOMAIN cache[k] |-> now(cache[k][n])]]
        /\ asked' = None
        /\ UNCHANGED <<listed, activeEnv, byHand, good>>

\* nwamd fails: the items of locations are put away.
Fails ==
    /\ good /\ good' = FALSE
    /\ \E q \in EnvItems(menu, cache) : cache' = [cache EXCEPT !["env"] = q]
    /\ menu' = [x \in DOMAIN menu \cap Enms |-> menu[x]]
    /\ asked' = None
    /\ UNCHANGED <<listed, obj, activeEnv, byHand>>

\* It runs again; the items come back when a location becomes active.
Returns ==
    /\ ~good /\ good' = TRUE /\ asked' = None
    /\ UNCHANGED <<listed, obj, activeEnv, menu, cache, byHand>>

-----------------------------------------------------------------------------
\* The user clicks a network modifier: nwamd is asked to stop or to start it.
ClickEnm(o) ==
    /\ good /\ o \in DOMAIN menu /\ menu[o].usable
    /\ \E of \in Read(obj[o]) :
           /\ obj' = [obj EXCEPT ![o] = of]
           /\ asked' = <<o, ~Active(of)>>
    /\ UNCHANGED <<listed, activeEnv, menu, cache, byHand, good>>

\* The user clicks a location: the tick stays with the active one until nwamd,
\* which is asked to enable it, has changed it.
ClickEnv(o) ==
    /\ good /\ o \in DOMAIN menu /\ menu[o].usable
    /\ menu' = [menu EXCEPT ![o].on = (o = activeEnv), ![o].unsure = TRUE]
    /\ asked' = None
    /\ UNCHANGED <<listed, obj, activeEnv, cache, byHand, good>>

\* The user chooses by hand, or leaves the choice to nwamd, which is asked to
\* disable the active location.
ClickSwitch(hand) ==
    /\ good
    /\ byHand' = hand
    /\ menu' = SectionSet(menu, hand)
    /\ asked' = None
    /\ UNCHANGED <<listed, obj, activeEnv, cache, good>>

-----------------------------------------------------------------------------
Init ==
    /\ listed = [k \in Kinds |-> <<>>]
    /\ obj = [o \in Objects |-> New]
    /\ activeEnv = None
    /\ menu = [o \in {} |-> None]
    /\ cache = [k \in Kinds |-> <<>>]
    /\ byHand = FALSE
    /\ good = TRUE
    /\ asked = None

Next ==
    \/ \E o \in Objects : AddObject(o) \/ RemoveObject(o) \/ StateEvent(o) \/ Query(o)
    \/ \E o \in Objects, h \in BOOLEAN : Reload(o, h)
    \/ \E o \in Enms : ClickEnm(o)
    \/ \E o \in Envs : ClickEnv(o)
    \/ \E h \in BOOLEAN : ClickSwitch(h)
    \/ Fails \/ Returns

Spec == Init /\ [][Next]_vars

-----------------------------------------------------------------------------
\* An item is that of its object.  Unless its state was unreadable then, or it
\* was clicked, it says whether the object is active as nwamd told last; a
\* network modifier can be clicked exactly if it is activated by hand, and the
\* click asks for what its label says; a location can be clicked exactly if the
\* switch says so, once the switch was set with the item in the menu
\* (on_nwam_enm_notify, on_nwam_env_notify, nwamui_object_set_nwam_state,
\* nwam_menu_item_set_proxy, daemon_switch_loc_manually_changed).
ItemsTell ==
    \A o \in DOMAIN menu :
        LET i == menu[o]
        IN  /\ i.of = o
            /\ i.unsure \/ i.on = Active(obj[o])
            /\ o \in Enms => i.usable = obj[o].byHand
            /\ o \in Envs => i.fresh \/ i.usable = byHand
            /\ asked = <<o, i.on>> => i.unsure

===============================================================================
