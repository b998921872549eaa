---------------------------- MODULE ProfileDialog ----------------------------
(* The dialog that edits one network profile (nwam_profile_dialog.c): the     *)
(* tree of its connections, by priority group, with the NCU objects           *)
(* (nwamui_ncu.c) in the list of the NwamuiNcp (nwamui_ncp.c) behind it, and  *)
(* the events of nwamd that change the list under the open dialog.            *)
(*                                                                            *)
(* Where a connection belongs is one number, the code's "priority group for   *)
(* view": On for a manual connection that is enabled, Off for a manual one    *)
(* that is not, and priority group + 1 for a prioritized one.  A group of the *)
(* tree has an identifier of the same kind; on saving it becomes the priority *)
(* group of its members as it is, so that the stored number of a group is not *)
(* its number in the tree.                                                    *)
(*                                                                            *)
(* Of the two units of a connection, link and IP, only the link's says where  *)
(* the connection belongs: "handle" is the link's, and of the IP unit all     *)
(* that matters here is that its commit, which comes second, may fail.        *)
(*                                                                            *)
(* A drop of a group on itself (the code never comes back), a selection that  *)
(* holds a group and one of its own rows, and a connection without IPv4 and   *)
(* IPv6 are left out.                                                         *)
EXTENDS Naturals, Sequences, FiniteSets, SequencesExt, FiniteSetsExt

CONSTANTS
    Ncus,       \* devices: numbers, in the order of their names
    Modes,      \* priority group modes; 0 is NWAMUI_COND_PRIORITY_GROUP_MODE_EXCLUSIVE
    Off,        \* ALWAYS_OFF_GROUP_ID
    None,       \* no object, nothing stored, no history
    Automatic,  \* Automatic[n]: the entry of n in the automatic profile
    Samples,    \* what the administrator stores
    Stores,     \* what may be stored at first
    MaxEdits,   \* bound on the user's actions that change the tree or the store
    MaxAdmin,   \* bound on what happens elsewhere: changes of the administrator,
                \* reads that fail and refused calls to enable or disable
    MaxQueue    \* bound on the undelivered events of nwamd

ASSUME NcusAssumption == Ncus \subseteq Nat /\ IsFiniteSet(Ncus)
ASSUME OffAssumption == Off \in Nat /\ Off > 2 * Cardinality(Ncus) + 3
ASSUME ModesAssumption == 0 \in Modes

VARIABLES
    store,      \* nwamd: the entries of the profile
    queue,      \* ADD and REMOVE events of nwamd not handled yet
    nwam_ncp,   \* whether the NwamuiNcp has its handle
    objs,       \* ncu_list: for each device its NwamuiNcu, or None
    groups,     \* the rows at the first level of the tree, with their children
    fakes,      \* the static groups that hold the placeholder row
    open,       \* selected_ncp is set
    conn,       \* ncu_list of the open "edit connections" dialog, or None
    edits, admins,
    touched,    \* history: the tree or an object changed since the tree was built
    meant       \* history: for each connection the static group it was last put
                \* into, or 1 for another group; None once rows went astray

nwamd == <<store, queue>>
tree  == <<groups, fakes>>
hist  == <<touched, meant>>
vars  == <<store, queue, nwam_ncp, objs, groups, fakes, open, conn, edits, admins, touched, meant>>

-----------------------------------------------------------------------------
On == 0
Static == {On, Off}

\* Where a connection is, and the mode of its group.
Entry == [at : Nat, mode : Modes]

\* A NwamuiNcu: what its handles and "enabled" say, the modified flags, and
\* whether there is a handle: there is none after nwamui_object_destroy() and
\* after a read that failed.
Ncu == [at : Nat, mode : Modes, mod : BOOLEAN, handle : BOOLEAN]

Kind(id) == IF id \in Static THEN id ELSE 1

\* A call to libnwam fails, or the administrator acts.
Trouble == admins < MaxAdmin /\ admins' = admins + 1

Listed == {n \in Ncus : objs[n] # None}
Event  == [act : {"ADD", "REMOVE"}, ncu : Ncus]
Room(k) == Len(queue) + k <= MaxQueue

\* A row is a connection and whether its object is still in the NCP's list.
Live(n) == <<n, TRUE>>
Gone(n) == <<n, FALSE>>

\* The tree as one value.
Tree == [g |-> groups, f |-> fakes]
SetTree(t) == groups' = t.g /\ fakes' = t.f

Holds(t, r)   == {i \in DOMAIN t.g : r \in t.g[i].kids}
WhereIs(t, id)  == {i \in DOMAIN t.g : t.g[i].id = id}
IndexOf(t, id)  == CHOOSE i \in DOMAIN t.g : t.g[i].id = id
RowsOf(t)     == UNION {t.g[i].kids : i \in DOMAIN t.g}

-----------------------------------------------------------------------------
(* The tree's own operations.                                                 *)

\* The groups between the static ones are numbered from 1.
Collapse(t) ==
    LET Number(i) == IF t.g[i].id \in Static THEN t.g[i].id ELSE i - 1
    IN  [t EXCEPT !.g = [i \in DOMAIN t.g |-> [t.g[i] EXCEPT !.id = Number(i)]]]

\* The tree with the children K(j, k) in group j for its children k.
WithKids(t, K(_, _)) ==
    [t EXCEPT !.g = [j \in DOMAIN t.g |-> [t.g[j] EXCEPT !.kids = K(j, t.g[j].kids)]]]

\* The group of a number, made in its place when there is none.
WithGroup(t, id, mode) ==
    IF WhereIs(t, id) # {} THEN t
    ELSE LET before == Cardinality({i \in DOMAIN t.g : t.g[i].id < id})
         IN  [t EXCEPT !.g = InsertAt(@, before + 1, [id |-> id, mode |-> mode, kids |-> {}])]

NoFake(t, id) == [t EXCEPT !.f = @ \ {id}]

\* A static group without rows gets the placeholder, another one disappears.
HandleGroup(t, i) ==
    IF t.g[i].kids # {} THEN t
    ELSE IF t.g[i].id \in Static THEN [t EXCEPT !.f = @ \cup {t.g[i].id}]
         ELSE Collapse([t EXCEPT !.g = RemoveAt(@, i)])

\* Mutant of MoveRows: the emptied group goes before its rows arrive.
MoveRowsLate(t, i, kids, p) ==
    LET Less(j, k) == IF j = i THEN k \ kids ELSE k
        More(j, k) == IF j = p THEN k \cup kids ELSE k
    IN  WithKids(HandleGroup(WithKids(t, Less), i), More)

\* Rows move from group i to the p-th group, a position computed earlier: rows
\* moved past the last group are deleted.
MoveRows(t, i, kids, p) ==
    LET Moved(j, k) == (IF j = i THEN k \ kids ELSE k) \cup (IF j = p THEN kids ELSE {})
    IN  HandleGroup(WithKids(t, Moved), i)

\* The selected rows, last first: each is [at |-> its group, kids |-> what moves].
MoveAll(t, items, p) ==
    FoldLeft(LAMBDA u, it : MoveRows(u, it.at, it.kids, p), t, items)

\* A group before the p-th disappears while there are rows left to move.
Astray(t, items, p) ==
    LET Groups(k) == Len(MoveAll(t, SubSeq(items, 1, k), p).g)
    IN  \E k \in 1..Len(items) - 1 : items[k].at < p /\ Groups(k) < Groups(k - 1)

\* The user moves items of the tree t to its p-th group.
Move(t, items, p) ==
    /\ SetTree(MoveAll(t, items, p))
    /\ LET moved == UNION {items[k].kids : k \in DOMAIN items}
       IN  meant' = IF meant = None \/ Astray(t, items, p) THEN None
                    ELSE [n \in Ncus |-> IF Live(n) \in moved THEN Kind(t.g[p].id) ELSE meant[n]]

\* ncu_pri_treeview_add()
AddRow(t, n, e) ==
    LET u == WithGroup(t, e.at, e.mode)
        More(j, k) == IF j = IndexOf(u, e.at) THEN k \cup {Live(n)} ELSE k
    IN  NoFake(WithKids(u, More), e.at)

\* ncu_pri_treeview_remove(): the row is looked for in the group the object
\* says; elsewhere it stays, without its object.
RemoveRow(t, n, at) ==
    LET u == WithGroup(t, at, 0)
        i == IndexOf(u, at)
        Less(j, k) == IF j = i THEN k \ {Live(n)} ELSE k
        Dead(j, k) == {IF r = Live(n) THEN Gone(n) ELSE r : r \in k}
    IN  WithKids(HandleGroup(WithKids(u, Less), i), Dead)

\* edit_profile_changed()
Build(o) ==
    LET ns   == SetToSortSeq({n \in Ncus : o[n] # None}, <)
        bare == FoldLeft(LAMBDA t, n : AddRow(t, n, o[n]), [g |-> <<>>, f |-> {}], ns)
        all  == WithGroup(WithGroup(bare, On, 0), Off, 0)
        none == {id \in Static : all.g[IndexOf(all, id)].kids = {}}
    IN  Collapse([all EXCEPT !.f = none])

-----------------------------------------------------------------------------
(* Objects.                                                                   *)

\* What an object shows when its handles are gone: manual, and "enabled".
Destroyed(o) == [o EXCEPT !.handle = FALSE, !.mode = 0, !.at = IF @ = Off THEN Off ELSE On]

Opened(e) == [at |-> e.at, mode |-> e.mode, mod |-> FALSE, handle |-> TRUE]

\* A read that failed leaves no handle, and with it nothing but defaults.
Unread == [at |-> Off, mode |-> 0, mod |-> FALSE, handle |-> FALSE]

\* nwamui_ncu: real_reload() of an object whose entry is e; read says that
\* nwam_ncu_read() did not fail for another reason than that there is none.
Reload(o, e, read) ==
    IF read /\ e # None THEN Opened(e)
    ELSE IF read /\ o.handle THEN [o EXCEPT !.mod = FALSE]
    ELSE Unread

\* Without a handle of the profile none of its NCUs can be read.
ReloadNcu(n) ==
    \E read \in BOOLEAN :
       /\ read => nwam_ncp
       /\ IF nwam_ncp /\ ~read THEN Trouble ELSE UNCHANGED admins
       /\ objs' = [objs EXCEPT ![n] = Reload(@, store[n], read)]
       /\ UNCHANGED nwam_ncp

\* Mutant of Walk: an NCU with edits is left alone.
WalkKeepsEdits(walked, failed, whole) ==
    [n \in Ncus |->
        IF n \in walked THEN IF objs[n] # None /\ objs[n].mod THEN objs[n]
                             ELSE IF n \in failed THEN Unread ELSE Opened(store[n])
        ELSE IF whole THEN None ELSE objs[n]]

\* The NCUs walked are reloaded, modified or not, or made; those in failed could
\* not be read.  Only a walk that succeeded drops the others.
Walk(walked, failed, whole) ==
    [n \in Ncus |->
        IF n \in walked THEN IF n \in failed THEN Unread ELSE Opened(store[n])
        ELSE IF whole THEN None ELSE objs[n]]

\* nwamui_ncp: real_reload().  A profile that cannot be read loses its handle and
\* is not walked; a walk that fails may have come to some NCUs, and of those that one
\* that does not fail comes to some may not be readable.
ReloadProfile ==
    LET stored == {n \in Ncus : store[n] # None}
    IN  \/ nwam_ncp' = TRUE /\ objs' = Walk(stored, {}, TRUE) /\ UNCHANGED admins
        \/ Trouble /\ nwam_ncp' = FALSE /\ objs' = objs
        \/ /\ Trouble /\ nwam_ncp' = TRUE
           /\ \/ \E walked \in SUBSET stored : objs' = Walk(walked, {}, FALSE)
              \/ \E failed \in SUBSET stored : failed # {} /\ objs' = Walk(stored, failed, TRUE)

\* The "add" and "remove" signals of the NCP, as the open dialog hears them.
Follow(o) ==
    IF ~open THEN UNCHANGED <<tree, hist>>
    ELSE LET new   == SetToSortSeq({n \in Ncus : objs[n] = None /\ o[n] # None}, <)
             old   == SetToSortSeq({n \in Ncus : objs[n] # None /\ o[n] = None}, <)
             added == FoldLeft(LAMBDA t, n : AddRow(t, n, o[n]), Tree, new)
         IN  /\ SetTree(FoldLeft(LAMBDA t, n : RemoveRow(t, n, objs[n].at), added, old))
             /\ touched' = TRUE
             /\ meant' = IF meant = None THEN None
                         ELSE [n \in Ncus |-> IF o[n] = None THEN None
                                              ELSE IF objs[n] = None THEN Kind(o[n].at)
                                              ELSE meant[n]]

-----------------------------------------------------------------------------
(* The administrator, with nwamcfg(1M), and nwamd's events.                   *)

Configure ==
    /\ Trouble
    /\ \E n \in Ncus, e \in Samples \cup {None} :
          /\ store[n] # e
          /\ store' = [store EXCEPT ![n] = e]
          /\ \/ store[n] # None /\ e # None /\ UNCHANGED queue
             \/ /\ store[n] = None \/ e = None
                /\ Room(1)
                /\ queue' = Append(queue, [act |-> IF e = None THEN "REMOVE" ELSE "ADD", ncu |-> n])
    /\ UNCHANGED <<nwam_ncp, objs, tree, open, conn, edits, hist>>

\* ADD of an NCU that is not listed reloads the profile, of one that is, the NCU.
HandleAdd ==
    /\ queue # <<>> /\ Head(queue).act = "ADD"
    /\ queue' = Tail(queue)
    /\ LET n == Head(queue).ncu
       IN  IF objs[n] = None THEN ReloadProfile ELSE ReloadNcu(n)
    /\ Follow(objs')
    /\ UNCHANGED <<store, open, conn, edits>>

HandleRemove ==
    /\ queue # <<>> /\ Head(queue).act = "REMOVE"
    /\ queue' = Tail(queue)
    /\ objs' = [objs EXCEPT ![Head(queue).ncu] = None]
    /\ Follow(objs')
    /\ UNCHANGED <<store, nwam_ncp, open, conn, edits, admins>>

\* REFRESH, ENABLE or DISABLE of an NCU: has_modifications() starts from an
\* uninitialized local, so that an unmodified NCU may count as modified.
HandleRefresh ==
    /\ \E n \in Listed : ~objs[n].mod /\ ReloadNcu(n)
    /\ objs' # objs
    /\ Follow(objs')
    /\ UNCHANGED <<nwamd, open, conn, edits>>

\* REFRESH of the profile.
HandleProfileRefresh ==
    /\ ReloadProfile
    /\ objs' # objs \/ nwam_ncp' # nwam_ncp
    /\ Follow(objs')
    /\ UNCHANGED <<nwamd, open, conn, edits>>

-----------------------------------------------------------------------------
(* Opening and closing.                                                       *)

BuildTree(o) ==
    /\ SetTree(Build(o))
    /\ touched' = FALSE
    /\ meant' = [n \in Ncus |-> IF o[n] = None THEN None ELSE Kind(o[n].at)]

Open ==
    /\ ~open /\ open' = TRUE
    /\ BuildTree(objs)
    /\ UNCHANGED <<nwamd, nwam_ncp, objs, conn, edits, admins>>

Closed ==
    open' = FALSE /\ groups' = <<>> /\ fakes' = {} /\ touched' = FALSE /\ meant' = None

\* A button of the dialog itself is pressed, which hides it.
Responds == open /\ conn = None /\ Closed

\* Mutant of InGroup: a connection of a static group keeps "enabled".
InGroupManual(o, g) ==
    IF ~o.handle THEN [o EXCEPT !.mod = TRUE]
    ELSE IF g.id \in Static
         THEN [o EXCEPT !.mod = TRUE, !.at = IF @ = Off THEN Off ELSE On]
    ELSE [o EXCEPT !.mod = TRUE, !.at = g.id + 1, !.mode = g.mode]

\* foreach_set_group_mode() on the group g, for an object of it.
InGroup(o, g) ==
    IF ~o.handle THEN [o EXCEPT !.mod = TRUE, !.at = IF g.id = Off THEN Off ELSE On]
    ELSE IF g.id \in Static THEN [o EXCEPT !.mod = TRUE, !.at = g.id]
    ELSE [o EXCEPT !.mod = TRUE, !.at = g.id + 1, !.mode = g.mode]

\* The objects with the places the tree shows for them.
Placed == [n \in Ncus |->
    IF objs[n] = None \/ Holds(Tree, Live(n)) = {} THEN objs[n]
    ELSE InGroup(objs[n], groups[CHOOSE i \in Holds(Tree, Live(n)) : TRUE])]

\* A connection put into a priority group is enabled at once, before it is saved.
EnabledAtOnce(o) ==
    {n \in Listed : /\ objs[n].handle /\ objs[n].at = Off /\ store[n] # None
                    /\ o[n].at \notin Static}

\* Commit of the profile: the NCUs in order, up to the first that fails.  linked
\* is whose link unit was committed and done whose IP unit too; a profile without
\* its handle is taken for a new one, and cannot be created.
Commits(o, linked, done) ==
    /\ linked # {} => nwam_ncp
    /\ done \subseteq linked
    /\ linked \subseteq {n \in Ncus : o[n] # None /\ o[n].mod}
    /\ \A n \in linked : o[n].handle => store[n] # None
    /\ \A n \in linked, k \in Ncus : o[k] # None /\ o[k].mod /\ k < n => k \in done

\* The connections that a commit may have to enable or disable, as they are manual
\* now.  Of one stored in a priority group "enabled" is not known here.
Switched(o, linked) ==
    {n \in linked : /\ o[n].handle /\ o[n].at \in Static
                    /\ store[n] # None /\ store[n].at # o[n].at}

\* nwamd's entry of n after the commit; a refused call leaves a manual connection
\* the way it was, enabled or not, and is not reported.  One of a priority group is
\* never called for.
Committed(o, n, refused) ==
    [at |-> IF n \notin refused \/ o[n].at \notin Static THEN o[n].at
            ELSE IF o[n].at = On THEN Off ELSE On,
     mode |-> o[n].mode]

\* apply(): the flag of the link is cleared whether or not the connection could be
\* enabled, and what commits returns is not looked at.  Without a handle a commit
\* succeeds, and clears nothing.
Ok ==
    /\ Responds
    /\ edits < MaxEdits /\ edits' = edits + 1
    /\ LET o == Placed IN
       \E linked \in SUBSET Listed : \E done \in SUBSET linked,
                                      refused \in SUBSET (Switched(o, linked) \cup EnabledAtOnce(o)) :
          /\ Commits(o, linked, done)
          /\ IF refused = {} THEN UNCHANGED admins ELSE Trouble
          /\ objs' = [n \in Ncus |-> IF n \in done /\ o[n].handle
                                     THEN [o[n] EXCEPT !.mod = FALSE] ELSE o[n]]
          /\ store' = [n \in Ncus |->
                IF n \in linked /\ o[n].handle THEN Committed(o, n, refused)
                ELSE IF n \in EnabledAtOnce(o) \ refused /\ store[n].at = Off
                     THEN [store[n] EXCEPT !.at = On]
                ELSE store[n]]
    /\ UNCHANGED <<queue, nwam_ncp, conn>>

Cancel ==
    /\ Responds
    /\ UNCHANGED <<nwamd, conn, edits>>
    /\ ReloadProfile

-----------------------------------------------------------------------------
(* The buttons, with the selections that make them sensitive.                 *)

\* The rows the selection function lets through: nothing of a static group
\* that holds the placeholder.  A selection is one or two of [at, kids, whole]; that
\* it may be larger is left out.
Selectable == {i \in DOMAIN groups : groups[i].id \notin fakes}
GroupItem(i) == [at |-> i, kids |-> groups[i].kids, whole |-> TRUE]
RowItems(i)  == {[at |-> i, kids |-> {r}, whole |-> FALSE] : r \in groups[i].kids}
Items == UNION {RowItems(i) \cup {GroupItem(i)} : i \in Selectable}

Selections ==
    {S \in {{x, y} : x, y \in Items} :
        \A x, y \in S : x.whole /\ ~y.whole => x.at # y.at}

Ordinary(x) == groups[x.at].id \notin Static
LastFirst(S) == SetToSortSeq(S, LAMBDA x, y : x.at > y.at)

Edit ==
    /\ open /\ conn = None
    /\ edits < MaxEdits /\ edits' = edits + 1
    /\ touched' = TRUE
    /\ UNCHANGED <<nwamd, nwam_ncp, objs, open, conn, admins>>

\* "New group": connections, or one static group.
NewGroup ==
    /\ Edit
    /\ \E S \in Selections :
          /\ ~\E x \in S : x.whole /\ Ordinary(x)
          /\ \/ \E x \in S : ~x.whole
             \/ Cardinality(S) = 1
          /\ LET t == Collapse(WithGroup(Tree, Off - 1, 0))
                 \* The new group stands before the last one.
                 Shift(x) == IF groups[x.at].id = Off THEN [x EXCEPT !.at = @ + 1] ELSE x
                 items == LET s == LastFirst(S) IN [i \in DOMAIN s |-> Shift(s[i])]
             IN  Move(t, items, Len(groups))

\* "Remove group": its connections are always disabled from now on.
RemoveGroup ==
    /\ Edit
    /\ \E S \in Selections :
          /\ \A x \in S : x.whole /\ Ordinary(x)
          /\ Move(NoFake(Tree, Off), LastFirst(S), Len(groups))

\* "Up" and "Down": one group's rows, or one row, to the neighbouring group.
Up ==
    /\ Edit
    /\ \E x \in Items :
          /\ groups[x.at].id # On
          /\ Move(NoFake(Tree, groups[x.at - 1].id), <<x>>, x.at - 1)

Down ==
    /\ Edit
    /\ \E x \in Items :
          /\ groups[x.at].id # Off
          /\ Move(NoFake(Tree, groups[x.at + 1].id), <<x>>, x.at + 1)

\* "Enable" and "Disable": one row, to a static group.
ToStatic(id) ==
    /\ Edit
    /\ \E x \in Items :
          /\ ~x.whole /\ groups[x.at].id # id
          /\ Move(NoFake(Tree, id), <<x>>, IndexOf(Tree, id))

Enable  == ToStatic(On)
Disable == ToStatic(Off)

\* Rows dragged onto a group.
Drag ==
    /\ Edit
    /\ \E S \in Selections, p \in DOMAIN groups :
          /\ \A x \in S : x.whole => x.at # p
          /\ Move(NoFake(Tree, groups[p].id), LastFirst(S), p)

\* The combo box gives the group of the selection another mode.
ChangeMode ==
    /\ Edit
    /\ \E x \in Items, m \in Modes :
          /\ Ordinary(x)
          /\ groups' = [groups EXCEPT ![x.at].mode = m]
    /\ UNCHANGED <<fakes, meant>>

-----------------------------------------------------------------------------
(* The dialog that says which connections the profile has.                    *)

EditConnections ==
    /\ open /\ conn = None /\ edits < MaxEdits
    /\ conn' = Listed
    /\ UNCHANGED <<nwamd, nwam_ncp, objs, tree, open, edits, admins, hist>>

ConnectionsCancel ==
    /\ conn # None /\ conn' = None
    /\ UNCHANGED <<nwamd, nwam_ncp, objs, tree, open, edits, admins, hist>>

\* The connections left out are destroyed, those chosen and not listed (any more)
\* are copied from the automatic profile and saved, each unless libnwam fails.
ConnectionsOk ==
    /\ conn # None /\ conn' = None
    /\ edits < MaxEdits /\ edits' = edits + 1
    /\ \E dead \in SUBSET {n \in conn \cap Listed : store[n] # None /\ objs[n].handle},
          born \in SUBSET (Ncus \ Listed) :
          /\ nwam_ncp \/ born = {}
          /\ LET made == {n \in born : store[n] = None}
                 Events(act, S) == LET s == SetToSeq(S)
                                   IN  [i \in DOMAIN s |-> [act |-> act, ncu |-> s[i]]]
             IN  /\ Room(Cardinality(dead) + Cardinality(made))
                 /\ queue' = queue \o Events("REMOVE", dead) \o Events("ADD", made)
                 /\ store' = [n \in Ncus |-> IF n \in dead THEN None
                                             ELSE IF n \in made THEN Automatic[n] ELSE store[n]]
                 /\ objs' = [n \in Ncus |-> IF n \in dead THEN Destroyed(objs[n]) ELSE objs[n]]
    /\ BuildTree(objs')
    /\ UNCHANGED <<nwam_ncp, open, admins>>

-----------------------------------------------------------------------------
Init ==
    /\ store \in Stores
    /\ objs = [n \in Ncus |-> IF store[n] = None THEN None ELSE Opened(store[n])]
    /\ nwam_ncp = TRUE /\ queue = <<>> /\ groups = <<>> /\ fakes = {}
    /\ open = FALSE /\ conn = None
    /\ edits = 0 /\ admins = 0 /\ touched = FALSE /\ meant = None

Next ==
    \/ Configure \/ HandleAdd \/ HandleRemove \/ HandleRefresh \/ HandleProfileRefresh
    \/ Open \/ Ok \/ Cancel
    \/ NewGroup \/ RemoveGroup \/ Up \/ Down \/ Enable \/ Disable \/ Drag \/ ChangeMode
    \/ EditConnections \/ ConnectionsOk \/ ConnectionsCancel

Spec == Init /\ [][Next]_vars

-----------------------------------------------------------------------------
\* The tree of the open dialog starts with the group of the connections that
\* are always on and ends with those always off, its groups stand in the order
\* of their numbers, none but these two is empty, and no connection is in two
\* groups.  (ncu_pri_group_get_path, handle_ncu_group_node)
TypeOK ==
    /\ store \in [Ncus -> Entry \cup {None}]
    /\ objs \in [Ncus -> Ncu \cup {None}] /\ nwam_ncp \in BOOLEAN
    /\ meant \in [Ncus -> {On, 1, Off, None}] \cup {None}
    /\ Len(queue) <= MaxQueue /\ ToSet(queue) \subseteq Event
    /\ open \/ (groups = <<>> /\ fakes = {} /\ conn = None)
    /\ fakes \subseteq Static
    /\ open =>
          /\ groups[1].id = On /\ groups[Len(groups)].id = Off
          /\ \A i, j \in DOMAIN groups :
                i < j => /\ groups[i].id < groups[j].id
                         /\ \A n \in Ncus : Live(n) \notin groups[i].kids \cap groups[j].kids
          /\ \A i \in DOMAIN groups : groups[i].kids = {} => groups[i].id \in fakes
          /\ \A r \in RowsOf(Tree) : r[2] => r[1] \in Listed

\* The tree is ordered and without duplicates, as TypeOK says.  As long as nothing
\* was changed it shows where its objects are: those always on and always off in
\* the static groups, and the others grouped and ordered as their priority groups
\* are.  Whatever was changed, by the user or by nwamd, no connection is lost and
\* each is in the group it was put into, so far as that is always on, always off or
\* neither; except after a group disappeared before the one that the rest of a
\* selection was moved to.  (edit_profile_changed, on_button_clicked)
ShowsObjects ==
    /\ TypeOK
    /\ open /\ ~touched =>
         \A n, m \in Listed : \E i \in Holds(Tree, Live(n)), j \in Holds(Tree, Live(m)) :
            /\ objs[n].at < objs[m].at <=> i < j
            /\ \A id \in Static : objs[n].at = id <=> groups[i].id = id
    /\ open /\ meant # None =>
         \A n \in Listed : \E i \in Holds(Tree, Live(n)) : Kind(groups[i].id) = meant[n]

\* A call that enables or disables a connection was refused, or a read failed.
Refused == admins' # admins

\* A step of the dialog's OK, which is counted, or of its Cancel: no other closes it.
Saves   == open /\ ~open' /\ edits' # edits
Cancels == open /\ ~open' /\ edits' = edits

\* What OK saves says what the tree showed, also of the connections that were
\* saved before another one failed: which are manual, which share a group, the
\* groups' order and their modes; and which of the manual ones are enabled, unless
\* nwamd refused to enable or disable one, which nobody is told.
\* (foreach_set_group_mode, nwamui_object_real_commit)
SavedAsShown ==
    [][Saves => \A n, m \in {k \in Listed : objs[k].handle /\ ~objs'[k].mod} :
             \A i \in Holds(Tree, Live(n)), j \in Holds(Tree, Live(m)) :
                /\ store'[n].at \in Static <=> groups[i].id \in Static
                /\ {groups[i].id, groups[j].id} \cap Static = {} =>
                      /\ store'[n].at < store'[m].at <=> i < j
                      /\ store'[n].mode = groups[i].mode
                /\ Refused \/ \A id \in Static : store'[n].at = id <=> groups[i].id = id]_vars

\* Cancel leaves the objects as they are stored, without edits, whatever earlier
\* saves failed.  Only a read that fails spoils it: then each object is as it is
\* stored, without a handle and so without anything of its own, or as it was,
\* edits included.  (cancel, nwamui_object_real_reload)
CancelRestores ==
    [][Cancels => \A n \in Ncus :
          \/ objs'[n] = IF store[n] = None THEN None ELSE Opened(store[n])
          \/ Refused /\ objs'[n] \in {objs[n], Unread}]_vars
=============================================================================
