---------------------------- MODULE LocationDialog ----------------------------
(* The "Locations" dialog (nwam_location_dialog.c) with the location objects  *)
(* it lists (nwamui_env.c), the rules and properties dialogs it opens on one  *)
(* of them, and the part of the daemon object that keeps the same objects and *)
(* the active location up to date with nwamd (nwamui_daemon.c).               *)
(*                                                                            *)
(* Of a location the model keeps the properties of the properties dialog as   *)
(* one value (EnvPrefDialog models that dialog), the activation mode, and     *)
(* whether there are conditions.  A location may also be activated: with the  *)
(* manual choice one location is enabled, with the automatic one none is, and *)
(* nwamd activates what the rules say.                                        *)
EXTENDS Naturals, Sequences, FiniteSets, SequencesExt

CONSTANTS
    Names,      \* names of locations
    Objs,       \* identities of NwamuiEnv objects
    None,       \* no object, no location
    NoHandle,   \* an object whose libnwam handle is NULL
    Absent,     \* a name with no entry in the store
    Samples,    \* what the administrator stores
    Stores,     \* what may be stored at first
    MaxEdits,   \* bound on the user's actions that change data or widgets
    MaxAdmin,   \* bound on the administrator's changes and the failures to read
    MaxQueue    \* bound on the undelivered events of nwamd

ASSUME BoundsAssumption == MaxEdits \in Nat /\ MaxAdmin \in Nat /\ MaxQueue \in Nat

VARIABLES
    store,      \* nwamd: for each name the stored location, or Absent
    enabled,    \* nwamd: the location enabled by hand, or None
    queue,      \* events of nwamd the daemon object has not handled yet
    objs,       \* the NwamuiEnv objects
    listed,     \* managed_list[MANAGED_LOC]: the daemon object's locations
    active,     \* active_env of the daemon object
    twins,      \* history: the names that two of its locations had at once
    rows,       \* the rows of the dialog's list store
    sel,        \* the object of the selected row
    combo,      \* the activation combo box: what it shows
    toggled,    \* toggled_env: the location whose radio button was clicked
    manual,     \* switch_loc_manually_flag
    open,       \* the dialog is on the screen
    editing,    \* the object in the properties dialog, or None
    choice,     \* history: the location toggled since the dialog was opened
    edits, admins

nwamd == <<store, enabled, queue>>
daemon == <<listed, active, twins>>
choosing == <<toggled, manual, choice>>
vars  == <<store, enabled, queue, objs, listed, active, twins, rows, sel, combo,
           toggled, manual, open, editing, choice, edits, admins>>

-----------------------------------------------------------------------------
Modes == {"manual", "any", "all", "system"}
Content == [text : 0..1, mode : Modes, conds : BOOLEAN]
Conditional(c) == c.mode \in {"any", "all"}

\* nwam_loc_create()
NewContent == [text |-> 0, mode |-> "manual", conds |-> FALSE]

\* nwam_loc_validate(): conditions where they are used, or any other reason.
Valid(c) == Conditional(c) => c.conds

\* A NwamuiEnv: its name, its handle, nwam_loc_modified, whether it can still
\* be renamed, and the cached "enabled".
Object == [name : Names, h : Content \cup {NoHandle}, mod : BOOLEAN,
           fresh : BOOLEAN, en : BOOLEAN]

Event == [act : {"ADD", "REFRESH", "DESTROY", "STATE"}, name : Names]

\* There is an object for each location that is stored at first, and what is
\* stored are locations.
ASSUME ObjsAssumption ==
    /\ IsFiniteSet(Objs)
    /\ None \notin Objs \cup Names \cup Object \cup [name : Names, text : Content \cup {NoHandle}]
    /\ NoHandle \notin Content /\ Absent \notin Content
    /\ \E f \in [Names -> Objs] : \A m, n \in Names : m # n => f[m] # f[n]
ASSUME StoresAssumption ==
    /\ Samples \subseteq Content
    /\ Stores \subseteq [Names -> Content \cup {Absent}]

RowSet == ToSet(rows)

\* Type correctness, and nothing the dialogs or the daemon object refer to has
\* been freed: every reference is counted (object identities, nwamui_env.c; the
\* "toggled_env" property, nwam_location_dialog.c:341-344).
TypeOK ==
    /\ store \in [Names -> Content \cup {Absent}]
    /\ enabled \in Names \cup {None}
    /\ queue \in Seq(Event)
    /\ objs \in [Objs -> Object \cup {None}]
    /\ listed \in SUBSET Objs /\ twins \in SUBSET Names /\ rows \in Seq(Objs)
    /\ {active, sel, toggled, editing, choice} \subseteq Objs \cup {None}
    /\ \A o \in RowSet \cup listed \cup {active, sel, toggled, editing} : o # None => objs[o] # None
    /\ combo \in {"manual", "rules", "system"}
    /\ manual \in BOOLEAN /\ open \in BOOLEAN
    /\ edits \in 0..MaxEdits /\ admins \in 0..MaxAdmin

-----------------------------------------------------------------------------
\* The object layer.

\* reload(): a name that is not stored keeps the handle it has, and a read that
\* fails for any other reason leaves none, but the modifications are forgotten
\* all the same.
Reload(r, unread) ==
    IF unread THEN [r EXCEPT !.h = NoHandle, !.mod = FALSE, !.en = FALSE]
    ELSE IF store[r.name] # Absent
    THEN [r EXCEPT !.h = store[r.name], !.mod = FALSE, !.fresh = FALSE, !.en = enabled = r.name]
    ELSE [r EXCEPT !.mod = FALSE]

\* Does reading from nwamd fail in this handler?
Trouble(some) == IF some THEN admins < MaxAdmin /\ admins' = admins + 1 ELSE UNCHANGED admins

\* nwamui_env_new(): open the stored location or else, also if it cannot be
\* read, create one in memory, which may fail.
NewEnv(n, unread) ==
    LET blank == [name |-> n, h |-> NoHandle, mod |-> FALSE, fresh |-> FALSE, en |-> FALSE]
    IN  IF store[n] # Absent /\ ~unread THEN {Reload(blank, FALSE)}
        ELSE {[blank EXCEPT !.h = NewContent, !.mod = TRUE, !.fresh = TRUE], blank}

\* The setters mark the location as modified even if it has no handle.
Set(r, c) == [r EXCEPT !.h = IF @ = NoHandle THEN @ ELSE c, !.mod = TRUE]
SetMode(r, m) == Set(r, [r.h EXCEPT !.mode = m])
ModeOf(r) == IF r.h = NoHandle THEN "manual" ELSE r.h.mode

\* set_conditions(): no conditions make the location manual.
SetConditions(r, some) == IF some THEN Set(r, [r.h EXCEPT !.conds = TRUE]) ELSE SetMode(r, "manual")

\* nwamui_daemon_env_selection_is_manual()
SelectionIsManual(os, ls) == \E o \in ls : os[o].en

\* nwam_treeview_update_widget_cb(): the combo box follows the selected row.
ComboOf(r) == CASE ModeOf(r) = "manual" -> "manual"
                [] ModeOf(r) \in {"any", "all"} -> "rules"
                [] ModeOf(r) = "system" -> "system"

-----------------------------------------------------------------------------
RowNames == {objs[o].name : o \in RowSet}
Without(q, o) == RemoveAt(q, CHOOSE i \in DOMAIN q : q[i] = o)
Named(n) == {o \in listed : objs[o].name = n}
Free == {o \in Objs : objs[o] = None}
MayEdit == open /\ editing = None /\ edits < MaxEdits
Edited == edits' = edits + 1

\* An object nobody refers to any more is freed.
Held(os) ==
    [o \in Objs |-> IF o \in ToSet(rows') \cup listed' \cup {active', toggled', editing'}
                    THEN os[o] ELSE None]

Saved(n) == [act |-> IF store[n] = Absent THEN "ADD" ELSE "REFRESH", name |-> n]
Room(k) == Len(queue) + k <= MaxQueue

-----------------------------------------------------------------------------
\* The user's actions on the list.

\* refresh(): the list store is filled from the daemon object, and the radio
\* buttons follow the daemon object.
OpenDialog ==
    /\ ~open /\ open' = TRUE
    /\ rows' = SetToSeq(listed)
    /\ sel' = None
    /\ manual' = SelectionIsManual(objs, listed)
    /\ choice' = None
    /\ UNCHANGED <<nwamd, daemon, combo, toggled, editing, edits, admins>>
    /\ objs' = Held(objs)

\* on_add_btn_clicked() with create_object(), and on_dup_btn_clicked() with
\* dup_object() and clone(): appended and selected.
AddRow(o, r) ==
    /\ objs' = [objs EXCEPT ![o] = r]
    /\ rows' = Append(rows, o)
    /\ sel' = o /\ combo' = ComboOf(r)
    /\ Edited
    /\ UNCHANGED <<nwamd, daemon, choosing, open, editing>>

AddLocation ==
    /\ MayEdit
    /\ \E o \in Free, n \in Names \ RowNames, unread \in BOOLEAN :
          Trouble(unread) /\ \E r \in NewEnv(n, unread) : AddRow(o, r)

Duplicate ==
    /\ MayEdit /\ sel # None /\ objs[sel].h # NoHandle /\ UNCHANGED admins
    /\ \E o \in Free, n \in Names \ RowNames :
          AddRow(o, [name |-> n, h |-> objs[sel].h, mod |-> TRUE, fresh |-> TRUE, en |-> FALSE])

SelectRow(o) ==
    /\ open /\ editing = None /\ o \in RowSet /\ o # sel
    /\ sel' = o /\ combo' = ComboOf(objs[o])
    /\ UNCHANGED <<nwamd, objs, daemon, rows, choosing, open, editing, edits, admins>>

\* remove_object(): the location is destroyed at once, the row goes whether or
\* not that succeeds, and it is no longer the one to activate.
RemoveLocation ==
    /\ MayEdit /\ sel # None /\ sel # active /\ ModeOf(objs[sel]) # "system"
    /\ toggled' = IF toggled = sel THEN None ELSE toggled
    /\ choice' = IF choice = sel THEN None ELSE choice
    /\ rows' = Without(rows, sel) /\ sel' = None
    /\ Edited
    /\ UNCHANGED <<daemon, combo, manual, open, editing, admins>>
    /\ LET r == objs[sel]
       IN  \/ /\ r.h # NoHandle /\ store[r.name] # Absent /\ Room(1)
              /\ store' = [store EXCEPT ![r.name] = Absent]
              /\ enabled' = IF enabled = r.name THEN None ELSE enabled
              /\ queue' = Append(queue, [act |-> "DESTROY", name |-> r.name])
              /\ objs' = Held([objs EXCEPT ![sel].h = NoHandle])
           \/ objs' = Held(objs) /\ UNCHANGED nwamd

\* nwamui_object_name_cell_edited(): only a location that was never committed
\* and has a handle.
Rename ==
    /\ MayEdit /\ sel # None /\ sel # active
    /\ objs[sel].fresh /\ objs[sel].h # NoHandle /\ ModeOf(objs[sel]) # "system"
    /\ \E n \in Names \ RowNames :
          /\ objs' = [objs EXCEPT ![sel] = [@ EXCEPT !.name = n, !.mod = TRUE]]
          /\ twins' = IF sel \in listed /\ Named(n) # {} THEN twins \cup {n} ELSE twins
    /\ Edited
    /\ UNCHANGED <<nwamd, listed, active, rows, sel, combo, choosing, open, editing, admins>>

\* nwam_location_connection_enabled_toggled_cb(), which is active with the
\* manual choice, and location_switch_loc_cb_toggled().
Toggle ==
    /\ MayEdit
    /\ \/ /\ manual
          /\ \E o \in RowSet : toggled' = o /\ choice' = o
          /\ UNCHANGED manual
       \/ manual' = ~manual /\ UNCHANGED <<toggled, choice>>
    /\ Edited
    /\ UNCHANGED <<nwamd, objs, daemon, rows, sel, combo, open, editing, admins>>

\* location_activation_combo_changed_cb(): "rules" stands for any of the rules.
ChooseActivation ==
    /\ MayEdit /\ sel # None /\ combo # "system"
    /\ LET mode == IF combo = "manual" THEN "any" ELSE "manual"
           r == objs[sel]
       IN  /\ combo' = IF combo = "manual" THEN "rules" ELSE "manual"
           /\ objs' = [objs EXCEPT ![sel] = IF ModeOf(r) = mode THEN r ELSE SetMode(r, mode)]
    /\ Edited
    /\ UNCHANGED <<nwamd, daemon, rows, sel, choosing, open, editing, admins>>

\* on_button_clicked() and the rules dialog: the mode, then the conditions.
Rules ==
    /\ MayEdit /\ sel # None /\ combo = "rules"
    /\ \E m \in {"any", "all"}, some \in BOOLEAN :
          LET r == SetConditions(SetMode(objs[sel], m), some)
          IN  objs' = [objs EXCEPT ![sel] = r] /\ combo' = ComboOf(r)
    /\ Edited
    /\ UNCHANGED <<nwamd, daemon, rows, sel, choosing, open, editing, admins>>

-----------------------------------------------------------------------------
\* The properties dialog on the selected location (see EnvPrefDialog).

EditProperties ==
    /\ MayEdit /\ sel # None
    /\ editing' = sel
    /\ UNCHANGED <<nwamd, objs, daemon, rows, sel, combo, choosing, open, edits, admins>>

ChangeProperties ==
    /\ editing # None /\ edits < MaxEdits
    /\ LET r == objs[editing]
       IN  objs' = [objs EXCEPT ![editing] =
                       Set(r, IF r.h = NoHandle THEN r.h ELSE [r.h EXCEPT !.text = 1 - @])]
    /\ Edited
    /\ UNCHANGED <<nwamd, daemon, rows, sel, combo, choosing, open, editing, admins>>

\* Its OK commits the location, whatever the outer dialog does later.
ApplyProperties ==
    /\ editing # None
    /\ LET r == objs[editing]
       IN  \/ r.h = NoHandle /\ UNCHANGED <<store, queue, objs>>
           \/ /\ r.h # NoHandle /\ Valid(r.h) /\ Room(1)
              /\ store' = [store EXCEPT ![r.name] = r.h]
              /\ queue' = Append(queue, Saved(r.name))
              /\ objs' = [objs EXCEPT ![editing] = [r EXCEPT !.mod = FALSE, !.fresh = FALSE]]
    /\ editing' = None
    /\ UNCHANGED <<enabled, daemon, rows, sel, combo, choosing, open, edits, admins>>

\* Its Cancel reads the location again.
CancelProperties ==
    /\ editing # None
    /\ \E unread \in BOOLEAN :
          Trouble(unread) /\ objs' = [objs EXCEPT ![editing] = Reload(@, unread)]
    /\ editing' = None
    /\ UNCHANGED <<nwamd, daemon, rows, sel, combo, choosing, open, edits>>

-----------------------------------------------------------------------------
\* OK and Cancel.

\* A button is pressed: the dialog is hidden if what it stands for is done.
Responds(done) == open /\ editing = None /\ open' = ~done

\* Mutant of Committed: the loop ends after the first row.
CommittedFirst(i) == {j \in {1} \cap (1..(i - 1)) : objs[rows[j]].mod /\ objs[rows[j]].h # NoHandle}

\* capplet_tree_model_foreach_nwamui_object_commit(): the rows before i are
\* committed, and the loop stops at row i; commit() does nothing, and succeeds,
\* for a location without a handle.
Committed(i) == {j \in 1..(i - 1) : objs[rows[j]].mod /\ objs[rows[j]].h # NoHandle}

CommitRows(i) ==
    /\ \A j \in Committed(i) : Valid(objs[rows[j]].h)
    /\ i <= Len(rows) => objs[rows[i]].mod /\ objs[rows[i]].h # NoHandle
    /\ store' = [n \in Names |->
                    LET of == {j \in Committed(i) : objs[rows[j]].name = n}
                    IN  IF of = {} THEN store[n]
                        ELSE objs[rows[CHOOSE j \in of : \A k \in of : k <= j]].h]
    /\ objs' = [o \in Objs |-> IF \E j \in Committed(i) : rows[j] = o
                               THEN [objs[o] EXCEPT !.mod = FALSE, !.fresh = FALSE] ELSE objs[o]]

\* The numbers of a set in their order.
Ordered(S) == {f \in [1..Cardinality(S) -> S] : /\ S = Range(f)
                                                /\ \A j, k \in DOMAIN f : j < k => f[j] < f[k]}

\* nwamd reports the commits in the order of the rows.
CommitEvents(order) == [k \in DOMAIN order |-> Saved(objs[rows[order[k]]].name)]

\* The rest of apply(): with the manual choice the toggled location is enabled,
\* with the automatic one the active location is disabled, whether or not the
\* commits succeeded.  nwamd may refuse.
Activated(evs) ==
    \/ /\ manual /\ toggled # None
       /\ objs[toggled].h # NoHandle /\ store'[objs[toggled].name] # Absent
       /\ LET n == objs[toggled].name
          IN  /\ enabled' = n
              /\ Room(Len(evs) + 2)
              /\ queue' = queue \o evs \o
                             <<[act |-> "REFRESH", name |-> n], [act |-> "STATE", name |-> n]>>
    \/ /\ ~manual /\ active # None /\ objs[active] # None /\ enabled = objs[active].name
       /\ enabled' = None
       /\ Room(Len(evs) + 1)
       /\ queue' = queue \o evs \o <<[act |-> "REFRESH", name |-> enabled]>>
    \/ enabled' = enabled /\ Room(Len(evs)) /\ queue' = queue \o evs

\* Mutant of Forget: the location to activate is remembered.
ForgetNothing == toggled' = toggled

\* "Clean toggled_env after use it"
Forget == toggled' = None

\* apply() and response_cb(OK): the failing row is selected, and the dialog
\* stays on the screen.
Ok ==
    /\ \E i \in 1..(Len(rows) + 1) :
          /\ CommitRows(i)
          /\ \E order \in Ordered(Committed(i)) : Activated(CommitEvents(order))
          /\ Responds(i > Len(rows))
          /\ sel' = IF i <= Len(rows) THEN rows[i] ELSE sel
          /\ combo' = IF sel' # sel THEN ComboOf(objs'[sel']) ELSE combo
    /\ Forget
    /\ UNCHANGED <<daemon, rows, manual, editing, choice, edits, admins>>

\* cancel() and response_cb(CANCEL): every row is read from the store again,
\* which may fail for some.
Cancel ==
    /\ Responds(TRUE)
    /\ \E unread \in SUBSET RowSet :
          /\ Trouble(unread # {})
          /\ objs' = [o \in Objs |-> IF o \in RowSet THEN Reload(objs[o], o \in unread)
                                     ELSE objs[o]]
    /\ Forget
    /\ UNCHANGED <<nwamd, daemon, rows, sel, combo, manual, editing, choice, edits>>

-----------------------------------------------------------------------------
\* The daemon object handles the events of nwamd in order.

Take(act) == queue # <<>> /\ Head(queue).act = act /\ queue' = Tail(queue)
Subject == Named(Head(queue).name)
EventKeeps == UNCHANGED <<store, enabled, rows, sel, combo, toggled, choice, open,
                          editing, edits>>

EventAdd ==
    /\ Take("ADD")
    /\ IF Subject # {} THEN UNCHANGED <<objs, listed, admins>>
       ELSE \E o \in Free, unread \in BOOLEAN : \E r \in NewEnv(Head(queue).name, unread) :
              /\ Trouble(unread)
              /\ objs' = [objs EXCEPT ![o] = r] /\ listed' = listed \cup {o}
    /\ UNCHANGED <<active, twins, manual>> /\ EventKeeps

\* Mutant of EventRefresh: only a location with modifications is read again.
EventRefreshModified ==
    /\ Take("REFRESH")
    /\ IF Subject = {} THEN UNCHANGED objs
       ELSE \E o \in Subject :
              objs' = [objs EXCEPT ![o] = IF @.mod THEN Reload(@, FALSE) ELSE @]
    /\ UNCHANGED <<daemon, manual, admins>> /\ EventKeeps

\* REFRESH, ENABLE and DISABLE: read again, which may fail, unless there are
\* modifications.
EventRefresh ==
    /\ Take("REFRESH")
    /\ IF Subject = {} THEN UNCHANGED <<objs, admins>>
       ELSE \E o \in Subject, unread \in BOOLEAN :
              /\ Trouble(unread)
              /\ objs' = [objs EXCEPT ![o] = IF @.mod THEN @ ELSE Reload(@, unread)]
    /\ UNCHANGED <<daemon, manual>> /\ EventKeeps

\* DESTROY: the active location is forgotten; a location of the system stays listed.
EventDestroy ==
    /\ Take("DESTROY") /\ EventKeeps /\ UNCHANGED <<twins, manual, admins>>
    /\ IF Subject = {} THEN UNCHANGED <<objs, listed, active>>
       ELSE \E o \in Subject :
              /\ active' = IF active = o THEN None ELSE active
              /\ listed' = IF ModeOf(objs[o]) = "system" THEN listed ELSE listed \ {o}
              /\ objs' = Held(objs)

\* A location is online: it is the active one, and the daemon's notification
\* clicks the radio button of the dialog, whatever the user chose.
EventState ==
    /\ Take("STATE") /\ EventKeeps /\ UNCHANGED <<listed, twins, admins>>
    /\ IF Subject = {} THEN UNCHANGED <<active, manual, objs>>
       ELSE \E o \in Subject :
              /\ active' = o /\ manual' = SelectionIsManual(objs, listed)
              /\ objs' = Held(objs)

-----------------------------------------------------------------------------
\* nwamd and the administrator.

\* A location is created or changed with nwamcfg(1M).
Configure ==
    /\ admins < MaxAdmin /\ Room(1)
    /\ \E n \in Names, c \in Samples :
          /\ c # store[n]
          /\ store' = [store EXCEPT ![n] = c]
          /\ queue' = Append(queue, Saved(n))
    /\ admins' = admins + 1
    /\ UNCHANGED <<enabled, objs, daemon, rows, sel, combo, choosing, open, editing, edits>>

\* nwamd activates a location.
Online ==
    /\ admins < MaxAdmin /\ Room(1)
    /\ \E n \in Names : store[n] # Absent /\ queue' = Append(queue, [act |-> "STATE", name |-> n])
    /\ admins' = admins + 1
    /\ UNCHANGED <<store, enabled, objs, daemon, rows, sel, combo, choosing, open, editing, edits>>

-----------------------------------------------------------------------------
\* Before the dialog exists the daemon object lists every stored location.
Init ==
    /\ store \in Stores
    /\ enabled = None /\ queue = <<>>
    /\ LET of == CHOOSE f \in [Names -> Objs] : \A m, n \in Names : m # n => f[m] # f[n]
           stored == {n \in Names : store[n] # Absent}
       IN  /\ listed = {of[n] : n \in stored}
           /\ objs = [o \in Objs |->
                        IF \E n \in stored : of[n] = o
                        THEN LET n == CHOOSE n \in stored : of[n] = o
                             IN  [name |-> n, h |-> store[n],
                                  mod |-> FALSE, fresh |-> FALSE, en |-> FALSE]
                        ELSE None]
    /\ active = None /\ twins = {}
    /\ rows = <<>> /\ sel = None /\ combo = "manual" /\ toggled = None
    /\ manual = FALSE /\ open = FALSE /\ editing = None /\ choice = None
    /\ edits = 0 /\ admins = 0

Next ==
    \/ OpenDialog \/ AddLocation \/ Duplicate \/ RemoveLocation \/ Rename
    \/ \E o \in Objs : SelectRow(o)
    \/ Toggle \/ ChooseActivation \/ Rules
    \/ EditProperties \/ ChangeProperties \/ ApplyProperties \/ CancelProperties
    \/ Ok \/ Cancel
    \/ EventAdd \/ EventRefresh \/ EventDestroy \/ EventState
    \/ Configure \/ Online

Spec == Init /\ [][Next]_vars

-----------------------------------------------------------------------------
\* Properties.

\* The state is well typed and, once every event is handled, a listed location
\* without modifications has the stored properties, whatever the dialogs
\* committed, reverted or activated in the meantime, unless it has no handle: the
\* dialog destroyed it, or it could not be read when it was last looked at.  Three
\* kinds are left out.  A location of the system stays listed when its entry is
\* gone, and one created again under that name is taken for it.  So is one that
\* exists in memory only, made for the late event of a location that was destroyed
\* meanwhile.  And of two with one name, which a rename of such a location can
\* make, the daemon object finds the first.
LocationsConverge ==
    TypeOK /\ (queue = <<>> =>
        \A o \in {p \in listed : ~objs[p].mod /\ ~objs[p].fresh /\ objs[p].h # NoHandle} :
            ModeOf(objs[o]) # "system" /\ objs[o].name \notin twins /\ store[objs[o].name] # Absent
                => objs[o].h = store[objs[o].name])

\* A location is only enabled because the user clicked it since the dialog was
\* opened: a choice cancelled, already used, or removed never comes back.
EnablesTheChoice ==
    [][enabled' # enabled /\ enabled' # None
        => choice # None /\ objs[choice].name = enabled']_vars

\* With the properties dialog open the outer dialog waits, and what its Cancel
\* gives back is the stored location: nothing that is stored changes but by a
\* commit of what the user saw.  A location that cannot be read at that moment is
\* left without a handle, and is never written.  The dialog keeps the promises of
\* EditStore; the edits of a location without a handle do not count, since
\* commit() has nothing to write them to and still succeeds.
Promise == INSTANCE EditStore WITH
    Drafts <- Objs,
    Unread <- NoHandle,
    stored <- store,
    draft  <- [o \in Objs |-> IF objs[o] = None THEN None
                              ELSE [name |-> objs[o].name, text |-> objs[o].h]],
    dirty  <- {o \in Objs : objs[o] # None /\ objs[o].mod /\ objs[o].h # NoHandle},
    shown  <- RowSet
PromiseKept == Promise!Spec
=============================================================================
