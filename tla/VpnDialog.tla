------------------------------ MODULE VpnDialog ------------------------------
(* The "Network Modifiers" dialog (nwam_vpn_pref_dialog.c) together with the  *)
(* objects it edits (nwamui_enm.c, nwamui_object.c), the list widget it is    *)
(* built on (nwam_tree_view.c, capplet-utils.c) and the part of the daemon    *)
(* object that keeps the same objects up to date with nwamd                   *)
(* (nwamui_daemon.c).                                                         *)
(*                                                                            *)
(* The dialog is single threaded: each handler is one action.  Between two    *)
(* handlers the daemon object may deliver an event of nwamd, and nwamd or     *)
(* the administrator may change the stored modifiers.                         *)
(*                                                                            *)
(* Of the properties of a modifier the model keeps: the start/stop commands   *)
(* as one value (none, a start command only, a start and a stop command), the *)
(* service FMRI (present or not), the activation mode, and whether there are  *)
(* conditions.  The "enabled" property, which set_conditions(NULL) also       *)
(* clears, is left out.                                                       *)
EXTENDS Naturals, Sequences, FiniteSets, SequencesExt

CONSTANTS
    Names,      \* names of modifiers
    Objs,       \* identities of NwamuiEnm objects
    None,       \* no object
    NoHandle,   \* an object whose libnwam handle is NULL
    Absent,     \* a name with no entry in the store
    Samples,    \* property values the stored modifiers start from or are given
    Stores,     \* what may be stored at first
    MaxEdits,   \* bound on the user's actions that change data or widgets
    MaxAdmin,   \* bound on the administrator's changes and the failures to read
    MaxQueue    \* bound on the undelivered events of nwamd

ASSUME BoundsAssumption == MaxEdits \in Nat /\ MaxAdmin \in Nat /\ MaxQueue \in Nat

VARIABLES
    store,      \* nwamd: for each name the stored properties, or Absent
    online,     \* nwamd: the modifiers that run
    queue,      \* events of nwamd the daemon object has not handled yet
    objs,       \* the NwamuiEnm objects
    listed,     \* managed_list[MANAGED_ENM]: the daemon object's modifiers
    strays,     \* history: the names the dialog gave to a second one, or to one out of date
    rows,       \* the rows of the dialog's list store
    sel,        \* the object of the selected row
    cur,        \* prv->cur_obj
    w,          \* the widgets of the panel
    open,       \* the dialog is on the screen
    edits, admins

nwamd == <<store, online, queue>>
daemon == <<listed, strays>>
ui    == <<rows, sel, cur, w, open>>
vars  == <<store, online, queue, objs, listed, strays, rows, sel, cur, w, open, edits, admins>>

-----------------------------------------------------------------------------
\* Properties of a modifier.

Cmds  == 0..2                               \* none, start, start and stop
Modes == {"manual", "any", "all"}
Content == [cmd : Cmds, fmri : 0..1, mode : Modes, conds : BOOLEAN]
Conditional(c) == c.mode \in {"any", "all"}

\* nwam_enm_create() starts from a modifier without properties.
NewContent == [cmd |-> 0, fmri |-> 0, mode |-> "manual", conds |-> FALSE]

\* nwam_enm_validate(): commands or a service, conditions where they are used.
Valid(c) ==
    /\ (c.cmd # 0) # (c.fmri # 0)
    /\ Conditional(c) => c.conds

\* A NwamuiEnm: its name, its handle, nwam_enm_modified, whether it can still
\* be renamed, whether g_object_freeze_notify() was left without a thaw, and
\* the cached "online" state.
Object == [name : Names, h : Content \cup {NoHandle}, mod : BOOLEAN,
           fresh : BOOLEAN, frozen : BOOLEAN, act : BOOLEAN]

Event == [act : {"ADD", "REFRESH", "DESTROY"}, name : Names]
            \cup [act : {"STATE"}, name : Names, on : BOOLEAN]

\* There is an object for each modifier that is stored at first, and what is
\* stored are modifiers.
ASSUME ObjsAssumption ==
    /\ IsFiniteSet(Objs)
    /\ None \notin Objs \cup Object \cup [name : Names, text : Content \cup {NoHandle}]
    /\ NoHandle \notin Content /\ Absent \notin Content
    /\ \E f \in [Names -> Objs] : \A m, n \in Names : m # n => f[m] # f[n]
ASSUME StoresAssumption ==
    /\ Samples \subseteq Content
    /\ Stores \subseteq [Names -> Content \cup {Absent}]

Widgets == [cmd : Cmds, fmri : 0..1, cli : BOOLEAN, cond : BOOLEAN,
            sens : BOOLEAN, startBtn : BOOLEAN, stopBtn : BOOLEAN]

TypeOK ==
    /\ store \in [Names -> Content \cup {Absent}]
    /\ online \in SUBSET Names
    /\ queue \in Seq(Event)
    /\ objs \in [Objs -> Object \cup {None}]
    /\ listed \in SUBSET Objs /\ strays \in SUBSET Names
    /\ rows \in Seq(Objs)
    /\ sel \in Objs \cup {None} /\ cur \in Objs \cup {None}
    /\ w \in Widgets
    /\ open \in BOOLEAN
    /\ edits \in 0..MaxEdits /\ admins \in 0..MaxAdmin

-----------------------------------------------------------------------------
\* The object layer.

\* Mutant of Reload: the handle is opened again and thrown away.
ReloadNothing(r, unread) == r

\* nwamui_object_real_open(OPEN) and what reload does on top of it: a name that
\* is not stored keeps the handle it has, and a read that fails for any other
\* reason leaves none; nwam_enm_modified is not reset.
Reload(r, unread) ==
    IF unread THEN [r EXCEPT !.h = NoHandle]
    ELSE IF store[r.name] # Absent THEN [r EXCEPT !.h = store[r.name], !.fresh = FALSE] ELSE r

\* Does reading from nwamd fail in this handler?
Trouble(some) == IF some THEN admins < MaxAdmin /\ admins' = admins + 1 ELSE UNCHANGED admins

\* nwamui_enm_new(): open the stored modifier or else, also if it cannot be
\* read, create one in memory, which may fail.
NewEnm(n, unread) ==
    LET blank == [name |-> n, h |-> NoHandle, mod |-> FALSE, fresh |-> FALSE,
                  frozen |-> FALSE, act |-> n \in online]
    IN  IF store[n] # Absent /\ ~unread THEN {Reload(blank, FALSE)}
        ELSE {[blank EXCEPT !.h = NewContent, !.mod = TRUE, !.fresh = TRUE], blank}

\* set_start_command(), set_stop_command(): an empty text deletes the property,
\* and deleting a start command that is not there is an error.
CmdFails(r, t) == r.h = NoHandle \/ (t = 0 /\ r.h.cmd = 0)
SetCmdUnmarked(r, t) == IF CmdFails(r, t) THEN r ELSE [r EXCEPT !.h.cmd = t]
SetCmd(r, t) == IF CmdFails(r, t) THEN r ELSE [r EXCEPT !.h.cmd = t, !.mod = TRUE]

\* set_smf_fmri()
FmriFails(r, t) == r.h = NoHandle \/ (t = 0 /\ r.h.fmri = 0)
SetFmri(r, t) == IF FmriFails(r, t) THEN r ELSE [r EXCEPT !.h.fmri = t, !.mod = TRUE]

SetMode(r, m) == IF r.h = NoHandle THEN r ELSE [r EXCEPT !.h.mode = m, !.mod = TRUE]

\* set_conditions(NULL) makes the modifier manual and keeps its conditions.
SetConditions(r, some) ==
    IF r.h = NoHandle THEN r
    ELSE IF some THEN [r EXCEPT !.h.conds = TRUE, !.mod = TRUE]
    ELSE SetMode(r, "manual")

\* nwamui_object_get_activation_mode(): a missing handle reads as manual.
ModeOf(r) == IF r.h = NoHandle THEN "manual" ELSE r.h.mode
HasConds(r) == r.h # NoHandle /\ r.h.conds

-----------------------------------------------------------------------------
\* The widgets of the panel.

\* nwam_vpn_selection_changed() with a row selected: everything is read from
\* the object again.
LoadWidgets(r) ==
    LET c == IF r.h = NoHandle THEN NewContent ELSE r.h
    IN  [cmd |-> c.cmd, fmri |-> c.fmri, cli |-> c.cmd # 0 \/ c.fmri = 0,
         cond |-> Conditional(c), sens |-> TRUE,
         startBtn |-> ~Conditional(c) /\ ~r.act /\ (c.cmd # 0 \/ c.fmri # 0),
         stopBtn |-> ~Conditional(c) /\ r.act]

\* The same handler with no row selected.
BlankWidgets == [w EXCEPT !.cmd = 0, !.fmri = 0, !.sens = FALSE,
                          !.startBtn = FALSE, !.stopBtn = FALSE]

\* The row-changed handler: a notification of the selected row's object makes
\* the panel read that object again, unless its notifications are frozen.
Heard(o, r) == sel = o /\ o # None /\ ~r.frozen

Notify(o, r) ==
    /\ w' = IF Heard(o, r) THEN LoadWidgets(r) ELSE w
    /\ cur' = IF Heard(o, r) THEN o ELSE cur

-----------------------------------------------------------------------------
\* nwam_update_obj(): the widgets are written to the object.  It returns FALSE
\* without thawing the notifications it froze, and without undoing what it
\* wrote before.

UpdateCommands(r) ==
    IF w.cli
    THEN LET done == IF r.h # NoHandle /\ r.h.cmd = 2 /\ w.cmd = 2 THEN r ELSE SetCmd(r, w.cmd)
         IN  [ok |-> ~CmdFails(r, w.cmd),
              r |-> IF CmdFails(r, w.cmd) THEN r ELSE SetFmri(done, 0)]
    ELSE IF r.h = NoHandle THEN [ok |-> w.fmri = 0, r |-> r]
    ELSE LET named == IF w.fmri = r.h.fmri THEN r ELSE SetFmri(r, w.fmri)
         IN  [ok |-> TRUE, r |-> [SetCmd(named, 0) EXCEPT !.mod = TRUE]]

UpdateMode(r) ==
    IF ~w.cond
    THEN [ok |-> TRUE, r |-> IF ModeOf(r) = "manual" THEN r
                             ELSE SetConditions(SetMode(r, "manual"), FALSE)]
    ELSE [ok |-> HasConds(r),
          r |-> IF HasConds(r) /\ ModeOf(r) = "manual" THEN SetMode(r, "all") ELSE r]

UpdateObj(r) ==
    LET c == UpdateCommands(r)
        m == UpdateMode(c.r)
    IN  IF ~c.ok THEN [ok |-> FALSE, r |-> [c.r EXCEPT !.frozen = TRUE]]
        ELSE IF ~m.ok THEN [ok |-> FALSE, r |-> [m.r EXCEPT !.frozen = TRUE]]
        ELSE m

\* What the callers of nwam_update_obj() see: with no current object there is
\* nothing to update.
Update == IF cur = None THEN [ok |-> TRUE] ELSE UpdateObj(objs[cur])
Updated == IF cur = None THEN objs ELSE [objs EXCEPT ![cur] = Update.r]

-----------------------------------------------------------------------------
RowSet == ToSet(rows)
RowNames == {objs[o].name : o \in RowSet}
Named(n) == {o \in listed : objs[o].name = n}
Without(q, o) == RemoveAt(q, CHOOSE i \in DOMAIN q : q[i] = o)
Free == {o \in Objs : objs[o] = None}
MayEdit == open /\ edits < MaxEdits

\* Objects nothing refers to are freed.  prv->cur_obj holds no reference, so
\* its target may be freed memory; the model keeps its old contents.
Collect(os, rws, ls, c) ==
    [o \in Objs |-> IF o \in ToSet(rws) \cup ls \cup {c} THEN os[o] ELSE None]

\* nwamd reports a commit as a new or as a changed modifier.
Saved(n) == [act |-> IF store[n] = Absent THEN "ADD" ELSE "REFRESH", name |-> n]
Room(k) == Len(queue) + k <= MaxQueue

-----------------------------------------------------------------------------
\* The user's actions on the list of modifiers.

\* vpn_clicked_cb() of the status panel: refresh() fills the list store from
\* the daemon object, and the dialog is run.  Clearing the store unselects
\* the row, but prv->cur_obj keeps pointing to it.
OpenDialog ==
    /\ ~open
    /\ open' = TRUE
    /\ rows' = SetToSeq(listed)
    /\ sel' = None
    /\ w' = BlankWidgets
    /\ objs' = Collect(objs, rows', listed, cur)
    /\ UNCHANGED <<nwamd, daemon, cur, edits, admins>>

\* on_add_btn_clicked() and create_object(): the current object is updated
\* first, and the new one is appended, selected, and given a name no row has.
AddModifier ==
    /\ MayEdit
    /\ IF ~Update.ok
       THEN objs' = Updated /\ UNCHANGED <<rows, sel, cur, w, admins>>
       ELSE \E o \in Free, n \in Names \ RowNames, unread \in BOOLEAN :
            \E r \in NewEnm(n, unread) :
              /\ Trouble(unread)
              /\ rows' = Append(rows, o)
              /\ sel' = o /\ cur' = o /\ w' = LoadWidgets(r)
              /\ objs' = [Collect(Updated, rows, listed, None) EXCEPT ![o] = r]
    /\ edits' = edits + 1
    /\ UNCHANGED <<nwamd, daemon, open>>

\* A click on another row.  nwam_vpn_pre_selection_validate() updates the row
\* that is left and refuses to leave it when that fails.
SelectRow(o) ==
    /\ open /\ o \in RowSet /\ o # sel
    /\ LET leaves == sel = None \/ Update.ok
           os == IF sel = None THEN objs ELSE Updated
       IN  /\ objs' = IF leaves THEN Collect(os, rows, listed, o) ELSE os
           /\ IF leaves THEN sel' = o /\ cur' = o /\ w' = LoadWidgets(os[o])
                        ELSE UNCHANGED <<sel, cur, w>>
    /\ UNCHANGED <<nwamd, daemon, rows, open, edits, admins>>

\* on_remove_btn_clicked() and remove_object(): the modifier is destroyed at
\* once, and the row goes whether or not nwam_enm_destroy() succeeds.
RemoveModifier ==
    /\ MayEdit /\ sel # None /\ ~objs[sel].act
    /\ LET r == objs[sel]
       IN  \/ /\ r.h # NoHandle /\ store[r.name] # Absent /\ Room(1)
              /\ store' = [store EXCEPT ![r.name] = Absent]
              /\ online' = online \ {r.name}
              /\ queue' = Append(queue, [act |-> "DESTROY", name |-> r.name])
              /\ objs' = Collect([objs EXCEPT ![sel].h = NoHandle],
                                 Without(rows, sel), listed, None)
           \/ /\ objs' = Collect(objs, Without(rows, sel), listed, None)
              /\ UNCHANGED nwamd
    /\ rows' = Without(rows, sel)
    /\ cur' = None
    /\ sel' = None /\ w' = BlankWidgets
    /\ edits' = edits + 1
    /\ UNCHANGED <<daemon, open, admins>>

\* rename_object(), nwamui_object_name_cell_edited() and set_name(): only an
\* object that was never committed and has a handle, to a name no other row has.
Rename ==
    /\ MayEdit /\ sel # None /\ objs[sel].fresh /\ objs[sel].h # NoHandle /\ ~objs[sel].act
    /\ \E n \in Names \ RowNames :
          LET r == [objs[sel] EXCEPT !.name = n, !.mod = TRUE]
          IN  /\ objs' = [objs EXCEPT ![sel] = r] /\ Notify(sel, r)
              /\ strays' = IF sel \in listed /\ Named(n) # {} THEN strays \cup {n} ELSE strays
    /\ edits' = edits + 1
    /\ UNCHANGED <<nwamd, listed, rows, sel, open, admins>>

-----------------------------------------------------------------------------
\* The user's actions on the panel.

\* command_entry_changed() for the start and stop entries: the text is written
\* to the object at once, with the row-changed handler disconnected.
EditCommand ==
    /\ MayEdit /\ w.sens /\ w.cli
    /\ \E t \in {w.cmd - 1, w.cmd + 1} \cap Cmds :
          LET r == objs[cur]
              ok == ~CmdFails(r, t) /\ ~w.cond
          IN  /\ objs' = [objs EXCEPT ![cur] = SetCmd(r, t)]
              /\ w' = IF 2 \in {t, w.cmd}
                      THEN [w EXCEPT !.cmd = t, !.stopBtn = r.act /\ ok]
                      ELSE [w EXCEPT !.cmd = t, !.startBtn = ~r.act /\ ok]
    /\ edits' = edits + 1
    /\ UNCHANGED <<nwamd, daemon, rows, sel, cur, open, admins>>

\* The same handler for the service entry.
EditService ==
    /\ MayEdit /\ w.sens /\ ~w.cli
    /\ LET r == objs[cur]
           t == 1 - w.fmri
           ok == ~FmriFails(r, t) /\ ~w.cond
       IN  /\ objs' = [objs EXCEPT ![cur] = SetFmri(r, t)]
           /\ w' = [w EXCEPT !.fmri = t, !.startBtn = ok /\ ~r.act, !.stopBtn = ok /\ r.act]
    /\ edits' = edits + 1
    /\ UNCHANGED <<nwamd, daemon, rows, sel, cur, open, admins>>

\* on_radio_button_toggled(): which entries are sensitive, nothing else.
ToggleKind ==
    /\ MayEdit /\ w.sens
    /\ w' = [w EXCEPT !.cli = ~@]
    /\ edits' = edits + 1
    /\ UNCHANGED <<nwamd, objs, daemon, rows, sel, cur, open, admins>>

\* conditional_toggled_cb(): the buttons follow the check box, the object does not.
ToggleConditional ==
    /\ MayEdit /\ w.sens
    /\ LET act == cur # None /\ objs[cur].act
       IN  w' = [w EXCEPT !.cond = ~@, !.startBtn = w.cond /\ ~act, !.stopBtn = w.cond /\ act]
    /\ edits' = edits + 1
    /\ UNCHANGED <<nwamd, objs, daemon, rows, sel, cur, open, admins>>

\* on_rules_button_clicked() and the rules dialog's apply(): the mode is
\* written, then the conditions of its rows.
Rules ==
    /\ MayEdit /\ sel # None /\ w.sens /\ w.cond
    /\ \E m \in {"any", "all"}, some \in BOOLEAN :
          LET r == SetConditions(SetMode(objs[sel], m), some)
          IN  objs' = [objs EXCEPT ![sel] = r] /\ Notify(sel, r)
    /\ edits' = edits + 1
    /\ UNCHANGED <<nwamd, daemon, rows, sel, open, admins>>

\* vpn_pref_clicked_cb() for Start and Stop: update, commit without validating,
\* make the daemon object know the object, and only then enable or disable it.
StartStop(on) ==
    /\ MayEdit /\ sel # None
    /\ IF on THEN w.startBtn ELSE w.stopBtn
    /\ \E fails \in BOOLEAN :
       LET r == Update.r
           n == r.name
       IN  IF ~Update.ok \/ r.h = NoHandle \/ (r.mod /\ (fails \/ ~Valid(r.h)))
           THEN /\ objs' = Updated
                /\ IF Update.ok THEN Notify(cur, r) ELSE UNCHANGED <<cur, w>>
                /\ UNCHANGED <<nwamd, daemon>>
           ELSE LET done == [r EXCEPT !.mod = FALSE, !.fresh = FALSE]
                    st == IF r.mod THEN [store EXCEPT ![n] = r.h] ELSE store
                    enables == st[n] # Absent /\ (n \in online) # on
                IN  /\ Room(2)
                    /\ store' = st
                    /\ objs' = [objs EXCEPT ![cur] = done]
                    /\ listed' = listed \cup {cur}
                    /\ strays' = IF Named(n) \ {cur} = {} /\ (cur \in listed \/ r.h = st[n])
                                  THEN strays ELSE strays \cup {n}
                    /\ Notify(cur, done)
                    /\ online' = IF ~enables THEN online
                                 ELSE IF on THEN online \cup {n} ELSE online \ {n}
                    /\ queue' = queue \o (IF r.mod THEN <<Saved(n)>> ELSE <<>>)
                               \o (IF enables THEN <<[act |-> "STATE", name |-> n, on |-> on]>>
                                   ELSE <<>>)
    /\ edits' = edits + 1
    /\ UNCHANGED <<rows, sel, open, admins>>

-----------------------------------------------------------------------------
\* OK and Cancel.

\* A button is pressed: the dialog is hidden if what it stands for is done.
Responds(done) == open /\ open' = ~done

\* Can row i be validated and committed?  Without modifications there is
\* nothing to do; with a handle that is NULL the commit fails.
Commits(os, i) == os[rows[i]].mod => os[rows[i]].h # NoHandle /\ Valid(os[rows[i]].h)

\* The rows before row i that there is something to commit of.
Committed(os, i) == {j \in 1..(i - 1) : os[rows[j]].mod}

\* capplet_tree_model_foreach_nwamui_object_commit(): the rows before i are
\* committed, and the loop stops at row i, whose validation or commit failed
\* (any commit may fail); i past the end means that all succeeded.
CommitRows(os, i) ==
    /\ \A j \in 1..(i - 1) : Commits(os, j)
    /\ i <= Len(rows) => os[rows[i]].mod
    /\ store' = [n \in Names |->
                    LET of == {j \in Committed(os, i) : os[rows[j]].name = n}
                    IN  IF of = {} THEN store[n]
                        ELSE os[rows[CHOOSE j \in of : \A k \in of : k <= j]].h]
    /\ objs' = [o \in Objs |-> IF \E j \in Committed(os, i) : rows[j] = o
                               THEN [os[o] EXCEPT !.mod = FALSE, !.fresh = FALSE] ELSE os[o]]

\* The numbers of a set in their order.
Ordered(S) == {f \in [1..Cardinality(S) -> S] : /\ S = Range(f)
                                                /\ \A j, k \in DOMAIN f : j < k => f[j] < f[k]}

\* nwamd reports the commits in the order of the rows.
Reported(os, i) ==
    /\ Room(Cardinality(Committed(os, i)))
    /\ \E order \in Ordered(Committed(os, i)) :
          queue' = queue \o [k \in DOMAIN order |-> Saved(os[rows[order[k]]].name)]

\* apply() and response_cb(OK): the current object is updated, the rows are
\* committed even if that failed, and the dialog is hidden if nothing failed.
\* Otherwise the failing row is selected, if the update had succeeded.
Ok ==
    /\ \E i \in 1..(Len(rows) + 1) :
          /\ CommitRows(Updated, i) /\ Reported(Updated, i)
          /\ Responds(Update.ok /\ i > Len(rows))
          /\ IF Update.ok /\ i <= Len(rows)
             THEN sel' = rows[i] /\ cur' = rows[i] /\ w' = LoadWidgets(objs'[rows[i]])
             ELSE /\ sel' = sel
                  /\ IF cur # None /\ Update.ok THEN Notify(cur, objs'[cur])
                     ELSE UNCHANGED <<cur, w>>
    /\ UNCHANGED <<online, daemon, rows, edits, admins>>

\* cancel() and response_cb(CANCEL): every row is read from the store again,
\* which may fail for some; the selected row's panel follows; then the current
\* object is forgotten.
Cancel ==
    /\ Responds(TRUE)
    /\ \E unread \in SUBSET RowSet :
          /\ Trouble(unread # {})
          /\ objs' = Collect([o \in Objs |-> IF o \in RowSet THEN Reload(objs[o], o \in unread)
                                            ELSE objs[o]],
                             rows, listed, None)
    /\ w' = IF Heard(sel, objs'[sel]) THEN LoadWidgets(objs'[sel]) ELSE w
    /\ cur' = None
    /\ UNCHANGED <<nwamd, daemon, rows, sel, edits>>

-----------------------------------------------------------------------------
\* The daemon object handles the events of nwamd in order.  An object is found
\* by its name among the ones it lists.

Head1 == Head(queue)
Take(act) == queue # <<>> /\ Head1.act = act /\ queue' = Tail(queue)
EventKeeps == UNCHANGED <<store, online, strays, rows, sel, open, edits>>

\* NWAM_ACTION_ADD: unless an object of that name is listed, a new one is.
EventAdd ==
    /\ Take("ADD")
    /\ IF Named(Head1.name) # {} THEN UNCHANGED <<objs, listed, admins>>
       ELSE \E o \in Free, unread \in BOOLEAN : \E r \in NewEnm(Head1.name, unread) :
              /\ Trouble(unread)
              /\ objs' = [objs EXCEPT ![o] = r] /\ listed' = listed \cup {o}
    /\ UNCHANGED <<cur, w>> /\ EventKeeps

\* Mutant of EventRefresh: the object a dialog may show is left alone.
EventRefreshSkipped ==
    Take("REFRESH") /\ UNCHANGED <<objs, cur, w, listed, admins>> /\ EventKeeps

\* NWAM_ACTION_REFRESH: read again, which may fail, unless the object has
\* modifications.
EventRefresh ==
    /\ Take("REFRESH")
    /\ IF Named(Head1.name) = {} THEN UNCHANGED <<objs, cur, w, admins>>
       ELSE \E o \in Named(Head1.name), unread \in BOOLEAN :
              LET r == IF objs[o].mod THEN objs[o] ELSE Reload(objs[o], unread)
              IN  /\ Trouble(unread) /\ objs' = [objs EXCEPT ![o] = r]
                  /\ IF objs[o].mod THEN UNCHANGED <<cur, w>> ELSE Notify(o, r)
    /\ UNCHANGED listed /\ EventKeeps

\* NWAM_ACTION_DESTROY: the daemon object drops it; a row keeps it alive.
EventDestroy ==
    /\ Take("DESTROY")
    /\ IF Named(Head1.name) = {} THEN UNCHANGED <<objs, listed>>
       ELSE \E o \in Named(Head1.name) :
              /\ listed' = listed \ {o}
              /\ objs' = Collect(objs, rows, listed \ {o}, cur)
    /\ UNCHANGED <<cur, w, admins>> /\ EventKeeps

\* A state event: the cached state changes and the object notifies.
EventState ==
    /\ Take("STATE")
    /\ IF Named(Head1.name) = {} THEN UNCHANGED <<objs, cur, w>>
       ELSE \E o \in Named(Head1.name) :
              LET r == [objs[o] EXCEPT !.act = Head1.on]
              IN  objs' = [objs EXCEPT ![o] = r]
                  /\ IF r = objs[o] THEN UNCHANGED <<cur, w>> ELSE Notify(o, r)
    /\ UNCHANGED <<listed, admins>> /\ EventKeeps

-----------------------------------------------------------------------------
\* nwamd and the administrator.

\* A modifier is created or changed with nwamcfg(1M).
Configure ==
    /\ admins < MaxAdmin /\ Room(1)
    /\ \E n \in Names, c \in Samples :
          /\ c # store[n]
          /\ store' = [store EXCEPT ![n] = c]
          /\ queue' = Append(queue, Saved(n))
    /\ admins' = admins + 1
    /\ UNCHANGED <<online, objs, daemon, ui, edits>>

\* A modifier starts or stops on its own.
Flip ==
    /\ admins < MaxAdmin /\ Room(1)
    /\ \E n \in Names :
          /\ store[n] # Absent
          /\ online' = IF n \in online THEN online \ {n} ELSE online \cup {n}
          /\ queue' = Append(queue, [act |-> "STATE", name |-> n, on |-> n \notin online])
    /\ admins' = admins + 1
    /\ UNCHANGED <<store, objs, daemon, ui, edits>>

-----------------------------------------------------------------------------
\* Before the dialog exists the daemon object lists every stored modifier.
Init ==
    /\ store \in Stores
    /\ online = {} /\ queue = <<>>
    /\ LET of == CHOOSE f \in [Names -> Objs] : \A m, n \in Names : m # n => f[m] # f[n]
           stored == {n \in Names : store[n] # Absent}
       IN  /\ listed = {of[n] : n \in stored}
           /\ objs = [o \in Objs |->
                        IF \E n \in stored : of[n] = o
                        THEN LET n == CHOOSE n \in stored : of[n] = o
                             IN  [name |-> n, h |-> store[n], mod |-> FALSE, fresh |-> FALSE,
                                  frozen |-> FALSE, act |-> FALSE]
                        ELSE None]
    /\ strays = {} /\ rows = <<>> /\ sel = None /\ cur = None /\ open = FALSE
    /\ w = [cmd |-> 0, fmri |-> 0, cli |-> TRUE, cond |-> FALSE, sens |-> FALSE,
            startBtn |-> FALSE, stopBtn |-> FALSE]
    /\ edits = 0 /\ admins = 0

Next ==
    \/ OpenDialog \/ AddModifier \/ RemoveModifier \/ Rename
    \/ \E o \in Objs : SelectRow(o)
    \/ EditCommand \/ EditService \/ ToggleKind \/ ToggleConditional \/ Rules
    \/ \E on \in BOOLEAN : StartStop(on)
    \/ Ok \/ Cancel
    \/ EventAdd \/ EventRefresh \/ EventDestroy \/ EventState
    \/ Configure \/ Flip

Spec == Init /\ [][Next]_vars

-----------------------------------------------------------------------------
\* Properties.

\* Does nwamd have a change of modifier n to tell the daemon object about?
Untold(n) == \E k \in 1..Len(queue) : queue[k].name = n /\ queue[k].act # "STATE"

\* The state is well typed and, once every change is told, a listed modifier
\* without modifications has the stored properties, whatever the dialog
\* committed or reverted in the meantime, unless its handle is NULL: the dialog
\* destroyed it, or it could not be read when it was last looked at.  The
\* names of strays are left out: an event of nwamd is given to one modifier, the
\* other of two is never heard of again, and the news of one the dialog listed
\* late was already told.
ListedConverges ==
    TypeOK /\ \A o \in listed :
        ~objs[o].mod /\ objs[o].h # NoHandle /\ store[objs[o].name] # Absent
            /\ objs[o].name \notin strays /\ ~Untold(objs[o].name)
            => objs[o].h = store[objs[o].name]

\* A modifier is only started or stopped from the dialog with its properties
\* already stored, unless a change of them is still untold or its name strayed.
StartsWhatIsSaved ==
    [][online' # online /\ edits' # edits /\ sel' # None =>
        LET n == objs[cur].name
        IN  n \in strays' \/ Untold(n) \/ objs'[cur].h = store'[n]]_vars

\* The dialog keeps the promises of EditStore: OK saves the drafts that are
\* shown, Cancel gives every stored modifier back what is stored, or leaves it
\* without a handle if it cannot be read, and a modifier without a handle never
\* reaches the store (apply(), cancel(), nwamui_object_real_reload()).
Promise == INSTANCE EditStore WITH
    Drafts <- Objs,
    Unread <- NoHandle,
    stored <- store,
    draft  <- [o \in Objs |-> IF objs[o] = None THEN None
                              ELSE [name |-> objs[o].name, text |-> objs[o].h]],
    dirty  <- {o \in Objs : objs[o] # None /\ objs[o].mod},
    shown  <- RowSet
PromiseKept == Promise!Spec
=============================================================================
