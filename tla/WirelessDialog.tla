--------------------------- MODULE WirelessDialog ---------------------------
(* The wireless network dialog (nwam_wireless_dialog.c): one instance per     *)
(* process, used                                                              *)
(*   - by nwam-manager, to join a network that is not listed and to ask for   *)
(*     the key of one (status_icon.c, nwam_wireless_chooser.c);               *)
(*   - by nwam-manager-properties, to add and to edit favourites, from the    *)
(*     list of favourites in the panel of a wireless connection               *)
(*     (nwam_conn_conf_ip_panel.c, nwam_tree_view.c).                         *)
(* With it the objects it edits: plain networks (nwamui_wifi_net.c) and known *)
(* WLANs (nwamui_known_wlan.c), and the daemon object's list of known WLANs   *)
(* (nwamui_daemon.c), which follows nwamd's events.                           *)
(*                                                                            *)
(* The entry of the ESSID, the list of BSSIDs, the security mode and the key  *)
(* are widgets: the handlers of their "changed" signals run whenever their    *)
(* content changes, whoever changes it.  Keys are told apart by the rules     *)
(* they meet.  WPA enterprise is not built; the index of a WEP key, the       *)
(* signal strength and the visibility of the key are left out.                *)
EXTENDS Naturals, Sequences, FiniteSets, SequencesExt

CONSTANTS
    Essids,     \* names of networks
    Objs,       \* identities of NwamuiWifiNet and NwamuiKnownWlan objects
    Nil,        \* no object
    Absent,     \* a name with nothing stored
    Programs,   \* the programs to look at
    Favourites, \* what may be stored at first
    Air,        \* the networks nwam-manager has seen: a function Essids -> Secs
    MaxEdits,   \* bound on the user's actions
    MaxAdmin,   \* bound on the changes by others
    MaxQueue    \* bound on the undelivered events of nwamd

ASSUME BoundsAssumption ==
    MaxEdits \in Nat /\ MaxAdmin \in Nat /\ MaxQueue \in Nat /\ IsFiniteSet(Objs)

VARIABLES
    program,    \* the process: "manager", "properties", then "gone" or "aborted"
    store,      \* nwamd: the known WLANs
    keys,       \* nwamd: the key stored for each network, with its security mode
    request,    \* nwamd: the last nwam_wlan_select()
    queue,      \* events of nwamd the daemon object has not handled yet
    objs,       \* the objects
    listed,     \* managed_list[MANAGED_KNOWN_WLAN]
    hash,       \* the networks seen by the wireless connection
    combo,      \* the rows of the ESSID combo box: security by name
    rows,       \* the rows of the list of favourites
    sel,        \* the object of its selected row
    dlg,        \* the dialog
    asked,      \* nwam-manager: the last network that was prompted for
    excused,    \* networks whose removal failed, or that were added twice
    edits, admins

nwamd    == <<store, keys, request, queue>>
panel    == <<rows, sel>>
wlanVars == <<program, store, keys, request, queue, objs, listed, hash, combo, rows,
              sel, dlg, asked, excused, edits, admins>>

Secs  == {"none", "wep", "wpa"}
Blank == ""
Fake  == "Password saved, click here to change"
\* Keys by length: 5 characters make a WEP key, 20 a WPA key.
Texts == {Blank, "5", "20"}
\* Access points; "?" is a row that is no address, as a new row is.
Rows  == {"ap", "?"}

Known == [sec : Secs, bss : SUBSET Rows, prio : Nat]
Wifi  == [known : BOOLEAN, name : Essids, sec : Secs, bss : SUBSET Rows,
          h : Known, mod : BOOLEAN]
Event == [act : {"ADD", "REFRESH", "DESTROY"}, name : Essids]
Dialog == [open : BOOLEAN, obj : Objs \cup {Nil}, purpose : {"add", "join", "edit"},
           conn : BOOLEAN, keyCh : BOOLEAN, secCh : BOOLEAN,
           essid : Essids \cup {Blank}, bss : SUBSET Rows, sec : Secs,
           key : Texts \cup {Fake}, byUser : BOOLEAN, ok : BOOLEAN,
           sens : BOOLEAN, focus : BOOLEAN,
           typed : BOOLEAN]   \* history: see SetWifiNet

\* What is stored at first and what is on the air are networks.
ASSUME NetworksAssumption ==
    /\ Nil \notin Objs \cup Wifi /\ Absent \notin Known /\ Blank \notin Essids
    /\ Programs \subseteq {"manager", "properties"}
    /\ \A s \in Favourites : /\ s \in [Essids -> Known \cup {Absent}]
                             /\ \A e \in Essids : s[e] # Absent => s[e].bss \subseteq {"ap"}
    /\ DOMAIN Air \subseteq Essids /\ Air \in [DOMAIN Air -> Secs]

\* The types, and what nothing in the code says in one place: no known WLAN is
\* made without a name, though the dialog skips the check of the name while its
\* entry is insensitive; no address that ether_aton() rejects is stored; a fake
\* key is in the entry only of a dialog that edits a known WLAN (or has just
\* done so); the dialog's object exists.
WlanTypeOK ==
    /\ program \in {"manager", "properties", "gone", "aborted"}
    /\ store \in [Essids -> Known \cup {Absent}]
    /\ \A e \in Essids : store[e] # Absent => store[e].bss \subseteq {"ap"}
    /\ keys \in [Essids -> [text : Texts \cup {Fake}, sec : Secs] \cup {Nil}]
    /\ objs \in [Objs -> Wifi \cup {Nil}]
    /\ \A o \in Objs : objs[o] # Nil => objs[o].bss \cup objs[o].h.bss \subseteq {"ap"}
    /\ listed \in Seq(Objs) /\ rows \in Seq(Objs) /\ hash \subseteq Objs
    /\ \A o \in hash : objs[o] # Nil /\ ~objs[o].known
    /\ \A o \in Range(listed) \cup Range(rows) : objs[o] # Nil /\ objs[o].known
    /\ combo \in [Essids -> Secs \cup {Absent}]
    /\ dlg \in Dialog
    /\ dlg.obj # Nil => objs[dlg.obj] # Nil
    /\ dlg.key = Fake => dlg.obj # Nil /\ objs[dlg.obj].known /\ ~dlg.conn
    /\ sel # Nil => sel \in Range(rows)
    /\ asked \in hash \cup {Nil}

-----------------------------------------------------------------------------
\* Known WLANs.

NewProps == [sec |-> "none", bss |-> {}, prio |-> 0]

\* nwamui_known_wifi_new(): open the stored one, or else create one in memory.
\* The cached security mode is not read.
NewKnown(e) ==
    [known |-> TRUE, name |-> e, sec |-> "none", bss |-> {}, mod |-> FALSE,
     h |-> IF store[e] # Absent THEN store[e] ELSE NewProps]

\* nwamui_wifi_net_new(): a plain network keeps its properties itself.
NewWlan(e) ==
    [known |-> FALSE, name |-> e, sec |-> "none", bss |-> {}, mod |-> TRUE, h |-> NewProps]

\* nwamui_object_real_reload(): read again what is stored, if anything is.
Reload(r) ==
    LET t == IF store[r.name] # Absent THEN [r EXCEPT !.h = store[r.name]] ELSE r
    IN  [t EXCEPT !.sec = t.h.sec]

BssOf(r) == IF r.known THEN r.h.bss ELSE r.bss

\* The properties "security" and "bssid_list", which a known WLAN overrides.
SetNet(r, s, b) ==
    IF ~r.known THEN [r EXCEPT !.sec = s, !.bss = b, !.mod = TRUE]
    ELSE [r EXCEPT !.sec = s, !.h.sec = s, !.h.bss = b, !.mod = TRUE]

SetPrio(r, p) == [r EXCEPT !.h.prio = p, !.mod = TRUE]

\* nwamui_object_real_add(): sorted by priority, before its equals.
Inserted(l, o, table) ==
    LET n == Cardinality({i \in DOMAIN l : \A j \in 1..i : table[l[j]].h.prio < table[o].h.prio})
    IN  InsertAt(l, n + 1, o)

\* The places in the list of the favourites of a name, and the first of them.
Named(e) == {i \in DOMAIN listed : objs[listed[i]].name = e}
FirstOf(S) == CHOOSE i \in S : \A j \in S : i <= j
Found(e) == listed[FirstOf(Named(e))]
Without(l, o) == RemoveAt(l, FirstOf({i \in DOMAIN l : l[i] = o}))

Free == {o \in Objs : objs[o] = Nil}
Fresh == CHOOSE o \in Free : TRUE
\* Objects nothing refers to are freed.
Collect(table, used) == [o \in Objs |-> IF o \in used THEN table[o] ELSE Nil]
\* ... but for those the dialog refers to.
Kept(table, used) == Collect(table, used \cup {dlg.obj})
InLists == hash \cup Range(listed) \cup Range(rows)

EventFor(act, e) == [act |-> act, name |-> e]
Room == Len(queue) < MaxQueue
EventOf(e) == EventFor(IF store[e] = Absent THEN "ADD" ELSE "REFRESH", e)
User == edits < MaxEdits /\ edits' = edits + 1 /\ UNCHANGED admins

-----------------------------------------------------------------------------
\* The widgets of the dialog.

\* The objects of nwam-manager's dialog are plain networks, those of the other
\* program's known WLANs.
IsKnown(x) == x.obj # Nil /\ program # "manager"
EditsKnown(x) == x.purpose = "edit" /\ IsKnown(x)

\* essid_changed_cb(): the list of BSSIDs is emptied, OK needs a name.
SetEssid(x, e) ==
    IF e = x.essid THEN x ELSE [x EXCEPT !.essid = e, !.bss = {}, !.ok = (e # Blank)]

\* security_selection_cb()
SetSec(x, s) == IF s = x.sec THEN x ELSE [x EXCEPT !.sec = s, !.secCh = TRUE]

\* key_entry_changed_cb()
ShowKey(x, k, u) ==
    IF k = x.key THEN x
    ELSE [x EXCEPT !.key = k, !.keyCh = TRUE, !.byUser = u, !.typed = u,
                   !.ok = IF EditsKnown(x) THEN k # Blank ELSE @]

\* The property "key": the fake key stands for one that is stored.
SetKey(x, k) ==
    ShowKey(x, IF k = Blank /\ ~x.conn /\ IsKnown(x) THEN Fake ELSE k, FALSE)

\* "Clean security info"
Blanked(x) == SetSec(SetKey([SetEssid(x, Blank) EXCEPT !.bss = {}], Blank), "none")

\* Mutant of Unset: the dialog keeps the network it has.
UnsetKeeps(x) == Blanked(x)

\* nwam_wireless_dialog_set_wifi_net(NULL)
Unset(x) == Blanked([x EXCEPT !.obj = Nil, !.typed = FALSE])

\* Mutant of SetWifiNet: the entry keeps the key it has.
SetWifiNetKeepsKey(x, o, t) ==
    LET y == [x EXCEPT !.obj = o, !.sens = IF x.purpose = "edit" THEN FALSE ELSE @,
                       !.typed = @ /\ t.sec = "none"]
    IN  SetSec([SetEssid(y, t.name) EXCEPT !.bss = BssOf(t)], t.sec)

\* nwam_wireless_dialog_set_wifi_net(): a known WLAN that is stored cannot be
\* renamed, and a plain network never can.  The key is blanked only for a network
\* with security: what was typed before stays in the entry, though it is hidden,
\* when the dialog is given an open network.  typed says that the user typed the
\* key since the dialog was last given no network or one with security.
SetWifiNet(x, o, t) ==
    LET y == [x EXCEPT !.obj = o, !.sens = IF x.purpose = "edit" THEN FALSE ELSE @,
                       !.typed = @ /\ t.sec = "none"]
        z == SetSec([SetEssid(y, t.name) EXCEPT !.bss = BssOf(t)], t.sec)
    IN  IF t.sec = "none" THEN z ELSE SetKey(z, Blank)

\* refresh(), as nwam-manager calls it, with the purpose "join".
Refreshed(x) ==
    LET y == IF x.obj # Nil THEN x
             ELSE SetSec([SetEssid(x, Blank) EXCEPT !.bss = {}], "none")
    IN  [y EXCEPT !.keyCh = FALSE, !.secCh = FALSE, !.sens = TRUE]

\* The rules for keys, looked at when the key or the security mode changed.
KeyFits(x) ==
    x.keyCh \/ x.secCh => CASE x.sec = "none" -> TRUE
                            [] x.sec = "wep" -> x.key = "5"
                            [] x.sec = "wpa" -> x.key \in {"20", Fake}

\* validate_information(), its checks of the widgets.
Fits(x) == (x.sens => x.essid # Blank) /\ "?" \notin x.bss /\ KeyFits(x)

-----------------------------------------------------------------------------
\* Opening the dialog.

\* populate_essid_combo()
Listing == [e \in Essids |-> IF \E o \in hash : objs[o].name = e
                             THEN objs[CHOOSE o \in hash : objs[o].name = e].sec ELSE Absent]

\* join_wireless(NULL, TRUE): from the menu, from a notification or from the
\* chooser; the dialog is not modal and may be open already.
Join ==
    /\ program = "manager" /\ User
    /\ combo' = Listing
    /\ dlg' = Refreshed([Unset([dlg EXCEPT !.purpose = "join"]) EXCEPT !.conn = TRUE, !.open = TRUE])
    /\ objs' = Collect(objs, InLists \cup {dlg'.obj})
    /\ UNCHANGED <<program, nwamd, listed, hash, panel, asked, excused>>

\* daemon_wifi_key_needed(): nwamd needs the key of a network, which is not the
\* one that was prompted for last; join_wireless(wifi, FALSE).
Prompt(o) ==
    /\ program = "manager" /\ User
    /\ o \in hash \ {asked} /\ asked' = o
    /\ combo' = Listing
    /\ dlg' = Refreshed([SetWifiNet([dlg EXCEPT !.purpose = "join"], o, objs[o])
                         EXCEPT !.conn = FALSE, !.open = TRUE])
    /\ objs' = Collect(objs, InLists \cup {dlg'.obj})
    /\ UNCHANGED <<program, nwamd, listed, hash, panel, excused>>

Panel == program = "properties" /\ ~dlg.open

\* create_object(): nothing refreshes the dialog.
OpenAdd ==
    /\ Panel /\ User
    /\ dlg' = [Unset(dlg) EXCEPT !.purpose = "add", !.open = TRUE]
    /\ objs' = Collect(objs, InLists \cup {dlg'.obj})
    /\ UNCHANGED <<program, nwamd, listed, hash, combo, panel, asked, excused>>

\* edit_object(): the purpose is set after the network, and makes the first
\* click into the entry of the key clear it.
OpenEdit ==
    /\ Panel /\ User
    /\ sel # Nil
    /\ dlg' = [SetWifiNet(dlg, sel, objs[sel])
               EXCEPT !.purpose = "edit", !.focus = TRUE, !.conn = FALSE, !.open = TRUE]
    /\ objs' = Collect(objs, InLists \cup {dlg'.obj})
    /\ UNCHANGED <<program, nwamd, listed, hash, combo, panel, asked, excused>>

-----------------------------------------------------------------------------
\* The user in the dialog.

InDialog(x) ==
    /\ dlg.open /\ User
    /\ dlg' = x
    /\ UNCHANGED <<program, nwamd, objs, listed, hash, combo, panel, asked, excused>>

TypeEssid(e) == dlg.sens /\ e # dlg.essid /\ InDialog(SetEssid(dlg, e))

\* A row of the combo box: the security mode it had when the box was filled,
\* the BSSIDs the network has now.
PickEssid(o) ==
    LET r == objs[o] IN
    /\ program = "manager" /\ o \in hash /\ combo[r.name] # Absent /\ r.name # dlg.essid
    /\ InDialog([SetSec(SetEssid(dlg, r.name), combo[r.name]) EXCEPT !.bss = r.bss])

ChooseSecurity(s) == s # dlg.sec /\ InDialog(SetSec(dlg, s))

\* key_entry_focus_in_cb(), once each time it is connected.
FocusKey ==
    /\ dlg.sec # "none" /\ dlg.focus
    /\ InDialog(LET x == [dlg EXCEPT !.focus = FALSE]
                IN  IF EditsKnown(dlg) THEN [ShowKey(x, Blank, FALSE) EXCEPT !.ok = FALSE] ELSE x)

TypeKey(k) == dlg.sec # "none" /\ ~dlg.focus /\ k # dlg.key /\ InDialog(ShowKey(dlg, k, TRUE))

\* bssid_add_cb(), bssid_edited_cb(), bssid_remove_cb()
EditBssids(b) == b # dlg.bss /\ InDialog([dlg EXCEPT !.bss = b])

\* What the callers do once the dialog is cancelled.
AfterCancel(x) == IF dlg.purpose = "edit" THEN SetWifiNet(x, dlg.obj, objs[dlg.obj]) ELSE x

\* A button of the dialog is pressed.
Responds == dlg.open /\ User

Cancel ==
    /\ Responds
    /\ dlg' = AfterCancel([Unset(dlg) EXCEPT !.open = FALSE])
    /\ objs' = Collect(objs, InLists \cup {dlg'.obj})
    /\ UNCHANGED <<program, nwamd, listed, hash, combo, panel, asked, excused>>

\* The object OK writes to: a new one only if the dialog has none.
Target == IF dlg.obj # Nil THEN dlg.obj ELSE Fresh
Given == IF dlg.obj # Nil THEN objs[dlg.obj]
          ELSE IF dlg.purpose = "add" THEN NewKnown(dlg.essid) ELSE NewWlan(dlg.essid)

\* The rest of validate_information(): the object takes the widgets' content,
\* and the key is stored; storing it may fail.
Written == SetNet(Given, dlg.sec, dlg.bss)
StoresKey == dlg.sec # "none" /\ (dlg.keyCh \/ dlg.secCh)
Presses == /\ Responds /\ dlg.ok
           /\ Fits(dlg)
           /\ dlg.obj = Nil => Free # {} /\ dlg.essid # Blank
           /\ \/ StoresKey /\ keys' = [keys EXCEPT ![Written.name] = [text |-> dlg.key, sec |-> dlg.sec]]
              \/ UNCHANGED keys

\* A known WLAN that libnwam does not accept: the dialog stays open, the object
\* keeps the changes.
OkRejected ==
    /\ Presses
    /\ Written.known
    /\ objs' = [objs EXCEPT ![Target] = Written]
    /\ dlg' = [dlg EXCEPT !.obj = Target]
    /\ UNCHANGED <<program, store, request, queue, listed, hash, combo, panel, asked, excused>>

Accepted(x) == Blanked([x EXCEPT !.obj = Target, !.open = FALSE])

\* nwamui_wifi_net_connect()
Select == [essid |-> Written.name, sec |-> Written.sec]

\* OK in nwam-manager; only a network that was not prompted for is connected.
OkJoin ==
    /\ Presses
    /\ dlg.purpose = "join"
    /\ request' = IF dlg.conn THEN Select ELSE request
    /\ objs' = [objs EXCEPT ![Target] = Written]
    /\ dlg' = Accepted(dlg)
    /\ UNCHANGED <<program, store, queue, listed, hash, combo, panel, asked, excused>>

\* nwamui_object_commit(), which may fail
Commit(r, done) ==
    IF done THEN /\ Room
                 /\ store' = [store EXCEPT ![r.name] = r.h]
                 /\ queue' = Append(queue, EventOf(r.name))
            ELSE UNCHANGED <<store, queue>>

\* OK in the dialog of create_object(): the new favourite is saved and, if that
\* succeeds, added to the daemon object and to the rows.  It is added to the
\* rows even if it could not be saved.
OkAdd ==
    LET r == SetPrio(Written, 0) IN
    /\ Presses
    /\ dlg.purpose = "add"
    /\ \E done \in BOOLEAN :
         /\ Commit(r, done)
         /\ objs' = [objs EXCEPT ![Target] = [r EXCEPT !.mod = ~done]]
         /\ listed' = IF done THEN Inserted(listed, Target, objs') ELSE listed
         /\ excused' = IF done /\ Named(r.name) # {} THEN excused \cup {r.name} ELSE excused
    /\ rows' = Append(rows, Target) /\ sel' = Target
    /\ dlg' = Unset(Accepted(dlg))
    /\ UNCHANGED <<program, request, hash, combo, asked>>

\* OK in the dialog of edit_object(); the dialog is given the network again.
OkEdit ==
    /\ Presses
    /\ dlg.purpose = "edit"
    /\ \E done \in BOOLEAN :
         /\ Commit(Written, done)
         /\ objs' = [objs EXCEPT ![Target] = [Written EXCEPT !.mod = ~done]]
    /\ dlg' = SetWifiNet(Accepted(dlg), Target, objs'[Target])
    /\ UNCHANGED <<program, request, listed, hash, combo, panel, asked, excused>>

-----------------------------------------------------------------------------
\* The list of favourites.

\* populate_wifi_fav(): when the panel is shown, and on each "notify" of its
\* connection, also while the dialog is open; the rows' order is forgotten.
Populate ==
    /\ program = "properties" /\ rows # listed
    /\ User
    /\ rows' = listed /\ sel' = Nil
    /\ objs' = Kept(objs, Range(listed))
    /\ UNCHANGED <<program, nwamd, listed, hash, combo, dlg, asked, excused>>

SelectRow(o) ==
    /\ Panel /\ o \in Range(rows) /\ o # sel
    /\ sel' = o
    /\ UNCHANGED <<program, nwamd, objs, listed, hash, combo, rows, dlg, asked, excused, edits, admins>>

\* wifi_fav_set_prio_next()
Prioritised ==
    [o \in Objs |-> IF o \in Range(rows)
                    THEN SetPrio(objs[o], CHOOSE i \in 0..(Len(rows) - 1) : rows[i + 1] = o)
                    ELSE objs[o]]

\* on_up_btn_clicked() and on_down_btn_clicked() exchange two neighbours.
Move ==
    /\ Panel /\ User
    /\ \E i \in 1..(Len(rows) - 1) :
         /\ sel \in {rows[i], rows[i + 1]}
         /\ rows' = [rows EXCEPT ![i] = rows[i + 1], ![i + 1] = rows[i]]
    /\ UNCHANGED <<program, nwamd, objs, listed, hash, combo, sel, dlg, asked, excused>>

\* Another connection is chosen: the panel is applied and shown again.
SwitchConnection ==
    /\ Panel /\ User
    /\ rows' = listed /\ sel' = Nil
    /\ objs' = Kept(Prioritised, Range(listed))
    /\ UNCHANGED <<program, nwamd, listed, hash, combo, dlg, asked, excused>>

\* remove_object(): what nwam_known_wlan_destroy() says is ignored.
RemoveFavourite ==
    /\ Panel /\ User /\ Room
    /\ sel \in Range(listed)
    /\ LET e == objs[sel].name IN
         \/ /\ store[e] # Absent
            /\ store' = [store EXCEPT ![e] = Absent]
            /\ queue' = Append(queue, EventFor("DESTROY", e))
            /\ UNCHANGED excused
         \/ /\ excused' = IF store[e] # Absent THEN excused \cup {e} ELSE excused
            /\ UNCHANGED <<store, queue>>
    /\ listed' = Without(listed, sel) /\ rows' = Without(rows, sel)
    /\ sel' = Nil
    /\ objs' = Kept(objs, Range(listed') \cup Range(rows'))
    /\ UNCHANGED <<program, keys, request, hash, combo, dlg, asked>>

\* g_assert() in nwamui_object_real_remove(): a row whose object the daemon
\* object has dropped already takes the program with it.
RemoveGone ==
    /\ Panel /\ User
    /\ sel # Nil /\ sel \notin Range(listed)
    /\ program' = "aborted"
    /\ UNCHANGED <<nwamd, objs, listed, hash, combo, panel, dlg, asked, excused>>

\* nwamui_daemon's commit: modified objects in their order up to the first that
\* fails; objects that come before the known WLANs may fail, too.
Changed(table, n) == {i \in 1..n : table[listed[i]].mod}
SavedBy(table, S) ==
    [e \in Essids |->
        LET of == {i \in S : table[listed[i]].name = e}
        IN  IF of = {} THEN store[e]
            ELSE table[listed[CHOOSE i \in of : \A j \in of : j <= i]].h]

\* The numbers of a set in their order.
Ordered(S) == {f \in [1..Cardinality(S) -> S] : /\ S = Range(f)
                                                /\ \A j, k \in DOMAIN f : j < k => f[j] < f[k]}

\* OK in the preferences: the panel is applied and everything committed, then
\* the program ends.
PrefsOk ==
    /\ Panel /\ User
    /\ objs' = Prioritised
    /\ store' = SavedBy(Prioritised, Changed(Prioritised, Len(listed)))
    /\ program' = "gone"
    /\ UNCHANGED <<keys, request, queue, listed, hash, combo, panel, dlg, asked, excused>>

\* A commit that fails leaves the preferences open.
PrefsFail ==
    /\ Panel /\ User
    /\ queue = <<>>
    /\ \E n \in DOMAIN listed :
         LET saved == Changed(Prioritised, n - 1) IN
         /\ Prioritised[listed[n]].mod
         /\ Cardinality(saved) <= MaxQueue
         /\ store' = SavedBy(Prioritised, saved)
         /\ \E order \in Ordered(saved) :
              queue' = [k \in DOMAIN order |-> EventOf(objs[listed[order[k]]].name)]
         /\ objs' = [o \in Objs |-> IF \E i \in saved : listed[i] = o
                                    THEN [Prioritised[o] EXCEPT !.mod = FALSE] ELSE Prioritised[o]]
    /\ UNCHANGED <<program, keys, request, listed, hash, combo, panel, dlg, asked, excused>>

-----------------------------------------------------------------------------
\* nwamd and the daemon object.

\* Someone else adds, changes or removes a favourite.
Configure(e) ==
    /\ program = "properties" /\ admins < MaxAdmin /\ admins' = admins + 1
    /\ Room
    /\ \E p \in {Absent, [sec |-> "wpa", bss |-> {}, prio |-> 1]} :
         /\ p # store[e]
         /\ store' = [store EXCEPT ![e] = p]
         /\ queue' = Append(queue, IF p = Absent THEN EventFor("DESTROY", e) ELSE EventOf(e))
    /\ UNCHANGED <<program, keys, request, objs, listed, hash, combo, panel, dlg, asked, excused, edits>>

\* A scan: nwamui_wifi_net_update_from_wlan_t(), also on the dialog's network.
Scan(o) ==
    /\ program = "manager" /\ admins < MaxAdmin /\ admins' = admins + 1
    /\ o \in hash
    /\ \E s \in Secs \ {objs[o].sec} :
         objs' = [objs EXCEPT ![o].sec = s, ![o].bss = @ \cup {"ap"}, ![o].mod = FALSE]
    /\ UNCHANGED <<program, nwamd, listed, hash, combo, panel, dlg, asked, excused, edits>>

Handled == /\ queue # <<>> /\ program = "properties"
           /\ queue' = Tail(queue)
           /\ UNCHANGED <<program, store, keys, request, hash, combo, panel, dlg, asked, excused, edits, admins>>

HandleAdd ==
    LET e == Head(queue).name IN
    /\ queue # <<>> /\ Head(queue).act = "ADD"
    /\ IF Named(e) # {} THEN UNCHANGED <<objs, listed>>
       ELSE /\ Free # {}
            /\ objs' = [objs EXCEPT ![Fresh] = NewKnown(e)]
            /\ listed' = Inserted(listed, Fresh, objs')
    /\ Handled

HandleRefresh ==
    LET e == Head(queue).name IN
    /\ queue # <<>> /\ Head(queue).act = "REFRESH"
    /\ objs' = IF Named(e) # {} /\ ~objs[Found(e)].mod
               THEN [objs EXCEPT ![Found(e)] = Reload(@)] ELSE objs
    /\ UNCHANGED listed
    /\ Handled

\* Mutant of HandleDestroy: a favourite with unsaved changes is kept.
HandleDestroyUnmodified ==
    LET e == Head(queue).name IN
    /\ queue # <<>> /\ Head(queue).act = "DESTROY"
    /\ listed' = IF Named(e) # {} /\ ~objs[Found(e)].mod
                 THEN RemoveAt(listed, FirstOf(Named(e))) ELSE listed
    /\ objs' = Kept(objs, Range(listed') \cup Range(rows))
    /\ Handled

HandleDestroy ==
    LET e == Head(queue).name IN
    /\ queue # <<>> /\ Head(queue).act = "DESTROY"
    /\ listed' = IF Named(e) # {} THEN RemoveAt(listed, FirstOf(Named(e))) ELSE listed
    /\ objs' = Kept(objs, Range(listed') \cup Range(rows))
    /\ Handled

-----------------------------------------------------------------------------
\* At the start the list of known WLANs has been read in their order, and
\* nwam-manager has scanned.
StoredIn(s) == {e \in Essids : s[e] # Absent}

InitManager ==
    /\ store = [e \in Essids |-> Absent]
    /\ \E f \in [DOMAIN Air -> Objs] :
         /\ \A a, b \in DOMAIN Air : a # b => f[a] # f[b]
         /\ objs = [o \in Objs |->
                      IF \E e \in DOMAIN Air : f[e] = o
                      THEN LET e == CHOOSE x \in DOMAIN Air : f[x] = o
                           IN  [NewWlan(e) EXCEPT !.sec = Air[e], !.bss = {"ap"}, !.mod = FALSE]
                      ELSE Nil]
    /\ listed = <<>>

InitProperties ==
    /\ store \in Favourites
    /\ \E f \in [StoredIn(store) -> Objs] :
         /\ \A a, b \in DOMAIN f : a # b => f[a] # f[b]
         /\ objs = [o \in Objs |->
                      IF \E e \in DOMAIN f : f[e] = o
                      THEN Reload(NewKnown(CHOOSE x \in DOMAIN f : f[x] = o)) ELSE Nil]
         /\ listed \in [1..Cardinality(Range(f)) -> Range(f)] /\ Range(listed) = Range(f)
         /\ \A i, j \in DOMAIN listed : i < j =>
               /\ listed[i] # listed[j]
               /\ objs[listed[i]].h.prio <= objs[listed[j]].h.prio

WlanInit ==
    /\ program \in Programs
    /\ IF program = "manager" THEN InitManager ELSE InitProperties
    /\ keys = [e \in Essids |-> Nil]
    /\ request = Nil
    /\ queue = <<>>
    /\ combo = [e \in Essids |-> Absent]
    /\ rows = listed /\ sel = Nil
    /\ hash = {o \in Objs : objs[o] # Nil /\ ~objs[o].known}
    /\ dlg = [open |-> FALSE, obj |-> Nil, purpose |-> "add", conn |-> FALSE,
              keyCh |-> FALSE, secCh |-> FALSE, essid |-> Blank, bss |-> {}, sec |-> "none",
              key |-> Blank, byUser |-> FALSE, ok |-> TRUE, sens |-> TRUE, focus |-> FALSE,
              typed |-> FALSE]
    /\ asked = Nil
    /\ excused = {}
    /\ edits = 0 /\ admins = 0

WlanNext ==
    \/ Join \/ \E o \in Objs : Prompt(o) \/ PickEssid(o) \/ SelectRow(o) \/ Scan(o)
    \/ OpenAdd \/ OpenEdit
    \/ \E e \in Essids \cup {Blank} : TypeEssid(e)
    \/ \E s \in Secs : ChooseSecurity(s)
    \/ FocusKey \/ \E k \in Texts : TypeKey(k)
    \/ \E b \in SUBSET Rows : EditBssids(b)
    \/ Cancel \/ OkRejected \/ OkJoin \/ OkAdd \/ OkEdit
    \/ Populate \/ Move \/ SwitchConnection \/ RemoveFavourite \/ RemoveGone \/ PrefsOk \/ PrefsFail
    \/ \E e \in Essids : Configure(e)
    \/ HandleAdd \/ HandleRefresh \/ HandleDestroy

WlanSpec == WlanInit /\ [][WlanNext]_wlanVars

-----------------------------------------------------------------------------
\* What nwamd is asked to connect to is what the dialog shows, the name and the
\* security mode, whatever the dialog was opened for before
\* (nwam_wireless_dialog_set_wifi_net(), validate_information(),
\* nwamui_wifi_net_connect()).
ConnectsAsShown ==
    [][request' # request => request' = [essid |-> dlg.essid, sec |-> dlg.sec]]_wlanVars

\* nwam-manager stores no key but one that the user typed, and only one of the
\* length that the security mode asks for: not a blank one when only the mode
\* was changed.  And the user typed it since the dialog was last opened to join
\* any network, or for one with security.  This is all the code promises: a key
\* typed at a prompt outlives later prompts for open networks, and is stored for
\* the last of them if the user then chooses a security mode and presses OK
\* (nwam_wireless_dialog_set_wifi_net(), refresh(), validate_information()).
StoresTypedKeys ==
    [][program = "manager" /\ keys' # keys =>
          /\ dlg.byUser /\ dlg.typed
          /\ dlg.key = IF dlg.sec = "wep" THEN "5" ELSE "20"]_wlanVars

\* The state is well typed and, once every event is handled, the favourites are
\* those that are stored: the user's additions, removals and edits and those of
\* others meet in whatever order their events arrive, and a favourite without
\* unsaved changes has the stored properties.  A removal that failed, and a
\* favourite that was added although there was one of its name, are excused
\* (nwamui_daemon_handle_object_action_event(), create_object(), remove_object()).
FavouritesConverge ==
    WlanTypeOK /\ (program = "properties" /\ queue = <<>> =>
        \A e \in Essids \ excused :
            /\ Cardinality(Named(e)) = IF store[e] = Absent THEN 0 ELSE 1
            /\ \A i \in Named(e) : ~objs[listed[i]].mod => objs[listed[i]].h = store[e])

=============================================================================
