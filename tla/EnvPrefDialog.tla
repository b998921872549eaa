---------------------------- MODULE EnvPrefDialog ----------------------------
(* The "Location Properties" dialog (nwam_env_pref_dialog.c) and the location *)
(* objects it edits (nwamui_env.c).                                           *)
(*                                                                            *)
(* One dialog serves every location in turn, and most of its callbacks write  *)
(* to the location at once; the name service switch file and the files of the *)
(* Security page are written when the dialog is applied.  Meanwhile the       *)
(* administrator may change a stored location, and the daemon object reads    *)
(* it again when nwamd says so, and reads every location again when nwamd is  *)
(* there again, without telling this dialog.  A location that cannot be read  *)
(* loses its handle: it has no property and takes none.                       *)
(*                                                                            *)
(* An entry is empty (0) or not (1): a text that is not empty is taken to     *)
(* have the right format.  One file stands for the six files of the Security  *)
(* page.  The DNS options and the sort list are left out.                     *)
EXTENDS Naturals, FiniteSets

CONSTANTS
    Envs,       \* the locations
    Unset,      \* no location, no file
    Own,        \* a switch file of the user's
    Presets,    \* what is stored at first, and what the administrator stores
    MaxClicks,  \* bound on the user's actions that change data or widgets
    MaxReconfigs \* bound on what happens elsewhere: changes of the administrator,
                 \* returns of nwamd and reads that fail

ASSUME ClicksAssumption == MaxClicks \in Nat /\ MaxReconfigs \in Nat

Services == {"files", "dns", "nis", "ldap"}
Sourced  == {"dns", "nis"}                      \* with a configuration source
Fields   == {"dns", "nis", "ldap", "search", "domain", "default"}

VARIABLES
    persisted,  \* nwamd: what is stored for each location
    env,        \* the NwamuiEnv objects
    bare,       \* the objects without a handle (nwam_loc is NULL)
    mod,        \* nwam_loc_modified of each object
    pending,    \* the locations with an undelivered REFRESH event
    selEnv,     \* selected_env
    ui,         \* the widgets and the other state of the dialog
    running,    \* the dialog is on the screen
    typed,      \* history: the entries typed in since the dialog was filled, or
                \* since nwamd came back and the location was read again
    outside,    \* history: the location shown was read again and had changed
    dead,       \* the program dereferenced an empty list
    clicks, reconfigs

prefVars == <<persisted, env, bare, mod, pending, selEnv, ui, running, typed, outside, dead,
              clicks, reconfigs>>

-----------------------------------------------------------------------------
Settings == [ns : SUBSET Services, src : [Sourced -> {"dhcp", "manual"}],
             text : [Fields -> 0..1], file : Services \cup {Own, Unset}, sec : 0..1]

\* What the getters return of a location without a handle.
Nothing == [ns |-> {}, src |-> [s \in Sourced |-> "manual"], text |-> [f \in Fields |-> 0],
            file |-> Unset, sec |-> 0]

\* The widgets: the check boxes and which of them are sensitive, the radio
\* buttons, the entries, which of search and domain is sensitive, the number of
\* services, selected_nsswitch_file, whether the default button is sensitive,
\* and the Security page's check box and file chooser.
Widgets == [cb : SUBSET Services, sens : SUBSET Services,
            rb : [Sourced -> {"dhcp", "manual"}], entry : [Fields -> 0..1],
            excl : SUBSET {"search", "domain"}, num : 0..4,
            file : Services \cup {Own, Unset}, defBtn : BOOLEAN,
            secCb : BOOLEAN, secFile : 0..1]

\* libnwam stores no location without a name service.
ASSUME PresetsAssumption == \A c \in Presets : c \in Settings /\ c.ns # {}

PrefTypeOK ==
    /\ persisted \in [Envs -> Settings] /\ env \in [Envs -> Settings]
    /\ bare \in SUBSET Envs /\ mod \in [Envs -> BOOLEAN] /\ pending \in SUBSET Envs
    /\ selEnv \in Envs \cup {Unset} /\ ui \in Widgets
    /\ running \in BOOLEAN /\ outside \in BOOLEAN /\ dead \in BOOLEAN
    /\ typed \in SUBSET Fields
    /\ clicks \in 0..MaxClicks /\ reconfigs \in 0..MaxReconfigs

-----------------------------------------------------------------------------
\* update_nsswitch_related_widgets(): which entries are sensitive, and the
\* switch file, read from the location again; the default file of the only
\* service counts as none.
ManualDns(u) == "dns" \in u.cb /\ u.rb["dns"] = "manual"

Exclusive(u) ==
    IF ~ManualDns(u) THEN {}
    ELSE IF u.entry["search"] = 1 THEN {"search"}
    ELSE IF u.entry["domain"] = 1 THEN {"domain"}
    ELSE {"search", "domain"}

\* With one service, the first of an empty list is asked for.
Crashes(u, c) == u.num = 1 /\ c.ns = {}

UpdateSwitch(u, c) ==
    [u EXCEPT !.excl = Exclusive(u),
              !.file = IF u.num = 1 /\ {c.file} = c.ns THEN Unset ELSE c.file,
              !.defBtn = u.num = 1]

\* Each active check box is sensitive while there is another one.
SensitiveBoxes(cb, num) == {s \in Services : s \in cb => num > 1}

\* A file that is not set leaves its chooser as it was.
FillSecurity(u, c) ==
    [u EXCEPT !.secCb = c.sec = 1, !.secFile = IF c.sec = 1 THEN 1 ELSE @]

\* Mutant of Fill: the number of services of the location shown before stays.
FillUncounted(c) ==
    UpdateSwitch([ui EXCEPT !.cb = c.ns, !.sens = SensitiveBoxes(c.ns, ui.num)], c)

\* populate_panels_from_env(): the entries of the services in use are filled
\* from the location, but an entry of which the location has no text keeps the
\* text of the location shown before; only the DNS domain is always filled.
Fill(c) ==
    LET uses(f) == \/ f = "default" \/ f \in c.ns
                   \/ f \in {"search", "domain"} /\ "dns" \in c.ns
        n == Cardinality(c.ns)
        filled == [ui EXCEPT
            !.cb = c.ns, !.num = n,
            !.sens = SensitiveBoxes(c.ns, n),
            !.rb = [s \in Sourced |-> IF s \in c.ns THEN c.src[s] ELSE ui.rb[s]],
            !.entry = [f \in Fields |-> IF uses(f) /\ (c.text[f] = 1 \/ f = "domain")
                                        THEN c.text[f] ELSE ui.entry[f]]]
    IN  FillSecurity(UpdateSwitch(filled, c), c)

\* The setters: with no handle nothing is written.
Takes(c) == IF selEnv \in bare THEN env[selEnv] ELSE c

MayClick == running /\ ~dead /\ clicks < MaxClicks
Clicked  == clicks' = clicks + 1

\* A button of the dialog is pressed.
Answers == running /\ ~dead

-----------------------------------------------------------------------------
\* The outer dialog's "Edit" button: refresh() fills the panels, and they are run.
Show(e) ==
    /\ ~running /\ ~dead
    /\ selEnv' = e /\ ui' = Fill(env[e])
    /\ dead' = Crashes(ui', env[e])
    /\ running' = TRUE /\ typed' = {}
    /\ UNCHANGED <<persisted, env, bare, mod, pending, outside, clicks, reconfigs>>

\* The widgets after the check box of s was clicked, ns being the new list: a
\* new service starts with DHCP as its source.
ServiceWidgets(s, ns) ==
    LET cb == IF s \in ui.cb THEN ui.cb \ {s} ELSE ui.cb \cup {s}
        n == IF s \in cb /\ ns = {} THEN 1 ELSE Cardinality(ns)
    IN  [ui EXCEPT !.cb = cb, !.num = n, !.sens = SensitiveBoxes(cb, n),
                   !.rb = [t \in Sourced |-> IF t = s /\ s \in cb /\ s \notin env[selEnv].ns
                                             THEN "dhcp" ELSE @[t]]]

\* on_ns_selection_clicked(): the list of services of the location is changed,
\* and written.  A service appended to an empty list is lost, and libnwam may
\* refuse an empty list.
ToggleService(s) ==
    /\ MayClick /\ s \in ui.sens
    /\ LET old == env[selEnv]
           adds == s \notin ui.cb
           ns == IF adds THEN (IF old.ns = {} THEN {} ELSE old.ns \cup {s}) ELSE old.ns \ {s}
           u == ServiceWidgets(s, ns)
       IN  \E written \in BOOLEAN :
             /\ written \/ ns = {}
             /\ LET c == Takes([old EXCEPT !.ns = IF written THEN ns ELSE @,
                                     !.src = [t \in Sourced |->
                                        IF t = s /\ adds /\ s \notin old.ns THEN "dhcp" ELSE @[t]]])
                IN  /\ env' = [env EXCEPT ![selEnv] = c]
                    /\ ui' = UpdateSwitch(u, c)
                    /\ dead' = Crashes(u, c)
    /\ mod' = [mod EXCEPT ![selEnv] = TRUE]
    /\ Clicked
    /\ UNCHANGED <<persisted, bare, pending, selEnv, running, typed, outside, reconfigs>>

\* on_ns_source_clicked(): written at once by the radio button that is active now.
ToggleSource(s) ==
    /\ MayClick /\ s \in ui.cb
    /\ LET v == IF ui.rb[s] = "dhcp" THEN "manual" ELSE "dhcp"
           c == Takes([env[selEnv] EXCEPT !.src[s] = v])
           u == [ui EXCEPT !.rb[s] = v]
       IN  /\ env' = [env EXCEPT ![selEnv] = c]
           /\ ui' = UpdateSwitch(u, c)
           /\ dead' = Crashes(u, c)
    /\ mod' = [mod EXCEPT ![selEnv] = TRUE]
    /\ Clicked
    /\ UNCHANGED <<persisted, bare, pending, selEnv, running, typed, outside, reconfigs>>

\* The entries the user can type in.
Typable(f) ==
    CASE f \in {"search", "domain"} -> f \in ui.excl
      [] f = "default" -> ui.cb \cap {"nis", "ldap"} # {}
      [] f = "ldap" -> "ldap" \in ui.cb
      [] OTHER -> f \in ui.cb /\ ui.rb[f] = "manual"

WriteUnmarked(f, t) ==
    /\ env' = [env EXCEPT ![selEnv] = Takes([@ EXCEPT !.text[f] = t])]
    /\ mod' = mod

\* The setters of nwamui_env.c: an empty text deletes the property.
Write(f, t) ==
    /\ env' = [env EXCEPT ![selEnv] = Takes([@ EXCEPT !.text[f] = t])]
    /\ mod' = [mod EXCEPT ![selEnv] = TRUE]

\* on_ns_text_changed(): the text is written at once, and of the search list
\* and the domain, the other one can be typed in only while this one is empty.
TypeText(f) ==
    /\ MayClick /\ Typable(f)
    /\ LET t == 1 - ui.entry[f]
           other == {"search", "domain"} \ {f}
       IN  /\ Write(f, t)
           /\ ui' = [ui EXCEPT !.entry[f] = t,
                               !.excl = IF f \notin {"search", "domain"} THEN @
                                        ELSE IF t = 1 THEN @ \ other ELSE @ \cup other]
    /\ typed' = typed \cup {f}
    /\ Clicked
    /\ UNCHANGED <<persisted, bare, pending, selEnv, running, outside, dead, reconfigs>>

\* nsswitch_default_clicked_cb()
UseDefaultFile ==
    /\ MayClick /\ ui.defBtn
    /\ ui' = [ui EXCEPT !.file = Unset]
    /\ Clicked
    /\ UNCHANGED <<persisted, env, bare, mod, pending, selEnv, running, typed, outside, dead,
                   reconfigs>>

\* nsswitch_default_file_set()
ChooseFile ==
    /\ MayClick
    /\ ui' = [ui EXCEPT !.file = Own, !.defBtn = IF ui.num = 1 THEN TRUE ELSE @]
    /\ Clicked
    /\ UNCHANGED <<persisted, env, bare, mod, pending, selEnv, running, typed, outside, dead,
                   reconfigs>>

\* on_button_toggled() and the file chooser of the Security page.
Secure ==
    /\ MayClick
    /\ \/ ui' = [ui EXCEPT !.secCb = ~@]
       \/ ui.secCb /\ ui' = [ui EXCEPT !.secFile = 1]
    /\ Clicked
    /\ UNCHANGED <<persisted, env, bare, mod, pending, selEnv, running, typed, outside, dead,
                   reconfigs>>

-----------------------------------------------------------------------------

\* apply(): what the dialog asks for, for the services of the location, before
\* anything is written.  An entry that is not sensitive is taken as valid.
Complete(c) ==
    /\ "dns" \in c.ns /\ ManualDns(ui) => ui.entry["dns"] = 1
    /\ "ldap" \in c.ns /\ "ldap" \in ui.cb => ui.entry["ldap"] = 1
    /\ c.ns \cap {"nis", "ldap"} # {} => ui.entry["default"] = 1
    /\ Cardinality(c.ns) > 1 => ui.file # Unset

\* nwam_loc_validate(): a search list and a domain exclude each other; for
\* other reasons any location may be refused.
Excluded(c) == c.text["search"] = 1 /\ c.text["domain"] = 1

\* The rest of apply() and response_cb(): the files are written to the
\* location, and it is validated and committed; with OK the dialog is hidden.
\* Without a handle both succeed and nothing is stored.
Apply(ok) ==
    /\ Answers /\ Complete(env[selEnv])
    /\ LET c == Takes([env[selEnv] EXCEPT !.file = ui.file,
                                       !.sec = IF ui.secCb THEN ui.secFile ELSE 0])
       IN  /\ env' = [env EXCEPT ![selEnv] = c]
           /\ \E saved \in BOOLEAN :
                /\ saved => ~Excluded(c) /\ selEnv \notin bare
                /\ mod' = [mod EXCEPT ![selEnv] = ~saved]
                /\ persisted' = IF saved THEN [persisted EXCEPT ![selEnv] = c] ELSE persisted
                /\ pending' = IF saved THEN pending \cup {selEnv} ELSE pending
                /\ running' = ~((saved \/ selEnv \in bare) /\ ok)
                /\ typed' = IF saved THEN {} ELSE typed
    /\ UNCHANGED <<bare, selEnv, ui, outside, dead, clicks, reconfigs>>

\* nwamui_env_reload() of the locations es: those in failed could not be read
\* and lose their handle; none is left modified.
ReadAgain(es, failed) ==
    /\ failed \subseteq es
    /\ env' = [e \in Envs |-> IF e \in failed THEN Nothing
                             ELSE IF e \in es THEN persisted[e] ELSE env[e]]
    /\ bare' = (bare \ es) \cup failed
    /\ mod' = [e \in Envs |-> mod[e] /\ e \notin es]

\* Reads that fail are bounded like the changes of the administrator.
FailuresCount(failed) ==
    IF failed = {} THEN UNCHANGED reconfigs
    ELSE reconfigs < MaxReconfigs /\ reconfigs' = reconfigs + 1

\* cancel(): the location is read again, and nothing is left to save.
Discard ==
    /\ Answers
    /\ \E failed \in SUBSET {selEnv} : ReadAgain({selEnv}, failed) /\ FailuresCount(failed)
    /\ running' = FALSE /\ typed' = {}
    /\ UNCHANGED <<persisted, pending, selEnv, ui, outside, dead, clicks>>

-----------------------------------------------------------------------------
\* A location read again has changed while the dialog shows it.
NoteOutside ==
    outside' = (outside \/ (running /\ \E e \in Envs : e = selEnv /\ env'[e] # env[e]))

\* nwamui_daemon_handle_object_action_event(REFRESH): a location with
\* modifications is left alone.
Refresh(e) ==
    /\ e \in pending /\ ~dead
    /\ pending' = pending \ {e}
    /\ LET es == IF mod[e] THEN {} ELSE {e}
       IN  \E failed \in SUBSET es : ReadAgain(es, failed) /\ FailuresCount(failed)
    /\ NoteOutside
    /\ UNCHANGED <<persisted, selEnv, ui, running, typed, dead, clicks>>

\* nwamd is there again (NWAMUI_DAEMON_INFO_ACTIVE): the daemon object loads its
\* lists again, and nwam_loc_walker_cb() reads every location the walk comes to,
\* whatever its modifications.
Activate ==
    /\ ~dead /\ reconfigs < MaxReconfigs
    /\ \E es \in SUBSET Envs : \E failed \in SUBSET es :
          /\ ReadAgain(es, failed)
          /\ typed' = IF selEnv \in es THEN {} ELSE typed
    /\ NoteOutside
    /\ reconfigs' = reconfigs + 1
    /\ UNCHANGED <<persisted, pending, selEnv, ui, running, dead, clicks>>

\* The administrator changes a location with nwamcfg(1M).
Reconfigure(e) ==
    /\ reconfigs < MaxReconfigs
    /\ \E c \in Presets : persisted' = [persisted EXCEPT ![e] = c]
    /\ pending' = pending \cup {e}
    /\ reconfigs' = reconfigs + 1
    /\ UNCHANGED <<env, bare, mod, selEnv, ui, running, typed, outside, dead, clicks>>

\* The program as it starts, with the locations as they are stored.
Started == [cb |-> {}, sens |-> Services, rb |-> [s \in Sourced |-> "manual"],
            entry |-> [f \in Fields |-> 0], excl |-> {}, num |-> 0, file |-> Unset,
            defBtn |-> FALSE, secCb |-> FALSE, secFile |-> 0]

PrefInit ==
    /\ persisted \in [Envs -> Presets] /\ env = persisted
    /\ bare = {} /\ mod = [e \in Envs |-> FALSE] /\ pending = {}
    /\ selEnv = Unset /\ ui = Started /\ running = FALSE
    /\ typed = {} /\ outside = FALSE /\ dead = FALSE
    /\ clicks = 0 /\ reconfigs = 0

\* After a crash the program is started again.
Restart ==
    /\ dead /\ dead' = FALSE
    /\ env' = persisted /\ bare' = {} /\ mod' = [e \in Envs |-> FALSE] /\ pending' = {}
    /\ selEnv' = Unset /\ ui' = Started /\ running' = FALSE
    /\ typed' = {}
    /\ UNCHANGED <<persisted, outside, clicks, reconfigs>>

PrefNext ==
    \/ \E e \in Envs : Show(e) \/ Refresh(e) \/ Reconfigure(e)
    \/ \E s \in Services : ToggleService(s)
    \/ \E s \in Sourced : ToggleSource(s)
    \/ \E f \in Fields : TypeText(f)
    \/ UseDefaultFile \/ ChooseFile \/ Secure
    \/ \E ok \in BOOLEAN : Apply(ok)
    \/ Discard \/ Activate \/ Restart

PrefSpec == PrefInit /\ [][PrefNext]_prefVars

-----------------------------------------------------------------------------
\* Properties.

\* The state is well typed and, unless the location it shows was read again and
\* had changed, or has no handle, the open dialog shows the services the location
\* has, knows how many they are, never lets the last one go, offers the default
\* switch file exactly when there is one service, which is what
\* nsswitch_default_clicked_cb() asserts, and does not crash.
ServicesShown ==
    PrefTypeOK /\ (running /\ ~outside /\ selEnv \notin bare =>
        /\ ~dead
        /\ ui.cb = env[selEnv].ns /\ ui.cb # {}
        /\ ui.num = Cardinality(ui.cb)
        /\ Cardinality(ui.cb) = 1 => ui.cb \cap ui.sens = {}
        /\ (ui.defBtn <=> ui.num = 1))

\* What the user typed is what the location holds until it is saved or cancelled,
\* whatever REFRESH events arrive; only the return of nwamd, which reads modified
\* locations again too, drops it, although the entries go on showing it.  A
\* location without a handle holds nothing.
TypingSurvives ==
    running /\ selEnv \notin bare => \A f \in typed : env[selEnv].text[f] = ui.entry[f]

=============================================================================
