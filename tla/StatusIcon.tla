------------------------------ MODULE StatusIcon ------------------------------
(***************************************************************************)
(* The status icon of nwam-manager (daemon/status_icon.c) and the daemon    *)
(* object's signals it lives on (common/nwamui_daemon.c): which NCP it has   *)
(* the NCUs of in its menu, which locations, and whether the menu opens.     *)
(*                                                                           *)
(* A handler of an event runs to its end, signals included, before another   *)
(* does.  What a reload finds at nwamd is any list.  The two good values of  *)
(* the daemon's status differ in a picture only and are one value here; NCPs *)
(* stay on their list (NwamuiDaemon has their removal).  Debug mode, in which *)
(* the menu opens after an error too, is off.                                *)
(***************************************************************************)
EXTENDS Naturals

CONSTANTS Ncps, Devices, Envs, None

ASSUME NamesAssumption == None \notin Ncps \cup Envs

VARIABLES
    status,     \* the daemon's status
    list,       \* the devices of the NCUs of an NCP
    activeNcp,  \* prv->active_ncp of the daemon
    envs,       \* locations of the daemon
    activeEnv,  \* prv->active_env
    running,    \* the status icon is connected to the daemon's signals
    shown,      \* the status icon's prv->active_ncp
    ncuItems,   \* NCUs with an item in the menu
    fakes,      \* items that stand for "no NCU"
    envItems,   \* locations with an item in the menu
    popup,      \* prv->enable_pop_up_menu
    aborted     \* an assertion has failed, and the program is gone

daemonVars == <<status, list, activeNcp, envs, activeEnv>>
ncuVars    == <<shown, ncuItems, fakes>>
iconVars   == <<running, shown, ncuItems, fakes, envItems, popup>>
vars       == <<daemonVars, iconVars, aborted>>

Statuses == {"UNINITIALIZED", "ERROR", "GOOD"}
NcusOf(p, l) == {p} \X l[p]

-----------------------------------------------------------------------------
(* Callbacks of the status icon.                                           *)

\* ncp_add_ncu and ncp_remove_ncu ask for the status with the first and the last
\* NCU: nwamui_daemon_get_status_icon_type asserts that it is initialized.
AssertionFails(st, old, new) ==
    st = "UNINITIALIZED" /\ (old = {}) # (new = {})

\* Mutated: the item "no NCU" stays when there is an NCU.
FakesKept(old, new) == fakes + IF old # {} /\ new = {} THEN 1 ELSE 0

\* ncp_add_ncu empties the section for the first NCU, ncp_remove_ncu puts the
\* item "no NCU" there after the last.
Fakes(old, new) ==
    IF old = {} /\ new # {} THEN 0
    ELSE fakes + IF old # {} /\ new = {} THEN 1 ELSE 0

\* The items of the NCP shown, from one signal for each NCU that comes or goes.
Items(old, new) == (ncuItems \ ({shown} \X (old \ new))) \cup ({shown} \X (new \ old))

\* What the status icon hears of the lists of NCUs that become l.
Listed(l) ==
    /\ list' = l
    /\ ncuItems' = IF shown = None THEN ncuItems ELSE Items(list[shown], l[shown])
    /\ fakes' = IF shown = None THEN fakes ELSE Fakes(list[shown], l[shown])

\* daemon_active_ncp_changed, for another NCP than the one shown.
Show(p, l) ==
    /\ shown' = p
    /\ ncuItems' = IF p = None THEN {} ELSE NcusOf(p, l)
    /\ fakes' = IF p = None \/ l[p] = {} THEN 1 ELSE 0

\* daemon_status_changed: for ERROR the menu does not open.
Enabled(st) == st = "GOOD"

\* daemon_add_object and daemon_remove_object, for locations that become E.
EnvItems(E) == (envItems \ (envs \ E)) \cup (E \ envs)

\* daemon_active_env_changed, for ERROR and without an active location.
NoEnvs == {}

\* nwamui_daemon_update_status, connected to nwamd.
ConnectedStatus == "GOOD"

-----------------------------------------------------------------------------
\* The daemon object is made with the status icon, which then waits to be embedded.
Init ==
    /\ status = "ERROR"
    /\ list \in [Ncps -> SUBSET Devices]
    /\ activeNcp \in Ncps \cup {None}
    /\ envs \in SUBSET Envs /\ activeEnv \in envs \cup {None}
    /\ running = FALSE
    /\ shown = None /\ ncuItems = {} /\ fakes = 0
    /\ envItems = {} /\ popup = FALSE
    /\ aborted = FALSE

\* nwam_status_icon_run: connect, then be notified of status, NCP and location.
Run ==
    /\ ~running
    /\ running' = TRUE
    /\ popup' = Enabled(status)
    /\ IF status = "GOOD" /\ activeNcp # None
       THEN Show(activeNcp, list) ELSE UNCHANGED ncuVars
    /\ envItems' = IF status = "GOOD" /\ activeEnv # None THEN envs ELSE NoEnvs
    /\ UNCHANGED <<daemonVars, aborted>>

-----------------------------------------------------------------------------
(* nwamd_event_handler.                                                    *)

\* INFO_ERROR and INFO_INACTIVE.
HandleError ==
    /\ status' = "ERROR"
    /\ IF running /\ status # "ERROR"
       THEN /\ popup' = Enabled("ERROR")
            /\ envItems' = NoEnvs
            /\ IF shown # None THEN Show(None, list) ELSE UNCHANGED ncuVars
       ELSE UNCHANGED <<ncuVars, envItems, popup>>
    /\ UNCHANGED <<list, activeNcp, envs, activeEnv, running, aborted>>

\* INFO_ACTIVE: UNINITIALIZED during the reload, whose end updates the status.
\* Neither active_ncp nor active_env is notified.
HandleActive ==
    \E l \in [Ncps -> SUBSET Devices], E \in SUBSET Envs :
       IF shown # None /\ AssertionFails("UNINITIALIZED", list[shown], l[shown])
       THEN /\ aborted' = TRUE /\ status' = "UNINITIALIZED"
            /\ UNCHANGED <<list, activeNcp, envs, activeEnv, iconVars>>
       ELSE /\ status' = ConnectedStatus
            /\ Listed(l)
            /\ activeNcp' \in {activeNcp} \cup Ncps
            /\ envs' = E
            /\ activeEnv' \in {activeEnv} \cup E
            /\ envItems' = IF running THEN EnvItems(E) ELSE envItems
            /\ popup' = (running /\ Enabled("GOOD"))
            /\ UNCHANGED <<running, shown, aborted>>

\* OBJECT_ACTION of an NCU or an NCP: the NCP is reloaded, or an NCU removed.
HandleNcuAction(p) ==
    /\ \E new \in SUBSET Devices : Listed([list EXCEPT ![p] = new])
    /\ UNCHANGED <<status, activeNcp, envs, activeEnv, running, shown, envItems,
                   popup, aborted>>

\* OBJECT_STATE of an NCP, ONLINE: it is reloaded, then active_ncp notified.
HandleNcpOnline(p) ==
    /\ status = "GOOD"
    /\ activeNcp' = p
    /\ \E new \in SUBSET Devices :
          IF running /\ shown # p
          THEN /\ list' = [list EXCEPT ![p] = new]
               /\ Show(p, list')
          ELSE Listed([list EXCEPT ![p] = new]) /\ UNCHANGED shown
    /\ UNCHANGED <<status, envs, activeEnv, running, envItems, popup, aborted>>

\* OBJECT_ACTION of a location.  The active one is set to NULL if it is the object
\* removed and not an earlier one of the name.
HandleEnvAdd(e) ==
    /\ e \notin envs
    /\ envs' = envs \cup {e}
    /\ envItems' = IF running THEN EnvItems(envs \cup {e}) ELSE envItems
    /\ UNCHANGED <<status, list, activeNcp, activeEnv, running, ncuVars, popup,
                   aborted>>

HandleEnvRemove(e) ==
    /\ e \in envs
    /\ envs' = envs \ {e}
    /\ envItems' = IF running THEN EnvItems(envs \ {e}) ELSE envItems
    /\ activeEnv' \in IF activeEnv = e THEN {None, e} ELSE {activeEnv}
    /\ UNCHANGED <<status, list, activeNcp, running, ncuVars, popup, aborted>>

\* OBJECT_STATE of a location, ONLINE: nwamui_daemon_set_active_env notifies,
\* unless the location is the active one (and not an earlier one of the name).
HandleEnvOnline(e) ==
    /\ status = "GOOD" /\ e \in envs
    /\ activeEnv' = e
    /\ envItems' \in (IF running THEN {envs} ELSE {})
                    \cup (IF running /\ activeEnv # e THEN {} ELSE {envItems})
    /\ UNCHANGED <<status, list, activeNcp, envs, running, ncuVars, popup, aborted>>

Gone == aborted /\ UNCHANGED vars

Next ==
    \/ ~aborted /\ Run
    \/ ~aborted /\ HandleError
    \/ ~aborted /\ HandleActive
    \/ ~aborted /\ \E p \in Ncps : HandleNcuAction(p)
    \/ ~aborted /\ \E p \in Ncps : HandleNcpOnline(p)
    \/ ~aborted /\ \E e \in Envs : HandleEnvAdd(e)
    \/ ~aborted /\ \E e \in Envs : HandleEnvRemove(e)
    \/ ~aborted /\ \E e \in Envs : HandleEnvOnline(e)
    \/ Gone

Spec == Init /\ [][Next]_vars

-----------------------------------------------------------------------------
(* Properties.                                                             *)

\* Types; the daemon's status is initialized whenever a handler has come to its end.
TypeOK ==
    /\ status \in Statuses /\ (status = "UNINITIALIZED" => aborted)
    /\ list \in [Ncps -> SUBSET Devices]
    /\ activeNcp \in Ncps \cup {None} /\ shown \in Ncps \cup {None}
    /\ envs \subseteq Envs /\ envItems \subseteq Envs
    /\ activeEnv \in Envs \cup {None}
    /\ ncuItems \subseteq Ncps \X Devices /\ fakes \in Nat
    /\ running \in BOOLEAN /\ popup \in BOOLEAN /\ aborted \in BOOLEAN

\* However errors, reloads, and the coming and going of NCUs and NCPs interleave,
\* the menu has the NCUs of the NCP it shows, each once, or the one item that
\* says there is none; and never both.  (ncp_add_ncu, ncp_remove_ncu.)
NcuSectionMatches ==
    IF shown = None THEN ncuItems = {} /\ fakes <= 1
    ELSE ncuItems = NcusOf(shown, list) /\ fakes = IF list[shown] = {} THEN 1 ELSE 0

\* The menu has no location that the daemon has no more, after any series of
\* errors, which empty the section, and reloads, which only tell of differences.
NoGoneEnvs == envItems \subseteq envs

\* The menu opens exactly while the daemon is connected, and without the
\* connection it has no NCU that the user could activate.  (daemon_status_changed.)
ClosedOnError ==
    running /\ ~aborted => /\ popup <=> status = "GOOD"
                           /\ status = "ERROR" => shown = None /\ ncuItems = {}

=============================================================================
