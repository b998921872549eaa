----------------------------- MODULE NwamuiDaemon -----------------------------
(***************************************************************************)
(* The NwamuiDaemon object (common/nwamui_daemon.c): the managed lists of  *)
(* NCPs, locations, ENMs and known WLANs, the states it caches for them,   *)
(* the active NCP and location, and the overall status, all maintained by  *)
(* nwamd_event_handler from the events the event thread has posted.        *)
(*                                                                         *)
(* An object is its name; a state is ONLINE/ACTIVE ("online") or anything  *)
(* else ("offline").  The NCUs of an NCP are abstracted to one: its state  *)
(* decides nwamui_ncp_all_ncus_online while the priority group the NCP     *)
(* object remembers is the NCU's, and nothing does while it is another.    *)
(* The idle sources are one queue here; how events are lost before they    *)
(* are posted is NwamEventThread's subject: here nwamd's changes go        *)
(* unheard while there is no subscription.                                 *)
(***************************************************************************)
EXTENDS Naturals, Sequences, FiniteSets

CONSTANTS
    Locs, Ncps, Enms, Wlans,    \* names, by kind of object
    NoNet,                      \* the location NWAM_LOC_NAME_NO_NET
    System,                     \* objects that are not modifiable
    Groups, NcuGroup,           \* priority groups; the one the NCUs are in
    None,
    NamelessNcus,               \* may NCU events come without their NCP?
    MaxChanges,                 \* bound: nwamd's changes
    MaxLosses                   \* bound: subscriptions lost

Objs     == Locs \cup Ncps \cup Enms \cup Wlans
Stateful == Locs \cup Ncps \cup Enms
Kinds    == {Locs, Ncps, Enms, Wlans} \ {{}}

ASSUME NamesAssumption ==
    /\ Locs \cap (Ncps \cup Enms \cup Wlans) = {}
    /\ Ncps \cap (Enms \cup Wlans) = {} /\ Enms \cap Wlans = {}
    /\ IsFiniteSet(Enms)
    /\ NoNet \notin Objs \ Locs /\ System \subseteq Objs /\ None \notin Objs
    /\ 0 \in Groups
ASSUME BoundsAssumption ==
    /\ NamelessNcus \in BOOLEAN
    /\ MaxChanges \in Nat /\ MaxLosses \in Nat

VARIABLES
    exists,     \* nwamd's objects
    st,         \* their states
    ncuUp,      \* the state of each NCP's NCU
    prio,       \* the active priority group
    changes,    \* changes nwamd has made
    sub,        \* nwamd sends us events
    losses,     \* subscriptions lost
    q,          \* idle sources, oldest first
    conn,       \* prv->connected_to_nwamd
    managed,    \* prv->managed_list[], all four
    cached,     \* the nwam_state NwamuiObject caches
    ncu,        \* the state cached for an NCP's NCU, "none" before it is read
    activeEnv, goneEnv,   \* prv->active_env; its state once it is not managed
    activeNcp, goneNcp,   \* prv->active_ncp; its NCU's once it is not managed
    group, goneGroup,     \* priority_group of each NCP, and of that one
    enmNum,     \* prv->online_enm_num
    status,     \* prv->status
    late,       \* history: the active NCP's group has changed since the
                \* status was computed
    partial,    \* history: the last reload did not find everything
    unheard     \* history: a change of nwamd's has not been heard of, or was
                \* taken for one of another NCP

nwamdVars == <<exists, st, ncuUp, prio, changes>>
subVars   == <<sub, losses>>
envVars   == <<activeEnv, goneEnv>>
ncpVars   == <<activeNcp, goneNcp, goneGroup>>
uiVars    == <<conn, managed, cached, ncu, activeEnv, goneEnv, activeNcp,
               goneNcp, group, goneGroup, enmNum, status, late>>
vars      == <<exists, st, ncuUp, prio, changes, sub, losses, q, conn, managed,
               cached, ncu, activeEnv, goneEnv, activeNcp, goneNcp, group,
               goneGroup, enmNum, status, late, partial, unheard>>

States == {"online", "offline"}
Events ==
    [e : {"ACTIVE", "ERROR"}]
      \cup [e : {"ADD", "REMOVE", "REFRESH"}, o : Objs]
      \cup [e : {"STATE"}, o : Stateful, s : States]
      \cup [e : {"NCU_ADD"}, o : Ncps] \cup [e : {"GROUP"}, g : Groups]
      \cup {ev \in [e : {"NCU_STATE"}, o : Ncps \cup {None}, s : States, of : Ncps] :
                ev.o \in {ev.of, None}}

-----------------------------------------------------------------------------
(* What the daemon derives from its lists.                                 *)

\* The states of active_env's location and of active_ncp's NCU, wherever the
\* objects are: lists, or only referenced.
EnvState(env, gone, c) == IF gone = "no" THEN c[env] ELSE gone
NcuState(ncp, gone, n) == IF gone = "no" THEN n[ncp] ELSE gone

\* nwamui_ncp_get_prio_group of prv->active_ncp.
Group == IF activeNcp = None THEN 0 ELSE IF goneNcp = "no" THEN group[activeNcp] ELSE goneGroup

\* nwamui_daemon_update_status: an NCP without NCUs is not good, one whose NCUs
\* are all in other groups is.
NcpGood(ncp, gone, n, g) ==
    /\ ncp # None
    /\ NcuState(ncp, gone, n) # "none"
    /\ g = NcuGroup => NcuState(ncp, gone, n) = "online"
EnvGood(env, gone, c) ==
    env \notin {None, NoNet} /\ EnvState(env, gone, c) = "online"

StatusOf(cn, ncp, ngone, n, g, env, egone, c) ==
    CASE ~cn -> "ERROR"
      [] cn /\ NcpGood(ncp, ngone, n, g) /\ EnvGood(env, egone, c) -> "ALL_OK"
      [] OTHER -> "NEEDS_ATTENTION"

\* Mutated: updated before the handler has changed the lists and the states.
UpdateStatusFirst ==
    /\ status' = StatusOf(conn', activeNcp, goneNcp, ncu, Group, activeEnv, goneEnv, cached)
    /\ late' = FALSE

UpdateStatus ==
    /\ status' = StatusOf(conn', activeNcp', goneNcp', ncu', Group', activeEnv',
                          goneEnv', cached')
    /\ late' = FALSE

\* nwamui_daemon_update_online_enm_num.
UpdateOnlineEnmNum ==
    enmNum' = Cardinality({o \in managed' \cap Enms : cached'[o] = "online"})

\* nwamui_object_get_nwam_state: a state never cached is asked of nwamd.
Fetch(c, O) ==
    [o \in Stateful |->
        IF o \in O /\ c[o] = "uninit" /\ o \in exists THEN st[o] ELSE c[o]]

-----------------------------------------------------------------------------

\* nwamd has at most one location and one NCP online at a time.
AtMostOneOnline(K, e, s) ==
    \A a, b \in K \cap e : s[a] = "online" /\ s[b] = "online" => a = b

\* The daemon after its first reload, before the thread has subscribed; the
\* reload finds everything, or nothing while nwamd is not running.
Init ==
    /\ exists \in {E \in SUBSET Objs : System \subseteq E}
    /\ st \in [Stateful -> States]
    /\ \A o \in Stateful \ exists : st[o] = "offline"
    /\ AtMostOneOnline(Locs, exists, st) /\ AtMostOneOnline(Ncps, exists, st)
    /\ ncuUp \in [Ncps -> States] /\ prio \in Groups
    /\ changes = 0 /\ sub = FALSE /\ losses = 0 /\ q = <<>>
    /\ conn = FALSE
    /\ managed \in {exists, {}}
    /\ cached = [o \in Stateful |-> IF o \in managed THEN st[o] ELSE "uninit"]
    /\ ncu = [p \in Ncps |-> IF p \in managed THEN ncuUp[p] ELSE "none"]
    /\ LET active(K) == {o \in managed \cap K : st[o] = "online"}
       IN  /\ activeEnv \in IF active(Locs) = {} THEN {None} ELSE active(Locs)
           /\ activeNcp \in IF active(Ncps) = {} THEN {None} ELSE active(Ncps)
           /\ enmNum = Cardinality(active(Enms))
    /\ goneEnv = "no" /\ goneNcp = "no"
    /\ group \in [Ncps -> {0, prio}] /\ goneGroup = 0
    /\ status = "ERROR" /\ late = FALSE
    /\ partial = (managed # exists) /\ unheard = FALSE

-----------------------------------------------------------------------------
(* nwamd and the subscription, external.                                   *)

Change(ev) ==
    /\ changes < MaxChanges
    /\ changes' = changes + 1
    /\ q' = IF sub THEN Append(q, ev) ELSE q
    /\ unheard' = (unheard \/ ~sub)
    /\ UNCHANGED <<subVars, uiVars, partial>>

NwamdAdd(o) ==
    /\ o \notin exists
    /\ exists' = exists \cup {o}
    /\ Change([e |-> "ADD", o |-> o])
    /\ UNCHANGED <<st, ncuUp, prio>>

NwamdRemove(o) ==
    /\ o \in exists \ System
    /\ exists' = exists \ {o}
    /\ st' = [x \in Stateful |-> IF x = o THEN "offline" ELSE st[x]]
    /\ Change([e |-> "REMOVE", o |-> o])
    /\ UNCHANGED <<ncuUp, prio>>

NwamdRefresh(o) ==
    /\ o \in exists
    /\ Change([e |-> "REFRESH", o |-> o])
    /\ UNCHANGED <<exists, st, ncuUp, prio>>

NwamdState(o, s) ==
    /\ o \in exists /\ st[o] # s
    /\ st' = [st EXCEPT ![o] = s]
    /\ AtMostOneOnline(Locs, exists, st') /\ AtMostOneOnline(Ncps, exists, st')
    /\ Change([e |-> "STATE", o |-> o, s |-> s])
    /\ UNCHANGED <<exists, ncuUp, prio>>

\* An NCU's event names its NCP, or no NCP when that is the active one; `of' is
\* history, the NCP it is about.
NwamdNcuState(p) ==
    /\ p \in exists
    /\ \E s \in States \ {ncuUp[p]},
          parent \in IF NamelessNcus /\ st[p] = "online" THEN {p, None}
                    ELSE {p} :
          /\ ncuUp' = [ncuUp EXCEPT ![p] = s]
          /\ Change([e |-> "NCU_STATE", o |-> parent, s |-> s, of |-> p])
    /\ UNCHANGED <<exists, st, prio>>

NwamdGroup(g) ==
    /\ prio # g
    /\ prio' = g
    /\ Change([e |-> "GROUP", g |-> g])
    /\ UNCHANGED <<exists, st, ncuUp>>

NwamdNcuAdd(p) ==
    /\ p \in exists
    /\ Change([e |-> "NCU_ADD", o |-> p])
    /\ UNCHANGED <<exists, st, ncuUp, prio>>

\* The event thread connects, or finds its subscription gone.
Connect ==
    /\ ~sub
    /\ sub' = TRUE
    /\ q' = Append(q, [e |-> "ACTIVE"])
    /\ UNCHANGED <<nwamdVars, losses, uiVars, partial, unheard>>

Disconnect ==
    /\ sub /\ losses < MaxLosses
    /\ sub' = FALSE
    /\ losses' = losses + 1
    /\ q' = Append(q, [e |-> "ERROR"])
    /\ UNCHANGED <<nwamdVars, uiVars, partial, unheard>>

-----------------------------------------------------------------------------
(* nwamd_event_handler.                                                    *)

\* Without its NCP's name an event is lost before there is an active NCP, and
\* is taken for another NCP's when a reload or a removal got ahead of it.
Unaddressed(ev) ==
    /\ ev.e = "NCU_STATE" /\ ev.o = None
    /\ activeNcp # ev.of \/ goneNcp # "no"

Unpost(ev) ==
    /\ q # <<>> /\ Head(q) = ev
    /\ q' = Tail(q)
    /\ unheard' = (unheard \/ Unaddressed(ev))
    /\ UNCHANGED <<nwamdVars, subVars>>

HandleError ==
    /\ Unpost([e |-> "ERROR"])
    /\ conn' = FALSE
    /\ status' = "ERROR" /\ late' = FALSE
    /\ UNCHANGED <<managed, cached, ncu, envVars, ncpVars, group, enmNum, partial>>

\* Mutated: external network modifiers taken for unmodifiable.
RemovedButEnms(O) == O \ (System \cup Enms)

\* nwamui_object_real_remove takes only modifiable objects off the lists.
Removed(O) == O \ System

\* Dropping active_env from its list leaves prv->active_env as it is.
LeaveEnv(m) ==
    goneEnv' = IF activeEnv' = activeEnv /\ activeEnv \in managed \ m
                  /\ goneEnv = "no"
               THEN cached[activeEnv] ELSE
               IF activeEnv' = activeEnv THEN goneEnv ELSE "no"
LeaveNcp(m) ==
    IF activeNcp \in managed \ m /\ goneNcp = "no"
    THEN goneNcp' = ncu[activeNcp] /\ goneGroup' = group[activeNcp]
    ELSE UNCHANGED <<goneNcp, goneGroup>>

\* Mutated: the state outlives the object, and is found again by its name.
Remember(c, m) == c

\* The cached state of an object lives and dies with it.
Forget(c, m) == [o \in Stateful |-> IF o \in m THEN c[o] ELSE "uninit"]
ForgetNcu(n, m) == [p \in Ncps |-> IF p \in m THEN n[p] ELSE "none"]

\* nwamui_object_real_reload of an NCP reads the NCUs it has not got yet.
ReloadNcu(n, P) ==
    [p \in Ncps |-> IF p \in P /\ n[p] = "none" /\ p \in exists
                    THEN ncuUp[p] ELSE n[p]]

\* nwamui_ncp_init asks for the active priority group, which may fail; the NCP
\* is told of changes only while it is the active one.
Regroup(m) ==
    group' \in {f \in [Ncps -> Groups] :
                   \A p \in Ncps : f[p] \in IF p \in m \ managed THEN {0, prio} ELSE {group[p]}}

\* nwamui_object_real_reload of the daemon: `seen' is what the four walks
\* visit, `complete' the kinds whose walk succeeds.
Reload(seen, complete) ==
    LET left  == {o \in managed \ seen : \E K \in complete : o \in K}
        new   == seen \ managed
        c     == Fetch(Forget(cached, managed), seen \cup Enms)
        live  == {l \in seen \cap Locs : c[l] = "online"}
        ncps  == {p \in seen \cap Ncps : c[p] = "online"}
    IN  /\ managed' = (managed \ Removed(left)) \cup new
        /\ cached' = Forget(Fetch(c, managed' \cap Enms), managed')
        /\ ncu' = ForgetNcu(ReloadNcu(ncu, seen \cap Ncps), managed')
        /\ IF live = {}
           THEN activeEnv' = activeEnv /\ LeaveEnv(managed')
           ELSE activeEnv' \in live /\ goneEnv' = "no"
        /\ IF ncps = {}
           THEN activeNcp' = activeNcp /\ LeaveNcp(managed')
           ELSE activeNcp' \in ncps /\ goneNcp' = "no" /\ goneGroup' = 0
        /\ Regroup(managed')

HandleActive ==
    /\ Unpost([e |-> "ACTIVE"])
    /\ conn' = TRUE
    /\ \E complete \in SUBSET Kinds :
         \E seen \in SUBSET exists :
            /\ \A K \in complete : exists \cap K \subseteq seen
            /\ Reload(seen, complete)
            /\ partial' = (complete # Kinds)
    /\ UpdateStatus
    /\ UpdateOnlineEnmNum

\* nwamui_daemon_handle_object_action_event.
HandleAdd ==
    /\ \E o \in Objs :
          /\ Unpost([e |-> "ADD", o |-> o])
          /\ managed' = managed \cup {o}
          /\ cached' = IF o \in Enms THEN Fetch(cached, managed' \cap Enms)
                                     ELSE cached
          /\ IF o \in Enms THEN UpdateOnlineEnmNum ELSE UNCHANGED enmNum
    /\ Regroup(managed')
    /\ UNCHANGED <<conn, ncu, envVars, ncpVars, partial>>
    /\ UpdateStatus

HandleRemove ==
    /\ \E o \in Objs :
          /\ Unpost([e |-> "REMOVE", o |-> o])
          /\ managed' = managed \ Removed({o})
          /\ LET c == IF o \in Enms THEN Fetch(cached, managed' \cap Enms)
                                    ELSE cached
             IN  cached' = Forget(c, managed')
          /\ ncu' = ForgetNcu(ncu, managed')
          /\ IF o = activeEnv /\ goneEnv = "no" /\ o \in managed
             THEN activeEnv' = None /\ goneEnv' = "no"
             ELSE UNCHANGED envVars
          /\ activeNcp' = activeNcp /\ LeaveNcp(managed')
          /\ IF o \in Enms THEN UpdateOnlineEnmNum ELSE UNCHANGED enmNum
    /\ UNCHANGED <<conn, group, partial>>
    /\ UpdateStatus

\* An object refreshed is reloaded; only an NCP's reload finds new state.
HandleRefresh ==
    /\ \E o \in Objs :
          /\ Unpost([e |-> "REFRESH", o |-> o])
          /\ ncu' = ReloadNcu(ncu, {o} \cap managed)
          /\ cached' = IF o \in Enms THEN Fetch(cached, managed \cap Enms)
                                     ELSE cached
          /\ managed' = managed
          /\ IF o \in Enms THEN UpdateOnlineEnmNum ELSE UNCHANGED enmNum
    /\ UNCHANGED <<conn, envVars, ncpVars, group, partial>>
    /\ UpdateStatus

\* The state of an object on its list, while connected.
Heard(o) == conn /\ o \in managed

Activated(o, s) == Heard(o) /\ s = "online"

\* nwamui_daemon_handle_object_state_event.
HandleState ==
    /\ \E o \in Stateful, s \in States :
          /\ Unpost([e |-> "STATE", o |-> o, s |-> s])
          /\ managed' = managed
          /\ LET heard == Heard(o)
                 up    == Activated(o, s)
                 c     == IF heard THEN [cached EXCEPT ![o] = s] ELSE cached
             IN  /\ cached' = IF heard /\ o \in Enms
                              THEN Fetch(c, managed \cap Enms) ELSE c
                 /\ IF up /\ o \in Locs
                    THEN activeEnv' = o /\ goneEnv' = "no"
                    ELSE UNCHANGED envVars
                 /\ IF up /\ o \in Ncps
                    THEN /\ activeNcp' = o /\ goneNcp' = "no" /\ goneGroup' = 0
                         /\ ncu' = ReloadNcu(ncu, {o})
                    ELSE UNCHANGED <<ncpVars, ncu>>
                 /\ IF heard /\ o \in Enms THEN UpdateOnlineEnmNum
                                           ELSE UNCHANGED enmNum
    /\ UNCHANGED <<conn, group, partial>>
    /\ UpdateStatus

\* An NCU event of an empty parent is taken to be the active NCP's, which may
\* be on its list no more.
HandleNcuState ==
    /\ \E p \in Ncps \cup {None}, s \in States, of \in Ncps :
          /\ Unpost([e |-> "NCU_STATE", o |-> p, s |-> s, of |-> of])
          /\ LET target == IF p = None THEN activeNcp ELSE p
                 gone   == p = None /\ goneNcp # "no"
             IN  /\ ncu' = IF conn /\ ~gone /\ target \in managed
                              /\ ncu[target] # "none"
                           THEN [ncu EXCEPT ![target] = s] ELSE ncu
                 /\ goneNcp' = IF conn /\ gone /\ goneNcp # "none"
                               THEN s ELSE goneNcp
    /\ UNCHANGED <<conn, managed, cached, envVars, activeNcp, group, goneGroup, enmNum, partial>>
    /\ UpdateStatus

\* The NCU is added by reloading its NCP.
HandleNcuAdd ==
    /\ \E p \in Ncps :
          /\ Unpost([e |-> "NCU_ADD", o |-> p])
          /\ ncu' = ReloadNcu(ncu, {p} \cap managed)
    /\ UNCHANGED <<conn, managed, cached, envVars, ncpVars, group, enmNum, partial>>
    /\ UpdateStatus

\* NWAM_EVENT_TYPE_PRIORITY_GROUP: the call that would update the status is
\* commented out.
HandleGroup ==
    /\ \E g \in Groups :
          /\ Unpost([e |-> "GROUP", g |-> g])
          /\ group' = IF activeNcp # None /\ goneNcp = "no"
                      THEN [group EXCEPT ![activeNcp] = g] ELSE group
          /\ goneGroup' = IF activeNcp # None /\ goneNcp # "no" THEN g ELSE goneGroup
    /\ UNCHANGED <<conn, managed, cached, ncu, envVars, activeNcp, goneNcp, enmNum, status, partial>>
    /\ late' = (late \/ Group' # Group)

\* A menu or a dialog asks for the state of an object.
ReadState(o) ==
    /\ o \in managed /\ cached[o] = "uninit"
    /\ cached' = Fetch(cached, {o})
    /\ UNCHANGED <<nwamdVars, subVars, q, conn, managed, ncu, envVars, ncpVars,
                   group, enmNum, status, late, partial, unheard>>

-----------------------------------------------------------------------------
Nwamd ==
    \/ \E o \in Objs : NwamdAdd(o) \/ NwamdRemove(o) \/ NwamdRefresh(o)
    \/ \E o \in Stateful, s \in States : NwamdState(o, s)
    \/ \E p \in Ncps : NwamdNcuState(p) \/ NwamdNcuAdd(p)
    \/ \E g \in Groups : NwamdGroup(g)

Handler ==
    \/ HandleError \/ HandleActive \/ HandleAdd \/ HandleRemove
    \/ HandleRefresh \/ HandleState \/ HandleNcuState
    \/ HandleNcuAdd \/ HandleGroup
    \/ \E o \in Stateful : ReadState(o)

Next == Nwamd \/ Connect \/ Disconnect \/ Handler

Spec == Init /\ [][Next]_vars

-----------------------------------------------------------------------------
(* Properties.                                                             *)

TypeOK ==
    /\ exists \subseteq Objs /\ managed \subseteq Objs
    /\ st \in [Stateful -> States] /\ cached \in [Stateful -> States \cup {"uninit"}]
    /\ ncuUp \in [Ncps -> States] /\ ncu \in [Ncps -> States \cup {"none"}]
    /\ changes \in 0 .. MaxChanges /\ losses \in 0 .. MaxLosses
    /\ {sub, conn, late, partial, unheard} \subseteq BOOLEAN
    /\ q \in Seq(Events)
    /\ activeEnv \in Locs \cup {None} /\ goneEnv \in States \cup {"no", "uninit"}
    /\ activeNcp \in Ncps \cup {None} /\ goneNcp \in States \cup {"no", "none"}
    /\ prio \in Groups /\ group \in [Ncps -> Groups] /\ goneGroup \in Groups
    /\ enmNum \in Nat
    /\ status \in {"ERROR", "ALL_OK", "NEEDS_ATTENTION"}

\* Connected, and every event posted so far is handled.
Quiet == sub /\ q = <<>>

\* Between two handlers the status is what the connection, the states and the
\* active objects, on their lists or not, make of it, with the priority group
\* the active NCP has.  Only a change of that group, whose handler leaves the
\* status to "the sequent object events", makes it out of date, and then by no
\* more than the group, until the next handler of another event has run.
\* (nwamui_daemon_update_status is called, not recomputed when the status is
\* asked for; nwamd_event_handler.)
StatusIsCurrent ==
    LET With(g) == StatusOf(conn, activeNcp, goneNcp, ncu, g, activeEnv, goneEnv, cached)
    IN  IF late THEN \E g \in Groups : status = With(g) ELSE status = With(Group)

\* The state is well typed.  Events older than a reload and handled after it,
\* and changes nobody heard of, leave the lists as nwamd has them in the end; and
\* online_enm_num counts the active ENMs of the list, though menus read states
\* and may cache one behind its back.  (nwamui_object_real_reload,
\* nwamui_daemon_update_online_enm_num.)
ListsConverge ==
    TypeOK /\ (Quiet =>
      /\ ~partial => managed = exists
      /\ enmNum = Cardinality({o \in managed \cap Enms : cached[o] = "online"}))

\* When every change is heard, what is cached is what nwamd has in the end, and
\* active_env and active_ncp are the objects nwamd has online, on their lists.
\* (nwamui_daemon_handle_object_state_event)
StatesConverge ==
    Quiet /\ ~partial /\ ~unheard =>
        /\ \A o \in Stateful \cap managed : cached[o] \in {st[o], "uninit"}
        /\ \A p \in Ncps \cap managed : ncu[p] \in {ncuUp[p], "none"}
        /\ \A o \in Locs : st[o] = "online" => activeEnv = o /\ goneEnv = "no"
        /\ \A o \in Ncps : st[o] = "online" => activeNcp = o /\ goneNcp = "no"
=============================================================================
