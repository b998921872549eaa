------------------------------- MODULE NwamuiNcp -------------------------------
(***************************************************************************)
(* The active NCP (common/nwamui_ncp.c): its list of NCUs and its count of *)
(* wireless ones, kept from NCU events and from walks over nwamd's NCUs,   *)
(* and what it answers to the daemon's question whether all the NCUs that  *)
(* are expected to be online are (nwamui_daemon_update_status).            *)
(*                                                                         *)
(* An NCU is its device; nwamd has up to two handles for it, of class link *)
(* and interface, created and destroyed one after the other with an event  *)
(* each.  The connection to nwamd holds throughout.                        *)
(***************************************************************************)
EXTENDS Integers, Sequences, FiniteSets

CONSTANTS
    Devs, Wireless,     \* devices; those that are wireless links
    Groups,             \* priority groups
    Policies,           \* activation policies an NCU may have
    None,
    MaxChanges          \* bound: nwamd's changes

Classes == {"link", "interface"}
Handles == Devs \X Classes
Modes   == {"exclusive", "shared", "all"}

ASSUME DevsAssumption ==
    Wireless \subseteq Devs /\ None \notin Devs /\ IsFiniteSet(Devs)
ASSUME PolicyAssumption ==
    Policies \subseteq
      [mode : {"manual", "off"}] \cup
      [mode : {"prioritized"}, group : Groups, share : Modes]
ASSUME BoundsAssumption == MaxChanges \in Nat

VARIABLES
    handles,    \* nwamd's NCUs of the active NCP
    phys,       \* devices that exist on the system
    up,         \* devices whose interface is online and up
    aux,        \* what the link of a device needs: "none", "choice" or "key"
    group,      \* nwamd's active priority group
    policy,     \* activation mode and priority group of the NCUs
    changes,    \* changes nwamd has made
    q,          \* its events, oldest first
    ncuList,    \* prv->ncu_list, and ncu_list_store
    wirelessLinkNum,
    prioGroup,  \* prv->priority_group
    opened,     \* handles the NCUs on the list hold (prv->ncu_handles)
    cached,     \* the interface state cached for an NCU
    linkCached, \* its link's auxiliary state
    good,       \* STATUS_REASON_NCP is not among the daemon's status_flags
    prompts,    \* history: the prompts the last handler emitted
    partial     \* history: the last walk failed

nwamdVars == <<handles, phys, up, aux, group, policy, changes>>
listVars  == <<ncuList, wirelessLinkNum>>
vars      == <<handles, phys, up, aux, group, policy, changes, q, ncuList,
               wirelessLinkNum, prioGroup, opened, cached, linkCached, good, prompts,
               partial>>

Needs  == {"none", "choice", "key"}
Events == [e : {"ADD", "DESTROY"}, h : Handles]
            \cup [e : {"IF_STATE"}, d : Devs, up : BOOLEAN]
            \cup [e : {"LINK_STATE"}, d : Devs, aux : Needs]
            \cup [e : {"PRIORITY_GROUP"}, g : Groups]
            \cup [e : {"NCP_ONLINE"}]

DevsOf(H) == {h[1] : h \in H}

-----------------------------------------------------------------------------
(* nwamui_ncp_all_ncus_online.                                             *)

\* Manual NCUs that are not enabled are "off": they do not count.
Manual(list)       == {d \in list : policy[d].mode = "manual"}
Ranked(list, g, m) == {d \in list : /\ policy[d].mode = "prioritized"
                                    /\ policy[d].group = g /\ policy[d].share = m}
Online(c)          == {d \in Devs : c[d] = "up"}

AllNcusOnline(list, g, c) ==
    LET some(D) == D # {} => D \cap Online(c) # {}
        all(D)  == D \subseteq Online(c)
    IN  /\ list # {}
        /\ all(Manual(list))
        /\ some(Ranked(list, g, "exclusive"))
        /\ some(Ranked(list, g, "shared"))
        /\ all(Ranked(list, g, "all"))

\* Mutated: the link is asked before the priority group is compared.
AskedAll(list, g) == list

\* NCUs of another priority group are passed over before their link is asked.
Asked(list, g) ==
    {d \in list : policy[d].mode = "prioritized" => policy[d].group = g}

\* A state never cached is asked of nwamd, with the handle the NCU has read.
FetchUp(c, D, H) ==
    [d \in Devs |-> IF d \in D /\ c[d] = "uninit" /\ <<d, "interface">> \in H \cap handles
                    THEN IF d \in up THEN "up" ELSE "down"
                    ELSE c[d]]
FetchAux(l, D, H) ==
    [d \in Devs |-> IF d \in D /\ l[d] = "uninit" /\ <<d, "link">> \in H \cap handles
                    THEN aux[d] ELSE l[d]]

\* nwamui_daemon_update_status, its part on the active NCP, for the list and
\* the states c and l the handler leaves.  WIFI_KEY_NEEDED is emitted for an
\* NCU that has a wifi_info, and with the data of WIFI_SELECTION_NEEDED.
UpdateStatus(c, l) ==
    /\ cached' = FetchUp(c, ncuList', opened')
    /\ linkCached' = FetchAux(l, Asked(ncuList', prioGroup'), opened')
    /\ good' = AllNcusOnline(ncuList', prioGroup', cached')
    /\ LET needs(n) == {d \in Asked(ncuList', prioGroup') : linkCached'[d] = n}
       IN  \E choice \in IF needs("choice") = {} THEN {None} ELSE needs("choice"),
              key \in SUBSET needs("key") :
              prompts' =
                IF good' \/ ncuList' = {} THEN {} ELSE
                  {[e |-> "SELECTION", data |-> d] : d \in {choice} \ {None}}
                    \cup {[e |-> "KEY", data |-> choice] : d \in key}

-----------------------------------------------------------------------------
\* The NCP after its first reload, everything read.
Init ==
    /\ \E D \in SUBSET Devs : handles = D \X Classes /\ phys = D /\ ncuList = D
    /\ up \in SUBSET phys
    /\ aux \in [Devs -> {"none"}]
    /\ group \in Groups
    /\ policy \in [Devs -> Policies]
    /\ changes = 0 /\ q = <<>>
    /\ wirelessLinkNum = Cardinality(ncuList \cap Wireless)
    /\ prioGroup = group
    /\ opened = handles
    /\ cached = FetchUp([d \in Devs |-> "uninit"], ncuList, opened)
    /\ linkCached = FetchAux([d \in Devs |-> "uninit"], Asked(ncuList, group), opened)
    /\ good = AllNcusOnline(ncuList, group, cached)
    /\ prompts = {} /\ partial = FALSE

-----------------------------------------------------------------------------
(* nwamd, external.                                                        *)

Change(ev) ==
    /\ changes < MaxChanges
    /\ changes' = changes + 1
    /\ q' = Append(q, ev)
    /\ UNCHANGED <<policy, ncuList, wirelessLinkNum, prioGroup, opened, cached,
                   linkCached, good, prompts, partial>>

\* The link comes first; a device is plugged in before it has an NCU.
NwamdAdd(d, k) ==
    /\ <<d, k>> \notin handles
    /\ k = "interface" => <<d, "link">> \in handles
    /\ handles' = handles \cup {<<d, k>>}
    /\ phys' = phys \cup {d}
    /\ up' = IF k = "interface" THEN up \ {d} ELSE up
    /\ aux' = IF k = "link" THEN [aux EXCEPT ![d] = "none"] ELSE aux
    /\ Change([e |-> "ADD", h |-> <<d, k>>])
    /\ UNCHANGED group

NwamdDestroy(d, k) ==
    /\ <<d, k>> \in handles
    /\ handles' = handles \ {<<d, k>>}
    /\ \E pulled \in {{}, {d}} : phys' = phys \ pulled
    /\ up' = IF k = "interface" THEN up \ {d} ELSE up
    /\ Change([e |-> "DESTROY", h |-> <<d, k>>])
    /\ UNCHANGED <<aux, group>>

NwamdIfState(d) ==
    /\ <<d, "interface">> \in handles
    /\ up' = IF d \in up THEN up \ {d} ELSE up \cup {d}
    /\ Change([e |-> "IF_STATE", d |-> d, up |-> d \in up'])
    /\ UNCHANGED <<handles, phys, aux, group>>

NwamdLinkState(d) ==
    /\ d \in Wireless /\ <<d, "link">> \in handles
    /\ \E n \in Needs \ {aux[d]} :
          /\ aux' = [aux EXCEPT ![d] = n]
          /\ Change([e |-> "LINK_STATE", d |-> d, aux |-> n])
    /\ UNCHANGED <<handles, phys, up, group>>

NwamdPriorityGroup ==
    /\ group' \in Groups \ {group}
    /\ Change([e |-> "PRIORITY_GROUP", g |-> group'])
    /\ UNCHANGED <<handles, phys, up, aux>>

\* The NCP is announced to be online (again): the daemon reloads it.
NwamdNcpOnline ==
    /\ Change([e |-> "NCP_ONLINE"])
    /\ UNCHANGED <<handles, phys, up, aux, group>>

Nwamd ==
    \/ \E d \in Devs, k \in Classes : NwamdAdd(d, k) \/ NwamdDestroy(d, k)
    \/ \E d \in Devs : NwamdIfState(d) \/ NwamdLinkState(d)
    \/ NwamdPriorityGroup \/ NwamdNcpOnline

-----------------------------------------------------------------------------
(* nwamd_event_handler and the NCP.                                        *)

Unpost(ev) ==
    /\ q # <<>> /\ Head(q) = ev
    /\ q' = Tail(q)
    /\ UNCHANGED nwamdVars

\* Mutated: a state cached for a device outlives its NCU.
KeepAll(c, D) == c

\* A cached state lives and dies with its NCU.
Keep(c, D) == [d \in Devs |-> IF d \in D THEN c[d] ELSE "uninit"]

\* Mutated: _num_wireless counts every handle of a wireless device.
CountedTwice(H) == Cardinality({h \in H : h[1] \in Wireless})

\* What nwam_ncu_walker_cb counts in _num_wireless.
Counted(H) == Cardinality({h \in H : h[1] \in Wireless /\ h[2] = "link"})

\* The NCUs a walk that succeeds did not find.
Dropped(found, complete) == IF complete THEN ncuList \ found ELSE {}

\* Reloading the NCUs of D reads what handles nwamd has of them; what it does
\* not find stays as it was.
ReadHandles(D) == {h \in handles : h[1] \in D}

\* nwamui_object_real_reload of the NCP: the walk finds `seen', and passes over
\* devices that do not exist on the system.  The adds and removes adjust
\* wireless_link_num; in the end it is what the walk has counted.
Reload ==
    \E seen \in SUBSET handles, complete \in BOOLEAN :
        LET present == {h \in seen : h[1] \in phys}
            found   == DevsOf(present)
        IN  /\ complete => seen = handles
            /\ ncuList' = (ncuList \ Dropped(found, complete)) \cup found
            /\ wirelessLinkNum' = Counted(present)
            /\ partial' = ~complete
            /\ opened' = {h \in opened : h[1] \in ncuList'} \cup ReadHandles(found)
            /\ prioGroup' = prioGroup
            /\ UpdateStatus(Keep(cached, ncuList \cap ncuList'),
                            Keep(linkCached, ncuList \cap ncuList'))

\* ADD of a device without an NCU, or the NCP online: the NCP is reloaded.
HandleReload ==
    /\ \/ \E h \in Handles : /\ h[1] \notin ncuList
                             /\ Unpost([e |-> "ADD", h |-> h])
       \/ Unpost([e |-> "NCP_ONLINE"])
    /\ Reload

\* ADD of the other handle of a device: only the NCU is reloaded.
HandleAddAgain ==
    /\ \E h \in Handles : /\ h[1] \in ncuList
                           /\ Unpost([e |-> "ADD", h |-> h])
                           /\ opened' = opened \cup ReadHandles({h[1]})
    /\ UNCHANGED <<listVars, prioGroup, partial>>
    /\ UpdateStatus(cached, linkCached)

\* The NCU that the DESTROY of a handle removes, whichever handle it is.
Removed(h) == {h[1]}

\* nwamui_object_real_remove, if the first DESTROY has not removed it.
HandleDestroy ==
    /\ \E h \in Handles :
          /\ Unpost([e |-> "DESTROY", h |-> h])
          /\ ncuList' = ncuList \ Removed(h)
          /\ wirelessLinkNum' =
                wirelessLinkNum - Cardinality(ncuList \cap Removed(h) \cap Wireless)
    /\ opened' = {h \in opened : h[1] \in ncuList'}
    /\ UNCHANGED <<prioGroup, partial>>
    /\ UpdateStatus(Keep(cached, ncuList'), Keep(linkCached, ncuList'))

HandleIfState ==
    /\ \E d \in Devs, b \in BOOLEAN :
          /\ Unpost([e |-> "IF_STATE", d |-> d, up |-> b])
          /\ UNCHANGED <<listVars, prioGroup, opened, partial>>
          /\ UpdateStatus(IF d \in ncuList
                          THEN [cached EXCEPT ![d] = IF b THEN "up" ELSE "down"]
                          ELSE cached, linkCached)

HandleLinkState ==
    /\ \E d \in Devs, n \in Needs :
          /\ Unpost([e |-> "LINK_STATE", d |-> d, aux |-> n])
          /\ UNCHANGED <<listVars, prioGroup, opened, partial>>
          /\ UpdateStatus(cached, IF d \in ncuList
                                  THEN [linkCached EXCEPT ![d] = n] ELSE linkCached)

\* The status is not updated.
HandlePriorityGroup ==
    /\ \E g \in Groups :
          /\ Unpost([e |-> "PRIORITY_GROUP", g |-> g])
          /\ prioGroup' = g
    /\ prompts' = {}
    /\ UNCHANGED <<listVars, opened, cached, linkCached, good, partial>>

Handler ==
    \/ HandleReload \/ HandleAddAgain \/ HandleDestroy \/ HandleIfState
    \/ HandleLinkState \/ HandlePriorityGroup

Next == Nwamd \/ Handler

Spec == Init /\ [][Next]_vars

-----------------------------------------------------------------------------
(* Properties.                                                             *)

\* Types, and nothing is kept of an NCU that is not on the list.
TypeOK ==
    /\ handles \subseteq Handles /\ phys \subseteq Devs /\ up \subseteq Devs
    /\ aux \in [Devs -> Needs] /\ {group, prioGroup} \subseteq Groups
    /\ policy \in [Devs -> Policies] /\ changes \in 0 .. MaxChanges
    /\ q \in Seq(Events)
    /\ ncuList \subseteq Devs /\ wirelessLinkNum \in Int
    /\ opened \subseteq ncuList \X Classes
    /\ \A d \in Devs \ ncuList : cached[d] = "uninit" /\ linkCached[d] = "uninit"
    /\ cached \in [Devs -> {"up", "down", "uninit"}]
    /\ linkCached \in [Devs -> Needs \cup {"uninit"}]
    /\ good \in BOOLEAN /\ partial \in BOOLEAN
    /\ prompts \subseteq [e : {"SELECTION", "KEY"}, data : Devs \cup {None}]

\* nwamd is not half way through creating or destroying an NCU.
Settled == \A d \in Devs : <<d, "link">> \in handles <=> <<d, "interface">> \in handles
Quiet   == q = <<>> /\ Settled

\* The state is well typed.  However the two events of every NCU and the reloads
\* they trigger interleave with its re-creation, the list ends up with the NCUs
\* nwamd has; a walk that failed is made good by the next one that does not.
\* (nwamui_daemon_handle_object_action_event, nwam_ncu_walker_cb.)  The states
\* of the NCUs listed are nwamd's in the end, even if some walk failed before,
\* though they are read through the handles an NCU had when it was loaded, and
\* only once.  (nwamui_object_get_nwam_state, check_ncu_online.)
NcusConverge ==
    TypeOK /\ (Quiet /\ ~partial =>
      /\ ncuList = DevsOf(handles)
      /\ \A d \in ncuList :
            /\ cached[d] = IF d \in up THEN "up" ELSE "down"
            /\ linkCached[d] \in {"uninit", aux[d]})

\* A reload that is not in the middle of nwamd's changes and whose walk succeeds
\* leaves the number of wireless NCUs right, whatever it was before and however
\* many NCUs it added and removed.  (wireless_link_num, _num_wireless.)
ReloadRepairsCount ==
    [][HandleReload /\ Settled /\ ~partial' =>
         wirelessLinkNum' = Cardinality(ncuList' \cap Wireless)]_vars

\* Once everything is handled, what the user was last asked to choose a network
\* for is an NCU that nwamd has, that needs one, and that counts: it is manual or
\* of the active priority group.  (check_ncu_online, nwamui_daemon_update_status.)
PromptsCount ==
    Quiet => \A p \in prompts : p.e = "SELECTION" =>
        /\ p.data \in DevsOf(handles) /\ aux[p.data] = "choice"
        /\ policy[p.data].mode = "prioritized" => policy[p.data].group = group

=============================================================================
