-------------------------- MODULE NwamuiDaemonProofs --------------------------
(***************************************************************************)
(* Proofs about NwamuiDaemon, for any objects and any number of changes:   *)
(* only a change of the priority group leaves the status out of date, and  *)
(* what is listed, counted and cached is nwamd's once the events are       *)
(* handled.  And about NwamEventThread: how the events come, for any       *)
(* number of faults.                                                       *)
(*                                                                         *)
(* The inductive invariant says of every class of events what the last one *)
(* pending will make of the lists and caches, namely what nwamd has; and   *)
(* what holds when none is pending.  A handler of an event of the class    *)
(* makes it so, every other handler leaves it so, and whatever nwamd       *)
(* changes it tells.  That at most one location is active needs more: that *)
(* the going of the former is pending before the coming of the next.       *)
(***************************************************************************)
EXTENDS NwamuiDaemon, NwamEventThread, PendingEvents, FiniteSetTheorems

-----------------------------------------------------------------------------
(* The classes of events, and what the last of a class says.               *)

\* What decides whether o is on its list.
ListEvents(o) ==
    {ev \in Events : ev.e = "ACTIVE" \/ (ev.e \in {"ADD", "REMOVE"} /\ ev.o = o)}
ListSays(o, E) ==
    {ev \in Events : ev.e = "ACTIVE" \/ ev.e = IF o \in E THEN "ADD" ELSE "REMOVE"}

\* What counts the active ENMs again.
CountEvents ==
    {ev \in Events : ev.e = "ACTIVE" \/ (ev.e \in {"ADD", "REMOVE", "REFRESH"} /\ ev.o \in Enms)}

\* What decides what is cached of o; an object removed starts anew.
StateEvents(o) == {ev \in Events : ev.e \in {"STATE", "REMOVE"} /\ ev.o = o}
StateSays(o, s) == {ev \in Events : ev.e = "REMOVE" \/ (ev.e = "STATE" /\ ev.s = s[o])}

NcuEvents(p) == {ev \in Events : ev.e = "NCU_STATE" /\ ev.of = p}
NcuSays(p, u) == {ev \in Events : ev.e = "NCU_STATE" /\ ev.s = u[p]}

\* o goes online; o goes offline or goes.
Up(o)   == {ev \in Events : ev.e = "STATE" /\ ev.o = o /\ ev.s = "online"}
Down(o) ==
    {ev \in Events : \/ (ev.e = "REMOVE" /\ ev.o = o)
                     \/ (ev.e = "STATE" /\ ev.o = o /\ ev.s = "offline")}

\* What decides whether o, of the kind K, becomes the active object and stays.
ActiveEvents(o, K) ==
    {ev \in Events : \/ ev.e = "ACTIVE"
                     \/ (ev.e \in {"ADD", "REMOVE"} /\ ev.o = o)
                     \/ (ev.e = "STATE" /\ ev.o \in K /\ ev.s = "online")}
ActiveSays(o) == {ev \in Events : ev.e = "ACTIVE" \/ (ev.e = "STATE" /\ ev.o = o)}

\* What nwamd never sends.
SystemGoes == {ev \in Events : ev.e = "REMOVE" /\ ev.o \in System}

-----------------------------------------------------------------------------
(* The inductive invariant.                                                *)

NwamdOK ==
    /\ System \subseteq exists
    /\ \A o \in Stateful \ exists : st[o] = "offline"
    /\ AtMostOneOnline(Locs, exists, st) /\ AtMostOneOnline(Ncps, exists, st)
    /\ NoneIn(q, SystemGoes)

\* The cached state lives with the object; the active location has one.
CacheOK ==
    /\ \A o \in Stateful \ managed : cached[o] = "uninit"
    /\ \A p \in Ncps \ managed : ncu[p] = "none"
    /\ activeEnv # None /\ goneEnv = "no" => activeEnv \in managed /\ cached[activeEnv] # "uninit"

\* The events of a subscription are handled between its ACTIVE and its ERROR.
OrderOK ==
    /\ \A i \in 1 .. Len(q) : i < Len(q) /\ q[i].e = "ERROR" => q[i + 1].e = "ACTIVE"
    /\ q # <<>> /\ ~conn => q[1].e \in {"ACTIVE", "ERROR"}
    /\ sub /\ q = <<>> => conn
    /\ sub /\ q # <<>> => q[Len(q)].e # "ERROR"

ListsFollow ==
    sub \/ ~unheard => \A o \in Objs :
        /\ Ends(q, ListEvents(o), ListSays(o, exists))
        /\ NoneIn(q, ListEvents(o)) /\ ~partial => (o \in managed <=> o \in exists)

ActiveEnms == {o \in managed \cap Enms : cached[o] = "online"}

\* The number is right, and no state read later can change what it counts.
Counted ==
    /\ enmNum = Cardinality(ActiveEnms)
    /\ \A o \in managed \cap Enms \cap exists : cached[o] # "uninit"

CountFollows == sub /\ NoneIn(q, CountEvents) => Counted

StatesFollow ==
    ~unheard => \A o \in Stateful :
        /\ Ends(q, StateEvents(o), StateSays(o, st))
        /\ NoneIn(q, StateEvents(o)) /\ o \in managed => cached[o] \in {st[o], "uninit"}

NcusFollow ==
    ~unheard => \A p \in Ncps :
        /\ Ends(q, NcuEvents(p), NcuSays(p, ncuUp))
        /\ NoneIn(q, NcuEvents(p)) /\ p \in managed => ncu[p] \in {ncuUp[p], "none"}

\* Before o went online every other of its kind went offline or away.
OneByOne(K) ==
    ~unheard => \A o, x \in K : o # x /\ st[o] = "online" =>
        /\ x \in managed /\ cached[x] = "online" => Before(q, Down(x), Up(o))
        /\ Chain(q, Up(x), Down(x), Up(o))

ActiveFollows(K, act, gone) ==
    ~unheard => \A o \in K : st[o] = "online" =>
        /\ Ends(q, ActiveEvents(o, K), ActiveSays(o))
        /\ NoneIn(q, ActiveEvents(o, K)) /\ ~partial => act = o /\ gone = "no"

-----------------------------------------------------------------------------
(* Events.                                                                 *)

LEMMA EventFields ==
    /\ [e |-> "ACTIVE"] \in Events /\ [e |-> "ERROR"] \in Events
    /\ \A o \in Objs : /\ [e |-> "ADD", o |-> o] \in Events
                       /\ [e |-> "REMOVE", o |-> o] \in Events
                       /\ [e |-> "REFRESH", o |-> o] \in Events
    /\ \A o \in Stateful, s \in States : [e |-> "STATE", o |-> o, s |-> s] \in Events
    /\ \A p \in Ncps : [e |-> "NCU_ADD", o |-> p] \in Events
    /\ \A g \in Groups : [e |-> "GROUP", g |-> g] \in Events
    /\ \A p \in Ncps, o \in Ncps \cup {None}, s \in States :
          o \in {p, None} => [e |-> "NCU_STATE", o |-> o, s |-> s, of |-> p] \in Events
BY DEF Events

LEMMA EventTypes ==
    ASSUME NEW ev \in Events
    PROVE  /\ ev.e \in {"ACTIVE", "ERROR", "ADD", "REMOVE", "REFRESH", "STATE", "NCU_ADD",
                        "GROUP", "NCU_STATE"}
           /\ ev.e = "GROUP" => ev.g \in Groups
           /\ ev.e \in {"ADD", "REMOVE", "REFRESH"} => ev.o \in Objs
           /\ ev.e = "STATE" => ev.o \in Stateful /\ ev.s \in States
           /\ ev.e = "NCU_ADD" => ev.o \in Ncps
           /\ ev.e = "NCU_STATE" => ev.of \in Ncps /\ ev.s \in States /\ ev.o \in {ev.of, None}
BY DEF Events

\* A change of nwamd's is sent, or goes unheard.
LEMMA ChangeFacts ==
    ASSUME TypeOK, NEW ev \in Events, Change(ev)
    PROVE  /\ q' \in Seq(Events)
           /\ sub => q' = Append(q, ev)
           /\ ~sub => q' = q
           /\ changes' \in 0 .. MaxChanges
           /\ sub' = sub /\ losses' = losses /\ partial' = partial
           /\ unheard' \in BOOLEAN
           /\ ~unheard' => sub /\ ~unheard
           /\ UNCHANGED uiVars
<1>1. q \in Seq(Events) /\ sub \in BOOLEAN /\ unheard \in BOOLEAN /\ changes \in 0 .. MaxChanges
  BY DEF TypeOK
<1>2. changes' \in 0 .. MaxChanges
  BY <1>1, BoundsAssumption DEF Change
<1>3. q' \in Seq(Events)
  BY <1>1 DEF Change
<1>4. sub' = sub /\ losses' = losses
  BY DEF Change, subVars
<1>5. unheard' \in BOOLEAN /\ (~unheard' => sub /\ ~unheard)
  BY <1>1 DEF Change
<1> QED BY <1>2, <1>3, <1>4, <1>5 DEF Change

\* What an event that nwamd posts says it has changed.
Means(ev) ==
    \/ /\ ev.e = "ADD" /\ ev.o \in Objs \ exists
       /\ exists' = exists \cup {ev.o} /\ UNCHANGED <<st, ncuUp, prio>>
    \/ /\ ev.e = "REMOVE" /\ ev.o \in exists \ System
       /\ exists' = exists \ {ev.o} /\ UNCHANGED <<ncuUp, prio>>
       /\ st' = [x \in Stateful |-> IF x = ev.o THEN "offline" ELSE st[x]]
    \/ ev.e \in {"REFRESH", "NCU_ADD"} /\ UNCHANGED <<exists, st, ncuUp, prio>>
    \/ ev.e = "GROUP" /\ ev.g \in Groups /\ prio' = ev.g /\ UNCHANGED <<exists, st, ncuUp>>
    \/ /\ ev.e = "STATE" /\ ev.o \in exists \cap Stateful /\ ev.s \in States
       /\ st[ev.o] # ev.s
       /\ st' = [st EXCEPT ![ev.o] = ev.s] /\ UNCHANGED <<exists, ncuUp, prio>>
       /\ AtMostOneOnline(Locs, exists, st') /\ AtMostOneOnline(Ncps, exists, st')
    \/ /\ ev.e = "NCU_STATE" /\ ev.of \in Ncps
       /\ ncuUp' = [ncuUp EXCEPT ![ev.of] = ev.s] /\ UNCHANGED <<exists, st, prio>>

\* A step of nwamd's posts one event and changes what the event says.
LEMMA NwamdSteps ==
    ASSUME TypeOK, Nwamd
    PROVE  \E ev \in Events : Change(ev) /\ Means(ev)
<1> DEFINE P(ev) == Change(ev) /\ Means(ev)
<1>1. ASSUME NEW o \in Objs, NwamdAdd(o) PROVE \E ev \in Events : P(ev)
  <2>1. P([e |-> "ADD", o |-> o])
    BY <1>1 DEF Means, NwamdAdd
  <2> QED BY <2>1, EventFields
<1>2. ASSUME NEW o \in Objs, NwamdRemove(o) PROVE \E ev \in Events : P(ev)
  <2>1. P([e |-> "REMOVE", o |-> o])
    BY <1>2 DEF Means, NwamdRemove
  <2> QED BY <2>1, EventFields
<1>3. ASSUME NEW o \in Objs, NwamdRefresh(o) PROVE \E ev \in Events : P(ev)
  <2>1. P([e |-> "REFRESH", o |-> o])
    BY <1>3 DEF Means, NwamdRefresh
  <2> QED BY <2>1, EventFields
<1>4. ASSUME NEW o \in Stateful, NEW s \in States, NwamdState(o, s) PROVE \E ev \in Events : P(ev)
  <2>1. P([e |-> "STATE", o |-> o, s |-> s])
    BY <1>4 DEF Means, NwamdState
  <2> QED BY <2>1, EventFields
<1>5. ASSUME NEW p \in Ncps, NwamdNcuState(p) PROVE \E ev \in Events : P(ev)
  <2>1. PICK s \in States \ {ncuUp[p]}, parent \in {p, None} :
           /\ ncuUp' = [ncuUp EXCEPT ![p] = s]
           /\ Change([e |-> "NCU_STATE", o |-> parent, s |-> s, of |-> p])
    BY <1>5 DEF NwamdNcuState
  <2>2. exists' = exists /\ st' = st /\ prio' = prio
    BY <1>5 DEF NwamdNcuState
  <2>3. P([e |-> "NCU_STATE", o |-> parent, s |-> s, of |-> p])
    BY <2>1, <2>2 DEF Means
  <2>4. [e |-> "NCU_STATE", o |-> parent, s |-> s, of |-> p] \in Events
    BY <2>1, EventFields
  <2> HIDE DEF P
  <2> QED BY <2>3, <2>4
<1>6. ASSUME NEW p \in Ncps, NwamdNcuAdd(p) PROVE \E ev \in Events : P(ev)
  <2>1. P([e |-> "NCU_ADD", o |-> p])
    BY <1>6 DEF Means, NwamdNcuAdd
  <2> QED BY <2>1, EventFields
<1>8. ASSUME NEW g \in Groups, NwamdGroup(g) PROVE \E ev \in Events : P(ev)
  <2>1. P([e |-> "GROUP", g |-> g])
    BY <1>8 DEF Means, NwamdGroup
  <2> QED BY <2>1, EventFields
<1>7. \E ev \in Events : P(ev)
  <2> HIDE DEF P
  <2> QED BY <1>1, <1>2, <1>3, <1>4, <1>5, <1>6, <1>8 DEF Nwamd
<1> QED BY <1>7

\* A handler takes the oldest event.
LEMMA UnpostFacts ==
    ASSUME TypeOK, NEW ev, Unpost(ev)
    PROVE  /\ q # <<>> /\ Head(q) = ev /\ q[1] = ev /\ ev \in Events
           /\ q' = Tail(q) /\ q' \in Seq(Events)
           /\ unheard' \in BOOLEAN
           /\ ~unheard' => ~unheard /\ ~Unaddressed(ev)
           /\ exists' = exists /\ st' = st /\ ncuUp' = ncuUp /\ prio' = prio /\ changes' = changes
           /\ sub' = sub /\ losses' = losses
<1>1. q \in Seq(Events) /\ unheard \in BOOLEAN
  BY DEF TypeOK
<1>2. q # <<>> /\ Head(q) = ev /\ q' = Tail(q)
  BY DEF Unpost
<1>3. ev \in Events /\ q' \in Seq(Events) /\ q[1] = ev
  BY <1>1, <1>2, TailFacts
<1>4. unheard' \in BOOLEAN /\ (~unheard' => ~unheard /\ ~Unaddressed(ev))
  BY <1>1 DEF Unpost, Unaddressed
<1>5. UNCHANGED <<nwamdVars, subVars>>
  BY DEF Unpost
<1> QED BY <1>2, <1>3, <1>4, <1>5 DEF nwamdVars, subVars

-----------------------------------------------------------------------------
(* Type correctness.                                                       *)

LEMMA FetchType ==
    ASSUME TypeOK, NEW c \in [Stateful -> States \cup {"uninit"}], NEW O
    PROVE  Fetch(c, O) \in [Stateful -> States \cup {"uninit"}]
BY DEF TypeOK, Fetch

LEMMA ForgetType ==
    ASSUME NEW c \in [Stateful -> States \cup {"uninit"}], NEW m
    PROVE  Forget(c, m) \in [Stateful -> States \cup {"uninit"}]
BY DEF Forget

LEMMA ForgetNcuType ==
    ASSUME NEW n \in [Ncps -> States \cup {"none"}], NEW m
    PROVE  ForgetNcu(n, m) \in [Ncps -> States \cup {"none"}]
BY DEF ForgetNcu

LEMMA ReloadNcuType ==
    ASSUME TypeOK, NEW n \in [Ncps -> States \cup {"none"}], NEW P
    PROVE  ReloadNcu(n, P) \in [Ncps -> States \cup {"none"}]
BY DEF TypeOK, ReloadNcu

LEMMA CountType ==
    ASSUME UpdateOnlineEnmNum
    PROVE  enmNum' \in Nat
<1>1. IsFiniteSet({o \in managed' \cap Enms : cached'[o] = "online"})
  BY NamesAssumption, FS_Subset
<1> QED BY <1>1, FS_CardinalityType DEF UpdateOnlineEnmNum

LEMMA StatusType ==
    ASSUME NEW cn, NEW p, NEW pg, NEW n, NEW g, NEW l, NEW lg, NEW c
    PROVE  StatusOf(cn, p, pg, n, g, l, lg, c) \in {"ERROR", "ALL_OK", "NEEDS_ATTENTION"}
<1>1. CASE ~cn
  BY <1>1 DEF StatusOf
<1>2. CASE cn /\ NcpGood(p, pg, n, g) /\ EnvGood(l, lg, c)
  BY <1>2 DEF StatusOf
<1>3. CASE cn /\ ~(NcpGood(p, pg, n, g) /\ EnvGood(l, lg, c))
  BY <1>3 DEF StatusOf
<1> QED BY <1>1, <1>2, <1>3

\* A reload leaves what it makes of the lists well typed.
LEMMA ReloadType ==
    ASSUME TypeOK, NEW seen \in SUBSET exists, NEW complete, Reload(seen, complete)
    PROVE  /\ managed' \subseteq Objs
           /\ cached' \in [Stateful -> States \cup {"uninit"}]
           /\ ncu' \in [Ncps -> States \cup {"none"}]
           /\ activeEnv' \in Locs \cup {None} /\ goneEnv' \in States \cup {"no", "uninit"}
           /\ activeNcp' \in Ncps \cup {None} /\ goneNcp' \in States \cup {"no", "none"}
           /\ group' \in [Ncps -> Groups] /\ goneGroup' \in Groups
<1> DEFINE c == Fetch(Forget(cached, managed), seen \cup Enms)
<1>t. /\ exists \subseteq Objs /\ managed \subseteq Objs
      /\ cached \in [Stateful -> States \cup {"uninit"}]
      /\ ncu \in [Ncps -> States \cup {"none"}]
      /\ activeEnv \in Locs \cup {None} /\ goneEnv \in States \cup {"no", "uninit"}
      /\ activeNcp \in Ncps \cup {None} /\ goneNcp \in States \cup {"no", "none"}
      /\ group \in [Ncps -> Groups] /\ goneGroup \in Groups
  BY DEF TypeOK
<1>1. managed' \subseteq Objs
  BY <1>t DEF Reload, Removed
<1>2. c \in [Stateful -> States \cup {"uninit"}]
  BY <1>t, FetchType, ForgetType
<1>3. cached' \in [Stateful -> States \cup {"uninit"}]
  BY <1>2, FetchType, ForgetType DEF Reload
<1>4. ncu' \in [Ncps -> States \cup {"none"}]
  BY <1>t, ReloadNcuType, ForgetNcuType DEF Reload
<1>5. activeEnv' \in Locs \cup {None} /\ goneEnv' \in States \cup {"no", "uninit"}
  <2>1. CASE activeEnv' = activeEnv /\ LeaveEnv(managed')
    <3>1. activeEnv \in managed => activeEnv \in Stateful
      BY <1>t, NamesAssumption DEF Stateful
    <3> QED BY <1>t, <2>1, <3>1 DEF LeaveEnv
  <2>2. CASE activeEnv' \in Locs /\ goneEnv' = "no"
    BY <2>2
  <2> QED BY <2>1, <2>2 DEF Reload
<1>7. group' \in [Ncps -> Groups]
  BY DEF Reload, Regroup
<1>6. /\ activeNcp' \in Ncps \cup {None} /\ goneNcp' \in States \cup {"no", "none"}
      /\ goneGroup' \in Groups
  <2>1. CASE activeNcp' = activeNcp /\ LeaveNcp(managed')
    <3>1. activeNcp \in managed => activeNcp \in Ncps
      BY <1>t, NamesAssumption
    <3> QED BY <1>t, <2>1, <3>1 DEF LeaveNcp
  <2>2. CASE activeNcp' \in Ncps /\ goneNcp' = "no" /\ goneGroup' = 0
    BY <2>2, NamesAssumption
  <2> QED BY <2>1, <2>2 DEF Reload
<1> QED BY <1>1, <1>3, <1>4, <1>5, <1>6, <1>7

LEMMA LeaveNcpType ==
    ASSUME TypeOK, NEW m, LeaveNcp(m)
    PROVE  goneNcp' \in States \cup {"no", "none"} /\ goneGroup' \in Groups
<1>1. activeNcp \in managed => activeNcp \in Ncps
  BY NamesAssumption DEF TypeOK
<1> QED BY <1>1 DEF LeaveNcp, TypeOK

LEMMA NwamdType == TypeOK /\ Nwamd => TypeOK'
<1> SUFFICES ASSUME TypeOK, Nwamd PROVE TypeOK'
  OBVIOUS
<1>1. PICK ev \in Events : Change(ev) /\ Means(ev)
  BY NwamdSteps
<1>2. /\ exists' \subseteq Objs /\ st' \in [Stateful -> States] /\ ncuUp' \in [Ncps -> States]
      /\ prio' \in Groups
  BY <1>1, EventTypes DEF Means, TypeOK, States
<1> QED BY <1>1, <1>2, ChangeFacts DEF TypeOK, uiVars

LEMMA SubType == TypeOK /\ (Connect \/ Disconnect) => TypeOK'
<1> SUFFICES ASSUME TypeOK, Connect \/ Disconnect PROVE TypeOK'
  OBVIOUS
<1>t. q \in Seq(Events) /\ losses \in 0 .. MaxLosses
  BY DEF TypeOK
<1>1. q' \in Seq(Events)
  BY <1>t, EventFields, AppendFacts DEF Connect, Disconnect
<1>3. losses' \in 0 .. MaxLosses
  BY <1>t, BoundsAssumption DEF Connect, Disconnect
<1>4. sub' \in BOOLEAN
  BY DEF Connect, Disconnect
<1>2. unheard' = unheard /\ partial' = partial /\ UNCHANGED nwamdVars /\ UNCHANGED uiVars
  BY DEF Connect, Disconnect
<1> QED BY <1>1, <1>2, <1>3, <1>4 DEF TypeOK, uiVars, nwamdVars

LEMMA HandlerType == TypeOK /\ Handler => TypeOK'
<1> SUFFICES ASSUME TypeOK, Handler PROVE TypeOK'
  OBVIOUS
<1>t. /\ exists \subseteq Objs /\ managed \subseteq Objs
      /\ st \in [Stateful -> States] /\ cached \in [Stateful -> States \cup {"uninit"}]
      /\ ncuUp \in [Ncps -> States] /\ ncu \in [Ncps -> States \cup {"none"}]
      /\ changes \in 0 .. MaxChanges /\ losses \in 0 .. MaxLosses
      /\ sub \in BOOLEAN /\ conn \in BOOLEAN /\ partial \in BOOLEAN
      /\ late \in BOOLEAN /\ prio \in Groups /\ group \in [Ncps -> Groups] /\ goneGroup \in Groups
      /\ activeEnv \in Locs \cup {None} /\ goneEnv \in States \cup {"no", "uninit"}
      /\ activeNcp \in Ncps \cup {None} /\ goneNcp \in States \cup {"no", "none"}
      /\ enmNum \in Nat /\ status \in {"ERROR", "ALL_OK", "NEEDS_ATTENTION"}
  BY DEF TypeOK
<1>s. UpdateStatus => status' \in {"ERROR", "ALL_OK", "NEEDS_ATTENTION"} /\ late' \in BOOLEAN
  BY StatusType DEF UpdateStatus
<1>1. CASE HandleError
  <2>1. Unpost([e |-> "ERROR"])
    BY <1>1 DEF HandleError
  <2>2. /\ q' \in Seq(Events) /\ unheard' \in BOOLEAN
        /\ exists' = exists /\ st' = st /\ ncuUp' = ncuUp /\ prio' = prio /\ changes' = changes
        /\ sub' = sub /\ losses' = losses
    BY <2>1, UnpostFacts
  <2> QED BY <1>t, <1>1, <2>2 DEF HandleError, TypeOK, envVars, ncpVars
<1>2. CASE HandleActive
  <2>1. Unpost([e |-> "ACTIVE"])
    BY <1>2 DEF HandleActive
  <2>2. /\ q' \in Seq(Events) /\ unheard' \in BOOLEAN
        /\ exists' = exists /\ st' = st /\ ncuUp' = ncuUp /\ prio' = prio /\ changes' = changes
        /\ sub' = sub /\ losses' = losses
    BY <2>1, UnpostFacts
  <2>3. PICK complete \in SUBSET Kinds : \E seen \in SUBSET exists :
           Reload(seen, complete) /\ partial' = (complete # Kinds)
    BY <1>2 DEF HandleActive
  <2>4. PICK seen \in SUBSET exists : Reload(seen, complete) /\ partial' = (complete # Kinds)
    BY <2>3
  <2>5. partial' \in BOOLEAN /\ conn' \in BOOLEAN /\ enmNum' \in Nat
    BY <1>2, <2>4, CountType DEF HandleActive
  <2>6. status' \in {"ERROR", "ALL_OK", "NEEDS_ATTENTION"} /\ late' \in BOOLEAN
    BY <1>2, <1>s DEF HandleActive
  <2> QED BY <1>t, <2>2, <2>4, <2>5, <2>6, ReloadType DEF TypeOK
<1>3. CASE HandleAdd
  <2>1. PICK o \in Objs :
          /\ Unpost([e |-> "ADD", o |-> o])
          /\ managed' = managed \cup {o}
          /\ cached' = IF o \in Enms THEN Fetch(cached, managed' \cap Enms) ELSE cached
          /\ IF o \in Enms THEN UpdateOnlineEnmNum ELSE UNCHANGED enmNum
    BY <1>3 DEF HandleAdd
  <2>2. /\ q' \in Seq(Events) /\ unheard' \in BOOLEAN
        /\ exists' = exists /\ st' = st /\ ncuUp' = ncuUp /\ prio' = prio /\ changes' = changes
        /\ sub' = sub /\ losses' = losses
    BY <2>1, UnpostFacts
  <2>3. /\ cached' \in [Stateful -> States \cup {"uninit"}] /\ enmNum' \in Nat
        /\ managed' \subseteq Objs
    BY <1>t, <2>1, FetchType, CountType
  <2>4. group' \in [Ncps -> Groups]
    BY <1>3 DEF HandleAdd, Regroup
  <2> QED BY <1>t, <1>s, <1>3, <2>2, <2>3, <2>4 DEF HandleAdd, TypeOK, envVars, ncpVars
<1>4. CASE HandleRemove
  <2>1. PICK o \in Objs :
          /\ Unpost([e |-> "REMOVE", o |-> o])
          /\ managed' = managed \ Removed({o})
          /\ cached' = Forget(IF o \in Enms THEN Fetch(cached, managed' \cap Enms) ELSE cached, managed')
          /\ ncu' = ForgetNcu(ncu, managed')
          /\ IF o = activeEnv /\ goneEnv = "no" /\ o \in managed
             THEN activeEnv' = None /\ goneEnv' = "no"
             ELSE UNCHANGED envVars
          /\ activeNcp' = activeNcp /\ LeaveNcp(managed')
          /\ IF o \in Enms THEN UpdateOnlineEnmNum ELSE UNCHANGED enmNum
    BY <1>4 DEF HandleRemove
  <2>2. /\ q' \in Seq(Events) /\ unheard' \in BOOLEAN
        /\ exists' = exists /\ st' = st /\ ncuUp' = ncuUp /\ prio' = prio /\ changes' = changes
        /\ sub' = sub /\ losses' = losses
    BY <2>1, UnpostFacts
  <2>3. /\ cached' \in [Stateful -> States \cup {"uninit"}] /\ enmNum' \in Nat
        /\ managed' \subseteq Objs /\ ncu' \in [Ncps -> States \cup {"none"}]
    BY <1>t, <2>1, FetchType, ForgetType, ForgetNcuType, CountType
  <2>4. /\ activeEnv' \in Locs \cup {None} /\ goneEnv' \in States \cup {"no", "uninit"}
        /\ activeNcp' \in Ncps \cup {None} /\ goneNcp' \in States \cup {"no", "none"}
        /\ goneGroup' \in Groups
    BY <1>t, <2>1, LeaveNcpType DEF envVars
  <2> QED BY <1>t, <1>s, <1>4, <2>2, <2>3, <2>4 DEF HandleRemove, TypeOK
<1>5. CASE HandleRefresh
  <2>1. PICK o \in Objs :
          /\ Unpost([e |-> "REFRESH", o |-> o])
          /\ ncu' = ReloadNcu(ncu, {o} \cap managed)
          /\ cached' = IF o \in Enms THEN Fetch(cached, managed \cap Enms) ELSE cached
          /\ managed' = managed
          /\ IF o \in Enms THEN UpdateOnlineEnmNum ELSE UNCHANGED enmNum
    BY <1>5 DEF HandleRefresh
  <2>2. /\ q' \in Seq(Events) /\ unheard' \in BOOLEAN
        /\ exists' = exists /\ st' = st /\ ncuUp' = ncuUp /\ prio' = prio /\ changes' = changes
        /\ sub' = sub /\ losses' = losses
    BY <2>1, UnpostFacts
  <2>3. /\ cached' \in [Stateful -> States \cup {"uninit"}] /\ enmNum' \in Nat
        /\ ncu' \in [Ncps -> States \cup {"none"}]
    BY <1>t, <2>1, FetchType, ReloadNcuType, CountType
  <2> QED BY <1>t, <1>s, <1>5, <2>1, <2>2, <2>3 DEF HandleRefresh, TypeOK, envVars, ncpVars
<1>6. CASE HandleState
  <2>1. PICK o \in Stateful, s \in States :
          /\ Unpost([e |-> "STATE", o |-> o, s |-> s])
          /\ managed' = managed
          /\ LET heard == Heard(o)
                 up    == Activated(o, s)
                 c     == IF heard THEN [cached EXCEPT ![o] = s] ELSE cached
             IN  /\ cached' = IF heard /\ o \in Enms
                              THEN Fetch(c, managed \cap Enms) ELSE c
                 /\ IF up /\ o \in Locs
                    THEN activeEnv' = o /\ goneEnv' = "no"
                    ELSE UNCHANGED envVars
                 /\ IF up /\ o \in Ncps
                    THEN /\ activeNcp' = o /\ goneNcp' = "no" /\ goneGroup' = 0
                         /\ ncu' = ReloadNcu(ncu, {o})
                    ELSE UNCHANGED <<ncpVars, ncu>>
                 /\ IF heard /\ o \in Enms THEN UpdateOnlineEnmNum
                                           ELSE UNCHANGED enmNum
    BY <1>6 DEF HandleState
  <2>2. /\ q' \in Seq(Events) /\ unheard' \in BOOLEAN
        /\ exists' = exists /\ st' = st /\ ncuUp' = ncuUp /\ prio' = prio /\ changes' = changes
        /\ sub' = sub /\ losses' = losses
    BY <2>1, UnpostFacts
  <2>3. [cached EXCEPT ![o] = s] \in [Stateful -> States \cup {"uninit"}]
    BY <1>t
  <2>4. /\ cached' \in [Stateful -> States \cup {"uninit"}] /\ enmNum' \in Nat
    BY <1>t, <2>1, <2>3, FetchType, CountType
  <2>5. ncu' \in [Ncps -> States \cup {"none"}]
    BY <1>t, <2>1, ReloadNcuType
  <2>6. /\ activeEnv' \in Locs \cup {None} /\ goneEnv' \in States \cup {"no", "uninit"}
        /\ activeNcp' \in Ncps \cup {None} /\ goneNcp' \in States \cup {"no", "none"}
        /\ goneGroup' \in Groups
    BY <1>t, <2>1, NamesAssumption DEF envVars, ncpVars
  <2> QED BY <1>t, <1>s, <1>6, <2>1, <2>2, <2>4, <2>5, <2>6 DEF HandleState, TypeOK
<1>7. CASE HandleNcuState
  <2>1. PICK p \in Ncps \cup {None}, s \in States, of \in Ncps :
          /\ Unpost([e |-> "NCU_STATE", o |-> p, s |-> s, of |-> of])
          /\ LET target == IF p = None THEN activeNcp ELSE p
                 gone   == p = None /\ goneNcp # "no"
             IN  /\ ncu' = IF conn /\ ~gone /\ target \in managed
                              /\ ncu[target] # "none"
                           THEN [ncu EXCEPT ![target] = s] ELSE ncu
                 /\ goneNcp' = IF conn /\ gone /\ goneNcp # "none"
                               THEN s ELSE goneNcp
    BY <1>7 DEF HandleNcuState
  <2>2. /\ q' \in Seq(Events) /\ unheard' \in BOOLEAN
        /\ exists' = exists /\ st' = st /\ ncuUp' = ncuUp /\ prio' = prio /\ changes' = changes
        /\ sub' = sub /\ losses' = losses
    BY <2>1, UnpostFacts
  <2>3. ncu' \in [Ncps -> States \cup {"none"}] /\ goneNcp' \in States \cup {"no", "none"}
    BY <1>t, <2>1
  <2> QED BY <1>t, <1>s, <1>7, <2>2, <2>3 DEF HandleNcuState, TypeOK, envVars
<1>8. CASE HandleNcuAdd
  <2>1. PICK p \in Ncps :
          /\ Unpost([e |-> "NCU_ADD", o |-> p])
          /\ ncu' = ReloadNcu(ncu, {p} \cap managed)
    BY <1>8 DEF HandleNcuAdd
  <2>2. /\ q' \in Seq(Events) /\ unheard' \in BOOLEAN
        /\ exists' = exists /\ st' = st /\ ncuUp' = ncuUp /\ prio' = prio /\ changes' = changes
        /\ sub' = sub /\ losses' = losses
    BY <2>1, UnpostFacts
  <2>3. ncu' \in [Ncps -> States \cup {"none"}]
    BY <1>t, <2>1, ReloadNcuType
  <2> QED BY <1>t, <1>s, <1>8, <2>2, <2>3 DEF HandleNcuAdd, TypeOK, envVars, ncpVars
<1>g. CASE HandleGroup
  <2>1. PICK g \in Groups :
          /\ Unpost([e |-> "GROUP", g |-> g])
          /\ group' = IF activeNcp # None /\ goneNcp = "no"
                      THEN [group EXCEPT ![activeNcp] = g] ELSE group
          /\ goneGroup' = IF activeNcp # None /\ goneNcp # "no" THEN g ELSE goneGroup
    BY <1>g DEF HandleGroup
  <2>2. /\ q' \in Seq(Events) /\ unheard' \in BOOLEAN
        /\ exists' = exists /\ st' = st /\ ncuUp' = ncuUp /\ prio' = prio /\ changes' = changes
        /\ sub' = sub /\ losses' = losses
    BY <2>1, UnpostFacts
  <2>3. group' \in [Ncps -> Groups] /\ goneGroup' \in Groups
    BY <1>t, <2>1
  <2>4. late' \in BOOLEAN
    BY <1>t, <1>g DEF HandleGroup
  <2> QED BY <1>t, <1>g, <2>2, <2>3, <2>4 DEF HandleGroup, TypeOK, envVars
<1>9. ASSUME NEW o \in Stateful, ReadState(o) PROVE TypeOK'
  <2>1. cached' \in [Stateful -> States \cup {"uninit"}]
    BY <1>t, <1>9, FetchType DEF ReadState
  <2> QED BY <1>9, <2>1 DEF ReadState, TypeOK, envVars, ncpVars, nwamdVars, subVars
<1> QED BY <1>1, <1>2, <1>3, <1>4, <1>5, <1>6, <1>7, <1>8, <1>g, <1>9 DEF Handler

LEMMA InitType == Init => TypeOK
<1> SUFFICES ASSUME Init PROVE TypeOK
  OBVIOUS
<1>1. /\ exists \subseteq Objs /\ managed \subseteq Objs
      /\ st \in [Stateful -> States] /\ ncuUp \in [Ncps -> States]
  BY DEF Init
<1>2. cached \in [Stateful -> States \cup {"uninit"}] /\ ncu \in [Ncps -> States \cup {"none"}]
  BY <1>1 DEF Init
<1>3. activeEnv \in Locs \cup {None} /\ activeNcp \in Ncps \cup {None}
  BY DEF Init
<1>4. enmNum \in Nat
  <2>1. IsFiniteSet({o \in managed \cap Enms : st[o] = "online"})
    BY NamesAssumption, FS_Subset
  <2>2. enmNum = Cardinality({o \in managed \cap Enms : st[o] = "online"})
    BY DEF Init
  <2> QED BY <2>1, <2>2, FS_CardinalityType
<1>5. q \in Seq(Events) /\ changes \in 0 .. MaxChanges /\ losses \in 0 .. MaxLosses
  BY BoundsAssumption DEF Init
<1>6. {sub, conn, late, partial, unheard} \subseteq BOOLEAN
  BY DEF Init
<1>7. prio \in Groups /\ group \in [Ncps -> Groups] /\ goneGroup \in Groups
  BY NamesAssumption DEF Init
<1> QED BY <1>1, <1>2, <1>3, <1>4, <1>5, <1>6, <1>7 DEF Init, TypeOK

LEMMA NextType == TypeOK /\ [Next]_vars => TypeOK'
<1>1. TypeOK /\ UNCHANGED vars => TypeOK'
  BY DEF TypeOK, vars
<1> QED BY <1>1, NwamdType, SubType, HandlerType DEF Next

\* The state of the daemon object, its lists and its queue stays well typed.
THEOREM TypeCorrect == Spec => []TypeOK
BY InitType, NextType, PTL DEF Spec

-----------------------------------------------------------------------------
(* What the daemon's steps do to its lists and caches.                     *)

LEMMA Kinded ==
    /\ Locs \subseteq Stateful /\ Ncps \subseteq Stateful /\ Enms \subseteq Stateful
    /\ Stateful \subseteq Objs /\ Locs \cap Ncps = {} /\ Locs \cap Enms = {} /\ Ncps \cap Enms = {}
    /\ None \notin Objs
BY NamesAssumption DEF Stateful, Objs

\* A state known stays; one not known is nwamd's or stays unknown.
LEMMA FetchFacts ==
    ASSUME NEW c, NEW O, NEW o \in Stateful
    PROVE  /\ c[o] # "uninit" \/ o \notin O \/ o \notin exists => Fetch(c, O)[o] = c[o]
           /\ c[o] = "uninit" /\ o \in O /\ o \in exists => Fetch(c, O)[o] = st[o]
BY DEF Fetch

LEMMA ForgetFacts ==
    ASSUME NEW c, NEW m, NEW o \in Stateful
    PROVE  Forget(c, m)[o] = IF o \in m THEN c[o] ELSE "uninit"
BY DEF Forget

LEMMA NcuFacts ==
    ASSUME NEW n, NEW P, NEW p \in Ncps
    PROVE  /\ ForgetNcu(n, P)[p] = IF p \in P THEN n[p] ELSE "none"
           /\ n[p] # "none" \/ p \notin P \/ p \notin exists => ReloadNcu(n, P)[p] = n[p]
           /\ n[p] = "none" /\ p \in P /\ p \in exists => ReloadNcu(n, P)[p] = ncuUp[p]
BY DEF ForgetNcu, ReloadNcu

\* A reload lists what it has seen, with the states cached or else nwamd's.
LEMMA ReloadLists ==
    ASSUME TypeOK, NEW seen \in SUBSET exists, NEW complete, Reload(seen, complete)
    PROVE  /\ seen \subseteq managed' /\ managed' \subseteq managed \cup seen
           /\ \A o \in Stateful :
                /\ o \notin managed' => cached'[o] = "uninit"
                /\ o \in managed' /\ o \in managed /\ cached[o] # "uninit" => cached'[o] = cached[o]
                /\ o \in seen /\ (o \notin managed \/ cached[o] = "uninit") => cached'[o] = st[o]
                /\ cached'[o] \in {"uninit", cached[o], st[o]}
           /\ \A o \in managed' \cap Enms \cap exists : cached'[o] # "uninit"
           /\ \A p \in Ncps :
                /\ p \notin managed' => ncu'[p] = "none"
                /\ ncu'[p] \in {"none", ncu[p], ncuUp[p]}
<1> DEFINE c == Fetch(Forget(cached, managed), seen \cup Enms)
           d == Fetch(c, managed' \cap Enms)
<1>t. /\ exists \subseteq Objs /\ st \in [Stateful -> States]
      /\ cached \in [Stateful -> States \cup {"uninit"}]
  BY DEF TypeOK
<1>1. seen \subseteq managed' /\ managed' \subseteq managed \cup seen
  BY DEF Reload, Removed
<1>2. cached' = Forget(d, managed') /\ ncu' = ForgetNcu(ReloadNcu(ncu, seen \cap Ncps), managed')
  BY DEF Reload
<1>3. ASSUME NEW o \in Stateful
      PROVE  /\ o \notin managed' => cached'[o] = "uninit"
             /\ o \in managed' /\ o \in managed /\ cached[o] # "uninit" => cached'[o] = cached[o]
             /\ o \in seen /\ (o \notin managed \/ cached[o] = "uninit") => cached'[o] = st[o]
             /\ cached'[o] \in {"uninit", cached[o], st[o]}
  <2>s. st[o] # "uninit"
    BY <1>t DEF States
  <2>1. Forget(cached, managed)[o] = IF o \in managed THEN cached[o] ELSE "uninit"
    BY ForgetFacts
  <2>2. c[o] = IF o \in managed /\ cached[o] # "uninit" THEN cached[o]
               ELSE IF o \in seen \cup Enms /\ o \in exists THEN st[o] ELSE "uninit"
    BY <2>1 DEF Fetch
  <2>3. d[o] = IF c[o] # "uninit" THEN c[o]
               ELSE IF o \in managed' \cap Enms /\ o \in exists THEN st[o] ELSE "uninit"
    BY DEF Fetch
  <2>4. cached'[o] = IF o \in managed' THEN d[o] ELSE "uninit"
    BY <1>2, ForgetFacts
  <2> HIDE DEF c, d
  <2> QED BY <1>1, <2>s, <2>2, <2>3, <2>4
<1>4. ASSUME NEW o \in managed' \cap Enms \cap exists PROVE cached'[o] # "uninit"
  <2>0. o \in Stateful
    BY Kinded
  <2>1. st[o] # "uninit"
    BY <1>t, <2>0 DEF States
  <2>2. d[o] # "uninit"
    BY <2>0, <2>1 DEF Fetch
  <2> QED BY <1>2, <2>0, <2>2, ForgetFacts
<1>5. ASSUME NEW p \in Ncps
      PROVE  (p \notin managed' => ncu'[p] = "none") /\ ncu'[p] \in {"none", ncu[p], ncuUp[p]}
  BY <1>2, NcuFacts
<1> QED BY <1>1, <1>3, <1>4, <1>5

\* The active location after a reload is one listed and online, or the former.
LEMMA ReloadActive ==
    ASSUME TypeOK, NEW seen \in SUBSET exists, NEW complete, Reload(seen, complete)
    PROVE  /\ \/ /\ activeEnv' \in seen \cap Locs /\ cached'[activeEnv'] = "online"
                 /\ goneEnv' = "no"
              \/ /\ \A l \in seen \cap Locs : cached'[l] # "online"
                 /\ activeEnv' = activeEnv /\ LeaveEnv(managed')
           /\ \/ /\ activeNcp' \in seen \cap Ncps /\ cached'[activeNcp'] = "online"
                 /\ goneNcp' = "no"
              \/ /\ \A p \in seen \cap Ncps : cached'[p] # "online"
                 /\ activeNcp' = activeNcp /\ LeaveNcp(managed')
<1> DEFINE c == Fetch(Forget(cached, managed), seen \cup Enms)
           live == {l \in seen \cap Locs : c[l] = "online"}
           ncps == {p \in seen \cap Ncps : c[p] = "online"}
<1>t. exists \subseteq Objs /\ st \in [Stateful -> States]
  BY DEF TypeOK
<1>1. ASSUME NEW o \in seen \cap Stateful PROVE cached'[o] = c[o]
  <2>1. o \in managed'
    BY DEF Reload, Removed
  <2>2. cached'[o] = Fetch(c, managed' \cap Enms)[o]
    BY <2>1, ForgetFacts DEF Reload
  <2>3. st[o] # "uninit" /\ o \in exists
    BY <1>t DEF States
  <2>4. c[o] # "uninit"
    BY <2>3 DEF Fetch
  <2> HIDE DEF c
  <2> QED BY <2>2, <2>4, FetchFacts
<1>2. /\ IF live = {} THEN activeEnv' = activeEnv /\ LeaveEnv(managed')
                      ELSE activeEnv' \in live /\ goneEnv' = "no"
      /\ IF ncps = {} THEN activeNcp' = activeNcp /\ LeaveNcp(managed')
                      ELSE activeNcp' \in ncps /\ goneNcp' = "no"
  BY DEF Reload
<1> HIDE DEF c
<1> QED BY <1>1, <1>2, Kinded

\* A reload whose walks all succeed leaves nwamd's objects on the lists.
LEMMA ReloadAll ==
    ASSUME TypeOK, NwamdOK, NEW seen \in SUBSET exists, Reload(seen, Kinds),
           \A K \in Kinds : exists \cap K \subseteq seen
    PROVE  seen = exists /\ managed' = exists
<1>1. ASSUME NEW o \in Objs PROVE \E K \in Kinds : o \in K
  <2>1. PICK K \in {Locs, Ncps, Enms, Wlans} : o \in K
    BY DEF Objs
  <2> QED BY <2>1 DEF Kinds
<1>2. exists \subseteq Objs /\ managed \subseteq Objs /\ System \subseteq exists
  BY DEF TypeOK, NwamdOK
<1>3. seen = exists
  BY <1>1, <1>2
<1>4. {o \in managed \ seen : \E K \in Kinds : o \in K} = managed \ exists
  BY <1>1, <1>2, <1>3
<1> QED BY <1>2, <1>3, <1>4 DEF Reload, Removed

-----------------------------------------------------------------------------
(* nwamd's side, and the caches: NwamdOK, CacheOK and the status.          *)

\* A handler takes an event; asking for a state leaves nwamd and the queue be.
LEMMA HandlerSteps ==
    ASSUME Handler
    PROVE  (\E ev : Unpost(ev)) \/ (\E o \in Stateful : ReadState(o))
BY DEF Handler, HandleError, HandleActive, HandleAdd, HandleRemove, HandleRefresh, HandleState,
       HandleNcuState, HandleNcuAdd, HandleGroup

LEMMA NwamdKept ==
    ASSUME TypeOK, NwamdOK, Next
    PROVE  NwamdOK'
<1>t. q \in Seq(Events) /\ st \in [Stateful -> States] /\ exists \subseteq Objs
  BY DEF TypeOK
<1>1. CASE Nwamd
  <2>1. PICK ev \in Events : Change(ev) /\ Means(ev)
    BY <1>1, NwamdSteps
  <2>2. System \subseteq exists'
    BY <2>1 DEF Means, NwamdOK
  <2>3. \A o \in Stateful \ exists' : st'[o] = "offline"
    BY <1>t, <2>1 DEF Means, NwamdOK
  <2>4. AtMostOneOnline(Locs, exists', st') /\ AtMostOneOnline(Ncps, exists', st')
    BY <1>t, <2>1, Kinded DEF Means, NwamdOK, AtMostOneOnline
  <2>5. NoneIn(q', SystemGoes)
    <3>1. ev \notin SystemGoes
      BY <2>1 DEF Means, SystemGoes
    <3>2. q' = q \/ q' = Append(q, ev)
      BY <2>1, ChangeFacts DEF TypeOK
    <3>3. NoneIn(q, SystemGoes)
      BY DEF NwamdOK
    <3>4. NoneIn(Append(q, ev), SystemGoes)
      BY <1>t, <3>1, <3>3, NoneAppend
    <3> QED BY <3>2, <3>3, <3>4
  <2> QED BY <2>2, <2>3, <2>4, <2>5 DEF NwamdOK
<1>2. CASE Connect \/ Disconnect
  <2>1. UNCHANGED <<exists, st>>
    BY <1>2 DEF Connect, Disconnect, nwamdVars
  <2>2. NoneIn(q', SystemGoes)
    <3>1. PICK ev \in Events : q' = Append(q, ev) /\ ev.e \in {"ACTIVE", "ERROR"}
      BY <1>2, EventFields DEF Connect, Disconnect
    <3>2. ev \notin SystemGoes
      BY <3>1 DEF SystemGoes
    <3> QED BY <1>t, <3>1, <3>2, NoneAppend DEF NwamdOK
  <2> QED BY <2>1, <2>2 DEF NwamdOK
<1>3. ASSUME NEW ev, Unpost(ev) PROVE NwamdOK'
  <2>1. exists' = exists /\ st' = st /\ q' = Tail(q) /\ q # <<>>
    BY <1>3, UnpostFacts
  <2>2. NoneIn(q', SystemGoes)
    BY <1>t, <2>1, NoneTail DEF NwamdOK
  <2> QED BY <2>1, <2>2 DEF NwamdOK
<1>4. ASSUME NEW o \in Stateful, ReadState(o) PROVE NwamdOK'
  BY <1>4 DEF ReadState, nwamdVars, NwamdOK
<1> QED BY <1>1, <1>2, <1>3, <1>4, HandlerSteps DEF Next

LEMMA CacheKept ==
    ASSUME TypeOK, NwamdOK, CacheOK, Next
    PROVE  CacheOK'
<1>t. /\ exists \subseteq Objs /\ managed \subseteq Objs /\ st \in [Stateful -> States]
      /\ cached \in [Stateful -> States \cup {"uninit"}]
      /\ ncu \in [Ncps -> States \cup {"none"}]
      /\ activeEnv \in Locs \cup {None} /\ goneEnv \in States \cup {"no", "uninit"}
  BY DEF TypeOK
<1>c. /\ \A o \in Stateful \ managed : cached[o] = "uninit"
      /\ \A p \in Ncps \ managed : ncu[p] = "none"
      /\ activeEnv # None /\ goneEnv = "no" => activeEnv \in managed /\ cached[activeEnv] # "uninit"
  BY DEF CacheOK
<1>1. CASE Nwamd \/ Connect \/ Disconnect
  <2>1. UNCHANGED uiVars
    BY <1>1, NwamdSteps DEF Change, Connect, Disconnect
  <2> QED BY <2>1 DEF uiVars, CacheOK
<1>2. CASE HandleError
  BY <1>2, <1>c DEF HandleError, CacheOK, envVars
<1>3. CASE HandleActive
  <2>1. PICK complete \in SUBSET Kinds : \E seen \in SUBSET exists : Reload(seen, complete)
    BY <1>3 DEF HandleActive
  <2>2. PICK seen \in SUBSET exists : Reload(seen, complete)
    BY <2>1
  <2>3. /\ \A o \in Stateful \ managed' : cached'[o] = "uninit"
        /\ \A p \in Ncps \ managed' : ncu'[p] = "none"
    BY <2>2, ReloadLists
  <2>4. activeEnv' # None /\ goneEnv' = "no" => activeEnv' \in managed' /\ cached'[activeEnv'] # "uninit"
    <3>1. CASE activeEnv' \in seen \cap Locs /\ cached'[activeEnv'] = "online"
      BY <2>2, <3>1, ReloadLists
    <3>2. CASE activeEnv' = activeEnv /\ LeaveEnv(managed')
      <4> SUFFICES ASSUME activeEnv # None, goneEnv' = "no"
                   PROVE  activeEnv \in managed' /\ cached'[activeEnv] # "uninit"
        BY <3>2
      <4>1. activeEnv \in Locs /\ activeEnv \in Stateful
        BY <1>t, Kinded
      <4>2. cached[activeEnv] # "no"
        BY <1>t, <4>1 DEF States
      <4>3. goneEnv = "no" /\ activeEnv \notin managed \ managed'
        BY <3>2, <4>2 DEF LeaveEnv
      <4>4. activeEnv \in managed' /\ activeEnv \in managed /\ cached[activeEnv] # "uninit"
        BY <1>c, <4>3
      <4>5. cached'[activeEnv] = cached[activeEnv]
        BY <2>2, <4>1, <4>4, ReloadLists
      <4> QED BY <4>4, <4>5
    <3> QED BY <2>2, <3>1, <3>2, ReloadActive
  <2> QED BY <2>3, <2>4 DEF CacheOK
<1>4. CASE HandleAdd
  <2>1. PICK o \in Objs :
          /\ managed' = managed \cup {o}
          /\ cached' = IF o \in Enms THEN Fetch(cached, managed' \cap Enms) ELSE cached
    BY <1>4 DEF HandleAdd
  <2>2. UNCHANGED <<ncu, activeEnv, goneEnv>>
    BY <1>4 DEF HandleAdd, envVars
  <2>3. \A x \in Stateful : (x \notin managed' \/ cached[x] # "uninit") => cached'[x] = cached[x]
    BY <2>1, FetchFacts
  <2> QED BY <1>t, <1>c, <2>1, <2>2, <2>3, Kinded DEF CacheOK
<1>5. CASE HandleRemove
  <2>1. PICK o \in Objs :
          /\ managed' = managed \ Removed({o})
          /\ cached' = Forget(IF o \in Enms THEN Fetch(cached, managed' \cap Enms) ELSE cached, managed')
          /\ ncu' = ForgetNcu(ncu, managed')
          /\ IF o = activeEnv /\ goneEnv = "no" /\ o \in managed
             THEN activeEnv' = None /\ goneEnv' = "no"
             ELSE UNCHANGED envVars
    BY <1>5 DEF HandleRemove
  <2>2. \A x \in Stateful : /\ x \notin managed' => cached'[x] = "uninit"
                            /\ x \in managed' /\ cached[x] # "uninit" => cached'[x] = cached[x]
    <3> SUFFICES ASSUME NEW x \in Stateful
                 PROVE  /\ x \notin managed' => cached'[x] = "uninit"
                        /\ x \in managed' /\ cached[x] # "uninit" => cached'[x] = cached[x]
      OBVIOUS
    <3> DEFINE c == IF o \in Enms THEN Fetch(cached, managed' \cap Enms) ELSE cached
    <3>1. cached[x] # "uninit" => c[x] = cached[x]
      BY FetchFacts
    <3>2. cached' = Forget(c, managed')
      BY <2>1
    <3> HIDE DEF c
    <3>3. cached'[x] = IF x \in managed' THEN c[x] ELSE "uninit"
      BY <3>2, ForgetFacts
    <3> QED BY <3>1, <3>3
  <2>3. \A p \in Ncps \ managed' : ncu'[p] = "none"
    <3>1. ncu' = ForgetNcu(ncu, managed')
      BY <2>1
    <3> QED BY <3>1, NcuFacts
  <2>4. activeEnv' # None /\ goneEnv' = "no" => activeEnv' \in managed' /\ cached'[activeEnv'] # "uninit"
    <3>1. CASE o = activeEnv /\ goneEnv = "no" /\ o \in managed
      BY <2>1, <3>1
    <3>2. CASE ~(o = activeEnv /\ goneEnv = "no" /\ o \in managed)
      <4>1. activeEnv' = activeEnv /\ goneEnv' = goneEnv
        BY <2>1, <3>2 DEF envVars
      <4>2. activeEnv # None /\ goneEnv = "no" => activeEnv \in managed'
        BY <1>c, <2>1, <3>2 DEF Removed
      <4>3. activeEnv # None => activeEnv \in Stateful
        BY <1>t, Kinded
      <4> QED BY <1>c, <2>2, <4>1, <4>2, <4>3
    <3> QED BY <3>1, <3>2
  <2> QED BY <2>2, <2>3, <2>4 DEF CacheOK
<1>6. CASE HandleRefresh
  <2>1. PICK o \in Objs :
          /\ ncu' = ReloadNcu(ncu, {o} \cap managed)
          /\ cached' = IF o \in Enms THEN Fetch(cached, managed \cap Enms) ELSE cached
          /\ managed' = managed
    BY <1>6 DEF HandleRefresh
  <2>2. activeEnv' = activeEnv /\ goneEnv' = goneEnv
    BY <1>6 DEF HandleRefresh, envVars
  <2>3. \A x \in Stateful : (x \notin managed' \/ cached[x] # "uninit") => cached'[x] = cached[x]
    BY <2>1, FetchFacts
  <2>4. \A p \in Ncps \ managed' : ncu'[p] = "none"
    BY <1>c, <2>1, NcuFacts
  <2> QED BY <1>t, <1>c, <2>1, <2>2, <2>3, <2>4, Kinded DEF CacheOK
<1>7. CASE HandleState
  <2>1. PICK o \in Stateful, s \in States :
          /\ managed' = managed
          /\ LET heard == Heard(o)
                 up    == Activated(o, s)
                 c     == IF heard THEN [cached EXCEPT ![o] = s] ELSE cached
             IN  /\ cached' = IF heard /\ o \in Enms
                              THEN Fetch(c, managed \cap Enms) ELSE c
                 /\ IF up /\ o \in Locs
                    THEN activeEnv' = o /\ goneEnv' = "no"
                    ELSE UNCHANGED envVars
                 /\ IF up /\ o \in Ncps
                    THEN /\ activeNcp' = o /\ goneNcp' = "no"
                         /\ ncu' = ReloadNcu(ncu, {o})
                    ELSE UNCHANGED <<ncpVars, ncu>>
    BY <1>7 DEF HandleState
  <2> DEFINE c == IF Heard(o) THEN [cached EXCEPT ![o] = s] ELSE cached
  <2>2. s # "uninit"
    BY DEF States
  <2>3. ASSUME NEW x \in Stateful
        PROVE  /\ x \notin managed => cached'[x] = cached[x]
               /\ cached[x] # "uninit" => cached'[x] # "uninit"
               /\ Heard(o) /\ x = o => cached'[x] = s
    <3>1. /\ x \notin managed => c[x] = cached[x]
          /\ cached[x] # "uninit" => c[x] # "uninit"
          /\ Heard(o) /\ x = o => c[x] = s
      BY <1>t, <2>2 DEF Heard
    <3>2. cached' = Fetch(c, managed \cap Enms) \/ cached' = c
      BY <2>1
    <3> HIDE DEF c
    <3> QED BY <2>2, <3>1, <3>2, FetchFacts
  <2>4. \A p \in Ncps \ managed : ncu'[p] = "none"
    BY <1>c, <2>1, NcuFacts DEF Activated, Heard
  <2>5. activeEnv' # None /\ goneEnv' = "no" => activeEnv' \in managed /\ cached'[activeEnv'] # "uninit"
    <3>1. CASE Activated(o, s) /\ o \in Locs
      BY <2>1, <2>2, <2>3, <3>1 DEF Activated, Heard
    <3>2. CASE ~(Activated(o, s) /\ o \in Locs)
      <4>1. activeEnv' = activeEnv /\ goneEnv' = goneEnv
        BY <2>1, <3>2 DEF envVars
      <4>2. activeEnv # None => activeEnv \in Stateful
        BY <1>t, Kinded
      <4> QED BY <1>c, <2>3, <4>1, <4>2
    <3> QED BY <3>1, <3>2
  <2> QED BY <1>c, <2>1, <2>3, <2>4, <2>5 DEF CacheOK
<1>8. CASE HandleNcuState
  <2>1. UNCHANGED <<managed, cached, activeEnv, goneEnv>>
    BY <1>8 DEF HandleNcuState, envVars
  <2>2. \A p \in Ncps \ managed : ncu'[p] = "none"
    BY <1>t, <1>c, <1>8 DEF HandleNcuState
  <2> QED BY <2>1, <2>2 DEF CacheOK
<1>9. CASE HandleNcuAdd
  <2>1. UNCHANGED <<managed, cached, activeEnv, goneEnv>>
    BY <1>9 DEF HandleNcuAdd, envVars
  <2>2. \A p \in Ncps \ managed : ncu'[p] = "none"
    BY <1>c, <1>9, NcuFacts DEF HandleNcuAdd
  <2> QED BY <2>1, <2>2 DEF CacheOK
<1>g. CASE HandleGroup
  BY <1>c, <1>g DEF HandleGroup, CacheOK, envVars
<1>10. ASSUME NEW o \in Stateful, ReadState(o) PROVE CacheOK'
  <2>1. UNCHANGED <<managed, ncu, activeEnv, goneEnv>> /\ o \in managed
    BY <1>10 DEF ReadState, envVars
  <2>2. \A x \in Stateful : (x \notin managed \/ cached[x] # "uninit") => cached'[x] = cached[x]
    BY <1>10, FetchFacts DEF ReadState
  <2> QED BY <1>t, <1>c, <2>1, <2>2, Kinded DEF CacheOK
<1> QED BY <1>1, <1>2, <1>3, <1>4, <1>5, <1>6, <1>7, <1>8, <1>g, <1>9, <1>10 DEF Next, Handler

LEMMA StatusKept ==
    ASSUME TypeOK, CacheOK, StatusIsCurrent, Next
    PROVE  StatusIsCurrent'
<1>1. CASE Nwamd \/ Connect \/ Disconnect
  <2>1. UNCHANGED uiVars
    BY <1>1, NwamdSteps DEF Change, Connect, Disconnect
  <2> QED BY <2>1 DEF uiVars, StatusIsCurrent, Group
<1>2. CASE HandleError
  BY <1>2 DEF HandleError, StatusIsCurrent, StatusOf
<1>5. CASE HandleGroup
  <2> DEFINE With(g) == StatusOf(conn, activeNcp, goneNcp, ncu, g, activeEnv, goneEnv, cached)
  <2>1. /\ UNCHANGED <<conn, cached, ncu, activeEnv, goneEnv, activeNcp, goneNcp, status>>
        /\ late' = (late \/ Group' # Group)
    BY <1>5 DEF HandleGroup, envVars
  <2>2. \A g : StatusOf(conn', activeNcp', goneNcp', ncu', g, activeEnv', goneEnv', cached') = With(g)
    BY <2>1
  <2>3. Group \in Groups
    BY NamesAssumption DEF TypeOK, Group
  <2>4. IF late THEN \E g \in Groups : status = With(g) ELSE status = With(Group)
    BY DEF StatusIsCurrent
  <2>5. IF late' THEN \E g \in Groups : status = With(g) ELSE status = With(Group')
    <3> HIDE DEF With
    <3> QED BY <2>1, <2>3, <2>4
  <2>6. IF late' THEN \E g \in Groups : status' =
                        StatusOf(conn', activeNcp', goneNcp', ncu', g, activeEnv', goneEnv', cached')
        ELSE status' = StatusOf(conn', activeNcp', goneNcp', ncu', Group', activeEnv', goneEnv', cached')
    <3>1. status' = status
      BY <2>1
    <3> HIDE DEF With
    <3> QED BY <2>2, <2>5, <3>1
  <2> QED BY <2>6 DEF StatusIsCurrent
<1>3. CASE \/ HandleActive \/ HandleAdd \/ HandleRemove \/ HandleRefresh \/ HandleState
           \/ HandleNcuState \/ HandleNcuAdd
  <2>1. UpdateStatus
    BY <1>3 DEF HandleActive, HandleAdd, HandleRemove, HandleRefresh, HandleState, HandleNcuState,
                HandleNcuAdd
  <2> QED BY <2>1 DEF UpdateStatus, StatusIsCurrent
<1>4. ASSUME NEW o \in Stateful, ReadState(o) PROVE StatusIsCurrent'
  <2>1. UNCHANGED <<conn, ncu, activeEnv, goneEnv, activeNcp, goneNcp, group, goneGroup, status, late>>
    BY <1>4 DEF ReadState, envVars, ncpVars
  <2>2. activeEnv # None /\ goneEnv = "no" => cached'[activeEnv] = cached[activeEnv]
    <3>1. activeEnv # None => activeEnv \in Stateful
      BY Kinded DEF TypeOK
    <3> QED BY <1>4, <3>1, FetchFacts DEF ReadState, CacheOK
  <2>3. EnvGood(activeEnv, goneEnv, cached') <=> EnvGood(activeEnv, goneEnv, cached)
    BY <2>2 DEF EnvGood, EnvState
  <2>4. \A g : StatusOf(conn, activeNcp, goneNcp, ncu, g, activeEnv, goneEnv, cached')
                 = StatusOf(conn, activeNcp, goneNcp, ncu, g, activeEnv, goneEnv, cached)
    BY <2>3 DEF StatusOf
  <2>5. Group' = Group
    BY <2>1 DEF Group
  <2> QED BY <2>1, <2>4, <2>5 DEF StatusIsCurrent
<1> QED BY <1>1, <1>2, <1>3, <1>4, <1>5 DEF Next, Handler

-----------------------------------------------------------------------------
(* The order of a subscription's events.                                   *)

\* What an event brings: the daemon is connected from ACTIVE to ERROR.
LEMMA Connected ==
    ASSUME TypeOK, NEW ev, Unpost(ev), Handler
    PROVE  /\ ev.e = "ERROR" => conn' = FALSE
           /\ ev.e = "ACTIVE" => conn' = TRUE
           /\ ev.e \notin {"ERROR", "ACTIVE"} => conn' = conn
           /\ ev.e # "ACTIVE" => partial' = partial
<1>h. Head(q) = ev /\ q # <<>> /\ q' # q
  <2>1. q \in Seq(Events) /\ Head(q) = ev /\ q # <<>> /\ q' = Tail(q)
    BY UnpostFacts DEF TypeOK
  <2> QED BY <2>1, TailFacts
<1>1. CASE HandleError
  BY <1>h, <1>1 DEF HandleError, Unpost
<1>2. CASE HandleActive
  <2>1. Unpost([e |-> "ACTIVE"]) /\ conn' = TRUE
    BY <1>2 DEF HandleActive
  <2>2. ev.e = "ACTIVE"
    BY <1>h, <2>1 DEF Unpost
  <2> QED BY <2>1, <2>2
<1>3. CASE HandleAdd
  BY <1>h, <1>3 DEF HandleAdd, Unpost
<1>4. CASE HandleRemove
  BY <1>h, <1>4 DEF HandleRemove, Unpost
<1>5. CASE HandleRefresh
  BY <1>h, <1>5 DEF HandleRefresh, Unpost
<1>6. CASE HandleState
  BY <1>h, <1>6 DEF HandleState, Unpost
<1>7. CASE HandleNcuState
  BY <1>h, <1>7 DEF HandleNcuState, Unpost
<1>8. CASE HandleNcuAdd
  BY <1>h, <1>8 DEF HandleNcuAdd, Unpost
<1>g. CASE HandleGroup
  BY <1>h, <1>g DEF HandleGroup, Unpost
<1>9. ASSUME NEW o \in Stateful, ReadState(o) PROVE FALSE
  BY <1>h, <1>9 DEF ReadState
<1> QED BY <1>1, <1>2, <1>3, <1>4, <1>5, <1>6, <1>7, <1>8, <1>g, <1>9 DEF Handler

LEMMA OrderKept ==
    ASSUME TypeOK, OrderOK, Next
    PROVE  OrderOK'
<1>t. q \in Seq(Events) /\ sub \in BOOLEAN
  BY DEF TypeOK
<1>o. /\ \A i \in 1 .. Len(q) : i < Len(q) /\ q[i].e = "ERROR" => q[i + 1].e = "ACTIVE"
      /\ q # <<>> /\ ~conn => q[1].e \in {"ACTIVE", "ERROR"}
      /\ sub /\ q = <<>> => conn
      /\ sub /\ q # <<>> => q[Len(q)].e # "ERROR"
  BY DEF OrderOK
<1>n. q = <<>> <=> Len(q) = 0
  BY <1>t
<1>0. ASSUME UNCHANGED <<q, sub, conn>> PROVE OrderOK'
  BY <1>0 DEF OrderOK
<1>a. ASSUME NEW ev \in Events, q' = Append(q, ev), conn' = conn,
             sub \/ ev.e = "ACTIVE", sub' => ev.e # "ERROR",
             q = <<>> /\ ~conn => ev.e \in {"ACTIVE", "ERROR"}
      PROVE  OrderOK'
  <2>1. /\ Len(q') = Len(q) + 1 /\ q'[Len(q) + 1] = ev /\ q' # <<>>
        /\ \A i \in 1 .. Len(q) : q'[i] = q[i]
    BY <1>t, <1>a, AppendFacts
  <2>2. ASSUME NEW i \in 1 .. Len(q'), i < Len(q'), q'[i].e = "ERROR" PROVE q'[i + 1].e = "ACTIVE"
    <3>1. CASE i < Len(q)
      <4>1. i \in 1 .. Len(q) /\ i + 1 \in 1 .. Len(q)
        BY <1>t, <3>1
      <4> QED BY <1>o, <2>1, <2>2, <3>1, <4>1
    <3>2. CASE i = Len(q)
      <4>1. Len(q) # 0 /\ q'[Len(q)] = q[Len(q)]
        BY <1>t, <2>1, <3>2
      <4> QED BY <1>a, <1>n, <1>o, <2>1, <2>2, <3>2, <4>1
    <3> QED BY <1>t, <2>1, <2>2, <3>1, <3>2
  <2>3. ~conn' => q'[1].e \in {"ACTIVE", "ERROR"}
    <3>1. CASE q = <<>>
      BY <1>a, <1>n, <2>1, <3>1
    <3>2. CASE q # <<>>
      <4>1. 1 \in 1 .. Len(q)
        BY <1>t, <1>n, <3>2
      <4> QED BY <1>a, <1>o, <2>1, <3>2, <4>1
    <3> QED BY <3>1, <3>2
  <2>4. sub' => q'[Len(q')].e # "ERROR"
    BY <1>a, <2>1
  <2> QED BY <2>1, <2>2, <2>3, <2>4 DEF OrderOK
<1>1. CASE Nwamd
  <2>1. PICK ev \in Events : Change(ev) /\ Means(ev)
    BY <1>1, NwamdSteps
  <2>2. ev.e \notin {"ACTIVE", "ERROR"}
    BY <2>1 DEF Means
  <2>3. sub' = sub /\ conn' = conn
    BY <2>1 DEF Change, subVars, uiVars
  <2>4. CASE sub
    BY <1>a, <1>o, <2>1, <2>2, <2>3, <2>4, ChangeFacts
  <2>5. CASE ~sub
    BY <1>0, <2>1, <2>3, <2>5, ChangeFacts
  <2> QED BY <2>4, <2>5
<1>2. CASE Connect
  <2>1. conn' = conn
    BY <1>2 DEF Connect, uiVars
  <2> QED BY <1>2, <1>a, <2>1, EventFields DEF Connect
<1>3. CASE Disconnect
  <2>1. conn' = conn
    BY <1>3 DEF Disconnect, uiVars
  <2> QED BY <1>3, <1>a, <2>1, EventFields DEF Disconnect
<1>4. ASSUME NEW ev, Unpost(ev), Handler PROVE OrderOK'
  <2>1. q # <<>> /\ q[1] = ev /\ q' = Tail(q) /\ sub' = sub /\ ev \in Events
    BY <1>4, UnpostFacts
  <2>2. /\ Len(q) \in Nat /\ Len(q) > 0 /\ Len(q') = Len(q) - 1
        /\ \A i \in 1 .. Len(q') : q'[i] = q[i + 1]
    BY <1>t, <2>1, TailFacts
  <2>8. q' = <<>> <=> Len(q') = 0
    BY <1>4, UnpostFacts
  <2>3. /\ ev.e = "ERROR" => ~conn'
        /\ ev.e = "ACTIVE" => conn'
        /\ ev.e \notin {"ERROR", "ACTIVE"} => conn' = conn
    BY <1>4, Connected
  <2>4. ASSUME NEW i \in 1 .. Len(q'), i < Len(q'), q'[i].e = "ERROR" PROVE q'[i + 1].e = "ACTIVE"
    <3>1. i + 1 \in 1 .. Len(q) /\ i + 1 < Len(q) /\ i + 1 \in 1 .. Len(q')
      BY <2>2, <2>4
    <3> QED BY <1>o, <2>2, <2>4, <3>1
  <2>5. q' # <<>> /\ ~conn' => q'[1].e \in {"ACTIVE", "ERROR"}
    <3> SUFFICES ASSUME q' # <<>>, ~conn' PROVE q'[1].e \in {"ACTIVE", "ERROR"}
      OBVIOUS
    <3>1. 1 \in 1 .. Len(q') /\ 1 \in 1 .. Len(q) /\ 1 < Len(q)
      BY <2>2, <2>8
    <3>2. ev.e = "ERROR"
      BY <1>o, <2>1, <2>3
    <3> QED BY <1>o, <2>1, <2>2, <3>1, <3>2
  <2>6. sub /\ q' = <<>> => conn'
    <3> SUFFICES ASSUME sub, q' = <<>> PROVE conn'
      OBVIOUS
    <3>1. Len(q) = 1
      BY <2>2, <2>8
    <3>2. ev.e # "ERROR"
      BY <1>o, <2>1, <3>1
    <3> QED BY <1>o, <2>1, <2>3, <3>2
  <2>7. sub /\ q' # <<>> => q'[Len(q')].e # "ERROR"
    <3> SUFFICES ASSUME sub, q' # <<>> PROVE q'[Len(q')].e # "ERROR"
      OBVIOUS
    <3>1. Len(q') \in 1 .. Len(q') /\ Len(q') + 1 = Len(q)
      BY <2>2, <2>8
    <3>2. q'[Len(q')] = q[Len(q)]
      BY <2>2, <3>1
    <3> QED BY <1>o, <2>1, <3>2
  <2> QED BY <2>1, <2>4, <2>5, <2>6, <2>7 DEF OrderOK
<1>5. ASSUME NEW o \in Stateful, ReadState(o) PROVE OrderOK'
  BY <1>0, <1>5 DEF ReadState, subVars
<1> QED BY <1>1, <1>2, <1>3, <1>4, <1>5, HandlerSteps DEF Next

-----------------------------------------------------------------------------
(* The lists.                                                              *)

\* The event of a handler's step is the oldest one.
LEMMA Same ==
    ASSUME NEW a, NEW b, Unpost(a), Unpost(b)
    PROVE  a = b
BY DEF Unpost

LEMMA ReadsNothing ==
    ASSUME TypeOK, NEW ev, Unpost(ev), NEW o, ReadState(o)
    PROVE  FALSE
<1>1. q \in Seq(Events) /\ q # <<>> /\ q' = Tail(q)
  BY UnpostFacts DEF TypeOK
<1> QED BY <1>1, TailFacts DEF ReadState

\* Only an event of the class changes whether o is listed, and then as it says.
LEMMA HandlerLists ==
    ASSUME TypeOK, NwamdOK, NEW ev, Unpost(ev), Handler, NEW o \in Objs
    PROVE  /\ ev \notin ListEvents(o) => (o \in managed' <=> o \in managed)
           /\ ev \in ListEvents(o) /\ ev \in ListSays(o, exists) /\ ~partial'
                => (o \in managed' <=> o \in exists)
<1>e. ev \in Events /\ System \subseteq exists
  BY UnpostFacts DEF NwamdOK
<1>0. ASSUME managed' = managed, ev.e \notin {"ACTIVE", "ADD", "REMOVE"}
      PROVE  /\ ev \notin ListEvents(o) => (o \in managed' <=> o \in managed)
             /\ ev \notin ListEvents(o)
  BY <1>0 DEF ListEvents
<1>1. CASE HandleError
  <2>1. Unpost([e |-> "ERROR"]) /\ managed' = managed
    BY <1>1 DEF HandleError
  <2> QED BY <1>0, <2>1, Same
<1>2. CASE HandleActive
  <2>1. Unpost([e |-> "ACTIVE"])
    BY <1>2 DEF HandleActive
  <2>2. ev \in ListEvents(o)
    BY <1>e, <2>1, Same DEF ListEvents
  <2>3. ASSUME ~partial' PROVE managed' = exists
    <3>1. PICK complete \in SUBSET Kinds : \E seen \in SUBSET exists :
             /\ \A K \in complete : exists \cap K \subseteq seen
             /\ Reload(seen, complete)
             /\ partial' = (complete # Kinds)
      BY <1>2 DEF HandleActive
    <3>2. complete = Kinds
      BY <2>3, <3>1
    <3> QED BY <3>1, <3>2, ReloadAll
  <2> QED BY <2>2, <2>3
<1>3. CASE HandleAdd
  <2>1. PICK x \in Objs : Unpost([e |-> "ADD", o |-> x]) /\ managed' = managed \cup {x}
    BY <1>3 DEF HandleAdd
  <2>2. ev = [e |-> "ADD", o |-> x]
    BY <2>1, Same
  <2> QED BY <1>e, <2>1, <2>2 DEF ListEvents, ListSays
<1>4. CASE HandleRemove
  <2>1. PICK x \in Objs : Unpost([e |-> "REMOVE", o |-> x]) /\ managed' = managed \ Removed({x})
    BY <1>4 DEF HandleRemove
  <2>2. ev = [e |-> "REMOVE", o |-> x]
    BY <2>1, Same
  <2> QED BY <1>e, <2>1, <2>2 DEF ListEvents, ListSays, Removed
<1>5. CASE HandleRefresh
  <2>1. PICK x \in Objs : Unpost([e |-> "REFRESH", o |-> x])
    BY <1>5 DEF HandleRefresh
  <2>2. managed' = managed
    BY <1>5 DEF HandleRefresh
  <2> QED BY <1>0, <2>1, <2>2, Same
<1>6. CASE HandleState
  <2>1. PICK x \in Stateful, s \in States : Unpost([e |-> "STATE", o |-> x, s |-> s])
    BY <1>6 DEF HandleState
  <2>2. managed' = managed
    BY <1>6 DEF HandleState
  <2> QED BY <1>0, <2>1, <2>2, Same
<1>7. CASE HandleNcuState
  <2>1. PICK p \in Ncps \cup {None}, s \in States, of \in Ncps :
           Unpost([e |-> "NCU_STATE", o |-> p, s |-> s, of |-> of])
    BY <1>7 DEF HandleNcuState
  <2>2. managed' = managed
    BY <1>7 DEF HandleNcuState
  <2> QED BY <1>0, <2>1, <2>2, Same
<1>8. CASE HandleNcuAdd
  <2>1. PICK p \in Ncps : Unpost([e |-> "NCU_ADD", o |-> p])
    BY <1>8 DEF HandleNcuAdd
  <2>2. managed' = managed
    BY <1>8 DEF HandleNcuAdd
  <2> QED BY <1>0, <2>1, <2>2, Same
<1>g. CASE HandleGroup
  <2>1. PICK g \in Groups : Unpost([e |-> "GROUP", g |-> g])
    BY <1>g DEF HandleGroup
  <2>2. managed' = managed
    BY <1>g DEF HandleGroup
  <2> QED BY <1>0, <2>1, <2>2, Same
<1> QED BY <1>1, <1>2, <1>3, <1>4, <1>5, <1>6, <1>7, <1>8, <1>g, ReadsNothing DEF Handler

LEMMA ListsKept ==
    ASSUME TypeOK, NwamdOK, ListsFollow, Next
    PROVE  ListsFollow'
<1> SUFFICES ASSUME sub' \/ ~unheard', NEW o \in Objs
             PROVE  /\ Ends(q', ListEvents(o), ListSays(o, exists'))
                    /\ NoneIn(q', ListEvents(o)) /\ ~partial' => (o \in managed' <=> o \in exists')
  BY DEF ListsFollow
<1>t. q \in Seq(Events) /\ sub \in BOOLEAN
  BY DEF TypeOK
<1>0. ASSUME UNCHANGED <<q, exists, partial, managed>>, sub \/ ~unheard
      PROVE  /\ Ends(q', ListEvents(o), ListSays(o, exists'))
             /\ NoneIn(q', ListEvents(o)) /\ ~partial' => (o \in managed' <=> o \in exists')
  BY <1>0 DEF ListsFollow
<1>a. ASSUME NEW ev \in Events, q' = Append(q, ev), UNCHANGED <<partial, managed>>,
             ev \in ListEvents(o) => ev \in ListSays(o, exists'),
             ev \notin ListEvents(o) => (sub \/ ~unheard) /\ (o \in exists' <=> o \in exists)
      PROVE  /\ Ends(q', ListEvents(o), ListSays(o, exists'))
             /\ NoneIn(q', ListEvents(o)) /\ ~partial' => (o \in managed' <=> o \in exists')
  <2>1. CASE ev \in ListEvents(o)
    <3>1. Ends(q', ListEvents(o), ListSays(o, exists'))
      BY <1>t, <1>a, <2>1, EndsAppend
    <3>2. ~NoneIn(q', ListEvents(o))
      BY <1>t, <1>a, <2>1, NoneAppend
    <3> QED BY <3>1, <3>2
  <2>2. CASE ev \notin ListEvents(o)
    <3>1. /\ Ends(q, ListEvents(o), ListSays(o, exists))
          /\ NoneIn(q, ListEvents(o)) /\ ~partial => (o \in managed <=> o \in exists)
      BY <1>a, <2>2 DEF ListsFollow
    <3>2. ListSays(o, exists') = ListSays(o, exists)
      BY <1>a, <2>2 DEF ListSays
    <3>3. Ends(q', ListEvents(o), ListSays(o, exists'))
      BY <1>t, <1>a, <2>2, <3>1, <3>2, EndsAppendOther
    <3>4. NoneIn(q', ListEvents(o)) => NoneIn(q, ListEvents(o))
      BY <1>t, <1>a, NoneAppend
    <3> QED BY <1>a, <2>2, <3>1, <3>3, <3>4
  <2> QED BY <2>1, <2>2
<1>1. CASE Nwamd
  <2>1. PICK ev \in Events : Change(ev) /\ Means(ev)
    BY <1>1, NwamdSteps
  <2>2. sub /\ q' = Append(q, ev) /\ UNCHANGED <<partial, managed>>
    BY <2>1, ChangeFacts DEF uiVars
  <2>3. ev \in ListEvents(o) => ev \in ListSays(o, exists')
    BY <2>1 DEF Means, ListEvents, ListSays
  <2>4. ev \notin ListEvents(o) => (o \in exists' <=> o \in exists)
    BY <2>1 DEF Means, ListEvents
  <2> QED BY <1>a, <2>2, <2>3, <2>4
<1>2. CASE Connect
  <2>1. UNCHANGED <<partial, managed>> /\ q' = Append(q, [e |-> "ACTIVE"])
    BY <1>2 DEF Connect, uiVars
  <2>2. [e |-> "ACTIVE"] \in ListEvents(o) /\ [e |-> "ACTIVE"] \in ListSays(o, exists')
    BY EventFields DEF ListEvents, ListSays
  <2> QED BY <1>a, <2>1, <2>2, EventFields
<1>3. CASE Disconnect
  <2>1. UNCHANGED <<partial, managed, exists>> /\ sub /\ q' = Append(q, [e |-> "ERROR"])
    BY <1>3 DEF Disconnect, uiVars, nwamdVars
  <2>2. [e |-> "ERROR"] \notin ListEvents(o)
    BY DEF ListEvents
  <2> QED BY <1>a, <2>1, <2>2, EventFields
<1>4. ASSUME NEW ev, Unpost(ev), Handler
      PROVE  /\ Ends(q', ListEvents(o), ListSays(o, exists'))
             /\ NoneIn(q', ListEvents(o)) /\ ~partial' => (o \in managed' <=> o \in exists')
  <2>1. q # <<>> /\ Head(q) = ev /\ q' = Tail(q) /\ sub' = sub /\ exists' = exists /\ ev \in Events
    BY <1>4, UnpostFacts
  <2>2. ~unheard' => ~unheard
    BY <1>4, UnpostFacts
  <2>3. /\ Ends(q, ListEvents(o), ListSays(o, exists))
        /\ NoneIn(q, ListEvents(o)) /\ ~partial => (o \in managed <=> o \in exists)
    BY <2>1, <2>2 DEF ListsFollow
  <2>4. /\ Ends(q', ListEvents(o), ListSays(o, exists'))
        /\ NoneIn(q', ListEvents(o)) => \/ NoneIn(q, ListEvents(o))
                                        \/ ev \in ListEvents(o) /\ ev \in ListSays(o, exists)
    BY <1>t, <2>1, <2>3, EndsTail
  <2>5. NoneIn(q, ListEvents(o)) => ev \notin ListEvents(o)
    BY <1>t, <2>1, NoneTail
  <2>6. ev \notin ListEvents(o) => partial' = partial
    <3>1. ev.e = "ACTIVE" => ev \in ListEvents(o)
      BY <2>1 DEF ListEvents
    <3> QED BY <1>4, <3>1, Connected
  <2>7. /\ ev \notin ListEvents(o) => (o \in managed' <=> o \in managed)
        /\ ev \in ListEvents(o) /\ ev \in ListSays(o, exists) /\ ~partial'
             => (o \in managed' <=> o \in exists)
    BY <1>4, HandlerLists
  <2> QED BY <2>1, <2>3, <2>4, <2>5, <2>6, <2>7
<1>5. ASSUME NEW x \in Stateful, ReadState(x)
      PROVE  /\ Ends(q', ListEvents(o), ListSays(o, exists'))
             /\ NoneIn(q', ListEvents(o)) /\ ~partial' => (o \in managed' <=> o \in exists')
  BY <1>0, <1>5 DEF ReadState, subVars, nwamdVars
<1> QED BY <1>1, <1>2, <1>3, <1>4, <1>5, HandlerSteps DEF Next

-----------------------------------------------------------------------------
(* The number of active external network modifiers.                        *)

\* Counting after every state still unknown has been read.
LEMMA Recounts ==
    ASSUME TypeOK, exists' = exists, UpdateOnlineEnmNum, NEW c,
           cached' = Fetch(c, managed' \cap Enms)
    PROVE  Counted'
<1>1. enmNum' = Cardinality(ActiveEnms')
  BY DEF UpdateOnlineEnmNum, ActiveEnms
<1>2. ASSUME NEW o \in managed' \cap Enms \cap exists PROVE cached'[o] # "uninit"
  <2>1. o \in Stateful /\ st[o] # "uninit"
    BY Kinded DEF TypeOK, States
  <2> QED BY <2>1 DEF Fetch
<1> QED BY <1>1, <1>2 DEF Counted

\* The number is unaffected by what is not about these modifiers.
LEMMA CountStays ==
    ASSUME exists' = exists, enmNum' = enmNum, managed' \cap Enms = managed \cap Enms,
           \A o \in managed \cap Enms : cached'[o] = cached[o], Counted
    PROVE  Counted'
<1>1. ActiveEnms' = ActiveEnms
  BY DEF ActiveEnms
<1> QED BY <1>1 DEF Counted

LEMMA HandlerCounts ==
    ASSUME TypeOK, NEW ev, Unpost(ev), Handler, ev \in CountEvents \/ Counted
    PROVE  Counted'
<1>e. ev \in Events /\ exists' = exists
  BY UnpostFacts
<1>t. cached \in [Stateful -> States \cup {"uninit"}]
  BY DEF TypeOK
<1>0. ASSUME ev.e \notin {"ACTIVE", "ADD", "REMOVE", "REFRESH"}, UNCHANGED <<enmNum, managed, cached>>
      PROVE  Counted'
  <2>1. Counted
    BY <1>0 DEF CountEvents
  <2> QED BY <1>e, <1>0, <2>1, CountStays
<1>1. CASE HandleError
  <2>1. Unpost([e |-> "ERROR"]) /\ UNCHANGED <<enmNum, managed, cached>>
    BY <1>1 DEF HandleError
  <2> QED BY <1>0, <2>1, Same
<1>2. CASE HandleActive
  <2>1. PICK complete \in SUBSET Kinds : \E seen \in SUBSET exists : Reload(seen, complete)
    BY <1>2 DEF HandleActive
  <2>2. PICK seen \in SUBSET exists : Reload(seen, complete)
    BY <2>1
  <2>3. \A o \in managed' \cap Enms \cap exists : cached'[o] # "uninit"
    BY <2>2, ReloadLists
  <2>4. enmNum' = Cardinality(ActiveEnms')
    BY <1>2 DEF HandleActive, UpdateOnlineEnmNum, ActiveEnms
  <2> QED BY <1>e, <2>3, <2>4 DEF Counted
<1>3. CASE HandleAdd
  <2>1. PICK x \in Objs :
          /\ Unpost([e |-> "ADD", o |-> x]) /\ managed' = managed \cup {x}
          /\ cached' = IF x \in Enms THEN Fetch(cached, managed' \cap Enms) ELSE cached
          /\ IF x \in Enms THEN UpdateOnlineEnmNum ELSE UNCHANGED enmNum
    BY <1>3 DEF HandleAdd
  <2>2. ev = [e |-> "ADD", o |-> x]
    BY <2>1, Same
  <2>3. CASE x \in Enms
    <3>1. cached' = Fetch(cached, managed' \cap Enms) /\ UpdateOnlineEnmNum
      BY <2>1, <2>3
    <3> QED BY <1>e, <3>1, Recounts
  <2>4. CASE x \notin Enms
    <3>1. Counted
      BY <2>2, <2>4 DEF CountEvents
    <3>2. enmNum' = enmNum /\ managed' \cap Enms = managed \cap Enms /\ cached' = cached
      BY <2>1, <2>4
    <3> QED BY <1>e, <3>1, <3>2, CountStays
  <2> QED BY <2>3, <2>4
<1>4. CASE HandleRemove
  <2>1. PICK x \in Objs :
          /\ Unpost([e |-> "REMOVE", o |-> x]) /\ managed' = managed \ Removed({x})
          /\ cached' = Forget(IF x \in Enms THEN Fetch(cached, managed' \cap Enms) ELSE cached, managed')
          /\ IF x \in Enms THEN UpdateOnlineEnmNum ELSE UNCHANGED enmNum
    BY <1>4 DEF HandleRemove
  <2>2. ev = [e |-> "REMOVE", o |-> x]
    BY <2>1, Same
  <2>3. CASE x \in Enms
    <3>1. cached' = Forget(Fetch(cached, managed' \cap Enms), managed') /\ UpdateOnlineEnmNum
      BY <2>1, <2>3
    <3>2. enmNum' = Cardinality(ActiveEnms')
      BY <3>1 DEF UpdateOnlineEnmNum, ActiveEnms
    <3>3. ASSUME NEW o \in managed' \cap Enms \cap exists PROVE cached'[o] # "uninit"
      <4>1. o \in Stateful /\ st[o] # "uninit"
        BY Kinded DEF TypeOK, States
      <4>2. Fetch(cached, managed' \cap Enms)[o] # "uninit"
        BY <4>1 DEF Fetch
      <4> QED BY <3>1, <4>1, <4>2, ForgetFacts
    <3> QED BY <1>e, <3>2, <3>3 DEF Counted
  <2>4. CASE x \notin Enms
    <3>1. Counted
      BY <2>2, <2>4 DEF CountEvents
    <3>2. enmNum' = enmNum /\ managed' \cap Enms = managed \cap Enms
      BY <2>1, <2>4 DEF Removed
    <3>3. cached' = Forget(cached, managed')
      BY <2>1, <2>4
    <3>4. \A o \in managed \cap Enms : cached'[o] = cached[o]
      BY <3>2, <3>3, ForgetFacts, Kinded
    <3> QED BY <1>e, <3>1, <3>2, <3>4, CountStays
  <2> QED BY <2>3, <2>4
<1>5. CASE HandleRefresh
  <2>1. PICK x \in Objs :
          /\ Unpost([e |-> "REFRESH", o |-> x]) /\ managed' = managed
          /\ cached' = IF x \in Enms THEN Fetch(cached, managed \cap Enms) ELSE cached
          /\ IF x \in Enms THEN UpdateOnlineEnmNum ELSE UNCHANGED enmNum
    BY <1>5 DEF HandleRefresh
  <2>2. ev = [e |-> "REFRESH", o |-> x]
    BY <2>1, Same
  <2>3. CASE x \in Enms
    <3>1. cached' = Fetch(cached, managed' \cap Enms) /\ UpdateOnlineEnmNum
      BY <2>1, <2>3
    <3> QED BY <1>e, <3>1, Recounts
  <2>4. CASE x \notin Enms
    <3>1. Counted
      BY <2>2, <2>4 DEF CountEvents
    <3>2. enmNum' = enmNum /\ managed' = managed /\ cached' = cached
      BY <2>1, <2>4
    <3> QED BY <1>e, <3>1, <3>2, CountStays
  <2> QED BY <2>3, <2>4
<1>6. CASE HandleState
  <2>1. PICK x \in Stateful, s \in States :
          /\ Unpost([e |-> "STATE", o |-> x, s |-> s]) /\ managed' = managed
          /\ LET c == IF Heard(x) THEN [cached EXCEPT ![x] = s] ELSE cached
             IN  cached' = IF Heard(x) /\ x \in Enms THEN Fetch(c, managed \cap Enms) ELSE c
          /\ IF Heard(x) /\ x \in Enms THEN UpdateOnlineEnmNum ELSE UNCHANGED enmNum
    BY <1>6 DEF HandleState
  <2>2. ev = [e |-> "STATE", o |-> x, s |-> s]
    BY <2>1, Same
  <2>3. CASE Heard(x) /\ x \in Enms
    <3>1. cached' = Fetch([cached EXCEPT ![x] = s], managed' \cap Enms) /\ UpdateOnlineEnmNum
      BY <2>1, <2>3
    <3> QED BY <1>e, <3>1, Recounts
  <2>4. CASE ~(Heard(x) /\ x \in Enms)
    <3>1. Counted
      BY <2>2 DEF CountEvents
    <3>2. enmNum' = enmNum /\ managed' = managed
      BY <2>1, <2>4
    <3>3. \A o \in managed \cap Enms : cached'[o] = cached[o]
      BY <1>t, <2>1, <2>4, Kinded DEF Heard
    <3> QED BY <1>e, <3>1, <3>2, <3>3, CountStays
  <2> QED BY <2>3, <2>4
<1>7. CASE HandleNcuState
  <2>1. PICK p \in Ncps \cup {None}, s \in States, of \in Ncps :
           Unpost([e |-> "NCU_STATE", o |-> p, s |-> s, of |-> of])
    BY <1>7 DEF HandleNcuState
  <2>2. UNCHANGED <<enmNum, managed, cached>>
    BY <1>7 DEF HandleNcuState
  <2> QED BY <1>0, <2>1, <2>2, Same
<1>8. CASE HandleNcuAdd
  <2>1. PICK p \in Ncps : Unpost([e |-> "NCU_ADD", o |-> p])
    BY <1>8 DEF HandleNcuAdd
  <2>2. UNCHANGED <<enmNum, managed, cached>>
    BY <1>8 DEF HandleNcuAdd
  <2> QED BY <1>0, <2>1, <2>2, Same
<1>g. CASE HandleGroup
  <2>1. PICK g \in Groups : Unpost([e |-> "GROUP", g |-> g])
    BY <1>g DEF HandleGroup
  <2>2. UNCHANGED <<enmNum, managed, cached>>
    BY <1>g DEF HandleGroup
  <2> QED BY <1>0, <2>1, <2>2, Same
<1> QED BY <1>1, <1>2, <1>3, <1>4, <1>5, <1>6, <1>7, <1>8, <1>g, ReadsNothing DEF Handler

LEMMA CountKept ==
    ASSUME TypeOK, CountFollows, Next
    PROVE  CountFollows'
<1> SUFFICES ASSUME sub', NoneIn(q', CountEvents) PROVE Counted'
  BY DEF CountFollows
<1>t. q \in Seq(Events) /\ sub \in BOOLEAN
  BY DEF TypeOK
<1>1. CASE Nwamd
  <2>1. PICK ev \in Events : Change(ev) /\ Means(ev)
    BY <1>1, NwamdSteps
  <2>2. sub
    BY <2>1, ChangeFacts
  <2>3. q' = Append(q, ev) /\ UNCHANGED uiVars
    BY <2>1, <2>2, ChangeFacts
  <2>4. NoneIn(q, CountEvents) /\ ev \notin CountEvents
    BY <1>t, <2>3, NoneAppend
  <2>5. Counted
    BY <2>2, <2>4 DEF CountFollows
  <2>6. exists' \cap Enms = exists \cap Enms
    BY <2>1, <2>4 DEF Means, CountEvents
  <2>7. ActiveEnms' = ActiveEnms
    BY <2>3 DEF ActiveEnms, uiVars
  <2> QED BY <2>3, <2>5, <2>6, <2>7 DEF Counted, uiVars
<1>2. CASE Connect
  <2>1. [e |-> "ACTIVE"] \in CountEvents
    BY EventFields DEF CountEvents
  <2> QED BY <1>t, <1>2, <2>1, EventFields, NoneAppend DEF Connect
<1>3. CASE Disconnect
  BY <1>3 DEF Disconnect
<1>4. ASSUME NEW ev, Unpost(ev), Handler PROVE Counted'
  <2>1. q # <<>> /\ Head(q) = ev /\ q' = Tail(q) /\ sub' = sub
    BY <1>4, UnpostFacts
  <2>2. NoneIn(q, CountEvents) \/ ev \in CountEvents
    BY <1>t, <2>1, NoneTail
  <2>3. Counted \/ ev \in CountEvents
    BY <2>1, <2>2 DEF CountFollows
  <2> QED BY <1>4, <2>3, HandlerCounts
<1>5. ASSUME NEW x \in Stateful, ReadState(x) PROVE Counted'
  <2>1. UNCHANGED <<exists, enmNum, managed>> /\ q' = q /\ sub' = sub
    BY <1>5 DEF ReadState, nwamdVars, subVars
  <2>2. Counted
    BY <2>1 DEF CountFollows
  <2>3. ASSUME NEW o \in managed \cap Enms PROVE cached'[o] = cached[o]
    <3>1. o \in Stateful /\ cached' = Fetch(cached, {x})
      BY <1>5, Kinded DEF ReadState
    <3>2. o \notin exists \/ cached[o] # "uninit"
      BY <2>2 DEF Counted
    <3> QED BY <3>1, <3>2, FetchFacts
  <2> QED BY <2>1, <2>2, <2>3, CountStays
<1> QED BY <1>1, <1>2, <1>3, <1>4, <1>5, HandlerSteps DEF Next

-----------------------------------------------------------------------------
(* The cached states.                                                      *)

\* An event that is not about a subscription's limits is handled connected.
LEMMA ConnectedThen ==
    ASSUME TypeOK, OrderOK, NEW ev, Unpost(ev), ev.e \notin {"ACTIVE", "ERROR"}
    PROVE  conn
<1>1. q # <<>> /\ q[1] = ev
  BY UnpostFacts
<1> QED BY <1>1 DEF OrderOK, TypeOK

\* What is cached of o is touched by its own events only, but for being dropped
\* or read.
LEMMA HandlerStates ==
    ASSUME TypeOK, CacheOK, OrderOK, NEW ev, Unpost(ev), Handler, NEW o \in Stateful
    PROVE  /\ ev \notin StateEvents(o) => cached'[o] \in {cached[o], "uninit", st[o]}
           /\ ev.e = "STATE" /\ ev.o = o /\ o \in managed' => o \in managed /\ cached'[o] = ev.s
           /\ ev.e = "REMOVE" /\ ev.o = o /\ o \notin System => o \notin managed'
<1>e. ev \in Events
  BY UnpostFacts
<1>t. cached \in [Stateful -> States \cup {"uninit"}]
  BY DEF TypeOK
<1>f. ASSUME NEW c, NEW m PROVE Fetch(c, m)[o] \in {c[o], st[o]}
  BY DEF Fetch
<1>1. CASE HandleError
  <2>1. Unpost([e |-> "ERROR"]) /\ cached' = cached
    BY <1>1 DEF HandleError
  <2>2. ev.e = "ERROR"
    BY <2>1, Same
  <2> QED BY <2>1, <2>2
<1>2. CASE HandleActive
  <2>1. PICK complete \in SUBSET Kinds : \E seen \in SUBSET exists : Reload(seen, complete)
    BY <1>2 DEF HandleActive
  <2>2. PICK seen \in SUBSET exists : Reload(seen, complete)
    BY <2>1
  <2>3. Unpost([e |-> "ACTIVE"])
    BY <1>2 DEF HandleActive
  <2>4. ev.e = "ACTIVE"
    BY <2>3, Same
  <2>5. cached'[o] \in {"uninit", cached[o], st[o]}
    BY <2>2, ReloadLists
  <2> QED BY <2>4, <2>5
<1>3. CASE HandleAdd
  <2>1. PICK x \in Objs :
          /\ Unpost([e |-> "ADD", o |-> x])
          /\ cached' = IF x \in Enms THEN Fetch(cached, managed' \cap Enms) ELSE cached
    BY <1>3 DEF HandleAdd
  <2>2. ev.e = "ADD"
    BY <2>1, Same
  <2>3. cached'[o] \in {cached[o], st[o]}
    BY <1>f, <2>1
  <2> QED BY <2>2, <2>3
<1>4. CASE HandleRemove
  <2>1. PICK x \in Objs :
          /\ Unpost([e |-> "REMOVE", o |-> x]) /\ managed' = managed \ Removed({x})
          /\ cached' = Forget(IF x \in Enms THEN Fetch(cached, managed' \cap Enms) ELSE cached, managed')
    BY <1>4 DEF HandleRemove
  <2>2. ev = [e |-> "REMOVE", o |-> x]
    BY <2>1, Same
  <2>3. cached'[o] \in {cached[o], st[o], "uninit"}
    <3> DEFINE c == IF x \in Enms THEN Fetch(cached, managed' \cap Enms) ELSE cached
    <3>1. c[o] \in {cached[o], st[o]}
      BY <1>f
    <3>2. cached' = Forget(c, managed')
      BY <2>1
    <3> HIDE DEF c
    <3> QED BY <3>1, <3>2, ForgetFacts
  <2>4. x = o /\ o \notin System => o \notin managed'
    BY <2>1 DEF Removed
  <2> QED BY <2>2, <2>3, <2>4
<1>5. CASE HandleRefresh
  <2>1. PICK x \in Objs :
          /\ Unpost([e |-> "REFRESH", o |-> x])
          /\ cached' = IF x \in Enms THEN Fetch(cached, managed \cap Enms) ELSE cached
    BY <1>5 DEF HandleRefresh
  <2>2. ev.e = "REFRESH"
    BY <2>1, Same
  <2>3. cached'[o] \in {cached[o], st[o]}
    BY <1>f, <2>1
  <2> QED BY <2>2, <2>3
<1>6. CASE HandleState
  <2>1. PICK x \in Stateful, s \in States :
          /\ Unpost([e |-> "STATE", o |-> x, s |-> s]) /\ managed' = managed
          /\ LET c == IF Heard(x) THEN [cached EXCEPT ![x] = s] ELSE cached
             IN  cached' = IF Heard(x) /\ x \in Enms THEN Fetch(c, managed \cap Enms) ELSE c
    BY <1>6 DEF HandleState
  <2>2. ev = [e |-> "STATE", o |-> x, s |-> s]
    BY <2>1, Same
  <2> DEFINE c == IF Heard(x) THEN [cached EXCEPT ![x] = s] ELSE cached
  <2>3. cached' = c \/ cached' = Fetch(c, managed \cap Enms)
    BY <2>1
  <2>4. (x # o => c[o] = cached[o]) /\ (x = o /\ Heard(o) => c[o] = s)
    BY <1>t
  <2>5. s # "uninit"
    BY DEF States
  <2>6. conn
    BY <2>2, ConnectedThen
  <2> HIDE DEF c
  <2>7. CASE x = o
    <3>1. ev \in StateEvents(o)
      BY <1>e, <2>2, <2>7 DEF StateEvents
    <3>2. o \in managed' => Heard(o)
      BY <2>1, <2>6 DEF Heard
    <3>3. o \in managed' => o \in managed /\ cached'[o] = s
      <4> SUFFICES ASSUME o \in managed' PROVE o \in managed /\ cached'[o] = s
        OBVIOUS
      <4>1. o \in managed /\ c[o] = s
        BY <2>1, <2>4, <2>7, <3>2
      <4>2. Fetch(c, managed \cap Enms)[o] = c[o]
        BY <2>5, <4>1, FetchFacts
      <4> QED BY <2>3, <4>1, <4>2
    <3> QED BY <2>2, <2>7, <3>1, <3>3
  <2>8. CASE x # o
    <3>1. cached'[o] \in {cached[o], st[o]}
      <4>1. c[o] = cached[o]
        BY <2>4, <2>8
      <4>2. Fetch(c, managed \cap Enms)[o] \in {c[o], st[o]}
        BY <1>f
      <4> QED BY <2>3, <4>1, <4>2
    <3> QED BY <2>2, <2>8, <3>1
  <2> QED BY <2>7, <2>8
<1>7. CASE HandleNcuState
  <2>1. PICK p \in Ncps \cup {None}, s \in States, of \in Ncps :
           Unpost([e |-> "NCU_STATE", o |-> p, s |-> s, of |-> of])
    BY <1>7 DEF HandleNcuState
  <2>2. cached' = cached
    BY <1>7 DEF HandleNcuState
  <2>3. ev.e = "NCU_STATE"
    BY <2>1, Same
  <2> QED BY <2>2, <2>3
<1>8. CASE HandleNcuAdd
  <2>1. PICK p \in Ncps : Unpost([e |-> "NCU_ADD", o |-> p])
    BY <1>8 DEF HandleNcuAdd
  <2>2. cached' = cached
    BY <1>8 DEF HandleNcuAdd
  <2>3. ev.e = "NCU_ADD"
    BY <2>1, Same
  <2> QED BY <2>2, <2>3
<1>g. CASE HandleGroup
  <2>1. PICK g \in Groups : Unpost([e |-> "GROUP", g |-> g])
    BY <1>g DEF HandleGroup
  <2>2. cached' = cached
    BY <1>g DEF HandleGroup
  <2>3. ev.e = "GROUP"
    BY <2>1, Same
  <2> QED BY <2>2, <2>3
<1> QED BY <1>1, <1>2, <1>3, <1>4, <1>5, <1>6, <1>7, <1>8, <1>g, ReadsNothing DEF Handler

\* No event that nwamd sends removes a system object.
LEMMA NotSystem ==
    ASSUME TypeOK, NwamdOK, NEW ev, Unpost(ev), ev.e = "REMOVE"
    PROVE  ev.o \notin System
<1>1. q \in Seq(Events) /\ q # <<>> /\ Head(q) = ev /\ ev \in Events
  BY UnpostFacts DEF TypeOK
<1>2. NoneIn(q, SystemGoes)
  BY DEF NwamdOK
<1>3. ev \notin SystemGoes
  BY <1>1, <1>2, NoneTail
<1> QED BY <1>1, <1>3 DEF SystemGoes

LEMMA StatesKept ==
    ASSUME TypeOK, NwamdOK, CacheOK, OrderOK, StatesFollow, Next
    PROVE  StatesFollow'
<1> SUFFICES ASSUME ~unheard', NEW o \in Stateful
             PROVE  /\ Ends(q', StateEvents(o), StateSays(o, st'))
                    /\ NoneIn(q', StateEvents(o)) /\ o \in managed' => cached'[o] \in {st'[o], "uninit"}
  BY DEF StatesFollow
<1>t. q \in Seq(Events) /\ st \in [Stateful -> States]
  BY DEF TypeOK
<1>f. ~unheard => /\ Ends(q, StateEvents(o), StateSays(o, st))
                  /\ NoneIn(q, StateEvents(o)) /\ o \in managed => cached[o] \in {st[o], "uninit"}
  BY DEF StatesFollow
<1>a. ASSUME NEW ev \in Events, q' = Append(q, ev), UNCHANGED <<cached, managed>>, ~unheard,
             ev \in StateEvents(o) => ev \in StateSays(o, st'),
             ev \notin StateEvents(o) => st'[o] = st[o]
      PROVE  /\ Ends(q', StateEvents(o), StateSays(o, st'))
             /\ NoneIn(q', StateEvents(o)) /\ o \in managed' => cached'[o] \in {st'[o], "uninit"}
  <2>1. CASE ev \in StateEvents(o)
    <3>1. Ends(q', StateEvents(o), StateSays(o, st'))
      BY <1>t, <1>a, <2>1, EndsAppend
    <3>2. ~NoneIn(q', StateEvents(o))
      BY <1>t, <1>a, <2>1, NoneAppend
    <3> QED BY <3>1, <3>2
  <2>2. CASE ev \notin StateEvents(o)
    <3>1. StateSays(o, st') = StateSays(o, st)
      BY <1>a, <2>2 DEF StateSays
    <3>2. Ends(q', StateEvents(o), StateSays(o, st'))
      BY <1>t, <1>f, <1>a, <2>2, <3>1, EndsAppendOther
    <3>3. NoneIn(q', StateEvents(o)) => NoneIn(q, StateEvents(o))
      BY <1>t, <1>a, NoneAppend
    <3> QED BY <1>f, <1>a, <2>2, <3>2, <3>3
  <2> QED BY <2>1, <2>2
<1>1. CASE Nwamd
  <2>1. PICK ev \in Events : Change(ev) /\ Means(ev)
    BY <1>1, NwamdSteps
  <2>2. q' = Append(q, ev) /\ UNCHANGED <<cached, managed>> /\ ~unheard
    BY <2>1, ChangeFacts DEF uiVars
  <2>3. ev \in StateEvents(o) => ev \in StateSays(o, st')
    BY <1>t, <2>1 DEF Means, StateEvents, StateSays
  <2>4. ev \notin StateEvents(o) => st'[o] = st[o]
    BY <1>t, <2>1 DEF Means, StateEvents
  <2> QED BY <1>a, <2>2, <2>3, <2>4
<1>2. CASE Connect
  <2>1. UNCHANGED <<cached, managed, st>> /\ ~unheard /\ q' = Append(q, [e |-> "ACTIVE"])
    BY <1>2 DEF Connect, uiVars, nwamdVars
  <2>2. [e |-> "ACTIVE"] \notin StateEvents(o)
    BY DEF StateEvents
  <2> QED BY <1>a, <2>1, <2>2, EventFields
<1>3. CASE Disconnect
  <2>1. UNCHANGED <<cached, managed, st>> /\ ~unheard /\ q' = Append(q, [e |-> "ERROR"])
    BY <1>3 DEF Disconnect, uiVars, nwamdVars
  <2>2. [e |-> "ERROR"] \notin StateEvents(o)
    BY DEF StateEvents
  <2> QED BY <1>a, <2>1, <2>2, EventFields
<1>4. ASSUME NEW ev, Unpost(ev), Handler
      PROVE  /\ Ends(q', StateEvents(o), StateSays(o, st'))
             /\ NoneIn(q', StateEvents(o)) /\ o \in managed' => cached'[o] \in {st'[o], "uninit"}
  <2>1. q # <<>> /\ Head(q) = ev /\ q' = Tail(q) /\ st' = st /\ ev \in Events
    BY <1>4, UnpostFacts
  <2>2. ~unheard
    BY <1>4, UnpostFacts
  <2>3. /\ Ends(q', StateEvents(o), StateSays(o, st))
        /\ NoneIn(q', StateEvents(o)) => \/ NoneIn(q, StateEvents(o))
                                         \/ ev \in StateEvents(o) /\ ev \in StateSays(o, st)
    BY <1>t, <1>f, <2>1, <2>2, EndsTail
  <2>4. NoneIn(q, StateEvents(o)) => ev \notin StateEvents(o)
    BY <1>t, <2>1, NoneTail
  <2>5. /\ ev \notin StateEvents(o) => cached'[o] \in {cached[o], "uninit", st[o]}
        /\ ev.e = "STATE" /\ ev.o = o /\ o \in managed' => o \in managed /\ cached'[o] = ev.s
        /\ ev.e = "REMOVE" /\ ev.o = o /\ o \notin System => o \notin managed'
    BY <1>4, HandlerStates
  <2>6. NoneIn(q, StateEvents(o)) => cached[o] \in {st[o], "uninit"}
    BY <1>f, <2>2 DEF CacheOK
  <2>7. ASSUME ev \in StateEvents(o), ev \in StateSays(o, st), o \in managed' PROVE cached'[o] = st[o]
    <3>1. ev.o = o /\ (ev.e = "REMOVE" \/ (ev.e = "STATE" /\ ev.s = st[o]))
      BY <2>7 DEF StateEvents, StateSays
    <3>2. ev.e # "REMOVE"
      BY <1>4, <2>5, <2>7, <3>1, NotSystem
    <3> QED BY <2>5, <2>7, <3>1, <3>2
  <2> QED BY <2>1, <2>3, <2>4, <2>5, <2>6, <2>7
<1>5. ASSUME NEW x \in Stateful, ReadState(x)
      PROVE  /\ Ends(q', StateEvents(o), StateSays(o, st'))
             /\ NoneIn(q', StateEvents(o)) /\ o \in managed' => cached'[o] \in {st'[o], "uninit"}
  <2>1. UNCHANGED <<q, st, managed, unheard>> /\ cached' = Fetch(cached, {x})
    BY <1>5 DEF ReadState, nwamdVars
  <2>2. cached'[o] \in {cached[o], st[o]}
    BY <2>1 DEF Fetch
  <2> QED BY <1>f, <2>1, <2>2
<1> QED BY <1>1, <1>2, <1>3, <1>4, <1>5, HandlerSteps DEF Next

-----------------------------------------------------------------------------
(* The cached states of NCUs.                                              *)

\* What is cached of an NCP's NCU is touched by that NCU's events only, but for
\* being dropped or read, as long as the event can be told to be its.
LEMMA HandlerNcus ==
    ASSUME TypeOK, OrderOK, NEW ev, Unpost(ev), Handler, ~Unaddressed(ev), NEW p \in Ncps
    PROVE  /\ ev \notin NcuEvents(p) => ncu'[p] \in {ncu[p], "none", ncuUp[p]}
           /\ ev \in NcuEvents(p) /\ p \in managed' => ncu'[p] \in {ev.s, "none"}
<1>e. ev \in Events
  BY UnpostFacts
<1>t. ncu \in [Ncps -> States \cup {"none"}]
  BY DEF TypeOK
<1>0. ASSUME ncu'[p] \in {ncu[p], "none", ncuUp[p]}, ev.e # "NCU_STATE"
      PROVE  /\ ev \notin NcuEvents(p) => ncu'[p] \in {ncu[p], "none", ncuUp[p]}
             /\ ev \in NcuEvents(p) /\ p \in managed' => ncu'[p] \in {ev.s, "none"}
  BY <1>0 DEF NcuEvents
<1>r. ASSUME NEW P PROVE ReloadNcu(ncu, P)[p] \in {ncu[p], ncuUp[p]}
  BY DEF ReloadNcu
<1>1. CASE HandleError
  <2>1. Unpost([e |-> "ERROR"]) /\ ncu' = ncu
    BY <1>1 DEF HandleError
  <2> QED BY <1>0, <2>1, Same
<1>2. CASE HandleActive
  <2>1. PICK complete \in SUBSET Kinds : \E seen \in SUBSET exists : Reload(seen, complete)
    BY <1>2 DEF HandleActive
  <2>2. PICK seen \in SUBSET exists : Reload(seen, complete)
    BY <2>1
  <2>3. Unpost([e |-> "ACTIVE"])
    BY <1>2 DEF HandleActive
  <2>4. ncu'[p] \in {"none", ncu[p], ncuUp[p]}
    BY <2>2, ReloadLists
  <2> QED BY <1>0, <2>3, <2>4, Same
<1>3. CASE HandleAdd
  <2>1. PICK x \in Objs : Unpost([e |-> "ADD", o |-> x])
    BY <1>3 DEF HandleAdd
  <2>2. ncu' = ncu
    BY <1>3 DEF HandleAdd
  <2> QED BY <1>0, <2>1, <2>2, Same
<1>4. CASE HandleRemove
  <2>1. PICK x \in Objs : Unpost([e |-> "REMOVE", o |-> x]) /\ ncu' = ForgetNcu(ncu, managed')
    BY <1>4 DEF HandleRemove
  <2>2. ncu'[p] \in {ncu[p], "none"}
    BY <2>1, NcuFacts
  <2> QED BY <1>0, <2>1, <2>2, Same
<1>5. CASE HandleRefresh
  <2>1. PICK x \in Objs :
           Unpost([e |-> "REFRESH", o |-> x]) /\ ncu' = ReloadNcu(ncu, {x} \cap managed)
    BY <1>5 DEF HandleRefresh
  <2>2. ncu'[p] \in {ncu[p], ncuUp[p]}
    BY <1>r, <2>1
  <2> QED BY <1>0, <2>1, <2>2, Same
<1>6. CASE HandleState
  <2>1. PICK x \in Stateful, s \in States :
          /\ Unpost([e |-> "STATE", o |-> x, s |-> s])
          /\ IF Activated(x, s) /\ x \in Ncps
             THEN /\ activeNcp' = x /\ goneNcp' = "no"
                  /\ ncu' = ReloadNcu(ncu, {x})
             ELSE UNCHANGED <<ncpVars, ncu>>
    BY <1>6 DEF HandleState
  <2>2. ncu' = ncu \/ ncu' = ReloadNcu(ncu, {x})
    BY <2>1
  <2>3. ncu'[p] \in {ncu[p], ncuUp[p]}
    BY <1>r, <2>2
  <2> QED BY <1>0, <2>1, <2>3, Same
<1>7. CASE HandleNcuState
  <2>1. PICK n \in Ncps \cup {None}, s \in States, of \in Ncps :
          /\ Unpost([e |-> "NCU_STATE", o |-> n, s |-> s, of |-> of])
          /\ LET target == IF n = None THEN activeNcp ELSE n
                 gone   == n = None /\ goneNcp # "no"
             IN  ncu' = IF conn /\ ~gone /\ target \in managed /\ ncu[target] # "none"
                        THEN [ncu EXCEPT ![target] = s] ELSE ncu
    BY <1>7 DEF HandleNcuState
  <2>2. ev = [e |-> "NCU_STATE", o |-> n, s |-> s, of |-> of]
    BY <2>1, Same
  <2>3. n \in {of, None} /\ None \notin Ncps
    BY <1>e, <2>2, EventTypes, Kinded
  <2>4. n = None => activeNcp = of /\ goneNcp = "no"
    BY <2>2 DEF Unaddressed
  <2>5. conn
    BY <2>2, ConnectedThen
  <2>6. ncu' = IF of \in managed /\ ncu[of] # "none" THEN [ncu EXCEPT ![of] = s] ELSE ncu
    BY <2>1, <2>3, <2>4, <2>5
  <2>7. managed' = managed
    BY <1>7 DEF HandleNcuState
  <2>8. ev \in NcuEvents(p) <=> of = p
    BY <1>e, <2>2 DEF NcuEvents
  <2> QED BY <1>t, <2>2, <2>6, <2>7, <2>8
<1>8. CASE HandleNcuAdd
  <2>1. PICK x \in Ncps : Unpost([e |-> "NCU_ADD", o |-> x]) /\ ncu' = ReloadNcu(ncu, {x} \cap managed)
    BY <1>8 DEF HandleNcuAdd
  <2>2. ncu'[p] \in {ncu[p], ncuUp[p]}
    BY <1>r, <2>1
  <2> QED BY <1>0, <2>1, <2>2, Same
<1>g. CASE HandleGroup
  <2>1. PICK g \in Groups : Unpost([e |-> "GROUP", g |-> g])
    BY <1>g DEF HandleGroup
  <2>2. ncu'[p] = ncu[p]
    BY <1>g DEF HandleGroup
  <2> QED BY <1>0, <2>1, <2>2, Same
<1> QED BY <1>1, <1>2, <1>3, <1>4, <1>5, <1>6, <1>7, <1>8, <1>g, ReadsNothing DEF Handler

LEMMA NcusKept ==
    ASSUME TypeOK, CacheOK, OrderOK, NcusFollow, Next
    PROVE  NcusFollow'
<1> SUFFICES ASSUME ~unheard', NEW p \in Ncps
             PROVE  /\ Ends(q', NcuEvents(p), NcuSays(p, ncuUp'))
                    /\ NoneIn(q', NcuEvents(p)) /\ p \in managed' => ncu'[p] \in {ncuUp'[p], "none"}
  BY DEF NcusFollow
<1>t. q \in Seq(Events) /\ ncuUp \in [Ncps -> States]
  BY DEF TypeOK
<1>f. ~unheard => /\ Ends(q, NcuEvents(p), NcuSays(p, ncuUp))
                  /\ NoneIn(q, NcuEvents(p)) /\ p \in managed => ncu[p] \in {ncuUp[p], "none"}
  BY DEF NcusFollow
<1>a. ASSUME NEW ev \in Events, q' = Append(q, ev), UNCHANGED <<ncu, managed>>, ~unheard,
             ev \in NcuEvents(p) => ev \in NcuSays(p, ncuUp'),
             ev \notin NcuEvents(p) => ncuUp'[p] = ncuUp[p]
      PROVE  /\ Ends(q', NcuEvents(p), NcuSays(p, ncuUp'))
             /\ NoneIn(q', NcuEvents(p)) /\ p \in managed' => ncu'[p] \in {ncuUp'[p], "none"}
  <2>1. CASE ev \in NcuEvents(p)
    <3>1. Ends(q', NcuEvents(p), NcuSays(p, ncuUp'))
      BY <1>t, <1>a, <2>1, EndsAppend
    <3>2. ~NoneIn(q', NcuEvents(p))
      BY <1>t, <1>a, <2>1, NoneAppend
    <3> QED BY <3>1, <3>2
  <2>2. CASE ev \notin NcuEvents(p)
    <3>1. NcuSays(p, ncuUp') = NcuSays(p, ncuUp)
      BY <1>a, <2>2 DEF NcuSays
    <3>2. Ends(q', NcuEvents(p), NcuSays(p, ncuUp'))
      BY <1>t, <1>f, <1>a, <2>2, <3>1, EndsAppendOther
    <3>3. NoneIn(q', NcuEvents(p)) => NoneIn(q, NcuEvents(p))
      BY <1>t, <1>a, NoneAppend
    <3> QED BY <1>f, <1>a, <2>2, <3>2, <3>3
  <2> QED BY <2>1, <2>2
<1>1. CASE Nwamd
  <2>1. PICK ev \in Events : Change(ev) /\ Means(ev)
    BY <1>1, NwamdSteps
  <2>2. q' = Append(q, ev) /\ UNCHANGED <<ncu, managed>> /\ ~unheard
    BY <2>1, ChangeFacts DEF uiVars
  <2>3. ev \in NcuEvents(p) => ev \in NcuSays(p, ncuUp')
    BY <1>t, <2>1 DEF Means, NcuEvents, NcuSays
  <2>4. ev \notin NcuEvents(p) => ncuUp'[p] = ncuUp[p]
    BY <1>t, <2>1 DEF Means, NcuEvents
  <2> QED BY <1>a, <2>2, <2>3, <2>4
<1>2. CASE Connect
  <2>1. UNCHANGED <<ncu, managed, ncuUp>> /\ ~unheard /\ q' = Append(q, [e |-> "ACTIVE"])
    BY <1>2 DEF Connect, uiVars, nwamdVars
  <2>2. [e |-> "ACTIVE"] \notin NcuEvents(p)
    BY DEF NcuEvents
  <2> QED BY <1>a, <2>1, <2>2, EventFields
<1>3. CASE Disconnect
  <2>1. UNCHANGED <<ncu, managed, ncuUp>> /\ ~unheard /\ q' = Append(q, [e |-> "ERROR"])
    BY <1>3 DEF Disconnect, uiVars, nwamdVars
  <2>2. [e |-> "ERROR"] \notin NcuEvents(p)
    BY DEF NcuEvents
  <2> QED BY <1>a, <2>1, <2>2, EventFields
<1>4. ASSUME NEW ev, Unpost(ev), Handler
      PROVE  /\ Ends(q', NcuEvents(p), NcuSays(p, ncuUp'))
             /\ NoneIn(q', NcuEvents(p)) /\ p \in managed' => ncu'[p] \in {ncuUp'[p], "none"}
  <2>1. q # <<>> /\ Head(q) = ev /\ q' = Tail(q) /\ ncuUp' = ncuUp
    BY <1>4, UnpostFacts
  <2>2. ~unheard /\ ~Unaddressed(ev)
    BY <1>4, UnpostFacts
  <2>3. /\ Ends(q', NcuEvents(p), NcuSays(p, ncuUp))
        /\ NoneIn(q', NcuEvents(p)) => \/ NoneIn(q, NcuEvents(p))
                                       \/ ev \in NcuEvents(p) /\ ev \in NcuSays(p, ncuUp)
    BY <1>t, <1>f, <2>1, <2>2, EndsTail
  <2>4. NoneIn(q, NcuEvents(p)) => ev \notin NcuEvents(p)
    BY <1>t, <2>1, NoneTail
  <2>5. /\ ev \notin NcuEvents(p) => ncu'[p] \in {ncu[p], "none", ncuUp[p]}
        /\ ev \in NcuEvents(p) /\ p \in managed' => ncu'[p] \in {ev.s, "none"}
    BY <1>4, <2>2, HandlerNcus
  <2>6. NoneIn(q, NcuEvents(p)) => ncu[p] \in {ncuUp[p], "none"}
    BY <1>f, <2>2 DEF CacheOK
  <2>7. ev \in NcuSays(p, ncuUp) => ev.s = ncuUp[p]
    BY DEF NcuSays
  <2> QED BY <2>1, <2>3, <2>4, <2>5, <2>6, <2>7
<1>5. ASSUME NEW x \in Stateful, ReadState(x)
      PROVE  /\ Ends(q', NcuEvents(p), NcuSays(p, ncuUp'))
             /\ NoneIn(q', NcuEvents(p)) /\ p \in managed' => ncu'[p] \in {ncuUp'[p], "none"}
  <2>1. UNCHANGED <<q, ncuUp, ncu, managed, unheard>>
    BY <1>5 DEF ReadState, nwamdVars
  <2> QED BY <1>f, <2>1
<1> QED BY <1>1, <1>2, <1>3, <1>4, <1>5, HandlerSteps DEF Next

-----------------------------------------------------------------------------
(* One location, and one NCP, online at a time.                            *)

\* Of two objects one online keeps the other from being so.
LEMMA OneOnline ==
    ASSUME NEW K, NEW s, NEW E, AtMostOneOnline(K, E, s), K \subseteq Stateful,
           \A o \in Stateful \ E : s[o] = "offline",
           NEW o \in K, NEW x \in K, o # x, s[o] = "online"
    PROVE  s[x] # "online"
BY DEF AtMostOneOnline

LEMMA OneByOneKept ==
    ASSUME TypeOK, NwamdOK, NwamdOK', CacheOK, OrderOK, StatesFollow, Next,
           NEW K, K = Locs \/ K = Ncps, OneByOne(K)
    PROVE  OneByOne(K)'
<1>k. K \subseteq Stateful /\ AtMostOneOnline(K, exists, st) /\ AtMostOneOnline(K, exists', st')
  BY Kinded DEF NwamdOK
<1> SUFFICES ASSUME ~unheard', NEW o \in K, NEW x \in K, o # x, st'[o] = "online"
             PROVE  /\ x \in managed' /\ cached'[x] = "online" => Before(q', Down(x), Up(o))
                    /\ Chain(q', Up(x), Down(x), Up(o))
  BY DEF OneByOne
<1>t. /\ q \in Seq(Events) /\ st \in [Stateful -> States] /\ o \in Stateful /\ x \in Stateful
      /\ exists \subseteq Objs
  BY <1>k DEF TypeOK
<1>x. st'[x] # "online"
  BY <1>k, OneOnline DEF NwamdOK
<1>f. ~unheard /\ st[o] = "online"
        => /\ x \in managed /\ cached[x] = "online" => Before(q, Down(x), Up(o))
           /\ Chain(q, Up(x), Down(x), Up(o))
  BY DEF OneByOne
<1>a. ASSUME NEW ev \in Events, q' = Append(q, ev), UNCHANGED <<cached, managed>>, ~unheard,
             st[o] = "online", ev \notin Up(x)
      PROVE  /\ x \in managed' /\ cached'[x] = "online" => Before(q', Down(x), Up(o))
             /\ Chain(q', Up(x), Down(x), Up(o))
  <2>1. Chain(q', Up(x), Down(x), Up(o))
    BY <1>t, <1>f, <1>a, ChainAppend
  <2>2. Before(q, Down(x), Up(o)) => Before(q', Down(x), Up(o))
    BY <1>t, <1>a, BeforeAppend
  <2> QED BY <1>f, <1>a, <2>1, <2>2
<1>1. CASE Nwamd
  <2>1. PICK ev \in Events : Change(ev) /\ Means(ev)
    BY <1>1, NwamdSteps
  <2>2. q' = Append(q, ev) /\ UNCHANGED <<cached, managed>> /\ ~unheard
    BY <2>1, ChangeFacts DEF uiVars
  <2>3. ev \notin Up(x)
    BY <1>t, <1>x, <2>1 DEF Means, Up
  <2>4. CASE st[o] = "online"
    BY <1>a, <2>2, <2>3, <2>4
  <2>5. CASE st[o] # "online"
    <3>1. ev \in Up(o) /\ st'[x] = st[x]
      BY <1>t, <2>1, <2>5 DEF Means, Up
    <3>2. /\ Ends(q, StateEvents(x), StateSays(x, st))
          /\ NoneIn(q, StateEvents(x)) /\ x \in managed => cached[x] \in {st[x], "uninit"}
      BY <1>t, <2>2 DEF StatesFollow
    <3>3. StateEvents(x) \cap StateSays(x, st) \subseteq Down(x)
      <4>1. st[x] = "offline"
        BY <1>t, <1>x, <3>1 DEF States
      <4> QED BY <4>1 DEF StateEvents, StateSays, Down
    <3>4. Ends(q, StateEvents(x), Down(x))
      BY <3>2, <3>3, EndsWeaken
    <3>5. Up(x) \subseteq StateEvents(x) /\ Up(x) \cap Down(x) = {}
      BY DEF Up, Down, StateEvents
    <3>6. Chain(q', Up(x), Down(x), Up(o))
      BY <1>t, <2>2, <2>3, <3>1, <3>4, <3>5, ChainStart
    <3>7. ASSUME x \in managed', cached'[x] = "online" PROVE Before(q', Down(x), Up(o))
      <4>1. ~NoneIn(q, StateEvents(x))
        BY <1>x, <2>2, <3>1, <3>2, <3>7
      <4>2. ~NoneIn(q, Down(x))
        BY <3>4, <4>1, EndsSome
      <4> QED BY <1>t, <2>2, <3>1, <4>2, BeforeAppend
    <3> QED BY <3>6, <3>7
  <2> QED BY <2>4, <2>5
<1>2. CASE Connect
  <2>1. UNCHANGED <<cached, managed, st>> /\ ~unheard /\ q' = Append(q, [e |-> "ACTIVE"])
    BY <1>2 DEF Connect, uiVars, nwamdVars
  <2>2. [e |-> "ACTIVE"] \notin Up(x)
    BY DEF Up
  <2> QED BY <1>a, <2>1, <2>2, EventFields
<1>3. CASE Disconnect
  <2>1. UNCHANGED <<cached, managed, st>> /\ ~unheard /\ q' = Append(q, [e |-> "ERROR"])
    BY <1>3 DEF Disconnect, uiVars, nwamdVars
  <2>2. [e |-> "ERROR"] \notin Up(x)
    BY DEF Up
  <2> QED BY <1>a, <2>1, <2>2, EventFields
<1>4. ASSUME NEW ev, Unpost(ev), Handler
      PROVE  /\ x \in managed' /\ cached'[x] = "online" => Before(q', Down(x), Up(o))
             /\ Chain(q', Up(x), Down(x), Up(o))
  <2>1. q # <<>> /\ Head(q) = ev /\ q' = Tail(q) /\ st' = st /\ ev \in Events
    BY <1>4, UnpostFacts
  <2>2. ~unheard
    BY <1>4, UnpostFacts
  <2>3. /\ Chain(q', Up(x), Down(x), Up(o))
        /\ ev \in Up(x) => Before(q', Down(x), Up(o))
    BY <1>t, <1>f, <2>1, <2>2, ChainTail
  <2>4. ASSUME x \in managed', cached'[x] = "online" PROVE Before(q', Down(x), Up(o))
    <3>1. /\ ev \notin StateEvents(x) => cached'[x] \in {cached[x], "uninit", st[x]}
          /\ ev.e = "STATE" /\ ev.o = x => cached'[x] = ev.s
          /\ ev.e = "REMOVE" /\ ev.o = x => x \in System
      BY <1>t, <1>4, <2>4, HandlerStates
    <3>2. CASE ev \notin StateEvents(x)
      <4>1. cached[x] = "online"
        BY <1>x, <2>1, <2>4, <3>1, <3>2
      <4>2. x \in managed
        BY <1>t, <4>1 DEF CacheOK
      <4>3. Before(q, Down(x), Up(o))
        BY <1>f, <2>1, <2>2, <4>1, <4>2
      <4>4. ev \notin Down(x)
        BY <3>2 DEF StateEvents, Down
      <4> QED BY <1>t, <2>1, <4>3, <4>4, BeforeTail
    <3>3. CASE ev \in StateEvents(x)
      <4>1. ev.o = x /\ ev.e \in {"STATE", "REMOVE"}
        BY <3>3 DEF StateEvents
      <4>2. ev.e = "STATE"
        BY <1>4, <3>1, <4>1, NotSystem
      <4>3. ev \in Up(x)
        BY <2>1, <2>4, <3>1, <4>1, <4>2 DEF Up
      <4> QED BY <2>3, <4>3
    <3> QED BY <3>2, <3>3
  <2> QED BY <2>3, <2>4
<1>5. ASSUME NEW y \in Stateful, ReadState(y)
      PROVE  /\ x \in managed' /\ cached'[x] = "online" => Before(q', Down(x), Up(o))
             /\ Chain(q', Up(x), Down(x), Up(o))
  <2>1. UNCHANGED <<q, st, managed, unheard>> /\ cached' = Fetch(cached, {y})
    BY <1>5 DEF ReadState, nwamdVars
  <2>2. cached'[x] \in {cached[x], st[x]}
    BY <1>t, <2>1 DEF Fetch
  <2> QED BY <1>x, <1>f, <2>1, <2>2
<1> QED BY <1>1, <1>2, <1>3, <1>4, <1>5, HandlerSteps DEF Next

-----------------------------------------------------------------------------
(* The active objects.                                                     *)

\* With no event pending about which of K is active, a whole reload finds the
\* one that nwamd has online, and no other.
LEMMA ReloadFinds ==
    ASSUME TypeOK, NwamdOK, StatesFollow', ~unheard', st' = st, exists' = exists,
           NEW K, K = Locs \/ K = Ncps, OneByOne(K)',
           NEW seen \in SUBSET exists, Reload(seen, Kinds),
           \A L \in Kinds : exists \cap L \subseteq seen,
           NEW o \in K, st[o] = "online", NoneIn(q', ActiveEvents(o, K))
    PROVE  o \in seen /\ \A x \in seen \cap K : cached'[x] = "online" <=> x = o
<1>t. K \subseteq Stateful /\ exists \subseteq Objs /\ st \in [Stateful -> States]
  BY Kinded DEF TypeOK
<1>1. seen = exists /\ managed' = exists
  BY ReloadAll
<1>2. o \in exists
  BY <1>t DEF NwamdOK
<1>3. cached'[o] # "uninit"
  <2>1. o \in seen /\ o \in managed' /\ o \in Stateful /\ st[o] # "uninit"
    BY <1>t, <1>1, <1>2
  <2>2. CASE o \in managed /\ cached[o] # "uninit"
    BY <2>1, <2>2, ReloadLists
  <2>3. CASE o \notin managed \/ cached[o] = "uninit"
    BY <2>1, <2>3, ReloadLists
  <2> QED BY <2>2, <2>3
<1>4. NoneIn(q', StateEvents(o))
  <2>1. Ends(q', StateEvents(o), StateSays(o, st'))
    BY <1>t DEF StatesFollow
  <2>2. StateEvents(o) \cap StateSays(o, st') \subseteq ActiveEvents(o, K)
    BY DEF StateEvents, StateSays, ActiveEvents
  <2> QED BY <2>1, <2>2, EndsNone
<1>5. cached'[o] = "online"
  <2>1. cached'[o] \in {st[o], "uninit"}
    BY <1>t, <1>1, <1>2, <1>4 DEF StatesFollow
  <2> QED BY <1>3, <2>1
<1>6. ASSUME NEW x \in seen \cap K, cached'[x] = "online", x # o PROVE FALSE
  <2>1. Before(q', Down(x), Up(o))
    BY <1>1, <1>6 DEF OneByOne
  <2>2. ~NoneIn(q', Up(o))
    BY <2>1 DEF Before, NoneIn
  <2>3. Up(o) \subseteq ActiveEvents(o, K)
    BY DEF Up, ActiveEvents
  <2> QED BY <2>2, <2>3 DEF NoneIn
<1> QED BY <1>1, <1>2, <1>5, <1>6

\* No event but those of the class takes an active location from its place.
LEMMA HandlerEnv ==
    ASSUME TypeOK, OrderOK, NEW ev, Unpost(ev), Handler, NEW o \in Locs
    PROVE  /\ ev \notin ActiveEvents(o, Locs) /\ activeEnv = o /\ goneEnv = "no"
                => activeEnv' = o /\ goneEnv' = "no"
           /\ ev.e = "STATE" /\ ev.o = o /\ ev.s = "online" /\ o \in managed
                => activeEnv' = o /\ goneEnv' = "no"
<1>e. ev \in Events
  BY UnpostFacts
<1>0. ASSUME UNCHANGED envVars, ev.e # "STATE"
      PROVE  /\ activeEnv = o /\ goneEnv = "no" => activeEnv' = o /\ goneEnv' = "no"
             /\ ev.e # "STATE"
  BY <1>0 DEF envVars
<1>1. CASE HandleError
  <2>1. Unpost([e |-> "ERROR"]) /\ UNCHANGED envVars
    BY <1>1 DEF HandleError
  <2> QED BY <1>0, <2>1, Same
<1>2. CASE HandleActive
  <2>1. Unpost([e |-> "ACTIVE"])
    BY <1>2 DEF HandleActive
  <2>2. ev = [e |-> "ACTIVE"]
    BY <2>1, Same
  <2> QED BY <1>e, <2>2 DEF ActiveEvents
<1>3. CASE HandleAdd
  <2>1. PICK x \in Objs : Unpost([e |-> "ADD", o |-> x])
    BY <1>3 DEF HandleAdd
  <2>2. UNCHANGED envVars
    BY <1>3 DEF HandleAdd
  <2> QED BY <1>0, <2>1, <2>2, Same
<1>4. CASE HandleRemove
  <2>1. PICK x \in Objs :
          /\ Unpost([e |-> "REMOVE", o |-> x])
          /\ IF x = activeEnv /\ goneEnv = "no" /\ x \in managed
             THEN activeEnv' = None /\ goneEnv' = "no"
             ELSE UNCHANGED envVars
    BY <1>4 DEF HandleRemove
  <2>2. ev = [e |-> "REMOVE", o |-> x]
    BY <2>1, Same
  <2>3. ev \in ActiveEvents(o, Locs) \/ x # o
    BY <1>e, <2>2 DEF ActiveEvents
  <2> QED BY <2>1, <2>2, <2>3 DEF envVars
<1>5. CASE HandleRefresh
  <2>1. PICK x \in Objs : Unpost([e |-> "REFRESH", o |-> x])
    BY <1>5 DEF HandleRefresh
  <2>2. UNCHANGED envVars
    BY <1>5 DEF HandleRefresh
  <2> QED BY <1>0, <2>1, <2>2, Same
<1>6. CASE HandleState
  <2>1. PICK x \in Stateful, s \in States :
          /\ Unpost([e |-> "STATE", o |-> x, s |-> s])
          /\ IF Activated(x, s) /\ x \in Locs
             THEN activeEnv' = x /\ goneEnv' = "no"
             ELSE UNCHANGED envVars
    BY <1>6 DEF HandleState
  <2>2. ev = [e |-> "STATE", o |-> x, s |-> s]
    BY <2>1, Same
  <2>3. conn
    BY <2>2, ConnectedThen
  <2>4. Activated(x, s) /\ x \in Locs => ev \in ActiveEvents(o, Locs)
    BY <1>e, <2>2 DEF ActiveEvents, Activated
  <2>5. x = o /\ s = "online" /\ o \in managed => Activated(x, s)
    BY <2>3 DEF Activated, Heard
  <2> QED BY <2>1, <2>2, <2>4, <2>5 DEF envVars
<1>7. CASE HandleNcuState
  <2>1. PICK p \in Ncps \cup {None}, s \in States, of \in Ncps :
           Unpost([e |-> "NCU_STATE", o |-> p, s |-> s, of |-> of])
    BY <1>7 DEF HandleNcuState
  <2>2. UNCHANGED envVars
    BY <1>7 DEF HandleNcuState
  <2> QED BY <1>0, <2>1, <2>2, Same
<1>8. CASE HandleNcuAdd
  <2>1. PICK p \in Ncps : Unpost([e |-> "NCU_ADD", o |-> p])
    BY <1>8 DEF HandleNcuAdd
  <2>2. UNCHANGED envVars
    BY <1>8 DEF HandleNcuAdd
  <2> QED BY <1>0, <2>1, <2>2, Same
<1>g. CASE HandleGroup
  <2>1. PICK g \in Groups : Unpost([e |-> "GROUP", g |-> g])
    BY <1>g DEF HandleGroup
  <2>2. UNCHANGED envVars
    BY <1>g DEF HandleGroup
  <2> QED BY <1>0, <2>1, <2>2, Same
<1> QED BY <1>1, <1>2, <1>3, <1>4, <1>5, <1>6, <1>7, <1>8, <1>g, ReadsNothing DEF Handler

\* Nor an active NCP, whose removal alone leaves it active.
LEMMA HandlerNcp ==
    ASSUME TypeOK, OrderOK, NEW ev, Unpost(ev), Handler, NEW o \in Ncps
    PROVE  /\ ev \notin ActiveEvents(o, Ncps) /\ activeNcp = o /\ goneNcp = "no"
                => activeNcp' = o /\ goneNcp' = "no"
           /\ ev.e = "STATE" /\ ev.o = o /\ ev.s = "online" /\ o \in managed
                => activeNcp' = o /\ goneNcp' = "no"
<1>e. ev \in Events
  BY UnpostFacts
<1>0. ASSUME UNCHANGED ncpVars, ev.e # "STATE"
      PROVE  /\ activeNcp = o /\ goneNcp = "no" => activeNcp' = o /\ goneNcp' = "no"
             /\ ev.e # "STATE"
  BY <1>0 DEF ncpVars
<1>1. CASE HandleError
  <2>1. Unpost([e |-> "ERROR"]) /\ UNCHANGED ncpVars
    BY <1>1 DEF HandleError
  <2> QED BY <1>0, <2>1, Same
<1>2. CASE HandleActive
  <2>1. Unpost([e |-> "ACTIVE"])
    BY <1>2 DEF HandleActive
  <2>2. ev = [e |-> "ACTIVE"]
    BY <2>1, Same
  <2> QED BY <1>e, <2>2 DEF ActiveEvents
<1>3. CASE HandleAdd
  <2>1. PICK x \in Objs : Unpost([e |-> "ADD", o |-> x])
    BY <1>3 DEF HandleAdd
  <2>2. UNCHANGED ncpVars
    BY <1>3 DEF HandleAdd
  <2> QED BY <1>0, <2>1, <2>2, Same
<1>4. CASE HandleRemove
  <2>1. PICK x \in Objs :
          /\ Unpost([e |-> "REMOVE", o |-> x]) /\ managed' = managed \ Removed({x})
          /\ activeNcp' = activeNcp /\ LeaveNcp(managed')
    BY <1>4 DEF HandleRemove
  <2>2. ev = [e |-> "REMOVE", o |-> x]
    BY <2>1, Same
  <2>3. ev \in ActiveEvents(o, Ncps) \/ x # o
    BY <1>e, <2>2 DEF ActiveEvents
  <2>4. x # o => o \notin managed \ managed'
    BY <2>1 DEF Removed
  <2> QED BY <2>1, <2>2, <2>3, <2>4 DEF LeaveNcp
<1>5. CASE HandleRefresh
  <2>1. PICK x \in Objs : Unpost([e |-> "REFRESH", o |-> x])
    BY <1>5 DEF HandleRefresh
  <2>2. UNCHANGED ncpVars
    BY <1>5 DEF HandleRefresh
  <2> QED BY <1>0, <2>1, <2>2, Same
<1>6. CASE HandleState
  <2>1. PICK x \in Stateful, s \in States :
          /\ Unpost([e |-> "STATE", o |-> x, s |-> s])
          /\ IF Activated(x, s) /\ x \in Ncps
             THEN /\ activeNcp' = x /\ goneNcp' = "no"
                  /\ ncu' = ReloadNcu(ncu, {x})
             ELSE UNCHANGED <<ncpVars, ncu>>
    BY <1>6 DEF HandleState
  <2>2. ev = [e |-> "STATE", o |-> x, s |-> s]
    BY <2>1, Same
  <2>3. conn
    BY <2>2, ConnectedThen
  <2>4. Activated(x, s) /\ x \in Ncps => ev \in ActiveEvents(o, Ncps)
    BY <1>e, <2>2 DEF ActiveEvents, Activated
  <2>5. x = o /\ s = "online" /\ o \in managed => Activated(x, s)
    BY <2>3 DEF Activated, Heard
  <2> QED BY <2>1, <2>2, <2>4, <2>5 DEF ncpVars
<1>7. CASE HandleNcuState
  <2>1. PICK p \in Ncps \cup {None}, s \in States, of \in Ncps :
          /\ Unpost([e |-> "NCU_STATE", o |-> p, s |-> s, of |-> of])
          /\ goneNcp = "no" => goneNcp' = goneNcp
    BY <1>7 DEF HandleNcuState
  <2>2. activeNcp' = activeNcp
    BY <1>7 DEF HandleNcuState
  <2>3. ev.e = "NCU_STATE"
    BY <2>1, Same
  <2> QED BY <2>1, <2>2, <2>3
<1>8. CASE HandleNcuAdd
  <2>1. PICK p \in Ncps : Unpost([e |-> "NCU_ADD", o |-> p])
    BY <1>8 DEF HandleNcuAdd
  <2>2. UNCHANGED ncpVars
    BY <1>8 DEF HandleNcuAdd
  <2> QED BY <1>0, <2>1, <2>2, Same
<1>g. CASE HandleGroup
  <2>1. PICK g \in Groups : Unpost([e |-> "GROUP", g |-> g])
    BY <1>g DEF HandleGroup
  <2>2. activeNcp' = activeNcp /\ goneNcp' = goneNcp
    BY <1>g DEF HandleGroup
  <2> QED BY <1>0, <2>1, <2>2, Same
<1> QED BY <1>1, <1>2, <1>3, <1>4, <1>5, <1>6, <1>7, <1>8, <1>g, ReadsNothing DEF Handler

LEMMA OnlyReloads ==
    ASSUME TypeOK, NEW ev, Unpost(ev), Handler, ev.e = "ACTIVE"
    PROVE  HandleActive
<1>1. ASSUME HandleError PROVE FALSE
  <2>1. Unpost([e |-> "ERROR"])
    BY <1>1 DEF HandleError
  <2> QED BY <2>1, Same
<1>2. ASSUME HandleAdd PROVE FALSE
  <2>1. PICK x \in Objs : Unpost([e |-> "ADD", o |-> x])
    BY <1>2 DEF HandleAdd
  <2> QED BY <2>1, Same
<1>3. ASSUME HandleRemove PROVE FALSE
  <2>1. PICK x \in Objs : Unpost([e |-> "REMOVE", o |-> x])
    BY <1>3 DEF HandleRemove
  <2> QED BY <2>1, Same
<1>4. ASSUME HandleRefresh PROVE FALSE
  <2>1. PICK x \in Objs : Unpost([e |-> "REFRESH", o |-> x])
    BY <1>4 DEF HandleRefresh
  <2> QED BY <2>1, Same
<1>5. ASSUME HandleState PROVE FALSE
  <2>1. PICK x \in Stateful, s \in States : Unpost([e |-> "STATE", o |-> x, s |-> s])
    BY <1>5 DEF HandleState
  <2> QED BY <2>1, Same
<1>6. ASSUME HandleNcuState PROVE FALSE
  <2>1. PICK p \in Ncps \cup {None}, s \in States, of \in Ncps :
           Unpost([e |-> "NCU_STATE", o |-> p, s |-> s, of |-> of])
    BY <1>6 DEF HandleNcuState
  <2> QED BY <2>1, Same
<1>7. ASSUME HandleNcuAdd PROVE FALSE
  <2>1. PICK p \in Ncps : Unpost([e |-> "NCU_ADD", o |-> p])
    BY <1>7 DEF HandleNcuAdd
  <2> QED BY <2>1, Same
<1>g. ASSUME HandleGroup PROVE FALSE
  <2>1. PICK g \in Groups : Unpost([e |-> "GROUP", g |-> g])
    BY <1>g DEF HandleGroup
  <2> QED BY <2>1, Same
<1> QED BY <1>1, <1>2, <1>3, <1>4, <1>5, <1>6, <1>7, <1>g, ReadsNothing DEF Handler

\* nwamd tells which object of a kind it has put online, and nothing else that
\* touches it while it is.
LEMMA ActiveChange ==
    ASSUME TypeOK, NwamdOK, NwamdOK', NEW ev \in Events, Change(ev), Means(ev),
           NEW K, K = Locs \/ K = Ncps, NEW o \in K, st'[o] = "online"
    PROVE  IF st[o] = "online" THEN ev \notin ActiveEvents(o, K)
           ELSE ev \in ActiveEvents(o, K) /\ ev \in ActiveSays(o)
<1>k. K \subseteq Stateful /\ AtMostOneOnline(K, exists', st')
  BY Kinded DEF NwamdOK
<1>t. st \in [Stateful -> States] /\ exists \subseteq Objs
  BY DEF TypeOK
<1>1. CASE st[o] = "online"
  <2>1. o \in exists
    BY <1>k, <1>1 DEF NwamdOK
  <2>2. ev.e = "ADD" \/ ev.e = "REMOVE" => ev.o # o
    BY <1>k, <1>t, <2>1 DEF Means
  <2>3. ev.e = "STATE" => ~(ev.o \in K /\ ev.s = "online")
    <3> SUFFICES ASSUME ev.e = "STATE", ev.o \in K, ev.s = "online" PROVE FALSE
      OBVIOUS
    <3>1. ev.o # o /\ st'[ev.o] = "online" /\ ev.o \in exists' /\ exists' = exists
      BY <1>k, <1>t, <1>1 DEF Means
    <3> QED BY <1>k, <2>1, <3>1 DEF AtMostOneOnline
  <2>4. ev.e # "ACTIVE"
    BY DEF Means
  <2> QED BY <1>1, <2>2, <2>3, <2>4 DEF ActiveEvents
<1>2. CASE st[o] # "online"
  <2>1. ev.e = "STATE" /\ ev.o = o /\ ev.s = "online"
    BY <1>k, <1>t, <1>2 DEF Means
  <2> QED BY <1>2, <2>1 DEF ActiveEvents, ActiveSays
<1> QED BY <1>1, <1>2

\* For either kind: act and gone are activeEnv and goneEnv, or activeNcp and
\* goneNcp, and act1 and gone1 what becomes of them.
LEMMA ActiveKept ==
    ASSUME TypeOK, NwamdOK, NwamdOK', OrderOK, ListsFollow, StatesFollow', Next,
           NEW K, OneByOne(K)',
           NEW act, NEW gone, NEW act1, NEW gone1,
           \/ K = Locs /\ act = activeEnv /\ gone = goneEnv /\ act1 = activeEnv' /\ gone1 = goneEnv'
           \/ K = Ncps /\ act = activeNcp /\ gone = goneNcp /\ act1 = activeNcp' /\ gone1 = goneNcp',
           ActiveFollows(K, act, gone)
    PROVE  ~unheard' => \A o \in K : st'[o] = "online" =>
             /\ Ends(q', ActiveEvents(o, K), ActiveSays(o))
             /\ NoneIn(q', ActiveEvents(o, K)) /\ ~partial' => act1 = o /\ gone1 = "no"
<1>k. K \subseteq Stateful /\ (K = Locs \/ K = Ncps)
  BY Kinded
<1> SUFFICES ASSUME ~unheard', NEW o \in K, st'[o] = "online"
             PROVE  /\ Ends(q', ActiveEvents(o, K), ActiveSays(o))
                    /\ NoneIn(q', ActiveEvents(o, K)) /\ ~partial' => act1 = o /\ gone1 = "no"
  OBVIOUS
<1>t. q \in Seq(Events) /\ st \in [Stateful -> States] /\ o \in Stateful
  BY <1>k DEF TypeOK
<1>f. ~unheard /\ st[o] = "online"
        => /\ Ends(q, ActiveEvents(o, K), ActiveSays(o))
           /\ NoneIn(q, ActiveEvents(o, K)) /\ ~partial => act = o /\ gone = "no"
  BY DEF ActiveFollows
<1>a. ASSUME NEW ev \in Events, q' = Append(q, ev), act1 = act, gone1 = gone, partial' = partial, ~unheard,
             ev \in ActiveEvents(o, K) => ev \in ActiveSays(o),
             ev \notin ActiveEvents(o, K) => st[o] = "online"
      PROVE  /\ Ends(q', ActiveEvents(o, K), ActiveSays(o))
             /\ NoneIn(q', ActiveEvents(o, K)) /\ ~partial' => act1 = o /\ gone1 = "no"
  <2>1. CASE ev \in ActiveEvents(o, K)
    <3>1. Ends(q', ActiveEvents(o, K), ActiveSays(o))
      BY <1>t, <1>a, <2>1, EndsAppend
    <3>2. ~NoneIn(q', ActiveEvents(o, K))
      BY <1>t, <1>a, <2>1, NoneAppend
    <3> QED BY <3>1, <3>2
  <2>2. CASE ev \notin ActiveEvents(o, K)
    <3>1. Ends(q', ActiveEvents(o, K), ActiveSays(o))
      BY <1>t, <1>f, <1>a, <2>2, EndsAppendOther
    <3>2. NoneIn(q', ActiveEvents(o, K)) => NoneIn(q, ActiveEvents(o, K))
      BY <1>t, <1>a, NoneAppend
    <3> QED BY <1>f, <1>a, <2>2, <3>1, <3>2
  <2> QED BY <2>1, <2>2
<1>1. CASE Nwamd
  <2>1. PICK ev \in Events : Change(ev) /\ Means(ev)
    BY <1>1, NwamdSteps
  <2>2. q' = Append(q, ev) /\ act1 = act /\ gone1 = gone /\ partial' = partial /\ ~unheard
    BY <2>1, ChangeFacts DEF uiVars
  <2>3. IF st[o] = "online" THEN ev \notin ActiveEvents(o, K)
        ELSE ev \in ActiveEvents(o, K) /\ ev \in ActiveSays(o)
    BY <1>k, <2>1, ActiveChange
  <2> QED BY <1>a, <2>2, <2>3
<1>2. CASE Connect
  <2>1. act1 = act /\ gone1 = gone /\ partial' = partial /\ ~unheard /\ q' = Append(q, [e |-> "ACTIVE"])
    BY <1>2 DEF Connect, uiVars
  <2>2. [e |-> "ACTIVE"] \in ActiveEvents(o, K) /\ [e |-> "ACTIVE"] \in ActiveSays(o)
    BY EventFields DEF ActiveEvents, ActiveSays
  <2> QED BY <1>a, <2>1, <2>2, EventFields
<1>3. CASE Disconnect
  <2>1. act1 = act /\ gone1 = gone /\ UNCHANGED <<partial, st>> /\ ~unheard /\ q' = Append(q, [e |-> "ERROR"])
    BY <1>3 DEF Disconnect, uiVars, nwamdVars
  <2>2. [e |-> "ERROR"] \notin ActiveEvents(o, K)
    BY DEF ActiveEvents
  <2> QED BY <1>a, <2>1, <2>2, EventFields
<1>4. ASSUME NEW ev, Unpost(ev), Handler
      PROVE  /\ Ends(q', ActiveEvents(o, K), ActiveSays(o))
             /\ NoneIn(q', ActiveEvents(o, K)) /\ ~partial' => act1 = o /\ gone1 = "no"
  <2>1. /\ q # <<>> /\ Head(q) = ev /\ q' = Tail(q) /\ ev \in Events
        /\ st' = st /\ exists' = exists
    BY <1>4, UnpostFacts
  <2>2. ~unheard
    BY <1>4, UnpostFacts
  <2>3. /\ Ends(q', ActiveEvents(o, K), ActiveSays(o))
        /\ NoneIn(q', ActiveEvents(o, K)) =>
             \/ NoneIn(q, ActiveEvents(o, K))
             \/ ev \in ActiveEvents(o, K) /\ ev \in ActiveSays(o)
    BY <1>t, <1>f, <2>1, <2>2, EndsTail
  <2>4. /\ ev \notin ActiveEvents(o, K) /\ act = o /\ gone = "no" => act1 = o /\ gone1 = "no"
        /\ ev.e = "STATE" /\ ev.o = o /\ ev.s = "online" /\ o \in managed => act1 = o /\ gone1 = "no"
    BY <1>4, HandlerEnv, HandlerNcp
  <2> SUFFICES ASSUME NoneIn(q', ActiveEvents(o, K)), ~partial' PROVE act1 = o /\ gone1 = "no"
    BY <2>3
  <2>5. CASE NoneIn(q, ActiveEvents(o, K))
    <3>1. ev \notin ActiveEvents(o, K)
      BY <1>t, <2>1, <2>5, NoneTail
    <3>2. ev.e # "ACTIVE"
      BY <2>1, <3>1 DEF ActiveEvents
    <3>3. partial' = partial
      BY <1>4, <3>2, Connected
    <3> QED BY <1>f, <2>1, <2>2, <2>4, <2>5, <3>1, <3>3
  <2>6. CASE ev \in ActiveEvents(o, K) /\ ev \in ActiveSays(o)
    <3>1. CASE ev.e = "ACTIVE"
      <4>1. HandleActive
        BY <1>4, <3>1, OnlyReloads
      <4>2. PICK complete \in SUBSET Kinds : \E seen \in SUBSET exists :
               /\ \A L \in complete : exists \cap L \subseteq seen
               /\ Reload(seen, complete)
               /\ partial' = (complete # Kinds)
        BY <4>1 DEF HandleActive
      <4>3. complete = Kinds
        BY <4>2
      <4>4. PICK seen \in SUBSET exists :
               (\A L \in Kinds : exists \cap L \subseteq seen) /\ Reload(seen, Kinds)
        BY <4>2, <4>3
      <4>5. o \in seen /\ \A x \in seen \cap K : cached'[x] = "online" <=> x = o
        BY <1>k, <2>1, <4>4, ReloadFinds
      <4> QED BY <4>4, <4>5, ReloadActive
    <3>2. CASE ev.e # "ACTIVE"
      <4>1. ev.e = "STATE" /\ ev.o = o /\ ev.s = "online"
        BY <2>6, <3>2 DEF ActiveEvents, ActiveSays
      <4>2. NoneIn(q, ListEvents(o))
        <5>1. ListEvents(o) \subseteq ActiveEvents(o, K)
          BY DEF ListEvents, ActiveEvents
        <5>2. NoneIn(q', ListEvents(o))
          BY <5>1 DEF NoneIn
        <5>3. ev \notin ListEvents(o)
          BY <4>1 DEF ListEvents
        <5> QED BY <1>t, <2>1, <5>2, <5>3, NoneTail
      <4>3. ~partial
        BY <1>4, <3>2, Connected
      <4>4. o \in Objs /\ o \in exists
        BY <1>t, <2>1, Kinded DEF NwamdOK
      <4>5. o \in managed
        BY <2>2, <4>2, <4>3, <4>4 DEF ListsFollow
      <4> QED BY <2>4, <4>1, <4>5
    <3> QED BY <3>1, <3>2
  <2> QED BY <2>3, <2>5, <2>6
<1>5. ASSUME NEW y \in Stateful, ReadState(y)
      PROVE  /\ Ends(q', ActiveEvents(o, K), ActiveSays(o))
             /\ NoneIn(q', ActiveEvents(o, K)) /\ ~partial' => act1 = o /\ gone1 = "no"
  <2>1. act1 = act /\ gone1 = gone /\ UNCHANGED <<q, st, partial, unheard>>
    BY <1>5 DEF ReadState, nwamdVars, envVars, ncpVars
  <2> QED BY <1>f, <2>1
<1> QED BY <1>1, <1>2, <1>3, <1>4, <1>5, HandlerSteps DEF Next

-----------------------------------------------------------------------------
(* The theorems.                                                           *)

DaemonInv ==
    /\ TypeOK /\ NwamdOK /\ CacheOK /\ StatusIsCurrent /\ OrderOK
    /\ ListsFollow /\ CountFollows /\ StatesFollow /\ NcusFollow
    /\ OneByOne(Locs) /\ OneByOne(Ncps)
    /\ ActiveFollows(Locs, activeEnv, goneEnv) /\ ActiveFollows(Ncps, activeNcp, goneNcp)

LEMMA DaemonStep == DaemonInv /\ [Next]_vars => DaemonInv'
<1> SUFFICES ASSUME DaemonInv, [Next]_vars PROVE DaemonInv'
  OBVIOUS
<1>i. /\ TypeOK /\ NwamdOK /\ CacheOK /\ StatusIsCurrent /\ OrderOK
      /\ ListsFollow /\ CountFollows /\ StatesFollow /\ NcusFollow
      /\ OneByOne(Locs) /\ OneByOne(Ncps)
      /\ ActiveFollows(Locs, activeEnv, goneEnv) /\ ActiveFollows(Ncps, activeNcp, goneNcp)
  BY DEF DaemonInv
<1>1. CASE Next
  <2>1. TypeOK' /\ NwamdOK' /\ CacheOK' /\ StatusIsCurrent' /\ OrderOK'
    BY <1>i, <1>1, NextType, NwamdKept, CacheKept, StatusKept, OrderKept
  <2>2. ListsFollow' /\ CountFollows' /\ StatesFollow' /\ NcusFollow'
    BY <1>i, <1>1, ListsKept, CountKept, StatesKept, NcusKept
  <2>3. OneByOne(Locs)' /\ OneByOne(Ncps)'
    BY <1>i, <1>1, <2>1, OneByOneKept
  <2>4. ActiveFollows(Locs, activeEnv, goneEnv)'
    BY <1>i, <1>1, <2>1, <2>2, <2>3, ActiveKept DEF ActiveFollows
  <2>5. ActiveFollows(Ncps, activeNcp, goneNcp)'
    BY <1>i, <1>1, <2>1, <2>2, <2>3, ActiveKept DEF ActiveFollows
  <2> QED BY <2>1, <2>2, <2>3, <2>4, <2>5 DEF DaemonInv
<1>2. CASE UNCHANGED vars
  <2>1. /\ UNCHANGED <<exists, st, ncuUp, prio, changes, sub, losses, q, conn, managed, cached>>
        /\ UNCHANGED <<ncu, activeEnv, goneEnv, activeNcp, goneNcp, enmNum, status, partial, unheard>>
        /\ UNCHANGED <<group, goneGroup, late>>
    BY <1>2 DEF vars
  <2>2. TypeOK' /\ NwamdOK' /\ CacheOK' /\ StatusIsCurrent' /\ OrderOK'
    BY <1>i, <2>1 DEF TypeOK, NwamdOK, CacheOK, StatusIsCurrent, Group, OrderOK
  <2>3. ListsFollow' /\ CountFollows' /\ StatesFollow' /\ NcusFollow'
    BY <1>i, <2>1 DEF ListsFollow, CountFollows, Counted, ActiveEnms, StatesFollow, NcusFollow
  <2>4. OneByOne(Locs)' /\ OneByOne(Ncps)'
    BY <1>i, <2>1 DEF OneByOne
  <2>5. ActiveFollows(Locs, activeEnv, goneEnv)' /\ ActiveFollows(Ncps, activeNcp, goneNcp)'
    BY <1>i, <2>1 DEF ActiveFollows
  <2> QED BY <2>2, <2>3, <2>4, <2>5 DEF DaemonInv
<1> QED BY <1>1, <1>2

LEMMA DaemonStart == Init => DaemonInv
<1> SUFFICES ASSUME Init PROVE DaemonInv
  OBVIOUS
<1>t. TypeOK
  BY InitType
<1>q. /\ q = <<>> /\ sub = FALSE /\ conn = FALSE /\ unheard = FALSE
      /\ goneEnv = "no" /\ goneNcp = "no" /\ status = "ERROR" /\ late = FALSE
  BY DEF Init
<1>n. \A C : NoneIn(q, C)
  BY <1>q, NoneOfEmpty
<1>e. \A C, A : Ends(q, C, A)
  BY <1>n DEF Ends
<1>m. /\ partial = (managed # exists)
      /\ exists \subseteq Objs /\ managed \subseteq exists
      /\ \A o \in Stateful : cached[o] = IF o \in managed THEN st[o] ELSE "uninit"
      /\ \A p \in Ncps : ncu[p] = IF p \in managed THEN ncuUp[p] ELSE "none"
  BY DEF Init
<1>s. \A o \in Stateful : st[o] # "uninit"
  BY <1>t DEF TypeOK, States
<1>w. /\ System \subseteq exists /\ \A o \in Stateful \ exists : st[o] = "offline"
      /\ AtMostOneOnline(Locs, exists, st) /\ AtMostOneOnline(Ncps, exists, st)
  BY DEF Init
<1>l. IF {o \in managed \cap Locs : st[o] = "online"} = {} THEN activeEnv = None
      ELSE activeEnv \in managed \cap Locs /\ st[activeEnv] = "online"
  BY DEF Init
<1>p. IF {o \in managed \cap Ncps : st[o] = "online"} = {} THEN activeNcp = None
      ELSE activeNcp \in managed \cap Ncps /\ st[activeNcp] = "online"
  BY DEF Init
<1>1. NwamdOK
  BY <1>n, <1>w DEF NwamdOK
<1>2. CacheOK
  <2>1. activeEnv # None => activeEnv \in managed /\ cached[activeEnv] # "uninit"
    BY <1>l, <1>m, <1>s, Kinded
  <2> QED BY <1>m, <2>1 DEF CacheOK
<1>3. StatusIsCurrent
  BY <1>q DEF StatusIsCurrent, StatusOf
<1>4. OrderOK
  BY <1>q DEF OrderOK
<1>5. ListsFollow
  BY <1>e, <1>m DEF ListsFollow
<1>6. CountFollows
  BY <1>q DEF CountFollows
<1>7. StatesFollow
  BY <1>e, <1>m DEF StatesFollow
<1>8. NcusFollow
  BY <1>e, <1>m DEF NcusFollow
<1>9. ASSUME NEW K, K = Locs \/ K = Ncps PROVE OneByOne(K)
  <2> SUFFICES ASSUME NEW o \in K, NEW x \in K, o # x, st[o] = "online"
               PROVE  /\ x \in managed /\ cached[x] = "online" => Before(q, Down(x), Up(o))
                      /\ Chain(q, Up(x), Down(x), Up(o))
    BY DEF OneByOne
  <2>1. Chain(q, Up(x), Down(x), Up(o))
    BY <1>q DEF Chain
  <2>2. st[x] # "online" /\ x \in Stateful
    BY <1>w, <1>9, Kinded, OneOnline
  <2> QED BY <1>m, <2>1, <2>2
<1>10. ASSUME NEW K, NEW act, K = Locs \/ K = Ncps, AtMostOneOnline(K, exists, st),
              IF {o \in managed \cap K : st[o] = "online"} = {} THEN act = None
              ELSE act \in managed \cap K /\ st[act] = "online"
       PROVE  ActiveFollows(K, act, "no")
  <2> SUFFICES ASSUME NEW o \in K, st[o] = "online", ~partial PROVE act = o
    BY <1>e DEF ActiveFollows
  <2>1. o \in managed /\ o \in exists /\ managed = exists
    BY <1>m, <1>w, <1>10, Kinded
  <2>2. act \in exists \cap K /\ st[act] = "online"
    BY <1>10, <2>1
  <2> QED BY <1>10, <2>1, <2>2 DEF AtMostOneOnline
<1>11. ActiveFollows(Locs, activeEnv, goneEnv) /\ ActiveFollows(Ncps, activeNcp, goneNcp)
  BY <1>l, <1>p, <1>q, <1>w, <1>10
<1> QED BY <1>t, <1>1, <1>2, <1>3, <1>4, <1>5, <1>6, <1>7, <1>8, <1>9, <1>11 DEF DaemonInv

LEMMA InvLists == DaemonInv => ListsConverge
<1> SUFFICES ASSUME DaemonInv, Quiet
             PROVE  /\ ~partial => managed = exists
                    /\ enmNum = Cardinality({o \in managed \cap Enms : cached[o] = "online"})
  BY DEF DaemonInv, ListsConverge
<1>1. sub /\ \A C : NoneIn(q, C)
  BY NoneOfEmpty DEF Quiet
<1>2. ASSUME ~partial PROVE managed = exists
  <2>1. \A o \in Objs : o \in managed <=> o \in exists
    BY <1>1, <1>2 DEF DaemonInv, ListsFollow
  <2> QED BY <2>1 DEF DaemonInv, TypeOK
<1>3. Counted
  BY <1>1 DEF DaemonInv, CountFollows
<1> QED BY <1>2, <1>3 DEF Counted, ActiveEnms

LEMMA InvStates == DaemonInv => StatesConverge
<1> SUFFICES ASSUME DaemonInv, Quiet, ~partial, ~unheard
             PROVE  /\ \A o \in Stateful \cap managed : cached[o] \in {st[o], "uninit"}
                    /\ \A p \in Ncps \cap managed : ncu[p] \in {ncuUp[p], "none"}
                    /\ \A o \in Locs : st[o] = "online" => activeEnv = o /\ goneEnv = "no"
                    /\ \A o \in Ncps : st[o] = "online" => activeNcp = o /\ goneNcp = "no"
  BY DEF StatesConverge
<1>1. \A C : NoneIn(q, C)
  BY NoneOfEmpty DEF Quiet
<1>2. \A o \in Stateful \cap managed : cached[o] \in {st[o], "uninit"}
  BY <1>1 DEF DaemonInv, StatesFollow
<1>3. \A p \in Ncps \cap managed : ncu[p] \in {ncuUp[p], "none"}
  BY <1>1 DEF DaemonInv, NcusFollow
<1>4. /\ \A o \in Locs : st[o] = "online" => activeEnv = o /\ goneEnv = "no"
      /\ \A o \in Ncps : st[o] = "online" => activeNcp = o /\ goneNcp = "no"
  BY <1>1 DEF DaemonInv, ActiveFollows
<1> QED BY <1>2, <1>3, <1>4

LEMMA DaemonAlways == Spec => []DaemonInv
BY DaemonStart, DaemonStep, PTL DEF Spec

\* Whichever handler ran last, the status the daemon shows is what the states
\* and the active objects make of it with the priority group of the active NCP;
\* if a change of that group was handled since the status was computed, then with
\* some group (nwamui_daemon_update_status, which every handler of nwamd_event_handler
\* but that of NWAM_EVENT_TYPE_PRIORITY_GROUP calls).
THEOREM StatusCurrent == Spec => []StatusIsCurrent
<1>1. DaemonInv => StatusIsCurrent
  BY DEF DaemonInv
<1> QED BY <1>1, DaemonAlways, PTL

\* When every event posted is handled the lists hold nwamd's objects, unless a
\* walk failed, and the number counts the active external modifiers, whatever
\* was lost or overtaken before (nwamui_object_real_reload).
THEOREM ListsCorrect == Spec => []ListsConverge
BY InvLists, DaemonAlways, PTL

\* If besides no change went unheard then what is cached is what nwamd has, and
\* the objects it has online are the active ones
\* (nwamui_daemon_handle_object_state_event).
THEOREM StatesCorrect == Spec => []StatesConverge
BY InvStates, DaemonAlways, PTL

-----------------------------------------------------------------------------
(* The event thread (NwamEventThread): how the news of nwamd arrive.       *)

\* The record sets of idle sources and how to tell their members apart.
LEMMA InfoFields ==
    ASSUME NEW e \in {"ACTIVE", "INACTIVE", "ERROR"}
    PROVE  Info(e) \in UiEvents /\ Info(e).e = e
BY DEF Info, UiEvents, InfoEvents

LEMMA RawFields ==
    ASSUME NEW ev \in NwamEvents
    PROVE  Raw(ev) \in UiEvents /\ Raw(ev).e = "RAW" /\ Raw(ev).ev = ev
BY DEF Raw, UiEvents, RawEvents

LEMMA RawCarriesEvent ==
    ASSUME NEW x \in UiEvents, x.e = "RAW"
    PROVE  x.ev \in NwamEvents
BY DEF UiEvents, InfoEvents, RawEvents

LEMMA TailLast ==
    ASSUME NEW S, NEW s \in Seq(S), s # <<>>
    PROVE  /\ Tail(s) # <<>> => Tail(s)[Len(Tail(s))] = s[Len(s)]
           /\ Tail(s) = <<>> => Head(s) = s[Len(s)]
<1>0. /\ Tail(s) \in Seq(S) /\ Head(s) = s[1]
      /\ Len(s) \in Nat /\ Len(s) > 0 /\ Len(Tail(s)) = Len(s) - 1
      /\ \A i \in 1 .. Len(Tail(s)) : Tail(s)[i] = s[i + 1]
  BY TailFacts
<1>1. ASSUME Tail(s) # <<>> PROVE Tail(s)[Len(Tail(s))] = s[Len(s)]
  <2>1. Len(Tail(s)) # 0
    BY <1>0, <1>1
  <2>2. Len(Tail(s)) \in 1 .. Len(Tail(s))
    BY <1>0, <2>1
  <2>3. Tail(s)[Len(Tail(s))] = s[Len(Tail(s)) + 1]
    BY <1>0, <2>2
  <2>4. Len(Tail(s)) + 1 = Len(s)
    BY <1>0
  <2> QED BY <2>3, <2>4
<1>2. ASSUME Tail(s) = <<>> PROVE Head(s) = s[Len(s)]
  <2>1. Len(<<>>) = 0
    OBVIOUS
  <2>2. Len(s) \in Nat /\ 0 = Len(s) - 1
    BY <1>0, <1>2, <2>1
  <2>3. Len(s) = 1
    BY <2>2
  <2> QED BY <1>0, <2>3
<1> QED BY <1>1, <1>2

\* Emit appends the event to the channel of a subscribed client.
LEMMA EmitType ==
    ASSUME chan \in Seq(NwamEvents), subscribed \in BOOLEAN,
           NEW t \in {"INIT", "SHUTDOWN", "OBJECT_ACTION"}, NEW v \in Versions,
           Emit(t, v)
    PROVE  /\ chan' \in Seq(NwamEvents)
           /\ ~subscribed => chan' = chan
           /\ subscribed => /\ Len(chan') = Len(chan) + 1
                     /\ chan'[Len(chan')] = [type |-> t, ver |-> v]
                     /\ chan' # <<>>
<1> DEFINE ev == [type |-> t, ver |-> v]
<1>1. ev \in NwamEvents
  BY DEF NwamEvents
<1> HIDE DEF ev
<1>2. chan' = IF subscribed THEN Append(chan, ev) ELSE chan
  BY DEF Emit, ev
<1>3. chan' \in Seq(NwamEvents)
  BY <1>1, <1>2
<1>4. ~subscribed => chan' = chan
  BY <1>2
<1>5. ASSUME subscribed
      PROVE  Len(chan') = Len(chan) + 1 /\ chan'[Len(chan')] = ev /\ chan' # <<>>
  BY <1>1, <1>2, <1>5
<1> QED BY <1>3, <1>4, <1>5 DEF ev

-----------------------------------------------------------------------------
(* Type correctness.                                                       *)

LEMMA ThreadInitType == ThreadInit => EventsTypeOK
<1> SUFFICES ASSUME ThreadInit PROVE EventsTypeOK
  OBVIOUS
<1> USE FaultsAssumption DEF ThreadInit, Versions
<1>1. held \in NwamEvents
  BY DEF NwamEvents
<1>2. chan \in Seq(NwamEvents) /\ idleq \in Seq(UiEvents)
  OBVIOUS
<1>3. ver \in Versions /\ view \in Versions /\ faults \in 0 .. MaxFaults
  OBVIOUS
<1> QED BY <1>1, <1>2, <1>3 DEF EventsTypeOK

LEMMA NwamdTypeOK == EventsTypeOK /\ NwamdActs => EventsTypeOK'
<1> SUFFICES ASSUME EventsTypeOK, NwamdActs PROVE EventsTypeOK'
  OBVIOUS
<1>1. /\ UNCHANGED <<pc, held, tconn, initDone, idleq, uiConn, view>>
      /\ nwamd' \in {"up", "down"}
      /\ subscribed' \in BOOLEAN
  BY DEF NwamdActs, NwamdChange, NwamdShutdown, NwamdStart, NwamdCrash, EventsTypeOK,
         threadVars, shownVars
<1>2. faults' \in 0 .. MaxFaults
  BY FaultsAssumption
     DEF NwamdActs, NwamdChange, NwamdShutdown, NwamdStart, NwamdCrash, EventsTypeOK
<1>3. ver' \in Versions
  BY FaultsAssumption
     DEF NwamdActs, NwamdChange, NwamdShutdown, NwamdStart, NwamdCrash, EventsTypeOK,
         Versions
<1>4. chan' \in Seq(NwamEvents)
  <2> USE DEF EventsTypeOK
  <2>1. CASE NwamdChange
    BY <2>1, <1>3, EmitType DEF NwamdChange
  <2>2. CASE NwamdShutdown
    BY <2>2, EmitType DEF NwamdShutdown
  <2>3. CASE NwamdStart
    BY <2>3, EmitType DEF NwamdStart
  <2>4. CASE NwamdCrash
    BY <2>4 DEF NwamdCrash
  <2> QED BY <2>1, <2>2, <2>3, <2>4 DEF NwamdActs
<1> QED BY <1>1, <1>2, <1>3, <1>4 DEF EventsTypeOK

LEMMA ThreadTypeOK == EventsTypeOK /\ Thread => EventsTypeOK'
<1> SUFFICES ASSUME EventsTypeOK, Thread PROVE EventsTypeOK'
  OBVIOUS
<1>a. /\ Append(idleq, Info("ACTIVE")) \in Seq(UiEvents)
      /\ Append(idleq, Info("ERROR")) \in Seq(UiEvents)
      /\ Append(idleq, Raw(held)) \in Seq(UiEvents)
  BY InfoFields, RawFields, AppendFacts DEF EventsTypeOK
<1>b. chan # <<>> => Tail(chan) \in Seq(NwamEvents) /\ Head(chan) \in NwamEvents
  BY TailFacts DEF EventsTypeOK
<1>c. <<>> \in Seq(NwamEvents)
  OBVIOUS
<1>1. CASE ThreadStart
  BY <1>1, <1>a, <1>c DEF ThreadStart, Subscribes, EventsTypeOK, shownVars
<1>2. CASE WaitReturns
  BY <1>2, <1>a, <1>b DEF WaitReturns, EventsTypeOK, shownVars
<1>3. CASE PostRaw
  BY <1>3, <1>a DEF PostRaw, EventsTypeOK, serverVars, shownVars
<1>4. CASE WaitFails
  <2>1. faults' \in 0 .. MaxFaults
    BY <1>4, FaultsAssumption DEF WaitFails, WaitError, EventsTypeOK
  <2> QED BY <1>4, <1>a, <2>1 DEF WaitFails, EventsTypeOK, shownVars
<1>5. CASE RetryReturns
  BY <1>5, <1>b DEF RetryReturns, EventsTypeOK, shownVars
<1>6. CASE RetryFails
  <2>1. faults' \in 0 .. MaxFaults
    BY <1>6, FaultsAssumption DEF RetryFails, WaitError, EventsTypeOK
  <2> QED BY <1>6, <1>c, <2>1 DEF RetryFails, EventsTypeOK, shownVars
<1>7. CASE Reconnect
  BY <1>7, <1>a, <1>c DEF Reconnect, Subscribes, EventsTypeOK, shownVars
<1> QED BY <1>1, <1>2, <1>3, <1>4, <1>5, <1>6, <1>7 DEF Thread

LEMMA MainLoopTypeOK == EventsTypeOK /\ MainLoop => EventsTypeOK'
<1> SUFFICES ASSUME EventsTypeOK, MainLoop PROVE EventsTypeOK'
  OBVIOUS
<1>1. /\ UNCHANGED <<nwamd, ver, subscribed, chan, faults, pc, held, tconn, initDone>>
      /\ uiConn' \in BOOLEAN
  BY DEF MainLoop, HandleInfoActive, HandleInfoInactive, HandleRedispatch,
         HandleObjectAction, EventsTypeOK, serverVars, threadVars, shownVars
<1>2. idleq' \in Seq(UiEvents)
  <2>1. Tail(idleq) \in Seq(UiEvents) \/ idleq = <<>>
    BY TailFacts DEF EventsTypeOK
  <2>2. \A t : Info(Redispatched(t)) \in UiEvents
    BY InfoFields DEF Redispatched
  <2> QED
    BY <2>1, <2>2
       DEF MainLoop, HandleInfoActive, HandleInfoInactive, HandleRedispatch,
           HandleObjectAction, OldestIs
<1>3. view' \in Versions
  <2>1. \A ev \in NwamEvents : ev.ver \in Versions
    BY DEF NwamEvents
  <2> QED
    BY <2>1
       DEF MainLoop, HandleInfoActive, HandleInfoInactive, HandleRedispatch,
           HandleObjectAction, EventsTypeOK, shownVars
<1> QED BY <1>1, <1>2, <1>3 DEF EventsTypeOK

LEMMA ThreadNextType == EventsTypeOK /\ [ThreadNext]_eventVars => EventsTypeOK'
<1>1. EventsTypeOK /\ UNCHANGED eventVars => EventsTypeOK'
  BY DEF EventsTypeOK, eventVars, serverVars, threadVars, shownVars
<1> QED BY <1>1, NwamdTypeOK, ThreadTypeOK, MainLoopTypeOK DEF ThreadNext

\* Every variable keeps its type, whatever nwamd does.
THEOREM EventsTypeCorrect == ThreadSpec => []EventsTypeOK
<1> QED BY ThreadInitType, ThreadNextType, PTL DEF ThreadSpec

-----------------------------------------------------------------------------
(* The inductive invariant.                                                *)

LEMMA EventsStart == ThreadInit => EventsInv
<1> SUFFICES ASSUME ThreadInit PROVE EventsInv
  OBVIOUS
<1>1. EventsTypeOK
  BY ThreadInitType
<1>2. ThreadInv /\ ChannelInv /\ PostedInv
  BY DEF ThreadInit, ThreadInv, ChannelInv, PostedInv, Settled
<1> QED BY <1>1, <1>2 DEF EventsInv

\* nwamd touches neither the thread nor what is posted; it only adds to the
\* channel or breaks it.
LEMMA NwamdKeeps == EventsInv /\ NwamdActs => EventsInv'
<1> SUFFICES ASSUME EventsInv, NwamdActs PROVE EventsInv'
  OBVIOUS
<1>1. EventsTypeOK /\ EventsTypeOK'
  BY NwamdTypeOK DEF EventsInv
<1>2. ThreadInv'
  BY DEF EventsInv, ThreadInv, NwamdActs, NwamdChange, NwamdShutdown, NwamdStart,
         NwamdCrash, threadVars
<1>3. CASE NwamdChange
  <2>1. /\ subscribed' = subscribed /\ nwamd' = "up" /\ ver' = ver + 1
        /\ Emit("OBJECT_ACTION", ver + 1) /\ ver + 1 \in Versions
    BY <1>1, <1>3 DEF NwamdChange, EventsTypeOK
  <2>2. /\ ~subscribed => chan' = chan
        /\ subscribed => /\ chan' # <<>>
                  /\ chan'[Len(chan')] = [type |-> "OBJECT_ACTION", ver |-> ver + 1]
    BY <2>1, <1>1, EmitType DEF EventsTypeOK
  <2>3. ChannelInv'
    BY <2>1, <2>2 DEF EventsInv, ChannelInv
  <2>4. PostedInv'
    BY <2>1, <2>2 DEF PostedInv, Settled
  <2> QED BY <1>1, <1>2, <2>3, <2>4 DEF EventsInv
<1>4. CASE NwamdShutdown
  <2>1. /\ subscribed' = subscribed /\ ver' = ver
        /\ Emit("SHUTDOWN", ver) /\ ver \in Versions
    BY <1>1, <1>4 DEF NwamdShutdown, EventsTypeOK
  <2>2. /\ ~subscribed => chan' = chan
        /\ subscribed => /\ chan' # <<>>
                  /\ chan'[Len(chan')] = [type |-> "SHUTDOWN", ver |-> ver]
    BY <2>1, <1>1, EmitType DEF EventsTypeOK
  <2>3. ChannelInv'
    BY <2>1, <2>2 DEF EventsInv, ChannelInv
  <2>4. PostedInv'
    BY <2>1, <2>2 DEF PostedInv, Settled
  <2> QED BY <1>1, <1>2, <2>3, <2>4 DEF EventsInv
<1>5. CASE NwamdStart
  <2>1. /\ UNCHANGED <<subscribed, ver, pc, held, tconn, idleq, uiConn, view>>
        /\ nwamd' = "up"
        /\ Emit("INIT", ver) \/ chan' = chan
        /\ ver \in Versions
    BY <1>1, <1>5 DEF NwamdStart, EventsTypeOK, threadVars, shownVars
  <2>2. \/ chan' = chan
        \/ /\ subscribed
           /\ chan' # <<>>
           /\ chan'[Len(chan')] = [type |-> "INIT", ver |-> ver]
    BY <2>1, <1>1, EmitType DEF EventsTypeOK
  <2>3. ChannelInv'
    BY <2>1, <2>2 DEF EventsInv, ChannelInv
  <2>4. PostedInv'
    BY <2>1, <2>2 DEF EventsInv, PostedInv, Settled, RefreshPosted, IsRefresh, Refreshes
  <2> QED BY <1>1, <1>2, <2>3, <2>4 DEF EventsInv
<1>6. CASE NwamdCrash
  <2>1. ChannelInv' /\ PostedInv'
    BY <1>6 DEF NwamdCrash, ChannelInv, PostedInv, Settled
  <2> QED BY <1>1, <1>2, <2>1 DEF EventsInv
<1> QED BY <1>3, <1>4, <1>5, <1>6 DEF NwamdActs

\* When the newest idle source brings the user interface up to date, so does
\* the queue from every position on.
LEMMA EndsFresh ==
    ASSUME idleq' \in Seq(UiEvents), idleq' # <<>>,
           IsRefresh(idleq[Len(idleq)])'
    PROVE  PostedInv'
<1>1. Len(idleq') \in Nat /\ Len(idleq') >= 1
  OBVIOUS
<1>2. \A i \in 1 .. Len(idleq') : RefreshPosted(i)'
  BY <1>1 DEF RefreshPosted
<1> QED BY <1>1, <1>2 DEF PostedInv

\* Posting ACTIVE settles everything.
LEMMA PostActive ==
    ASSUME EventsTypeOK, idleq' = Append(idleq, Info("ACTIVE"))
    PROVE  PostedInv'
<1>1. /\ idleq' \in Seq(UiEvents) /\ idleq' # <<>>
      /\ idleq'[Len(idleq')] = Info("ACTIVE")
  BY InfoFields, AppendFacts DEF EventsTypeOK
<1>2. IsRefresh(idleq[Len(idleq)])'
  BY <1>1, InfoFields DEF IsRefresh
<1> QED BY <1>1, <1>2, EndsFresh

LEMMA ThreadKeeps == EventsInv /\ Thread => EventsInv'
<1> SUFFICES ASSUME EventsInv, Thread PROVE EventsInv'
  OBVIOUS
<1>0. EventsTypeOK /\ EventsTypeOK' /\ ThreadInv /\ ChannelInv
  BY ThreadTypeOK DEF EventsInv
<1>1. CASE ThreadStart
  <2>1. ThreadInv' /\ ChannelInv'
    BY <1>1, <1>0 DEF ThreadStart, Subscribes, ThreadInv, ChannelInv
  <2>2. CASE idleq' = Append(idleq, Info("ACTIVE"))
    BY <2>1, <2>2, <1>0, PostActive DEF EventsInv
  <2>3. CASE tconn' = tconn
    BY <2>1, <2>3, <1>1, <1>0 DEF EventsInv, ThreadStart, ThreadInv, PostedInv, Settled
  <2> QED BY <2>2, <2>3, <1>1 DEF ThreadStart
<1>2. CASE WaitReturns
  <2>0. /\ chan # <<>> /\ subscribed /\ UNCHANGED <<nwamd, ver, subscribed>>
        /\ pc' = "post" /\ held' = Head(chan) /\ chan' = Tail(chan)
        /\ tconn' = (Head(chan).type # "SHUTDOWN")
    BY <1>2 DEF WaitReturns
  <2>1. ThreadInv'
    BY <2>0 DEF ThreadInv
  <2>2. chan \in Seq(NwamEvents)
    BY <1>0 DEF EventsTypeOK
  <2>3. /\ Tail(chan) # <<>> => Tail(chan)[Len(Tail(chan))] = chan[Len(chan)]
        /\ Tail(chan) = <<>> => Head(chan) = chan[Len(chan)]
    BY <2>0, <2>2, TailLast
  <2>4. ChannelInv'
    BY <2>0, <2>3, <1>0 DEF ChannelInv
  <2>5. PostedInv'
    BY <2>0 DEF PostedInv, Settled
  <2> QED BY <1>0, <2>1, <2>4, <2>5 DEF EventsInv
<1>3. CASE PostRaw
  <2>1. ThreadInv' /\ ChannelInv'
    BY <1>3, <1>0 DEF PostRaw, serverVars, ThreadInv, ChannelInv
  <2>2. PostedInv'
    <3> SUFFICES ASSUME Settled' PROVE PostedInv'
      BY DEF PostedInv
    <3>1. /\ subscribed /\ tconn /\ chan = <<>> /\ pc = "post" /\ ver' = ver
          /\ idleq' = Append(idleq, Raw(held))
      BY <1>3 DEF PostRaw, Settled, serverVars
    <3>2. held \in NwamEvents /\ held.ver = ver /\ held.type # "SHUTDOWN"
      BY <3>1, <1>0 DEF EventsTypeOK, ThreadInv, ChannelInv
    <3>3. /\ idleq' \in Seq(UiEvents) /\ idleq' # <<>>
          /\ idleq'[Len(idleq')] = Raw(held)
      BY <3>1, <3>2, <1>0, RawFields, AppendFacts DEF EventsTypeOK
    <3>4. IsRefresh(idleq[Len(idleq)])'
      BY <3>1, <3>2, <3>3, RawFields DEF IsRefresh, Refreshes
    <3> QED BY <3>3, <3>4, EndsFresh
  <2> QED BY <1>0, <2>1, <2>2 DEF EventsInv
<1>4. CASE WaitFails
  <2>1. ThreadInv' /\ ChannelInv' /\ PostedInv'
    BY <1>4, <1>0 DEF WaitFails, ThreadInv, ChannelInv, PostedInv, Settled
  <2> QED BY <1>0, <2>1 DEF EventsInv
<1>5. CASE RetryReturns
  <2>0. /\ chan # <<>> /\ subscribed /\ UNCHANGED <<nwamd, ver, subscribed, tconn>>
        /\ pc = "retry" /\ pc' = "wait" /\ chan' = Tail(chan)
    BY <1>5 DEF RetryReturns
  <2>1. ~tconn /\ ~tconn'
    BY <2>0, <1>0 DEF ThreadInv
  <2>2. chan \in Seq(NwamEvents)
    BY <1>0 DEF EventsTypeOK
  <2>3. Tail(chan) # <<>> => Tail(chan)[Len(Tail(chan))] = chan[Len(chan)]
    BY <2>0, <2>2, TailLast
  <2>4. ChannelInv'
    BY <2>0, <2>1, <2>3, <1>0 DEF ChannelInv
  <2>5. ThreadInv' /\ PostedInv'
    BY <2>0, <2>1 DEF ThreadInv, PostedInv, Settled
  <2> QED BY <1>0, <2>4, <2>5 DEF EventsInv
<1>6. CASE RetryFails
  <2>1. ThreadInv' /\ ChannelInv' /\ PostedInv'
    BY <1>6, <1>0 DEF RetryFails, ThreadInv, ChannelInv, PostedInv, Settled
  <2> QED BY <1>0, <2>1 DEF EventsInv
<1>7. CASE Reconnect
  <2>1. ThreadInv' /\ ChannelInv'
    BY <1>7, <1>0 DEF Reconnect, Subscribes, ThreadInv, ChannelInv
  <2> QED BY <1>7, <2>1, <1>0, PostActive DEF EventsInv, Reconnect
<1> QED BY <1>1, <1>2, <1>3, <1>4, <1>5, <1>6, <1>7 DEF Thread

\* Taking the oldest idle source keeps what follows it.
LEMMA Unposted ==
    ASSUME EventsTypeOK, idleq # <<>>, ver' = ver,
           Len(idleq') \in Nat, Len(idleq') >= Len(idleq) - 1,
           \A i \in 1 .. Len(idleq) - 1 : idleq'[i] = idleq[i + 1]
    PROVE  /\ \A i \in 1 .. Len(idleq) - 1 : RefreshPosted(i + 1) => RefreshPosted(i)'
           /\ RefreshPosted(1) /\ ~IsRefresh(Head(idleq)) => RefreshPosted(1)'
<1>0. Len(idleq) \in Nat /\ Len(idleq) >= 1 /\ Head(idleq) = idleq[1]
  BY DEF EventsTypeOK
<1>1. ASSUME NEW j \in 2 .. Len(idleq), IsRefresh(idleq[j])
      PROVE  j - 1 \in 1 .. Len(idleq') /\ IsRefresh(idleq[j - 1])'
  <2>1. j - 1 \in 1 .. Len(idleq) - 1 /\ (j - 1) + 1 = j
    BY <1>0
  <2>2. idleq'[j - 1] = idleq[j]
    BY <2>1
  <2> QED BY <2>1, <2>2, <1>0, <1>1 DEF IsRefresh, Refreshes
<1>2. ASSUME NEW i \in 1 .. Len(idleq) - 1, RefreshPosted(i + 1)
      PROVE  RefreshPosted(i)'
  <2>1. PICK j \in i + 1 .. Len(idleq) : IsRefresh(idleq[j])
    BY <1>2 DEF RefreshPosted
  <2>2. j - 1 \in i .. Len(idleq') /\ j \in 2 .. Len(idleq)
    BY <1>0
  <2> QED BY <1>1, <2>1, <2>2 DEF RefreshPosted
<1>3. ASSUME RefreshPosted(1), ~IsRefresh(Head(idleq))
      PROVE  RefreshPosted(1)'
  <2>1. PICK j \in 1 .. Len(idleq) : IsRefresh(idleq[j])
    BY <1>3 DEF RefreshPosted
  <2>2. j \in 2 .. Len(idleq)
    BY <1>0, <1>3, <2>1
  <2>3. j - 1 \in 1 .. Len(idleq')
    BY <2>2, <1>0
  <2> QED BY <1>1, <2>1, <2>2, <2>3 DEF RefreshPosted
<1> QED BY <1>2, <1>3

LEMMA MainLoopKeeps == EventsInv /\ MainLoop => EventsInv'
<1> SUFFICES ASSUME EventsInv, MainLoop PROVE EventsInv'
  OBVIOUS
<1>0. EventsTypeOK /\ EventsTypeOK' /\ PostedInv
  BY MainLoopTypeOK DEF EventsInv
<1>1. /\ UNCHANGED <<nwamd, ver, subscribed, chan, pc, held, tconn>>
      /\ idleq # <<>>
  BY DEF MainLoop, HandleInfoActive, HandleInfoInactive, HandleRedispatch,
         HandleObjectAction, OldestIs, serverVars, threadVars
<1>2. ThreadInv' /\ ChannelInv'
  BY <1>1 DEF EventsInv, ThreadInv, ChannelInv
<1>3. PostedInv'
  <2> SUFFICES ASSUME Settled' PROVE PostedInv'
    BY DEF PostedInv
  <2>0. Settled /\ nwamd = "up"
    BY <1>0, <1>1 DEF Settled, EventsInv, ChannelInv, EventsTypeOK
  <2>1. /\ idleq \in Seq(UiEvents) /\ Tail(idleq) \in Seq(UiEvents)
        /\ Head(idleq) = idleq[1] /\ Head(idleq) \in UiEvents
        /\ Len(idleq) \in Nat /\ Len(idleq) >= 1
        /\ Len(Tail(idleq)) = Len(idleq) - 1
        /\ \A i \in 1 .. Len(idleq) - 1 : Tail(idleq)[i] = idleq[i + 1]
    BY <1>0, <1>1, TailFacts DEF EventsTypeOK
  <2>2. ASSUME idleq' = Tail(idleq)
        PROVE  /\ \A i \in 1 .. Len(idleq') :
                     idleq'[i].e = "RAW" /\ idleq'[i].ev.ver # ver' =>
                        RefreshPosted(i)'
               /\ RefreshPosted(1) /\ ~IsRefresh(Head(idleq)) => RefreshPosted(1)'
    <3>1. /\ \A i \in 1 .. Len(idleq) - 1 : RefreshPosted(i + 1) => RefreshPosted(i)'
          /\ RefreshPosted(1) /\ ~IsRefresh(Head(idleq)) => RefreshPosted(1)'
      <4>1. /\ Len(idleq') \in Nat /\ Len(idleq') >= Len(idleq) - 1
            /\ \A i \in 1 .. Len(idleq) - 1 : idleq'[i] = idleq[i + 1]
        BY <2>1, <2>2
      <4> QED BY <4>1, <1>0, <1>1, Unposted
    <3>2. \A i \in 1 .. Len(idleq') :
             i \in 1 .. Len(idleq) - 1 /\ i + 1 \in 1 .. Len(idleq)
               /\ idleq'[i] = idleq[i + 1]
      BY <2>1, <2>2
    <3> QED BY <3>1, <3>2, <1>0, <1>1, <2>0 DEF PostedInv
  <2>3. CASE HandleInfoActive
    <3>1. idleq' = Tail(idleq) /\ view' = ver /\ ver' = ver
      BY <2>3, <2>0, <1>1 DEF HandleInfoActive
    <3> QED BY <3>1, <2>2 DEF PostedInv
  <2>4. CASE HandleInfoInactive
    <3>1. PICK e \in {"INACTIVE", "ERROR"} : Head(idleq) = Info(e)
      BY <2>4 DEF HandleInfoInactive, OldestIs
    <3>2. idleq' = Tail(idleq) /\ view' = view
      BY <2>4 DEF HandleInfoInactive
    <3>3. Info(e).e = e
      BY InfoFields
    <3>4. ~IsRefresh(Head(idleq))
      BY <3>1, <3>3 DEF IsRefresh
    <3> QED BY <3>2, <3>4, <1>0, <1>1, <2>0, <2>2 DEF PostedInv
  <2>5. CASE HandleRedispatch
    <3>1. PICK ev \in NwamEvents :
             /\ ev.type # "OBJECT_ACTION"
             /\ Head(idleq) = Raw(ev)
             /\ idleq' = Append(Tail(idleq), Info(Redispatched(ev.type)))
      BY <2>5 DEF HandleRedispatch, OldestIs
    <3>2. Redispatched(ev.type) \in {"ACTIVE", "INACTIVE"}
      BY DEF Redispatched
    <3> DEFINE x == Info(Redispatched(ev.type))
    <3>3. x \in UiEvents /\ x.e = Redispatched(ev.type)
      BY <3>2, InfoFields
    <3> HIDE DEF x
    <3>4. /\ idleq' = Append(Tail(idleq), x)
          /\ idleq' \in Seq(UiEvents) /\ idleq' # <<>>
          /\ Len(idleq') = Len(idleq)
          /\ idleq'[Len(idleq)] = x
          /\ \A i \in 1 .. Len(idleq) - 1 : idleq'[i] = idleq[i + 1]
      <4>1. idleq' = Append(Tail(idleq), x)
        BY <3>1 DEF x
      <4> QED BY <4>1, <3>3, <2>1, AppendFacts
    <3>5. CASE ev.type = "INIT"
      <4>1. IsRefresh(idleq[Len(idleq)])'
        BY <3>3, <3>4, <3>5 DEF IsRefresh, Redispatched
      <4> QED BY <4>1, <3>4, EndsFresh
    <3>6. CASE ev.type # "INIT"
      <4>1. ev.type = "SHUTDOWN"
        BY <3>1, <3>6 DEF NwamEvents
      <4>2. ~IsRefresh(Head(idleq)) /\ x.e # "RAW"
        BY <4>1, <3>1, <3>2, <3>3, RawFields DEF IsRefresh, Refreshes
      <4>3. /\ \A i \in 1 .. Len(idleq) - 1 : RefreshPosted(i + 1) => RefreshPosted(i)'
            /\ RefreshPosted(1) => RefreshPosted(1)'
        <5>1. Len(idleq') \in Nat /\ Len(idleq') >= Len(idleq) - 1
          BY <3>4, <2>1
        <5> QED BY <5>1, <4>2, <3>4, <1>0, <1>1, Unposted
      <4>4. uiConn' = uiConn /\ view' = view
        BY <2>5 DEF HandleRedispatch, shownVars
      <4>5. \A i \in 1 .. Len(idleq') :
               idleq'[i].e = "RAW" /\ idleq'[i].ev.ver # ver' => RefreshPosted(i)'
        <5> SUFFICES ASSUME NEW i \in 1 .. Len(idleq'), idleq'[i].e = "RAW",
                            idleq'[i].ev.ver # ver'
                     PROVE  RefreshPosted(i)'
          OBVIOUS
        <5>1. i \in 1 .. Len(idleq) - 1
          <6>1. i \in 1 .. Len(idleq)
            BY <3>4
          <6>2. i # Len(idleq)
            <7> SUFFICES ASSUME i = Len(idleq) PROVE FALSE
              OBVIOUS
            <7>1. idleq'[i] = x
              BY <3>4
            <7> QED BY <7>1, <4>2
          <6>3. Len(idleq) \in Nat
            BY <2>1
          <6> QED BY <6>1, <6>2, <6>3
        <5>2. idleq'[i] = idleq[i + 1] /\ i + 1 \in 1 .. Len(idleq)
          BY <5>1, <3>4, <2>1
        <5> QED BY <5>1, <5>2, <4>3, <1>0, <1>1, <2>0 DEF PostedInv
      <4> QED BY <4>3, <4>4, <4>5, <1>0, <1>1, <2>0 DEF PostedInv
    <3> QED BY <3>5, <3>6
  <2>6. CASE HandleObjectAction
    <3>1. PICK ev \in NwamEvents :
             /\ ev.type = "OBJECT_ACTION"
             /\ Head(idleq) = Raw(ev)
             /\ view' = ev.ver
      BY <2>6 DEF HandleObjectAction, OldestIs
    <3>2. idleq' = Tail(idleq)
      BY <2>6 DEF HandleObjectAction
    <3>3. idleq[1].e = "RAW" /\ idleq[1].ev = ev
      BY <3>1, <2>1, RawFields
    <3>4. view' # ver' => RefreshPosted(1)'
      <4> SUFFICES ASSUME ev.ver # ver PROVE RefreshPosted(1)'
        BY <1>1, <3>1, <3>2
      <4>1. RefreshPosted(1)
        BY <3>3, <1>0, <2>0, <2>1 DEF PostedInv
      <4>2. ~IsRefresh(Head(idleq))
        BY <3>1, <3>3, <2>1 DEF IsRefresh, Refreshes
      <4> QED BY <4>1, <4>2, <3>2, <2>2
    <3> QED BY <3>2, <3>4, <2>2 DEF PostedInv
  <2> QED BY <2>3, <2>4, <2>5, <2>6 DEF MainLoop
<1> QED BY <1>0, <1>2, <1>3 DEF EventsInv

LEMMA EventsStep == EventsInv /\ [ThreadNext]_eventVars => EventsInv'
<1>1. EventsInv /\ UNCHANGED eventVars => EventsInv'
  BY DEF EventsInv, EventsTypeOK, ThreadInv, ChannelInv, PostedInv, Settled, RefreshPosted,
         IsRefresh, Refreshes, eventVars, serverVars, threadVars, shownVars
<1> QED BY <1>1, NwamdKeeps, ThreadKeeps, MainLoopKeeps DEF ThreadNext

LEMMA EventsInvariant == ThreadSpec => []EventsInv
<1> QED BY EventsStart, EventsStep, PTL DEF ThreadSpec

-----------------------------------------------------------------------------
(* The properties.                                                         *)

\* Once everything posted is handled and the thread believes it is connected,
\* the user interface shows nwamd's current objects, however events, reloads,
\* restarts of nwamd and lost events were interleaved.
THEOREM Freshness == ThreadSpec => []FreshWhenQuiet
<1>1. EventsInv => FreshWhenQuiet
  <2> SUFFICES ASSUME EventsInv, AllHandled, tconn, view # ver PROVE FALSE
    BY DEF FreshWhenQuiet
  <2>1. RefreshPosted(1) /\ idleq = <<>>
    BY DEF EventsInv, PostedInv, Settled, AllHandled
  <2> QED BY <2>1 DEF RefreshPosted
<1> QED BY <1>1, EventsInvariant, PTL

\* An out-of-date event never has the last word.
THEOREM Overtaken == ThreadSpec => []StaleIsOvertaken
<1>1. EventsInv => StaleIsOvertaken
  <2> SUFFICES ASSUME EventsInv, subscribed, tconn, ~ShutdownComing, ~RefreshComing,
                      NEW i \in DOMAIN idleq,
                      idleq[i].e = "RAW", idleq[i].ev.ver # ver
               PROVE  RefreshPosted(i)
    BY DEF StaleIsOvertaken
  <2>1. chan = <<>>
    <3> SUFFICES ASSUME chan # <<>> PROVE FALSE
      OBVIOUS
    <3>1. Len(chan) \in DOMAIN chan
      BY DEF EventsInv, EventsTypeOK
    <3>2. chan[Len(chan)].ver = ver /\ chan[Len(chan)].type # "SHUTDOWN"
      BY <3>1 DEF EventsInv, ChannelInv, ShutdownComing
    <3> QED BY <3>1, <3>2 DEF RefreshComing, Refreshes
  <2>2. pc = "wait"
    BY <2>1 DEF EventsInv, EventsTypeOK, ThreadInv, ChannelInv, RefreshComing, Refreshes
  <2>3. i \in 1 .. Len(idleq)
    BY DEF EventsInv, EventsTypeOK
  <2> QED BY <2>1, <2>2, <2>3 DEF EventsInv, PostedInv, Settled
<1> QED BY <1>1, EventsInvariant, PTL
=============================================================================
