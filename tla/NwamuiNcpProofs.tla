---------------------------- MODULE NwamuiNcpProofs ----------------------------
(***************************************************************************)
(* Proofs about NwamuiNcp, for any devices, groups, policies and number of *)
(* changes: the list of NCUs and their cached states end as nwamd has      *)
(* them, the user was asked about an NCU that counts, and a whole reload   *)
(* repairs the number of wireless NCUs.                                    *)
(*                                                                         *)
(* The invariant is about one device at a time.  While nwamd is half way   *)
(* through creating or destroying an NCU nothing is claimed of the list:   *)
(* the event that completes it is yet to come.  An interface state is      *)
(* nwamd's because it is read or told after the last DESTROY, which drops  *)
(* whatever was cached; the state of a link may be read only while nwamd   *)
(* has the link, so that a new link's fresh state contradicts no old one.  *)
(***************************************************************************)
EXTENDS NwamuiNcp, PendingEvents, FiniteSetTheorems

-----------------------------------------------------------------------------
(* The classes of events, and what the last of a class says.               *)

\* Both handles of an NCU are there; both are, or neither.
Whole(H, d) == <<d, "link">> \in H /\ <<d, "interface">> \in H
SettledOf(H, d) == <<d, "link">> \in H <=> <<d, "interface">> \in H

HandleEvents(d) == {ev \in Events : ev.e \in {"ADD", "DESTROY"} /\ ev.h[1] = d}
HandleSays(d, H) == {ev \in Events : ev.e = IF Whole(H, d) THEN "ADD" ELSE "DESTROY"}

\* The state of an interface, and of a link; a DESTROY drops both.
UpOf(u, d) == IF d \in u THEN "up" ELSE "down"
UpEvents(d) ==
    {ev \in Events : \/ ev.e = "IF_STATE" /\ ev.d = d
                     \/ ev.e = "DESTROY" /\ ev.h[1] = d}
UpSays(d, u) ==
    {ev \in Events : ev.e = "DESTROY" \/ (ev.e = "IF_STATE" /\ (ev.up <=> d \in u))}

AuxEvents(d) ==
    {ev \in Events : \/ ev.e = "LINK_STATE" /\ ev.d = d
                     \/ ev.e = "DESTROY" /\ ev.h[1] = d}
AuxSays(d, H, a) ==
    {ev \in Events : \/ ev.e = "DESTROY"
                     \/ ev.e = "LINK_STATE" /\ <<d, "link">> \in H /\ ev.aux = a[d]}

GroupEvents == {ev \in Events : ev.e = "PRIORITY_GROUP"}
GroupSays(g) == {ev \in Events : ev.e = "PRIORITY_GROUP" /\ ev.g = g}

-----------------------------------------------------------------------------
(* The inductive invariant.                                                *)

NwamdOK ==
    /\ \A d \in up : <<d, "interface">> \in handles
    /\ \A d \in Devs : Whole(handles, d) => d \in phys

ListFollows ==
    \A d \in Devs : SettledOf(handles, d) =>
        /\ Ends(q, HandleEvents(d), HandleSays(d, handles))
        /\ NoneIn(q, HandleEvents(d)) =>
             /\ d \in ncuList => /\ Whole(handles, d) /\ <<d, "interface">> \in opened
                                 /\ cached[d] # "uninit"
             /\ Whole(handles, d) /\ ~partial => d \in ncuList

UpFollows ==
    \A d \in Devs :
        /\ Ends(q, UpEvents(d), UpSays(d, up))
        /\ NoneIn(q, UpEvents(d)) /\ d \in ncuList => cached[d] \in {"uninit", UpOf(up, d)}

AuxFollows ==
    \A d \in Devs :
        /\ Ends(q, AuxEvents(d), AuxSays(d, handles, aux))
        /\ NoneIn(q, AuxEvents(d)) /\ d \in ncuList =>
             linkCached[d] = "uninit" \/ (<<d, "link">> \in handles /\ linkCached[d] = aux[d])

GroupFollows ==
    /\ Ends(q, GroupEvents, GroupSays(group))
    /\ NoneIn(q, GroupEvents) => prioGroup = group

PromptsAsked ==
    \A p \in prompts : p.e = "SELECTION" =>
        p.data \in Asked(ncuList, prioGroup) /\ linkCached[p.data] = "choice"

NcpInv ==
    /\ TypeOK /\ NwamdOK /\ ListFollows /\ UpFollows /\ AuxFollows /\ GroupFollows
    /\ PromptsAsked

-----------------------------------------------------------------------------
(* Events.                                                                 *)

LEMMA EventFields ==
    /\ [e |-> "NCP_ONLINE"] \in Events
    /\ \A d \in Devs, k \in Classes : /\ [e |-> "ADD", h |-> <<d, k>>] \in Events
                                      /\ [e |-> "DESTROY", h |-> <<d, k>>] \in Events
    /\ \A d \in Devs, b \in BOOLEAN : [e |-> "IF_STATE", d |-> d, up |-> b] \in Events
    /\ \A d \in Devs, n \in Needs : [e |-> "LINK_STATE", d |-> d, aux |-> n] \in Events
    /\ \A g \in Groups : [e |-> "PRIORITY_GROUP", g |-> g] \in Events
BY DEF Events, Handles

LEMMA EventTypes ==
    ASSUME NEW ev \in Events
    PROVE  /\ ev.e \in {"ADD", "DESTROY", "IF_STATE", "LINK_STATE", "PRIORITY_GROUP",
                        "NCP_ONLINE"}
           /\ ev.e \in {"ADD", "DESTROY"} =>
                /\ ev.h \in Handles /\ ev.h = <<ev.h[1], ev.h[2]>>
                /\ ev.h[1] \in Devs /\ ev.h[2] \in Classes
           /\ ev.e = "IF_STATE" => ev.d \in Devs /\ ev.up \in BOOLEAN
           /\ ev.e = "LINK_STATE" => ev.d \in Devs /\ ev.aux \in Needs
           /\ ev.e = "PRIORITY_GROUP" => ev.g \in Groups
BY DEF Events, Handles

LEMMA ChangeFacts ==
    ASSUME TypeOK, NEW ev \in Events, Change(ev)
    PROVE  /\ q \in Seq(Events) /\ q' = Append(q, ev) /\ q' \in Seq(Events)
           /\ changes' \in 0 .. MaxChanges
           /\ UNCHANGED <<policy, ncuList, wirelessLinkNum, prioGroup, opened, cached,
                          linkCached, good, prompts, partial>>
<1>1. q \in Seq(Events) /\ changes \in 0 .. MaxChanges
  BY DEF TypeOK
<1>2. changes' \in 0 .. MaxChanges
  BY <1>1, BoundsAssumption DEF Change
<1>3. q' = Append(q, ev) /\ q' \in Seq(Events)
  BY <1>1 DEF Change
<1> QED BY <1>1, <1>2, <1>3 DEF Change

\* What an event that nwamd posts says it has changed.
Means(ev) ==
    \/ /\ ev.e = "ADD" /\ ev.h \notin handles
       /\ ev.h[2] = "interface" => <<ev.h[1], "link">> \in handles
       /\ handles' = handles \cup {ev.h} /\ phys' = phys \cup {ev.h[1]}
       /\ up' = IF ev.h[2] = "interface" THEN up \ {ev.h[1]} ELSE up
       /\ aux' = IF ev.h[2] = "link" THEN [aux EXCEPT ![ev.h[1]] = "none"] ELSE aux
       /\ group' = group
    \/ /\ ev.e = "DESTROY" /\ ev.h \in handles
       /\ handles' = handles \ {ev.h} /\ (phys' = phys \/ phys' = phys \ {ev.h[1]})
       /\ up' = IF ev.h[2] = "interface" THEN up \ {ev.h[1]} ELSE up
       /\ UNCHANGED <<aux, group>>
    \/ /\ ev.e = "IF_STATE" /\ <<ev.d, "interface">> \in handles
       /\ up' \in {up \ {ev.d}, up \cup {ev.d}} /\ (ev.up <=> ev.d \in up')
       /\ UNCHANGED <<handles, phys, aux, group>>
    \/ /\ ev.e = "LINK_STATE" /\ <<ev.d, "link">> \in handles
       /\ aux' = [aux EXCEPT ![ev.d] = ev.aux] /\ UNCHANGED <<handles, phys, up, group>>
    \/ /\ ev.e = "PRIORITY_GROUP" /\ group' = ev.g /\ UNCHANGED <<handles, phys, up, aux>>
    \/ ev.e = "NCP_ONLINE" /\ UNCHANGED <<handles, phys, up, aux, group>>

\* A step of nwamd's posts one event and changes what the event says.
LEMMA NwamdSteps ==
    ASSUME TypeOK, Nwamd
    PROVE  \E ev \in Events : Change(ev) /\ Means(ev)
<1> DEFINE P(ev) == Change(ev) /\ Means(ev)
<1>1. ASSUME NEW d \in Devs, NEW k \in Classes, NwamdAdd(d, k) PROVE \E ev \in Events : P(ev)
  <2>1. Means([e |-> "ADD", h |-> <<d, k>>])
    BY <1>1 DEF Means, NwamdAdd
  <2>2. P([e |-> "ADD", h |-> <<d, k>>])
    BY <1>1, <2>1 DEF NwamdAdd
  <2> HIDE DEF P
  <2> QED BY <2>2, EventFields
<1>2. ASSUME NEW d \in Devs, NEW k \in Classes, NwamdDestroy(d, k) PROVE \E ev \in Events : P(ev)
  <2>1. phys' = phys \/ phys' = phys \ {d}
    BY <1>2 DEF NwamdDestroy
  <2>2. Means([e |-> "DESTROY", h |-> <<d, k>>])
    BY <1>2, <2>1 DEF Means, NwamdDestroy
  <2>3. P([e |-> "DESTROY", h |-> <<d, k>>])
    BY <1>2, <2>2 DEF NwamdDestroy
  <2> HIDE DEF P
  <2> QED BY <2>3, EventFields
<1>3. ASSUME NEW d \in Devs, NwamdIfState(d) PROVE \E ev \in Events : P(ev)
  <2> DEFINE b == d \in up'
  <2>1. b \in BOOLEAN
    OBVIOUS
  <2>2. up' \in {up \ {d}, up \cup {d}}
    BY <1>3 DEF NwamdIfState
  <2>3. Means([e |-> "IF_STATE", d |-> d, up |-> b])
    BY <1>3, <2>2 DEF Means, NwamdIfState
  <2>4. Change([e |-> "IF_STATE", d |-> d, up |-> b])
    BY <1>3 DEF NwamdIfState
  <2> HIDE DEF P, b
  <2>5. [e |-> "IF_STATE", d |-> d, up |-> b] \in Events
    BY <2>1, EventFields
  <2> QED BY <2>3, <2>4, <2>5 DEF P
<1>4. ASSUME NEW d \in Devs, NwamdLinkState(d) PROVE \E ev \in Events : P(ev)
  <2>1. PICK n \in Needs : /\ aux' = [aux EXCEPT ![d] = n]
                           /\ Change([e |-> "LINK_STATE", d |-> d, aux |-> n])
    BY <1>4 DEF NwamdLinkState
  <2>2. Means([e |-> "LINK_STATE", d |-> d, aux |-> n])
    BY <1>4, <2>1 DEF Means, NwamdLinkState
  <2>3. P([e |-> "LINK_STATE", d |-> d, aux |-> n])
    BY <2>1, <2>2
  <2> HIDE DEF P
  <2> QED BY <2>3, EventFields
<1>5. ASSUME NwamdPriorityGroup PROVE \E ev \in Events : P(ev)
  <2>1. P([e |-> "PRIORITY_GROUP", g |-> group']) /\ group' \in Groups
    BY <1>5 DEF Means, NwamdPriorityGroup
  <2> HIDE DEF P
  <2> QED BY <2>1, EventFields
<1>6. ASSUME NwamdNcpOnline PROVE \E ev \in Events : P(ev)
  <2>1. P([e |-> "NCP_ONLINE"])
    BY <1>6 DEF Means, NwamdNcpOnline
  <2> HIDE DEF P
  <2> QED BY <2>1, EventFields
<1>7. \E ev \in Events : P(ev)
  <2> HIDE DEF P
  <2> QED BY <1>1, <1>2, <1>3, <1>4, <1>5, <1>6 DEF Nwamd
<1> QED BY <1>7

\* A handler takes the oldest event.
LEMMA UnpostFacts ==
    ASSUME TypeOK, NEW ev, Unpost(ev)
    PROVE  /\ q \in Seq(Events) /\ q # <<>> /\ Head(q) = ev /\ ev \in Events
           /\ q' = Tail(q) /\ q' \in Seq(Events)
           /\ handles' = handles /\ phys' = phys /\ up' = up /\ aux' = aux
           /\ group' = group /\ policy' = policy /\ changes' = changes
<1>1. q \in Seq(Events)
  BY DEF TypeOK
<1>2. q # <<>> /\ Head(q) = ev /\ q' = Tail(q)
  BY DEF Unpost
<1>3. ev \in Events /\ q' \in Seq(Events)
  BY <1>1, <1>2, TailFacts
<1> QED BY <1>1, <1>2, <1>3 DEF Unpost, nwamdVars

LEMMA Same == ASSUME NEW a, NEW b, Unpost(a), Unpost(b) PROVE a = b
BY DEF Unpost

\* Every handler takes an event.
LEMMA HandlerTakes ==
    ASSUME Handler
    PROVE  \E ev : Unpost(ev)
BY DEF Handler, HandleReload, HandleAddAgain, HandleDestroy, HandleIfState, HandleLinkState,
       HandlePriorityGroup

-----------------------------------------------------------------------------
(* What is read when the status is updated.                                *)

UpStates  == {"up", "down", "uninit"}
AuxStates == Needs \cup {"uninit"}
Prompts   == [e : {"SELECTION", "KEY"}, data : Devs \cup {None}]

LEMMA FetchUpFacts ==
    ASSUME NEW c \in [Devs -> UpStates], NEW D, NEW H
    PROVE  /\ FetchUp(c, D, H) \in [Devs -> UpStates]
           /\ \A d \in Devs :
                /\ \/ FetchUp(c, D, H)[d] = c[d]
                   \/ c[d] = "uninit" /\ d \in D /\ FetchUp(c, D, H)[d] = UpOf(up, d)
                /\ d \in D /\ <<d, "interface">> \in H \cap handles => FetchUp(c, D, H)[d] # "uninit"
BY DEF FetchUp, UpStates, UpOf

LEMMA FetchAuxFacts ==
    ASSUME TypeOK, NEW l \in [Devs -> AuxStates], NEW D, NEW H
    PROVE  /\ FetchAux(l, D, H) \in [Devs -> AuxStates]
           /\ \A d \in Devs :
                \/ FetchAux(l, D, H)[d] = l[d]
                \/ /\ l[d] = "uninit" /\ d \in D /\ <<d, "link">> \in handles
                   /\ FetchAux(l, D, H)[d] = aux[d]
<1>1. \A d \in Devs : aux[d] \in Needs
  BY DEF TypeOK
<1> QED BY <1>1 DEF FetchAux, AuxStates

LEMMA AskedListed ==
    ASSUME NEW D, NEW g
    PROVE  Asked(D, g) \subseteq D
BY DEF Asked

LEMMA OnlineType ==
    ASSUME NEW D, NEW g, NEW c
    PROVE  AllNcusOnline(D, g, c) \in BOOLEAN
BY DEF AllNcusOnline

\* The prompts: at most one question for a network, about an NCU that was asked
\* and needs the choice.
LEMMA PromptFacts ==
    ASSUME NEW c, NEW l, UpdateStatus(c, l), ncuList' \subseteq Devs
    PROVE  /\ prompts' \subseteq Prompts
           /\ \A p \in prompts' : p.e = "SELECTION" =>
                p.data \in Asked(ncuList', prioGroup') /\ linkCached'[p.data] = "choice"
<1> DEFINE needs(n) == {d \in Asked(ncuList', prioGroup') : linkCached'[d] = n}
           made(choice, key) ==
               IF good' \/ ncuList' = {} THEN {} ELSE
                 {[e |-> "SELECTION", data |-> d] : d \in {choice} \ {None}}
                   \cup {[e |-> "KEY", data |-> choice] : d \in key}
<1>1. \E choice \in IF needs("choice") = {} THEN {None} ELSE needs("choice"),
         key \in SUBSET needs("key") : prompts' = made(choice, key)
  BY DEF UpdateStatus
<1>2. PICK choice \in IF needs("choice") = {} THEN {None} ELSE needs("choice") :
         \E key \in SUBSET needs("key") : prompts' = made(choice, key)
  BY <1>1
<1>3. PICK key \in SUBSET needs("key") : prompts' = made(choice, key)
  BY <1>2
<1>4. choice \in Devs \cup {None} /\ (choice # None => choice \in needs("choice"))
  BY <1>2, AskedListed
<1>5. \A p \in prompts' :
         \/ p = [e |-> "SELECTION", data |-> choice] /\ choice # None
         \/ p = [e |-> "KEY", data |-> choice]
  BY <1>3
<1> HIDE DEF made
<1>6. prompts' \subseteq Prompts
  BY <1>4, <1>5 DEF Prompts
<1>7. ASSUME NEW p \in prompts', p.e = "SELECTION"
      PROVE  p.data \in Asked(ncuList', prioGroup') /\ linkCached'[p.data] = "choice"
  <2>1. p.data = choice /\ choice # None
    BY <1>5, <1>7
  <2> QED BY <1>4, <2>1
<1> QED BY <1>6, <1>7

LEMMA StatusFacts ==
    ASSUME TypeOK, NEW c \in [Devs -> UpStates], NEW l \in [Devs -> AuxStates],
           UpdateStatus(c, l)
    PROVE  /\ cached' \in [Devs -> UpStates] /\ linkCached' \in [Devs -> AuxStates]
           /\ good' \in BOOLEAN
           /\ \A d \in Devs :
                /\ \/ cached'[d] = c[d]
                   \/ c[d] = "uninit" /\ d \in ncuList' /\ cached'[d] = UpOf(up, d)
                /\ d \in ncuList' /\ <<d, "interface">> \in opened' /\ <<d, "interface">> \in handles
                     => cached'[d] # "uninit"
                /\ \/ linkCached'[d] = l[d]
                   \/ /\ l[d] = "uninit" /\ d \in ncuList' /\ <<d, "link">> \in handles
                      /\ linkCached'[d] = aux[d]
<1>1. cached' = FetchUp(c, ncuList', opened')
  BY DEF UpdateStatus
<1>2. linkCached' = FetchAux(l, Asked(ncuList', prioGroup'), opened')
  BY DEF UpdateStatus
<1>3. good' \in BOOLEAN
  <2>1. good' = AllNcusOnline(ncuList', prioGroup', cached')
    BY DEF UpdateStatus
  <2> QED BY <2>1, OnlineType
<1>4. /\ cached' \in [Devs -> UpStates]
      /\ \A d \in Devs :
           /\ \/ cached'[d] = c[d]
              \/ c[d] = "uninit" /\ d \in ncuList' /\ cached'[d] = UpOf(up, d)
           /\ d \in ncuList' /\ <<d, "interface">> \in opened' /\ <<d, "interface">> \in handles
                => cached'[d] # "uninit"
  BY <1>1, FetchUpFacts
<1>5. /\ linkCached' \in [Devs -> AuxStates]
      /\ \A d \in Devs :
           \/ linkCached'[d] = l[d]
           \/ /\ l[d] = "uninit" /\ d \in Asked(ncuList', prioGroup') /\ <<d, "link">> \in handles
              /\ linkCached'[d] = aux[d]
  BY <1>2, FetchAuxFacts
<1> QED BY <1>3, <1>4, <1>5, AskedListed

-----------------------------------------------------------------------------
(* What a handler makes of the list, and of the states it reads.           *)

\* A handle of d is among nwamd's; those that nwamd has are in O.
Known(d)    == \E k \in Classes : <<d, k>> \in handles
Read(d, O)  == \A k \in Classes : <<d, k>> \in handles => <<d, k>> \in O

\* A reload finds NCUs that nwamd has, and reads the handles it has of them; one
\* that succeeds finds every NCU that nwamd has made.
LEMMA ReloadFacts ==
    ASSUME TypeOK, NwamdOK, Reload
    PROVE  /\ ncuList' \subseteq Devs /\ opened' \subseteq ncuList' \X Classes
           /\ partial' \in BOOLEAN
           /\ \A d \in ncuList' : \/ /\ d \in ncuList
                                     /\ \A k \in Classes : <<d, k>> \in opened => <<d, k>> \in opened'
                                  \/ Known(d) /\ Read(d, opened')
           /\ \A d \in ncuList' \ ncuList : Read(d, opened')
           /\ \A d \in Devs : Whole(handles, d) /\ ~partial' => d \in ncuList'
<1>t. /\ ncuList \subseteq Devs /\ opened \subseteq ncuList \X Classes
      /\ handles \subseteq Devs \X Classes
  BY DEF TypeOK, Handles
<1>1. PICK seen \in SUBSET handles : \E complete \in BOOLEAN :
        LET present == {h \in seen : h[1] \in phys}
            found   == DevsOf(present)
        IN  /\ complete => seen = handles
            /\ ncuList' = (ncuList \ Dropped(found, complete)) \cup found
            /\ partial' = ~complete
            /\ opened' = {h \in opened : h[1] \in ncuList'} \cup ReadHandles(found)
  BY DEF Reload
<1> DEFINE present == {h \in seen : h[1] \in phys}
           found   == DevsOf(present)
<1>2. PICK complete \in BOOLEAN :
        /\ complete => seen = handles
        /\ ncuList' = (ncuList \ Dropped(found, complete)) \cup found
        /\ partial' = ~complete
        /\ opened' = {h \in opened : h[1] \in ncuList'} \cup ReadHandles(found)
  BY <1>1
<1>3. /\ found \subseteq Devs
      /\ \A d \in found : Known(d)
  <2>1. \A h \in present : h = <<h[1], h[2]>> /\ h[1] \in Devs /\ h[2] \in Classes /\ h \in handles
    BY <1>t
  <2>2. \A d \in found : \E h \in present : d = h[1]
    BY DEF DevsOf
  <2> QED BY <2>1, <2>2 DEF Known
<1>4. \A d \in found : Read(d, opened')
  BY <1>2 DEF Read, ReadHandles
<1>5. ncuList' \subseteq ncuList \cup found /\ ncuList' \subseteq Devs
  BY <1>t, <1>2, <1>3
<1>6. opened' \subseteq ncuList' \X Classes
  <2>1. ReadHandles(found) \subseteq found \X Classes
    BY <1>t DEF ReadHandles
  <2>2. {h \in opened : h[1] \in ncuList'} \subseteq ncuList' \X Classes
    BY <1>t
  <2>3. found \subseteq ncuList'
    BY <1>2
  <2> QED BY <1>2, <2>1, <2>2, <2>3
<1>7. ASSUME NEW d \in ncuList', d \in ncuList, NEW k \in Classes, <<d, k>> \in opened
      PROVE  <<d, k>> \in opened'
  BY <1>2, <1>7
<1>8. ASSUME NEW d \in Devs, Whole(handles, d), ~partial' PROVE d \in ncuList'
  <2>1. seen = handles /\ d \in phys
    BY <1>2, <1>8 DEF NwamdOK
  <2>2. <<d, "link">> \in present
    BY <1>8, <2>1 DEF Whole
  <2>3. d \in found
    BY <2>2 DEF DevsOf
  <2> QED BY <1>2, <2>3
<1> HIDE DEF found, present
<1>9. partial' \in BOOLEAN
  BY <1>2
<1> QED BY <1>3, <1>4, <1>5, <1>6, <1>7, <1>8, <1>9

\* What a handler of ev leaves of the list.
Lists(ev) ==
    /\ ncuList' \subseteq Devs /\ opened' \subseteq ncuList' \X Classes
    /\ partial' \in BOOLEAN
    /\ \A d \in ncuList' :
         \/ /\ d \in ncuList
            /\ \A k \in Classes : <<d, k>> \in opened => <<d, k>> \in opened'
         \/ Known(d) /\ Read(d, opened')
    /\ \A d \in ncuList' : ev.e = "ADD" /\ ev.h[1] = d => Read(d, opened')
    /\ \A d \in ncuList' : ~(ev.e = "DESTROY" /\ ev.h[1] = d)
    /\ \A d \in Devs : Whole(handles, d) /\ ~partial' =>
         \/ d \in ncuList'
         \/ ev.e = "DESTROY" /\ ev.h[1] = d
         \/ d \notin ncuList /\ ~partial /\ ~(ev.e = "ADD" /\ ev.h[1] = d)

LEMMA HandlerLists ==
    ASSUME TypeOK, NwamdOK, NEW ev, Unpost(ev), Handler
    PROVE  Lists(ev)
<1>t. /\ ncuList \subseteq Devs /\ opened \subseteq ncuList \X Classes
      /\ handles \subseteq Devs \X Classes /\ partial \in BOOLEAN
  BY DEF TypeOK, Handles
<1>0. ASSUME ncuList' = ncuList, opened' = opened, partial' = partial, ev.e \notin {"ADD", "DESTROY"}
      PROVE  Lists(ev)
  BY <1>t, <1>0 DEF Lists
<1>1. CASE HandleReload
  <2>1. Reload /\ ev.e # "DESTROY" /\ (ev.e = "ADD" => ev.h[1] \notin ncuList)
    <3>1. CASE Unpost([e |-> "NCP_ONLINE"])
      <4>1. ev = [e |-> "NCP_ONLINE"]
        BY <3>1, Same
      <4> QED BY <1>1, <4>1 DEF HandleReload
    <3>2. ASSUME NEW h \in Handles, h[1] \notin ncuList, Unpost([e |-> "ADD", h |-> h])
          PROVE  ev.e = "ADD" /\ ev.h[1] \notin ncuList
      <4>1. ev = [e |-> "ADD", h |-> h]
        BY <3>2, Same
      <4> QED BY <3>2, <4>1
    <3> QED BY <1>1, <3>1, <3>2 DEF HandleReload
  <2> QED BY <2>1, ReloadFacts DEF Lists
<1>2. CASE HandleAddAgain
  <2>1. PICK h \in Handles : /\ h[1] \in ncuList /\ Unpost([e |-> "ADD", h |-> h])
                             /\ opened' = opened \cup ReadHandles({h[1]})
    BY <1>2 DEF HandleAddAgain
  <2>2. ev = [e |-> "ADD", h |-> h]
    BY <2>1, Same
  <2>3. ncuList' = ncuList /\ partial' = partial
    BY <1>2 DEF HandleAddAgain, listVars
  <2>4. opened' \subseteq ncuList' \X Classes
    BY <1>t, <2>1, <2>3 DEF ReadHandles
  <2>5. \A d \in ncuList' : ev.h[1] = d => Read(d, opened')
    BY <2>1, <2>2 DEF Read, ReadHandles
  <2> QED BY <1>t, <2>1, <2>2, <2>3, <2>4, <2>5 DEF Lists
<1>3. CASE HandleDestroy
  <2>1. PICK h \in Handles : Unpost([e |-> "DESTROY", h |-> h]) /\ ncuList' = ncuList \ Removed(h)
    BY <1>3 DEF HandleDestroy
  <2>2. ev = [e |-> "DESTROY", h |-> h]
    BY <2>1, Same
  <2>3. /\ opened' = {x \in opened : x[1] \in ncuList'} /\ partial' = partial
        /\ ncuList' = ncuList \ {h[1]}
    BY <1>3, <2>1 DEF HandleDestroy, Removed
  <2>4. opened' \subseteq ncuList' \X Classes
    BY <1>t, <2>3
  <2>5. \A d \in ncuList' : \A k \in Classes : <<d, k>> \in opened => <<d, k>> \in opened'
    BY <2>3
  <2> QED BY <1>t, <2>2, <2>3, <2>4, <2>5 DEF Lists
<1>4. CASE HandleIfState
  <2>1. PICK d \in Devs, b \in BOOLEAN :
          /\ Unpost([e |-> "IF_STATE", d |-> d, up |-> b])
          /\ ncuList' = ncuList /\ opened' = opened /\ partial' = partial
    BY <1>4 DEF HandleIfState, listVars
  <2>2. ev = [e |-> "IF_STATE", d |-> d, up |-> b]
    BY <2>1, Same
  <2> QED BY <1>0, <2>1, <2>2
<1>5. CASE HandleLinkState
  <2>1. PICK d \in Devs, n \in Needs :
          /\ Unpost([e |-> "LINK_STATE", d |-> d, aux |-> n])
          /\ ncuList' = ncuList /\ opened' = opened /\ partial' = partial
    BY <1>5 DEF HandleLinkState, listVars
  <2>2. ev = [e |-> "LINK_STATE", d |-> d, aux |-> n]
    BY <2>1, Same
  <2> QED BY <1>0, <2>1, <2>2
<1>6. CASE HandlePriorityGroup
  <2>1. PICK g \in Groups : Unpost([e |-> "PRIORITY_GROUP", g |-> g])
    BY <1>6 DEF HandlePriorityGroup
  <2>2. ev = [e |-> "PRIORITY_GROUP", g |-> g]
    BY <2>1, Same
  <2>3. ncuList' = ncuList /\ opened' = opened /\ partial' = partial
    BY <1>6 DEF HandlePriorityGroup, listVars
  <2> QED BY <1>0, <2>2, <2>3
<1> QED BY <1>1, <1>2, <1>3, <1>4, <1>5, <1>6 DEF Handler

\* What a handler leaves cached before anything is read: what was cached of an
\* NCU that was and stays on the list, or what the event tells.
KeptUp(ev, c, d) ==
    \/ c[d] = "uninit"
    \/ /\ d \in ncuList /\ d \in ncuList'
       /\ IF ev.e = "IF_STATE" /\ ev.d = d
          THEN c[d] = IF ev.up THEN "up" ELSE "down" ELSE c[d] = cached[d]
KeptAux(ev, l, d) ==
    \/ l[d] = "uninit"
    \/ /\ d \in ncuList /\ d \in ncuList'
       /\ IF ev.e = "LINK_STATE" /\ ev.d = d THEN l[d] = ev.aux ELSE l[d] = linkCached[d]

LEMMA HandlerStates ==
    ASSUME TypeOK, NEW ev, Unpost(ev), Handler, ev.e # "PRIORITY_GROUP"
    PROVE  \E c \in [Devs -> UpStates], l \in [Devs -> AuxStates] :
              /\ UpdateStatus(c, l)
              /\ \A d \in Devs : KeptUp(ev, c, d) /\ KeptAux(ev, l, d)
<1>t. /\ cached \in [Devs -> UpStates] /\ linkCached \in [Devs -> AuxStates]
      /\ \A d \in Devs \ ncuList : cached[d] = "uninit" /\ linkCached[d] = "uninit"
  BY DEF TypeOK, UpStates, AuxStates
<1>k. ASSUME NEW D, UpdateStatus(Keep(cached, D), Keep(linkCached, D)),
             D \subseteq ncuList, D \subseteq ncuList', ev.e \notin {"IF_STATE", "LINK_STATE"}
      PROVE  \E c \in [Devs -> UpStates], l \in [Devs -> AuxStates] :
                /\ UpdateStatus(c, l)
                /\ \A d \in Devs : KeptUp(ev, c, d) /\ KeptAux(ev, l, d)
  <2> DEFINE c == Keep(cached, D)
             l == Keep(linkCached, D)
  <2>1. /\ c \in [Devs -> UpStates]
        /\ \A d \in Devs : c[d] = IF d \in D THEN cached[d] ELSE "uninit"
    BY <1>t DEF Keep, UpStates
  <2>2. /\ l \in [Devs -> AuxStates]
        /\ \A d \in Devs : l[d] = IF d \in D THEN linkCached[d] ELSE "uninit"
    BY <1>t DEF Keep, AuxStates
  <2>3. UpdateStatus(c, l)
    BY <1>k
  <2> HIDE DEF c, l
  <2>4. \A d \in Devs : KeptUp(ev, c, d) /\ KeptAux(ev, l, d)
    BY <1>k, <2>1, <2>2 DEF KeptUp, KeptAux
  <2> QED BY <2>1, <2>2, <2>3, <2>4
<1>1. CASE HandleReload
  <2>1. ev.e \notin {"IF_STATE", "LINK_STATE"}
    <3>1. CASE Unpost([e |-> "NCP_ONLINE"])
      <4>1. ev = [e |-> "NCP_ONLINE"]
        BY <3>1, Same
      <4> QED BY <4>1
    <3>2. ASSUME NEW h \in Handles, Unpost([e |-> "ADD", h |-> h]) PROVE ev.e = "ADD"
      <4>1. ev = [e |-> "ADD", h |-> h]
        BY <3>2, Same
      <4> QED BY <4>1
    <3> QED BY <1>1, <3>1, <3>2 DEF HandleReload
  <2>2. UpdateStatus(Keep(cached, ncuList \cap ncuList'), Keep(linkCached, ncuList \cap ncuList'))
    BY <1>1 DEF HandleReload, Reload
  <2> QED BY <1>k, <2>1, <2>2
<1>2. CASE HandleAddAgain
  <2>1. PICK h \in Handles : Unpost([e |-> "ADD", h |-> h])
    BY <1>2 DEF HandleAddAgain
  <2>2. ev = [e |-> "ADD", h |-> h]
    BY <2>1, Same
  <2>3. ncuList' = ncuList /\ UpdateStatus(cached, linkCached)
    BY <1>2 DEF HandleAddAgain, listVars
  <2>4. \A d \in Devs : KeptUp(ev, cached, d) /\ KeptAux(ev, linkCached, d)
    BY <1>t, <2>2, <2>3 DEF KeptUp, KeptAux
  <2> QED BY <1>t, <2>3, <2>4
<1>3. CASE HandleDestroy
  <2>1. PICK h \in Handles : Unpost([e |-> "DESTROY", h |-> h]) /\ ncuList' = ncuList \ Removed(h)
    BY <1>3 DEF HandleDestroy
  <2>2. ev = [e |-> "DESTROY", h |-> h]
    BY <2>1, Same
  <2>3. UpdateStatus(Keep(cached, ncuList'), Keep(linkCached, ncuList'))
    BY <1>3 DEF HandleDestroy
  <2> QED BY <1>k, <2>1, <2>2, <2>3
<1>4. CASE HandleIfState
  <2> DEFINE c(d, b) == IF d \in ncuList
                        THEN [cached EXCEPT ![d] = IF b THEN "up" ELSE "down"] ELSE cached
  <2>1. PICK d \in Devs, b \in BOOLEAN :
          /\ Unpost([e |-> "IF_STATE", d |-> d, up |-> b])
          /\ ncuList' = ncuList /\ UpdateStatus(c(d, b), linkCached)
    BY <1>4 DEF HandleIfState, listVars
  <2>2. ev = [e |-> "IF_STATE", d |-> d, up |-> b]
    BY <2>1, Same
  <2>3. c(d, b) \in [Devs -> UpStates]
    BY <1>t DEF UpStates
  <2>4. \A x \in Devs : KeptUp(ev, c(d, b), x) /\ KeptAux(ev, linkCached, x)
    BY <1>t, <2>1, <2>2 DEF KeptUp, KeptAux
  <2> HIDE DEF c
  <2> QED BY <1>t, <2>1, <2>3, <2>4
<1>5. CASE HandleLinkState
  <2> DEFINE l(d, n) == IF d \in ncuList THEN [linkCached EXCEPT ![d] = n] ELSE linkCached
  <2>1. PICK d \in Devs, n \in Needs :
          /\ Unpost([e |-> "LINK_STATE", d |-> d, aux |-> n])
          /\ ncuList' = ncuList /\ UpdateStatus(cached, l(d, n))
    BY <1>5 DEF HandleLinkState, listVars
  <2>2. ev = [e |-> "LINK_STATE", d |-> d, aux |-> n]
    BY <2>1, Same
  <2>3. l(d, n) \in [Devs -> AuxStates]
    BY <1>t DEF AuxStates
  <2>4. \A x \in Devs : KeptUp(ev, cached, x) /\ KeptAux(ev, l(d, n), x)
    BY <1>t, <2>1, <2>2 DEF KeptUp, KeptAux
  <2> HIDE DEF l
  <2> QED BY <1>t, <2>1, <2>3, <2>4
<1>6. CASE HandlePriorityGroup
  <2>1. PICK g \in Groups : Unpost([e |-> "PRIORITY_GROUP", g |-> g])
    BY <1>6 DEF HandlePriorityGroup
  <2>2. ev = [e |-> "PRIORITY_GROUP", g |-> g]
    BY <2>1, Same
  <2> QED BY <2>2
<1> QED BY <1>1, <1>2, <1>3, <1>4, <1>5, <1>6 DEF Handler

-----------------------------------------------------------------------------
(* Type correctness.                                                       *)

LEMMA CountedType ==
    ASSUME NEW H, H \subseteq Handles
    PROVE  Counted(H) \in Nat
<1>1. IsFiniteSet(Handles)
  <2>1. IsFiniteSet(Classes)
    <3>1. IsFiniteSet({"link"} \cup {"interface"})
      BY FS_Singleton, FS_AddElement
    <3>2. Classes = {"link"} \cup {"interface"}
      BY DEF Classes
    <3> QED BY <3>1, <3>2
  <2>2. IsFiniteSet(Devs)
    BY DevsAssumption
  <2>3. IsFiniteSet(Devs \X Classes)
    BY <2>1, <2>2, FS_Product
  <2> QED BY <2>3 DEF Handles
<1>2. IsFiniteSet({h \in H : h[1] \in Wireless /\ h[2] = "link"})
  BY <1>1, FS_Subset
<1> QED BY <1>2, FS_CardinalityType DEF Counted

LEMMA NwamdType == TypeOK /\ Nwamd => TypeOK'
<1> SUFFICES ASSUME TypeOK, Nwamd PROVE TypeOK'
  OBVIOUS
<1>1. PICK ev \in Events : Change(ev) /\ Means(ev)
  BY NwamdSteps
<1>t. /\ handles \subseteq Handles /\ phys \subseteq Devs /\ up \subseteq Devs
      /\ aux \in [Devs -> Needs] /\ group \in Groups
  BY DEF TypeOK
<1>2. /\ handles' \subseteq Handles /\ phys' \subseteq Devs /\ up' \subseteq Devs
      /\ aux' \in [Devs -> Needs] /\ group' \in Groups
  <2>1. CASE ev.e = "ADD"
    BY <1>1, <1>t, <2>1, EventTypes DEF Means, Needs
  <2>2. CASE ev.e = "DESTROY"
    BY <1>1, <1>t, <2>2, EventTypes DEF Means
  <2>3. CASE ev.e = "IF_STATE"
    BY <1>1, <1>t, <2>3, EventTypes DEF Means
  <2>4. CASE ev.e = "LINK_STATE"
    BY <1>1, <1>t, <2>4, EventTypes DEF Means
  <2>5. CASE ev.e \in {"PRIORITY_GROUP", "NCP_ONLINE"}
    BY <1>1, <1>t, <2>5, EventTypes DEF Means
  <2> QED BY <1>1, <2>1, <2>2, <2>3, <2>4, <2>5, EventTypes
<1> QED BY <1>1, <1>2, ChangeFacts DEF TypeOK

LEMMA HandlerCountType ==
    ASSUME TypeOK, Handler
    PROVE  wirelessLinkNum' \in Int /\ prioGroup' \in Groups
<1>t. /\ wirelessLinkNum \in Int /\ handles \subseteq Handles /\ ncuList \subseteq Devs
      /\ prioGroup \in Groups
  BY DEF TypeOK
<1>1. CASE HandleReload
  <2>1. PICK seen \in SUBSET handles : \E complete \in BOOLEAN :
           wirelessLinkNum' = Counted({h \in seen : h[1] \in phys}) /\ prioGroup' = prioGroup
    BY <1>1 DEF HandleReload, Reload
  <2>2. {h \in seen : h[1] \in phys} \subseteq Handles
    BY <1>t
  <2> QED BY <1>t, <2>1, <2>2, CountedType
<1>2. CASE HandleDestroy
  <2>1. PICK h \in Handles :
           wirelessLinkNum' = wirelessLinkNum - Cardinality(ncuList \cap Removed(h) \cap Wireless)
    BY <1>2 DEF HandleDestroy
  <2>2. IsFiniteSet(ncuList \cap Removed(h) \cap Wireless)
    BY <1>t, DevsAssumption, FS_Subset
  <2>3. Cardinality(ncuList \cap Removed(h) \cap Wireless) \in Nat
    BY <2>2, FS_CardinalityType
  <2> QED BY <1>t, <1>2, <2>1, <2>3 DEF HandleDestroy
<1>3. CASE HandlePriorityGroup
  BY <1>t, <1>3 DEF HandlePriorityGroup, listVars
<1>4. CASE HandleAddAgain \/ HandleIfState \/ HandleLinkState
  BY <1>t, <1>4 DEF HandleAddAgain, HandleIfState, HandleLinkState, listVars
<1> QED BY <1>1, <1>2, <1>3, <1>4 DEF Handler

\* The states of NCUs that are not listed are not cached.
LEMMA HandlerStateType ==
    ASSUME TypeOK, NwamdOK, NEW ev, Unpost(ev), Handler
    PROVE  /\ \A d \in Devs \ ncuList' : cached'[d] = "uninit" /\ linkCached'[d] = "uninit"
           /\ cached' \in [Devs -> UpStates] /\ linkCached' \in [Devs -> AuxStates]
           /\ good' \in BOOLEAN /\ prompts' \subseteq Prompts
<1>1. CASE ev.e = "PRIORITY_GROUP"
  <2>1. HandlePriorityGroup
    <3>1. \A h \in Handles : ~Unpost([e |-> "ADD", h |-> h]) /\ ~Unpost([e |-> "DESTROY", h |-> h])
      BY <1>1, Same
    <3>2. ~Unpost([e |-> "NCP_ONLINE"])
      BY <1>1, Same
    <3>3. \A d \in Devs, b \in BOOLEAN : ~Unpost([e |-> "IF_STATE", d |-> d, up |-> b])
      BY <1>1, Same
    <3>4. \A d \in Devs, n \in Needs : ~Unpost([e |-> "LINK_STATE", d |-> d, aux |-> n])
      BY <1>1, Same
    <3> QED BY <3>1, <3>2, <3>3, <3>4 DEF Handler, HandleReload, HandleAddAgain, HandleDestroy,
              HandleIfState, HandleLinkState
  <2> QED BY <2>1 DEF HandlePriorityGroup, TypeOK, UpStates, AuxStates, listVars
<1>2. CASE ev.e # "PRIORITY_GROUP"
  <2>1. PICK c \in [Devs -> UpStates], l \in [Devs -> AuxStates] :
           UpdateStatus(c, l) /\ \A d \in Devs : KeptUp(ev, c, d) /\ KeptAux(ev, l, d)
    BY <1>2, HandlerStates
  <2>2. ASSUME NEW d \in Devs \ ncuList' PROVE cached'[d] = "uninit" /\ linkCached'[d] = "uninit"
    <3>1. c[d] = "uninit" /\ l[d] = "uninit"
      BY <2>1, <2>2 DEF KeptUp, KeptAux
    <3> QED BY <2>1, <2>2, <3>1, StatusFacts
  <2>3. ncuList' \subseteq Devs
    BY HandlerLists DEF Lists
  <2>4. prompts' \subseteq Prompts
    BY <2>1, <2>3, PromptFacts
  <2>5. /\ cached' \in [Devs -> UpStates] /\ linkCached' \in [Devs -> AuxStates]
        /\ good' \in BOOLEAN
    BY <2>1, StatusFacts
  <2> QED BY <2>2, <2>4, <2>5
<1> QED BY <1>1, <1>2

LEMMA HandlerType == TypeOK /\ NwamdOK /\ Handler => TypeOK'
<1> SUFFICES ASSUME TypeOK, NwamdOK, Handler PROVE TypeOK'
  OBVIOUS
<1>1. PICK ev : Unpost(ev)
  BY HandlerTakes
<1>2. Lists(ev)
  BY <1>1, HandlerLists
<1>3. /\ \A d \in Devs \ ncuList' : cached'[d] = "uninit" /\ linkCached'[d] = "uninit"
      /\ cached' \in [Devs -> UpStates] /\ linkCached' \in [Devs -> AuxStates]
      /\ good' \in BOOLEAN /\ prompts' \subseteq Prompts
  BY <1>1, HandlerStateType
<1>4. wirelessLinkNum' \in Int /\ prioGroup' \in Groups
  BY HandlerCountType
<1>5. /\ q' \in Seq(Events)
      /\ handles' = handles /\ phys' = phys /\ up' = up /\ aux' = aux
      /\ group' = group /\ policy' = policy /\ changes' = changes
  BY <1>1, UnpostFacts
<1> QED BY <1>2, <1>3, <1>4, <1>5 DEF TypeOK, Lists, UpStates, AuxStates, Prompts

LEMMA InitType == Init => TypeOK
<1> SUFFICES ASSUME Init PROVE TypeOK
  OBVIOUS
<1>1. PICK D \in SUBSET Devs : handles = D \X Classes /\ phys = D /\ ncuList = D
  BY DEF Init
<1>2. /\ up \in SUBSET phys /\ aux \in [Devs -> {"none"}] /\ group \in Groups
      /\ policy \in [Devs -> Policies] /\ changes = 0 /\ q = <<>>
      /\ prioGroup = group /\ opened = handles /\ prompts = {} /\ partial = FALSE
  BY DEF Init
<1>3. handles \subseteq Handles /\ opened \subseteq ncuList \X Classes
  BY <1>1, <1>2 DEF Handles
<1>4. wirelessLinkNum \in Int
  <2>1. IsFiniteSet(ncuList \cap Wireless)
    BY <1>1, DevsAssumption, FS_Subset
  <2> QED BY <2>1, FS_CardinalityType DEF Init
<1>a. aux \in [Devs -> Needs]
  BY <1>2 DEF Needs
<1>5. /\ cached \in [Devs -> UpStates]
      /\ \A d \in Devs \ ncuList : cached[d] = "uninit"
  BY DEF Init, FetchUp, UpStates
<1>6. /\ linkCached \in [Devs -> AuxStates]
      /\ \A d \in Devs \ ncuList : linkCached[d] = "uninit"
  BY <1>a, AskedListed DEF Init, FetchAux, AuxStates
<1>7. good \in BOOLEAN
  BY OnlineType DEF Init
<1>8. q \in Seq(Events) /\ changes \in 0 .. MaxChanges
  BY <1>2, BoundsAssumption
<1> QED BY <1>1, <1>2, <1>3, <1>4, <1>a, <1>5, <1>6, <1>7, <1>8 DEF TypeOK, UpStates, AuxStates

-----------------------------------------------------------------------------
(* nwamd's own state.                                                      *)

LEMMA NwamdKeepsOK ==
    ASSUME TypeOK, NwamdOK, NEW ev \in Events, Means(ev)
    PROVE  NwamdOK'
<1>t. handles \subseteq Handles /\ up \subseteq Devs /\ phys \subseteq Devs
  BY DEF TypeOK
<1>1. CASE ev.e = "ADD"
  <2>0. ev.h = <<ev.h[1], ev.h[2]>> /\ ev.h[1] \in Devs /\ ev.h[2] \in Classes
    BY <1>1, EventTypes
  <2>1. /\ handles' = handles \cup {ev.h} /\ phys' = phys \cup {ev.h[1]}
        /\ up' \subseteq up
    BY <1>1 DEF Means
  <2>2. ASSUME NEW d \in Devs, Whole(handles', d) PROVE d \in phys'
    <3>1. CASE d = ev.h[1]
      BY <2>1, <3>1
    <3>2. CASE d # ev.h[1]
      <4>1. Whole(handles, d)
        BY <2>0, <2>1, <2>2, <3>2 DEF Whole
      <4> QED BY <2>1, <4>1 DEF NwamdOK
    <3> QED BY <3>1, <3>2
  <2> QED BY <2>1, <2>2 DEF NwamdOK
<1>2. CASE ev.e = "DESTROY"
  <2>0. /\ ev.h = <<ev.h[1], ev.h[2]>> /\ ev.h[1] \in Devs
        /\ ev.h[2] \in {"link", "interface"}
    BY <1>2, EventTypes DEF Classes
  <2>1. /\ handles' = handles \ {ev.h} /\ (phys' = phys \/ phys' = phys \ {ev.h[1]})
        /\ up' = IF ev.h[2] = "interface" THEN up \ {ev.h[1]} ELSE up
    BY <1>2 DEF Means
  <2>2. ASSUME NEW d \in Devs, Whole(handles', d) PROVE d \in phys'
    <3>1. d # ev.h[1] /\ Whole(handles, d)
      BY <2>0, <2>1, <2>2 DEF Whole
    <3> QED BY <2>1, <3>1 DEF NwamdOK
  <2>3. ASSUME NEW d \in up' PROVE <<d, "interface">> \in handles'
    <3>1. d \in up /\ <<d, "interface">> \in handles
      BY <2>1, <2>3 DEF NwamdOK
    <3>2. <<d, "interface">> # ev.h
      BY <2>0, <2>1, <2>3
    <3> QED BY <2>1, <3>1, <3>2
  <2> QED BY <2>2, <2>3 DEF NwamdOK
<1>3. CASE ev.e = "IF_STATE"
  <2>1. /\ <<ev.d, "interface">> \in handles /\ up' \subseteq up \cup {ev.d}
        /\ handles' = handles /\ phys' = phys
    BY <1>3 DEF Means
  <2> QED BY <2>1 DEF NwamdOK
<1>4. CASE ev.e \in {"LINK_STATE", "PRIORITY_GROUP", "NCP_ONLINE"}
  <2>1. handles' = handles /\ phys' = phys /\ up' = up
    BY <1>4 DEF Means
  <2> QED BY <2>1 DEF NwamdOK
<1> QED BY <1>1, <1>2, <1>3, <1>4, EventTypes

\* What a change of nwamd's leaves of the NCUs the event is not about.
LEMMA Untouched ==
    ASSUME TypeOK, NwamdOK, NEW ev \in Events, Means(ev), NEW d \in Devs
    PROVE  /\ ev \notin HandleEvents(d) =>
                \A k \in Classes : <<d, k>> \in handles' <=> <<d, k>> \in handles
           /\ ev \notin UpEvents(d) => (d \in up' <=> d \in up)
           /\ ev \notin AuxEvents(d) =>
                \/ aux'[d] = aux[d] /\ (<<d, "link">> \in handles => <<d, "link">> \in handles')
                \/ <<d, "link">> \notin handles
<1>t. handles \subseteq Handles /\ up \subseteq Devs /\ aux \in [Devs -> Needs]
  BY DEF TypeOK
<1>1. CASE ev.e = "ADD"
  <2>0. /\ ev.h = <<ev.h[1], ev.h[2]>> /\ ev.h[1] \in Devs /\ ev.h[2] \in Classes
        /\ ev.h[2] \in {"link", "interface"}
    BY <1>1, EventTypes DEF Classes
  <2>1. /\ handles' = handles \cup {ev.h} /\ ev.h \notin handles
        /\ up' = IF ev.h[2] = "interface" THEN up \ {ev.h[1]} ELSE up
        /\ aux' = IF ev.h[2] = "link" THEN [aux EXCEPT ![ev.h[1]] = "none"] ELSE aux
    BY <1>1 DEF Means
  <2>2. ev \notin HandleEvents(d) => d # ev.h[1]
    BY <1>1 DEF HandleEvents
  <2>3. d # ev.h[1] => /\ \A k \in Classes : <<d, k>> \in handles' <=> <<d, k>> \in handles
                       /\ aux'[d] = aux[d]
    BY <1>t, <2>0, <2>1
  <2>4. d \in up' <=> d \in up
    <3>1. CASE ev.h[2] = "interface"
      <4>1. ev.h[1] \notin up
        BY <2>0, <2>1, <3>1 DEF NwamdOK
      <4> QED BY <2>1, <3>1, <4>1
    <3>2. CASE ev.h[2] # "interface"
      BY <2>1, <3>2
    <3> QED BY <3>1, <3>2
  <2>5. \/ aux'[d] = aux[d] /\ (<<d, "link">> \in handles => <<d, "link">> \in handles')
        \/ <<d, "link">> \notin handles
    <3>1. CASE ev.h = <<d, "link">>
      BY <2>1, <3>1
    <3>2. CASE ev.h # <<d, "link">>
      <4>1. aux'[d] = aux[d]
        BY <1>t, <2>0, <2>1, <3>2
      <4> QED BY <2>1, <4>1
    <3> QED BY <3>1, <3>2
  <2> QED BY <2>2, <2>3, <2>4, <2>5
<1>2. CASE ev.e = "DESTROY"
  <2>0. ev.h = <<ev.h[1], ev.h[2]>> /\ ev.h[1] \in Devs /\ ev.h[2] \in Classes
    BY <1>2, EventTypes
  <2>1. /\ handles' = handles \ {ev.h} /\ aux' = aux
        /\ up' = IF ev.h[2] = "interface" THEN up \ {ev.h[1]} ELSE up
    BY <1>2 DEF Means
  <2>2. /\ ev \notin HandleEvents(d) => d # ev.h[1]
        /\ ev \notin UpEvents(d) => d # ev.h[1]
        /\ ev \notin AuxEvents(d) => d # ev.h[1]
    BY <1>2 DEF HandleEvents, UpEvents, AuxEvents
  <2>3. d # ev.h[1] => /\ \A k \in Classes : <<d, k>> \in handles' <=> <<d, k>> \in handles
                       /\ <<d, "link">> \in handles' <=> <<d, "link">> \in handles
                       /\ d \in up' <=> d \in up
    BY <2>0, <2>1
  <2> QED BY <2>1, <2>2, <2>3
<1>3. CASE ev.e = "IF_STATE"
  <2>1. up' \in {up \ {ev.d}, up \cup {ev.d}} /\ handles' = handles /\ aux' = aux
    BY <1>3 DEF Means
  <2>2. ev \notin UpEvents(d) => d # ev.d
    BY <1>3 DEF UpEvents
  <2> QED BY <2>1, <2>2
<1>4. CASE ev.e = "LINK_STATE"
  <2>1. aux' = [aux EXCEPT ![ev.d] = ev.aux] /\ handles' = handles /\ up' = up
    BY <1>4 DEF Means
  <2>2. ev \notin AuxEvents(d) => d # ev.d
    BY <1>4 DEF AuxEvents
  <2>3. d # ev.d => aux'[d] = aux[d]
    BY <1>t, <2>1
  <2> QED BY <1>4, <2>1, <2>2, <2>3
<1>5. CASE ev.e \in {"PRIORITY_GROUP", "NCP_ONLINE"}
  <2>1. handles' = handles /\ up' = up /\ aux' = aux
    BY <1>5 DEF Means
  <2> QED BY <2>1
<1> QED BY <1>1, <1>2, <1>3, <1>4, <1>5, EventTypes

-----------------------------------------------------------------------------
(* The list of NCUs.                                                       *)

LEMMA NwamdKeepsList ==
    ASSUME TypeOK, NwamdOK, ListFollows, NEW ev \in Events, Change(ev), Means(ev)
    PROVE  ListFollows'
<1> SUFFICES ASSUME NEW d \in Devs, SettledOf(handles', d)
             PROVE  /\ Ends(q', HandleEvents(d), HandleSays(d, handles'))
                    /\ NoneIn(q', HandleEvents(d)) =>
                         /\ d \in ncuList' => /\ Whole(handles', d) /\ <<d, "interface">> \in opened'
                                              /\ cached'[d] # "uninit"
                         /\ Whole(handles', d) /\ ~partial' => d \in ncuList'
  BY DEF ListFollows
<1>q. /\ q \in Seq(Events) /\ q' = Append(q, ev)
      /\ UNCHANGED <<ncuList, opened, cached, partial>>
  BY ChangeFacts
<1>1. CASE ev \in HandleEvents(d)
  <2>1. ev.e \in {"ADD", "DESTROY"} /\ ev.h[1] = d /\ ev.h = <<d, ev.h[2]>> /\ ev.h[2] \in {"link", "interface"}
    BY <1>1, EventTypes DEF HandleEvents, Classes
  <2>2. /\ ev.e = "ADD" => handles' = handles \cup {ev.h}
        /\ ev.e = "DESTROY" => handles' = handles \ {ev.h}
    BY DEF Means
  <2>3. Whole(handles', d) <=> ev.e = "ADD"
    BY <2>1, <2>2 DEF SettledOf, Whole
  <2>4. ev \in HandleSays(d, handles')
    BY <2>1, <2>3 DEF HandleSays
  <2>5. Ends(q', HandleEvents(d), HandleSays(d, handles'))
    BY <1>1, <1>q, <2>4, EndsAppend
  <2>6. ~NoneIn(q', HandleEvents(d))
    BY <1>1, <1>q, NoneAppend
  <2> QED BY <2>5, <2>6
<1>2. CASE ev \notin HandleEvents(d)
  <2>1. \A k \in Classes : <<d, k>> \in handles' <=> <<d, k>> \in handles
    BY <1>2, Untouched
  <2>2. SettledOf(handles, d) /\ (Whole(handles', d) <=> Whole(handles, d))
    BY <2>1 DEF SettledOf, Whole, Classes
  <2>3. HandleSays(d, handles') = HandleSays(d, handles)
    BY <2>2 DEF HandleSays
  <2>4. Ends(q', HandleEvents(d), HandleSays(d, handles'))
    BY <1>2, <1>q, <2>2, <2>3, EndsAppendOther DEF ListFollows
  <2>5. NoneIn(q', HandleEvents(d)) => NoneIn(q, HandleEvents(d))
    BY <1>q, NoneAppend
  <2> QED BY <1>q, <2>2, <2>4, <2>5 DEF ListFollows
<1> QED BY <1>1, <1>2

\* An NCU on the list of which everything is read has a state.
LEMMA HandlerReads ==
    ASSUME TypeOK, NwamdOK, NEW ev, Unpost(ev), Handler, ev.e # "PRIORITY_GROUP",
           NEW d \in ncuList', <<d, "interface">> \in opened', <<d, "interface">> \in handles
    PROVE  cached'[d] # "uninit"
<1>1. PICK c \in [Devs -> UpStates], l \in [Devs -> AuxStates] : UpdateStatus(c, l)
  BY HandlerStates
<1>2. d \in Devs
  BY HandlerLists DEF Lists
<1> QED BY <1>1, <1>2, StatusFacts

\* The handler of a new priority group leaves everything else as it is.
LEMMA GroupHandler ==
    ASSUME NEW ev, Unpost(ev), Handler, ev.e = "PRIORITY_GROUP"
    PROVE  /\ prioGroup' = ev.g /\ prompts' = {}
           /\ UNCHANGED <<ncuList, wirelessLinkNum, opened, cached, linkCached, good, partial>>
<1>1. \A h \in Handles : ~Unpost([e |-> "ADD", h |-> h]) /\ ~Unpost([e |-> "DESTROY", h |-> h])
  BY Same
<1>2. ~Unpost([e |-> "NCP_ONLINE"])
  BY Same
<1>3. \A d \in Devs, b \in BOOLEAN : ~Unpost([e |-> "IF_STATE", d |-> d, up |-> b])
  BY Same
<1>4. \A d \in Devs, n \in Needs : ~Unpost([e |-> "LINK_STATE", d |-> d, aux |-> n])
  BY Same
<1>5. HandlePriorityGroup
  BY <1>1, <1>2, <1>3, <1>4 DEF Handler, HandleReload, HandleAddAgain, HandleDestroy,
     HandleIfState, HandleLinkState
<1>6. PICK g \in Groups : Unpost([e |-> "PRIORITY_GROUP", g |-> g]) /\ prioGroup' = g
  BY <1>5 DEF HandlePriorityGroup
<1>7. ev = [e |-> "PRIORITY_GROUP", g |-> g]
  BY <1>6, Same
<1> QED BY <1>5, <1>6, <1>7 DEF HandlePriorityGroup, listVars

LEMMA HandlerKeepsList ==
    ASSUME TypeOK, NwamdOK, ListFollows, Handler
    PROVE  ListFollows'
<1>1. PICK ev : Unpost(ev)
  BY HandlerTakes
<1>2. /\ q \in Seq(Events) /\ q # <<>> /\ Head(q) = ev /\ ev \in Events /\ q' = Tail(q)
      /\ handles' = handles
  BY <1>1, UnpostFacts
<1>3. Lists(ev)
  BY <1>1, HandlerLists
<1> SUFFICES ASSUME NEW d \in Devs, SettledOf(handles, d)
             PROVE  /\ Ends(q', HandleEvents(d), HandleSays(d, handles))
                    /\ NoneIn(q', HandleEvents(d)) =>
                         /\ d \in ncuList' => /\ Whole(handles, d) /\ <<d, "interface">> \in opened'
                                              /\ cached'[d] # "uninit"
                         /\ Whole(handles, d) /\ ~partial' => d \in ncuList'
  BY <1>2 DEF ListFollows
<1>4. Ends(q, HandleEvents(d), HandleSays(d, handles))
  BY DEF ListFollows
<1>5. /\ Ends(q', HandleEvents(d), HandleSays(d, handles))
      /\ NoneIn(q', HandleEvents(d)) =>
           NoneIn(q, HandleEvents(d)) \/ (ev \in HandleEvents(d) /\ ev \in HandleSays(d, handles))
  BY <1>2, <1>4, EndsTail
<1>6. Known(d) => Whole(handles, d)
  BY DEF Known, SettledOf, Whole, Classes
<1>7. Whole(handles, d) /\ Read(d, opened') => <<d, "interface">> \in opened'
  BY DEF Whole, Read, Classes
<1>8. ASSUME NoneIn(q, HandleEvents(d))
      PROVE  /\ d \in ncuList' => /\ Whole(handles, d) /\ <<d, "interface">> \in opened'
                                  /\ cached'[d] # "uninit"
             /\ Whole(handles, d) /\ ~partial' => d \in ncuList'
  <2>1. /\ d \in ncuList => /\ Whole(handles, d) /\ <<d, "interface">> \in opened
                            /\ cached[d] # "uninit"
        /\ Whole(handles, d) /\ ~partial => d \in ncuList
    BY <1>8 DEF ListFollows
  <2>2. ev \notin HandleEvents(d)
    BY <1>2, <1>8, NoneTail
  <2>3. ~(ev.e \in {"ADD", "DESTROY"} /\ ev.h[1] = d)
    BY <1>2, <2>2 DEF HandleEvents
  <2>4. ASSUME d \in ncuList' PROVE Whole(handles, d) /\ <<d, "interface">> \in opened'
    <3>1. CASE d \in ncuList /\ \A k \in Classes : <<d, k>> \in opened => <<d, k>> \in opened'
      BY <2>1, <3>1 DEF Classes
    <3>2. CASE Known(d) /\ Read(d, opened')
      BY <1>6, <1>7, <3>2
    <3> QED BY <1>3, <2>4, <3>1, <3>2 DEF Lists
  <2>5. ASSUME d \in ncuList' PROVE cached'[d] # "uninit"
    <3>1. CASE ev.e = "PRIORITY_GROUP"
      BY <1>1, <2>1, <2>5, <3>1, GroupHandler
    <3>2. CASE ev.e # "PRIORITY_GROUP"
      BY <1>1, <2>4, <2>5, <3>2, HandlerReads DEF Whole
    <3> QED BY <3>1, <3>2
  <2>6. Whole(handles, d) /\ ~partial' => d \in ncuList'
    BY <1>3, <2>1, <2>3 DEF Lists
  <2> QED BY <2>4, <2>5, <2>6
<1>9. ASSUME ev \in HandleEvents(d), ev \in HandleSays(d, handles)
      PROVE  /\ d \in ncuList' => /\ Whole(handles, d) /\ <<d, "interface">> \in opened'
                                  /\ cached'[d] # "uninit"
             /\ Whole(handles, d) /\ ~partial' => d \in ncuList'
  <2>1. ev.e \in {"ADD", "DESTROY"} /\ ev.h[1] = d /\ (ev.e = "ADD" <=> Whole(handles, d))
    BY <1>9 DEF HandleEvents, HandleSays
  <2>2. ASSUME d \in ncuList' PROVE Whole(handles, d) /\ <<d, "interface">> \in opened'
    <3>1. ev.e = "ADD"
      BY <1>3, <2>1, <2>2 DEF Lists
    <3> QED BY <1>3, <1>7, <2>1, <2>2, <3>1 DEF Lists
  <2>3. ASSUME d \in ncuList' PROVE cached'[d] # "uninit"
    BY <1>1, <2>1, <2>2, <2>3, HandlerReads DEF Whole
  <2>4. Whole(handles, d) /\ ~partial' => d \in ncuList'
    BY <1>3, <2>1 DEF Lists
  <2> QED BY <2>2, <2>3, <2>4
<1> QED BY <1>5, <1>8, <1>9

-----------------------------------------------------------------------------
(* The states of interfaces.                                               *)

LEMMA NwamdKeepsUp ==
    ASSUME TypeOK, NwamdOK, UpFollows, NEW ev \in Events, Change(ev), Means(ev)
    PROVE  UpFollows'
<1> SUFFICES ASSUME NEW d \in Devs
             PROVE  /\ Ends(q', UpEvents(d), UpSays(d, up'))
                    /\ NoneIn(q', UpEvents(d)) /\ d \in ncuList' =>
                         cached'[d] \in {"uninit", UpOf(up', d)}
  BY DEF UpFollows
<1>q. q \in Seq(Events) /\ q' = Append(q, ev) /\ UNCHANGED <<ncuList, cached>>
  BY ChangeFacts
<1>1. CASE ev \in UpEvents(d)
  <2>1. ev.e = "DESTROY" \/ (ev.e = "IF_STATE" /\ ev.d = d /\ (ev.up <=> ev.d \in up'))
    BY <1>1 DEF UpEvents, Means
  <2>2. ev \in UpSays(d, up')
    BY <2>1 DEF UpSays
  <2> QED BY <1>1, <1>q, <2>2, EndsAppend, NoneAppend
<1>2. CASE ev \notin UpEvents(d)
  <2>1. d \in up' <=> d \in up
    BY <1>2, Untouched
  <2>2. UpSays(d, up') = UpSays(d, up) /\ UpOf(up', d) = UpOf(up, d)
    BY <2>1 DEF UpSays, UpOf
  <2>3. Ends(q', UpEvents(d), UpSays(d, up'))
    BY <1>2, <1>q, <2>2, EndsAppendOther DEF UpFollows
  <2>4. NoneIn(q', UpEvents(d)) => NoneIn(q, UpEvents(d))
    BY <1>q, NoneAppend
  <2> QED BY <1>q, <2>2, <2>3, <2>4 DEF UpFollows
<1> QED BY <1>1, <1>2

LEMMA HandlerKeepsUp ==
    ASSUME TypeOK, NwamdOK, UpFollows, Handler
    PROVE  UpFollows'
<1>1. PICK ev : Unpost(ev)
  BY HandlerTakes
<1>2. /\ q \in Seq(Events) /\ q # <<>> /\ Head(q) = ev /\ ev \in Events /\ q' = Tail(q)
      /\ up' = up
  BY <1>1, UnpostFacts
<1>3. Lists(ev)
  BY <1>1, HandlerLists
<1> SUFFICES ASSUME NEW d \in Devs
             PROVE  /\ Ends(q', UpEvents(d), UpSays(d, up))
                    /\ NoneIn(q', UpEvents(d)) /\ d \in ncuList' =>
                         cached'[d] \in {"uninit", UpOf(up, d)}
  BY <1>2 DEF UpFollows
<1>4. /\ Ends(q, UpEvents(d), UpSays(d, up))
      /\ NoneIn(q, UpEvents(d)) /\ d \in ncuList => cached[d] \in {"uninit", UpOf(up, d)}
  BY DEF UpFollows
<1>5. /\ Ends(q', UpEvents(d), UpSays(d, up))
      /\ NoneIn(q', UpEvents(d)) =>
           NoneIn(q, UpEvents(d)) \/ (ev \in UpEvents(d) /\ ev \in UpSays(d, up))
  BY <1>2, <1>4, EndsTail
<1>6. ASSUME NoneIn(q', UpEvents(d)), d \in ncuList'
      PROVE  cached'[d] \in {"uninit", UpOf(up, d)}
  <2>1. CASE ev.e = "PRIORITY_GROUP"
    <3>1. ev \notin UpEvents(d)
      BY <2>1 DEF UpEvents
    <3>2. ncuList' = ncuList /\ cached' = cached
      BY <1>1, <2>1, GroupHandler
    <3> QED BY <1>4, <1>5, <1>6, <3>1, <3>2
  <2>2. CASE ev.e # "PRIORITY_GROUP"
    <3>1. PICK c \in [Devs -> UpStates], l \in [Devs -> AuxStates] :
             UpdateStatus(c, l) /\ \A x \in Devs : KeptUp(ev, c, x)
      BY <1>1, <2>2, HandlerStates
    <3>2. cached'[d] = c[d] \/ cached'[d] = UpOf(up, d)
      BY <3>1, StatusFacts
    <3>3. CASE NoneIn(q, UpEvents(d))
      <4>1. ev \notin UpEvents(d)
        BY <1>2, <3>3, NoneTail
      <4>2. ~(ev.e = "IF_STATE" /\ ev.d = d)
        BY <1>2, <4>1 DEF UpEvents
      <4>3. c[d] = "uninit" \/ (d \in ncuList /\ c[d] = cached[d])
        BY <3>1, <4>2 DEF KeptUp
      <4> QED BY <1>4, <3>2, <3>3, <4>3
    <3>4. CASE ev \in UpEvents(d) /\ ev \in UpSays(d, up)
      <4>1. ev.e # "DESTROY"
        BY <1>3, <1>6, <3>4 DEF UpEvents, Lists
      <4>2. ev.e = "IF_STATE" /\ ev.d = d /\ (ev.up <=> d \in up)
        BY <3>4, <4>1 DEF UpEvents, UpSays
      <4>3. c[d] = "uninit" \/ c[d] = UpOf(up, d)
        BY <3>1, <4>2 DEF KeptUp, UpOf
      <4> QED BY <3>2, <4>3
    <3> QED BY <1>5, <1>6, <3>3, <3>4
  <2> QED BY <2>1, <2>2
<1> QED BY <1>5, <1>6

-----------------------------------------------------------------------------
(* What the links need.                                                    *)

LEMMA NwamdKeepsAux ==
    ASSUME TypeOK, NwamdOK, AuxFollows, NEW ev \in Events, Change(ev), Means(ev)
    PROVE  AuxFollows'
<1> SUFFICES ASSUME NEW d \in Devs
             PROVE  /\ Ends(q', AuxEvents(d), AuxSays(d, handles', aux'))
                    /\ NoneIn(q', AuxEvents(d)) /\ d \in ncuList' =>
                         \/ linkCached'[d] = "uninit"
                         \/ <<d, "link">> \in handles' /\ linkCached'[d] = aux'[d]
  BY DEF AuxFollows
<1>q. q \in Seq(Events) /\ q' = Append(q, ev) /\ UNCHANGED <<ncuList, linkCached>>
  BY ChangeFacts
<1>1. CASE ev \in AuxEvents(d)
  <2>1. CASE ev.e = "DESTROY"
    <3>1. ev \in AuxSays(d, handles', aux')
      BY <2>1 DEF AuxSays
    <3> QED BY <1>1, <1>q, <3>1, EndsAppend, NoneAppend
  <2>2. CASE ev.e # "DESTROY"
    <3>1. ev.e = "LINK_STATE" /\ ev.d = d
      BY <1>1, <2>2 DEF AuxEvents
    <3>2. <<d, "link">> \in handles' /\ aux'[d] = ev.aux
      BY <3>1 DEF Means, TypeOK
    <3>3. ev \in AuxSays(d, handles', aux')
      BY <3>1, <3>2 DEF AuxSays
    <3> QED BY <1>1, <1>q, <3>3, EndsAppend, NoneAppend
  <2> QED BY <2>1, <2>2
<1>2. CASE ev \notin AuxEvents(d)
  <2>1. \/ aux'[d] = aux[d] /\ (<<d, "link">> \in handles => <<d, "link">> \in handles')
        \/ <<d, "link">> \notin handles
    BY <1>2, Untouched
  <2>2. AuxSays(d, handles, aux) \subseteq AuxSays(d, handles', aux')
    BY <2>1 DEF AuxSays
  <2>3. Ends(q', AuxEvents(d), AuxSays(d, handles, aux))
    BY <1>2, <1>q, EndsAppendOther DEF AuxFollows
  <2>4. Ends(q', AuxEvents(d), AuxSays(d, handles', aux'))
    BY <2>2, <2>3, EndsWeaken
  <2>5. NoneIn(q', AuxEvents(d)) => NoneIn(q, AuxEvents(d))
    BY <1>q, NoneAppend
  <2> QED BY <1>q, <2>1, <2>4, <2>5 DEF AuxFollows
<1> QED BY <1>1, <1>2

LEMMA HandlerKeepsAux ==
    ASSUME TypeOK, NwamdOK, AuxFollows, Handler
    PROVE  AuxFollows'
<1>1. PICK ev : Unpost(ev)
  BY HandlerTakes
<1>2. /\ q \in Seq(Events) /\ q # <<>> /\ Head(q) = ev /\ ev \in Events /\ q' = Tail(q)
      /\ handles' = handles /\ aux' = aux
  BY <1>1, UnpostFacts
<1>3. Lists(ev)
  BY <1>1, HandlerLists
<1> DEFINE Right(l, d) == l[d] = "uninit" \/ (<<d, "link">> \in handles /\ l[d] = aux[d])
<1> SUFFICES ASSUME NEW d \in Devs
             PROVE  /\ Ends(q', AuxEvents(d), AuxSays(d, handles, aux))
                    /\ NoneIn(q', AuxEvents(d)) /\ d \in ncuList' => Right(linkCached', d)
  BY <1>2 DEF AuxFollows
<1>4. /\ Ends(q, AuxEvents(d), AuxSays(d, handles, aux))
      /\ NoneIn(q, AuxEvents(d)) /\ d \in ncuList => Right(linkCached, d)
  BY DEF AuxFollows
<1>5. /\ Ends(q', AuxEvents(d), AuxSays(d, handles, aux))
      /\ NoneIn(q', AuxEvents(d)) =>
           NoneIn(q, AuxEvents(d)) \/ (ev \in AuxEvents(d) /\ ev \in AuxSays(d, handles, aux))
  BY <1>2, <1>4, EndsTail
<1>6. ASSUME NoneIn(q', AuxEvents(d)), d \in ncuList'
      PROVE  Right(linkCached', d)
  <2>1. CASE ev.e = "PRIORITY_GROUP"
    <3>1. ev \notin AuxEvents(d)
      BY <2>1 DEF AuxEvents
    <3>2. ncuList' = ncuList /\ linkCached' = linkCached
      BY <1>1, <2>1, GroupHandler
    <3> QED BY <1>4, <1>5, <1>6, <3>1, <3>2
  <2>2. CASE ev.e # "PRIORITY_GROUP"
    <3>1. PICK c \in [Devs -> UpStates], l \in [Devs -> AuxStates] :
             UpdateStatus(c, l) /\ \A x \in Devs : KeptAux(ev, l, x)
      BY <1>1, <2>2, HandlerStates
    <3>2. linkCached'[d] = l[d] \/ (<<d, "link">> \in handles /\ linkCached'[d] = aux[d])
      BY <3>1, StatusFacts
    <3>3. CASE NoneIn(q, AuxEvents(d))
      <4>1. ev \notin AuxEvents(d)
        BY <1>2, <3>3, NoneTail
      <4>2. ~(ev.e = "LINK_STATE" /\ ev.d = d)
        BY <1>2, <4>1 DEF AuxEvents
      <4>3. l[d] = "uninit" \/ (d \in ncuList /\ l[d] = linkCached[d])
        BY <3>1, <4>2 DEF KeptAux
      <4> QED BY <1>4, <3>2, <3>3, <4>3
    <3>4. CASE ev \in AuxEvents(d) /\ ev \in AuxSays(d, handles, aux)
      <4>1. ev.e # "DESTROY"
        BY <1>3, <1>6, <3>4 DEF AuxEvents, Lists
      <4>2. ev.e = "LINK_STATE" /\ ev.d = d /\ <<d, "link">> \in handles /\ ev.aux = aux[d]
        BY <3>4, <4>1 DEF AuxEvents, AuxSays
      <4>3. l[d] = "uninit" \/ l[d] = aux[d]
        BY <3>1, <4>2 DEF KeptAux
      <4> QED BY <3>2, <4>2, <4>3
    <3> QED BY <1>5, <1>6, <3>3, <3>4
  <2> QED BY <2>1, <2>2
<1> QED BY <1>5, <1>6

-----------------------------------------------------------------------------
(* The active priority group, and the prompts.                             *)

LEMMA NwamdKeepsGroup ==
    ASSUME TypeOK, GroupFollows, NEW ev \in Events, Change(ev), Means(ev)
    PROVE  GroupFollows'
<1>q. q \in Seq(Events) /\ q' = Append(q, ev) /\ prioGroup' = prioGroup
  BY ChangeFacts
<1>1. CASE ev.e = "PRIORITY_GROUP"
  <2>1. ev \in GroupEvents /\ ev \in GroupSays(group')
    BY <1>1 DEF Means, GroupEvents, GroupSays
  <2> QED BY <1>q, <2>1, EndsAppend, NoneAppend DEF GroupFollows
<1>2. CASE ev.e # "PRIORITY_GROUP"
  <2>1. ev \notin GroupEvents /\ group' = group
    BY <1>2 DEF Means, GroupEvents
  <2> QED BY <1>q, <2>1, EndsAppendOther, NoneAppend DEF GroupFollows
<1> QED BY <1>1, <1>2

\* Only the handler of a new group changes it.
LEMMA GroupStays ==
    ASSUME NEW ev, Unpost(ev), Handler, ev.e # "PRIORITY_GROUP"
    PROVE  prioGroup' = prioGroup
<1>1. ~HandlePriorityGroup
  <2>1. \A g \in Groups : ~Unpost([e |-> "PRIORITY_GROUP", g |-> g])
    BY Same
  <2> QED BY <2>1 DEF HandlePriorityGroup
<1> QED BY <1>1 DEF Handler, HandleReload, Reload, HandleAddAgain, HandleDestroy, HandleIfState,
        HandleLinkState

LEMMA HandlerKeepsGroup ==
    ASSUME TypeOK, GroupFollows, Handler
    PROVE  GroupFollows'
<1>1. PICK ev : Unpost(ev)
  BY HandlerTakes
<1>2. /\ q \in Seq(Events) /\ q # <<>> /\ Head(q) = ev /\ ev \in Events /\ q' = Tail(q)
      /\ group' = group
  BY <1>1, UnpostFacts
<1>3. /\ Ends(q', GroupEvents, GroupSays(group))
      /\ NoneIn(q', GroupEvents) =>
           NoneIn(q, GroupEvents) \/ (ev \in GroupEvents /\ ev \in GroupSays(group))
  BY <1>2, EndsTail DEF GroupFollows
<1>4. ASSUME NoneIn(q', GroupEvents) PROVE prioGroup' = group
  <2>1. CASE NoneIn(q, GroupEvents)
    <3>1. ev \notin GroupEvents
      BY <1>2, <2>1, NoneTail
    <3>2. ev.e # "PRIORITY_GROUP"
      BY <1>2, <3>1 DEF GroupEvents
    <3> QED BY <1>1, <2>1, <3>2, GroupStays DEF GroupFollows
  <2>2. CASE ev \in GroupEvents /\ ev \in GroupSays(group)
    <3>1. ev.e = "PRIORITY_GROUP" /\ ev.g = group
      BY <2>2 DEF GroupSays
    <3> QED BY <1>1, <3>1, GroupHandler
  <2> QED BY <1>3, <1>4, <2>1, <2>2
<1> QED BY <1>2, <1>3, <1>4 DEF GroupFollows

LEMMA HandlerKeepsPrompts ==
    ASSUME TypeOK, NwamdOK, Handler
    PROVE  PromptsAsked'
<1>1. PICK ev : Unpost(ev)
  BY HandlerTakes
<1>2. policy' = policy
  BY <1>1, UnpostFacts
<1>3. CASE ev.e = "PRIORITY_GROUP"
  <2>1. prompts' = {}
    BY <1>1, <1>3, GroupHandler
  <2> QED BY <2>1 DEF PromptsAsked
<1>4. CASE ev.e # "PRIORITY_GROUP"
  <2>1. PICK c \in [Devs -> UpStates], l \in [Devs -> AuxStates] : UpdateStatus(c, l)
    BY <1>1, <1>4, HandlerStates
  <2>2. ncuList' \subseteq Devs
    BY <1>1, HandlerLists DEF Lists
  <2>3. \A p \in prompts' : p.e = "SELECTION" =>
           p.data \in Asked(ncuList', prioGroup') /\ linkCached'[p.data] = "choice"
    BY <2>1, <2>2, PromptFacts
  <2>4. Asked(ncuList, prioGroup)' = Asked(ncuList', prioGroup')
    BY <1>2 DEF Asked
  <2> QED BY <2>3, <2>4 DEF PromptsAsked
<1> QED BY <1>3, <1>4

-----------------------------------------------------------------------------
(* The invariant holds throughout.                                         *)

LEMMA NcpStart == Init => NcpInv
<1> SUFFICES ASSUME Init PROVE NcpInv
  OBVIOUS
<1>t. TypeOK
  BY InitType
<1>1. PICK D \in SUBSET Devs : handles = D \X Classes /\ phys = D /\ ncuList = D
  BY DEF Init
<1>2. /\ q = <<>> /\ up \subseteq phys /\ prioGroup = group /\ opened = handles
      /\ prompts = {} /\ partial = FALSE
  BY DEF Init
<1>n. \A C, A : Ends(q, C, A)
  BY <1>2, NoneOfEmpty DEF Ends
<1>3. ASSUME NEW d \in Devs PROVE Whole(handles, d) <=> d \in D
  BY <1>1 DEF Whole, Classes
<1>4. NwamdOK
  BY <1>1, <1>2, <1>3 DEF NwamdOK, Classes
<1>5. \A d \in ncuList : cached[d] = UpOf(up, d)
  <2>1. cached = FetchUp([d \in Devs |-> "uninit"], ncuList, opened)
    BY DEF Init
  <2>2. \A d \in ncuList : <<d, "interface">> \in opened \cap handles
    BY <1>1, <1>2 DEF Classes
  <2> QED BY <1>1, <2>1, <2>2 DEF FetchUp, UpOf
<1>6. ListFollows
  <2>1. \A d \in ncuList : cached[d] # "uninit"
    BY <1>5 DEF UpOf
  <2> QED BY <1>1, <1>2, <1>n, <1>3, <2>1 DEF ListFollows, Whole
<1>7. UpFollows
  BY <1>n, <1>5 DEF UpFollows
<1>8. AuxFollows
  <2>1. linkCached = FetchAux([d \in Devs |-> "uninit"], Asked(ncuList, group), opened)
    BY DEF Init
  <2>2. \A d \in Devs : linkCached[d] = "uninit" \/ (<<d, "link">> \in handles /\ linkCached[d] = aux[d])
    BY <2>1 DEF FetchAux
  <2> QED BY <1>n, <2>2 DEF AuxFollows
<1>9. GroupFollows /\ PromptsAsked
  BY <1>n, <1>2 DEF GroupFollows, PromptsAsked
<1> QED BY <1>t, <1>4, <1>6, <1>7, <1>8, <1>9 DEF NcpInv

LEMMA NcpStep == NcpInv /\ [Next]_vars => NcpInv'
<1> SUFFICES ASSUME NcpInv, [Next]_vars PROVE NcpInv'
  OBVIOUS
<1>i. /\ TypeOK /\ NwamdOK /\ ListFollows /\ UpFollows /\ AuxFollows /\ GroupFollows
      /\ PromptsAsked
  BY DEF NcpInv
<1>1. CASE Nwamd
  <2>1. PICK ev \in Events : Change(ev) /\ Means(ev)
    BY <1>i, <1>1, NwamdSteps
  <2>2. PromptsAsked'
    <3>1. UNCHANGED <<policy, ncuList, prioGroup, linkCached, prompts>>
      BY <1>i, <2>1, ChangeFacts
    <3> QED BY <1>i, <3>1 DEF PromptsAsked, Asked
  <2>3. TypeOK' /\ NwamdOK' /\ ListFollows'
    BY <1>i, <1>1, <2>1, NwamdType, NwamdKeepsOK, NwamdKeepsList
  <2>4. UpFollows' /\ AuxFollows' /\ GroupFollows'
    BY <1>i, <2>1, NwamdKeepsUp, NwamdKeepsAux, NwamdKeepsGroup
  <2> QED BY <2>2, <2>3, <2>4 DEF NcpInv
<1>2. CASE Handler
  <2>1. NwamdOK'
    <3>1. handles' = handles /\ up' = up /\ phys' = phys
      BY <1>i, <1>2, HandlerTakes, UnpostFacts
    <3> QED BY <1>i, <3>1 DEF NwamdOK
  <2>2. TypeOK' /\ ListFollows' /\ UpFollows' /\ AuxFollows'
    BY <1>i, <1>2, HandlerType, HandlerKeepsList, HandlerKeepsUp, HandlerKeepsAux
  <2>3. GroupFollows' /\ PromptsAsked'
    BY <1>i, <1>2, HandlerKeepsGroup, HandlerKeepsPrompts
  <2> QED BY <2>1, <2>2, <2>3 DEF NcpInv
<1>3. CASE UNCHANGED vars
  <2>1. TypeOK' /\ NwamdOK'
    BY <1>i, <1>3 DEF vars, TypeOK, NwamdOK
  <2>2. ListFollows' /\ UpFollows' /\ AuxFollows'
    BY <1>i, <1>3 DEF vars, ListFollows, UpFollows, AuxFollows
  <2>3. GroupFollows' /\ PromptsAsked'
    BY <1>i, <1>3 DEF vars, GroupFollows, PromptsAsked, Asked
  <2> QED BY <2>1, <2>2, <2>3 DEF NcpInv
<1> QED BY <1>1, <1>2, <1>3 DEF Next

LEMMA NcpAlways == Spec => []NcpInv
BY NcpStart, NcpStep, PTL DEF Spec

-----------------------------------------------------------------------------
(* The properties.                                                         *)

\* Every variable stays in its type, the list holds devices and what is cached
\* is of NCUs on it (nwamui_ncp.c's ncu_list, wireless_link_num and priority_group).
THEOREM TypeCorrect == Spec => []TypeOK
<1>1. NcpInv => TypeOK
  BY DEF NcpInv
<1> QED BY <1>1, NcpAlways, PTL

LEMMA InvConverges == NcpInv => NcusConverge
<1> SUFFICES ASSUME NcpInv PROVE NcusConverge
  OBVIOUS
<1>i. TypeOK /\ ListFollows /\ UpFollows /\ AuxFollows
  BY DEF NcpInv
<1>1. ASSUME Quiet, ~partial
      PROVE  /\ ncuList = DevsOf(handles)
             /\ \A d \in ncuList : /\ cached[d] = IF d \in up THEN "up" ELSE "down"
                                   /\ linkCached[d] \in {"uninit", aux[d]}
  <2>1. /\ \A C : NoneIn(q, C)
        /\ \A d \in Devs : SettledOf(handles, d)
    BY <1>1, NoneOfEmpty DEF Quiet, Settled, SettledOf
  <2>2. \A d \in Devs :
           /\ d \in ncuList => Whole(handles, d) /\ cached[d] # "uninit"
           /\ Whole(handles, d) => d \in ncuList
    BY <1>i, <1>1, <2>1 DEF ListFollows
  <2>3. ncuList \subseteq Devs /\ handles \subseteq Devs \X Classes
    BY <1>i DEF TypeOK, Handles
  <2>4. ASSUME NEW d \in ncuList PROVE d \in DevsOf(handles)
    <3>1. <<d, "link">> \in handles
      BY <2>2, <2>3 DEF Whole
    <3> QED BY <3>1 DEF DevsOf
  <2>5. ASSUME NEW d \in DevsOf(handles) PROVE d \in ncuList
    <3>1. PICK h \in handles : d = h[1]
      BY DEF DevsOf
    <3>2. d \in Devs /\ (h = <<d, "link">> \/ h = <<d, "interface">>)
      BY <2>3, <3>1 DEF Classes
    <3>3. Whole(handles, d)
      BY <2>1, <3>1, <3>2 DEF SettledOf, Whole
    <3> QED BY <2>2, <3>2, <3>3
  <2>6. ASSUME NEW d \in ncuList
        PROVE  /\ cached[d] = IF d \in up THEN "up" ELSE "down"
               /\ linkCached[d] \in {"uninit", aux[d]}
    <3>1. cached[d] \in {"uninit", UpOf(up, d)} /\ cached[d] # "uninit"
      BY <1>i, <2>1, <2>2, <2>3 DEF UpFollows
    <3>2. linkCached[d] \in {"uninit", aux[d]}
      BY <1>i, <2>1, <2>3 DEF AuxFollows
    <3> QED BY <3>1, <3>2 DEF UpOf
  <2> QED BY <2>4, <2>5, <2>6
<1> QED BY <1>i, <1>1 DEF NcusConverge

\* When nwamd is through with every NCU and its events are handled, and unless the
\* last walk failed, the list is nwamd's, every interface has the state nwamd
\* reports, and no link is thought to need what it does not
\* (nwamui_daemon_handle_object_action_event, nwamui_ncp_all_ncus_online).
THEOREM NcusCorrect == Spec => []NcusConverge
BY InvConverges, NcpAlways, PTL

LEMMA InvPrompts == NcpInv => PromptsCount
<1> SUFFICES ASSUME NcpInv, Quiet, NEW p \in prompts, p.e = "SELECTION"
             PROVE  /\ p.data \in DevsOf(handles) /\ aux[p.data] = "choice"
                    /\ policy[p.data].mode = "prioritized" => policy[p.data].group = group
  BY DEF PromptsCount
<1>1. \A C : NoneIn(q, C)
  BY NoneOfEmpty DEF Quiet
<1>2. /\ p.data \in ncuList /\ linkCached[p.data] = "choice"
      /\ policy[p.data].mode = "prioritized" => policy[p.data].group = prioGroup
  BY DEF NcpInv, PromptsAsked, Asked
<1>3. prioGroup = group
  BY <1>1 DEF NcpInv, GroupFollows
<1>4. p.data \in Devs
  BY <1>2 DEF NcpInv, TypeOK
<1>5. <<p.data, "link">> \in handles /\ aux[p.data] = "choice"
  BY <1>1, <1>2, <1>4 DEF NcpInv, AuxFollows
<1>6. p.data \in DevsOf(handles)
  BY <1>5 DEF DevsOf
<1> QED BY <1>2, <1>3, <1>5, <1>6

\* Once everything is handled the user was last asked about an NCU that nwamd
\* has, that needs a choice, and that is manual or of the active group
\* (nwamui_daemon_update_status).
THEOREM PromptsCorrect == Spec => []PromptsCount
BY InvPrompts, NcpAlways, PTL

\* A link for each wireless NCU: counting the ones counts the others.
LEMMA OneLinkEach ==
    ASSUME NEW D, NEW H, IsFiniteSet(D), D \subseteq Wireless, H \subseteq Handles,
           H = {<<d, "link">> : d \in D}
    PROVE  Cardinality(H) = Cardinality(D)
<1> DEFINE f == [d \in D |-> <<d, "link">>]
<1>1. f \in Bijection(D, H)
  <2>1. f \in [D -> H]
    OBVIOUS
  <2>2. \A a, b \in D : f[a] = f[b] => a = b
    OBVIOUS
  <2>3. \A h \in H : \E d \in D : f[d] = h
    OBVIOUS
  <2> QED BY <2>1, <2>2, <2>3 DEF Bijection, Injection, Surjection, IsInjective
<1>2. ExistsBijection(D, H)
  BY <1>1 DEF ExistsBijection
<1> QED BY <1>2, FS_Bijection

LEMMA CountRepaired ==
    ASSUME NcpInv, HandleReload, Settled, ~partial'
    PROVE  wirelessLinkNum' = Cardinality(ncuList' \cap Wireless)
<1>t. handles \subseteq Devs \X Classes /\ ncuList \subseteq Devs
  BY DEF NcpInv, TypeOK, Handles
<1>1. PICK seen \in SUBSET handles : \E complete \in BOOLEAN :
        LET present == {h \in seen : h[1] \in phys}
            found   == DevsOf(present)
        IN  /\ complete => seen = handles
            /\ ncuList' = (ncuList \ Dropped(found, complete)) \cup found
            /\ wirelessLinkNum' = Counted(present)
            /\ partial' = ~complete
  BY DEF HandleReload, Reload
<1> DEFINE present == {h \in handles : h[1] \in phys}
           D == ncuList' \cap Wireless
           H == {h \in present : h[1] \in Wireless /\ h[2] = "link"}
<1>2. ncuList' = DevsOf(present) /\ wirelessLinkNum' = Counted(present)
  BY <1>1 DEF Dropped
<1>3. ASSUME NEW d \in D PROVE <<d, "link">> \in H
  <2>1. PICK h \in present : d = h[1]
    BY <1>2 DEF DevsOf
  <2>2. d \in Devs /\ (h = <<d, "link">> \/ h = <<d, "interface">>)
    BY <1>t, <2>1 DEF Classes
  <2>3. <<d, "link">> \in handles /\ d \in phys
    BY <2>1, <2>2 DEF Settled
  <2> QED BY <2>3
<1>4. ASSUME NEW h \in H PROVE h[1] \in D /\ h = <<h[1], "link">>
  <2>1. h = <<h[1], "link">>
    BY <1>t
  <2>2. h[1] \in DevsOf(present)
    BY DEF DevsOf
  <2> QED BY <1>2, <2>1, <2>2
<1>5. H = {<<d, "link">> : d \in D}
  <2> HIDE DEF H, D
  <2> QED BY <1>3, <1>4
<1>6. IsFiniteSet(D)
  <2>1. D \subseteq Devs
    BY <1>t, <1>2 DEF DevsOf
  <2> QED BY <2>1, DevsAssumption, FS_Subset
<1>7. H \subseteq Handles /\ D \subseteq Wireless
  BY <1>t DEF Handles
<1>8. wirelessLinkNum' = Cardinality(H)
  BY <1>2 DEF Counted
<1> HIDE DEF H, D
<1>9. Cardinality(H) = Cardinality(D)
  BY <1>5, <1>6, <1>7, OneLinkEach
<1> QED BY <1>8, <1>9 DEF D

\* A walk that nothing disturbs leaves the number of wireless NCUs what it ought
\* to be, whatever the events before it made of it (nwam_ncu_walker_cb, which
\* sets wireless_link_num to what it has counted).
THEOREM ReloadRepairs == Spec => ReloadRepairsCount
<1>1. NcpInv =>
        [HandleReload /\ Settled /\ ~partial' =>
           wirelessLinkNum' = Cardinality(ncuList' \cap Wireless)]_vars
  BY CountRepaired
<1> QED BY <1>1, NcpAlways, PTL DEF ReloadRepairsCount
=============================================================================
