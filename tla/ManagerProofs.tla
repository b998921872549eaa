----------------------------- MODULE ManagerProofs -----------------------------
(***************************************************************************)
(* Proofs about what nwam-manager shows and asks for: what the menu of the *)
(* status icon shows of the daemon object (StatusIcon), for any NCPs,      *)
(* devices and locations; its notifications (NotifyQueue), for any number  *)
(* of messages; and the wireless dialog (WirelessDialog) with the          *)
(* favourites it edits in the preferences, for any networks and objects.   *)
(***************************************************************************)
EXTENDS StatusIcon, NotifyPromise, WirelessDialog, PendingEvents,
        FiniteSetTheorems, WellFoundedInduction

CONSTANTS MaxMsgs, MaxChanges

VARIABLES queued, closing, timer, shows, due, visible, changes

\* The queue shares with NotifyPromise what the user sees of it.
Q == INSTANCE NotifyQueue

-----------------------------------------------------------------------------
(* The status icon.                                                        *)

\* Before the status icon runs it shows nothing.
Idle == ~running => shown = None /\ popup = FALSE /\ envItems = {}

IInv == TypeOK /\ Idle /\ NcuSectionMatches /\ NoGoneEnvs /\ ClosedOnError

-----------------------------------------------------------------------------
\* Signals for what comes and what goes make the items of one list those of another.
LEMMA ItemsFollow ==
    ASSUME NEW p, NEW old, NEW new
    PROVE  (({p} \X old) \ ({p} \X (old \ new))) \cup ({p} \X (new \ old)) = {p} \X new
  OBVIOUS

\* What a notification of active_ncp leaves in the menu.
LEMMA ShowMatches ==
    ASSUME NEW p \in Ncps \cup {None}, NEW l \in [Ncps -> SUBSET Devices],
           Show(p, l), l = list'
    PROVE  /\ NcuSectionMatches'
           /\ shown' = p /\ fakes' \in Nat /\ ncuItems' \subseteq Ncps \X Devices
           /\ p = None => ncuItems' = {}
<1>1. shown' = p
  BY DEF Show
<1>2. CASE p = None
  BY <1>1, <1>2 DEF Show, NcuSectionMatches
<1>3. CASE p # None
  <2>1. ncuItems' = {p} \X l[p] /\ l[p] \subseteq Devices /\ p \in Ncps
    BY <1>3 DEF Show, NcusOf
  <2>2. fakes' = IF l[p] = {} THEN 1 ELSE 0
    BY <1>3 DEF Show
  <2>3. ncuItems' \subseteq Ncps \X Devices
    BY <2>1
  <2>4. NcuSectionMatches'
    BY <1>1, <1>3, <2>1, <2>2 DEF NcuSectionMatches, NcusOf
  <2> QED
    BY <1>1, <1>3, <2>2, <2>3, <2>4
<1> QED
  BY <1>2, <1>3

\* What the signals of the NCP shown leave in the menu.
LEMMA ListedMatches ==
    ASSUME TypeOK, NcuSectionMatches, NEW l \in [Ncps -> SUBSET Devices], Listed(l),
           shown' = shown
    PROVE  /\ NcuSectionMatches'
           /\ fakes' \in Nat /\ ncuItems' \subseteq Ncps \X Devices
           /\ list' \in [Ncps -> SUBSET Devices]
           /\ shown = None => ncuItems' = {}
<1>1. list' = l
  BY DEF Listed
<1>2. CASE shown = None
  BY <1>1, <1>2 DEF Listed, NcuSectionMatches, TypeOK
<1>3. CASE shown # None
  <2>1. shown \in Ncps /\ ncuItems = {shown} \X list[shown]
    BY <1>3 DEF TypeOK, NcuSectionMatches, NcusOf
  <2>2. ncuItems' = {shown} \X l[shown]
    BY <1>3, <2>1, ItemsFollow DEF Listed, Items
  <2>3. fakes = IF list[shown] = {} THEN 1 ELSE 0
    BY <1>3 DEF NcuSectionMatches
  <2>4. fakes' = IF l[shown] = {} THEN 1 ELSE 0
    BY <1>3, <2>3 DEF Listed, Fakes
  <2>5. l[shown] \subseteq Devices
    BY <2>1
  <2>6. ncuItems' \subseteq Ncps \X Devices
    BY <2>1, <2>2, <2>5
  <2>7. NcuSectionMatches'
    BY <1>1, <1>3, <2>2, <2>4 DEF NcuSectionMatches, NcusOf
  <2> QED
    BY <1>1, <1>3, <2>4, <2>6, <2>7
<1> QED
  BY <1>2, <1>3

\* The invariant holds at the start.
LEMMA InitInvariant == Init => IInv
<1> SUFFICES ASSUME Init PROVE IInv
  OBVIOUS
<1>1. TypeOK
  BY DEF Init, TypeOK, Statuses
<1>2. Idle /\ NoGoneEnvs /\ ClosedOnError
  BY DEF Init, Idle, NoGoneEnvs, ClosedOnError
<1>3. NcuSectionMatches
  BY DEF Init, NcuSectionMatches
<1> QED
  BY <1>1, <1>2, <1>3 DEF IInv

\* Every handler preserves the invariant.
LEMMA NextInvariant == IInv /\ [Next]_vars => IInv'
<1> SUFFICES ASSUME IInv, [Next]_vars PROVE IInv'
  OBVIOUS
<1>t. TypeOK /\ Idle /\ NcuSectionMatches /\ NoGoneEnvs /\ ClosedOnError
  BY DEF IInv
<1>1. CASE ~aborted /\ Run
  <2>1. NcuSectionMatches' /\ shown' \in Ncps \cup {None} /\ fakes' \in Nat
          /\ ncuItems' \subseteq Ncps \X Devices
    <3>1. CASE status = "GOOD" /\ activeNcp # None
      BY <1>t, <1>1, <3>1, ShowMatches DEF Run, TypeOK, daemonVars
    <3>2. CASE ~(status = "GOOD" /\ activeNcp # None)
      BY <1>t, <1>1, <3>2 DEF Run, TypeOK, daemonVars, ncuVars, NcuSectionMatches, NcusOf
    <3> QED
      BY <3>1, <3>2
  <2>2. TypeOK'
    BY <1>t, <1>1, <2>1 DEF Run, TypeOK, daemonVars, Enabled, NoEnvs
  <2>3. Idle' /\ NoGoneEnvs'
    BY <1>t, <1>1 DEF Run, Idle, NoGoneEnvs, daemonVars, NoEnvs
  <2>4. ClosedOnError'
    BY <1>t, <1>1 DEF Run, Idle, ClosedOnError, NcuSectionMatches, daemonVars, ncuVars, Enabled
  <2> QED
    BY <2>1, <2>2, <2>3, <2>4 DEF IInv
<1>2. CASE ~aborted /\ HandleError
  <2>1. CASE running /\ status # "ERROR" /\ shown # None
    <3>1. Show(None, list) /\ list' = list
      BY <1>2, <2>1 DEF HandleError
    <3>2. NcuSectionMatches' /\ shown' = None /\ fakes' \in Nat
            /\ ncuItems' = {} /\ ncuItems' \subseteq Ncps \X Devices
      BY <1>t, <3>1, ShowMatches DEF TypeOK
    <3>3. TypeOK'
      BY <1>t, <1>2, <2>1, <3>2 DEF HandleError, TypeOK, Enabled, NoEnvs, Statuses
    <3>4. Idle' /\ NoGoneEnvs' /\ ClosedOnError'
      BY <1>t, <1>2, <2>1, <3>2 DEF HandleError, Idle, NoGoneEnvs, ClosedOnError, Enabled, NoEnvs
    <3> QED
      BY <3>2, <3>3, <3>4 DEF IInv
  <2>2. CASE ~(running /\ status # "ERROR" /\ shown # None)
    <3>1. UNCHANGED ncuVars
      BY <1>2, <2>2 DEF HandleError
    <3>2. TypeOK' /\ NcuSectionMatches'
      BY <1>t, <1>2, <2>2, <3>1
      DEF HandleError, TypeOK, Enabled, NoEnvs, Statuses, ncuVars, NcuSectionMatches, NcusOf
    <3>3. Idle' /\ NoGoneEnvs'
      BY <1>t, <1>2, <2>2, <3>1 DEF HandleError, Idle, NoGoneEnvs, NoEnvs, ncuVars
    <3>4. ClosedOnError'
      BY <1>t, <1>2, <2>2, <3>1
      DEF HandleError, ClosedOnError, Enabled, ncuVars, NcuSectionMatches
    <3> QED
      BY <3>2, <3>3, <3>4 DEF IInv
  <2> QED
    BY <2>1, <2>2
<1>3. CASE ~aborted /\ HandleActive
  <2> PICK l \in [Ncps -> SUBSET Devices], E \in SUBSET Envs :
         IF shown # None /\ AssertionFails("UNINITIALIZED", list[shown], l[shown])
         THEN /\ aborted' = TRUE /\ status' = "UNINITIALIZED"
              /\ UNCHANGED <<list, activeNcp, envs, activeEnv, iconVars>>
         ELSE /\ status' = ConnectedStatus
              /\ Listed(l)
              /\ activeNcp' \in {activeNcp} \cup Ncps
              /\ envs' = E
              /\ activeEnv' \in {activeEnv} \cup E
              /\ envItems' = IF running THEN EnvItems(E) ELSE envItems
              /\ popup' = (running /\ Enabled("GOOD"))
              /\ UNCHANGED <<running, shown, aborted>>
    BY <1>3 DEF HandleActive
  <2>1. CASE shown # None /\ AssertionFails("UNINITIALIZED", list[shown], l[shown])
    BY <1>t, <2>1
    DEF IInv, TypeOK, Idle, NcuSectionMatches, NcusOf, NoGoneEnvs, ClosedOnError,
        Statuses, iconVars
  <2>2. CASE ~(shown # None /\ AssertionFails("UNINITIALIZED", list[shown], l[shown]))
    <3>1. /\ status' = "GOOD" /\ Listed(l) /\ UNCHANGED <<running, shown, aborted>>
          /\ envs' = E /\ envItems' = (IF running THEN EnvItems(E) ELSE envItems)
          /\ activeNcp' \in {activeNcp} \cup Ncps /\ activeEnv' \in {activeEnv} \cup E
          /\ popup' = (running /\ Enabled("GOOD"))
      BY <2>2 DEF ConnectedStatus
    <3>p. popup' = running
      BY <1>t, <3>1 DEF Enabled, TypeOK
    <3>2. NcuSectionMatches' /\ fakes' \in Nat /\ ncuItems' \subseteq Ncps \X Devices
            /\ list' \in [Ncps -> SUBSET Devices]
      BY <1>t, <3>1, ListedMatches
    <3>3. TypeOK'
      BY <1>t, <1>3, <3>1, <3>2, <3>p DEF TypeOK, Statuses, EnvItems
    <3>4. Idle' /\ NoGoneEnvs' /\ ClosedOnError'
      BY <1>t, <3>1, <3>p DEF Idle, NoGoneEnvs, ClosedOnError, EnvItems
    <3> QED
      BY <3>2, <3>3, <3>4 DEF IInv
  <2> QED
    BY <2>1, <2>2
<1>4. CASE ~aborted /\ \E p \in Ncps : HandleNcuAction(p)
  <2> PICK p \in Ncps : HandleNcuAction(p)
    BY <1>4
  <2> PICK new \in SUBSET Devices : Listed([list EXCEPT ![p] = new])
    BY DEF HandleNcuAction
  <2>1. [list EXCEPT ![p] = new] \in [Ncps -> SUBSET Devices]
    BY <1>t DEF TypeOK
  <2>2. NcuSectionMatches' /\ fakes' \in Nat /\ ncuItems' \subseteq Ncps \X Devices
          /\ list' \in [Ncps -> SUBSET Devices] /\ (shown = None => ncuItems' = {})
    BY <1>t, <2>1, ListedMatches DEF HandleNcuAction
  <2>3. TypeOK'
    BY <1>t, <2>2 DEF HandleNcuAction, TypeOK
  <2>4. Idle' /\ NoGoneEnvs' /\ ClosedOnError'
    BY <1>t, <2>2 DEF HandleNcuAction, Idle, NoGoneEnvs, ClosedOnError
  <2> QED
    BY <2>2, <2>3, <2>4 DEF IInv
<1>5. CASE ~aborted /\ \E p \in Ncps : HandleNcpOnline(p)
  <2> PICK p \in Ncps : HandleNcpOnline(p)
    BY <1>5
  <2> PICK new \in SUBSET Devices :
         IF running /\ shown # p
         THEN list' = [list EXCEPT ![p] = new] /\ Show(p, list')
         ELSE Listed([list EXCEPT ![p] = new]) /\ UNCHANGED shown
    BY DEF HandleNcpOnline
  <2>1. [list EXCEPT ![p] = new] \in [Ncps -> SUBSET Devices]
    BY <1>t DEF TypeOK
  <2>2. NcuSectionMatches' /\ fakes' \in Nat /\ ncuItems' \subseteq Ncps \X Devices
          /\ list' \in [Ncps -> SUBSET Devices] /\ shown' \in Ncps \cup {None}
          /\ (~running => shown' = shown)
    <3>1. CASE running /\ shown # p
      <4>1. list' \in [Ncps -> SUBSET Devices] /\ Show(p, list')
        BY <2>1, <3>1
      <4>2. p \in Ncps \cup {None}
        OBVIOUS
      <4>3. NcuSectionMatches' /\ shown' = p /\ fakes' \in Nat
              /\ ncuItems' \subseteq Ncps \X Devices
        BY <4>1, <4>2, ShowMatches
      <4> QED
        BY <3>1, <4>1, <4>2, <4>3
    <3>2. CASE ~(running /\ shown # p)
      BY <1>t, <2>1, <3>2, ListedMatches DEF TypeOK
    <3> QED
      BY <3>1, <3>2
  <2>3. TypeOK'
    BY <1>t, <2>2 DEF HandleNcpOnline, TypeOK
  <2>4. Idle' /\ NoGoneEnvs' /\ ClosedOnError'
    BY <1>t, <2>2 DEF HandleNcpOnline, Idle, NoGoneEnvs, ClosedOnError
  <2> QED
    BY <2>2, <2>3, <2>4 DEF IInv
<1>6. CASE ~aborted /\ \E e \in Envs : HandleEnvAdd(e)
  BY <1>t, <1>6
  DEF HandleEnvAdd, IInv, TypeOK, Idle, NcuSectionMatches, NcusOf, NoGoneEnvs,
      ClosedOnError, EnvItems, ncuVars
<1>7. CASE ~aborted /\ \E e \in Envs : HandleEnvRemove(e)
  BY <1>t, <1>7
  DEF HandleEnvRemove, IInv, TypeOK, Idle, NcuSectionMatches, NcusOf, NoGoneEnvs,
      ClosedOnError, EnvItems, ncuVars
<1>8. CASE ~aborted /\ \E e \in Envs : HandleEnvOnline(e)
  BY <1>t, <1>8
  DEF HandleEnvOnline, IInv, TypeOK, Idle, NcuSectionMatches, NcusOf, NoGoneEnvs,
      ClosedOnError, ncuVars
<1>9. CASE UNCHANGED vars
  BY <1>t, <1>9
  DEF vars, daemonVars, iconVars, IInv, TypeOK, Idle, NcuSectionMatches, NcusOf,
      NoGoneEnvs, ClosedOnError
<1> QED
  BY <1>1, <1>2, <1>3, <1>4, <1>5, <1>6, <1>7, <1>8, <1>9 DEF Next, Gone

LEMMA Invariant == Spec => []IInv
  BY InitInvariant, NextInvariant, PTL DEF Spec

-----------------------------------------------------------------------------
\* The variables keep their types, and the status is initialized between handlers,
\* for any NCPs, devices and locations.
THEOREM TypeCorrect == Spec => []TypeOK
<1>1. IInv => TypeOK
  BY DEF IInv
<1> QED
  BY <1>1, Invariant, PTL

\* The menu has the NCUs of the NCP shown, or the item that there is none: for any
\* number of NCPs and NCUs, whatever reloads, errors and events come in which order.
THEOREM SectionMatches == Spec => []NcuSectionMatches
<1>1. IInv => NcuSectionMatches
  BY DEF IInv
<1> QED
  BY <1>1, Invariant, PTL

\* The menu has no location that the daemon has no more.
THEOREM LocationsOnList == Spec => []NoGoneEnvs
<1>1. IInv => NoGoneEnvs
  BY DEF IInv
<1> QED
  BY <1>1, Invariant, PTL

\* The menu opens exactly while the daemon is connected.
THEOREM Closed == Spec => []ClosedOnError
<1>1. IInv => ClosedOnError
  BY DEF IInv
<1> QED
  BY <1>1, Invariant, PTL

-----------------------------------------------------------------------------
(* The queue of notifications.                                             *)

(***************************************************************************)
(* What is displayed, and what the server has closed, is the oldest        *)
(* message, and it has been shown; so the signal pops its own message.     *)
(***************************************************************************)
QueueInv ==
    /\ Q!TypeOK
    /\ Q!OneOnScreen /\ closing \subseteq {Q!First}
    /\ screen \cup closing \subseteq started
    /\ Q!NoneUnseen
    /\ Q!NeverStalled

\* TypeOK in two parts: the provers that know numbers and sets of numbers have
\* trouble with Boolean values, and the other way round.
Numbers ==
    /\ queued \in Nat /\ popped \in 0 .. queued
    /\ started \subseteq 1 .. queued
    /\ screen \subseteq 1 .. queued /\ closing \subseteq 1 .. queued
    /\ shows \in Nat /\ changes \in Nat

Flags == timer \in BOOLEAN /\ due \in BOOLEAN /\ visible \in BOOLEAN

LEMMA TypeParts == (Q!TypeOK <=> Numbers /\ Flags) /\ (Q!TypeOK' <=> Numbers' /\ Flags')
  BY Zenon DEF Q!TypeOK, Numbers, Flags

\* What the messages and the pending shows keep, for every step after which
\* there is a timer.
LEMMA TimerPart == timer' = TRUE => Q!NeverStalled'
  BY Zenon DEF Q!NeverStalled

\* Nothing waits when the newest message has been shown.
LEMMA ShownPart == queued' = 0 \/ queued' \in started' => Q!NeverStalled'
<1> SUFFICES ASSUME queued' = 0 \/ queued' \in started' PROVE Q!NeverStalled'
  OBVIOUS
<1>1. ~ (queued' \notin started' /\ queued' > 0)
  OBVIOUS
<1> QED BY <1>1, Zenon DEF Q!NeverStalled

LEMMA InitEstablishes == Q!Init => QueueInv
<1> SUFFICES ASSUME Q!Init PROVE QueueInv
  OBVIOUS
<1>1. Numbers
  BY DEF Q!Init, Numbers
<1>2. Flags
  BY Zenon DEF Q!Init, Flags
<1>3. queued = 0 /\ popped = 0 /\ started = {} /\ screen = {} /\ closing = {}
  BY DEF Q!Init
<1>4. Q!OneOnScreen /\ closing \subseteq {Q!First} /\ screen \cup closing \subseteq started
  BY <1>3 DEF Q!OneOnScreen
<1>5. Q!NoneUnseen /\ Q!NeverStalled
  BY <1>3 DEF Q!NoneUnseen, Q!NeverStalled, Q!First
<1> QED BY <1>1, <1>2, <1>4, <1>5, TypeParts DEF QueueInv

\* Showing the oldest message, or the one after it when that has been shown.
LEMMA ShowKeeps ==
  ASSUME NEW n \in {popped, Q!First}, QueueInv, Q!ShowNth(n), n = Q!First => Q!First \in started,
         UNCHANGED <<queued, visible, changes>>, shows' \in Nat
  PROVE  QueueInv'
<1> USE DEF QueueInv, Q!First
<1>1. /\ n \in Nat /\ n + 1 \in 1 .. queued /\ popped' = n
      /\ 1 .. n \subseteq started
  BY DEF Q!ShowNth, Q!TypeOK, Q!NoneUnseen
<1>2. started' \subseteq 1 .. (n + 1)
  BY <1>1 DEF Q!ShowNth, Q!NoneUnseen, Q!TypeOK
<1>3. screen' \subseteq {n + 1} /\ closing' \subseteq {n + 1} /\ n + 1 \in started'
  <2>1. Q!Freed(screen, n) \subseteq {n + 1} /\ Q!Freed(closing, n) \subseteq {n + 1}
    BY <1>1 DEF Q!Freed, Q!OneOnScreen, Q!TypeOK
  <2> QED BY <2>1 DEF Q!ShowNth
<1>4. Q!TypeOK'
  <2>1. Numbers'
    BY <1>1, <1>2, <1>3, TypeParts DEF Numbers, Q!ShowNth
  <2>2. Flags'
    BY TypeParts, Zenon DEF Flags, Q!ShowNth
  <2> QED BY <2>1, <2>2, TypeParts
<1>5. Q!OneOnScreen' /\ (closing \subseteq {Q!First})' /\ (screen \cup closing \subseteq started)'
  BY <1>1, <1>3 DEF Q!OneOnScreen
<1>6. Q!NoneUnseen'
  BY <1>1, <1>2 DEF Q!NoneUnseen, Q!ShowNth
<1>7. Q!NeverStalled'
  BY TimerPart DEF Q!ShowNth
<1> QED BY <1>4, <1>5, <1>6, <1>7

LEMMA PushKeeps == QueueInv /\ Q!Push => QueueInv'
<1> SUFFICES ASSUME QueueInv, Q!Push PROVE QueueInv'
  OBVIOUS
<1>1. Numbers'
  BY TypeParts DEF QueueInv, Numbers, Q!Push
<1>2. Flags'
  BY TypeParts, Zenon DEF QueueInv, Flags, Q!Push
<1>3. Q!NeverStalled'
  BY TimerPart DEF Q!Push
<1> QED BY <1>1, <1>2, <1>3, TypeParts DEF QueueInv, Q!Push, Q!OneOnScreen, Q!NoneUnseen, Q!First

\* An empty queue has been shown to its end.
LEMMA EmptyShown == QueueInv /\ Q!Queue = {} => queued = 0 \/ queued \in started
<1> SUFFICES ASSUME QueueInv, Q!Queue = {} PROVE queued = 0 \/ queued \in started
  OBVIOUS
<1>1. Numbers
  BY TypeParts DEF QueueInv
<1>2. popped = queued
  BY <1>1 DEF Numbers, Q!Queue
<1> QED BY <1>1, <1>2 DEF Numbers, QueueInv, Q!NoneUnseen

LEMMA TimerKeeps == QueueInv /\ Q!TimerFires => QueueInv'
<1> SUFFICES ASSUME QueueInv, Q!TimerFires PROVE QueueInv'
  OBVIOUS
<1>1. /\ UNCHANGED <<shows, visible, changes>> /\ shows' \in Nat /\ popped \in Nat
      /\ Q!First # popped
  BY TypeParts DEF Q!TimerFires, QueueInv, Numbers, Q!First
<1>2. CASE /\ timer' = FALSE
           /\ Q!Queue = {} \/ (Q!First \in started /\ Q!First = queued)
           /\ UNCHANGED <<Q!msgVars, due>>
  <2>1. queued = 0 \/ queued \in started
    BY <1>2, EmptyShown
  <2>2. Q!NeverStalled'
    BY <1>2, <2>1, ShownPart DEF Q!msgVars
  <2>3. Numbers'
    BY <1>1, <1>2, TypeParts DEF QueueInv, Numbers, Q!msgVars
  <2>4. Flags'
    BY <1>1, <1>2, TypeParts, Zenon DEF QueueInv, Flags
  <2> QED
    BY <1>2, <2>2, <2>3, <2>4, TypeParts DEF QueueInv, Q!OneOnScreen, Q!NoneUnseen, Q!First, Q!msgVars
<1>3. CASE Q!ShowNth(popped) /\ UNCHANGED queued
  BY <1>1, <1>3, ShowKeeps
<1>4. CASE Q!First \in started /\ Q!ShowNth(Q!First) /\ UNCHANGED queued
  BY <1>1, <1>4, ShowKeeps
<1> QED
  <2>1. \/ /\ Q!Queue = {} \/ (Q!First \in started /\ Q!First = queued)
           /\ timer' = FALSE /\ UNCHANGED <<Q!msgVars, due>>
        \/ Q!ShowNth(popped) /\ UNCHANGED queued
        \/ Q!First \in started /\ Q!ShowNth(Q!First) /\ UNCHANGED queued
    BY DEF Q!TimerFires
  <2> QED BY <1>2, <1>3, <1>4, <2>1

LEMMA ClosedKeeps ==
  ASSUME NEW m \in Q!Msgs, QueueInv, Q!HandleClosed(m)
  PROVE  QueueInv'
<1>1. Numbers
  BY TypeParts DEF QueueInv
<1>2. m = Q!First /\ Q!First \in started /\ Q!First <= queued
  BY <1>1 DEF QueueInv, Q!HandleClosed, Numbers
<1>3. Q!Queue # {}
  BY <1>1, <1>2 DEF Q!Queue, Numbers, Q!First
<1>4. /\ popped' = Q!First /\ screen' = Q!Freed(screen, Q!First)
      /\ closing' = Q!Freed(closing \ {m}, Q!First) /\ due' = FALSE
      /\ UNCHANGED <<queued, started, timer, visible, changes>>
      /\ shows' = IF Q!First < queued THEN shows + 1 ELSE shows
  BY <1>3 DEF Q!HandleClosed
<1>5. screen' = {} /\ closing' = {}
  <2>1. Q!First \in 1 .. Q!First
    BY <1>1 DEF Numbers, Q!First
  <2>2. Q!Freed(screen, Q!First) = {} /\ Q!Freed(closing \ {m}, Q!First) = {}
    BY <2>1 DEF Q!Freed, QueueInv, Q!OneOnScreen
  <2> QED BY <1>4, <2>2
<1>6. Numbers'
  <2>1. shows' \in Nat
    BY <1>1, <1>4 DEF Numbers
  <2>2. popped' \in 0 .. queued'
    BY <1>1, <1>2, <1>4 DEF Numbers, Q!First
  <2> QED BY <1>1, <1>4, <1>5, <2>1, <2>2 DEF Numbers
<1>7. Flags'
  <2>1. timer' = timer /\ visible' = visible /\ due' = FALSE
    BY <1>4
  <2> QED BY <2>1, TypeParts, Zenon DEF QueueInv, Flags
<1>8. Q!NoneUnseen'
  BY <1>1, <1>2, <1>4 DEF QueueInv, Q!NoneUnseen, Q!First, Numbers
<1>9. Q!NeverStalled'
  <2>1. CASE Q!First < queued
    <3>1. shows' > 0
      BY <1>1, <1>4, <2>1 DEF Numbers
    <3> QED BY <3>1, Zenon DEF Q!NeverStalled
  <2>2. CASE Q!First = queued
    BY <1>2, <1>4, <2>2, ShownPart
  <2> QED BY <1>1, <1>2, <2>1, <2>2 DEF Numbers, Q!First
<1> QED BY <1>5, <1>6, <1>7, <1>8, <1>9, TypeParts DEF QueueInv, Q!OneOnScreen

LEMMA ShowFiresKeeps == QueueInv /\ Q!ShowFires => QueueInv'
<1> SUFFICES ASSUME QueueInv, Q!ShowFires PROVE QueueInv'
  OBVIOUS
<1>1. UNCHANGED <<visible, changes>> /\ shows' \in Nat /\ popped # Q!First
  BY TypeParts DEF Q!ShowFires, QueueInv, Numbers, Q!First
<1>2. CASE Q!Queue = {}
  <2>1. UNCHANGED <<Q!msgVars, timer, due>>
    BY <1>2 DEF Q!ShowFires
  <2>2. Q!NeverStalled'
    BY <1>2, <2>1, EmptyShown, ShownPart DEF Q!msgVars
  <2>3. Numbers'
    BY <1>1, <2>1, TypeParts DEF QueueInv, Numbers, Q!msgVars
  <2>4. Flags'
    BY <1>1, <2>1, TypeParts, Zenon DEF QueueInv, Flags
  <2> QED
    BY <2>1, <2>2, <2>3, <2>4, TypeParts DEF QueueInv, Q!OneOnScreen, Q!NoneUnseen, Q!First, Q!msgVars
<1>3. CASE Q!Queue # {}
  <2>1. Q!ShowNth(popped) /\ UNCHANGED queued
    BY <1>3 DEF Q!ShowFires
  <2> QED BY <1>1, <2>1, ShowKeeps
<1> QED BY <1>2, <1>3

\* The icon, time, the server and the default timeout.
LEMMA OthersKeep ==
  ASSUME QueueInv,
         \/ Q!IconChanges \/ Q!TimePasses \/ Q!TimeoutChanges
         \/ \E m \in Q!Msgs : Q!ServerCloses(m)
         \/ UNCHANGED Q!vars
  PROVE  QueueInv'
<1>1. CASE Q!IconChanges \/ Q!TimePasses \/ UNCHANGED Q!vars
  <2>1. UNCHANGED <<Q!msgVars, timer, shows, changes>> /\ due' \in BOOLEAN /\ visible' \in BOOLEAN
    BY <1>1 DEF Q!IconChanges, Q!TimePasses, Q!vars, Q!msgVars, QueueInv, Q!TypeOK
  <2>2. Q!TypeOK'
    BY <2>1 DEF QueueInv, Q!TypeOK, Q!msgVars
  <2> QED BY <2>1, <2>2 DEF QueueInv, Q!OneOnScreen, Q!NoneUnseen, Q!NeverStalled, Q!First, Q!msgVars
<1>2. CASE Q!TimeoutChanges
  <2>1. Q!TypeOK'
    BY <1>2 DEF Q!TimeoutChanges, QueueInv, Q!TypeOK, Q!msgVars
  <2> QED BY <1>2, <2>1 DEF Q!TimeoutChanges, QueueInv, Q!OneOnScreen, Q!NoneUnseen, Q!NeverStalled, Q!First, Q!msgVars
<1>3. ASSUME NEW m \in Q!Msgs, Q!ServerCloses(m) PROVE QueueInv'
  <2>1. Q!TypeOK'
    BY <1>3 DEF Q!ServerCloses, QueueInv, Q!TypeOK
  <2> QED BY <1>3, <2>1 DEF Q!ServerCloses, QueueInv, Q!OneOnScreen, Q!NoneUnseen, Q!NeverStalled, Q!First
<1> QED BY <1>1, <1>2, <1>3

LEMMA Inductive == QueueInv /\ [Q!Next]_(Q!vars) => QueueInv'
  BY PushKeeps, TimerKeeps, ClosedKeeps, ShowFiresKeeps, OthersKeep DEF Q!Next

LEMMA QueueInvariant == Q!Spec => []QueueInv
  BY InitEstablishes, Inductive, PTL DEF Q!Spec

(***************************************************************************)
(* The types of notify.c's queue, for every bound.                         *)
(***************************************************************************)
THEOREM QueueTypeCorrect == Q!Spec => []Q!TypeOK
  BY QueueInvariant, PTL DEF QueueInv

(***************************************************************************)
(* At most one notification is displayed, that of the oldest message.      *)
(***************************************************************************)
THEOREM OneAtATime == Q!Spec => []OneOnScreen
<1>1. QueueInv => OneOnScreen
  BY DEF QueueInv, Q!OneOnScreen, OneOnScreen, Q!First, First
<1> QED BY <1>1, QueueInvariant, PTL

(***************************************************************************)
(* Messages are shown in the order they were queued and none is dropped    *)
(* unseen, though on_notification_closed pops whatever is the oldest.      *)
(***************************************************************************)
THEOREM NothingUnseen == Q!Spec => []NoneUnseen
<1>1. QueueInv => NoneUnseen
  BY DEF QueueInv, Q!NoneUnseen, NoneUnseen, Q!First, First
<1> QED BY <1>1, QueueInvariant, PTL

(***************************************************************************)
(* A message that waits is never left without a timer or a pending show.   *)
(***************************************************************************)
THEOREM NoStall == Q!Spec => []Q!NeverStalled
  BY QueueInvariant, PTL DEF QueueInv

-----------------------------------------------------------------------------
(* The wireless dialog and the favourites: the invariants.                 *)

\* What the dialog is for follows the program it is part of; only nwam-manager
\* connects, to a network whose name is typed; the key is the fake one only of a
\* known WLAN, and else blank or typed by the user, as the history records.
DialogOK(x) ==
    /\ x \in Dialog
    /\ x.open => IF x.purpose = "join" THEN program = "manager" ELSE program = "properties"
    /\ x.conn => program = "manager"
    /\ x.conn /\ x.open => x.obj = Nil
    /\ x.open /\ x.purpose = "edit" => x.obj # Nil
    /\ x.key = Fake => x.obj # Nil /\ program # "manager"
    /\ program = "manager" /\ x.key # Blank => x.byUser /\ x.typed

\* y is x with other content.
Frame(x, y) ==
    /\ y \in Dialog
    /\ y.obj = x.obj /\ y.purpose = x.purpose /\ y.open = x.open /\ y.conn = x.conn
SameKey(x, y) == y.key = x.key /\ y.byUser = x.byUser /\ y.typed = x.typed

-----------------------------------------------------------------------------
LEMMA DialogFields ==
    ASSUME NEW x \in Dialog
    PROVE  /\ x.open \in BOOLEAN /\ x.obj \in Objs \cup {Nil} /\ x.purpose \in {"add", "join", "edit"}
           /\ x.conn \in BOOLEAN /\ x.keyCh \in BOOLEAN /\ x.secCh \in BOOLEAN
           /\ x.essid \in Essids \cup {Blank} /\ x.bss \in SUBSET Rows /\ x.sec \in Secs
           /\ x.key \in Texts \cup {Fake} /\ x.byUser \in BOOLEAN /\ x.ok \in BOOLEAN
           /\ x.sens \in BOOLEAN /\ x.focus \in BOOLEAN /\ x.typed \in BOOLEAN
BY DEF Dialog

\* Fields that are no part of a frame may be given any value of their types.
LEMMA PutBss ==
    ASSUME NEW x \in Dialog, NEW b \in SUBSET Rows,
           NEW y, y = [x EXCEPT !.bss = b]
    PROVE  Frame(x, y) /\ SameKey(x, y) /\ y.sec = x.sec
BY DEF Dialog, Frame, SameKey, Rows

LEMMA PutSec ==
    ASSUME NEW x \in Dialog, NEW s \in Secs,
           NEW y, y = [x EXCEPT !.sec = s, !.secCh = TRUE]
    PROVE  Frame(x, y) /\ SameKey(x, y) /\ y.sec = s
BY DEF Dialog, Frame, SameKey, Rows

LEMMA PutFocus ==
    ASSUME NEW x \in Dialog,
           NEW y, y = [x EXCEPT !.focus = FALSE]
    PROVE  Frame(x, y) /\ SameKey(x, y) /\ y.sec = x.sec
BY DEF Dialog, Frame, SameKey, Rows

LEMMA PutOk ==
    ASSUME NEW x \in Dialog,
           NEW y, y = [x EXCEPT !.ok = FALSE]
    PROVE  Frame(x, y) /\ SameKey(x, y) /\ y.sec = x.sec
BY DEF Dialog, Frame, SameKey, Rows

LEMMA PutSens ==
    ASSUME NEW x \in Dialog, NEW u \in BOOLEAN,
           NEW y, y = [x EXCEPT !.sens = u]
    PROVE  Frame(x, y) /\ SameKey(x, y) /\ y.sec = x.sec
BY DEF Dialog, Frame, SameKey, Rows

LEMMA PutTyped ==
    ASSUME NEW x \in Dialog, NEW u \in BOOLEAN,
           NEW y, y = [x EXCEPT !.typed = u]
    PROVE  Frame(x, y) /\ y.key = x.key /\ y.byUser = x.byUser /\ y.typed = u
BY DEF Dialog, Frame

LEMMA PutClean ==
    ASSUME NEW x \in Dialog,
           NEW y, y = [x EXCEPT !.keyCh = FALSE, !.secCh = FALSE, !.sens = TRUE]
    PROVE  Frame(x, y) /\ SameKey(x, y) /\ y.sec = x.sec
BY DEF Dialog, Frame, SameKey, Rows

LEMMA FrameChain ==
    ASSUME NEW x, NEW y, NEW z, Frame(x, y), Frame(y, z)
    PROVE  Frame(x, z) /\ (SameKey(x, y) /\ SameKey(y, z) => SameKey(x, z))
BY DEF Frame, SameKey

LEMMA FrameSelf == ASSUME NEW x \in Dialog PROVE Frame(x, x) /\ SameKey(x, x)
BY DEF Frame, SameKey

LEMMA EssidFrame ==
    ASSUME NEW x \in Dialog, NEW e \in Essids \cup {Blank}
    PROVE  Frame(x, SetEssid(x, e)) /\ SameKey(x, SetEssid(x, e)) /\ SetEssid(x, e).sec = x.sec
<1>1. CASE e = x.essid
  BY <1>1, FrameSelf DEF SetEssid
<1>2. CASE e # x.essid
  BY <1>2 DEF SetEssid, Dialog, Frame, SameKey, Rows
<1> QED BY <1>1, <1>2

LEMMA SecFrame ==
    ASSUME NEW x \in Dialog, NEW s \in Secs
    PROVE  Frame(x, SetSec(x, s)) /\ SameKey(x, SetSec(x, s)) /\ SetSec(x, s).sec = s
<1>1. CASE s = x.sec
  BY <1>1, FrameSelf DEF SetSec
<1>2. CASE s # x.sec
  BY <1>2, PutSec DEF SetSec
<1> QED BY <1>1, <1>2

LEMMA PutOks ==
    ASSUME NEW x \in Dialog, NEW y,
           y = [x EXCEPT !.ok = TRUE] \/ y = [x EXCEPT !.ok = FALSE]
    PROVE  /\ Frame(x, y) /\ y.sec = x.sec
           /\ y.key = x.key /\ y.byUser = x.byUser /\ y.typed = x.typed
<1>1. CASE y = [x EXCEPT !.ok = TRUE]
  BY <1>1 DEF Dialog, Frame
<1>2. CASE y = [x EXCEPT !.ok = FALSE]
  BY <1>2 DEF Dialog, Frame
<1> QED BY <1>1, <1>2

\* The user types a key, or the program shows one.
LEMMA TypedFrame ==
    ASSUME NEW x \in Dialog, NEW k \in Texts \cup {Fake}, k # x.key
    PROVE  /\ Frame(x, ShowKey(x, k, TRUE)) /\ ShowKey(x, k, TRUE).key = k
           /\ ShowKey(x, k, TRUE).byUser /\ ShowKey(x, k, TRUE).typed
<1> DEFINE y == [x EXCEPT !.key = k, !.keyCh = TRUE, !.byUser = TRUE, !.typed = TRUE]
           z == ShowKey(x, k, TRUE)
           b == IF EditsKnown(x) THEN k # Blank ELSE x.ok
<1>0. y = [x EXCEPT !.key = k, !.keyCh = TRUE, !.byUser = TRUE, !.typed = TRUE]
  OBVIOUS
<1> HIDE DEF y
<1>1. Frame(x, y) /\ y.key = k /\ y.byUser /\ y.typed /\ y.ok = x.ok
  BY <1>0 DEF Dialog, Frame
<1>2. z = [y EXCEPT !.ok = b]
  BY <1>0, <1>1 DEF ShowKey
<1>3. b \in BOOLEAN
  BY DialogFields, Zenon
<1>4. z = [y EXCEPT !.ok = TRUE] \/ z = [y EXCEPT !.ok = FALSE]
  <2> HIDE DEF b, z
  <2> QED BY <1>2, <1>3
<1> HIDE DEF z
<1>5. y \in Dialog
  BY <1>1 DEF Frame
<1>6. Frame(y, z) /\ z.key = y.key /\ z.byUser = y.byUser /\ z.typed = y.typed
  BY <1>4, <1>5, PutOks
<1> QED BY <1>1, <1>6, FrameChain DEF z

LEMMA ShownFrame ==
    ASSUME NEW x \in Dialog, NEW k \in Texts \cup {Fake}
    PROVE  /\ Frame(x, ShowKey(x, k, FALSE)) /\ ShowKey(x, k, FALSE).key = k
           /\ ShowKey(x, k, FALSE).sec = x.sec
<1>1. CASE k = x.key
  BY <1>1, FrameSelf DEF ShowKey
<1>2. CASE k # x.key
  <2> DEFINE y == [x EXCEPT !.key = k, !.keyCh = TRUE, !.byUser = FALSE, !.typed = FALSE]
             z == ShowKey(x, k, FALSE)
             b == IF EditsKnown(x) THEN k # Blank ELSE x.ok
  <2>0. y = [x EXCEPT !.key = k, !.keyCh = TRUE, !.byUser = FALSE, !.typed = FALSE]
    OBVIOUS
  <2> HIDE DEF y
  <2>1. Frame(x, y) /\ y.key = k /\ y.sec = x.sec /\ y.ok = x.ok
    BY <2>0 DEF Dialog, Frame
  <2>2. z = [y EXCEPT !.ok = b]
    BY <1>2, <2>0, <2>1 DEF ShowKey
  <2>3. b \in BOOLEAN
    BY DialogFields, Zenon
  <2>4. z = [y EXCEPT !.ok = TRUE] \/ z = [y EXCEPT !.ok = FALSE]
    <3> HIDE DEF b, z
    <3> QED BY <2>2, <2>3
  <2> HIDE DEF z
  <2>5. y \in Dialog
    BY <2>1 DEF Frame
  <2>6. Frame(y, z) /\ z.key = y.key /\ z.sec = y.sec
    BY <2>4, <2>5, PutOks
  <2> QED BY <2>1, <2>6, FrameChain DEF z
<1> QED BY <1>1, <1>2

LEMMA KeyFrame ==
    ASSUME NEW x \in Dialog
    PROVE  /\ Frame(x, SetKey(x, Blank)) /\ SetKey(x, Blank).sec = x.sec
           /\ SetKey(x, Blank).key = IF ~x.conn /\ IsKnown(x) THEN Fake ELSE Blank
<1> DEFINE k == IF ~x.conn /\ IsKnown(x) THEN Fake ELSE Blank
<1>1. k \in Texts \cup {Fake}
  BY DEF Texts
<1>2. SetKey(x, Blank) = ShowKey(x, k, FALSE)
  BY DEF SetKey
<1>3. k = IF ~x.conn /\ IsKnown(x) THEN Fake ELSE Blank
  OBVIOUS
<1> HIDE DEF k
<1>4. Frame(x, ShowKey(x, k, FALSE)) /\ ShowKey(x, k, FALSE).key = k
        /\ ShowKey(x, k, FALSE).sec = x.sec
  BY <1>1, ShownFrame
<1> QED BY <1>2, <1>3, <1>4

LEMMA BlankedFrame ==
    ASSUME NEW x \in Dialog
    PROVE  /\ Frame(x, Blanked(x))
           /\ Blanked(x).key = IF ~x.conn /\ x.obj # Nil /\ program # "manager" THEN Fake ELSE Blank
<1> DEFINE a == SetEssid(x, Blank)
           b == [a EXCEPT !.bss = {}]
           c == SetKey(b, Blank)
<1>1. Frame(x, a)
  BY EssidFrame
<1>2. a \in Dialog /\ {} \in SUBSET Rows
  BY <1>1 DEF Frame
<1> HIDE DEF a
<1>3. Frame(a, b)
  BY <1>2, PutBss
<1>4. b \in Dialog
  BY <1>3 DEF Frame
<1> HIDE DEF b
<1>5. Frame(b, c) /\ c.key = IF ~b.conn /\ IsKnown(b) THEN Fake ELSE Blank
  BY <1>4, KeyFrame
<1>6. c \in Dialog /\ "none" \in Secs
  BY <1>5 DEF Frame, Secs
<1>7. Blanked(x) = SetSec(c, "none")
  BY DEF Blanked, a, b, c
<1> HIDE DEF c
<1>8. Frame(c, Blanked(x)) /\ SameKey(c, Blanked(x))
  BY <1>6, <1>7, SecFrame
<1>9. Frame(x, b)
  BY <1>1, <1>3, FrameChain
<1>10. Frame(x, Blanked(x))
  BY <1>5, <1>8, <1>9, FrameChain
<1> QED BY <1>5, <1>8, <1>9, <1>10 DEF Frame, SameKey, IsKnown

\* The fields of a frame may change, too.
LEMMA PutObjOpen ==
    ASSUME NEW x \in Dialog, NEW o \in Objs \cup {Nil},
           NEW y, y = [x EXCEPT !.obj = o, !.open = FALSE]
    PROVE  /\ y \in Dialog /\ y.obj = o /\ y.open = FALSE /\ y.purpose = x.purpose
           /\ y.conn = x.conn /\ SameKey(x, y) /\ y.sec = x.sec
BY DEF Dialog, SameKey

LEMMA PutObj ==
    ASSUME NEW x \in Dialog, NEW o \in Objs \cup {Nil},
           NEW y, y = [x EXCEPT !.obj = o]
    PROVE  /\ y \in Dialog /\ y.obj = o /\ y.open = x.open /\ y.purpose = x.purpose
           /\ y.conn = x.conn /\ SameKey(x, y) /\ y.sec = x.sec
BY DEF Dialog, SameKey

LEMMA PutUnset ==
    ASSUME NEW x \in Dialog,
           NEW y, y = [x EXCEPT !.obj = Nil, !.typed = FALSE]
    PROVE  /\ y \in Dialog /\ y.obj = Nil /\ y.open = x.open /\ y.purpose = x.purpose
           /\ y.conn = x.conn
BY DEF Dialog

LEMMA PutPurpose ==
    ASSUME NEW x \in Dialog, NEW p \in {"add", "join", "edit"},
           NEW y, y = [x EXCEPT !.purpose = p]
    PROVE  /\ y \in Dialog /\ y.obj = x.obj /\ y.open = x.open /\ y.purpose = p
           /\ y.conn = x.conn /\ SameKey(x, y) /\ y.sec = x.sec
BY DEF Dialog, SameKey

LEMMA PutAdd ==
    ASSUME NEW x \in Dialog,
           NEW y, y = [x EXCEPT !.purpose = "add", !.open = TRUE]
    PROVE  /\ y \in Dialog /\ y.obj = x.obj /\ y.open = TRUE /\ y.purpose = "add"
           /\ y.conn = x.conn /\ SameKey(x, y) /\ y.sec = x.sec
BY DEF Dialog, SameKey

LEMMA PutJoin ==
    ASSUME NEW x \in Dialog,
           NEW y, y = [x EXCEPT !.conn = TRUE, !.open = TRUE]
    PROVE  /\ y \in Dialog /\ y.obj = x.obj /\ y.open = TRUE /\ y.purpose = x.purpose
           /\ y.conn = TRUE /\ SameKey(x, y) /\ y.sec = x.sec
BY DEF Dialog, SameKey

LEMMA PutPrompt ==
    ASSUME NEW x \in Dialog,
           NEW y, y = [x EXCEPT !.conn = FALSE, !.open = TRUE]
    PROVE  /\ y \in Dialog /\ y.obj = x.obj /\ y.open = TRUE /\ y.purpose = x.purpose
           /\ y.conn = FALSE /\ SameKey(x, y) /\ y.sec = x.sec
BY DEF Dialog, SameKey

LEMMA PutOpen ==
    ASSUME NEW x \in Dialog,
           NEW y, y = [x EXCEPT !.open = FALSE]
    PROVE  /\ y \in Dialog /\ y.obj = x.obj /\ y.open = FALSE /\ y.purpose = x.purpose
           /\ y.conn = x.conn /\ SameKey(x, y) /\ y.sec = x.sec
BY DEF Dialog, SameKey

LEMMA PutEdit ==
    ASSUME NEW x \in Dialog,
           NEW y, y = [x EXCEPT !.purpose = "edit", !.focus = TRUE, !.conn = FALSE, !.open = TRUE]
    PROVE  /\ y \in Dialog /\ y.obj = x.obj /\ y.open = TRUE /\ y.purpose = "edit"
           /\ y.conn = FALSE /\ SameKey(x, y) /\ y.sec = x.sec
BY DEF Dialog, SameKey

LEMMA UnsetFacts ==
    ASSUME NEW x \in Dialog
    PROVE  /\ Unset(x) \in Dialog /\ Unset(x).obj = Nil /\ Unset(x).purpose = x.purpose
           /\ Unset(x).open = x.open /\ Unset(x).conn = x.conn /\ Unset(x).key = Blank
<1> DEFINE y == [x EXCEPT !.obj = Nil, !.typed = FALSE]
<1>1. /\ y \in Dialog /\ y.obj = Nil /\ y.open = x.open /\ y.purpose = x.purpose
      /\ y.conn = x.conn
  BY PutUnset
<1>2. Unset(x) = Blanked(y)
  BY DEF Unset
<1> HIDE DEF y
<1> QED BY <1>1, <1>2, BlankedFrame DEF Frame

LEMMA NetFacts ==
    ASSUME NEW x \in Dialog, NEW o \in Objs, o # Nil, NEW t \in Wifi, NEW y, y = SetWifiNet(x, o, t)
    PROVE  /\ y \in Dialog /\ y.obj = o /\ y.purpose = x.purpose
           /\ y.open = x.open /\ y.conn = x.conn
           /\ \/ SameKey(x, y)
              \/ y.key = IF ~x.conn /\ program # "manager" THEN Fake ELSE Blank
<1> DEFINE a == [x EXCEPT !.obj = o]
           u == IF x.purpose = "edit" THEN FALSE ELSE a.sens
           v == a.typed /\ t.sec = "none"
           d == [a EXCEPT !.sens = u]
           b == [d EXCEPT !.typed = v]
           c == SetEssid(b, t.name)
           e == [c EXCEPT !.bss = BssOf(t)]
           z == SetSec(e, t.sec)
<1>1. /\ a \in Dialog /\ a.obj = o /\ a.open = x.open /\ a.purpose = x.purpose
      /\ a.conn = x.conn /\ SameKey(x, a)
  BY PutObj
<1>2. u \in BOOLEAN /\ v \in BOOLEAN
  BY <1>1, DialogFields, Zenon
<1>3. [x EXCEPT !.obj = o, !.sens = IF x.purpose = "edit" THEN FALSE ELSE @,
                !.typed = @ /\ t.sec = "none"] = b
  BY DEF Dialog
<1>4. SetWifiNet(x, o, t) = IF t.sec = "none" THEN z ELSE SetKey(z, Blank)
  BY <1>3 DEF SetWifiNet
<1>5. t.name \in Essids \cup {Blank} /\ BssOf(t) \in SUBSET Rows /\ t.sec \in Secs
  BY DEF Wifi, BssOf, Known
<1>6a. t.sec = "none" => v = a.typed
  BY <1>1, DialogFields, Zenon
<1> HIDE DEF a, u, v
<1>6b. Frame(a, d) /\ SameKey(a, d)
  BY <1>1, <1>2, PutSens
<1> HIDE DEF d
<1>6c. Frame(d, b) /\ b.key = d.key /\ b.byUser = d.byUser /\ b.typed = v
  BY <1>2, <1>6b, PutTyped DEF Frame
<1> HIDE DEF b
<1>6. Frame(a, b) /\ (t.sec = "none" => SameKey(a, b))
  BY <1>6a, <1>6b, <1>6c, FrameChain DEF SameKey
<1>7. Frame(b, c) /\ SameKey(b, c)
  BY <1>5, <1>6, EssidFrame DEF Frame
<1> HIDE DEF c
<1>8. Frame(c, e) /\ SameKey(c, e)
  BY <1>5, <1>7, PutBss DEF Frame
<1> HIDE DEF e
<1>9. Frame(e, z) /\ SameKey(e, z)
  BY <1>5, <1>8, SecFrame DEF Frame
<1> HIDE DEF z
<1>10. Frame(a, z) /\ (t.sec = "none" => SameKey(a, z))
  BY <1>6, <1>7, <1>8, <1>9, FrameChain
<1>11. /\ Frame(z, SetKey(z, Blank))
       /\ SetKey(z, Blank).key = IF ~z.conn /\ IsKnown(z) THEN Fake ELSE Blank
  BY <1>10, KeyFrame DEF Frame
<1>12. CASE t.sec = "none"
  BY <1>1, <1>4, <1>10, <1>12 DEF Frame, SameKey
<1>13. CASE t.sec # "none"
  BY <1>1, <1>4, <1>10, <1>11, <1>13 DEF Frame, SameKey, IsKnown
<1> QED BY <1>12, <1>13

LEMMA RefreshedFrame ==
    ASSUME NEW x \in Dialog
    PROVE  Frame(x, Refreshed(x)) /\ SameKey(x, Refreshed(x))
<1> DEFINE a == SetEssid(x, Blank)
           b == [a EXCEPT !.bss = {}]
           c == SetSec(b, "none")
           y == IF x.obj # Nil THEN x ELSE c
<1>1. Frame(x, a) /\ SameKey(x, a)
  BY EssidFrame
<1>2. a \in Dialog /\ {} \in SUBSET Rows
  BY <1>1 DEF Frame
<1>3. Refreshed(x) = [y EXCEPT !.keyCh = FALSE, !.secCh = FALSE, !.sens = TRUE]
  BY DEF Refreshed
<1> HIDE DEF a
<1>4. Frame(a, b) /\ SameKey(a, b)
  BY <1>2, PutBss
<1>5. b \in Dialog /\ "none" \in Secs
  BY <1>4 DEF Frame, Secs
<1> HIDE DEF b
<1>6. Frame(b, c) /\ SameKey(b, c)
  BY <1>5, SecFrame
<1> HIDE DEF c
<1>7. Frame(x, y) /\ SameKey(x, y)
  BY <1>1, <1>4, <1>6, FrameChain, FrameSelf
<1>8. y \in Dialog
  BY <1>7 DEF Frame
<1> HIDE DEF y
<1>9. Frame(y, Refreshed(x)) /\ SameKey(y, Refreshed(x))
  BY <1>3, <1>8, PutClean
<1> QED BY <1>7, <1>9, FrameChain

-----------------------------------------------------------------------------
(* Networks.                                                               *)

\* A network as the program has it: known WLANs are those of the preferences.
NetOK(r) ==
    /\ r \in Wifi
    /\ r.bss \subseteq {"ap"} /\ r.h.bss \subseteq {"ap"}
    /\ r.known <=> program # "manager"

StoreOK(s) ==
    /\ s \in [Essids -> Known \cup {Absent}]
    /\ \A e \in Essids : s[e] # Absent => s[e].bss \subseteq {"ap"}

LEMMA NetFields ==
    ASSUME NEW r, NetOK(r)
    PROVE  /\ r \in Wifi /\ r # Nil /\ r.name \in Essids /\ r.sec \in Secs /\ r.h \in Known
           /\ r.bss \subseteq {"ap"} /\ r.h.bss \subseteq {"ap"}
           /\ r.h # Absent
BY NetworksAssumption DEF NetOK, Wifi

LEMMA KnownFields ==
    ASSUME NEW h \in Known
    PROVE  h.sec \in Secs /\ h.bss \in SUBSET Rows /\ h.prio \in Nat
BY DEF Known

LEMMA SetNetOK ==
    ASSUME NEW r, NetOK(r), NEW s \in Secs, NEW b \in SUBSET {"ap"}, NEW y, y = SetNet(r, s, b)
    PROVE  /\ NetOK(y) /\ y.name = r.name /\ y.sec = s /\ y.mod
<1>1. r \in Wifi /\ r.h \in Known
  BY NetFields
<1>2. CASE ~r.known
  <2>1. y = [r EXCEPT !.sec = s, !.bss = b, !.mod = TRUE]
    BY <1>2 DEF SetNet
  <2> QED BY <1>1, <2>1 DEF NetOK, Wifi, Rows
<1>3. CASE r.known
  <2> DEFINE h == [r.h EXCEPT !.sec = s, !.bss = b]
  <2>1. y = [r EXCEPT !.sec = s, !.h = h, !.mod = TRUE]
    BY <1>1, <1>3 DEF SetNet, Wifi
  <2>2. h \in Known /\ h.bss \subseteq {"ap"}
    BY <1>1 DEF Known, Rows
  <2> HIDE DEF h
  <2> QED BY <1>1, <2>1, <2>2 DEF NetOK, Wifi
<1> QED BY <1>2, <1>3

LEMMA SetPrioOK ==
    ASSUME NEW r, NetOK(r), NEW p \in Nat, NEW y, y = SetPrio(r, p)
    PROVE  NetOK(y) /\ y.name = r.name /\ y.mod
<1>1. r \in Wifi /\ r.h \in Known
  BY NetFields
<1> DEFINE h == [r.h EXCEPT !.prio = p]
<1>2. y = [r EXCEPT !.h = h, !.mod = TRUE]
  BY <1>1 DEF SetPrio, Wifi
<1>3. h \in Known /\ h.bss = r.h.bss
  BY <1>1 DEF Known
<1> HIDE DEF h
<1> QED BY <1>1, <1>2, <1>3 DEF NetOK, Wifi

LEMMA SetModOK ==
    ASSUME NEW r, NetOK(r)
    PROVE  /\ NetOK([r EXCEPT !.mod = FALSE]) /\ [r EXCEPT !.mod = FALSE].name = r.name
           /\ [r EXCEPT !.mod = FALSE].h = r.h /\ ~[r EXCEPT !.mod = FALSE].mod
           /\ NetOK([r EXCEPT !.mod = TRUE]) /\ [r EXCEPT !.mod = TRUE].name = r.name
           /\ [r EXCEPT !.mod = TRUE].mod
BY NetFields DEF NetOK, Wifi

LEMMA NewPropsKnown == NewProps \in Known /\ NewProps.bss = {}
BY DEF NewProps, Known, Secs

LEMMA NewKnownOK ==
    ASSUME StoreOK(store), program # "manager", NEW e \in Essids, NEW y, y = NewKnown(e)
    PROVE  /\ NetOK(y) /\ y.name = e /\ ~y.mod
           /\ store[e] # Absent => y.h = store[e]
<1> DEFINE h == IF store[e] # Absent THEN store[e] ELSE NewProps
<1>1. h \in Known /\ h.bss \subseteq {"ap"}
  BY NewPropsKnown DEF StoreOK
<1>2. y = [known |-> TRUE, name |-> e, sec |-> "none", bss |-> {}, mod |-> FALSE, h |-> h]
  BY DEF NewKnown
<1>3. store[e] # Absent => h = store[e]
  OBVIOUS
<1> HIDE DEF h
<1>4. y \in Wifi /\ y.bss = {} /\ y.h = h /\ y.name = e /\ y.known /\ ~y.mod
  BY <1>1, <1>2 DEF Wifi, Secs
<1> QED BY <1>1, <1>3, <1>4 DEF NetOK

LEMMA NewWlanOK ==
    ASSUME program = "manager", NEW e \in Essids, NEW y, y = NewWlan(e)
    PROVE  NetOK(y) /\ y.name = e
<1>1. y = [known |-> FALSE, name |-> e, sec |-> "none", bss |-> {}, mod |-> TRUE, h |-> NewProps]
  BY DEF NewWlan
<1>2. y \in Wifi /\ y.bss = {} /\ y.h = NewProps /\ y.name = e /\ ~y.known
  BY <1>1, NewPropsKnown DEF Wifi, Secs
<1> QED BY <1>2, NewPropsKnown DEF NetOK

LEMMA ReloadOK ==
    ASSUME StoreOK(store), NEW r, NetOK(r), NEW y, y = Reload(r)
    PROVE  /\ NetOK(y) /\ y.name = r.name
           /\ store[r.name] # Absent => y.h = store[r.name]
<1> DEFINE h == IF store[r.name] # Absent THEN store[r.name] ELSE r.h
           s == h.sec
<1>1. r \in Wifi /\ r.name \in Essids /\ r.h \in Known /\ r.h.bss \subseteq {"ap"}
  BY NetFields
<1>2. h \in Known /\ h.bss \subseteq {"ap"}
  BY <1>1 DEF StoreOK
<1>3. y = [r EXCEPT !.h = h, !.sec = s]
  BY <1>1 DEF Reload, Wifi
<1>4. store[r.name] # Absent => h = store[r.name]
  OBVIOUS
<1>5. s \in Secs
  BY <1>2, KnownFields
<1> HIDE DEF h, s
<1>6. y \in Wifi /\ y.bss = r.bss /\ y.h = h /\ y.name = r.name /\ y.known = r.known
  BY <1>1, <1>2, <1>3, <1>5 DEF Wifi
<1> QED BY <1>2, <1>4, <1>6 DEF NetOK

-----------------------------------------------------------------------------
(* The first invariant: types, and what is referred to.                    *)

NwamdOK ==
    /\ StoreOK(store)
    /\ keys \in [Essids -> [text : Texts \cup {Fake}, sec : Secs] \cup {Nil}]
    /\ queue \in Seq(Event)
NetsOK ==
    /\ objs \in [Objs -> Wifi \cup {Nil}]
    /\ \A o \in Objs : objs[o] # Nil => NetOK(objs[o])
ListsOK ==
    /\ hash \subseteq Objs /\ listed \in Seq(Objs) /\ rows \in Seq(Objs)
    /\ program = "manager" => listed = <<>> /\ rows = <<>>
    /\ program # "manager" => hash = {}
    /\ sel # Nil => sel \in Range(rows)
    /\ asked \in hash \cup {Nil}
\* What something refers to exists.
RefsOK ==
    /\ \A o \in InLists : objs[o] # Nil
    /\ dlg.obj # Nil => objs[dlg.obj] # Nil

SafeInv ==
    /\ program \in {"manager", "properties", "gone", "aborted"}
    /\ NwamdOK /\ NetsOK /\ ListsOK /\ RefsOK /\ DialogOK(dlg)
    /\ combo \in [Essids -> Secs \cup {Absent}]

\* The daemon object's favourites stay as they are, but for changes by the user
\* that make them modified.
Quiet ==
    /\ UNCHANGED <<program, store, queue, listed, excused>>
    /\ \A o \in Range(listed) :
         objs'[o] = objs[o] \/ (objs'[o].name = objs[o].name /\ objs'[o].mod)

-----------------------------------------------------------------------------
LEMMA SafeParts ==
    ASSUME SafeInv
    PROVE  /\ NwamdOK /\ NetsOK /\ ListsOK /\ RefsOK /\ DialogOK(dlg)
           /\ combo \in [Essids -> Secs \cup {Absent}]
           /\ StoreOK(store) /\ queue \in Seq(Event)
           /\ dlg \in Dialog
           /\ objs \in [Objs -> Wifi \cup {Nil}]
           /\ hash \subseteq Objs /\ listed \in Seq(Objs) /\ rows \in Seq(Objs)
BY DEF SafeInv, NwamdOK, NetsOK, ListsOK, DialogOK

LEMMA RangeFacts ==
    ASSUME NEW S, NEW s \in Seq(S)
    PROVE  /\ Len(s) \in Nat /\ DOMAIN s = 1 .. Len(s)
           /\ \A i \in DOMAIN s : s[i] \in S /\ s[i] \in Range(s)
           /\ Range(s) \subseteq S
           /\ \A x \in Range(s) : \E i \in DOMAIN s : s[i] = x
<1>1. Len(s) \in Nat /\ DOMAIN s = 1 .. Len(s) /\ \A i \in DOMAIN s : s[i] \in S
  OBVIOUS
<1>2. Range(s) = {s[i] : i \in DOMAIN s}
  BY DEF Range
<1> QED BY <1>1, <1>2

\* The types of this invariant are those of the module.
LEMMA TypesOK ==
    ASSUME SafeInv
    PROVE  WlanTypeOK
<1>1. /\ NwamdOK /\ NetsOK /\ ListsOK /\ RefsOK /\ DialogOK(dlg)
      /\ program \in {"manager", "properties", "gone", "aborted"}
      /\ combo \in [Essids -> Secs \cup {Absent}]
  BY DEF SafeInv
<1>2. /\ store \in [Essids -> Known \cup {Absent}]
      /\ \A e \in Essids : store[e] # Absent => store[e].bss \subseteq {"ap"}
      /\ keys \in [Essids -> [text : Texts \cup {Fake}, sec : Secs] \cup {Nil}]
  BY <1>1 DEF NwamdOK, StoreOK
<1>3. \A o \in Objs : objs[o] # Nil => objs[o].bss \cup objs[o].h.bss \subseteq {"ap"}
  BY <1>1 DEF NetsOK, NetOK
<1>4. /\ listed \in Seq(Objs) /\ rows \in Seq(Objs) /\ hash \subseteq Objs
      /\ (sel # Nil => sel \in Range(rows)) /\ asked \in hash \cup {Nil}
  BY <1>1 DEF ListsOK
<1>5. \A o \in hash : objs[o] # Nil /\ ~objs[o].known
  BY <1>1 DEF NetsOK, NetOK, ListsOK, RefsOK, InLists
<1>6. \A o \in Range(listed) \cup Range(rows) : objs[o] # Nil /\ objs[o].known
  <2> SUFFICES ASSUME NEW o \in Range(listed) \cup Range(rows) PROVE objs[o] # Nil /\ objs[o].known
    OBVIOUS
  <2>1. program # "manager"
    <3> SUFFICES ASSUME program = "manager" PROVE FALSE
      OBVIOUS
    <3>1. listed = <<>> /\ rows = <<>>
      BY <1>1 DEF ListsOK
    <3>2. PICK i : i \in DOMAIN listed \/ i \in DOMAIN rows
      BY <1>4, RangeFacts
    <3> QED BY <3>1, <3>2
  <2>2. o \in Objs /\ objs[o] # Nil
    BY <1>1, <1>4, RangeFacts DEF RefsOK, InLists
  <2> QED BY <1>1, <2>1, <2>2 DEF NetsOK, NetOK
<1>7. dlg \in Dialog /\ (dlg.obj # Nil => objs[dlg.obj] # Nil)
  BY <1>1 DEF RefsOK, DialogOK
<1>8. dlg.key = Fake => dlg.obj # Nil /\ objs[dlg.obj].known /\ ~dlg.conn
  <2> SUFFICES ASSUME dlg.key = Fake PROVE dlg.obj # Nil /\ objs[dlg.obj].known /\ ~dlg.conn
    OBVIOUS
  <2>1. dlg.obj # Nil /\ program # "manager" /\ ~dlg.conn
    BY <1>1 DEF DialogOK
  <2>2. dlg.obj \in Objs /\ objs[dlg.obj] # Nil
    BY <1>7, <2>1, DialogFields
  <2> QED BY <1>1, <2>1, <2>2 DEF NetsOK, NetOK
<1>9. objs \in [Objs -> Wifi \cup {Nil}]
  BY <1>1 DEF NetsOK
<1> QED BY <1>1, <1>2, <1>3, <1>4, <1>5, <1>6, <1>7, <1>8, <1>9 DEF WlanTypeOK

LEMMA NwamdSame ==
    ASSUME NwamdOK, UNCHANGED nwamd
    PROVE  NwamdOK'
BY DEF NwamdOK, StoreOK, nwamd

LEMMA ListsSame ==
    ASSUME ListsOK, UNCHANGED <<listed, hash, panel, asked>>, program' = program
    PROVE  ListsOK'
BY DEF ListsOK, panel

LEMMA DialogSame ==
    ASSUME program' = program, DialogOK(dlg')
    PROVE  DialogOK(dlg)'
BY DEF DialogOK

\* The objects are those of a table of networks that are still used.
LEMMA CollectOK ==
    ASSUME program' = program, NEW t, NEW S,
           t \in [Objs -> Wifi \cup {Nil}], \A o \in Objs : t[o] # Nil => NetOK(t[o]),
           objs' = Collect(t, S)
    PROVE  NetsOK' /\ \A o \in Objs \cap S : objs'[o] = t[o]
<1>1. \A o \in Objs : objs'[o] = IF o \in S THEN t[o] ELSE Nil
  BY DEF Collect
<1>2. objs' \in [Objs -> Wifi \cup {Nil}]
  BY DEF Collect
<1>3. \A o \in Objs : objs'[o] # Nil => NetOK(objs'[o])
  BY <1>1
<1>4. NetsOK'
  BY <1>2, <1>3 DEF NetsOK, NetOK
<1> QED BY <1>1, <1>4

\* One object is given a network.
LEMMA OneOK ==
    ASSUME program' = program, NetsOK, NEW o \in Objs, NEW r, NetOK(r),
           objs' = [objs EXCEPT ![o] = r]
    PROVE  /\ NetsOK' /\ objs'[o] = r /\ objs'[o] # Nil
           /\ \A x \in Objs : x # o => objs'[x] = objs[x]
           /\ \A x \in Objs : objs[x] # Nil => objs'[x] # Nil
<1>1. objs \in [Objs -> Wifi \cup {Nil}] /\ r \in Wifi /\ r # Nil
  BY NetFields DEF NetsOK
<1>2. \A x \in Objs : objs'[x] = IF x = o THEN r ELSE objs[x]
  BY <1>1
<1>3. objs' \in [Objs -> Wifi \cup {Nil}]
  BY <1>1
<1>4. \A x \in Objs : objs'[x] # Nil => NetOK(objs'[x])
  BY <1>2 DEF NetsOK
<1>5. NetsOK'
  BY <1>3, <1>4 DEF NetsOK, NetOK
<1> QED BY <1>1, <1>2, <1>5

LEMMA InListsFacts ==
    ASSUME ListsOK
    PROVE  /\ InLists \subseteq Objs
           /\ Range(listed) \subseteq InLists /\ Range(rows) \subseteq InLists /\ hash \subseteq InLists
BY RangeFacts DEF ListsOK, InLists

-----------------------------------------------------------------------------
\* The dialog is opened, or cancelled: objects only it referred to are freed.
LEMMA DialogStep ==
    ASSUME SafeInv, DialogOK(dlg'), dlg'.obj # Nil => objs[dlg'.obj] # Nil,
           objs' = Collect(objs, InLists \cup {dlg'.obj}),
           UNCHANGED <<program, nwamd, listed, hash, panel, excused>>,
           asked' \in hash \cup {Nil}, combo' \in [Essids -> Secs \cup {Absent}]
    PROVE  SafeInv' /\ Quiet
<1>1. NwamdOK /\ NetsOK /\ ListsOK /\ RefsOK /\ program' = program
  BY SafeParts
<1>2. NwamdOK'
  BY <1>1, NwamdSame
<1>3. ListsOK'
  BY <1>1 DEF ListsOK, panel
<1>4. /\ objs \in [Objs -> Wifi \cup {Nil}]
      /\ \A o \in Objs : objs[o] # Nil => NetOK(objs[o])
  BY <1>1 DEF NetsOK
<1>5. NetsOK' /\ \A o \in Objs \cap (InLists \cup {dlg'.obj}) : objs'[o] = objs[o]
  BY <1>1, <1>4, CollectOK
<1>6. InLists' = InLists /\ InLists \subseteq Objs
  BY <1>1, InListsFacts DEF InLists, panel
<1>7. dlg' \in Dialog /\ (dlg'.obj # Nil => dlg'.obj \in Objs)
  BY DialogFields DEF DialogOK
<1>8. RefsOK'
  BY <1>1, <1>5, <1>6, <1>7 DEF RefsOK
<1>9. DialogOK(dlg)'
  BY <1>1, DialogSame
<1>10. SafeInv'
  BY <1>1, <1>2, <1>3, <1>5, <1>8, <1>9 DEF SafeInv
<1>11. \A o \in Range(listed) : objs'[o] = objs[o]
  BY <1>1, <1>5, <1>6, InListsFacts
<1> QED BY <1>10, <1>11 DEF Quiet, nwamd

\* The user changes the dialog's content.
LEMMA InDialogStep ==
    ASSUME SafeInv, NEW x, InDialog(x), Frame(dlg, x),
           x.key = Blank \/ SameKey(dlg, x) \/ (x.byUser /\ x.typed /\ x.key # Fake)
    PROVE  SafeInv' /\ Quiet
<1>1. NwamdOK /\ NetsOK /\ ListsOK /\ RefsOK /\ DialogOK(dlg)
  BY SafeParts
<1>2. /\ dlg' = x /\ UNCHANGED <<program, nwamd, objs, listed, hash, combo, panel, asked, excused>>
  BY DEF InDialog
<1>3. NwamdOK' /\ ListsOK'
  BY <1>1, <1>2, NwamdSame, ListsSame
<1>4. NetsOK'
  BY <1>1, <1>2 DEF NetsOK, NetOK
<1>5. RefsOK'
  BY <1>1, <1>2 DEF RefsOK, InLists, panel, Frame
<1>6. DialogOK(x)
  BY <1>1 DEF DialogOK, Frame, SameKey, Blank, Fake
<1>7. DialogOK(dlg)'
  BY <1>2, <1>6, DialogSame
<1>8. SafeInv'
  BY <1>2, <1>3, <1>4, <1>5, <1>7, SafeParts DEF SafeInv
<1> QED BY <1>2, <1>8 DEF Quiet, nwamd

LEMMA ListingOK ==
    ASSUME SafeInv
    PROVE  Listing \in [Essids -> Secs \cup {Absent}]
<1>1. NetsOK /\ RefsOK /\ hash \subseteq Objs
  BY SafeParts
<1>2. ASSUME NEW e \in Essids, \E o \in hash : objs[o].name = e
      PROVE  objs[CHOOSE o \in hash : objs[o].name = e].sec \in Secs
  <2> DEFINE c == CHOOSE o \in hash : objs[o].name = e
  <2>1. c \in hash
    BY <1>2
  <2> HIDE DEF c
  <2>2. c \in Objs /\ objs[c] # Nil
    BY <1>1, <2>1 DEF RefsOK, InLists
  <2>3. NetOK(objs[c])
    BY <1>1, <2>2 DEF NetsOK
  <2>4. objs[c].sec \in Secs
    BY <2>3, NetFields
  <2> QED BY <2>4 DEF c
<1> QED BY <1>2 DEF Listing

\* The row that is selected, and what the dialog edits.
LEMMA LiveFacts ==
    ASSUME SafeInv
    PROVE  /\ \A o \in InLists : o \in Objs /\ objs[o] # Nil /\ NetOK(objs[o])
           /\ sel # Nil => sel \in InLists
           /\ dlg.obj # Nil => dlg.obj \in Objs /\ objs[dlg.obj] # Nil /\ NetOK(objs[dlg.obj])
<1>1. NetsOK /\ RefsOK /\ ListsOK /\ dlg \in Dialog
  BY SafeParts
<1>2. InLists \subseteq Objs /\ Range(rows) \subseteq InLists
  BY <1>1, InListsFacts
<1>3. \A o \in InLists : o \in Objs /\ objs[o] # Nil /\ NetOK(objs[o])
  BY <1>1, <1>2 DEF NetsOK, RefsOK
<1>4. sel # Nil => sel \in InLists
  BY <1>1, <1>2 DEF ListsOK
<1>5. dlg.obj # Nil => dlg.obj \in Objs /\ objs[dlg.obj] # Nil
  BY <1>1, DialogFields DEF RefsOK
<1> QED BY <1>1, <1>3, <1>4, <1>5 DEF NetsOK

LEMMA NoNilObj == Nil \notin Objs
BY NetworksAssumption

LEMMA JoinSafe ==
    ASSUME SafeInv, Join
    PROVE  SafeInv' /\ Quiet
<1> DEFINE a == [dlg EXCEPT !.purpose = "join"]
           b == Unset(a)
           c == [b EXCEPT !.conn = TRUE, !.open = TRUE]
<1>1. /\ program = "manager" /\ combo' = Listing /\ dlg' = Refreshed(c)
      /\ objs' = Collect(objs, InLists \cup {dlg'.obj})
      /\ UNCHANGED <<program, nwamd, listed, hash, panel, asked, excused>>
  BY DEF Join
<1>2. dlg \in Dialog /\ asked \in hash \cup {Nil}
  BY SafeParts DEF ListsOK
<1>3. a \in Dialog /\ a.purpose = "join"
  BY <1>2, PutPurpose
<1> HIDE DEF a
<1>4. b \in Dialog /\ b.obj = Nil /\ b.purpose = "join" /\ b.key = Blank
  BY <1>3, UnsetFacts
<1> HIDE DEF b
<1>5. /\ c \in Dialog /\ c.obj = Nil /\ c.purpose = "join" /\ c.conn /\ c.open /\ c.key = Blank
  BY <1>4, PutJoin DEF SameKey
<1> HIDE DEF c
<1>6. Frame(c, dlg') /\ SameKey(c, dlg')
  BY <1>1, <1>5, RefreshedFrame
<1>7. dlg' \in Dialog /\ dlg'.obj = Nil /\ dlg'.purpose = "join" /\ dlg'.conn /\ dlg'.open
        /\ dlg'.key = Blank
  BY <1>5, <1>6 DEF Frame, SameKey
<1>8. DialogOK(dlg')
  BY <1>1, <1>7 DEF DialogOK, Blank, Fake
<1>9. combo' \in [Essids -> Secs \cup {Absent}]
  BY <1>1, ListingOK
<1> QED BY <1>1, <1>2, <1>7, <1>8, <1>9, DialogStep

LEMMA PromptSafe ==
    ASSUME SafeInv, NEW o \in Objs, Prompt(o)
    PROVE  SafeInv' /\ Quiet
<1> DEFINE a == [dlg EXCEPT !.purpose = "join"]
           b == SetWifiNet(a, o, objs[o])
           c == [b EXCEPT !.conn = FALSE, !.open = TRUE]
<1>1. /\ program = "manager" /\ o \in hash /\ asked' = o
      /\ combo' = Listing /\ dlg' = Refreshed(c)
      /\ objs' = Collect(objs, InLists \cup {dlg'.obj})
      /\ UNCHANGED <<program, nwamd, listed, hash, panel, excused>>
  BY DEF Prompt
<1>2. dlg \in Dialog /\ DialogOK(dlg) /\ ListsOK
  BY SafeParts
<1>3. objs[o] # Nil /\ NetOK(objs[o]) /\ objs[o] \in Wifi /\ o # Nil
  BY <1>1, <1>2, LiveFacts, InListsFacts, NetFields, NoNilObj
<1>4. a \in Dialog /\ a.purpose = "join" /\ SameKey(dlg, a)
  BY <1>2, PutPurpose
<1> HIDE DEF a
<1>5. /\ b \in Dialog /\ b.obj = o /\ b.purpose = "join"
      /\ SameKey(a, b) \/ b.key = Blank
  BY <1>1, <1>3, <1>4, NetFacts
<1> HIDE DEF b
<1>6. /\ c \in Dialog /\ c.obj = o /\ c.purpose = "join" /\ ~c.conn /\ c.open
      /\ SameKey(b, c)
  BY <1>5, PutPrompt
<1> HIDE DEF c
<1>7. Frame(c, dlg') /\ SameKey(c, dlg')
  BY <1>1, <1>6, RefreshedFrame
<1>8. dlg' \in Dialog /\ dlg'.obj = o /\ dlg'.purpose = "join" /\ ~dlg'.conn /\ dlg'.open
  BY <1>6, <1>7 DEF Frame
<1>9. SameKey(dlg, dlg') \/ dlg'.key = Blank
  BY <1>4, <1>5, <1>6, <1>7 DEF SameKey
<1>10. DialogOK(dlg')
  BY <1>1, <1>2, <1>3, <1>8, <1>9 DEF DialogOK, SameKey, Blank, Fake
<1>11. combo' \in [Essids -> Secs \cup {Absent}]
  BY <1>1, ListingOK
<1> QED BY <1>1, <1>3, <1>8, <1>10, <1>11, DialogStep

LEMMA OpenAddSafe ==
    ASSUME SafeInv, OpenAdd
    PROVE  SafeInv' /\ Quiet
<1> DEFINE b == Unset(dlg)
<1>1. /\ program = "properties" /\ dlg' = [b EXCEPT !.purpose = "add", !.open = TRUE]
      /\ objs' = Collect(objs, InLists \cup {dlg'.obj})
      /\ UNCHANGED <<program, nwamd, listed, hash, combo, panel, asked, excused>>
  BY DEF OpenAdd, Panel
<1>2. /\ dlg \in Dialog /\ DialogOK(dlg) /\ asked \in hash \cup {Nil}
      /\ combo \in [Essids -> Secs \cup {Absent}]
  BY SafeParts DEF ListsOK
<1>3. b \in Dialog /\ b.obj = Nil /\ b.conn = dlg.conn /\ b.key = Blank
  BY <1>2, UnsetFacts
<1> HIDE DEF b
<1>4. dlg' \in Dialog /\ dlg'.obj = Nil /\ dlg'.purpose = "add" /\ dlg'.conn = dlg.conn
        /\ dlg'.key = Blank
  BY <1>1, <1>3, PutAdd DEF SameKey
<1>5. DialogOK(dlg')
  BY <1>1, <1>2, <1>4 DEF DialogOK, Blank, Fake
<1> QED BY <1>1, <1>2, <1>4, <1>5, DialogStep

LEMMA OpenEditSafe ==
    ASSUME SafeInv, OpenEdit
    PROVE  SafeInv' /\ Quiet
<1> DEFINE b == SetWifiNet(dlg, sel, objs[sel])
<1>1. /\ program = "properties" /\ sel # Nil
      /\ dlg' = [b EXCEPT !.purpose = "edit", !.focus = TRUE, !.conn = FALSE, !.open = TRUE]
      /\ objs' = Collect(objs, InLists \cup {dlg'.obj})
      /\ UNCHANGED <<program, nwamd, listed, hash, combo, panel, asked, excused>>
  BY DEF OpenEdit, Panel
<1>2. /\ dlg \in Dialog /\ DialogOK(dlg) /\ asked \in hash \cup {Nil}
      /\ combo \in [Essids -> Secs \cup {Absent}]
  BY SafeParts DEF ListsOK
<1>3. sel \in Objs /\ objs[sel] # Nil /\ objs[sel] \in Wifi
  BY <1>1, LiveFacts, NetFields
<1>4. b \in Dialog /\ b.obj = sel
  BY <1>1, <1>2, <1>3, NetFacts
<1> HIDE DEF b
<1>5. dlg' \in Dialog /\ dlg'.obj = sel /\ dlg'.purpose = "edit" /\ ~dlg'.conn
  BY <1>1, <1>4, PutEdit
<1>6. DialogOK(dlg')
  BY <1>1, <1>5 DEF DialogOK
<1> QED BY <1>1, <1>2, <1>3, <1>5, <1>6, DialogStep

LEMMA CancelSafe ==
    ASSUME SafeInv, Cancel
    PROVE  SafeInv' /\ Quiet
<1> DEFINE a == Unset(dlg)
           b == [a EXCEPT !.open = FALSE]
<1>1. /\ dlg.open /\ dlg' = AfterCancel(b)
      /\ objs' = Collect(objs, InLists \cup {dlg'.obj})
      /\ UNCHANGED <<program, nwamd, listed, hash, combo, panel, asked, excused>>
  BY DEF Cancel, Responds
<1>2. /\ dlg \in Dialog /\ DialogOK(dlg) /\ asked \in hash \cup {Nil}
      /\ combo \in [Essids -> Secs \cup {Absent}]
  BY SafeParts DEF ListsOK
<1>3. a \in Dialog /\ a.obj = Nil /\ a.conn = dlg.conn /\ a.key = Blank
  BY <1>2, UnsetFacts
<1> HIDE DEF a
<1>4. b \in Dialog /\ b.obj = Nil /\ b.conn = dlg.conn /\ b.key = Blank /\ ~b.open
  BY <1>3, PutOpen DEF SameKey
<1> HIDE DEF b
<1>5. CASE dlg.purpose # "edit"
  <2>1. dlg' = b
    BY <1>1, <1>5 DEF AfterCancel
  <2>2. DialogOK(dlg')
    BY <1>2, <1>4, <2>1 DEF DialogOK, Blank, Fake
  <2> QED BY <1>1, <1>2, <1>4, <2>1, <2>2, DialogStep
<1>6. CASE dlg.purpose = "edit"
  <2>1. dlg.obj # Nil /\ dlg' = SetWifiNet(b, dlg.obj, objs[dlg.obj])
    BY <1>1, <1>2, <1>6 DEF AfterCancel, DialogOK
  <2>2. dlg.obj \in Objs /\ objs[dlg.obj] # Nil /\ objs[dlg.obj] \in Wifi
    BY <2>1, LiveFacts, NetFields
  <2>3. /\ dlg' \in Dialog /\ dlg'.obj = dlg.obj /\ ~dlg'.open /\ dlg'.conn = dlg.conn
        /\ dlg'.key = Blank \/ (dlg'.key = Fake /\ program # "manager")
    BY <1>4, <2>1, <2>2, NetFacts DEF SameKey
  <2>4. DialogOK(dlg')
    BY <1>2, <2>1, <2>3 DEF DialogOK, Blank, Fake
  <2> QED BY <1>1, <1>2, <2>2, <2>3, <2>4, DialogStep
<1> QED BY <1>5, <1>6

\* What the user does in the dialog.
LEMMA UserSafe ==
    ASSUME SafeInv,
           \/ \E o \in Objs : PickEssid(o)
           \/ \E e \in Essids \cup {Blank} : TypeEssid(e)
           \/ \E s \in Secs : ChooseSecurity(s)
           \/ FocusKey \/ \E k \in Texts : TypeKey(k)
           \/ \E b \in SUBSET Rows : EditBssids(b)
    PROVE  SafeInv' /\ Quiet
<1>1. dlg \in Dialog
  BY SafeParts
<1>2. ASSUME NEW o \in Objs, PickEssid(o) PROVE SafeInv' /\ Quiet
  <2> DEFINE r == objs[o]
             a == SetEssid(dlg, r.name)
             b == SetSec(a, combo[r.name])
             x == [b EXCEPT !.bss = r.bss]
  <2>1. o \in hash /\ combo[r.name] # Absent /\ InDialog(x)
    BY <1>2 DEF PickEssid
  <2>2. NetOK(r)
    BY <2>1, LiveFacts, SafeParts, InListsFacts
  <2>3. r.name \in Essids /\ r.bss \in SUBSET Rows
    BY <2>2, NetFields DEF Rows
  <2>4. combo[r.name] \in Secs
    BY <2>1, <2>3, SafeParts
  <2>5. Frame(dlg, a) /\ SameKey(dlg, a)
    BY <1>1, <2>3, EssidFrame
  <2> HIDE DEF a
  <2>6. Frame(a, b) /\ SameKey(a, b)
    BY <2>4, <2>5, SecFrame DEF Frame
  <2> HIDE DEF b
  <2>7. Frame(b, x) /\ SameKey(b, x)
    <3>1. b \in Dialog
      BY <2>6 DEF Frame
    <3>2. x = [b EXCEPT !.bss = r.bss]
      OBVIOUS
    <3> HIDE DEF x, r
    <3> QED BY <2>3, <3>1, <3>2, PutBss
  <2> HIDE DEF x
  <2>8. Frame(dlg, x) /\ SameKey(dlg, x)
    BY <2>5, <2>6, <2>7, FrameChain
  <2> QED BY <2>1, <2>8, InDialogStep
<1>3. ASSUME NEW e \in Essids \cup {Blank}, TypeEssid(e) PROVE SafeInv' /\ Quiet
  BY <1>1, <1>3, EssidFrame, InDialogStep DEF TypeEssid
<1>4. ASSUME NEW s \in Secs, ChooseSecurity(s) PROVE SafeInv' /\ Quiet
  BY <1>1, <1>4, SecFrame, InDialogStep DEF ChooseSecurity
<1>5. ASSUME FocusKey PROVE SafeInv' /\ Quiet
  <2> DEFINE x == [dlg EXCEPT !.focus = FALSE]
             y == ShowKey(x, Blank, FALSE)
             z == [y EXCEPT !.ok = FALSE]
  <2>1. InDialog(IF EditsKnown(dlg) THEN z ELSE x)
    BY <1>5 DEF FocusKey
  <2>2. Frame(dlg, x) /\ SameKey(dlg, x)
    BY <1>1, PutFocus
  <2> HIDE DEF x
  <2>3. Frame(x, y) /\ y.key = Blank
    BY <2>2, ShownFrame DEF Frame, Texts
  <2> HIDE DEF y
  <2>4. Frame(y, z) /\ z.key = Blank
    BY <2>3, PutOk DEF Frame, SameKey
  <2> HIDE DEF z
  <2>5. Frame(dlg, z)
    BY <2>2, <2>3, <2>4, FrameChain
  <2>6. CASE EditsKnown(dlg)
    BY <2>1, <2>4, <2>5, <2>6, InDialogStep
  <2>7. CASE ~EditsKnown(dlg)
    BY <2>1, <2>2, <2>7, InDialogStep
  <2> QED BY <2>6, <2>7
<1>6. ASSUME NEW k \in Texts, TypeKey(k) PROVE SafeInv' /\ Quiet
  <2>1. k # dlg.key /\ InDialog(ShowKey(dlg, k, TRUE)) /\ k # Fake
    BY <1>6 DEF TypeKey, Texts, Fake, Blank
  <2>2. /\ Frame(dlg, ShowKey(dlg, k, TRUE)) /\ ShowKey(dlg, k, TRUE).key = k
        /\ ShowKey(dlg, k, TRUE).byUser /\ ShowKey(dlg, k, TRUE).typed
    BY <1>1, <2>1, TypedFrame
  <2> QED BY <2>1, <2>2, InDialogStep
<1>7. ASSUME NEW b \in SUBSET Rows, EditBssids(b) PROVE SafeInv' /\ Quiet
  BY <1>1, <1>7, PutBss, InDialogStep DEF EditBssids
<1> QED BY <1>2, <1>3, <1>4, <1>5, <1>6, <1>7

-----------------------------------------------------------------------------
(* Lists.                                                                  *)

LEMMA LessWellFounded == IsWellFoundedOn({p \in Nat \X Nat : p[1] < p[2]}, Nat)
BY NatLessThanWellFounded, Zenon DEF OpToRel

LEMMA FirstFacts ==
    ASSUME NEW S \in SUBSET Nat, S # {}
    PROVE  FirstOf(S) \in S /\ \A j \in S : FirstOf(S) <= j
<1> DEFINE R == {p \in Nat \X Nat : p[1] < p[2]}
<1>1. IsWellFoundedOn(R, Nat)
  BY LessWellFounded
<1>2. \A x, y \in Nat : x < y => <<x, y>> \in R
  OBVIOUS
<1> HIDE DEF R
<1>3. PICK i \in S : \A j \in S : <<j, i>> \notin R
  BY <1>1, WFMin
<1>4. ASSUME NEW j \in S PROVE i <= j
  <2>1. i \in Nat /\ j \in Nat /\ ~(j < i)
    BY <1>2, <1>3
  <2> QED BY <2>1
<1> QED BY <1>4 DEF FirstOf

LEMMA RemoveAtFacts ==
    ASSUME NEW q \in Seq(Objs), NEW i \in DOMAIN q, NEW y, y = RemoveAt(q, i)
    PROVE  /\ y \in Seq(Objs) /\ Len(y) = Len(q) - 1 /\ DOMAIN y = 1 .. Len(q) - 1
           /\ i \in 1 .. Len(q) /\ Len(q) \in Nat /\ DOMAIN q = 1 .. Len(q)
           /\ \A k \in 1 .. Len(q) - 1 : y[k] = IF k < i THEN q[k] ELSE q[k + 1]
<1>1. y = SubSeq(q, 1, i - 1) \o SubSeq(q, i + 1, Len(q))
  BY DEF RemoveAt
<1>2. i \in 1 .. Len(q) /\ Len(q) \in Nat /\ DOMAIN q = 1 .. Len(q)
  OBVIOUS
<1> DEFINE s == SubSeq(q, 1, i - 1)
           t == SubSeq(q, i + 1, Len(q))
<1>3. s \in Seq(Objs) /\ Len(s) = i - 1 /\ \A k \in 1 .. Len(s) : s[k] = q[k]
  BY <1>2
<1>4. t \in Seq(Objs) /\ Len(t) = Len(q) - i /\ \A k \in 1 .. Len(t) : t[k] = q[k + i]
  <2>1. t \in Seq(Objs)
    BY <1>2
  <2>2. Len(t) = Len(q) - i
    BY <1>2
  <2>3. \A k \in 1 .. Len(q) - i : t[k] = q[k + i]
    BY <1>2
  <2> QED BY <2>1, <2>2, <2>3
<1>5. y = s \o t
  BY <1>1
<1> HIDE DEF s, t
<1>6. /\ y \in Seq(Objs) /\ Len(y) = Len(s) + Len(t) /\ DOMAIN y = 1 .. Len(y)
      /\ \A k \in 1 .. Len(y) : y[k] = IF k <= Len(s) THEN s[k] ELSE t[k - Len(s)]
  <2>1. /\ s \o t \in Seq(Objs) /\ Len(s \o t) = Len(s) + Len(t)
        /\ \A k \in 1 .. Len(s \o t) : (s \o t)[k] = IF k <= Len(s) THEN s[k] ELSE t[k - Len(s)]
    BY <1>3, <1>4, ConcatFacts
  <2>2. y \in Seq(Objs)
    BY <1>5, <2>1
  <2> QED BY <1>5, <2>1, <2>2
<1>7. Len(y) = Len(q) - 1
  <2> DEFINE a == Len(s)
             b == Len(t)
  <2>1. a = i - 1 /\ b = Len(q) - i /\ Len(y) = a + b
    BY <1>3, <1>4, <1>6
  <2> HIDE DEF a, b
  <2> QED BY <1>2, <2>1
<1>8. ASSUME NEW k \in 1 .. Len(q) - 1 PROVE y[k] = IF k < i THEN q[k] ELSE q[k + 1]
  <2>0. y[k] = IF k <= Len(s) THEN s[k] ELSE t[k - Len(s)]
    BY <1>6, <1>7
  <2>1. CASE k < i
    <3>1. k <= Len(s) /\ k \in 1 .. Len(s)
      BY <1>2, <1>3, <2>1
    <3> QED BY <1>3, <2>0, <2>1, <3>1
  <2>2. CASE ~(k < i)
    <3>1. ~(k <= Len(s)) /\ k - Len(s) = k - (i - 1)
      BY <1>2, <1>3, <2>2
    <3>2. k - (i - 1) \in 1 .. Len(q) - i /\ (k - (i - 1)) + i = k + 1
      BY <1>2, <2>2
    <3>3. t[k - (i - 1)] = q[k + 1]
      BY <1>4, <3>2
    <3> QED BY <2>0, <2>2, <3>1, <3>3
  <2> QED BY <2>1, <2>2
<1>9. DOMAIN y = 1 .. Len(q) - 1
  BY <1>6, <1>7
<1> QED BY <1>2, <1>6, <1>7, <1>8, <1>9

\* y is q without its i-th element: nothing of q is in y twice.
Thinner(y, q, i) ==
    \E f \in [DOMAIN y -> DOMAIN q \ {i}] :
        /\ \A k \in DOMAIN y : y[k] = q[f[k]]
        /\ \A k, l \in DOMAIN y : f[k] = f[l] => k = l
\* y is q with o put somewhere.
Grown(y, q, o) ==
    \E p \in DOMAIN y, f \in [DOMAIN y -> Nat] :
        /\ y[p] = o
        /\ \A k \in DOMAIN y \ {p} : f[k] \in DOMAIN q /\ y[k] = q[f[k]]
        /\ \A k, l \in DOMAIN y \ {p} : f[k] = f[l] => k = l

\* What is left is what was there, and nothing of it is left twice.
LEMMA RemovedFacts ==
    ASSUME NEW q \in Seq(Objs), NEW i \in DOMAIN q, NEW y, y = RemoveAt(q, i)
    PROVE  /\ y \in Seq(Objs) /\ Range(y) \subseteq Range(q)
           /\ Thinner(y, q, i)
           /\ \A j \in DOMAIN q \ {i} : \E k \in DOMAIN y : y[k] = q[j]
<1>1. /\ y \in Seq(Objs) /\ Len(y) = Len(q) - 1 /\ DOMAIN y = 1 .. Len(q) - 1
      /\ i \in 1 .. Len(q) /\ Len(q) \in Nat /\ DOMAIN q = 1 .. Len(q)
      /\ \A k \in 1 .. Len(q) - 1 : y[k] = IF k < i THEN q[k] ELSE q[k + 1]
  BY RemoveAtFacts
<1> DEFINE f == [k \in 1 .. Len(q) - 1 |-> IF k < i THEN k ELSE k + 1]
<1>2. \A k \in 1 .. Len(q) - 1 : (IF k < i THEN k ELSE k + 1) \in 1 .. Len(q) /\ (IF k < i THEN k ELSE k + 1) # i
  BY <1>1
<1>3. f \in [DOMAIN y -> DOMAIN q \ {i}]
  BY <1>1, <1>2
<1>4. \A k \in DOMAIN y : y[k] = q[f[k]]
  BY <1>1
<1>5. \A k, l \in DOMAIN y : f[k] = f[l] => k = l
  BY <1>1
<1>6. ASSUME NEW j \in DOMAIN q \ {i} PROVE \E k \in DOMAIN y : y[k] = q[j]
  <2>1. CASE j < i
    <3>1. j \in 1 .. Len(q) - 1
      BY <1>1, <2>1
    <3> QED BY <1>1, <2>1, <3>1
  <2>2. CASE ~(j < i)
    <3>1. j - 1 \in 1 .. Len(q) - 1 /\ ~(j - 1 < i) /\ (j - 1) + 1 = j
      BY <1>1, <2>2
    <3> QED BY <1>1, <3>1
  <2> QED BY <2>1, <2>2
<1> HIDE DEF f
<1>7. Range(y) \subseteq Range(q)
  BY <1>3, <1>4 DEF Range
<1>8. Thinner(y, q, i)
  BY <1>3, <1>4, <1>5 DEF Thinner
<1> QED BY <1>1, <1>6, <1>7, <1>8

\* An object is put somewhere among the others.
LEMMA InsertedFacts ==
    ASSUME NEW q \in Seq(Objs), NEW o \in Objs, NEW table, NEW y, y = Inserted(q, o, table)
    PROVE  \E p \in 1 .. Len(q) + 1 :
             /\ y \in Seq(Objs) /\ DOMAIN y = 1 .. Len(q) + 1
             /\ Len(q) \in Nat /\ DOMAIN q = 1 .. Len(q)
             /\ \A k \in 1 .. Len(q) + 1 : y[k] = IF k < p THEN q[k] ELSE IF k = p THEN o ELSE q[k - 1]
<1> DEFINE S == {i \in DOMAIN q : \A j \in 1..i : table[q[j]].h.prio < table[o].h.prio}
           n == Cardinality(S)
           p == n + 1
<1>1. Len(q) \in Nat /\ DOMAIN q = 1 .. Len(q)
  OBVIOUS
<1>2. n \in 0 .. Len(q)
  <2>1. IsFiniteSet(1 .. Len(q)) /\ Cardinality(1 .. Len(q)) = Len(q)
    BY <1>1, FS_Interval
  <2>2. S \in SUBSET (1 .. Len(q))
    BY <1>1
  <2> HIDE DEF S
  <2>3. IsFiniteSet(S) /\ Cardinality(S) <= Len(q)
    BY <2>1, <2>2, FS_Subset
  <2>4. Cardinality(S) \in Nat
    BY <2>3, FS_CardinalityType
  <2> QED BY <1>1, <2>3, <2>4
<1>3. y = InsertAt(q, n + 1, o)
  BY DEF Inserted
<1> HIDE DEF n
<1> DEFINE s == SubSeq(q, 1, p - 1)
           u == Append(s, o)
           t == SubSeq(q, p, Len(q))
<1>4. p \in 1 .. Len(q) + 1
  BY <1>1, <1>2
<1>5. y = InsertAt(q, p, o)
  BY <1>3
<1> HIDE DEF p
<1>6. s \in Seq(Objs) /\ Len(s) = p - 1 /\ \A k \in 1 .. Len(s) : s[k] = q[k]
  BY <1>1, <1>4
<1>7. t \in Seq(Objs) /\ Len(t) = Len(q) - p + 1 /\ \A k \in 1 .. Len(t) : t[k] = q[k + p - 1]
  BY <1>1, <1>4
<1>8. y = s \o <<o>> \o t
  BY <1>5 DEF InsertAt
<1> HIDE DEF s, t
<1>9. s \o <<o>> = u
  BY <1>6
<1>10. /\ u \in Seq(Objs) /\ Len(u) = p /\ u[p] = o
       /\ \A k \in 1 .. p - 1 : u[k] = q[k]
  BY <1>4, <1>6
<1> HIDE DEF u
<1>11. y = u \o t
  BY <1>8, <1>9
<1>12. /\ y \in Seq(Objs) /\ Len(y) = Len(u) + Len(t) /\ DOMAIN y = 1 .. Len(y)
       /\ \A k \in 1 .. Len(y) : y[k] = IF k <= Len(u) THEN u[k] ELSE t[k - Len(u)]
  <2>1. /\ u \o t \in Seq(Objs) /\ Len(u \o t) = Len(u) + Len(t)
        /\ \A k \in 1 .. Len(u \o t) : (u \o t)[k] = IF k <= Len(u) THEN u[k] ELSE t[k - Len(u)]
    BY <1>7, <1>10, ConcatFacts
  <2>2. y \in Seq(Objs)
    BY <1>11, <2>1
  <2> QED BY <1>11, <2>1, <2>2
<1>13. Len(y) = Len(q) + 1
  <2> DEFINE a == Len(u)
             b == Len(t)
  <2>1. a = p /\ b = Len(q) - p + 1 /\ Len(y) = a + b
    BY <1>7, <1>10, <1>12
  <2> HIDE DEF a, b
  <2> QED BY <1>1, <1>4, <2>1
<1>14. ASSUME NEW k \in 1 .. Len(q) + 1
       PROVE  y[k] = IF k < p THEN q[k] ELSE IF k = p THEN o ELSE q[k - 1]
  <2>0. y[k] = IF k <= p THEN u[k] ELSE t[k - p]
    BY <1>10, <1>12, <1>13
  <2>1. CASE k < p
    <3>1. k <= p /\ k \in 1 .. p - 1
      BY <1>1, <1>4, <2>1
    <3> QED BY <1>10, <2>0, <2>1, <3>1
  <2>2. CASE k = p
    BY <1>1, <1>4, <1>10, <2>0, <2>2
  <2>3. CASE k > p
    <3>1. ~(k <= p) /\ ~(k < p) /\ k # p /\ k - p \in 1 .. Len(q) - p + 1 /\ (k - p) + p - 1 = k - 1
      BY <1>1, <1>4, <2>3
    <3>2. t[k - p] = q[k - 1]
      BY <1>7, <3>1
    <3> QED BY <2>0, <3>1, <3>2
  <2> QED BY <1>1, <1>4, <2>1, <2>2, <2>3
<1> QED BY <1>1, <1>4, <1>12, <1>13, <1>14

\* ... so that it and the others are in the list, the others as often as before.
LEMMA PutFacts ==
    ASSUME NEW q \in Seq(Objs), NEW o \in Objs, NEW table, NEW y, y = Inserted(q, o, table)
    PROVE  /\ y \in Seq(Objs) /\ Range(y) = Range(q) \cup {o}
           /\ Grown(y, q, o)
           /\ \A j \in DOMAIN q : \E k \in DOMAIN y : y[k] = q[j]
<1>1. PICK p \in 1 .. Len(q) + 1 :
             /\ y \in Seq(Objs) /\ DOMAIN y = 1 .. Len(q) + 1
             /\ Len(q) \in Nat /\ DOMAIN q = 1 .. Len(q)
             /\ \A k \in 1 .. Len(q) + 1 : y[k] = IF k < p THEN q[k] ELSE IF k = p THEN o ELSE q[k - 1]
  BY InsertedFacts
<1> DEFINE f == [k \in 1 .. Len(q) + 1 |-> IF k < p THEN k ELSE k - 1]
<1>2. /\ f \in [DOMAIN y -> Nat]
      /\ \A k \in DOMAIN y \ {p} : f[k] \in DOMAIN q
  BY <1>1
<1>3. \A k \in DOMAIN y \ {p} : y[k] = q[f[k]]
  BY <1>1
<1>4. \A k, l \in DOMAIN y \ {p} : f[k] = f[l] => k = l
  BY <1>1
<1>5. p \in DOMAIN y /\ y[p] = o
  BY <1>1
<1>6. ASSUME NEW j \in DOMAIN q PROVE \E k \in DOMAIN y : y[k] = q[j]
  <2>1. CASE j < p
    <3>1. j \in 1 .. Len(q) + 1
      BY <1>1
    <3> QED BY <1>1, <2>1, <3>1
  <2>2. CASE ~(j < p)
    <3>1. j + 1 \in 1 .. Len(q) + 1 /\ ~(j + 1 < p) /\ j + 1 # p /\ (j + 1) - 1 = j
      BY <1>1, <2>2
    <3>2. y[j + 1] = q[j]
      BY <1>1, <3>1
    <3> QED BY <1>1, <3>1, <3>2
  <2> QED BY <2>1, <2>2
<1> HIDE DEF f
<1>7. Range(y) = Range(q) \cup {o}
  BY <1>2, <1>3, <1>5, <1>6 DEF Range
<1>8. \E g \in [DOMAIN y -> Nat] :
           /\ y[p] = o
           /\ \A k \in DOMAIN y \ {p} : g[k] \in DOMAIN q /\ y[k] = q[g[k]]
           /\ \A k, l \in DOMAIN y \ {p} : g[k] = g[l] => k = l
  BY <1>2, <1>3, <1>4, <1>5
<1>9. Grown(y, q, o)
  BY <1>5, <1>8 DEF Grown
<1> QED BY <1>1, <1>6, <1>7, <1>9

LEMMA AppendRange ==
    ASSUME NEW q \in Seq(Objs), NEW o \in Objs
    PROVE  Append(q, o) \in Seq(Objs) /\ Range(Append(q, o)) = Range(q) \cup {o}
<1>1. /\ DOMAIN q = 1 .. Len(q) /\ Len(q) \in Nat
      /\ DOMAIN Append(q, o) = 1 .. Len(q) + 1
      /\ Append(q, o)[Len(q) + 1] = o
      /\ \A i \in 1 .. Len(q) : Append(q, o)[i] = q[i]
  OBVIOUS
<1>2. Range(Append(q, o)) = {Append(q, o)[i] : i \in 1 .. Len(q) + 1}
  BY <1>1 DEF Range
<1>3. Range(q) = {q[i] : i \in 1 .. Len(q)}
  BY <1>1 DEF Range
<1>4. ASSUME NEW i \in 1 .. Len(q) + 1 PROVE Append(q, o)[i] \in Range(q) \cup {o}
  BY <1>1, <1>3
<1>5. ASSUME NEW x \in Range(q) \cup {o} PROVE \E i \in 1 .. Len(q) + 1 : Append(q, o)[i] = x
  <2>1. CASE x = o
    BY <1>1, <2>1
  <2>2. CASE x # o
    <3>1. PICK i \in 1 .. Len(q) : q[i] = x
      BY <1>3, <2>2
    <3>2. i \in 1 .. Len(q) + 1 /\ Append(q, o)[i] = x
      BY <1>1, <3>1
    <3> QED BY <3>2
  <2> QED BY <2>1, <2>2
<1> QED BY <1>2, <1>4, <1>5

LEMMA WithoutFacts ==
    ASSUME NEW q \in Seq(Objs), NEW o \in Range(q)
    PROVE  \E i \in DOMAIN q : q[i] = o /\ Without(q, o) = RemoveAt(q, i)
<1> DEFINE S == {i \in DOMAIN q : q[i] = o}
<1>1. S \in SUBSET Nat /\ S # {}
  BY RangeFacts
<1>2. FirstOf(S) \in S
  BY <1>1, FirstFacts
<1> QED BY <1>2 DEF Without

-----------------------------------------------------------------------------
(* OK.                                                                     *)

LEMMA FreshFacts ==
    ASSUME Free # {}
    PROVE  Fresh \in Objs /\ objs[Fresh] = Nil
<1>1. Fresh \in Free
  BY DEF Fresh
<1> QED BY <1>1 DEF Free

\* What is written: the dialog's content, to its network or to a new one.
LEMMA PressFacts ==
    ASSUME SafeInv, Presses
    PROVE  /\ Target \in Objs /\ Target # Nil /\ dlg.open /\ NetOK(Written)
           /\ Written.sec = dlg.sec /\ Written.mod
           /\ dlg.obj # Nil => Target = dlg.obj /\ Written.name = objs[Target].name
           /\ dlg.obj = Nil => /\ objs[Target] = Nil /\ Target \notin InLists
                               /\ Written.name = dlg.essid
           /\ keys' \in [Essids -> [text : Texts \cup {Fake}, sec : Secs] \cup {Nil}]
           /\ keys' # keys => StoresKey /\ Fits(dlg)
<1>1. /\ dlg.open /\ Fits(dlg) /\ (dlg.obj = Nil => Free # {} /\ dlg.essid # Blank)
      /\ \/ StoresKey /\ keys' = [keys EXCEPT ![Written.name] = [text |-> dlg.key, sec |-> dlg.sec]]
         \/ UNCHANGED keys
  BY DEF Presses, Responds
<1>2. NwamdOK /\ NetsOK /\ ListsOK /\ RefsOK /\ DialogOK(dlg) /\ dlg \in Dialog /\ StoreOK(store)
  BY SafeParts
<1>3. /\ dlg.obj \in Objs \cup {Nil} /\ dlg.essid \in Essids \cup {Blank} /\ dlg.bss \in SUBSET Rows
      /\ dlg.sec \in Secs /\ dlg.key \in Texts \cup {Fake} /\ dlg.purpose \in {"add", "join", "edit"}
  BY <1>2, DialogFields
<1>4. dlg.bss \in SUBSET {"ap"}
  <2>1. "?" \notin dlg.bss
    BY <1>1 DEF Fits
  <2> QED BY <1>3, <2>1 DEF Rows
<1>5. CASE dlg.obj # Nil
  <2>1. Target = dlg.obj /\ Given = objs[dlg.obj]
    BY <1>5 DEF Target, Given
  <2>2. Target \in Objs /\ NetOK(Given)
    BY <1>5, <2>1, LiveFacts
  <2>3. NetOK(Written) /\ Written.name = Given.name /\ Written.sec = dlg.sec /\ Written.mod
    BY <1>3, <1>4, <2>2, SetNetOK DEF Written
  <2>4. keys' \in [Essids -> [text : Texts \cup {Fake}, sec : Secs] \cup {Nil}]
    BY <1>1, <1>2, <1>3 DEF NwamdOK
  <2>5. keys' # keys => StoresKey
    BY <1>1
  <2> QED BY <1>1, <1>5, <2>1, <2>2, <2>3, <2>4, <2>5
<1>6. CASE dlg.obj = Nil
  <2>1. Target = Fresh
    BY <1>6 DEF Target
  <2>2. Target \in Objs /\ objs[Target] = Nil
    BY <1>1, <1>6, <2>1, FreshFacts
  <2>3. Target \notin InLists
    BY <2>2, LiveFacts
  <2>4. dlg.essid \in Essids
    BY <1>1, <1>3, <1>6
  <2>5. NetOK(Given) /\ Given.name = dlg.essid
    <3>1. CASE dlg.purpose = "add"
      <4>1. program # "manager"
        BY <1>1, <1>2, <3>1 DEF DialogOK
      <4>2. Given = NewKnown(dlg.essid)
        BY <1>6, <3>1 DEF Given
      <4> QED BY <1>2, <2>4, <4>1, <4>2, NewKnownOK
    <3>2. CASE dlg.purpose = "join"
      <4>1. program = "manager"
        BY <1>1, <1>2, <3>2 DEF DialogOK
      <4>2. Given = NewWlan(dlg.essid)
        BY <1>6, <3>2 DEF Given
      <4> QED BY <2>4, <4>1, <4>2, NewWlanOK
    <3>3. CASE dlg.purpose = "edit"
      BY <1>1, <1>2, <1>6, <3>3 DEF DialogOK
    <3> QED BY <1>3, <3>1, <3>2, <3>3
  <2>6. NetOK(Written) /\ Written.name = Given.name /\ Written.sec = dlg.sec /\ Written.mod
    BY <1>3, <1>4, <2>5, SetNetOK DEF Written
  <2>7. keys' \in [Essids -> [text : Texts \cup {Fake}, sec : Secs] \cup {Nil}]
    BY <1>1, <1>2, <1>3 DEF NwamdOK
  <2>8. keys' # keys => StoresKey
    BY <1>1
  <2> QED BY <1>1, <1>6, <2>2, <2>3, <2>5, <2>6, <2>7, <2>8, NoNilObj
<1> QED BY <1>5, <1>6

LEMMA AcceptedFacts ==
    ASSUME SafeInv, Presses, NEW y, y = Accepted(dlg)
    PROVE  /\ y \in Dialog /\ y.obj = Target /\ ~y.open /\ y.conn = dlg.conn
           /\ y.purpose = dlg.purpose
           /\ y.key = IF ~dlg.conn /\ program # "manager" THEN Fake ELSE Blank
<1> DEFINE x == [dlg EXCEPT !.obj = Target, !.open = FALSE]
<1>1. dlg \in Dialog /\ Target \in Objs /\ Target # Nil
  BY SafeParts, PressFacts
<1>2. /\ x \in Dialog /\ x.obj = Target /\ x.open = FALSE /\ x.purpose = dlg.purpose
      /\ x.conn = dlg.conn
  BY <1>1 DEF Dialog
<1>3. y = Blanked(x)
  BY DEF Accepted
<1> HIDE DEF x
<1>4. /\ Frame(x, y)
      /\ y.key = IF ~x.conn /\ x.obj # Nil /\ program # "manager" THEN Fake ELSE Blank
  BY <1>2, <1>3, BlankedFrame
<1> QED BY <1>1, <1>2, <1>4 DEF Frame

\* OK writes one network and may add it to the lists.
LEMMA PressSafe ==
    ASSUME SafeInv, Presses, NEW r, NetOK(r), objs' = [objs EXCEPT ![Target] = r],
           DialogOK(dlg'), dlg'.obj \in {Nil, Target},
           StoreOK(store'), queue' \in Seq(Event),
           listed' \in Seq(Objs), Range(listed') \subseteq Range(listed) \cup {Target},
           rows' \in Seq(Objs), Range(rows') \subseteq Range(rows) \cup {Target},
           program = "manager" => UNCHANGED <<listed, rows>>,
           UNCHANGED <<program, hash, combo, asked>>,
           sel' # Nil => sel' \in Range(rows')
    PROVE  SafeInv'
<1>1. NwamdOK /\ NetsOK /\ ListsOK /\ RefsOK /\ combo \in [Essids -> Secs \cup {Absent}]
      /\ Target \in Objs
      /\ keys' \in [Essids -> [text : Texts \cup {Fake}, sec : Secs] \cup {Nil}]
  BY SafeParts, PressFacts
<1>2. NwamdOK'
  BY <1>1 DEF NwamdOK, StoreOK
<1>3. NetsOK' /\ objs'[Target] # Nil /\ \A x \in Objs : objs[x] # Nil => objs'[x] # Nil
  BY <1>1, OneOK
<1>4. ListsOK'
  BY <1>1 DEF ListsOK
<1>5. InLists' \subseteq InLists \cup {Target} /\ InLists \subseteq Objs
  BY <1>1, InListsFacts DEF InLists
<1>6. RefsOK'
  <2>1. \A o \in InLists' : objs'[o] # Nil
    BY <1>1, <1>3, <1>5 DEF RefsOK
  <2>2. dlg'.obj # Nil => objs'[dlg'.obj] # Nil
    BY <1>3
  <2> QED BY <2>1, <2>2 DEF RefsOK
<1>7. DialogOK(dlg)'
  BY DialogSame
<1>8. program' \in {"manager", "properties", "gone", "aborted"}
  BY DEF SafeInv
<1> QED BY <1>1, <1>2, <1>3, <1>4, <1>6, <1>7, <1>8 DEF SafeInv

\* The favourite it writes, if any, is modified.
LEMMA PressQuiet ==
    ASSUME SafeInv, Presses, NEW r, NetOK(r), r.name = Written.name, r.mod,
           objs' = [objs EXCEPT ![Target] = r],
           UNCHANGED <<program, store, queue, listed, excused>>
    PROVE  Quiet
<1>1. NetsOK /\ Range(listed) \subseteq InLists /\ InLists \subseteq Objs /\ Target \in Objs
  BY SafeParts, InListsFacts, PressFacts
<1>2. objs'[Target] = r /\ \A x \in Objs : x # Target => objs'[x] = objs[x]
  BY <1>1, OneOK
<1>3. ASSUME Target \in Range(listed) PROVE r.name = objs[Target].name
  BY <1>1, <1>3, PressFacts
<1>4. ASSUME NEW o \in Range(listed)
      PROVE  objs'[o] = objs[o] \/ (objs'[o].name = objs[o].name /\ objs'[o].mod)
  <2>1. CASE o = Target
    BY <1>2, <1>3, <2>1
  <2>2. CASE o # Target
    BY <1>1, <1>2, <2>2
  <2> QED BY <2>1, <2>2
<1> QED BY <1>4 DEF Quiet

LEMMA OkRejectedSafe ==
    ASSUME SafeInv, OkRejected
    PROVE  SafeInv' /\ Quiet
<1>1. /\ Presses /\ Written.known
      /\ objs' = [objs EXCEPT ![Target] = Written]
      /\ dlg' = [dlg EXCEPT !.obj = Target]
      /\ UNCHANGED <<program, store, queue, listed, hash, combo, rows, sel, asked, excused>>
  BY DEF OkRejected, panel
<1>2. DialogOK(dlg) /\ dlg \in Dialog /\ NwamdOK /\ ListsOK
  BY SafeParts
<1>3. NetOK(Written) /\ Target \in Objs /\ Target # Nil /\ Written.mod /\ program # "manager"
  BY <1>1, PressFacts DEF NetOK
<1>4. /\ dlg' \in Dialog /\ dlg'.obj = Target /\ dlg'.open = dlg.open
      /\ dlg'.purpose = dlg.purpose /\ dlg'.conn = dlg.conn /\ SameKey(dlg, dlg')
  BY <1>1, <1>2, <1>3, PutObj
<1>5. DialogOK(dlg')
  BY <1>2, <1>3, <1>4 DEF DialogOK, SameKey
<1>6. Quiet
  BY <1>1, <1>3, PressQuiet
<1>7. /\ StoreOK(store') /\ queue' \in Seq(Event) /\ listed' \in Seq(Objs) /\ rows' \in Seq(Objs)
      /\ (sel' # Nil => sel' \in Range(rows'))
  BY <1>1, <1>2 DEF NwamdOK, ListsOK
<1>8. SafeInv'
  BY <1>1, <1>3, <1>4, <1>5, <1>7, PressSafe
<1> QED BY <1>6, <1>8

LEMMA OkJoinSafe ==
    ASSUME SafeInv, OkJoin
    PROVE  /\ SafeInv' /\ Quiet
           /\ request' # request => request' = [essid |-> dlg.essid, sec |-> dlg.sec]
<1>1. /\ Presses /\ dlg.purpose = "join"
      /\ request' = IF dlg.conn THEN Select ELSE request
      /\ objs' = [objs EXCEPT ![Target] = Written]
      /\ dlg' = Accepted(dlg)
      /\ UNCHANGED <<program, store, queue, listed, hash, combo, rows, sel, asked, excused>>
  BY DEF OkJoin, panel
<1>2. DialogOK(dlg) /\ dlg \in Dialog /\ NwamdOK /\ ListsOK
  BY SafeParts
<1>3. /\ NetOK(Written) /\ Target \in Objs /\ Target # Nil /\ Written.mod /\ dlg.open
      /\ Written.sec = dlg.sec /\ (dlg.obj = Nil => Written.name = dlg.essid)
  BY <1>1, PressFacts
<1>4. /\ dlg' \in Dialog /\ dlg'.obj = Target /\ ~dlg'.open /\ dlg'.conn = dlg.conn
      /\ dlg'.key = IF ~dlg.conn /\ program # "manager" THEN Fake ELSE Blank
  BY <1>1, AcceptedFacts
<1>5. DialogOK(dlg')
  BY <1>1, <1>2, <1>3, <1>4 DEF DialogOK, Blank, Fake
<1>6. Quiet
  BY <1>1, <1>3, PressQuiet
<1>7. /\ StoreOK(store') /\ queue' \in Seq(Event) /\ listed' \in Seq(Objs) /\ rows' \in Seq(Objs)
      /\ (sel' # Nil => sel' \in Range(rows'))
  BY <1>1, <1>2 DEF NwamdOK, ListsOK
<1>8. SafeInv'
  BY <1>1, <1>3, <1>4, <1>5, <1>7, PressSafe
<1>9. request' # request => request' = [essid |-> dlg.essid, sec |-> dlg.sec]
  BY <1>1, <1>2, <1>3 DEF Select, DialogOK
<1> QED BY <1>6, <1>8, <1>9

\* A network is saved.
Saves(r) ==
    /\ store' = [store EXCEPT ![r.name] = r.h]
    /\ queue' = Append(queue, EventOf(r.name))

LEMMA EventOfTyped == ASSUME NEW e \in Essids PROVE EventOf(e) \in Event
BY DEF EventOf, EventFor, Event

LEMMA SavesOK ==
    ASSUME SafeInv, NEW r, NetOK(r), Saves(r)
    PROVE  StoreOK(store') /\ queue' \in Seq(Event)
<1>1. StoreOK(store) /\ queue \in Seq(Event) /\ r.name \in Essids /\ r.h \in Known
        /\ r.h.bss \subseteq {"ap"}
  BY SafeParts, NetFields
<1>2. StoreOK(store')
  BY <1>1 DEF StoreOK, Saves
<1>3. queue' \in Seq(Event)
  BY <1>1, EventOfTyped DEF Saves
<1> QED BY <1>2, <1>3

\* The object of OK, saved.
Added(r) ==
    /\ program = "properties" /\ UNCHANGED program
    /\ Presses /\ NetOK(r) /\ ~r.mod /\ r.name = Written.name
    /\ objs' = [objs EXCEPT ![Target] = r]
    /\ Saves(r)
    /\ listed' = Inserted(listed, Target, objs')
    /\ excused' = IF Named(r.name) # {} THEN excused \cup {r.name} ELSE excused
EditSaved(r) ==
    /\ program = "properties" /\ UNCHANGED <<program, listed, excused>>
    /\ Presses /\ NetOK(r) /\ ~r.mod /\ r.name = Written.name /\ dlg.obj # Nil
    /\ objs' = [objs EXCEPT ![Target] = r]
    /\ Saves(r)

LEMMA OkAddSafe ==
    ASSUME SafeInv, OkAdd
    PROVE  SafeInv' /\ (Quiet \/ \E r \in Wifi : Added(r))
<1> DEFINE r == SetPrio(Written, 0)
<1>1. PICK done \in BOOLEAN :
         /\ Commit(r, done)
         /\ objs' = [objs EXCEPT ![Target] = [r EXCEPT !.mod = ~done]]
         /\ listed' = IF done THEN Inserted(listed, Target, objs') ELSE listed
         /\ excused' = IF done /\ Named(r.name) # {} THEN excused \cup {r.name} ELSE excused
  BY Zenon DEF OkAdd
<1>2. /\ Presses /\ dlg.purpose = "add"
      /\ rows' = Append(rows, Target) /\ sel' = Target
      /\ dlg' = Unset(Accepted(dlg))
      /\ UNCHANGED <<program, hash, combo, asked>>
  BY DEF OkAdd
<1>3. DialogOK(dlg) /\ dlg \in Dialog /\ NwamdOK /\ ListsOK
  BY SafeParts
<1>4. NetOK(Written) /\ Target \in Objs /\ Target # Nil /\ dlg.open
  BY <1>2, PressFacts
<1>5. NetOK(r) /\ r.name = Written.name /\ r.mod
  BY <1>4, SetPrioOK
<1> HIDE DEF r
<1>6. program = "properties"
  BY <1>2, <1>3, <1>4 DEF DialogOK
<1>7. Accepted(dlg) \in Dialog /\ Accepted(dlg).obj = Target /\ ~Accepted(dlg).open
        /\ Accepted(dlg).conn = dlg.conn
  BY <1>2, AcceptedFacts
<1>8. dlg' \in Dialog /\ dlg'.obj = Nil /\ ~dlg'.open /\ dlg'.conn = dlg.conn /\ dlg'.key = Blank
  BY <1>2, <1>7, UnsetFacts
<1>9. DialogOK(dlg')
  BY <1>3, <1>6, <1>8 DEF DialogOK, Blank, Fake
<1>10. rows' \in Seq(Objs) /\ Range(rows') = Range(rows) \cup {Target}
  BY <1>2, <1>3, <1>4, AppendRange DEF ListsOK
<1>11. CASE ~done
  <2> DEFINE q == [r EXCEPT !.mod = TRUE]
  <2>1. objs' = [objs EXCEPT ![Target] = q] /\ UNCHANGED <<store, queue, listed, excused>>
    BY <1>1, <1>11 DEF Commit
  <2>2. NetOK(q) /\ q.name = Written.name /\ q.mod
    BY <1>5, SetModOK
  <2> HIDE DEF q
  <2>3. Quiet
    BY <1>2, <2>1, <2>2, PressQuiet
  <2>4. StoreOK(store') /\ queue' \in Seq(Event) /\ listed' \in Seq(Objs)
    BY <1>3, <2>1 DEF NwamdOK, ListsOK
  <2>5. SafeInv'
    BY <1>2, <1>6, <1>8, <1>9, <1>10, <2>1, <2>2, <2>4, PressSafe
  <2> QED BY <2>3, <2>5
<1>12. CASE done
  <2> DEFINE q == [r EXCEPT !.mod = FALSE]
  <2>1. /\ objs' = [objs EXCEPT ![Target] = q]
        /\ store' = [store EXCEPT ![r.name] = r.h]
        /\ queue' = Append(queue, EventOf(r.name))
        /\ listed' = Inserted(listed, Target, objs')
        /\ excused' = IF Named(r.name) # {} THEN excused \cup {r.name} ELSE excused
    BY <1>1, <1>12 DEF Commit
  <2>2. NetOK(q) /\ q.name = r.name /\ q.h = r.h /\ ~q.mod
    BY <1>5, SetModOK
  <2> HIDE DEF q
  <2>3. Saves(q)
    BY <2>1, <2>2 DEF Saves
  <2>4. StoreOK(store') /\ queue' \in Seq(Event)
    BY <2>2, <2>3, SavesOK
  <2>5. listed' \in Seq(Objs) /\ Range(listed') = Range(listed) \cup {Target}
    <3> DEFINE t == objs'
    <3>1. listed \in Seq(Objs) /\ listed' = Inserted(listed, Target, t)
      BY <1>3, <2>1 DEF ListsOK
    <3> HIDE DEF t
    <3> QED BY <1>4, <3>1, PutFacts
  <2>6. SafeInv'
    BY <1>2, <1>6, <1>8, <1>9, <1>10, <2>1, <2>2, <2>4, <2>5, PressSafe
  <2>7. Added(q) /\ q \in Wifi
    BY <1>2, <1>5, <1>6, <2>1, <2>2, <2>3, NetFields DEF Added
  <2> QED BY <2>6, <2>7
<1> QED BY <1>11, <1>12

LEMMA OkEditSafe ==
    ASSUME SafeInv, OkEdit
    PROVE  SafeInv' /\ (Quiet \/ \E r \in Wifi : EditSaved(r))
<1>1. PICK done \in BOOLEAN :
         /\ Commit(Written, done)
         /\ objs' = [objs EXCEPT ![Target] = [Written EXCEPT !.mod = ~done]]
  BY Zenon DEF OkEdit
<1>2. /\ Presses /\ dlg.purpose = "edit"
      /\ dlg' = SetWifiNet(Accepted(dlg), Target, objs'[Target])
      /\ UNCHANGED <<program, listed, hash, combo, rows, sel, asked, excused>>
  BY DEF OkEdit, panel
<1>3. DialogOK(dlg) /\ dlg \in Dialog /\ NwamdOK /\ ListsOK /\ NetsOK
  BY SafeParts
<1>4. NetOK(Written) /\ Target \in Objs /\ Target # Nil /\ dlg.open /\ Written.mod
  BY <1>2, PressFacts
<1>5. program = "properties" /\ dlg.obj # Nil
  BY <1>2, <1>3, <1>4 DEF DialogOK
<1>6. Accepted(dlg) \in Dialog /\ ~Accepted(dlg).open /\ Accepted(dlg).conn = dlg.conn
  BY <1>2, AcceptedFacts
<1>7. ~dlg.conn
  BY <1>3, <1>5 DEF DialogOK
<1>8. ASSUME NEW q, NetOK(q), objs' = [objs EXCEPT ![Target] = q]
      PROVE  dlg'.obj = Target /\ DialogOK(dlg')
  <2>1. objs'[Target] = q /\ q \in Wifi
    BY <1>2, <1>3, <1>4, <1>8, OneOK, NetFields
  <2>2. dlg' = SetWifiNet(Accepted(dlg), Target, q)
    BY <1>2, <2>1
  <2>3. /\ dlg' \in Dialog /\ dlg'.obj = Target /\ dlg'.open = Accepted(dlg).open
        /\ dlg'.conn = Accepted(dlg).conn
    BY <1>4, <1>6, <2>1, <2>2, NetFacts
  <2> QED BY <1>4, <1>5, <1>6, <1>7, <2>3 DEF DialogOK
<1>9. CASE ~done
  <2> DEFINE q == [Written EXCEPT !.mod = TRUE]
  <2>1. objs' = [objs EXCEPT ![Target] = q] /\ UNCHANGED <<store, queue>>
    BY <1>1, <1>9 DEF Commit
  <2>2. NetOK(q) /\ q.name = Written.name /\ q.mod
    BY <1>4, SetModOK
  <2> HIDE DEF q
  <2>3. Quiet
    BY <1>2, <2>1, <2>2, PressQuiet
  <2>4. /\ StoreOK(store') /\ queue' \in Seq(Event) /\ listed' \in Seq(Objs) /\ rows' \in Seq(Objs)
        /\ (sel' # Nil => sel' \in Range(rows'))
    BY <1>2, <1>3, <2>1 DEF NwamdOK, ListsOK
  <2>5. SafeInv'
    BY <1>2, <1>5, <1>8, <2>1, <2>2, <2>4, PressSafe
  <2> QED BY <2>3, <2>5
<1>10. CASE done
  <2> DEFINE q == [Written EXCEPT !.mod = FALSE]
  <2>1. /\ objs' = [objs EXCEPT ![Target] = q]
        /\ store' = [store EXCEPT ![Written.name] = Written.h]
        /\ queue' = Append(queue, EventOf(Written.name))
    BY <1>1, <1>10 DEF Commit
  <2>2. NetOK(q) /\ q.name = Written.name /\ q.h = Written.h /\ ~q.mod
    BY <1>4, SetModOK
  <2> HIDE DEF q
  <2>3. Saves(q)
    BY <2>1, <2>2 DEF Saves
  <2>4. StoreOK(store') /\ queue' \in Seq(Event)
    BY <2>2, <2>3, SavesOK
  <2>5. /\ listed' \in Seq(Objs) /\ rows' \in Seq(Objs)
        /\ (sel' # Nil => sel' \in Range(rows'))
    BY <1>2, <1>3 DEF ListsOK
  <2>6. SafeInv'
    BY <1>2, <1>5, <1>8, <2>1, <2>2, <2>4, <2>5, PressSafe
  <2>7. EditSaved(q) /\ q \in Wifi
    BY <1>2, <1>5, <2>1, <2>2, <2>3, NetFields DEF EditSaved
  <2> QED BY <2>6, <2>7
<1> QED BY <1>9, <1>10

-----------------------------------------------------------------------------
(* The list of favourites.                                                 *)

\* The lists are changed, and objects nothing refers to any more are freed.
LEMMA ListStep ==
    ASSUME SafeInv, program = "properties", NEW t, NEW S,
           t \in [Objs -> Wifi \cup {Nil}], \A o \in Objs : t[o] # Nil => NetOK(t[o]),
           \A o \in Objs : objs[o] # Nil => t[o] # Nil,
           \A o \in S : o \in Objs /\ objs[o] # Nil,
           objs' = Kept(t, S),
           StoreOK(store'), queue' \in Seq(Event), listed' \in Seq(Objs), rows' \in Seq(Objs),
           Range(listed') \cup Range(rows') \subseteq S,
           sel' # Nil => sel' \in Range(rows'),
           UNCHANGED <<program, keys, hash, combo, dlg, asked>>
    PROVE  SafeInv' /\ \A o \in S : objs'[o] = t[o]
<1>1. NwamdOK /\ NetsOK /\ ListsOK /\ RefsOK /\ DialogOK(dlg) /\ hash = {}
  BY SafeParts DEF ListsOK
<1>2. objs' = Collect(t, S \cup {dlg.obj})
  BY DEF Kept
<1>3. NetsOK' /\ \A o \in Objs \cap (S \cup {dlg.obj}) : objs'[o] = t[o]
  BY <1>2, CollectOK
<1>4. NwamdOK'
  BY <1>1 DEF NwamdOK, StoreOK
<1>5. ListsOK'
  BY <1>1 DEF ListsOK
<1>6. dlg.obj # Nil => dlg.obj \in Objs /\ objs[dlg.obj] # Nil
  BY LiveFacts
<1>7. RefsOK'
  BY <1>1, <1>3, <1>6 DEF RefsOK, InLists
<1>8. DialogOK(dlg)'
  BY <1>1 DEF DialogOK
<1> QED BY <1>1, <1>3, <1>4, <1>5, <1>7, <1>8, SafeParts DEF SafeInv

LEMMA PopulateSafe ==
    ASSUME SafeInv, Populate
    PROVE  SafeInv' /\ Quiet
<1>1. /\ program = "properties" /\ rows' = listed /\ sel' = Nil
      /\ objs' = Kept(objs, Range(listed))
      /\ UNCHANGED <<program, store, keys, queue, listed, hash, combo, dlg, asked, excused>>
  BY DEF Populate, nwamd
<1>2. /\ NwamdOK /\ NetsOK /\ ListsOK /\ StoreOK(store) /\ queue \in Seq(Event)
      /\ listed \in Seq(Objs)
  BY SafeParts
<1>3. /\ objs \in [Objs -> Wifi \cup {Nil}]
      /\ \A o \in Objs : objs[o] # Nil => NetOK(objs[o])
  BY <1>2 DEF NetsOK
<1>4. \A o \in Range(listed) : o \in Objs /\ objs[o] # Nil
  BY <1>2, LiveFacts, InListsFacts
<1>5. StoreOK(store') /\ queue' \in Seq(Event) /\ listed' \in Seq(Objs) /\ rows' \in Seq(Objs)
        /\ Range(listed') \cup Range(rows') \subseteq Range(listed)
  BY <1>1, <1>2
<1>6. SafeInv' /\ \A o \in Range(listed) : objs'[o] = objs[o]
  BY <1>1, <1>3, <1>4, <1>5, ListStep
<1> QED BY <1>1, <1>6 DEF Quiet

\* The user's selection and the order of the rows.
LEMMA RowsSafe ==
    ASSUME SafeInv, rows' \in Seq(Objs), Range(rows') \subseteq Range(rows),
           program = "manager" => rows' = rows,
           sel' # Nil => sel' \in Range(rows'),
           UNCHANGED <<program, nwamd, objs, listed, hash, combo, dlg, asked, excused>>
    PROVE  SafeInv' /\ Quiet
<1>1. NwamdOK /\ NetsOK /\ ListsOK /\ RefsOK /\ DialogOK(dlg)
  BY SafeParts
<1>2. NwamdOK'
  BY <1>1, NwamdSame
<1>3. NetsOK'
  BY <1>1 DEF NetsOK, NetOK
<1>4. ListsOK'
  BY <1>1 DEF ListsOK
<1>5. RefsOK'
  BY <1>1 DEF RefsOK, InLists
<1>6. DialogOK(dlg)'
  BY <1>1 DEF DialogOK
<1>7. SafeInv'
  BY <1>2, <1>3, <1>4, <1>5, <1>6, SafeParts DEF SafeInv
<1> QED BY <1>7 DEF Quiet, nwamd

LEMMA SelectRowSafe ==
    ASSUME SafeInv, NEW o \in Objs, SelectRow(o)
    PROVE  SafeInv' /\ Quiet
<1>1. /\ o \in Range(rows) /\ sel' = o
      /\ UNCHANGED <<program, nwamd, objs, listed, hash, combo, rows, dlg, asked, excused>>
  BY DEF SelectRow
<1>2. rows \in Seq(Objs)
  BY SafeParts
<1> QED BY <1>1, <1>2, RowsSafe

LEMMA MoveSafe ==
    ASSUME SafeInv, Move
    PROVE  SafeInv' /\ Quiet
<1>1. /\ program = "properties"
      /\ UNCHANGED <<program, nwamd, objs, listed, hash, combo, sel, dlg, asked, excused>>
  BY DEF Move, Panel
<1>2. PICK i \in 1..(Len(rows) - 1) :
         /\ sel \in {rows[i], rows[i + 1]}
         /\ rows' = [rows EXCEPT ![i] = rows[i + 1], ![i + 1] = rows[i]]
  BY DEF Move
<1>3. rows \in Seq(Objs) /\ DOMAIN rows = 1 .. Len(rows) /\ Len(rows) \in Nat
  BY SafeParts
<1>4. i \in DOMAIN rows /\ i + 1 \in DOMAIN rows /\ i # i + 1
  BY <1>3
<1>5. rows[i] \in Objs /\ rows[i + 1] \in Objs
  BY <1>3, <1>4
<1>6. rows' \in Seq(Objs) /\ DOMAIN rows' = DOMAIN rows
  BY <1>2, <1>3, <1>4, <1>5
<1>7. \A k \in DOMAIN rows : rows'[k] = IF k = i THEN rows[i + 1] ELSE IF k = i + 1 THEN rows[i] ELSE rows[k]
  BY <1>2, <1>3, <1>4
<1>8. Range(rows') \subseteq Range(rows)
  BY <1>4, <1>6, <1>7 DEF Range
<1>9. sel \in Range(rows')
  <2>1. rows'[i] = rows[i + 1] /\ rows'[i + 1] = rows[i]
    BY <1>4, <1>7
  <2> QED BY <1>2, <1>4, <1>6, <2>1 DEF Range
<1> QED BY <1>1, <1>6, <1>8, <1>9, RowsSafe

\* Favourites in the rows are given their places as priorities.
LEMMA PrioritisedOK ==
    ASSUME SafeInv, NEW t, t = Prioritised
    PROVE  /\ t \in [Objs -> Wifi \cup {Nil}]
           /\ \A o \in Objs : /\ t[o] # Nil => NetOK(t[o])
                              /\ objs[o] # Nil => t[o] # Nil
                              /\ t[o] = objs[o] \/ (t[o].name = objs[o].name /\ t[o].mod)
<1>1. NetsOK /\ rows \in Seq(Objs) /\ ListsOK
  BY SafeParts
<1>2. /\ objs \in [Objs -> Wifi \cup {Nil}]
      /\ \A o \in Objs : objs[o] # Nil => NetOK(objs[o])
  BY <1>1 DEF NetsOK
<1> DEFINE p(o) == CHOOSE i \in 0..(Len(rows) - 1) : rows[i + 1] = o
<1>3. ASSUME NEW o \in Range(rows) PROVE p(o) \in Nat
  <2>1. PICK k \in DOMAIN rows : rows[k] = o
    BY <1>1, RangeFacts
  <2>2. k \in 1 .. Len(rows) /\ Len(rows) \in Nat
    BY <1>1
  <2>3. k - 1 \in 0 .. (Len(rows) - 1) /\ (k - 1) + 1 = k
    BY <2>2
  <2>4. \E i \in 0 .. (Len(rows) - 1) : rows[i + 1] = o
    BY <2>1, <2>3
  <2>5. p(o) \in 0 .. (Len(rows) - 1)
    BY <2>4
  <2> QED BY <2>5
<1>4. \A o \in Objs : t[o] = IF o \in Range(rows) THEN SetPrio(objs[o], p(o)) ELSE objs[o]
  BY DEF Prioritised
<1>5. t = [o \in Objs |-> t[o]]
  BY DEF Prioritised
<1> HIDE DEF p
<1>6. ASSUME NEW o \in Objs
      PROVE  /\ t[o] \in Wifi \cup {Nil}
             /\ t[o] # Nil => NetOK(t[o])
             /\ objs[o] # Nil => t[o] # Nil
             /\ t[o] = objs[o] \/ (t[o].name = objs[o].name /\ t[o].mod)
  <2>1. CASE o \in Range(rows)
    <3>1. NetOK(objs[o])
      BY <1>1, <2>1, LiveFacts, InListsFacts
    <3>2. t[o] = SetPrio(objs[o], p(o)) /\ p(o) \in Nat
      BY <1>3, <1>4, <2>1
    <3>3. NetOK(t[o]) /\ t[o].name = objs[o].name /\ t[o].mod
      BY <3>1, <3>2, SetPrioOK
    <3> QED BY <3>3, NetFields
  <2>2. CASE o \notin Range(rows)
    BY <1>2, <1>4, <2>2
  <2> QED BY <2>1, <2>2
<1> QED BY <1>5, <1>6

LEMMA SwitchConnectionSafe ==
    ASSUME SafeInv, SwitchConnection
    PROVE  SafeInv' /\ Quiet
<1> DEFINE t == Prioritised
<1>1. /\ program = "properties" /\ rows' = listed /\ sel' = Nil
      /\ objs' = Kept(t, Range(listed))
      /\ UNCHANGED <<program, store, keys, queue, listed, hash, combo, dlg, asked, excused>>
  BY DEF SwitchConnection, Panel, nwamd
<1>2. /\ NwamdOK /\ NetsOK /\ ListsOK /\ StoreOK(store) /\ queue \in Seq(Event)
      /\ listed \in Seq(Objs)
  BY SafeParts
<1>3. /\ t \in [Objs -> Wifi \cup {Nil}]
      /\ \A o \in Objs : /\ t[o] # Nil => NetOK(t[o])
                         /\ objs[o] # Nil => t[o] # Nil
                         /\ t[o] = objs[o] \/ (t[o].name = objs[o].name /\ t[o].mod)
  BY PrioritisedOK
<1> HIDE DEF t
<1>4. \A o \in Range(listed) : o \in Objs /\ objs[o] # Nil
  BY <1>2, LiveFacts, InListsFacts
<1>5. StoreOK(store') /\ queue' \in Seq(Event) /\ listed' \in Seq(Objs) /\ rows' \in Seq(Objs)
        /\ Range(listed') \cup Range(rows') \subseteq Range(listed)
  BY <1>1, <1>2
<1>6. SafeInv' /\ \A o \in Range(listed) : objs'[o] = t[o]
  BY <1>1, <1>3, <1>4, <1>5, ListStep
<1>7. \A o \in Range(listed) : objs'[o] = objs[o] \/ (objs'[o].name = objs[o].name /\ objs'[o].mod)
  BY <1>3, <1>4, <1>6
<1> QED BY <1>1, <1>6, <1>7 DEF Quiet

\* The end of the program: nothing but the objects and what is stored changes.
LEMMA EndSafe ==
    ASSUME SafeInv, program = "properties", ~dlg.open, program' \in {"gone", "aborted"},
           objs' \in [Objs -> Wifi \cup {Nil}], \A o \in Objs : objs'[o] # Nil => NetOK(objs'[o]),
           \A o \in Objs : objs[o] # Nil => objs'[o] # Nil,
           StoreOK(store'), UNCHANGED <<keys, queue, listed, hash, combo, panel, dlg, asked>>
    PROVE  SafeInv'
<1>1. NwamdOK /\ NetsOK /\ ListsOK /\ RefsOK /\ DialogOK(dlg) /\ dlg \in Dialog
  BY SafeParts
<1>2. NwamdOK'
  BY <1>1 DEF NwamdOK, StoreOK
<1>3. NetsOK'
  BY DEF NetsOK, NetOK
<1>4. ListsOK'
  BY <1>1 DEF ListsOK, panel
<1>5. RefsOK'
  <2>1. InLists' = InLists /\ InLists \subseteq Objs
    BY <1>1, InListsFacts DEF InLists, panel
  <2> QED BY <1>1, <2>1, DialogFields DEF RefsOK
<1>6. DialogOK(dlg)'
  BY <1>1 DEF DialogOK
<1> QED BY <1>2, <1>3, <1>4, <1>5, <1>6, SafeParts DEF SafeInv

LEMMA RemoveGoneSafe ==
    ASSUME SafeInv, RemoveGone
    PROVE  SafeInv'
<1>1. /\ program = "properties" /\ ~dlg.open /\ program' = "aborted"
      /\ UNCHANGED <<store, keys, queue, objs, listed, hash, combo, panel, dlg, asked>>
  BY DEF RemoveGone, Panel, nwamd
<1>2. NetsOK /\ StoreOK(store)
  BY SafeParts
<1>3. objs' \in [Objs -> Wifi \cup {Nil}] /\ (\A o \in Objs : objs'[o] # Nil => NetOK(objs'[o]))
        /\ (\A o \in Objs : objs[o] # Nil => objs'[o] # Nil)
  BY <1>1, <1>2 DEF NetsOK
<1>4. StoreOK(store')
  BY <1>1, <1>2
<1> QED BY <1>1, <1>3, <1>4, EndSafe

LEMMA LastOne ==
    ASSUME NEW n \in Nat, NEW S \in SUBSET (1 .. n), S # {}
    PROVE  \E i \in S : \A j \in S : j <= i
<1> DEFINE T == {n - j : j \in S}
           R == {p \in Nat \X Nat : p[1] < p[2]}
<1>1. T \subseteq Nat /\ T # {}
  <2>1. \A j \in S : j \in 1 .. n
    OBVIOUS
  <2>2. \A j \in 1 .. n : n - j \in Nat
    OBVIOUS
  <2> QED BY <2>1, <2>2, Zenon
<1>2. IsWellFoundedOn(R, Nat)
  BY LessWellFounded
<1>3. \A x, y \in Nat : x < y => <<x, y>> \in R
  OBVIOUS
<1> HIDE DEF R
<1>4. PICK x \in T : \A y \in T : <<y, x>> \notin R
  <2> HIDE DEF T
  <2> QED BY <1>1, <1>2, WFMin
<1>5. PICK j \in S : x = n - j
  OBVIOUS
<1>6. ASSUME NEW k \in S PROVE k <= j
  <2>1. n - k \in T /\ n - k \in Nat /\ x \in Nat
    OBVIOUS
  <2>2. ~(n - k < x)
    <3> HIDE DEF T
    <3> QED BY <1>3, <1>4, <2>1
  <2> QED BY <1>5, <2>2
<1> QED BY <1>6

\* What is stored is what the last of a name that is saved has.
LEMMA SavedByFacts ==
    ASSUME listed \in Seq(Objs), NEW t, NEW S \in SUBSET DOMAIN listed, NEW e \in Essids
    PROVE  \/ /\ SavedBy(t, S)[e] = store[e]
              /\ \A i \in S : t[listed[i]].name # e
           \/ \E i \in S : t[listed[i]].name = e /\ SavedBy(t, S)[e] = t[listed[i]].h
<1> DEFINE N == {i \in S : t[listed[i]].name = e}
           l == CHOOSE i \in N : \A j \in N : j <= i
<1>1. SavedBy(t, S)[e] = IF N = {} THEN store[e] ELSE t[listed[l]].h
  BY DEF SavedBy
<1>2. CASE N = {}
  BY <1>1, <1>2
<1>3. CASE N # {}
  <2>1. Len(listed) \in Nat /\ N \in SUBSET (1 .. Len(listed))
    OBVIOUS
  <2> HIDE DEF N
  <2>2. \E i \in N : \A j \in N : j <= i
    BY <1>3, <2>1, LastOne
  <2>3. l \in N
    BY <2>2
  <2>4. SavedBy(t, S)[e] = t[listed[l]].h
    BY <1>1, <1>3
  <2> HIDE DEF l
  <2> QED BY <2>3, <2>4 DEF N
<1> QED BY <1>2, <1>3

LEMMA SavedByOK ==
    ASSUME SafeInv, NEW t, \A o \in Range(listed) : NetOK(t[o]), NEW S \in SUBSET DOMAIN listed
    PROVE  StoreOK(SavedBy(t, S))
<1>1. listed \in Seq(Objs) /\ StoreOK(store)
  BY SafeParts
<1>2. ASSUME NEW e \in Essids
      PROVE  /\ SavedBy(t, S)[e] \in Known \cup {Absent}
             /\ SavedBy(t, S)[e] # Absent => SavedBy(t, S)[e].bss \subseteq {"ap"}
  <2>1. CASE SavedBy(t, S)[e] = store[e]
    BY <1>1, <2>1 DEF StoreOK
  <2>2. ASSUME NEW i \in S, SavedBy(t, S)[e] = t[listed[i]].h
        PROVE  SavedBy(t, S)[e] \in Known /\ SavedBy(t, S)[e].bss \subseteq {"ap"}
    <3>1. NetOK(t[listed[i]])
      BY <1>1, RangeFacts
    <3>2. t[listed[i]].h \in Known /\ t[listed[i]].h.bss \subseteq {"ap"}
      BY <3>1, NetFields
    <3> QED BY <2>2, <3>2
  <2> QED BY <1>1, <2>1, <2>2, SavedByFacts
<1>3. SavedBy(t, S) = [e \in Essids |-> SavedBy(t, S)[e]]
  BY DEF SavedBy
<1> QED BY <1>2, <1>3 DEF StoreOK

LEMMA PrefsOkSafe ==
    ASSUME SafeInv, PrefsOk
    PROVE  SafeInv'
<1> DEFINE t == Prioritised
           S == Changed(t, Len(listed))
<1>1. /\ program = "properties" /\ ~dlg.open /\ program' = "gone" /\ objs' = t
      /\ store' = SavedBy(t, S)
      /\ UNCHANGED <<keys, queue, listed, hash, combo, panel, dlg, asked>>
  BY DEF PrefsOk, Panel
<1>2. /\ t \in [Objs -> Wifi \cup {Nil}]
      /\ \A o \in Objs : (t[o] # Nil => NetOK(t[o])) /\ (objs[o] # Nil => t[o] # Nil)
  BY PrioritisedOK
<1> HIDE DEF t
<1>3. S \in SUBSET DOMAIN listed /\ ListsOK
  BY SafeParts DEF Changed
<1>4. \A o \in Range(listed) : NetOK(t[o])
  BY <1>2, <1>3, LiveFacts, InListsFacts
<1>5. StoreOK(store')
  BY <1>1, <1>3, <1>4, SavedByOK
<1> QED BY <1>1, <1>2, <1>5, EndSafe

\* A commit that fails at the n-th favourite.
Failed(t, S, order) ==
    /\ program = "properties" /\ UNCHANGED <<program, listed, excused>> /\ queue = <<>>
    /\ t = Prioritised
    /\ S \in SUBSET DOMAIN listed
    /\ order \in Ordered(S) /\ DOMAIN order = 1 .. Cardinality(S) /\ Cardinality(S) \in Nat
    /\ store' = SavedBy(t, S)
    /\ queue' = [k \in DOMAIN order |-> EventOf(objs[listed[order[k]]].name)]
    /\ objs' = [o \in Objs |-> IF \E i \in S : listed[i] = o
                               THEN [t[o] EXCEPT !.mod = FALSE] ELSE t[o]]

LEMMA PrefsFailSafe ==
    ASSUME SafeInv, PrefsFail
    PROVE  SafeInv' /\ \E t, S, order : Failed(t, S, order)
<1> DEFINE t == Prioritised
<1>1. /\ program = "properties" /\ ~dlg.open /\ queue = <<>>
      /\ UNCHANGED <<program, keys, listed, hash, combo, panel, dlg, asked, excused>>
  BY DEF PrefsFail, Panel
<1>2. PICK n \in DOMAIN listed :
         LET saved == Changed(t, n - 1) IN
         /\ store' = SavedBy(t, saved)
         /\ \E order \in Ordered(saved) :
              queue' = [k \in DOMAIN order |-> EventOf(objs[listed[order[k]]].name)]
         /\ objs' = [o \in Objs |-> IF \E i \in saved : listed[i] = o
                                    THEN [t[o] EXCEPT !.mod = FALSE] ELSE t[o]]
  BY DEF PrefsFail
<1>3. /\ t \in [Objs -> Wifi \cup {Nil}]
      /\ \A o \in Objs : (t[o] # Nil => NetOK(t[o])) /\ (objs[o] # Nil => t[o] # Nil)
  BY PrioritisedOK
<1>4. t = Prioritised
  OBVIOUS
<1> HIDE DEF t
<1> DEFINE S == Changed(t, n - 1)
<1>5. S \in SUBSET DOMAIN listed /\ S \in SUBSET (1 .. Len(listed)) /\ Len(listed) \in Nat
        /\ ListsOK /\ NwamdOK /\ NetsOK /\ RefsOK
  <2>1. listed \in Seq(Objs) /\ ListsOK /\ NwamdOK /\ NetsOK /\ RefsOK
    BY SafeParts
  <2>2. n \in 1 .. Len(listed) /\ Len(listed) \in Nat /\ DOMAIN listed = 1 .. Len(listed)
    BY <2>1
  <2> QED BY <2>1, <2>2 DEF Changed
<1>6. PICK order \in Ordered(S) :
              queue' = [k \in DOMAIN order |-> EventOf(objs[listed[order[k]]].name)]
  BY <1>2
<1>7. store' = SavedBy(t, S)
  BY <1>2
<1>8. objs' = [o \in Objs |-> IF \E i \in S : listed[i] = o
                              THEN [t[o] EXCEPT !.mod = FALSE] ELSE t[o]]
  BY <1>2
<1> HIDE DEF S
<1>9. Cardinality(S) \in Nat
  <2>1. IsFiniteSet(1 .. Len(listed))
    BY <1>5, FS_Interval
  <2>2. IsFiniteSet(S)
    BY <1>5, <2>1, FS_Subset
  <2> QED BY <2>2, FS_CardinalityType
<1>10. order \in [1 .. Cardinality(S) -> S]
  BY <1>6 DEF Ordered
<1>11. \A o \in Range(listed) : o \in Objs /\ objs[o] # Nil /\ NetOK(t[o])
  BY <1>3, <1>5, LiveFacts, InListsFacts
<1>12. StoreOK(store')
  BY <1>5, <1>7, <1>11, SavedByOK
<1>13. queue' \in Seq(Event)
  <2>1. ASSUME NEW k \in DOMAIN order PROVE EventOf(objs[listed[order[k]]].name) \in Event
    <3>1. order[k] \in DOMAIN listed /\ listed \in Seq(Objs)
      BY <1>5, <1>10 DEF ListsOK
    <3>2. listed[order[k]] \in Range(listed) /\ listed[order[k]] \in Objs
      BY <3>1, RangeFacts
    <3>3. objs[listed[order[k]]].name \in Essids
      BY <1>5, <1>11, <3>2, NetFields DEF NetsOK
    <3> QED BY <3>3, EventOfTyped
  <2>2. DOMAIN order = 1 .. Cardinality(S)
    BY <1>10
  <2> DEFINE m == Cardinality(S)
             q == [k \in 1 .. m |-> EventOf(objs[listed[order[k]]].name)]
  <2>3. queue' = q /\ m \in Nat /\ q \in [1 .. m -> Event]
    BY <1>6, <1>9, <2>1, <2>2
  <2> HIDE DEF m, q
  <2> QED BY <2>3
<1>14. NetsOK' /\ \A o \in Objs : objs[o] # Nil => objs'[o] # Nil
  <2>1. ASSUME NEW o \in Objs
        PROVE  /\ objs'[o] \in Wifi \cup {Nil} /\ (objs'[o] # Nil => NetOK(objs'[o]))
               /\ (objs[o] # Nil => objs'[o] # Nil)
    <3>1. CASE \E i \in S : listed[i] = o
      <4>1. o \in Range(listed)
        BY <1>5, <3>1, RangeFacts DEF ListsOK
      <4>2. objs'[o] = [t[o] EXCEPT !.mod = FALSE] /\ NetOK(t[o])
        BY <1>8, <1>11, <3>1, <4>1
      <4>3. NetOK(objs'[o])
        BY <4>2, SetModOK
      <4> QED BY <4>3, NetFields
    <3>2. CASE ~ \E i \in S : listed[i] = o
      BY <1>3, <1>8, <3>2
    <3> QED BY <3>1, <3>2
  <2>2. objs' \in [Objs -> Wifi \cup {Nil}]
    BY <1>8, <2>1
  <2>3. NetsOK'
    BY <1>1, <2>1, <2>2 DEF NetsOK, NetOK
  <2> QED BY <2>1, <2>3
<1>15. NwamdOK'
  BY <1>1, <1>5, <1>12, <1>13 DEF NwamdOK, StoreOK
<1>16. ListsOK'
  BY <1>1, <1>5 DEF ListsOK, panel
<1>17. RefsOK'
  <2>1. InLists' = InLists /\ InLists \subseteq Objs
    BY <1>1, <1>5, InListsFacts DEF InLists, panel
  <2>2. dlg \in Dialog
    BY SafeParts
  <2> QED BY <1>1, <1>5, <1>14, <2>1, <2>2, DialogFields DEF RefsOK
<1>18. DialogOK(dlg)'
  BY <1>1, SafeParts DEF DialogOK
<1>19. SafeInv'
  BY <1>1, <1>14, <1>15, <1>16, <1>17, <1>18, SafeParts DEF SafeInv
<1>20. Failed(t, S, order)
  BY <1>1, <1>4, <1>5, <1>6, <1>7, <1>8, <1>9, <1>10 DEF Failed
<1> QED BY <1>19, <1>20

-----------------------------------------------------------------------------
(* Removal, changes by others, and the events of nwamd.                    *)

\* The i-th favourite is removed, successfully or not.
Dropped(i) ==
    /\ program = "properties" /\ UNCHANGED program
    /\ listed' = RemoveAt(listed, i)
    /\ \A o \in Range(listed') : objs'[o] = objs[o]
    /\ LET e == objs[listed[i]].name IN
         \/ /\ store[e] # Absent
            /\ store' = [store EXCEPT ![e] = Absent]
            /\ queue' = Append(queue, EventFor("DESTROY", e))
            /\ UNCHANGED excused
         \/ /\ excused' = IF store[e] # Absent THEN excused \cup {e} ELSE excused
            /\ UNCHANGED <<store, queue>>

LEMMA DestroyEvent == ASSUME NEW e \in Essids PROVE EventFor("DESTROY", e) \in Event
BY DEF EventFor, Event

LEMMA RemoveFavouriteSafe ==
    ASSUME SafeInv, RemoveFavourite
    PROVE  SafeInv' /\ \E i \in DOMAIN listed : Dropped(i)
<1> DEFINE e == objs[sel].name
<1>1. /\ program = "properties" /\ sel \in Range(listed)
      /\ \/ /\ store[e] # Absent
            /\ store' = [store EXCEPT ![e] = Absent]
            /\ queue' = Append(queue, EventFor("DESTROY", e))
            /\ UNCHANGED excused
         \/ /\ excused' = IF store[e] # Absent THEN excused \cup {e} ELSE excused
            /\ UNCHANGED <<store, queue>>
      /\ listed' = Without(listed, sel) /\ rows' = Without(rows, sel)
      /\ sel' = Nil
      /\ objs' = Kept(objs, Range(listed') \cup Range(rows'))
      /\ UNCHANGED <<program, keys, hash, combo, dlg, asked>>
  BY DEF RemoveFavourite, Panel
<1>2. /\ NwamdOK /\ NetsOK /\ ListsOK /\ StoreOK(store) /\ queue \in Seq(Event)
      /\ listed \in Seq(Objs) /\ rows \in Seq(Objs)
      /\ objs \in [Objs -> Wifi \cup {Nil}]
      /\ \A o \in Objs : objs[o] # Nil => NetOK(objs[o])
  BY SafeParts DEF NetsOK
<1>3. sel \in Objs /\ sel # Nil /\ sel \in Range(rows) /\ NetOK(objs[sel])
  BY <1>1, <1>2, LiveFacts, InListsFacts, NoNilObj DEF ListsOK
<1>4. PICK i \in DOMAIN listed : listed[i] = sel /\ listed' = RemoveAt(listed, i)
  BY <1>1, <1>2, WithoutFacts
<1>5. PICK j \in DOMAIN rows : rows[j] = sel /\ rows' = RemoveAt(rows, j)
  BY <1>1, <1>2, <1>3, WithoutFacts
<1>6. listed' \in Seq(Objs) /\ Range(listed') \subseteq Range(listed)
  BY <1>2, <1>4, RemovedFacts
<1>7. rows' \in Seq(Objs) /\ Range(rows') \subseteq Range(rows)
  BY <1>2, <1>5, RemovedFacts
<1> DEFINE S == Range(listed') \cup Range(rows')
<1>8. \A o \in S : o \in Objs /\ objs[o] # Nil
  BY <1>2, <1>6, <1>7, LiveFacts, InListsFacts
<1>9. StoreOK(store') /\ queue' \in Seq(Event)
  <2>1. e \in Essids
    BY <1>3, NetFields
  <2> HIDE DEF e
  <2>2. EventFor("DESTROY", e) \in Event
    BY <2>1, DestroyEvent
  <2>3. StoreOK(store')
    BY <1>1, <1>2, <2>1 DEF StoreOK
  <2>4. queue' = queue \/ queue' = Append(queue, EventFor("DESTROY", e))
    BY <1>1 DEF e
  <2>5. queue' \in Seq(Event)
    <3>1. CASE queue' = queue
      BY <1>2, <3>1
    <3>2. CASE queue' = Append(queue, EventFor("DESTROY", e))
      BY <1>2, <2>2, <3>2, AppendFacts
    <3> QED BY <2>4, <3>1, <3>2
  <2> QED BY <2>3, <2>5
<1>10. Range(listed') \cup Range(rows') \subseteq S /\ objs' = Kept(objs, S)
  BY <1>1
<1>11. Range(listed') \subseteq S
  OBVIOUS
<1> HIDE DEF S
<1>12. SafeInv' /\ \A o \in S : objs'[o] = objs[o]
  BY <1>1, <1>2, <1>6, <1>7, <1>8, <1>9, <1>10, ListStep
<1>13. \A o \in Range(listed') : objs'[o] = objs[o]
  BY <1>11, <1>12
<1>14. Dropped(i)
  BY <1>1, <1>4, <1>13 DEF Dropped
<1> QED BY <1>12, <1>14

\* What nwamd does is seen by the events it posts.
LEMMA NwamdStep ==
    ASSUME SafeInv, StoreOK(store'), queue' \in Seq(Event),
           UNCHANGED <<program, keys, objs, listed, hash, combo, panel, dlg, asked>>
    PROVE  SafeInv'
<1>1. NwamdOK /\ NetsOK /\ ListsOK /\ RefsOK /\ DialogOK(dlg)
  BY SafeParts
<1>2. NwamdOK'
  BY <1>1 DEF NwamdOK, StoreOK
<1>3. NetsOK'
  BY <1>1 DEF NetsOK, NetOK
<1>4. ListsOK'
  BY <1>1 DEF ListsOK, panel
<1>5. RefsOK'
  BY <1>1 DEF RefsOK, InLists, panel
<1>6. DialogOK(dlg)'
  BY <1>1 DEF DialogOK
<1> QED BY <1>2, <1>3, <1>4, <1>5, <1>6, SafeParts DEF SafeInv

LEMMA ConfigureSafe ==
    ASSUME SafeInv, NEW e \in Essids, Configure(e)
    PROVE  SafeInv'
<1>1. PICK p \in {Absent, [sec |-> "wpa", bss |-> {}, prio |-> 1]} :
         /\ store' = [store EXCEPT ![e] = p]
         /\ queue' = Append(queue, IF p = Absent THEN EventFor("DESTROY", e) ELSE EventOf(e))
  BY DEF Configure
<1>2. UNCHANGED <<program, keys, objs, listed, hash, combo, panel, dlg, asked>>
  BY DEF Configure
<1>3. StoreOK(store) /\ queue \in Seq(Event)
  BY SafeParts
<1>4. p # Absent => p \in Known /\ p.bss = {}
  <2>1. [sec |-> "wpa", bss |-> {}, prio |-> 1] \in Known
    BY DEF Known, Secs
  <2> QED BY <2>1
<1>5. StoreOK(store')
  BY <1>1, <1>3, <1>4 DEF StoreOK
<1>6. queue' \in Seq(Event)
  <2>1. EventFor("DESTROY", e) \in Event /\ EventOf(e) \in Event
    BY DestroyEvent, EventOfTyped
  <2> QED BY <1>1, <1>3, <2>1
<1> QED BY <1>2, <1>5, <1>6, NwamdStep

LEMMA ScanSafe ==
    ASSUME SafeInv, NEW o \in Objs, Scan(o)
    PROVE  SafeInv' /\ program = "manager" /\ UNCHANGED program
<1>1. PICK s \in Secs \ {objs[o].sec} :
         objs' = [objs EXCEPT ![o].sec = s, ![o].bss = @ \cup {"ap"}, ![o].mod = FALSE]
  BY DEF Scan
<1>2. program = "manager" /\ o \in hash
      /\ UNCHANGED <<program, nwamd, listed, hash, combo, panel, dlg, asked>>
  BY DEF Scan
<1>3. NwamdOK /\ NetsOK /\ ListsOK /\ RefsOK /\ DialogOK(dlg) /\ dlg \in Dialog
  BY SafeParts
<1>4. NetOK(objs[o]) /\ objs \in [Objs -> Wifi \cup {Nil}] /\ objs[o] \in Wifi
  BY <1>2, <1>3, LiveFacts, InListsFacts, NetFields DEF NetsOK
<1> DEFINE b == objs[o].bss \cup {"ap"}
           r == [objs[o] EXCEPT !.sec = s, !.bss = b, !.mod = FALSE]
<1>5. objs' = [objs EXCEPT ![o] = r]
  BY <1>1, <1>4 DEF Wifi
<1>6. b \in SUBSET Rows /\ b \subseteq {"ap"}
  BY <1>4, NetFields DEF Rows
<1> HIDE DEF b
<1>7. NetOK(r)
  BY <1>4, <1>6 DEF NetOK, Wifi
<1> HIDE DEF r
<1>8. NetsOK' /\ \A x \in Objs : objs[x] # Nil => objs'[x] # Nil
  BY <1>2, <1>3, <1>5, <1>7, OneOK
<1>9. NwamdOK' /\ ListsOK'
  BY <1>2, <1>3, NwamdSame DEF ListsOK, panel
<1>10. InLists' = InLists /\ InLists \subseteq Objs
  BY <1>2, <1>3, InListsFacts DEF InLists, panel
<1>11. RefsOK'
  BY <1>2, <1>3, <1>8, <1>10, DialogFields DEF RefsOK
<1>12. DialogOK(dlg)'
  BY <1>2, <1>3 DEF DialogOK
<1> QED BY <1>2, <1>8, <1>9, <1>11, <1>12, SafeParts DEF SafeInv

\* The event that is handled is the oldest.
Takes(e, act) ==
    /\ program = "properties" /\ UNCHANGED <<program, store, excused>>
    /\ queue # <<>> /\ Head(queue) = EventFor(act, e)
    /\ queue' = Tail(queue)

LEMMA TakenFacts ==
    ASSUME SafeInv, Handled, NEW e, e = Head(queue).name
    PROVE  /\ e \in Essids /\ Takes(e, Head(queue).act)
           /\ StoreOK(store') /\ queue' \in Seq(Event)
<1>1. queue \in Seq(Event) /\ queue # <<>> /\ StoreOK(store)
  BY SafeParts DEF Handled
<1>2. Head(queue) \in Event
  BY <1>1, TailFacts
<1>3. Head(queue) = EventFor(Head(queue).act, e) /\ e \in Essids
  BY <1>2 DEF Event, EventFor
<1>4. queue' \in Seq(Event) /\ store' = store
  BY <1>1, TailFacts DEF Handled
<1> QED BY <1>1, <1>3, <1>4 DEF Takes, Handled

\* The first favourite of a name, if there is one.
LEMMA FoundFacts ==
    ASSUME SafeInv, NEW e, Named(e) # {}
    PROVE  /\ FirstOf(Named(e)) \in DOMAIN listed /\ FirstOf(Named(e)) \in Named(e)
           /\ Found(e) = listed[FirstOf(Named(e))]
           /\ Found(e) \in Range(listed) /\ Found(e) \in Objs /\ objs[Found(e)].name = e
           /\ NetOK(objs[Found(e)])
<1>1. listed \in Seq(Objs) /\ ListsOK
  BY SafeParts
<1>2. Named(e) \in SUBSET Nat
  BY <1>1 DEF Named
<1>3. FirstOf(Named(e)) \in Named(e)
  BY <1>2, FirstFacts
<1>4. FirstOf(Named(e)) \in DOMAIN listed /\ objs[listed[FirstOf(Named(e))]].name = e
  BY <1>3 DEF Named
<1>5. Found(e) = listed[FirstOf(Named(e))]
  BY DEF Found
<1>6. Found(e) \in Range(listed) /\ Found(e) \in Objs
  BY <1>1, <1>4, <1>5, RangeFacts
<1>7. NetOK(objs[Found(e)])
  BY <1>1, <1>6, LiveFacts, InListsFacts
<1> QED BY <1>3, <1>4, <1>5, <1>6, <1>7

\* A favourite is given another content, or a new one comes into the list.
LEMMA UpdateStep ==
    ASSUME SafeInv, program = "properties", NEW o \in Objs, NEW r, NetOK(r),
           objs' = [objs EXCEPT ![o] = r],
           StoreOK(store'), queue' \in Seq(Event),
           listed' \in Seq(Objs), Range(listed') \subseteq Range(listed) \cup {o},
           UNCHANGED <<program, keys, hash, combo, panel, dlg, asked>>
    PROVE  SafeInv'
<1>1. NwamdOK /\ NetsOK /\ ListsOK /\ RefsOK /\ DialogOK(dlg) /\ dlg \in Dialog
  BY SafeParts
<1>2. NetsOK' /\ objs'[o] # Nil /\ \A x \in Objs : objs[x] # Nil => objs'[x] # Nil
  BY <1>1, OneOK
<1>3. NwamdOK'
  BY <1>1 DEF NwamdOK, StoreOK
<1>4. ListsOK'
  BY <1>1 DEF ListsOK, panel
<1>5. InLists' \subseteq InLists \cup {o} /\ InLists \subseteq Objs
  BY <1>1, InListsFacts DEF InLists, panel
<1>6. RefsOK'
  BY <1>1, <1>2, <1>5, DialogFields DEF RefsOK
<1>7. DialogOK(dlg)'
  BY <1>1 DEF DialogOK
<1> QED BY <1>2, <1>3, <1>4, <1>6, <1>7, SafeParts DEF SafeInv

\* What the three handlers do.
NewArrives(e) ==
    /\ Takes(e, "ADD")
    /\ \/ Named(e) # {} /\ UNCHANGED <<objs, listed>>
       \/ \E o \in Objs, r \in Wifi :
             /\ Named(e) = {} /\ o \notin InLists /\ r.name = e
             /\ (store[e] # Absent => r.h = store[e])
             /\ objs' = [objs EXCEPT ![o] = r]
             /\ listed' = Inserted(listed, o, objs')
ChangeArrives(e) ==
    /\ Takes(e, "REFRESH") /\ UNCHANGED listed
    /\ \/ /\ UNCHANGED objs
          /\ Named(e) = {} \/ objs[Found(e)].mod
       \/ \E r \in Wifi :
             /\ Named(e) # {} /\ r.name = e
             /\ (store[e] # Absent => r.h = store[e])
             /\ objs' = [objs EXCEPT ![Found(e)] = r]
RemovalArrives(e) ==
    /\ Takes(e, "DESTROY")
    /\ \A o \in Range(listed') : objs'[o] = objs[o]
    /\ IF Named(e) # {} THEN listed' = RemoveAt(listed, FirstOf(Named(e))) ELSE UNCHANGED listed

LEMMA HandleAddSafe ==
    ASSUME SafeInv, HandleAdd
    PROVE  SafeInv' /\ \E e \in Essids : NewArrives(e)
<1> DEFINE e == Head(queue).name
<1>1. /\ Head(queue).act = "ADD" /\ Handled
      /\ IF Named(e) # {} THEN UNCHANGED <<objs, listed>>
         ELSE /\ Free # {}
              /\ objs' = [objs EXCEPT ![Fresh] = NewKnown(e)]
              /\ listed' = Inserted(listed, Fresh, objs')
  BY DEF HandleAdd
<1>2. e \in Essids /\ Takes(e, "ADD") /\ StoreOK(store') /\ queue' \in Seq(Event)
  BY <1>1, TakenFacts
<1> HIDE DEF e
<1>3. program = "properties" /\ UNCHANGED <<program, store, keys, hash, combo, panel, dlg, asked>>
  BY <1>1 DEF Handled
<1>4. StoreOK(store) /\ listed \in Seq(Objs) /\ ListsOK /\ NetsOK
  BY SafeParts
<1>5. CASE Named(e) # {}
  <2>1. UNCHANGED <<objs, listed>>
    BY <1>1, <1>5
  <2>2. NewArrives(e)
    BY <1>2, <1>5, <2>1 DEF NewArrives
  <2>3. SafeInv'
    BY <1>2, <1>3, <2>1, NwamdStep
  <2> QED BY <1>2, <2>2, <2>3
<1>6. CASE Named(e) = {}
  <2> DEFINE o == Fresh
             r == NewKnown(e)
             t == objs'
  <2>1. Free # {} /\ objs' = [objs EXCEPT ![o] = r] /\ listed' = Inserted(listed, o, t)
    BY <1>1, <1>6
  <2>2. o \in Objs /\ objs[o] = Nil
    BY <2>1, FreshFacts
  <2>3. NetOK(r) /\ r.name = e /\ (store[e] # Absent => r.h = store[e])
    BY <1>2, <1>3, <1>4, NewKnownOK
  <2>4. o \notin InLists
    BY <2>2, LiveFacts
  <2> HIDE DEF o, r, t
  <2>5. listed' \in Seq(Objs) /\ Range(listed') = Range(listed) \cup {o}
    BY <1>4, <2>1, <2>2, PutFacts
  <2>6. SafeInv'
    BY <1>2, <1>3, <2>1, <2>2, <2>3, <2>5, UpdateStep
  <2>7. \E x \in Objs, y \in Wifi :
             /\ Named(e) = {} /\ x \notin InLists /\ y.name = e
             /\ (store[e] # Absent => y.h = store[e])
             /\ objs' = [objs EXCEPT ![x] = y]
             /\ listed' = Inserted(listed, x, objs')
    <3>1. r \in Wifi
      BY <2>3, NetFields
    <3> QED BY <1>6, <2>1, <2>2, <2>3, <2>4, <3>1 DEF t
  <2>8. NewArrives(e)
    BY <1>2, <2>7 DEF NewArrives
  <2> QED BY <1>2, <2>6, <2>8
<1> QED BY <1>5, <1>6

LEMMA HandleRefreshSafe ==
    ASSUME SafeInv, HandleRefresh
    PROVE  SafeInv' /\ \E e \in Essids : ChangeArrives(e)
<1> DEFINE e == Head(queue).name
<1>1. /\ Head(queue).act = "REFRESH" /\ Handled
      /\ objs' = IF Named(e) # {} /\ ~objs[Found(e)].mod
                 THEN [objs EXCEPT ![Found(e)] = Reload(@)] ELSE objs
      /\ UNCHANGED listed
  BY DEF HandleRefresh
<1>2. e \in Essids /\ Takes(e, "REFRESH") /\ StoreOK(store') /\ queue' \in Seq(Event)
  BY <1>1, TakenFacts
<1> HIDE DEF e
<1>3. program = "properties" /\ UNCHANGED <<program, store, keys, hash, combo, panel, dlg, asked>>
  BY <1>1 DEF Handled
<1>4. StoreOK(store) /\ listed \in Seq(Objs) /\ objs \in [Objs -> Wifi \cup {Nil}]
  BY SafeParts
<1>5. CASE ~(Named(e) # {} /\ ~objs[Found(e)].mod)
  <2>1. UNCHANGED <<objs, listed>>
    BY <1>1, <1>5
  <2>2. ChangeArrives(e)
    BY <1>2, <1>5, <2>1 DEF ChangeArrives
  <2>3. SafeInv'
    BY <1>2, <1>3, <2>1, NwamdStep
  <2> QED BY <1>2, <2>2, <2>3
<1>6. CASE Named(e) # {} /\ ~objs[Found(e)].mod
  <2> DEFINE r == Reload(objs[Found(e)])
  <2>1. Found(e) \in Objs /\ objs[Found(e)].name = e /\ NetOK(objs[Found(e)])
    BY <1>6, FoundFacts
  <2>2. objs' = [objs EXCEPT ![Found(e)] = r]
    BY <1>1, <1>4, <1>6, <2>1
  <2>3. NetOK(r) /\ r.name = e /\ (store[e] # Absent => r.h = store[e])
    BY <1>4, <2>1, ReloadOK
  <2> HIDE DEF r
  <2>4. listed' \in Seq(Objs) /\ Range(listed') \subseteq Range(listed) \cup {Found(e)}
    BY <1>1, <1>4
  <2>5. SafeInv'
    BY <1>2, <1>3, <2>1, <2>2, <2>3, <2>4, UpdateStep
  <2>6. r \in Wifi
    BY <2>3, NetFields
  <2>7. ChangeArrives(e)
    BY <1>1, <1>2, <1>6, <2>2, <2>3, <2>6 DEF ChangeArrives
  <2> QED BY <1>2, <2>5, <2>7
<1> QED BY <1>5, <1>6

LEMMA HandleDestroySafe ==
    ASSUME SafeInv, HandleDestroy
    PROVE  SafeInv' /\ \E e \in Essids : RemovalArrives(e)
<1> DEFINE e == Head(queue).name
           S == Range(listed') \cup Range(rows)
<1>1. /\ Head(queue).act = "DESTROY" /\ Handled
      /\ listed' = IF Named(e) # {} THEN RemoveAt(listed, FirstOf(Named(e))) ELSE listed
      /\ objs' = Kept(objs, S)
  BY DEF HandleDestroy
<1>2. e \in Essids /\ Takes(e, "DESTROY") /\ StoreOK(store') /\ queue' \in Seq(Event)
  BY <1>1, TakenFacts
<1> HIDE DEF e
<1>3. program = "properties" /\ UNCHANGED <<program, store, keys, hash, combo, rows, sel, dlg, asked>>
  BY <1>1 DEF Handled, panel
<1>4. /\ listed \in Seq(Objs) /\ rows \in Seq(Objs) /\ ListsOK
      /\ objs \in [Objs -> Wifi \cup {Nil}]
      /\ \A o \in Objs : objs[o] # Nil => NetOK(objs[o])
  BY SafeParts DEF NetsOK
<1>5. listed' \in Seq(Objs) /\ Range(listed') \subseteq Range(listed)
  <2>1. CASE Named(e) # {}
    <3>1. FirstOf(Named(e)) \in DOMAIN listed
      BY <2>1, FoundFacts
    <3> QED BY <1>1, <1>4, <2>1, <3>1, RemovedFacts
  <2>2. CASE Named(e) = {}
    BY <1>1, <1>4, <2>2
  <2> QED BY <2>1, <2>2
<1>6. /\ \A o \in S : o \in Objs /\ objs[o] # Nil
      /\ Range(listed') \cup Range(rows') \subseteq S /\ rows' \in Seq(Objs)
      /\ (sel' # Nil => sel' \in Range(rows'))
  BY <1>3, <1>4, <1>5, LiveFacts, InListsFacts DEF ListsOK
<1>7. Range(listed') \subseteq S
  OBVIOUS
<1> HIDE DEF S
<1>8. SafeInv' /\ \A o \in S : objs'[o] = objs[o]
  BY <1>1, <1>2, <1>3, <1>4, <1>5, <1>6, ListStep
<1>9. RemovalArrives(e)
  BY <1>1, <1>2, <1>7, <1>8 DEF RemovalArrives
<1> QED BY <1>2, <1>8, <1>9

-----------------------------------------------------------------------------
(* The initial states.                                                     *)

\* What the properties' favourites are made of, and in what order.
InitFavourites(f) ==
    /\ store \in Favourites
    /\ f \in [StoredIn(store) -> Objs]
    /\ \A a, b \in DOMAIN f : a # b => f[a] # f[b]
    /\ objs = [o \in Objs |->
                 IF \E e \in DOMAIN f : f[e] = o
                 THEN Reload(NewKnown(CHOOSE x \in DOMAIN f : f[x] = o)) ELSE Nil]
    /\ listed \in Seq(Objs) /\ Range(listed) = Range(f)
    /\ \A i, j \in DOMAIN listed : i < j => listed[i] # listed[j]

LEMMA InitListed ==
    ASSUME InitProperties
    PROVE  \E f : InitFavourites(f)
<1>1. PICK f \in [StoredIn(store) -> Objs] :
         /\ \A a, b \in DOMAIN f : a # b => f[a] # f[b]
         /\ objs = [o \in Objs |->
                      IF \E e \in DOMAIN f : f[e] = o
                      THEN Reload(NewKnown(CHOOSE x \in DOMAIN f : f[x] = o)) ELSE Nil]
         /\ listed \in [1..Cardinality(Range(f)) -> Range(f)] /\ Range(listed) = Range(f)
         /\ \A i, j \in DOMAIN listed : i < j =>
               /\ listed[i] # listed[j]
               /\ objs[listed[i]].h.prio <= objs[listed[j]].h.prio
  BY DEF InitProperties
<1>2. Range(f) \subseteq Objs
  BY DEF Range
<1>3. IsFiniteSet(Range(f)) /\ Cardinality(Range(f)) \in Nat
  BY <1>2, BoundsAssumption, FS_Subset, FS_CardinalityType
<1>4. listed \in Seq(Objs)
  BY <1>1, <1>2, <1>3
<1> QED BY <1>1, <1>4 DEF InitProperties, InitFavourites

\* The object of each stored favourite has what is stored.
LEMMA InitObjects ==
    ASSUME program # "manager", NEW f, InitFavourites(f)
    PROVE  /\ StoreOK(store)
           /\ objs \in [Objs -> Wifi \cup {Nil}]
           /\ \A o \in Objs : objs[o] # Nil => NetOK(objs[o]) /\ o \in Range(listed)
           /\ \A e \in Essids : store[e] # Absent =>
                 /\ f[e] \in Range(listed) /\ objs[f[e]].name = e /\ objs[f[e]].h = store[e]
           /\ \A o \in Range(listed) : \E e \in Essids : store[e] # Absent /\ f[e] = o
<1>1. /\ store \in Favourites /\ f \in [StoredIn(store) -> Objs]
      /\ \A a, b \in DOMAIN f : a # b => f[a] # f[b]
      /\ Range(listed) = Range(f)
  BY DEF InitFavourites
<1>2. StoreOK(store)
  BY <1>1, NetworksAssumption DEF StoreOK
<1> DEFINE c(o) == CHOOSE x \in DOMAIN f : f[x] = o
<1>3. objs = [o \in Objs |-> IF \E e \in DOMAIN f : f[e] = o THEN Reload(NewKnown(c(o))) ELSE Nil]
  BY DEF InitFavourites
<1>4. \A e \in DOMAIN f : e \in Essids /\ store[e] # Absent
  BY <1>1 DEF StoredIn
<1>5. \A e \in DOMAIN f : c(f[e]) = e
  BY <1>1
<1> HIDE DEF c
<1>6. ASSUME NEW e \in DOMAIN f
      PROVE  /\ f[e] \in Objs /\ f[e] \in Range(listed) /\ objs[f[e]] # Nil
             /\ NetOK(objs[f[e]]) /\ objs[f[e]].name = e /\ objs[f[e]].h = store[e]
  <2> DEFINE a == NewKnown(e)
             b == Reload(a)
  <2>1. f[e] \in Objs /\ f[e] \in Range(f)
    BY <1>1 DEF Range
  <2>2. objs[f[e]] = b
    BY <1>3, <1>5, <2>1
  <2>3. NetOK(a) /\ a.name = e
    BY <1>2, <1>4, NewKnownOK
  <2> HIDE DEF a
  <2>4. NetOK(b) /\ b.name = e /\ b.h = store[e]
    BY <1>2, <1>4, <2>3, ReloadOK
  <2> HIDE DEF b
  <2> QED BY <1>1, <2>1, <2>2, <2>4, NetFields
<1>7. ASSUME NEW o \in Objs, ~ \E e \in DOMAIN f : f[e] = o PROVE objs[o] = Nil
  BY <1>3, <1>7
<1>8. objs \in [Objs -> Wifi \cup {Nil}]
  <2>1. ASSUME NEW o \in Objs PROVE objs[o] \in Wifi \cup {Nil}
    <3>1. CASE \E e \in DOMAIN f : f[e] = o
      BY <1>6, <3>1, NetFields
    <3>2. CASE ~ \E e \in DOMAIN f : f[e] = o
      BY <1>7, <3>2
    <3> QED BY <3>1, <3>2
  <2>2. objs = [o \in Objs |-> objs[o]]
    BY <1>3
  <2> QED BY <2>1, <2>2
<1>9. \A o \in Objs : objs[o] # Nil => NetOK(objs[o]) /\ o \in Range(listed)
  BY <1>6, <1>7
<1>10. \A e \in Essids : store[e] # Absent => e \in DOMAIN f
  BY <1>1 DEF StoredIn
<1>11. \A o \in Range(listed) : \E e \in DOMAIN f : f[e] = o
  BY <1>1 DEF Range
<1> QED BY <1>2, <1>4, <1>6, <1>8, <1>9, <1>10, <1>11

LEMMA InitSeen ==
    ASSUME program = "manager", InitManager
    PROVE  /\ StoreOK(store) /\ listed = <<>>
           /\ objs \in [Objs -> Wifi \cup {Nil}]
           /\ \A o \in Objs : objs[o] # Nil => NetOK(objs[o])
<1>1. PICK f \in [DOMAIN Air -> Objs] :
          objs = [o \in Objs |->
                      IF \E e \in DOMAIN Air : f[e] = o
                      THEN LET e == CHOOSE x \in DOMAIN Air : f[x] = o
                           IN  [NewWlan(e) EXCEPT !.sec = Air[e], !.bss = {"ap"}, !.mod = FALSE]
                      ELSE Nil]
  BY DEF InitManager
<1> DEFINE c(o) == CHOOSE x \in DOMAIN Air : f[x] = o
           w(e) == [NewWlan(e) EXCEPT !.sec = Air[e], !.bss = {"ap"}, !.mod = FALSE]
<1>2. \A o \in Objs : objs[o] = IF \E e \in DOMAIN Air : f[e] = o THEN w(c(o)) ELSE Nil
  BY <1>1
<1>3. \A o \in Objs : (\E e \in DOMAIN Air : f[e] = o) => c(o) \in DOMAIN Air
  OBVIOUS
<1> HIDE DEF c
<1>4. ASSUME NEW e \in DOMAIN Air PROVE NetOK(w(e))
  <2> DEFINE r == NewWlan(e)
             s == Air[e]
  <2>1. e \in Essids /\ s \in Secs
    BY NetworksAssumption
  <2>2. NetOK(r) /\ ~r.known
    BY <2>1, NewWlanOK DEF NetOK
  <2>3. w(e) = [r EXCEPT !.sec = s, !.bss = {"ap"}, !.mod = FALSE]
    OBVIOUS
  <2> HIDE DEF r, s, w
  <2> QED BY <2>1, <2>2, <2>3 DEF NetOK, Wifi, Rows
<1> HIDE DEF w
<1>5. \A o \in Objs : objs[o] # Nil => NetOK(objs[o])
  BY <1>2, <1>3, <1>4
<1>6. objs \in [Objs -> Wifi \cup {Nil}]
  <2>1. \A o \in Objs : objs[o] \in Wifi \cup {Nil}
    BY <1>5, NetFields
  <2>2. objs = [o \in Objs |-> objs[o]]
    BY <1>1
  <2> QED BY <2>1, <2>2
<1>7. StoreOK(store)
  BY DEF InitManager, StoreOK
<1> QED BY <1>5, <1>6, <1>7 DEF InitManager

LEMMA InitSafe == WlanInit => SafeInv
<1> SUFFICES ASSUME WlanInit PROVE SafeInv
  OBVIOUS
<1>1. /\ program \in Programs
      /\ IF program = "manager" THEN InitManager ELSE InitProperties
      /\ keys = [e \in Essids |-> Nil]
      /\ queue = <<>>
      /\ combo = [e \in Essids |-> Absent]
      /\ rows = listed /\ sel = Nil
      /\ hash = {o \in Objs : objs[o] # Nil /\ ~objs[o].known}
      /\ dlg = [open |-> FALSE, obj |-> Nil, purpose |-> "add", conn |-> FALSE,
            keyCh |-> FALSE, secCh |-> FALSE, essid |-> Blank, bss |-> {}, sec |-> "none",
            key |-> Blank, byUser |-> FALSE, ok |-> TRUE, sens |-> TRUE, focus |-> FALSE,
            typed |-> FALSE]
      /\ asked = Nil
  BY DEF WlanInit
<1>2. program \in {"manager", "properties", "gone", "aborted"}
  BY <1>1, NetworksAssumption
<1>3. StoreOK(store) /\ listed \in Seq(Objs) /\ objs \in [Objs -> Wifi \cup {Nil}]
        /\ (\A o \in Objs : objs[o] # Nil => NetOK(objs[o]))
        /\ (program = "manager" => listed = <<>>)
        /\ (\A o \in Range(listed) : objs[o] # Nil)
  <2>1. CASE program = "manager"
    <3>1. StoreOK(store) /\ listed = <<>> /\ objs \in [Objs -> Wifi \cup {Nil}]
            /\ \A o \in Objs : objs[o] # Nil => NetOK(objs[o])
      BY <1>1, <2>1, InitSeen
    <3>2. listed \in Seq(Objs)
      BY <3>1
    <3>3. \A o \in Range(listed) : objs[o] # Nil
      <4> SUFFICES ASSUME NEW o \in Range(listed) PROVE FALSE
        OBVIOUS
      <4>1. PICK i \in DOMAIN listed : listed[i] = o
        BY <3>2, RangeFacts
      <4> QED BY <3>1, <4>1
    <3> QED BY <3>1, <3>2, <3>3
  <2>2. CASE program # "manager"
    <3>1. PICK f : InitFavourites(f)
      BY <1>1, <2>2, InitListed
    <3>2. listed \in Seq(Objs)
      BY <3>1 DEF InitFavourites
    <3>3. /\ StoreOK(store)
          /\ objs \in [Objs -> Wifi \cup {Nil}]
          /\ \A o \in Objs : objs[o] # Nil => NetOK(objs[o])
          /\ \A e \in Essids : store[e] # Absent =>
                /\ f[e] \in Range(listed) /\ objs[f[e]].name = e /\ objs[f[e]].h = store[e]
          /\ \A o \in Range(listed) : \E e \in Essids : store[e] # Absent /\ f[e] = o
      BY <2>2, <3>1, InitObjects
    <3>4. ASSUME NEW o \in Range(listed) PROVE objs[o] # Nil
      <4>1. PICK e \in Essids : store[e] # Absent /\ f[e] = o
        BY <3>3
      <4>2. objs[o].name = e /\ o \in Objs
        BY <3>2, <3>3, <4>1, RangeFacts
      <4>3. o \in Range(f)
        BY <3>1 DEF InitFavourites
      <4>4. \E x \in DOMAIN f : f[x] = o
        BY <4>3 DEF Range
      <4>5. objs[o] = Reload(NewKnown(CHOOSE x \in DOMAIN f : f[x] = o))
        BY <3>1, <4>2, <4>4 DEF InitFavourites
      <4> DEFINE x == CHOOSE x \in DOMAIN f : f[x] = o
      <4>6. x \in DOMAIN f
        BY <4>4
      <4>7. x \in Essids
        BY <3>1, <4>6 DEF InitFavourites, StoredIn
      <4>8. objs[o] = Reload(NewKnown(x))
        BY <4>5
      <4> HIDE DEF x
      <4>9. NetOK(NewKnown(x))
        BY <2>2, <3>3, <4>7, NewKnownOK
      <4>10. NetOK(objs[o])
        BY <3>3, <4>8, <4>9, ReloadOK
      <4> QED BY <4>10, NetFields
    <3> QED BY <2>2, <3>2, <3>3, <3>4
  <2> QED BY <2>1, <2>2
<1>4. NwamdOK
  BY <1>1, <1>3 DEF NwamdOK
<1>5. NetsOK
  BY <1>3 DEF NetsOK
<1>6. hash = {} \/ program = "manager"
  BY <1>1, <1>3 DEF NetOK
<1>7. ListsOK
  BY <1>1, <1>3, <1>6 DEF ListsOK
<1>8. RefsOK
  BY <1>1, <1>3 DEF RefsOK, InLists
<1>9. dlg \in Dialog /\ ~dlg.open /\ ~dlg.conn /\ dlg.key = Blank
  BY <1>1 DEF Dialog, Secs, Texts
<1>10. DialogOK(dlg)
  BY <1>9 DEF DialogOK, Blank, Fake
<1>11. combo \in [Essids -> Secs \cup {Absent}]
  BY <1>1
<1> QED BY <1>2, <1>4, <1>5, <1>7, <1>8, <1>10, <1>11 DEF SafeInv

-----------------------------------------------------------------------------
\* What a step does to the favourites and to what is stored.
Step ==
    \/ Quiet
    \/ program' # "properties"
    \/ \E r \in Wifi : Added(r) \/ EditSaved(r)
    \/ \E i \in DOMAIN listed : Dropped(i)
    \/ \E t, S, order : Failed(t, S, order)
    \/ \E e \in Essids : Configure(e) \/ NewArrives(e) \/ ChangeArrives(e) \/ RemovalArrives(e)

LEMMA StepSafe == SafeInv /\ [WlanNext]_wlanVars => SafeInv' /\ Step
<1> SUFFICES ASSUME SafeInv, [WlanNext]_wlanVars PROVE SafeInv' /\ Step
  OBVIOUS
<1>1. CASE UNCHANGED wlanVars
  <2>1. NwamdOK' /\ NetsOK' /\ ListsOK' /\ RefsOK' /\ DialogOK(dlg)'
    BY <1>1, SafeParts DEF wlanVars, NwamdOK, StoreOK, NetsOK, NetOK, ListsOK, RefsOK, InLists, DialogOK
  <2>2. SafeInv'
    BY <1>1, <2>1 DEF SafeInv, wlanVars
  <2>3. Quiet
    BY <1>1 DEF wlanVars, Quiet
  <2> QED BY <2>2, <2>3 DEF Step
<1>2. CASE Join \/ OpenAdd \/ OpenEdit \/ Cancel \/ OkRejected \/ OkJoin
  BY <1>2, JoinSafe, OpenAddSafe, OpenEditSafe, CancelSafe, OkRejectedSafe, OkJoinSafe DEF Step
<1>3. ASSUME NEW o \in Objs, Prompt(o) \/ SelectRow(o) PROVE SafeInv' /\ Step
  BY <1>3, PromptSafe, SelectRowSafe DEF Step
<1>4. CASE \/ \E o \in Objs : PickEssid(o)
           \/ \E e \in Essids \cup {Blank} : TypeEssid(e)
           \/ \E s \in Secs : ChooseSecurity(s)
           \/ FocusKey \/ \E k \in Texts : TypeKey(k)
           \/ \E b \in SUBSET Rows : EditBssids(b)
  BY <1>4, UserSafe DEF Step
<1>5. ASSUME NEW o \in Objs, Scan(o) PROVE SafeInv' /\ Step
  BY <1>5, ScanSafe DEF Step
<1>6. CASE OkAdd \/ OkEdit
  BY <1>6, OkAddSafe, OkEditSafe DEF Step
<1>7. CASE Populate \/ Move \/ SwitchConnection
  BY <1>7, PopulateSafe, MoveSafe, SwitchConnectionSafe DEF Step
<1>8. CASE RemoveFavourite \/ PrefsFail
  BY <1>8, RemoveFavouriteSafe, PrefsFailSafe DEF Step
<1>9. CASE RemoveGone
  BY <1>9, RemoveGoneSafe DEF Step, RemoveGone
<1>10. CASE PrefsOk
  BY <1>10, PrefsOkSafe DEF Step, PrefsOk
<1>11. ASSUME NEW e \in Essids, Configure(e) PROVE SafeInv' /\ Step
  BY <1>11, ConfigureSafe DEF Step
<1>12. CASE HandleAdd \/ HandleRefresh \/ HandleDestroy
  BY <1>12, HandleAddSafe, HandleRefreshSafe, HandleDestroySafe DEF Step
<1> QED
  BY <1>1, <1>2, <1>3, <1>4, <1>5, <1>6, <1>7, <1>8, <1>9, <1>10, <1>11, <1>12 DEF WlanNext

LEMMA Safe == WlanSpec => []SafeInv
<1>1. SafeInv /\ [WlanNext]_wlanVars => SafeInv'
  BY StepSafe
<1> QED BY InitSafe, <1>1, PTL DEF WlanSpec

\* Only OK asks for a connection, and only for what the dialog shows.
LEMMA RequestStep ==
    SafeInv /\ [WlanNext]_wlanVars =>
        (request' # request => request' = [essid |-> dlg.essid, sec |-> dlg.sec])
<1> SUFFICES ASSUME SafeInv, [WlanNext]_wlanVars, request' # request
             PROVE  request' = [essid |-> dlg.essid, sec |-> dlg.sec]
  OBVIOUS
<1>1. CASE OkJoin
  BY <1>1, OkJoinSafe
<1>2. ~UNCHANGED wlanVars
  BY DEF wlanVars
<1>3. ~(Join \/ OpenAdd \/ OpenEdit \/ Cancel \/ OkRejected \/ OkAdd \/ OkEdit)
  BY DEF Join, OpenAdd, OpenEdit, Cancel, OkRejected, OkAdd, OkEdit, nwamd
<1>4. ~ \E o \in Objs : Prompt(o) \/ PickEssid(o) \/ SelectRow(o) \/ Scan(o)
  BY DEF Prompt, PickEssid, SelectRow, Scan, InDialog, nwamd
<1>5. /\ ~ \E e \in Essids \cup {Blank} : TypeEssid(e)
      /\ ~ \E s \in Secs : ChooseSecurity(s)
      /\ ~FocusKey /\ ~ \E k \in Texts : TypeKey(k)
      /\ ~ \E b \in SUBSET Rows : EditBssids(b)
  BY DEF TypeEssid, ChooseSecurity, FocusKey, TypeKey, EditBssids, InDialog, nwamd
<1>6. ~(Populate \/ Move \/ SwitchConnection \/ RemoveFavourite \/ RemoveGone \/ PrefsOk \/ PrefsFail)
  BY DEF Populate, Move, SwitchConnection, RemoveFavourite, RemoveGone, PrefsOk, PrefsFail, nwamd
<1>7. ~ \E e \in Essids : Configure(e)
  BY DEF Configure
<1>8. ~(HandleAdd \/ HandleRefresh \/ HandleDestroy)
  BY DEF HandleAdd, HandleRefresh, HandleDestroy, Handled
<1> QED BY <1>1, <1>2, <1>3, <1>4, <1>5, <1>6, <1>7, <1>8 DEF WlanNext

\* Whatever the dialog was opened for before, nwamd is asked to connect
\* to the network whose name and security mode the dialog shows.
THEOREM AsksWhatIsShown == WlanSpec => ConnectsAsShown
<1>1. SafeInv /\ [WlanNext]_wlanVars =>
        [request' # request => request' = [essid |-> dlg.essid, sec |-> dlg.sec]]_wlanVars
  BY RequestStep
<1> QED BY Safe, <1>1, PTL DEF WlanSpec, ConnectsAsShown

\* Only OK stores a key.
LEMMA KeyPress ==
    ASSUME SafeInv, [WlanNext]_wlanVars, keys' # keys
    PROVE  Presses
<1>1. CASE OkJoin \/ OkRejected \/ OkAdd \/ OkEdit
  BY <1>1 DEF OkJoin, OkRejected, OkAdd, OkEdit
<1>2. ~UNCHANGED wlanVars
  BY DEF wlanVars
<1>3. ~(Join \/ OpenAdd \/ OpenEdit \/ Cancel)
  BY DEF Join, OpenAdd, OpenEdit, Cancel, nwamd
<1>4. ~ \E o \in Objs : Prompt(o) \/ PickEssid(o) \/ SelectRow(o) \/ Scan(o)
  BY DEF Prompt, PickEssid, SelectRow, Scan, InDialog, nwamd
<1>5. /\ ~ \E e \in Essids \cup {Blank} : TypeEssid(e)
      /\ ~ \E s \in Secs : ChooseSecurity(s)
      /\ ~FocusKey /\ ~ \E k \in Texts : TypeKey(k)
      /\ ~ \E b \in SUBSET Rows : EditBssids(b)
  BY DEF TypeEssid, ChooseSecurity, FocusKey, TypeKey, EditBssids, InDialog, nwamd
<1>6. ~(Populate \/ Move \/ SwitchConnection \/ RemoveFavourite \/ RemoveGone \/ PrefsOk \/ PrefsFail)
  BY DEF Populate, Move, SwitchConnection, RemoveFavourite, RemoveGone, PrefsOk, PrefsFail, nwamd
<1>7. ~ \E e \in Essids : Configure(e)
  BY DEF Configure
<1>8. ~(HandleAdd \/ HandleRefresh \/ HandleDestroy)
  BY DEF HandleAdd, HandleRefresh, HandleDestroy, Handled
<1> QED BY <1>1, <1>2, <1>3, <1>4, <1>5, <1>6, <1>7, <1>8 DEF WlanNext

LEMMA KeyStep ==
    SafeInv /\ [WlanNext]_wlanVars =>
        (program = "manager" /\ keys' # keys =>
            /\ dlg.byUser /\ dlg.typed
            /\ dlg.key = IF dlg.sec = "wep" THEN "5" ELSE "20")
<1> SUFFICES ASSUME SafeInv, [WlanNext]_wlanVars, program = "manager", keys' # keys
             PROVE  /\ dlg.byUser /\ dlg.typed
                    /\ dlg.key = IF dlg.sec = "wep" THEN "5" ELSE "20"
  OBVIOUS
<1>1. Presses
  BY KeyPress
<1>2. StoresKey /\ Fits(dlg)
  BY <1>1, PressFacts
<1>3. dlg \in Dialog /\ DialogOK(dlg)
  BY SafeParts
<1>4. dlg.key # Fake /\ (dlg.key # Blank => dlg.byUser /\ dlg.typed)
  BY <1>3 DEF DialogOK
<1>5. dlg.sec \in Secs /\ dlg.sec # "none" /\ (dlg.keyCh \/ dlg.secCh)
  BY <1>2, <1>3, DialogFields DEF StoresKey
<1>6. KeyFits(dlg)
  BY <1>2 DEF Fits
<1>7. dlg.sec = "wep" \/ dlg.sec = "wpa"
  BY <1>5 DEF Secs
<1>8. dlg.key = IF dlg.sec = "wep" THEN "5" ELSE "20"
  BY <1>4, <1>5, <1>6, <1>7 DEF KeyFits
<1>9. dlg.key # Blank
  BY <1>8 DEF Blank
<1> QED BY <1>4, <1>8, <1>9

\* nwam-manager stores no key but one that the user typed since the dialog was
\* last opened to join any network or for one with security, of the length that
\* the security mode asks for.
THEOREM StoresWhatWasTyped == WlanSpec => StoresTypedKeys
<1>1. SafeInv /\ [WlanNext]_wlanVars =>
        [program = "manager" /\ keys' # keys =>
            /\ dlg.byUser /\ dlg.typed
            /\ dlg.key = IF dlg.sec = "wep" THEN "5" ELSE "20"]_wlanVars
  BY KeyStep
<1> QED BY Safe, <1>1, PTL DEF WlanSpec, StoresTypedKeys

-----------------------------------------------------------------------------
(* The favourites and what is stored.  The last pending event that adds or    *)
(* removes a favourite says whether it is stored; when there is none, the     *)
(* favourites are those that are stored.  A favourite of a name is alone, and *)
(* it has unsaved changes, or what is stored, or an event is pending that     *)
(* will correct it.                                                           *)

Fate(e)   == {EventFor("ADD", e), EventFor("DESTROY", e)}
Stored(e) == store[e] # Absent
OnList(e) == \E i \in DOMAIN listed : objs[listed[i]].name = e
Due(e)    == IF Stored(e) THEN {EventFor("ADD", e)} ELSE {EventFor("DESTROY", e)}

Follows(e) ==
    /\ Ends(queue, Fate(e), Due(e))
    /\ NoneIn(queue, Fate(e)) => (Stored(e) <=> OnList(e))

Unique ==
    \A i, j \in DOMAIN listed :
        objs[listed[i]].name = objs[listed[j]].name => i = j \/ objs[listed[i]].name \in excused

Corrected(e) == Has(queue, EventFor("REFRESH", e)) \/ Has(queue, EventFor("DESTROY", e))
Sound(o) == objs[o].mod \/ objs[o].h = store[objs[o].name] \/ Corrected(objs[o].name)
Fav ==
    /\ Unique
    /\ \A e \in Essids \ excused : Follows(e)
    /\ \A o \in Range(listed) : objs[o].name \in excused \/ Sound(o)
FavInv == program = "properties" => Fav

-----------------------------------------------------------------------------
LEMMA EventNames ==
    /\ \A a, b \in {"ADD", "REFRESH", "DESTROY"}, e, f \in Essids :
          EventFor(a, e) = EventFor(b, f) => a = b /\ e = f
    /\ \A a \in {"ADD", "REFRESH", "DESTROY"}, e \in Essids : EventFor(a, e) \in Event
BY DEF EventFor, Event

LEMMA FateFacts ==
    ASSUME NEW e \in Essids
    PROVE  /\ EventFor("REFRESH", e) \notin Fate(e)
           /\ \A f \in Essids, a \in {"ADD", "REFRESH", "DESTROY"} : f # e => EventFor(a, f) \notin Fate(e)
BY EventNames DEF Fate

\* A favourite that is not stored, though it is listed, will be dropped.
LEMMA WillBeDropped ==
    ASSUME NEW e \in Essids, Follows(e), ~Stored(e), OnList(e) \/ ~NoneIn(queue, Fate(e))
    PROVE  Has(queue, EventFor("DESTROY", e))
<1>1. ~NoneIn(queue, Fate(e))
  BY DEF Follows
<1>2. Ends(queue, Fate(e), {EventFor("DESTROY", e)})
  BY DEF Follows, Due
<1>3. ~NoneIn(queue, {EventFor("DESTROY", e)})
  BY <1>1, <1>2, EndsSome
<1> QED BY <1>3 DEF NoneIn, Has

LEMMA FollowsSame ==
    ASSUME NEW e \in Essids, Follows(e), queue' = queue, store'[e] = store[e], OnList(e)' <=> OnList(e)
    PROVE  Follows(e)'
<1>1. Due(e)' = Due(e) /\ Fate(e)' = Fate(e) /\ (Stored(e)' <=> Stored(e))
  BY DEF Due, Fate, Stored, EventFor
<1> QED BY <1>1 DEF Follows

\* An event is posted that is none of those that add or remove e.
LEMMA FollowsOther ==
    ASSUME NEW e \in Essids, Follows(e), queue \in Seq(Event), NEW x \in Event, x \notin Fate(e),
           queue' = Append(queue, x), store'[e] # Absent <=> store[e] # Absent,
           (OnList(e)' <=> OnList(e)) \/ (Stored(e) /\ OnList(e)')
    PROVE  Follows(e)'
<1>1. Due(e)' = Due(e) /\ Fate(e)' = Fate(e) /\ (Stored(e)' <=> Stored(e))
  BY DEF Due, Fate, Stored, EventFor
<1>2. Ends(queue', Fate(e), Due(e))
  BY EndsAppendOther DEF Follows
<1>3. NoneIn(queue', Fate(e)) => NoneIn(queue, Fate(e))
  BY NoneAppend
<1>4. NoneIn(queue', Fate(e)) => (Stored(e)' <=> OnList(e)')
  BY <1>1, <1>3 DEF Follows
<1> QED BY <1>1, <1>2, <1>4 DEF Follows

\* The event is posted that says what is stored now.
LEMMA FollowsPosted ==
    ASSUME NEW e \in Essids, queue \in Seq(Event), NEW x \in Event,
           x = EventFor(IF store'[e] # Absent THEN "ADD" ELSE "DESTROY", e),
           queue' = Append(queue, x)
    PROVE  Follows(e)'
<1>1. x \in Fate(e) /\ Fate(e)' = Fate(e) /\ x \in Due(e)'
  BY DEF Due, Fate, Stored, EventFor
<1> DEFINE d == Due(e)'
<1>2. x \in d /\ d = Due(e)'
  BY <1>1
<1> HIDE DEF d
<1>3. Ends(queue', Fate(e), d)
  BY <1>1, <1>2, EndsAppend
<1>4. ~NoneIn(queue', Fate(e))
  BY <1>1, NoneAppend
<1> QED BY <1>1, <1>2, <1>3, <1>4 DEF Follows

LEMMA FollowsTaken ==
    ASSUME NEW e \in Essids, Follows(e), queue \in Seq(Event), queue # <<>>, queue' = Tail(queue),
           store' = store,
           IF Head(queue) \in Fate(e)
           THEN Head(queue) \in Due(e) => (Stored(e) <=> OnList(e)') ELSE OnList(e)' <=> OnList(e)
    PROVE  Follows(e)'
<1>1. Due(e)' = Due(e) /\ Fate(e)' = Fate(e) /\ (Stored(e)' <=> Stored(e))
  BY DEF Due, Fate, Stored, EventFor
<1>2. Ends(queue, Fate(e), Due(e)) /\ (NoneIn(queue, Fate(e)) => (Stored(e) <=> OnList(e)))
  BY DEF Follows
<1>3. /\ Ends(queue', Fate(e), Due(e))
      /\ NoneIn(queue', Fate(e)) => NoneIn(queue, Fate(e))
                                    \/ (Head(queue) \in Fate(e) /\ Head(queue) \in Due(e))
  BY <1>2, EndsTail
<1>4. NoneIn(queue, Fate(e)) => Head(queue) \notin Fate(e)
  BY NoneTail
<1>5. NoneIn(queue', Fate(e)) => (Stored(e)' <=> OnList(e)')
  BY <1>1, <1>2, <1>3, <1>4
<1> QED BY <1>1, <1>3, <1>5 DEF Follows

LEMMA CorrectedPosted ==
    ASSUME NEW e, queue \in Seq(Event), NEW x \in Event, queue' = Append(queue, x)
    PROVE  /\ Corrected(e) => Corrected(e)'
           /\ x = EventFor("REFRESH", e) \/ x = EventFor("DESTROY", e) => Corrected(e)'
<1>1. \A y : Has(queue', y) <=> Has(queue, y) \/ x = y
  BY HasAppend
<1>2. EventFor("REFRESH", e)' = EventFor("REFRESH", e) /\ EventFor("DESTROY", e)' = EventFor("DESTROY", e)
  BY DEF EventFor
<1> QED BY <1>1, <1>2 DEF Corrected

LEMMA CorrectedTaken ==
    ASSUME NEW e, queue \in Seq(Event), queue # <<>>, queue' = Tail(queue), Corrected(e),
           Head(queue) # EventFor("REFRESH", e) \/ Has(queue, EventFor("DESTROY", e)),
           Head(queue) # EventFor("DESTROY", e)
    PROVE  Corrected(e)'
<1>1. \A y : Has(queue, y) <=> Has(queue', y) \/ Head(queue) = y
  BY HasTail
<1>2. EventFor("REFRESH", e)' = EventFor("REFRESH", e) /\ EventFor("DESTROY", e)' = EventFor("DESTROY", e)
  BY DEF EventFor
<1> QED BY <1>1, <1>2 DEF Corrected

LEMMA ListedNamed == \A e : OnList(e) <=> Named(e) # {}
BY DEF OnList, Named

\* Nothing but unsaved changes.
LEMMA QuietFav ==
    ASSUME SafeInv, Fav, Quiet
    PROVE  Fav'
<1>1. /\ listed \in Seq(Objs) /\ UNCHANGED <<store, queue, listed, excused>>
      /\ \A o \in Range(listed) : objs'[o] = objs[o] \/ (objs'[o].name = objs[o].name /\ objs'[o].mod)
  BY SafeParts DEF Quiet
<1>2. \A i \in DOMAIN listed : objs'[listed[i]].name = objs[listed[i]].name
  BY <1>1, RangeFacts
<1>3. Unique'
  BY <1>1, <1>2 DEF Fav, Unique
<1>4. \A e : OnList(e)' <=> OnList(e)
  BY <1>1, <1>2 DEF OnList
<1>5. ASSUME NEW e \in Essids \ excused' PROVE Follows(e)'
  BY <1>1, <1>4, FollowsSame DEF Fav
<1>6. ASSUME NEW o \in Range(listed'), objs'[o].name \notin excused' PROVE Sound(o)'
  <2>1. o \in Range(listed) /\ objs'[o].name = objs[o].name
    BY <1>1
  <2>2. Sound(o)
    BY <1>1, <1>6, <2>1 DEF Fav
  <2>3. \A e : Corrected(e)' <=> Corrected(e)
    BY <1>1 DEF Corrected, EventFor
  <2>4. CASE objs'[o] = objs[o]
    BY <1>1, <2>2, <2>3, <2>4 DEF Sound
  <2>5. CASE objs'[o].mod
    BY <2>5 DEF Sound
  <2> QED BY <1>1, <2>1, <2>4, <2>5
<1> QED BY <1>3, <1>5, <1>6 DEF Fav

\* A network is saved: a favourite of its name that is not the one that is
\* saved is told.
LEMMA SavedSound ==
    ASSUME SafeInv, Fav, NEW r, NetOK(r), Saves(r),
           NEW o \in Range(listed), objs'[o] = objs[o], objs[o].name \notin excused
    PROVE  Sound(o)'
<1> DEFINE n == r.name
<1>0. PICK e : e = objs[o].name
  OBVIOUS
<1>1. queue \in Seq(Event) /\ listed \in Seq(Objs) /\ ListsOK /\ store \in [Essids -> Known \cup {Absent}]
  BY SafeParts DEF StoreOK
<1>2. e \in Essids /\ n \in Essids
  BY <1>0, <1>1, LiveFacts, InListsFacts, NetFields
<1>3. Sound(o) /\ Follows(e)
  BY <1>0, <1>2 DEF Fav
<1>4. OnList(e)
  BY <1>0, <1>1, RangeFacts DEF OnList
<1> HIDE DEF n
<1>5. queue' = Append(queue, EventOf(n)) /\ EventOf(n) \in Event /\ store' = [store EXCEPT ![n] = r.h]
  BY <1>2, EventOfTyped DEF Saves, n
<1>6. Corrected(e) => Corrected(e)'
  BY <1>1, <1>5, CorrectedPosted
<1>7. CASE e = n /\ Stored(e)
  <2>1. EventOf(n) = EventFor("REFRESH", e)
    BY <1>7 DEF EventOf, Stored
  <2>2. Corrected(e)'
    BY <1>1, <1>5, <2>1, CorrectedPosted
  <2> QED BY <1>0, <2>2 DEF Sound
<1>8. CASE e = n /\ ~Stored(e)
  <2>1. Has(queue, EventFor("DESTROY", e))
    BY <1>2, <1>3, <1>4, <1>8, WillBeDropped
  <2>2. Corrected(e)'
    BY <1>6, <2>1 DEF Corrected
  <2> QED BY <1>0, <2>2 DEF Sound
<1>9. CASE e # n
  <2>1. store'[e] = store[e]
    BY <1>1, <1>2, <1>5, <1>9
  <2> QED BY <1>0, <1>3, <1>6, <2>1 DEF Sound
<1> QED BY <1>7, <1>8, <1>9

LEMMA SavedFollows ==
    ASSUME SafeInv, NEW r, NetOK(r), Saves(r), NEW e \in Essids, Follows(e),
           (OnList(e)' <=> OnList(e)) \/ (e = r.name /\ OnList(e)')
    PROVE  Follows(e)'
<1> DEFINE n == r.name
<1>1. queue \in Seq(Event) /\ store \in [Essids -> Known \cup {Absent}]
  BY SafeParts DEF StoreOK
<1>2. n \in Essids /\ r.h # Absent
  BY NetFields
<1>3. queue' = Append(queue, EventOf(n)) /\ EventOf(n) \in Event /\ store' = [store EXCEPT ![n] = r.h]
  BY <1>2, EventOfTyped DEF Saves
<1>4. (OnList(e)' <=> OnList(e)) \/ (e = n /\ OnList(e)')
  OBVIOUS
<1> HIDE DEF n
<1>5. CASE e = n /\ Stored(e)
  <2>1. EventOf(n) = EventFor("REFRESH", e)
    BY <1>5 DEF EventOf, Stored
  <2>2. EventOf(n) \notin Fate(e)
    BY <2>1, FateFacts
  <2>3. store'[e] # Absent /\ store[e] # Absent
    BY <1>1, <1>2, <1>3, <1>5 DEF Stored
  <2> QED BY <1>1, <1>3, <1>4, <1>5, <2>2, <2>3, FollowsOther
<1>6. CASE e = n /\ ~Stored(e)
  <2>1. store'[e] # Absent
    BY <1>1, <1>2, <1>3, <1>6
  <2>2. EventOf(n) = EventFor(IF store'[e] # Absent THEN "ADD" ELSE "DESTROY", e)
    BY <1>6, <2>1 DEF EventOf, Stored
  <2> QED BY <1>1, <1>3, <2>2, FollowsPosted
<1>7. CASE e # n
  <2>1. store'[e] = store[e]
    BY <1>1, <1>3, <1>7
  <2>2. EventOf(n) \notin Fate(e)
    BY <1>2, <1>7, FateFacts DEF EventOf
  <2> QED BY <1>1, <1>3, <1>4, <1>7, <2>1, <2>2, FollowsOther
<1> QED BY <1>5, <1>6, <1>7

\* Favourites keep their names when a network of the same name is written.
LEMMA WrittenNames ==
    ASSUME SafeInv, Presses, NEW r, NetOK(r), r.name = Written.name,
           objs' = [objs EXCEPT ![Target] = r], program' = program
    PROVE  /\ \A o \in Range(listed) : objs'[o].name = objs[o].name
           /\ \A o \in Range(listed) : o # Target => objs'[o] = objs[o]
           /\ objs'[Target] = r /\ Target \in Objs
<1>1. NetsOK /\ Range(listed) \subseteq InLists /\ InLists \subseteq Objs /\ Target \in Objs
  BY SafeParts, InListsFacts, PressFacts
<1>2. objs'[Target] = r /\ \A x \in Objs : x # Target => objs'[x] = objs[x]
  BY <1>1, OneOK
<1>3. ASSUME Target \in Range(listed) PROVE r.name = objs[Target].name
  BY <1>1, <1>3, PressFacts
<1> QED BY <1>1, <1>2, <1>3

LEMMA AddedFav ==
    ASSUME SafeInv, Fav, NEW r \in Wifi, Added(r)
    PROVE  Fav'
<1> DEFINE n == r.name
           t == objs'
<1>1. /\ Presses /\ NetOK(r) /\ n = Written.name
      /\ objs' = [objs EXCEPT ![Target] = r]
      /\ Saves(r)
      /\ listed' = Inserted(listed, Target, t)
      /\ excused' = IF Named(n) # {} THEN excused \cup {n} ELSE excused
      /\ program' = program
  BY DEF Added
<1>2. /\ \A o \in Range(listed) : objs'[o].name = objs[o].name
      /\ \A o \in Range(listed) : o # Target => objs'[o] = objs[o]
      /\ objs'[Target] = r /\ Target \in Objs /\ objs'[Target].name = n
  BY <1>1, WrittenNames
<1>3. listed \in Seq(Objs) /\ store \in [Essids -> Known \cup {Absent}] /\ n \in Essids
  BY <1>1, SafeParts, NetFields DEF StoreOK
<1>4. store' = [store EXCEPT ![n] = r.h]
  BY <1>1 DEF Saves
<1> HIDE DEF n, t
<1>5. /\ listed' \in Seq(Objs) /\ Range(listed') = Range(listed) \cup {Target}
      /\ Grown(listed', listed, Target)
      /\ \A j \in DOMAIN listed : \E k \in DOMAIN listed' : listed'[k] = listed[j]
  <2>1. listed \in Seq(Objs) /\ Target \in Objs /\ listed' = Inserted(listed, Target, t)
    BY <1>1, <1>2, <1>3
  <2> QED BY <2>1, PutFacts
<1>6. PICK p \in DOMAIN listed', f \in [DOMAIN listed' -> Nat] :
            /\ listed'[p] = Target
            /\ \A k \in DOMAIN listed' \ {p} : f[k] \in DOMAIN listed /\ listed'[k] = listed[f[k]]
            /\ \A k, l \in DOMAIN listed' \ {p} : f[k] = f[l] => k = l
  BY <1>5, Zenon DEF Grown
<1>7. \A k \in DOMAIN listed' \ {p} :
         f[k] \in DOMAIN listed /\ objs'[listed'[k]].name = objs[listed[f[k]]].name
  BY <1>2, <1>3, <1>6, RangeFacts
<1>8. objs'[listed'[p]].name = n
  BY <1>2, <1>6
<1>9. \A k \in DOMAIN listed' \ {p} : objs'[listed'[k]].name = n => n \in excused'
  BY <1>1, <1>7 DEF Named
<1>10. excused \subseteq excused'
  BY <1>1
<1>11. Unique'
  <2> SUFFICES ASSUME NEW i \in DOMAIN listed', NEW j \in DOMAIN listed',
                      objs'[listed'[i]].name = objs'[listed'[j]].name, i # j
               PROVE  objs'[listed'[i]].name \in excused'
    BY DEF Unique
  <2>1. CASE i = p \/ j = p
    BY <1>8, <1>9, <2>1
  <2>2. CASE i # p /\ j # p
    <3>1. f[i] # f[j] /\ f[i] \in DOMAIN listed /\ f[j] \in DOMAIN listed
            /\ objs[listed[f[i]]].name = objs[listed[f[j]]].name
      BY <1>6, <1>7, <2>2
    <3> QED BY <1>7, <1>10, <2>2, <3>1 DEF Fav, Unique
  <2> QED BY <2>1, <2>2
<1>12. ASSUME NEW e \in Essids \ excused' PROVE Follows(e)'
  <2>1. Follows(e)
    BY <1>10 DEF Fav
  <2>2. CASE e = n
    <3>1. OnList(e)'
      BY <1>8, <2>2 DEF OnList
    <3> QED BY <1>1, <2>1, <2>2, <3>1, SavedFollows DEF n
  <2>3. CASE e # n
    <3>1. ASSUME OnList(e)' PROVE OnList(e)
      <4>1. PICK k \in DOMAIN listed' : objs'[listed'[k]].name = e
        BY <3>1 DEF OnList
      <4> QED BY <1>7, <1>8, <2>3, <4>1 DEF OnList
    <3>2. ASSUME OnList(e) PROVE OnList(e)'
      <4>1. PICK j \in DOMAIN listed : objs[listed[j]].name = e
        BY <3>2 DEF OnList
      <4>2. PICK k \in DOMAIN listed' : listed'[k] = listed[j]
        BY <1>5
      <4>3. objs'[listed'[k]].name = e
        BY <1>2, <1>3, <4>1, <4>2, RangeFacts
      <4> QED BY <4>3 DEF OnList
    <3> QED BY <1>1, <2>1, <3>1, <3>2, SavedFollows
  <2> QED BY <2>2, <2>3
<1>13. ASSUME NEW o \in Range(listed'), objs'[o].name \notin excused' PROVE Sound(o)'
  <2>1. CASE o = Target
    <3>1. objs'[o].h = store'[objs'[o].name]
      BY <1>2, <1>3, <1>4, <2>1
    <3> QED BY <3>1 DEF Sound
  <2>2. CASE o # Target
    <3>1. o \in Range(listed) /\ objs'[o] = objs[o] /\ objs[o].name \notin excused
      BY <1>2, <1>5, <1>10, <1>13, <2>2
    <3> QED BY <1>1, <3>1, SavedSound
  <2> QED BY <2>1, <2>2
<1> QED BY <1>11, <1>12, <1>13 DEF Fav

LEMMA EditSavedFav ==
    ASSUME SafeInv, Fav, NEW r \in Wifi, EditSaved(r)
    PROVE  Fav'
<1>1. /\ Presses /\ NetOK(r) /\ r.name = Written.name
      /\ objs' = [objs EXCEPT ![Target] = r]
      /\ Saves(r) /\ UNCHANGED <<program, listed, excused>>
  BY DEF EditSaved
<1>2. /\ \A o \in Range(listed) : objs'[o].name = objs[o].name
      /\ \A o \in Range(listed) : o # Target => objs'[o] = objs[o]
      /\ objs'[Target] = r
  BY <1>1, WrittenNames
<1>3. listed \in Seq(Objs) /\ store \in [Essids -> Known \cup {Absent}] /\ r.name \in Essids
  BY <1>1, SafeParts, NetFields DEF StoreOK
<1>4. \A i \in DOMAIN listed : objs'[listed[i]].name = objs[listed[i]].name
  BY <1>2, <1>3, RangeFacts
<1>5. Unique'
  BY <1>1, <1>4 DEF Fav, Unique
<1>6. \A e : OnList(e)' <=> OnList(e)
  BY <1>1, <1>4 DEF OnList
<1>7. ASSUME NEW e \in Essids \ excused' PROVE Follows(e)'
  <2>1. Follows(e)
    BY <1>1 DEF Fav
  <2> QED BY <1>1, <1>6, <2>1, SavedFollows
<1>8. ASSUME NEW o \in Range(listed'), objs'[o].name \notin excused' PROVE Sound(o)'
  <2>1. CASE o = Target
    <3>1. objs'[o].h = store'[objs'[o].name]
      BY <1>1, <1>2, <1>3, <2>1 DEF Saves
    <3> QED BY <3>1 DEF Sound
  <2>2. CASE o # Target
    <3>1. o \in Range(listed) /\ objs'[o] = objs[o] /\ objs[o].name \notin excused
      BY <1>1, <1>2, <1>8, <2>2
    <3> QED BY <1>1, <3>1, SavedSound
  <2> QED BY <2>1, <2>2
<1> QED BY <1>5, <1>7, <1>8 DEF Fav

\* One favourite of a name leaves the list: those of other names stay.
LEMMA ShorterFacts ==
    ASSUME SafeInv, Unique, NEW i \in DOMAIN listed, NEW e, e = objs[listed[i]].name,
           listed' = RemoveAt(listed, i), excused \subseteq excused',
           \A o \in Range(listed') : objs'[o] = objs[o]
    PROVE  /\ Unique'
           /\ \A x : x # e => (OnList(x)' <=> OnList(x))
           /\ e \notin excused => ~OnList(e)'
           /\ \A o \in Range(listed') : o \in Range(listed) /\ objs'[o] = objs[o]
<1>1. listed \in Seq(Objs)
  BY SafeParts
<1>2. /\ listed' \in Seq(Objs) /\ Range(listed') \subseteq Range(listed)
      /\ Thinner(listed', listed, i)
      /\ \A j \in DOMAIN listed \ {i} : \E k \in DOMAIN listed' : listed'[k] = listed[j]
  BY <1>1, RemovedFacts
<1>3. PICK f \in [DOMAIN listed' -> DOMAIN listed \ {i}] :
            /\ \A k \in DOMAIN listed' : listed'[k] = listed[f[k]]
            /\ \A k, l \in DOMAIN listed' : f[k] = f[l] => k = l
  BY <1>2, Zenon DEF Thinner
<1>4. \A k \in DOMAIN listed' : /\ f[k] \in DOMAIN listed /\ f[k] # i
                                /\ objs'[listed'[k]].name = objs[listed[f[k]]].name
  <2>1. \A k \in DOMAIN listed' : listed'[k] \in Range(listed')
    BY DEF Range
  <2> QED BY <1>3, <2>1
<1>5. Unique'
  <2> SUFFICES ASSUME NEW k \in DOMAIN listed', NEW l \in DOMAIN listed',
                      objs'[listed'[k]].name = objs'[listed'[l]].name, k # l
               PROVE  objs'[listed'[k]].name \in excused'
    BY DEF Unique
  <2>1. f[k] # f[l]
    BY <1>3
  <2> QED BY <1>4, <2>1 DEF Unique
<1>6. ASSUME NEW x, x # e PROVE OnList(x)' <=> OnList(x)
  <2>1. ASSUME OnList(x)' PROVE OnList(x)
    <3>1. PICK k \in DOMAIN listed' : objs'[listed'[k]].name = x
      BY <2>1 DEF OnList
    <3> QED BY <1>4, <3>1 DEF OnList
  <2>2. ASSUME OnList(x) PROVE OnList(x)'
    <3>1. PICK j \in DOMAIN listed : objs[listed[j]].name = x
      BY <2>2 DEF OnList
    <3>2. j # i
      BY <1>6, <3>1
    <3>3. PICK k \in DOMAIN listed' : listed'[k] = listed[j]
      BY <1>2, <3>2
    <3>4. objs'[listed'[k]].name = x
      <4>1. listed'[k] \in Range(listed')
        BY <3>3 DEF Range
      <4> QED BY <3>1, <3>3, <4>1
    <3> QED BY <3>4 DEF OnList
  <2> QED BY <2>1, <2>2
<1>7. ASSUME e \notin excused PROVE ~OnList(e)'
  <2> SUFFICES ASSUME NEW k \in DOMAIN listed', objs'[listed'[k]].name = e PROVE FALSE
    BY DEF OnList
  <2>1. f[k] \in DOMAIN listed /\ f[k] # i /\ objs[listed[f[k]]].name = objs[listed[i]].name
    BY <1>4
  <2> QED BY <1>7, <2>1 DEF Unique
<1> QED BY <1>2, <1>5, <1>6, <1>7

LEMMA DroppedFav ==
    ASSUME SafeInv, Fav, NEW i \in DOMAIN listed, Dropped(i)
    PROVE  Fav'
<1>0. PICK e : e = objs[listed[i]].name
  OBVIOUS
<1>1. /\ listed' = RemoveAt(listed, i)
      /\ \A o \in Range(listed') : objs'[o] = objs[o]
      /\ \/ /\ store[e] # Absent
            /\ store' = [store EXCEPT ![e] = Absent]
            /\ queue' = Append(queue, EventFor("DESTROY", e))
            /\ UNCHANGED excused
         \/ /\ excused' = IF store[e] # Absent THEN excused \cup {e} ELSE excused
            /\ UNCHANGED <<store, queue>>
  BY <1>0 DEF Dropped
<1>2. /\ listed \in Seq(Objs) /\ store \in [Essids -> Known \cup {Absent}] /\ queue \in Seq(Event)
      /\ ListsOK
  BY SafeParts DEF StoreOK
<1>3. e \in Essids
  BY <1>0, <1>2, LiveFacts, InListsFacts, RangeFacts, NetFields
<1>4. excused \subseteq excused' /\ Unique
  BY <1>1 DEF Fav
<1>5. /\ Unique'
      /\ \A x : x # e => (OnList(x)' <=> OnList(x))
      /\ \A o \in Range(listed') : o \in Range(listed) /\ objs'[o] = objs[o]
  BY <1>0, <1>1, <1>4, ShorterFacts
<1>6. OnList(e)
  BY <1>0 DEF OnList
<1>7. CASE /\ store[e] # Absent
           /\ store' = [store EXCEPT ![e] = Absent]
           /\ queue' = Append(queue, EventFor("DESTROY", e))
           /\ UNCHANGED excused
  <2>1. EventFor("DESTROY", e) \in Event
    BY <1>3, DestroyEvent
  <2>2. store'[e] = Absent /\ \A x \in Essids : x # e => store'[x] = store[x]
    BY <1>2, <1>3, <1>7
  <2>3. ASSUME NEW x \in Essids \ excused' PROVE Follows(x)'
    <3>1. CASE x = e
      <4>1. EventFor("DESTROY", e) = EventFor(IF store'[x] # Absent THEN "ADD" ELSE "DESTROY", x)
        BY <2>2, <3>1
      <4> QED BY <1>2, <1>7, <2>1, <3>1, <4>1, FollowsPosted
    <3>2. CASE x # e
      <4>1. EventFor("DESTROY", e) \notin Fate(x)
        BY <1>3, <3>2, FateFacts
      <4>2. Follows(x)
        BY <1>7 DEF Fav
      <4>3. store'[x] # Absent <=> store[x] # Absent
        BY <2>2, <3>2
      <4> QED BY <1>2, <1>5, <1>7, <2>1, <3>2, <4>1, <4>2, <4>3, FollowsOther
    <3> QED BY <3>1, <3>2
  <2>4. ASSUME NEW o \in Range(listed'), objs'[o].name \notin excused' PROVE Sound(o)'
    <3>0. PICK x : x = objs[o].name
      OBVIOUS
    <3>1. o \in Range(listed) /\ objs'[o] = objs[o] /\ Sound(o) /\ x \in Essids
      BY <1>2, <1>5, <1>7, <2>4, <3>0, LiveFacts, InListsFacts, NetFields DEF Fav
    <3>2. (Corrected(x) => Corrected(x)') /\ (x = e => Corrected(x)')
      BY <1>2, <1>7, <2>1, CorrectedPosted
    <3>3. x # e => store'[x] = store[x]
      BY <2>2, <3>1
    <3> QED BY <3>0, <3>1, <3>2, <3>3 DEF Sound
  <2> QED BY <1>5, <2>3, <2>4 DEF Fav
<1>8. CASE /\ excused' = IF store[e] # Absent THEN excused \cup {e} ELSE excused
           /\ UNCHANGED <<store, queue>>
  <2>1. ASSUME NEW x \in Essids \ excused' PROVE Follows(x)'
    <3>1. Follows(x)
      BY <1>4 DEF Fav
    <3>2. CASE x = e
      <4>1. ~Stored(x)
        BY <1>8, <3>2 DEF Stored
      <4>2. ~NoneIn(queue, Fate(x)) /\ Ends(queue, Fate(x), Due(x))
        BY <1>6, <3>1, <3>2, <4>1 DEF Follows
      <4>3. Due(x)' = Due(x) /\ Fate(x)' = Fate(x)
        BY <1>8 DEF Due, Fate, Stored, EventFor
      <4> QED BY <1>8, <4>2, <4>3 DEF Follows
    <3>3. CASE x # e
      BY <1>5, <1>8, <3>1, <3>3, FollowsSame
    <3> QED BY <3>2, <3>3
  <2>2. ASSUME NEW o \in Range(listed'), objs'[o].name \notin excused' PROVE Sound(o)'
    <3>0. PICK x : x = objs[o].name
      OBVIOUS
    <3>1. objs'[o] = objs[o] /\ Sound(o)
      BY <1>4, <1>5, <2>2 DEF Fav
    <3>2. Corrected(x)' <=> Corrected(x)
      BY <1>8 DEF Corrected, EventFor
    <3> QED BY <1>8, <3>0, <3>1, <3>2 DEF Sound
  <2> QED BY <1>5, <2>1, <2>2 DEF Fav
<1> QED BY <1>1, <1>7, <1>8

LEMMA ConfigureFav ==
    ASSUME SafeInv, Fav, NEW e \in Essids, Configure(e)
    PROVE  Fav'
<1>1. PICK p \in {Absent, [sec |-> "wpa", bss |-> {}, prio |-> 1]} :
         /\ p # store[e]
         /\ store' = [store EXCEPT ![e] = p]
         /\ queue' = Append(queue, IF p = Absent THEN EventFor("DESTROY", e) ELSE EventOf(e))
  BY DEF Configure
<1>2. UNCHANGED <<objs, listed, excused>>
  BY DEF Configure
<1>3. /\ listed \in Seq(Objs) /\ store \in [Essids -> Known \cup {Absent}] /\ queue \in Seq(Event)
      /\ ListsOK
  BY SafeParts DEF StoreOK
<1>4. store'[e] = p /\ \A x \in Essids : x # e => store'[x] = store[x]
  BY <1>1, <1>3
<1> DEFINE a == IF p = Absent THEN "DESTROY" ELSE IF Stored(e) THEN "REFRESH" ELSE "ADD"
<1>5. queue' = Append(queue, EventFor(a, e)) /\ a \in {"ADD", "REFRESH", "DESTROY"}
  BY <1>1 DEF EventOf, Stored
<1>6. /\ a = "REFRESH" => Stored(e) /\ p # Absent
      /\ a # "REFRESH" => a = IF p # Absent THEN "ADD" ELSE "DESTROY"
      /\ a = "ADD" => ~Stored(e)
  OBVIOUS
<1> HIDE DEF a
<1>7. EventFor(a, e) \in Event
  BY <1>5, EventNames
<1>8. Unique'
  BY <1>2 DEF Fav, Unique
<1>9. \A x : OnList(x)' <=> OnList(x)
  BY <1>2 DEF OnList
<1>10. ASSUME NEW x \in Essids \ excused' PROVE Follows(x)'
  <2>1. Follows(x)
    BY <1>2 DEF Fav
  <2>2. CASE x # e
    <3>1. EventFor(a, e) \notin Fate(x)
      BY <1>5, <2>2, FateFacts
    <3>2. store'[x] # Absent <=> store[x] # Absent
      BY <1>4, <2>2
    <3> QED BY <1>3, <1>5, <1>7, <1>9, <2>1, <3>1, <3>2, FollowsOther
  <2>3. CASE x = e /\ a = "REFRESH"
    <3>1. EventFor(a, e) \notin Fate(x)
      BY <2>3, FateFacts
    <3>2. store'[x] # Absent <=> store[x] # Absent
      BY <1>4, <1>6, <2>3 DEF Stored
    <3> QED BY <1>3, <1>5, <1>7, <1>9, <2>1, <3>1, <3>2, FollowsOther
  <2>4. CASE x = e /\ a # "REFRESH"
    <3>1. EventFor(a, e) = EventFor(IF store'[x] # Absent THEN "ADD" ELSE "DESTROY", x)
      BY <1>4, <1>6, <2>4
    <3> QED BY <1>3, <1>5, <1>7, <3>1, FollowsPosted
  <2> QED BY <2>2, <2>3, <2>4
<1>11. ASSUME NEW o \in Range(listed'), objs'[o].name \notin excused' PROVE Sound(o)'
  <2>0. PICK x : x = objs[o].name
    OBVIOUS
  <2>1. o \in Range(listed) /\ objs'[o] = objs[o] /\ Sound(o) /\ x \in Essids /\ x \notin excused
    BY <1>2, <1>3, <1>11, <2>0, LiveFacts, InListsFacts, NetFields DEF Fav
  <2>2. Corrected(x) => Corrected(x)'
    BY <1>3, <1>5, <1>7, CorrectedPosted
  <2>3. CASE x # e
    BY <1>4, <2>0, <2>1, <2>2, <2>3 DEF Sound
  <2>4. CASE x = e /\ a # "ADD"
    <3>1. EventFor(a, e) = EventFor("REFRESH", x) \/ EventFor(a, e) = EventFor("DESTROY", x)
      BY <1>5, <2>4
    <3>2. Corrected(x)'
      BY <1>3, <1>5, <1>7, <3>1, CorrectedPosted
    <3> QED BY <2>0, <2>1, <3>2 DEF Sound
  <2>5. CASE x = e /\ a = "ADD"
    <3>1. OnList(x)
      BY <1>3, <2>0, <2>1, RangeFacts DEF OnList
    <3>2. Follows(x) /\ ~Stored(x)
      BY <1>6, <2>1, <2>5 DEF Fav
    <3>3. Has(queue, EventFor("DESTROY", x))
      BY <2>1, <3>1, <3>2, WillBeDropped
    <3>4. Corrected(x)'
      BY <2>2, <3>3 DEF Corrected
    <3> QED BY <2>0, <2>1, <3>4 DEF Sound
  <2> QED BY <2>3, <2>4, <2>5
<1> QED BY <1>8, <1>10, <1>11 DEF Fav

LEMMA TakesFacts ==
    ASSUME SafeInv, NEW e \in Essids, NEW a \in {"ADD", "REFRESH", "DESTROY"}, Takes(e, a)
    PROVE  /\ queue \in Seq(Event) /\ queue # <<>> /\ queue' = Tail(queue)
           /\ store' = store /\ excused' = excused /\ Head(queue) = EventFor(a, e)
           /\ \A x \in Essids : x # e => Head(queue) \notin Fate(x)
           /\ \A x \in Essids : x # e \/ a = "ADD" => /\ Head(queue) # EventFor("REFRESH", x)
                                                       /\ Head(queue) # EventFor("DESTROY", x)
<1>1. /\ queue # <<>> /\ queue' = Tail(queue)
      /\ store' = store /\ excused' = excused /\ Head(queue) = EventFor(a, e)
  BY DEF Takes
<1>2. queue \in Seq(Event)
  BY SafeParts
<1>3. ASSUME NEW x \in Essids, x # e PROVE Head(queue) \notin Fate(x)
  BY <1>1, <1>3, FateFacts
<1>4. ASSUME NEW x \in Essids, x # e \/ a = "ADD"
      PROVE  Head(queue) # EventFor("REFRESH", x) /\ Head(queue) # EventFor("DESTROY", x)
  BY <1>1, <1>4, EventNames
<1> QED BY <1>1, <1>2, <1>3, <1>4

\* A favourite that is as it was, when an event about others is handled.
LEMMA SoundTaken ==
    ASSUME SafeInv, Fav, NEW e \in Essids, NEW a \in {"ADD", "REFRESH", "DESTROY"}, Takes(e, a),
           NEW o \in Range(listed), objs'[o] = objs[o], objs[o].name \notin excused,
           objs[o].name # e \/ a = "ADD"
    PROVE  Sound(o)'
<1>0. PICK x : x = objs[o].name
  OBVIOUS
<1>1. Sound(o) /\ x \in Essids
  <2>1. listed \in Seq(Objs) /\ ListsOK
    BY SafeParts
  <2> QED BY <1>0, <2>1, LiveFacts, InListsFacts, NetFields DEF Fav
<1>2. /\ queue \in Seq(Event) /\ queue # <<>> /\ queue' = Tail(queue) /\ store' = store
      /\ Head(queue) # EventFor("REFRESH", x) /\ Head(queue) # EventFor("DESTROY", x)
  BY <1>0, <1>1, TakesFacts
<1>3. Corrected(x) => Corrected(x)'
  BY <1>2, CorrectedTaken
<1> QED BY <1>0, <1>1, <1>2, <1>3 DEF Sound

LEMMA DueFacts ==
    ASSUME NEW e \in Essids
    PROVE  /\ EventFor("ADD", e) \in Due(e) => Stored(e)
           /\ EventFor("DESTROY", e) \in Due(e) => ~Stored(e)
           /\ EventFor("ADD", e) \in Fate(e) /\ EventFor("DESTROY", e) \in Fate(e)
BY EventNames DEF Due, Fate

LEMMA NewArrivesFav ==
    ASSUME SafeInv, Fav, NEW e \in Essids, NewArrives(e)
    PROVE  Fav'
<1>1. Takes(e, "ADD")
  BY DEF NewArrives
<1>2. "ADD" \in {"ADD", "REFRESH", "DESTROY"}
  OBVIOUS
<1>3. /\ queue \in Seq(Event) /\ queue # <<>> /\ queue' = Tail(queue)
      /\ store' = store /\ excused' = excused /\ Head(queue) = EventFor("ADD", e)
      /\ \A x \in Essids : x # e => Head(queue) \notin Fate(x)
      /\ \A x \in Essids : /\ Head(queue) # EventFor("REFRESH", x)
                           /\ Head(queue) # EventFor("DESTROY", x)
  BY <1>1, <1>2, TakesFacts
<1>4. listed \in Seq(Objs) /\ ListsOK
  BY SafeParts
<1>5. \* What is left to show.
      ASSUME Unique', OnList(e)', \A x : x # e => (OnList(x)' <=> OnList(x)),
             \A o \in Range(listed') : (o \in Range(listed) /\ objs'[o] = objs[o])
                                          \/ objs'[o].name \in excused \/ Sound(o)'
      PROVE  Fav'
  <2>1. ASSUME NEW x \in Essids \ excused' PROVE Follows(x)'
    <3>1. Follows(x)
      BY <1>3 DEF Fav
    <3>2. CASE x = e
      <4>1. Head(queue) \in Fate(x) /\ (Head(queue) \in Due(x) => Stored(x))
        BY <1>3, <3>2, DueFacts
      <4>2. IF Head(queue) \in Fate(x)
            THEN Head(queue) \in Due(x) => (Stored(x) <=> OnList(x)') ELSE OnList(x)' <=> OnList(x)
        BY <1>5, <3>2, <4>1
      <4> QED BY <1>3, <3>1, <4>2, FollowsTaken
    <3>3. CASE x # e
      <4>1. IF Head(queue) \in Fate(x)
            THEN Head(queue) \in Due(x) => (Stored(x) <=> OnList(x)') ELSE OnList(x)' <=> OnList(x)
        BY <1>3, <1>5, <3>3
      <4> QED BY <1>3, <3>1, <4>1, FollowsTaken
    <3> QED BY <3>2, <3>3
  <2>2. ASSUME NEW o \in Range(listed'), objs'[o].name \notin excused' PROVE Sound(o)'
    <3>1. CASE o \in Range(listed) /\ objs'[o] = objs[o]
      <4>1. objs[o].name \notin excused
        BY <1>3, <2>2, <3>1
      <4> QED BY <1>1, <1>2, <3>1, <4>1, SoundTaken
    <3> QED BY <1>3, <1>5, <2>2, <3>1
  <2> QED BY <1>5, <2>1, <2>2 DEF Fav
<1>6. CASE Named(e) # {} /\ UNCHANGED <<objs, listed>>
  <2>1. Unique'
    BY <1>3, <1>6 DEF Fav, Unique
  <2>2. \A x : OnList(x)' <=> OnList(x)
    BY <1>6 DEF OnList
  <2>3. OnList(e)'
    BY <1>6, <2>2, ListedNamed
  <2> QED BY <1>5, <1>6, <2>1, <2>2, <2>3
<1>7. CASE \E o \in Objs, r \in Wifi :
             /\ Named(e) = {} /\ o \notin InLists /\ r.name = e
             /\ (store[e] # Absent => r.h = store[e])
             /\ objs' = [objs EXCEPT ![o] = r]
             /\ listed' = Inserted(listed, o, objs')
  <2> DEFINE t == objs'
  <2>1. PICK o \in Objs, r \in Wifi :
             /\ Named(e) = {} /\ o \notin InLists /\ r.name = e
             /\ (store[e] # Absent => r.h = store[e])
             /\ objs' = [objs EXCEPT ![o] = r]
             /\ listed' = Inserted(listed, o, t)
    BY <1>7
  <2> HIDE DEF t
  <2>2. listed' \in Seq(Objs) /\ Range(listed') = Range(listed) \cup {o} /\ Grown(listed', listed, o)
        /\ \A j \in DOMAIN listed : \E k \in DOMAIN listed' : listed'[k] = listed[j]
    BY <1>4, <2>1, PutFacts
  <2>3. PICK p \in DOMAIN listed', f \in [DOMAIN listed' -> Nat] :
            /\ listed'[p] = o
            /\ \A k \in DOMAIN listed' \ {p} : f[k] \in DOMAIN listed /\ listed'[k] = listed[f[k]]
            /\ \A k, l \in DOMAIN listed' \ {p} : f[k] = f[l] => k = l
    BY <2>2, Zenon DEF Grown
  <2>4. o \notin Range(listed) /\ objs \in [Objs -> Wifi \cup {Nil}]
    BY <1>4, <2>1, InListsFacts, SafeParts
  <2>5. objs'[o] = r /\ \A x \in Range(listed) : objs'[x] = objs[x]
    BY <1>4, <2>1, <2>4, RangeFacts
  <2>6. \A k \in DOMAIN listed' \ {p} :
           f[k] \in DOMAIN listed /\ objs'[listed'[k]] = objs[listed[f[k]]]
    BY <1>4, <2>3, <2>5, RangeFacts
  <2>7. objs'[listed'[p]].name = e
    BY <2>1, <2>3, <2>5
  <2>8. \A k \in DOMAIN listed' \ {p} : objs'[listed'[k]].name # e
    BY <2>1, <2>6 DEF Named
  <2>9. Unique'
    <3> SUFFICES ASSUME NEW i \in DOMAIN listed', NEW j \in DOMAIN listed',
                        objs'[listed'[i]].name = objs'[listed'[j]].name, i # j
                 PROVE  objs'[listed'[i]].name \in excused'
      BY DEF Unique
    <3>1. i # p /\ j # p
      BY <2>7, <2>8
    <3>2. f[i] # f[j] /\ f[i] \in DOMAIN listed /\ f[j] \in DOMAIN listed
            /\ objs[listed[f[i]]].name = objs[listed[f[j]]].name
      BY <2>3, <2>6, <3>1
    <3> QED BY <1>3, <2>6, <3>1, <3>2 DEF Fav, Unique
  <2>10. OnList(e)'
    BY <2>7 DEF OnList
  <2>11. ASSUME NEW x, x # e PROVE OnList(x)' <=> OnList(x)
    <3>1. ASSUME OnList(x)' PROVE OnList(x)
      <4>1. PICK k \in DOMAIN listed' : objs'[listed'[k]].name = x
        BY <3>1 DEF OnList
      <4> QED BY <2>6, <2>7, <2>11, <4>1 DEF OnList
    <3>2. ASSUME OnList(x) PROVE OnList(x)'
      <4>1. PICK j \in DOMAIN listed : objs[listed[j]].name = x
        BY <3>2 DEF OnList
      <4>2. PICK k \in DOMAIN listed' : listed'[k] = listed[j]
        BY <2>2
      <4>3. objs'[listed'[k]].name = x
        BY <1>4, <2>5, <4>1, <4>2, RangeFacts
      <4> QED BY <4>3 DEF OnList
    <3> QED BY <3>1, <3>2
  <2>12. e \in excused \/ Sound(o)'
    <3> SUFFICES ASSUME e \notin excused PROVE Sound(o)'
      OBVIOUS
    <3>1. objs'[o].name = e
      BY <2>1, <2>5
    <3>2. CASE store[e] # Absent
      BY <1>3, <2>1, <2>5, <3>1, <3>2 DEF Sound
    <3>3. CASE store[e] = Absent
      <4>1. Follows(e) /\ ~Stored(e)
        BY <3>3 DEF Fav, Stored
      <4>2. 1 \in 1 .. Len(queue) /\ queue[1] = Head(queue)
        BY <1>3, TailFacts
      <4>3. ~NoneIn(queue, Fate(e))
        BY <1>3, <4>2, DueFacts DEF NoneIn
      <4>4. Has(queue, EventFor("DESTROY", e))
        BY <4>1, <4>3, WillBeDropped
      <4>5. Corrected(e)'
        BY <1>3, <4>4, CorrectedTaken DEF Corrected
      <4> QED BY <3>1, <4>5 DEF Sound
    <3> QED BY <3>2, <3>3
  <2>13. \A x \in Range(listed') : (x \in Range(listed) /\ objs'[x] = objs[x])
                                       \/ objs'[x].name \in excused \/ Sound(x)'
    BY <2>1, <2>2, <2>5, <2>12
  <2> QED BY <1>5, <2>9, <2>10, <2>11, <2>13
<1> QED BY <1>6, <1>7 DEF NewArrives

LEMMA ChangeArrivesFav ==
    ASSUME SafeInv, Fav, NEW e \in Essids, ChangeArrives(e)
    PROVE  Fav'
<1>1. Takes(e, "REFRESH") /\ listed' = listed
  BY DEF ChangeArrives
<1>2. "REFRESH" \in {"ADD", "REFRESH", "DESTROY"}
  OBVIOUS
<1>3. /\ queue \in Seq(Event) /\ queue # <<>> /\ queue' = Tail(queue)
      /\ store' = store /\ excused' = excused /\ Head(queue) = EventFor("REFRESH", e)
      /\ \A x \in Essids : x # e => Head(queue) \notin Fate(x)
  BY <1>1, <1>2, TakesFacts
<1>4. listed \in Seq(Objs) /\ ListsOK /\ objs \in [Objs -> Wifi \cup {Nil}]
  BY SafeParts
<1>5. \/ UNCHANGED objs /\ (Named(e) = {} \/ objs[Found(e)].mod)
      \/ \E r \in Wifi : /\ Named(e) # {} /\ r.name = e
                         /\ (store[e] # Absent => r.h = store[e])
                         /\ objs' = [objs EXCEPT ![Found(e)] = r]
  BY DEF ChangeArrives
<1>6. Named(e) # {} => /\ FirstOf(Named(e)) \in DOMAIN listed
                       /\ Found(e) = listed[FirstOf(Named(e))]
                       /\ Found(e) \in Objs /\ objs[Found(e)].name = e
  BY FoundFacts
<1>7. ASSUME NEW o \in Range(listed)
      PROVE  objs'[o].name = objs[o].name /\ (objs[o].name # e => objs'[o] = objs[o])
  <2>1. o \in Objs
    BY <1>4, RangeFacts
  <2> QED BY <1>4, <1>5, <1>6, <2>1
<1>8. \A i \in DOMAIN listed : objs'[listed[i]].name = objs[listed[i]].name
  BY <1>4, <1>7, RangeFacts
<1>9. Unique'
  BY <1>1, <1>3, <1>8 DEF Fav, Unique
<1>10. \A x : OnList(x)' <=> OnList(x)
  BY <1>1, <1>8 DEF OnList
<1>11. ASSUME NEW x \in Essids \ excused' PROVE Follows(x)'
  <2>1. Follows(x)
    BY <1>3 DEF Fav
  <2>2. Head(queue) \notin Fate(x)
    BY <1>3, FateFacts
  <2>3. IF Head(queue) \in Fate(x)
        THEN Head(queue) \in Due(x) => (Stored(x) <=> OnList(x)') ELSE OnList(x)' <=> OnList(x)
    BY <1>10, <2>2
  <2> QED BY <1>3, <2>1, <2>3, FollowsTaken
<1>12. ASSUME NEW o \in Range(listed'), objs'[o].name \notin excused' PROVE Sound(o)'
  <2>1. o \in Range(listed) /\ objs'[o].name = objs[o].name /\ objs[o].name \notin excused
    BY <1>1, <1>3, <1>7, <1>12
  <2>2. CASE objs[o].name # e
    <3>1. objs'[o] = objs[o]
      BY <1>7, <2>1, <2>2
    <3> QED BY <1>1, <1>2, <2>1, <2>2, <3>1, SoundTaken
  <2>3. CASE objs[o].name = e
    <3>1. PICK k \in DOMAIN listed : listed[k] = o
      BY <1>4, <2>1, RangeFacts
    <3>2. Named(e) # {} /\ OnList(e)
      BY <2>3, <3>1 DEF Named, OnList
    <3>3. Found(e) = o
      BY <1>6, <2>1, <2>3, <3>1, <3>2 DEF Fav, Unique
    <3>4. CASE UNCHANGED objs /\ objs[Found(e)].mod
      BY <3>3, <3>4 DEF Sound
    <3>5. ASSUME NEW r \in Wifi, r.name = e, store[e] # Absent => r.h = store[e],
                 objs' = [objs EXCEPT ![Found(e)] = r]
          PROVE  Sound(o)'
      <4>1. objs'[o] = r
        BY <1>4, <1>6, <3>2, <3>3, <3>5
      <4>2. CASE store[e] # Absent
        BY <1>3, <3>5, <4>1, <4>2 DEF Sound
      <4>3. CASE store[e] = Absent
        <5>1. Follows(e) /\ ~Stored(e)
          BY <2>1, <2>3, <4>3 DEF Fav, Stored
        <5>2. Has(queue, EventFor("DESTROY", e))
          BY <3>2, <5>1, WillBeDropped
        <5>3. Head(queue) # EventFor("DESTROY", e)
          BY <1>3, EventNames
        <5>4. Corrected(e)'
          BY <1>3, <5>2, <5>3, CorrectedTaken DEF Corrected
        <5> QED BY <3>5, <4>1, <5>4 DEF Sound
      <4> QED BY <4>2, <4>3
    <3> QED BY <1>5, <3>2, <3>4, <3>5
  <2> QED BY <2>2, <2>3
<1> QED BY <1>9, <1>11, <1>12 DEF Fav

LEMMA RemovalArrivesFav ==
    ASSUME SafeInv, Fav, NEW e \in Essids, RemovalArrives(e)
    PROVE  Fav'
<1>1. Takes(e, "DESTROY") /\ \A o \in Range(listed') : objs'[o] = objs[o]
  BY DEF RemovalArrives
<1>2. "DESTROY" \in {"ADD", "REFRESH", "DESTROY"}
  OBVIOUS
<1>3. /\ queue \in Seq(Event) /\ queue # <<>> /\ queue' = Tail(queue)
      /\ store' = store /\ excused' = excused /\ Head(queue) = EventFor("DESTROY", e)
      /\ \A x \in Essids : x # e => Head(queue) \notin Fate(x)
  BY <1>1, <1>2, TakesFacts
<1>4. listed \in Seq(Objs) /\ Unique
  BY SafeParts DEF Fav
<1>5. /\ Unique'
      /\ \A x : x # e => (OnList(x)' <=> OnList(x))
      /\ e \notin excused => ~OnList(e)'
      /\ \A o \in Range(listed') : o \in Range(listed) /\ objs'[o] = objs[o]
  <2>1. CASE Named(e) # {}
    <3>1. PICK i \in DOMAIN listed : i = FirstOf(Named(e)) /\ objs[listed[i]].name = e
      BY <2>1, FoundFacts
    <3>2. listed' = RemoveAt(listed, i)
      BY <2>1, <3>1 DEF RemovalArrives
    <3> QED BY <1>1, <1>3, <1>4, <3>1, <3>2, ShorterFacts
  <2>2. CASE Named(e) = {}
    <3>1. listed' = listed
      BY <2>2 DEF RemovalArrives
    <3>2. \A i \in DOMAIN listed : objs'[listed[i]] = objs[listed[i]]
      BY <1>1, <1>4, <3>1, RangeFacts
    <3>3. \A x : OnList(x)' <=> OnList(x)
      BY <3>1, <3>2 DEF OnList
    <3>4. ~OnList(e)
      BY <2>2, ListedNamed
    <3>5. Unique'
      BY <1>3, <1>4, <3>1, <3>2 DEF Unique
    <3> QED BY <1>1, <3>1, <3>3, <3>4, <3>5
  <2> QED BY <2>1, <2>2
<1>6. ASSUME NEW x \in Essids \ excused' PROVE Follows(x)'
  <2>1. Follows(x)
    BY <1>3 DEF Fav
  <2>2. CASE x = e
    <3>1. Head(queue) \in Fate(x) /\ (Head(queue) \in Due(x) => ~Stored(x)) /\ ~OnList(x)'
      BY <1>3, <1>5, <2>2, DueFacts
    <3>2. IF Head(queue) \in Fate(x)
          THEN Head(queue) \in Due(x) => (Stored(x) <=> OnList(x)') ELSE OnList(x)' <=> OnList(x)
      BY <3>1
    <3> QED BY <1>3, <2>1, <3>2, FollowsTaken
  <2>3. CASE x # e
    <3>1. IF Head(queue) \in Fate(x)
          THEN Head(queue) \in Due(x) => (Stored(x) <=> OnList(x)') ELSE OnList(x)' <=> OnList(x)
      BY <1>3, <1>5, <2>3
    <3> QED BY <1>3, <2>1, <3>1, FollowsTaken
  <2> QED BY <2>2, <2>3
<1>7. ASSUME NEW o \in Range(listed'), objs'[o].name \notin excused' PROVE Sound(o)'
  <2>1. o \in Range(listed) /\ objs'[o] = objs[o] /\ objs[o].name \notin excused
    BY <1>3, <1>5, <1>7
  <2>2. objs[o].name # e
    <3> SUFFICES ASSUME objs[o].name = e PROVE FALSE
      OBVIOUS
    <3>1. PICK k \in DOMAIN listed' : listed'[k] = o
      BY DEF Range
    <3>2. OnList(e)'
      BY <2>1, <3>1 DEF OnList
    <3> QED BY <1>5, <2>1, <3>2
  <2> QED BY <1>1, <1>2, <2>1, <2>2, SoundTaken
<1> QED BY <1>5, <1>6, <1>7 DEF Fav

LEMMA EmptyFacts ==
    ASSUME Fav, queue = <<>>
    PROVE  /\ \A e \in Essids \ excused : Stored(e) <=> OnList(e)
           /\ \A e : ~Corrected(e)
           /\ \A o \in Range(listed) :
                 objs[o].name \in excused \/ objs[o].mod \/ objs[o].h = store[objs[o].name]
<1>1. \A C : NoneIn(queue, C)
  BY NoneOfEmpty
<1>2. \A e \in Essids \ excused : Stored(e) <=> OnList(e)
  BY <1>1 DEF Fav, Follows
<1>3. \A e : ~Corrected(e)
  BY DEF Corrected, Has
<1> QED BY <1>2, <1>3 DEF Fav, Sound

\* A commit that fails: the events say that favourites changed, and those that
\* were saved are now as stored.
LEMMA FailedFav ==
    ASSUME SafeInv, Fav, NEW t, NEW S, NEW order, Failed(t, S, order)
    PROVE  Fav'
<1>1. /\ listed' = listed /\ excused' = excused /\ queue = <<>>
      /\ S \in SUBSET DOMAIN listed
      /\ store' = SavedBy(t, S)
      /\ objs' = [o \in Objs |-> IF \E i \in S : listed[i] = o
                                 THEN [t[o] EXCEPT !.mod = FALSE] ELSE t[o]]
  BY DEF Failed
<1>2. /\ DOMAIN order = 1 .. Cardinality(S) /\ Cardinality(S) \in Nat
      /\ order \in [1 .. Cardinality(S) -> S]
      /\ queue' = [k \in DOMAIN order |-> EventOf(objs[listed[order[k]]].name)]
  BY DEF Failed, Ordered
<1>3. /\ \A o \in Objs : /\ t[o] # Nil => NetOK(t[o])
                         /\ objs[o] # Nil => t[o] # Nil
                         /\ t[o] = objs[o] \/ (t[o].name = objs[o].name /\ t[o].mod)
  BY PrioritisedOK DEF Failed
<1>4. listed \in Seq(Objs) /\ ListsOK
  BY SafeParts
<1>5. ASSUME NEW o \in Range(listed)
      PROVE  /\ o \in Objs /\ NetOK(t[o]) /\ NetOK(objs[o])
             /\ objs'[o].name = objs[o].name /\ t[o].name = objs[o].name
             /\ objs'[o].h = t[o].h
             /\ (~ \E i \in S : listed[i] = o) => objs'[o] = t[o]
  <2>1. o \in Objs /\ objs[o] # Nil /\ NetOK(objs[o])
    BY <1>4, LiveFacts, InListsFacts
  <2>2. NetOK(t[o]) /\ t[o].name = objs[o].name
    BY <1>3, <2>1
  <2>3. objs'[o] = IF \E i \in S : listed[i] = o THEN [t[o] EXCEPT !.mod = FALSE] ELSE t[o]
    BY <1>1, <2>1
  <2>4. [t[o] EXCEPT !.mod = FALSE].name = t[o].name /\ [t[o] EXCEPT !.mod = FALSE].h = t[o].h
    BY <2>2, SetModOK
  <2> QED BY <2>1, <2>2, <2>3, <2>4
<1>6. \A i \in DOMAIN listed : /\ listed[i] \in Range(listed)
                               /\ objs'[listed[i]].name = objs[listed[i]].name
  <2>1. \A i \in DOMAIN listed : listed[i] \in Range(listed)
    BY <1>4, RangeFacts
  <2>2. \A o \in Range(listed) : objs'[o].name = objs[o].name
    BY <1>5
  <2> QED BY <2>1, <2>2
<1>7. Unique' /\ \A e : OnList(e)' <=> OnList(e)
  <2>1. Unique /\ listed' = listed /\ excused' = excused
    BY <1>1 DEF Fav
  <2>2. \A i \in DOMAIN listed : objs'[listed[i]].name = objs[listed[i]].name
    BY <1>6
  <2> QED BY <2>1, <2>2 DEF Unique, OnList
<1>9. /\ \A e \in Essids \ excused : Stored(e) <=> OnList(e)
      /\ \A o \in Range(listed) :
            objs[o].name \in excused \/ objs[o].mod \/ objs[o].h = store[objs[o].name]
  BY <1>1, EmptyFacts
<1>10. ASSUME NEW e \in Essids
       PROVE  \/ store'[e] = store[e] /\ \A i \in S : objs[listed[i]].name # e
              \/ \E i \in S : objs[listed[i]].name = e /\ store'[e] = t[listed[i]].h
  <2>1. \A i \in S : t[listed[i]].name = objs[listed[i]].name
    BY <1>1, <1>5, <1>6
  <2> QED BY <1>1, <1>4, <2>1, SavedByFacts
<1>11. ASSUME NEW e \in Essids \ excused' PROVE Follows(e)'
  <2>1. Stored(e) <=> OnList(e)
    BY <1>1, <1>9
  <2>2. Stored(e)' <=> Stored(e)
    <3>1. CASE store'[e] = store[e]
      BY <3>1 DEF Stored
    <3>2. ASSUME NEW i \in S, objs[listed[i]].name = e, store'[e] = t[listed[i]].h
          PROVE  Stored(e)' /\ Stored(e)
      <4>1. i \in DOMAIN listed /\ NetOK(t[listed[i]])
        BY <1>1, <1>5, <1>6
      <4>2. store'[e] # Absent
        BY <3>2, <4>1, NetFields
      <4>3. OnList(e)
        BY <3>2, <4>1 DEF OnList
      <4> QED BY <2>1, <4>2, <4>3 DEF Stored
    <3> QED BY <1>10, <3>1, <3>2
  <2>3. ASSUME NEW k \in 1 .. Len(queue') PROVE queue'[k] \notin Fate(e)
    <3>1. k \in DOMAIN order /\ queue'[k] = EventOf(objs[listed[order[k]]].name)
      BY <1>2
    <3>2. order[k] \in S /\ order[k] \in DOMAIN listed
      BY <1>1, <1>2, <3>1
    <3>3. PICK x : x = objs[listed[order[k]]].name
      OBVIOUS
    <3>4. x \in Essids
      BY <1>5, <1>6, <3>2, <3>3, NetFields
    <3>5. CASE x = e
      <4>1. OnList(e)
        BY <3>2, <3>3, <3>5 DEF OnList
      <4>2. EventOf(x) = EventFor("REFRESH", e)
        BY <2>1, <3>5, <4>1 DEF EventOf, Stored
      <4> QED BY <3>1, <3>3, <4>2, FateFacts
    <3>6. CASE x # e
      <4>1. EventOf(x) \notin Fate(e)
        BY <3>4, <3>6, FateFacts DEF EventOf
      <4> QED BY <3>1, <3>3, <4>1
    <3> QED BY <3>5, <3>6
  <2>4. Fate(e)' = Fate(e)
    BY DEF Fate, EventFor
  <2>5. NoneIn(queue', Fate(e))
    BY <2>3 DEF NoneIn
  <2> QED BY <1>7, <2>1, <2>2, <2>4, <2>5 DEF Follows, Ends
<1>12. ASSUME NEW o \in Range(listed'), objs'[o].name \notin excused' PROVE Sound(o)'
  <2>1. o \in Range(listed) /\ objs'[o].name = objs[o].name /\ objs'[o].h = t[o].h
    BY <1>1, <1>5, <1>12
  <2>2. PICK e : e = objs[o].name
    OBVIOUS
  <2>3. e \in Essids /\ e \notin excused
    <3>1. NetOK(objs[o])
      BY <1>5, <2>1
    <3>2. objs[o].name \in Essids
      BY <3>1, NetFields
    <3>3. objs[o].name \notin excused
      BY <1>1, <1>12, <2>1
    <3> QED BY <2>2, <3>2, <3>3
  <2>4. \A i \in S : objs[listed[i]].name = e => listed[i] = o
    <3>1. PICK j \in DOMAIN listed : listed[j] = o
      BY <1>4, <2>1, RangeFacts
    <3> QED BY <1>1, <2>2, <2>3, <3>1 DEF Fav, Unique
  <2>5. CASE \E i \in S : listed[i] = o
    <3>1. store'[e] = t[o].h
      BY <1>10, <2>2, <2>3, <2>4, <2>5
    <3> QED BY <2>1, <2>2, <3>1 DEF Sound
  <2>6. CASE ~ \E i \in S : listed[i] = o
    <3>1. objs'[o] = t[o] /\ store'[e] = store[e]
      BY <1>5, <1>10, <2>1, <2>3, <2>4, <2>6
    <3>2. t[o].mod \/ (t[o] = objs[o] /\ (objs[o].mod \/ objs[o].h = store[e]))
      BY <1>3, <1>5, <1>9, <2>1, <2>2, <2>3
    <3> QED BY <2>1, <2>2, <3>1, <3>2 DEF Sound
  <2> QED BY <2>5, <2>6
<1> QED BY <1>7, <1>11, <1>12 DEF Fav

-----------------------------------------------------------------------------
LEMMA InitFav == WlanInit => FavInv
<1> SUFFICES ASSUME WlanInit, program = "properties" PROVE Fav
  BY DEF FavInv
<1>1. InitProperties /\ queue = <<>> /\ excused = {}
  BY DEF WlanInit
<1>2. PICK f : InitFavourites(f)
  BY <1>1, InitListed
<1>3. /\ \A e \in Essids : store[e] # Absent =>
            /\ f[e] \in Range(listed) /\ objs[f[e]].name = e /\ objs[f[e]].h = store[e]
      /\ \A o \in Range(listed) : \E e \in Essids : store[e] # Absent /\ f[e] = o
  BY <1>2, InitObjects
<1>4. listed \in Seq(Objs) /\ \A i, j \in DOMAIN listed : i < j => listed[i] # listed[j]
  BY <1>2 DEF InitFavourites
<1>5. \A i \in DOMAIN listed : \E e \in Essids :
         store[e] # Absent /\ f[e] = listed[i] /\ objs[listed[i]].name = e
            /\ objs[listed[i]].h = store[e]
  BY <1>3, <1>4, RangeFacts
<1>6. Unique
  <2> SUFFICES ASSUME NEW i \in DOMAIN listed, NEW j \in DOMAIN listed,
                      objs[listed[i]].name = objs[listed[j]].name
               PROVE  i = j
    BY DEF Unique
  <2>1. listed[i] = listed[j]
    BY <1>5
  <2>2. i \in Nat /\ j \in Nat
    BY <1>4
  <2>3. i < j \/ j < i \/ i = j
    BY <2>2
  <2> QED BY <1>4, <2>1, <2>3
<1>7. ASSUME NEW e \in Essids PROVE Stored(e) <=> OnList(e)
  <2>1. Stored(e) => OnList(e)
    <3> SUFFICES ASSUME Stored(e) PROVE OnList(e)
      OBVIOUS
    <3>1. f[e] \in Range(listed) /\ objs[f[e]].name = e
      BY <1>3 DEF Stored
    <3>2. PICK i \in DOMAIN listed : listed[i] = f[e]
      BY <1>4, <3>1, RangeFacts
    <3> QED BY <3>1, <3>2 DEF OnList
  <2>2. OnList(e) => Stored(e)
    BY <1>5 DEF OnList, Stored
  <2> QED BY <2>1, <2>2
<1>8. \A C : NoneIn(queue, C)
  BY <1>1, NoneOfEmpty
<1>9. \A e \in Essids : Follows(e)
  BY <1>7, <1>8 DEF Follows, Ends
<1>10. \A o \in Range(listed) : Sound(o)
  BY <1>3 DEF Sound
<1> QED BY <1>6, <1>9, <1>10 DEF Fav

LEMMA StepFav == SafeInv /\ FavInv /\ [WlanNext]_wlanVars => FavInv'
<1> SUFFICES ASSUME SafeInv, FavInv, [WlanNext]_wlanVars, program' = "properties" PROVE Fav'
  BY DEF FavInv
<1>1. Step
  BY StepSafe
<1>2. program = "properties"
  BY <1>1 DEF Step, Quiet, Added, EditSaved, Dropped, Failed, Configure, NewArrives, ChangeArrives,
              RemovalArrives, Takes
<1>3. Fav
  BY <1>2 DEF FavInv
<1>4. CASE Quiet
  BY <1>3, <1>4, QuietFav
<1>5. CASE \E r \in Wifi : Added(r) \/ EditSaved(r)
  BY <1>3, <1>5, AddedFav, EditSavedFav
<1>6. CASE \E i \in DOMAIN listed : Dropped(i)
  BY <1>3, <1>6, DroppedFav
<1>7. CASE \E t, S, order : Failed(t, S, order)
  BY <1>3, <1>7, FailedFav
<1>8. CASE \E e \in Essids : Configure(e) \/ NewArrives(e) \/ ChangeArrives(e) \/ RemovalArrives(e)
  BY <1>3, <1>8, ConfigureFav, NewArrivesFav, ChangeArrivesFav, RemovalArrivesFav
<1> QED BY <1>1, <1>4, <1>5, <1>6, <1>7, <1>8 DEF Step

LEMMA Converged == SafeInv /\ FavInv => FavouritesConverge
<1> SUFFICES ASSUME SafeInv, FavInv PROVE FavouritesConverge
  OBVIOUS
<1>1. WlanTypeOK
  BY TypesOK
<1>2. ASSUME program = "properties", queue = <<>>, NEW e \in Essids \ excused
      PROVE  /\ Cardinality(Named(e)) = IF store[e] = Absent THEN 0 ELSE 1
             /\ \A i \in Named(e) : ~objs[listed[i]].mod => objs[listed[i]].h = store[e]
  <2>1. Fav /\ listed \in Seq(Objs)
    BY <1>2, SafeParts DEF FavInv
  <2>2. /\ Stored(e) <=> OnList(e)
        /\ \A o \in Range(listed) :
              objs[o].name \in excused \/ objs[o].mod \/ objs[o].h = store[objs[o].name]
    BY <1>2, <2>1, EmptyFacts
  <2>3. \A i \in Named(e) : ~objs[listed[i]].mod => objs[listed[i]].h = store[e]
    BY <2>1, <2>2, RangeFacts DEF Named
  <2>4. CASE store[e] = Absent
    <3>1. Named(e) = {}
      BY <2>2, <2>4, ListedNamed DEF Stored
    <3> QED BY <2>3, <2>4, <3>1, FS_EmptySet
  <2>5. CASE store[e] # Absent
    <3>1. PICK i \in DOMAIN listed : objs[listed[i]].name = e
      BY <2>2, <2>5 DEF Stored, OnList
    <3>2. Named(e) = {i}
      BY <2>1, <3>1 DEF Named, Fav, Unique
    <3>3. Cardinality(Named(e)) = 1
      BY <3>2, FS_Singleton
    <3> QED BY <2>3, <2>5, <3>3
  <2> QED BY <2>4, <2>5
<1> QED BY <1>1, <1>2 DEF FavouritesConverge

\* Whatever the user, others and nwamd do in whatever order, once the
\* daemon object has handled every event each favourite that is stored is
\* listed once, with what is stored unless it has unsaved changes, and no other
\* is listed (create_object(), edit_object(), remove_object(),
\* nwamui_daemon_handle_object_action_event(), nwamui_daemon_commit_changed_objects()).
THEOREM FavouritesAreRight == WlanSpec => []FavouritesConverge
<1>1. WlanInit => FavInv
  BY InitFav
<1>2. SafeInv /\ FavInv /\ [WlanNext]_wlanVars => FavInv'
  BY StepFav
<1>3. SafeInv /\ FavInv => FavouritesConverge
  BY Converged
<1> QED BY Safe, <1>1, <1>2, <1>3, PTL DEF WlanSpec
==============================================================================
