------------------------- MODULE ObjectViewsProofs -------------------------
(* Proofs about the views nwam-manager and the preferences application have   *)
(* of the objects: the items of the menu for wireless networks, the dialog    *)
(* that lists them, the status page, the items for network modifiers and for  *)
(* locations, and the tooltip and the items of NCUs; for any objects.         *)
EXTENDS ObjectViews, FiniteSetTheorems, SequenceTheorems, TLAPS

-----------------------------------------------------------------------------
(* The networks of the NCUs (WifiNetworks), for any NCUs and networks.       *)

\* What an NCU keeps: one network at most is ticked, and is wifi_info; a network
\* that is in no hash has no part in either.
Sound(k) ==
    /\ k \in Kept
    /\ k.connected \subseteq {k.info}
    /\ \A e \in Essids : k.life[e] = "none" => e \notin k.connected /\ k.info # e

\* The items are those of live networks.
Matches(k, items) ==
    \A e \in Essids : items[e] \in (IF e \in Live(k) THEN {0, 1} ELSE {0})

WifiInv == TypeOK /\ ItemsOfLiveNetworks /\ NoneWithoutWireless /\ OneTicked

-----------------------------------------------------------------------------
(* Lemmas about what nwamui_ncu.c does to what an NCU keeps.               *)

LEMMA NothingSound == Sound(Nothing)
  BY NamesAssumption DEF Sound, Nothing, Kept, Lives

LEMMA CleanDeadSound ==
    ASSUME NEW k, Sound(k)
    PROVE  /\ Sound(CleanDead(k))
           /\ \A e \in Essids : CleanDead(k).life[e] =
                 IF k.life[e] = "dead" THEN "none" ELSE k.life[e]
<1> DEFINE d == CleanDead(k)
<1>k. /\ k \in Kept /\ k.life \in [Essids -> Lives] /\ k.connected \subseteq Essids
      /\ k.info \in Essids \cup {None, Gone}
  BY DEF Sound, Kept
<1>1. /\ d.life = [e \in Essids |-> IF k.life[e] = "dead" THEN "none" ELSE k.life[e]]
      /\ d.connected = k.connected \ Dead(k)
      /\ d.info = IF k.info \in Dead(k) THEN Gone ELSE k.info
      /\ d \in Kept
  BY <1>k DEF CleanDead, Dropped, Dead, Kept, Lives
<1>2. d.connected \subseteq {d.info}
  BY <1>1, <1>k DEF Sound, Dead
<1>3. \A e \in Essids : d.life[e] = "none" => e \notin d.connected /\ d.info # e
  BY <1>1, <1>k, NamesAssumption DEF Sound, Dead
<1> QED
  BY <1>1, <1>2, <1>3 DEF Sound

LEMMA MarkDeadSound ==
    ASSUME NEW k, Sound(k)
    PROVE  /\ Sound(MarkDead(k))
           /\ \A e \in Essids : MarkDead(k).life[e] =
                 IF k.life[e] = "none" THEN "none" ELSE "dead"
<1> DEFINE d == MarkDead(k)
<1>1. /\ d.life = [e \in Essids |-> IF k.life[e] = "none" THEN "none" ELSE "dead"]
      /\ d.connected = k.connected /\ d.info = k.info /\ d \in Kept
  BY DEF MarkDead, Sound, Kept, Lives
<1> QED
  BY <1>1 DEF Sound

LEMMA InsertSound ==
    ASSUME NEW k, Sound(k), NEW S \in SUBSET Essids
    PROVE  /\ Sound(Insert(k, S))
           /\ \A e \in Essids : Insert(k, S).life[e] =
                 IF e \notin S THEN k.life[e]
                 ELSE IF k.life[e] \in {"none", "new"} THEN "new" ELSE "modified"
<1> DEFINE d == Insert(k, S)
<1>1. /\ d.life = [e \in Essids |->
                     IF e \notin S THEN k.life[e]
                     ELSE IF k.life[e] \in {"none", "new"} THEN "new" ELSE "modified"]
      /\ d.connected = k.connected /\ d.info = k.info /\ d \in Kept
  BY DEF Insert, Sound, Kept, Lives
<1> QED
  BY <1>1 DEF Sound

LEMMA SetInfoSound ==
    ASSUME NEW k, Sound(k), NEW e \in Essids \cup {Gone},
           e \in Essids => k.life[e] # "none"
    PROVE  Sound(SetInfo(k, e)) /\ SetInfo(k, e).life = k.life
<1> DEFINE d == SetInfo(k, e)
<1>1. /\ d.life = k.life /\ d.info = e
      /\ d.connected = IF e = k.info THEN k.connected ELSE k.connected \ {k.info}
      /\ d \in Kept
  BY DEF SetInfo, Sound, Kept
<1> QED
  BY <1>1 DEF Sound

LEMMA ConnectSound ==
    ASSUME NEW k, Sound(k), NEW e \in Essids, k.life[e] # "none"
    PROVE  Sound(Connect(k, e)) /\ Connect(k, e).life = k.life
<1> DEFINE s == SetInfo(k, e)
           d == Connect(k, e)
<1>1. Sound(s) /\ s.life = k.life /\ s.info = e
  BY SetInfoSound DEF SetInfo, Sound, Kept
<1> HIDE DEF s
<1>2. d = [s EXCEPT !.connected = @ \cup {e}]
  BY DEF Connect, s
<1>3. /\ d.life = s.life /\ d.info = s.info /\ d.connected = s.connected \cup {e}
      /\ d \in Kept
  BY <1>1, <1>2 DEF Sound, Kept
<1> QED
  BY <1>1, <1>3 DEF Sound

\* Forgetting that a network was the one connected changes nothing else.
LEMMA FailSound ==
    ASSUME NEW k, Sound(k), NEW e \in Essids
    PROVE  Sound([k EXCEPT !.connected = @ \ {e}])
           /\ [k EXCEPT !.connected = @ \ {e}].life = k.life
<1> DEFINE d == [k EXCEPT !.connected = @ \ {e}]
<1>1. /\ d.life = k.life /\ d.info = k.info /\ d.connected = k.connected \ {e}
      /\ d \in Kept
  BY DEF Sound, Kept
<1> QED
  BY <1>1 DEF Sound

-----------------------------------------------------------------------------
(* What a report makes of the networks and of their items.                 *)

LEMMA ReportedSound ==
    ASSUME NEW k, Sound(k), NEW S \in SUBSET Essids, NEW r \in Reported(k, S)
    PROVE  /\ Sound(r)
           /\ \A e \in Essids : r.life[e] =
                 IF e \in S THEN IF k.life[e] \in {"none", "dead"} THEN "new" ELSE "modified"
                 ELSE IF k.life[e] \in {"none", "dead"} THEN "none" ELSE "dead"
<1> DEFINE c == CleanDead(k)
           d == MarkDead(c)
           i == Insert(d, S)
<1>c. Sound(c) /\ \A e \in Essids : c.life[e] = IF k.life[e] = "dead" THEN "none" ELSE k.life[e]
  BY CleanDeadSound
<1> HIDE DEF c
<1>d. Sound(d) /\ \A e \in Essids : d.life[e] = IF c.life[e] = "none" THEN "none" ELSE "dead"
  BY <1>c, MarkDeadSound
<1> HIDE DEF d
<1>i. /\ Sound(i)
      /\ \A e \in Essids : i.life[e] =
            IF e \notin S THEN d.life[e]
            ELSE IF d.life[e] \in {"none", "new"} THEN "new" ELSE "modified"
  BY <1>d, InsertSound
<1> HIDE DEF i
<1>1. \A e \in Essids : i.life[e] =
         IF e \in S THEN IF k.life[e] \in {"none", "dead"} THEN "new" ELSE "modified"
         ELSE IF k.life[e] \in {"none", "dead"} THEN "none" ELSE "dead"
  BY <1>c, <1>d, <1>i
<1>2. \A e \in S : e \in Essids /\ i.life[e] # "none"
  BY <1>1
<1>3. r = i \/ (\E e \in S : r = SetInfo(i, e)) \/ (\E e \in S : r = Connect(i, e))
  BY DEF Reported, i, d, c
<1>4. Sound(r) /\ r.life = i.life
  <2>1. CASE r = i
    BY <2>1, <1>i
  <2>2. ASSUME NEW e \in S, r = SetInfo(i, e) PROVE Sound(r) /\ r.life = i.life
    BY <2>2, <1>i, <1>2, SetInfoSound
  <2>3. ASSUME NEW e \in S, r = Connect(i, e) PROVE Sound(r) /\ r.life = i.life
    BY <2>3, <1>i, <1>2, ConnectSound
  <2> QED
    BY <1>3, <2>1, <2>2, <2>3
<1> QED
  BY <1>1, <1>4

LEMMA EmittedMatches ==
    ASSUME NEW k, Sound(k), NEW items \in [Essids -> Nat], Matches(k, items),
           NEW S \in SUBSET Essids, NEW r \in Reported(k, S)
    PROVE  Emitted(r, items) \in [Essids -> Nat] /\ Matches(r, Emitted(r, items))
<1>1. \A e \in Essids : r.life[e] =
         IF e \in S THEN IF k.life[e] \in {"none", "dead"} THEN "new" ELSE "modified"
         ELSE IF k.life[e] \in {"none", "dead"} THEN "none" ELSE "dead"
  BY ReportedSound
<1> SUFFICES ASSUME NEW e \in Essids
             PROVE  /\ Emitted(r, items)[e] \in Nat
                    /\ Emitted(r, items)[e] \in (IF e \in Live(r) THEN {0, 1} ELSE {0})
  BY DEF Emitted, Matches
<1>2. items[e] \in (IF k.life[e] \in {"new", "modified"} THEN {0, 1} ELSE {0})
  BY DEF Matches, Live
<1>3. k.life[e] \in Lives
  BY DEF Sound, Kept
<1>4. Emitted(r, items)[e] =
         CASE r.life[e] = "new" -> items[e] + 1
           [] r.life[e] = "dead" /\ items[e] > 0 -> items[e] - 1
           [] OTHER -> items[e]
  BY DEF Emitted
<1>5. CASE r.life[e] = "new"
  <2>1. items[e] = 0 /\ e \in Live(r)
    BY <1>1, <1>2, <1>5 DEF Live
  <2> QED
    BY <1>4, <1>5, <2>1
<1>6. CASE r.life[e] = "modified"
  <2>1. items[e] \in {0, 1} /\ e \in Live(r)
    BY <1>2, <1>6 DEF Live
  <2>2. Emitted(r, items)[e] = items[e]
    BY <1>4, <1>6
  <2> QED
    BY <2>1, <2>2
<1>7. CASE r.life[e] = "dead"
  <2>1. items[e] \in {0, 1} /\ e \notin Live(r)
    BY <1>2, <1>7 DEF Live
  <2>2. Emitted(r, items)[e] = IF items[e] > 0 THEN items[e] - 1 ELSE items[e]
    BY <1>4, <1>7
  <2> QED
    BY <2>1, <2>2
<1>8. CASE r.life[e] = "none"
  <2>1. items[e] = 0
    BY <1>1, <1>2, <1>3, <1>8 DEF Lives
  <2>2. Emitted(r, items)[e] = items[e]
    BY <1>4, <1>8
  <2> QED
    BY <2>1, <2>2
<1> QED
  BY <1>1, <1>5, <1>6, <1>7, <1>8

-----------------------------------------------------------------------------
(* The invariant.                                                          *)

\* The parts of the invariant that are about one NCU.
LEMMA PerNcu ==
    ASSUME TypeOK, ItemsOfLiveNetworks, OneTicked, NEW n \in Ncus
    PROVE  /\ Sound(wifi[n]) /\ Matches(wifi[n], menu[n])
           /\ menu[n] \in [Essids -> Nat]
  BY DEF TypeOK, ItemsOfLiveNetworks, OneTicked, Sound, Matches

\* One NCU's networks change, and perhaps its items.
LEMMA OneNcuChanges ==
    ASSUME TypeOK, ItemsOfLiveNetworks, OneTicked, NEW n \in ncus, NEW k, NEW items,
           wifi' = [wifi EXCEPT ![n] = k], menu' = [menu EXCEPT ![n] = items],
           Sound(k), items \in [Essids -> Nat], Matches(k, items),
           ncus' = ncus, active' \in [Ncus -> BOOLEAN], ghosts' = ghosts,
           tracked' = tracked
    PROVE  TypeOK' /\ ItemsOfLiveNetworks' /\ OneTicked'
<1>t. /\ ncus \subseteq Ncus /\ wifi \in [Ncus -> Kept] /\ n \in Ncus
      /\ menu \in [Ncus -> [Essids -> Nat]] /\ ghosts \in BOOLEAN /\ tracked \in BOOLEAN
      /\ \A m \in Ncus \ ncus : wifi[m] = Nothing
  BY DEF TypeOK
<1>1. \A m \in Ncus : Sound(wifi'[m]) /\ Matches(wifi'[m], menu'[m])
                        /\ menu'[m] \in [Essids -> Nat]
  <2> TAKE m \in Ncus
  <2>1. CASE m = n
    <3>1. wifi'[m] = k /\ menu'[m] = items
      BY <1>t, <2>1
    <3> QED
      BY <3>1
  <2>2. CASE m # n
    <3>1. wifi'[m] = wifi[m] /\ menu'[m] = menu[m]
      BY <1>t, <2>2
    <3> QED
      BY <3>1, PerNcu
  <2> QED
    BY <2>1, <2>2
<1>2. \A m \in Ncus \ ncus' : wifi'[m] = Nothing
  BY <1>t
<1>3. wifi' = [m \in Ncus |-> wifi'[m]] /\ menu' = [m \in Ncus |-> menu'[m]]
        /\ wifi' \in [Ncus -> Kept]
  BY <1>t, <1>1 DEF Sound
<1>4. TypeOK'
  BY <1>t, <1>1, <1>2, <1>3 DEF TypeOK, Sound
<1>5. ItemsOfLiveNetworks' /\ OneTicked'
  BY <1>1 DEF ItemsOfLiveNetworks, OneTicked, Sound, Matches
<1> QED
  BY <1>4, <1>5

LEMMA InitInvariant == Init => WifiInv
<1> SUFFICES ASSUME Init PROVE WifiInv
  OBVIOUS
<1>1. Nothing \in Kept /\ NoItems \in [Essids -> Nat]
  BY NothingSound DEF Sound, NoItems
<1>2. wifi = [n \in Ncus |-> Nothing] /\ menu = [n \in Ncus |-> NoItems]
  BY DEF Init
<1>3. TypeOK
  BY <1>1, <1>2, NothingSound DEF Init, TypeOK, Sound
<1>4. ItemsOfLiveNetworks
  BY <1>2 DEF ItemsOfLiveNetworks, NoItems
<1>5. OneTicked
  BY <1>2, NothingSound DEF OneTicked, Sound
<1>6. NoneWithoutWireless
  BY DEF Init, NoneWithoutWireless
<1> QED
  BY <1>3, <1>4, <1>5, <1>6 DEF WifiInv

LEMMA NextInvariant == WifiInv /\ [Next]_vars => WifiInv'
<1> SUFFICES ASSUME WifiInv, [Next]_vars PROVE WifiInv'
  OBVIOUS
<1>t. TypeOK /\ ItemsOfLiveNetworks /\ OneTicked /\ NoneWithoutWireless
  BY DEF WifiInv
<1>n. /\ ncus \subseteq Ncus /\ wifi \in [Ncus -> Kept] /\ active \in [Ncus -> BOOLEAN]
      /\ menu \in [Ncus -> [Essids -> Nat]] /\ ghosts \in BOOLEAN /\ tracked \in BOOLEAN
      /\ \A n \in Ncus \ ncus : wifi[n] = Nothing
  BY <1>t DEF TypeOK
<1>s. \A n \in Ncus : Sound(wifi[n]) /\ Matches(wifi[n], menu[n])
                        /\ menu[n] \in [Essids -> Nat]
  BY <1>t, PerNcu
<1>0. NoItems \in [Essids -> Nat] /\ \A k : Matches(k, NoItems)
  BY DEF NoItems, Matches
<1>1. ASSUME NEW n \in Ncus, HandleReport(n) PROVE WifiInv'
  <2> PICK S \in SUBSET Essids : \E k \in Reported(wifi[n], S) :
         /\ wifi' = [wifi EXCEPT ![n] = k]
         /\ menu' = [menu EXCEPT ![n] = Emitted(k, menu[n])]
    BY <1>1, <1>n DEF HandleReport
  <2> PICK k \in Reported(wifi[n], S) :
         /\ wifi' = [wifi EXCEPT ![n] = k]
         /\ menu' = [menu EXCEPT ![n] = Emitted(k, menu[n])]
    OBVIOUS
  <2>1. /\ n \in ncus /\ ncus' = ncus /\ active' = active /\ ghosts' = ghosts
        /\ tracked' = tracked
    BY <1>1 DEF HandleReport
  <2>2. Sound(k)
    BY <1>s, ReportedSound
  <2>3. Emitted(k, menu[n]) \in [Essids -> Nat] /\ Matches(k, Emitted(k, menu[n]))
    BY <1>s, EmittedMatches
  <2>5. TypeOK' /\ ItemsOfLiveNetworks' /\ OneTicked'
    BY <1>t, <1>n, <2>1, <2>2, <2>3, OneNcuChanges
  <2>6. NoneWithoutWireless'
    BY <1>t, <2>1 DEF NoneWithoutWireless
  <2> QED
    BY <2>5, <2>6 DEF WifiInv
<1>2. ASSUME NEW n \in Ncus, n \in ncus, NEW k, Sound(k),
             wifi' = [wifi EXCEPT ![n] = k], Live(wifi[n]) \subseteq Live(k),
             UNCHANGED <<ncus, menuVars, tracked>>, active' \in [Ncus -> BOOLEAN]
      PROVE  WifiInv'
  <2>1. menu' = [menu EXCEPT ![n] = menu[n]] /\ ghosts' = ghosts
    BY <1>2, <1>n DEF menuVars
  <2>2. Matches(k, menu[n])
    BY <1>2, <1>s DEF Matches
  <2>3. TypeOK' /\ ItemsOfLiveNetworks' /\ OneTicked'
    BY <1>t, <1>s, <1>2, <2>1, <2>2, OneNcuChanges
  <2>4. NoneWithoutWireless'
    BY <1>t, <1>2 DEF NoneWithoutWireless, menuVars
  <2> QED
    BY <2>3, <2>4 DEF WifiInv
<1>i. ASSUME NEW n \in Ncus, NEW e \in Essids
      PROVE  /\ Sound(Insert(wifi[n], {e})) /\ Insert(wifi[n], {e}).life[e] # "none"
             /\ Live(wifi[n]) \subseteq Live(Insert(wifi[n], {e}))
  <2> DEFINE k == Insert(wifi[n], {e})
  <2>1. Sound(k) /\ \A x \in Essids : k.life[x] =
           IF x \notin {e} THEN wifi[n].life[x]
           ELSE IF wifi[n].life[x] \in {"none", "new"} THEN "new" ELSE "modified"
    BY <1>s, InsertSound
  <2> HIDE DEF k
  <2>2. k.life[e] # "none" /\ Live(wifi[n]) \subseteq Live(k)
    BY <2>1 DEF Live
  <2> QED
    BY <2>1, <2>2 DEF k
<1>3. ASSUME NEW n \in Ncus, HandleConnection(n) PROVE WifiInv'
  <2> PICK e \in Essids :
         wifi' \in {[wifi EXCEPT ![n] = Connect(Insert(wifi[n], {e}), e)],
                    [wifi EXCEPT ![n] = [Insert(wifi[n], {e}) EXCEPT !.connected = @ \ {e}]]}
    BY <1>3 DEF HandleConnection
  <2> DEFINE k == Insert(wifi[n], {e})
  <2>1. Sound(k) /\ k.life[e] # "none" /\ Live(wifi[n]) \subseteq Live(k)
    BY <1>i
  <2>2. n \in ncus /\ UNCHANGED <<ncus, active, menuVars, tracked>>
    BY <1>3 DEF HandleConnection
  <2>f. wifi' = [wifi EXCEPT ![n] = Connect(k, e)]
          \/ wifi' = [wifi EXCEPT ![n] = [k EXCEPT !.connected = @ \ {e}]]
    OBVIOUS
  <2> HIDE DEF k
  <2>3. Sound(Connect(k, e)) /\ Connect(k, e).life = k.life
    BY <2>1, ConnectSound
  <2>4. Sound([k EXCEPT !.connected = @ \ {e}])
          /\ [k EXCEPT !.connected = @ \ {e}].life = k.life
    BY <2>1, FailSound
  <2>5. CASE wifi' = [wifi EXCEPT ![n] = Connect(k, e)]
    <3>1. Live(wifi[n]) \subseteq Live(Connect(k, e))
      BY <2>1, <2>3 DEF Live
    <3> QED
      BY <1>2, <1>n, <2>2, <2>3, <2>5, <3>1
  <2>6. CASE wifi' = [wifi EXCEPT ![n] = [k EXCEPT !.connected = @ \ {e}]]
    <3>1. Live(wifi[n]) \subseteq Live([k EXCEPT !.connected = @ \ {e}])
      BY <2>1, <2>4 DEF Live
    <3> QED
      BY <1>2, <1>n, <2>2, <2>4, <2>6, <3>1
  <2> QED
    BY <2>f, <2>5, <2>6
<1>4. ASSUME NEW n \in Ncus, HandleNeedKey(n) PROVE WifiInv'
  <2> PICK e \in Essids : wifi' = [wifi EXCEPT ![n] = SetInfo(Insert(wifi[n], {e}), e)]
    BY <1>4 DEF HandleNeedKey
  <2> DEFINE k == Insert(wifi[n], {e})
  <2>1. Sound(k) /\ k.life[e] # "none" /\ Live(wifi[n]) \subseteq Live(k)
    BY <1>i
  <2>2. n \in ncus /\ UNCHANGED <<ncus, active, menuVars, tracked>>
    BY <1>4 DEF HandleNeedKey
  <2>3. wifi' = [wifi EXCEPT ![n] = SetInfo(k, e)]
    BY <1>n
  <2> HIDE DEF k
  <2>4. Sound(SetInfo(k, e)) /\ SetInfo(k, e).life = k.life
    BY <2>1, SetInfoSound
  <2>5. Live(wifi[n]) \subseteq Live(SetInfo(k, e))
    BY <2>1, <2>4 DEF Live
  <2> QED
    BY <1>2, <1>n, <2>2, <2>3, <2>4, <2>5
<1>5. ASSUME NEW n \in Ncus, ActiveChanges(n) PROVE WifiInv'
  <2> DEFINE i == wifi[n].info
  <2>1. n \in ncus /\ UNCHANGED <<ncus, menuVars, tracked>> /\ active' \in [Ncus -> BOOLEAN]
    BY <1>5, <1>n DEF ActiveChanges
  <2>2. CASE i \notin Essids
    <3>1. wifi' = [wifi EXCEPT ![n] = wifi[n]]
      BY <1>5, <1>n, <2>2 DEF ActiveChanges
    <3> QED
      BY <1>2, <1>s, <2>1, <3>1
  <2>3. CASE i \in Essids /\ active'[n]
    <3> DEFINE k == [wifi[n] EXCEPT !.connected = @ \cup {i}]
    <3>1. wifi' = [wifi EXCEPT ![n] = k]
      BY <1>5, <1>n, <2>3 DEF ActiveChanges
    <3>2. wifi[n] \in Kept /\ k.life = wifi[n].life /\ k.info = wifi[n].info
            /\ k.connected = wifi[n].connected \cup {i} /\ k \in Kept
      BY <1>n, <2>3 DEF Kept
    <3> HIDE DEF k
    <3>3. Sound(k) /\ Live(wifi[n]) \subseteq Live(k)
      BY <1>s, <2>3, <3>2 DEF Sound, Live
    <3> QED
      BY <1>2, <2>1, <3>1, <3>3
  <2>4. CASE i \in Essids /\ ~active'[n]
    <3> DEFINE k == [wifi[n] EXCEPT !.connected = @ \ {i}]
    <3>1. wifi' = [wifi EXCEPT ![n] = k]
      BY <1>5, <1>n, <2>4 DEF ActiveChanges
    <3>2. Sound(k) /\ k.life = wifi[n].life
      BY <1>s, <2>4, FailSound
    <3> HIDE DEF k
    <3>3. Live(wifi[n]) \subseteq Live(k)
      BY <3>2 DEF Live
    <3> QED
      BY <1>2, <2>1, <3>1, <3>2, <3>3
  <2> QED
    BY <2>2, <2>3, <2>4
<1>j. ASSUME NEW n \in Ncus, Joined(n) PROVE WifiInv'
  <2> PICK e \in {Gone} \cup {x \in Essids : wifi[n].life[x] # "none"} :
         wifi' = [wifi EXCEPT ![n] = SetInfo(wifi[n], e)]
    BY <1>j, <1>n DEF Joined
  <2>1. n \in ncus /\ UNCHANGED <<ncus, active, menuVars, tracked>>
    BY <1>j DEF Joined
  <2>2. Sound(SetInfo(wifi[n], e)) /\ SetInfo(wifi[n], e).life = wifi[n].life
    BY <1>s, NamesAssumption, SetInfoSound
  <2>3. Live(wifi[n]) \subseteq Live(SetInfo(wifi[n], e))
    BY <2>2 DEF Live
  <2> QED
    BY <1>2, <1>n, <2>1, <2>2, <2>3
<1>6. ASSUME NEW n \in Ncus, NcuAdded(n) PROVE WifiInv'
  BY <1>t, <1>6
  DEF NcuAdded, menuVars, WifiInv, TypeOK, ItemsOfLiveNetworks, OneTicked,
      NoneWithoutWireless
<1>7. ASSUME NEW n \in Ncus, NcuRemoved(n) PROVE WifiInv'
  <2>1. /\ ncus' = ncus \ {n} /\ wifi' = [wifi EXCEPT ![n] = Nothing]
        /\ active' \in [Ncus -> BOOLEAN] /\ tracked' = tracked
    BY <1>7, <1>n DEF NcuRemoved
  <2>2. \A m \in Ncus : (m = n => wifi'[m] = Nothing) /\ (m # n => wifi'[m] = wifi[m])
    BY <2>1, <1>n
  <2>3. wifi' \in [Ncus -> Kept]
    BY <2>1, <1>n, NothingSound DEF Sound
  <2>4. /\ menu' \in [Ncus -> [Essids -> Nat]] /\ ghosts' \in BOOLEAN
        /\ \A m \in Ncus : menu'[m] = NoItems \/ (m # n /\ menu'[m] = menu[m])
    <3>1. CASE SectionEmptied(ncus')
      BY <1>7, <1>0, <3>1 DEF NcuRemoved
    <3>2. CASE ~SectionEmptied(ncus')
      BY <1>7, <1>0, <1>n, <3>2 DEF NcuRemoved
    <3> QED
      BY <3>1, <3>2
  <2>5. TypeOK'
    BY <1>t, <1>n, <2>1, <2>2, <2>3, <2>4, NothingSound DEF TypeOK, Sound
  <2>6. ItemsOfLiveNetworks'
    <3> SUFFICES ASSUME NEW m \in Ncus PROVE Matches(wifi'[m], menu'[m])
      BY DEF ItemsOfLiveNetworks, Matches
    <3> QED
      BY <1>0, <1>s, <2>2, <2>4
  <2>7. OneTicked'
    BY <1>t, <2>2, NothingSound DEF OneTicked, Sound
  <2>8. NoneWithoutWireless'
    BY <1>7, <2>1 DEF NcuRemoved, NoneWithoutWireless, SectionEmptied
  <2> QED
    BY <2>5, <2>6, <2>7, <2>8 DEF WifiInv
<1>8. ASSUME NcpLost PROVE WifiInv'
  <2>1. /\ UNCHANGED <<ncus, wifi, active>> /\ tracked' = FALSE /\ ghosts' = FALSE
        /\ menu' = [m \in Ncus |-> NoItems]
    BY <1>8 DEF NcpLost
  <2>2. TypeOK'
    BY <1>t, <1>0, <2>1 DEF TypeOK
  <2>3. ItemsOfLiveNetworks'
    BY <2>1 DEF ItemsOfLiveNetworks, NoItems
  <2>4. OneTicked' /\ NoneWithoutWireless'
    BY <1>t, <2>1 DEF OneTicked, NoneWithoutWireless
  <2> QED
    BY <2>2, <2>3, <2>4 DEF WifiInv
<1>9. ASSUME NcpShown PROVE WifiInv'
  <2>1. /\ UNCHANGED <<ncus, wifi, active>> /\ tracked' = TRUE /\ ghosts' = FALSE
        /\ menu' = [n \in Ncus |-> [e \in Essids |-> IF e \in Live(wifi[n]) THEN 1 ELSE 0]]
    BY <1>9 DEF NcpShown
  <2>2. TypeOK'
    BY <1>t, <2>1 DEF TypeOK
  <2>3. ItemsOfLiveNetworks'
    BY <2>1 DEF ItemsOfLiveNetworks
  <2>4. OneTicked' /\ NoneWithoutWireless'
    BY <1>t, <2>1 DEF OneTicked, NoneWithoutWireless
  <2> QED
    BY <2>2, <2>3, <2>4 DEF WifiInv
<1>10. CASE UNCHANGED vars
  BY <1>t, <1>10
  DEF vars, WifiInv, TypeOK, ItemsOfLiveNetworks, OneTicked, NoneWithoutWireless
<1> QED
  BY <1>1, <1>3, <1>4, <1>5, <1>j, <1>6, <1>7, <1>8, <1>9, <1>10 DEF Next

LEMMA Invariant == Spec => []WifiInv
  BY InitInvariant, NextInvariant, PTL DEF Spec

-----------------------------------------------------------------------------
\* The variables keep their types, for any NCUs and networks.
THEOREM TypeCorrect == Spec => []TypeOK
<1>1. WifiInv => TypeOK
  BY DEF WifiInv
<1> QED
  BY <1>1, Invariant, PTL

\* No network is in the menu twice, and the items are of networks their NCU still
\* knows of, for any number of NCUs and networks and any order of nwamd's answers.
THEOREM ItemsLive == Spec => []ItemsOfLiveNetworks
<1>1. WifiInv => ItemsOfLiveNetworks
  BY DEF WifiInv
<1> QED
  BY <1>1, Invariant, PTL

\* No NCU has two networks ticked, and the one that is, is its wifi_info.
THEOREM Ticked == Spec => []OneTicked
<1>1. WifiInv => OneTicked
  BY DEF WifiInv
<1> QED
  BY <1>1, Invariant, PTL

\* With the last wireless NCU the menu loses what others have left there.
THEOREM Emptied == Spec => []NoneWithoutWireless
<1>1. WifiInv => NoneWithoutWireless
  BY DEF WifiInv
<1> QED
  BY <1>1, Invariant, PTL

\* What a report leaves in the menu of its NCU, for any report and any menu.
THEOREM Shown == Spec => ReportShown
<1>1. ASSUME WifiInv, NEW n \in Ncus, HandleReport(n)
      PROVE  {e \in Essids : menu'[n][e] > 0} =
                Live(wifi'[n]) \cap ({e \in Essids : menu[n][e] > 0} \cup
                                     {e \in Essids : wifi[n].life[e] \in {"none", "dead"}})
  <2>t. TypeOK /\ ItemsOfLiveNetworks /\ OneTicked
    BY <1>1 DEF WifiInv
  <2>n. wifi \in [Ncus -> Kept] /\ menu \in [Ncus -> [Essids -> Nat]]
    BY <2>t DEF TypeOK
  <2>s. Sound(wifi[n]) /\ Matches(wifi[n], menu[n]) /\ menu[n] \in [Essids -> Nat]
    BY <2>t, PerNcu
  <2> PICK S \in SUBSET Essids : \E k \in Reported(wifi[n], S) :
         /\ wifi' = [wifi EXCEPT ![n] = k]
         /\ menu' = [menu EXCEPT ![n] = Emitted(k, menu[n])]
    BY <1>1, <2>n DEF HandleReport
  <2> PICK k \in Reported(wifi[n], S) :
         /\ wifi' = [wifi EXCEPT ![n] = k]
         /\ menu' = [menu EXCEPT ![n] = Emitted(k, menu[n])]
    OBVIOUS
  <2>1. wifi'[n] = k /\ menu'[n] = Emitted(k, menu[n])
    BY <2>n
  <2>2. \A e \in Essids : k.life[e] =
           IF e \in S THEN IF wifi[n].life[e] \in {"none", "dead"} THEN "new" ELSE "modified"
           ELSE IF wifi[n].life[e] \in {"none", "dead"} THEN "none" ELSE "dead"
    BY <2>s, ReportedSound
  <2>3. Matches(k, Emitted(k, menu[n]))
    BY <2>s, EmittedMatches
  <2> SUFFICES ASSUME NEW e \in Essids
               PROVE  Emitted(k, menu[n])[e] > 0 <=>
                        /\ e \in Live(k)
                        /\ menu[n][e] > 0 \/ wifi[n].life[e] \in {"none", "dead"}
    BY <2>1 DEF Live
  <2>4. menu[n][e] \in Nat
    BY <2>s
  <2>5. Emitted(k, menu[n])[e] =
           CASE k.life[e] = "new" -> menu[n][e] + 1
             [] k.life[e] = "dead" /\ menu[n][e] > 0 -> menu[n][e] - 1
             [] OTHER -> menu[n][e]
    BY DEF Emitted
  <2>6. CASE e \in S /\ wifi[n].life[e] \in {"none", "dead"}
    <3>1. k.life[e] = "new"
      BY <2>2, <2>6
    <3> QED
      BY <2>4, <2>5, <2>6, <3>1 DEF Live
  <2>7. CASE e \in S /\ wifi[n].life[e] \notin {"none", "dead"}
    <3>1. k.life[e] = "modified"
      BY <2>2, <2>7
    <3>2. Emitted(k, menu[n])[e] = menu[n][e] /\ e \in Live(k)
      BY <2>5, <3>1 DEF Live
    <3> QED
      BY <2>7, <3>2
  <2>8. CASE e \notin S
    <3>1. e \notin Live(k)
      BY <2>2, <2>8 DEF Live
    <3>2. Emitted(k, menu[n])[e] = 0
      BY <2>3, <3>1 DEF Matches
    <3> QED
      BY <3>1, <3>2
  <2> QED
    BY <2>6, <2>7, <2>8
<1>2. WifiInv /\ [Next]_vars =>
        [\A n \in Ncus : wifi'[n] # wifi[n] /\ HandleReport(n) =>
           LET reported == Live(wifi'[n])
               known   == {e \in Essids : menu[n][e] > 0}
               unknown == {e \in Essids : wifi[n].life[e] \in {"none", "dead"}}
           IN  {e \in Essids : menu'[n][e] > 0} = reported \cap (known \cup unknown)]_vars
  BY <1>1
<1> QED
  BY <1>2, Invariant, PTL DEF Spec, ReportShown

-----------------------------------------------------------------------------
(* The dialog for wireless networks (WirelessChooser).                       *)

ChooserInv == WifiInv /\ ChooserTells

\* The NCUs of the chooser's steps take steps of WifiNetworks.
LEMMA ChooserStep1 ==
    ASSUME [ChooserNext]_chooserVars
    PROVE  [Next]_vars
<1>1. CASE UNCHANGED chooserVars
  BY <1>1 DEF chooserVars
<1>2. ASSUME NEW n \in Ncus, Report(n) \/ NeedChoice(n) \/ Unannounced(n) \/ Removed(n)
      PROVE  Next
  <2>1. \/ HandleReport(n) \/ HandleConnection(n) \/ HandleNeedKey(n) \/ Joined(n)
        \/ ActiveChanges(n) \/ NcuAdded(n) \/ NcuRemoved(n)
    BY <1>2, Zenon DEF Report, NeedChoice, Unannounced, Removed
  <2> QED
    BY <2>1 DEF Next
<1>3. CASE NcpChanges
  BY <1>3 DEF NcpChanges, Next
<1>4. CASE Connected \/ NcpAgain \/ Select \/ Ok \/ Cancel
  <2>1. UNCHANGED vars
    BY <1>4, Zenon DEF Connected, NcpAgain, Select, Ok, Cancel, Hidden
  <2> QED
    BY <2>1
<1> QED
  BY <1>1, <1>2, <1>3, <1>4 DEF ChooserNext

\* A list made anew is right.
LEMMA ListedTells ==
    ASSUME WifiInv', Listed
    PROVE  ChooserTells'
<1>1. /\ rows' = {r \in ncus' \X Essids : r[2] \in Live(wifi'[r[1]])}
      /\ selected' = None
  BY DEF Listed
<1>2. ASSUME NEW n \in Ncus, NEW e \in Essids
      PROVE  (<<n, e>> \in rows') <=> (n \in ncus' /\ e \in Live(wifi'[n]))
  BY <1>1
<1>3. ASSUME NEW n \in Ncus, NEW e \in Essids, menu'[n][e] > 0
      PROVE  n \in ncus' /\ e \in Live(wifi'[n])
  <2>1. menu'[n][e] \in (IF e \in Live(wifi'[n]) THEN {0, 1} ELSE {0})
    BY DEF WifiInv, ItemsOfLiveNetworks
  <2>2. e \in Live(wifi'[n])
    BY <2>1, <1>3
  <2>3. n \notin ncus' => wifi'[n] = Nothing
    BY DEF WifiInv, TypeOK
  <2>4. Live(Nothing) = {}
    BY DEF Live, Nothing
  <2> QED
    BY <2>2, <2>3, <2>4
<1> QED
  BY <1>1, <1>2, <1>3 DEF ChooserTells

\* The networks a report leaves in the hash of its NCU.
LEMMA ReportLives ==
    ASSUME WifiInv, NEW n \in Ncus, HandleReport(n)
    PROVE  /\ n \in ncus /\ ncus' = ncus
           /\ \A m \in Ncus : m # n => wifi'[m] = wifi[m] /\ menu'[m] = menu[m]
           /\ \A e \in Essids :
                 /\ e \in Live(wifi[n]) => wifi'[n].life[e] \in {"modified", "dead"}
                 /\ e \notin Live(wifi[n]) => wifi'[n].life[e] \in {"new", "none"}
                 /\ menu'[n][e] > 0 /\ wifi'[n].life[e] # "new" =>
                       menu[n][e] > 0 /\ wifi'[n].life[e] = "modified"
<1>1. PICK S \in SUBSET Essids : \E k \in Reported(wifi[n], S) :
         wifi' = [wifi EXCEPT ![n] = k] /\ menu' = [menu EXCEPT ![n] = Emitted(k, menu[n])]
  BY DEF HandleReport
<1>k. PICK k \in Reported(wifi[n], S) :
         wifi' = [wifi EXCEPT ![n] = k] /\ menu' = [menu EXCEPT ![n] = Emitted(k, menu[n])]
  BY <1>1
<1>2. /\ wifi \in [Ncus -> Kept] /\ menu \in [Ncus -> [Essids -> Nat]]
      /\ Sound(wifi[n]) /\ Matches(wifi[n], menu[n])
  BY PerNcu DEF WifiInv, TypeOK
<1>3. \A e \in Essids : k.life[e] =
         IF e \in S THEN IF wifi[n].life[e] \in {"none", "dead"} THEN "new" ELSE "modified"
         ELSE IF wifi[n].life[e] \in {"none", "dead"} THEN "none" ELSE "dead"
  BY <1>2, ReportedSound
<1>4. \A e \in Essids : wifi[n].life[e] \in Lives
  BY <1>2 DEF Kept
<1>5. wifi'[n] = k /\ menu'[n] = Emitted(k, menu[n])
      /\ \A m \in Ncus : m # n => wifi'[m] = wifi[m] /\ menu'[m] = menu[m]
  BY <1>k, <1>2
<1>6. ASSUME NEW e \in Essids
      PROVE  /\ e \in Live(wifi[n]) => k.life[e] \in {"modified", "dead"}
             /\ e \notin Live(wifi[n]) => k.life[e] \in {"new", "none"}
  BY <1>3, <1>4 DEF Live, Lives
<1>7. ASSUME NEW e \in Essids, Emitted(k, menu[n])[e] > 0, k.life[e] # "new"
      PROVE  menu[n][e] > 0 /\ k.life[e] = "modified"
  <2>1. Emitted(k, menu[n])[e] = IF k.life[e] = "dead" /\ menu[n][e] > 0 THEN menu[n][e] - 1
                                 ELSE menu[n][e]
    BY <1>7 DEF Emitted
  <2>2. menu[n][e] \in (IF e \in Live(wifi[n]) THEN {0, 1} ELSE {0})
    BY <1>2 DEF Matches
  <2> QED
    BY <2>1, <2>2, <1>6, <1>7
<1> QED
  BY <1>5, <1>6, <1>7 DEF HandleReport

\* A list that follows a report stays right.
LEMMA FollowsTells ==
    ASSUME WifiInv, ChooserTells, NEW n \in Ncus, HandleReport(n), Follows(n), window # "none",
           window' # "none"
    PROVE  ChooserTells'
<1>1. /\ rows' = (rows \cup Announced(n, {"new"})) \ Announced(n, {"dead"})
      /\ selected' = IF selected \in rows \ rows' THEN None ELSE selected
      /\ orphans' = orphans
  BY DEF Follows, RowsTold
<1>2. ASSUME NEW m \in Ncus, NEW e \in Essids
      PROVE  /\ <<m, e>> \in Announced(n, {"new"}) <=> m = n /\ wifi'[n].life[e] = "new"
             /\ <<m, e>> \in Announced(n, {"dead"}) <=> m = n /\ wifi'[n].life[e] = "dead"
  BY DEF Announced
<1>3. ASSUME NEW m \in Ncus, NEW e \in Essids
      PROVE  /\ menu'[m][e] > 0 => <<m, e>> \in rows'
             /\ <<m, e>> \in rows' => m \in ncus' /\ e \in Live(wifi'[m])
  <2>1. /\ menu[m][e] > 0 => <<m, e>> \in rows
        /\ <<m, e>> \in rows => m \in ncus /\ e \in Live(wifi[m])
    BY DEF ChooserTells
  <2>2. CASE m # n
    BY <2>1, <2>2, <1>1, <1>2, ReportLives
  <2>3. CASE m = n
    <3>1. /\ n \in ncus'
          /\ <<n, e>> \in rows => e \in Live(wifi[n])
          /\ menu[n][e] > 0 => <<n, e>> \in rows
      BY <2>1, <2>3, ReportLives
    <3>2. /\ e \in Live(wifi[n]) => wifi'[n].life[e] \in {"modified", "dead"}
          /\ e \notin Live(wifi[n]) => wifi'[n].life[e] \in {"new", "none"}
          /\ menu'[n][e] > 0 /\ wifi'[n].life[e] # "new" =>
                menu[n][e] > 0 /\ wifi'[n].life[e] = "modified"
      BY ReportLives
    <3>3. <<n, e>> \in rows' <=>
             (<<n, e>> \in rows \/ wifi'[n].life[e] = "new") /\ wifi'[n].life[e] # "dead"
      BY <1>1, <1>2
    <3>4. menu'[n][e] > 0 => <<n, e>> \in rows'
      BY <3>1, <3>2, <3>3
    <3>5. <<n, e>> \in rows' => wifi'[n].life[e] \in {"new", "modified"}
      BY <3>1, <3>2, <3>3
    <3>6. <<n, e>> \in rows' => e \in Live(wifi'[n])
      BY <3>5 DEF Live
    <3> QED
      BY <2>3, <3>1, <3>4, <3>6, Zenon
  <2> QED
    BY <2>2, <2>3
<1>4. selected' \in rows' \cup {None} \cup (IF orphans' THEN {Orphan} ELSE {})
  BY <1>1 DEF ChooserTells
<1> QED
  BY <1>3, <1>4 DEF ChooserTells

\* What is not announced loses no network and adds no item.
LEMMA UnannouncedTells ==
    ASSUME WifiInv, ChooserTells, NEW n \in Ncus, Unannounced(n)
    PROVE  ChooserTells'
<1>1. /\ window' = window /\ rows' = rows /\ selected' = selected /\ orphans' = orphans
      /\ ncus \subseteq ncus' /\ menu' = menu
  BY DEF Unannounced, dialogVars, listVars, HandleConnection, HandleNeedKey, Joined, ActiveChanges,
         NcuAdded, menuVars
<1>t. /\ wifi \in [Ncus -> Kept] /\ Sound(wifi[n])
  BY PerNcu DEF WifiInv, TypeOK
<1>2. /\ \A m \in Ncus : m # n => wifi'[m] = wifi[m]
      /\ \A e \in Live(wifi[n]) : e \in Live(wifi'[n])
  <2>1. CASE HandleConnection(n)
    <3>1. PICK e \in Essids :
             LET k == Insert(wifi[n], {e})
             IN  wifi' \in {[wifi EXCEPT ![n] = Connect(k, e)],
                            [wifi EXCEPT ![n] = [k EXCEPT !.connected = @ \ {e}]]}
      BY <2>1 DEF HandleConnection
    <3> DEFINE k == Insert(wifi[n], {e})
    <3>2. /\ Sound(k)
          /\ \A x \in Essids : k.life[x] =
                IF x \notin {e} THEN wifi[n].life[x]
                ELSE IF wifi[n].life[x] \in {"none", "new"} THEN "new" ELSE "modified"
      BY <1>t, InsertSound
    <3>3. k.life[e] # "none"
      BY <3>2
    <3> HIDE DEF k
    <3>4. Connect(k, e).life = k.life /\ [k EXCEPT !.connected = @ \ {e}].life = k.life
      BY <3>2, <3>3, ConnectSound, FailSound
    <3>5. /\ \A m \in Ncus : m # n => wifi'[m] = wifi[m]
          /\ wifi'[n].life = k.life
      BY <1>t, <3>1, <3>4 DEF k
    <3> QED
      BY <3>2, <3>5 DEF Live
  <2>2. CASE HandleNeedKey(n)
    <3>1. PICK e \in Essids : wifi' = [wifi EXCEPT ![n] = SetInfo(Insert(@, {e}), e)]
      BY <2>2 DEF HandleNeedKey
    <3> DEFINE k == Insert(wifi[n], {e})
    <3>2. /\ Sound(k)
          /\ \A x \in Essids : k.life[x] =
                IF x \notin {e} THEN wifi[n].life[x]
                ELSE IF wifi[n].life[x] \in {"none", "new"} THEN "new" ELSE "modified"
      BY <1>t, InsertSound
    <3> HIDE DEF k
    <3>3. SetInfo(k, e).life = k.life
      BY <3>2 DEF SetInfo, Sound, Kept
    <3>4. /\ \A m \in Ncus : m # n => wifi'[m] = wifi[m]
          /\ wifi'[n].life = k.life
      BY <1>t, <3>1, <3>3 DEF k
    <3> QED
      BY <3>2, <3>4 DEF Live
  <2>3. CASE Joined(n)
    <3>1. PICK e : wifi' = [wifi EXCEPT ![n] = SetInfo(@, e)]
      BY <2>3 DEF Joined
    <3>2. SetInfo(wifi[n], e).life = wifi[n].life
      BY <1>t DEF SetInfo, Kept
    <3> QED
      BY <1>t, <3>1, <3>2 DEF Live
  <2>4. CASE ActiveChanges(n)
    <3>1. \/ wifi' = wifi
          \/ wifi' = [wifi EXCEPT ![n].connected = @ \cup {wifi[n].info}]
          \/ wifi' = [wifi EXCEPT ![n].connected = @ \ {wifi[n].info}]
      BY <2>4 DEF ActiveChanges
    <3>2. wifi'[n].life = wifi[n].life /\ \A m \in Ncus : m # n => wifi'[m] = wifi[m]
      BY <1>t, <3>1 DEF Kept
    <3> QED
      BY <3>2 DEF Live
  <2>5. CASE NcuAdded(n)
    BY <2>5 DEF NcuAdded
  <2> QED
    BY <2>1, <2>2, <2>3, <2>4, <2>5 DEF Unannounced
<1>3. \A m \in Ncus : \A e \in Live(wifi[m]) : e \in Live(wifi'[m])
  BY <1>2
<1> QED
  BY <1>1, <1>3 DEF ChooserTells

\* The rows of an NCU go with it, and its items too.
LEMMA RemovedTells ==
    ASSUME WifiInv, ChooserTells, NEW n \in Ncus, Removed(n)
    PROVE  ChooserTells'
<1> DEFINE left == rows \cap ({n} \X Essids)
<1>1. /\ rows' = rows \ left /\ window' = window
      /\ orphans' = (orphans \/ left # {})
      /\ selected' = IF selected \in left THEN Orphan ELSE selected
      /\ NcuRemoved(n)
  BY DEF Removed, dialogVars
<1>2. /\ ncus' = ncus \ {n} /\ wifi' = [wifi EXCEPT ![n] = Nothing]
      /\ menu' = [m \in Ncus |-> NoItems] \/ menu' = [menu EXCEPT ![n] = NoItems]
      /\ menu \in [Ncus -> [Essids -> Nat]] /\ wifi \in [Ncus -> Kept]
  BY <1>1 DEF NcuRemoved, WifiInv, TypeOK
<1>3. ASSUME NEW m \in Ncus, NEW e \in Essids, window # "none"
      PROVE  /\ menu'[m][e] > 0 => <<m, e>> \in rows'
             /\ <<m, e>> \in rows' => m \in ncus' /\ e \in Live(wifi'[m])
  <2>1. /\ menu[m][e] > 0 => <<m, e>> \in rows
        /\ <<m, e>> \in rows => m \in ncus /\ e \in Live(wifi[m])
    BY <1>3 DEF ChooserTells
  <2>2. NoItems[e] = 0
    BY DEF NoItems
  <2>3. CASE m = n
    <3>1. menu'[m] = NoItems /\ <<m, e>> \notin rows'
      BY <1>1, <1>2, <2>3
    <3> QED
      BY <3>1, <2>2
  <2>4. CASE m # n
    <3>1. /\ menu'[m] = NoItems \/ menu'[m] = menu[m]
          /\ wifi'[m] = wifi[m] /\ (<<m, e>> \in rows' <=> <<m, e>> \in rows)
          /\ (m \in ncus' <=> m \in ncus)
      BY <1>1, <1>2, <2>4
    <3> QED
      BY <2>1, <2>2, <3>1
  <2> QED
    BY <2>3, <2>4
<1>4. window # "none" =>
         selected' \in rows' \cup {None} \cup (IF orphans' THEN {Orphan} ELSE {})
  BY <1>1 DEF ChooserTells
<1> QED
  BY <1>1, <1>3, <1>4 DEF ChooserTells

LEMMA ChooserKeeps ==
    ASSUME ChooserInv, [ChooserNext]_chooserVars
    PROVE  ChooserInv'
<1>0. WifiInv /\ WifiInv' /\ ChooserTells
  BY ChooserStep1, NextInvariant DEF ChooserInv
<1>1. CASE UNCHANGED chooserVars
  BY <1>0, <1>1 DEF ChooserInv, ChooserTells, chooserVars, vars, dialogVars, listVars
<1>2. ASSUME NEW n \in Ncus, Report(n) PROVE ChooserTells'
  <2>1. HandleReport(n) /\ Follows(n) /\ window' = window
    BY <1>2 DEF Report, dialogVars
  <2> QED
    BY <1>0, <2>1, FollowsTells DEF ChooserTells
<1>3. ASSUME NEW n \in Ncus, NeedChoice(n) PROVE ChooserTells'
  <2>1. CASE HandleReport(n) /\ Follows(n) /\ window' = window
    BY <1>0, <2>1, FollowsTells DEF ChooserTells
  <2>2. CASE Presented
    BY <1>0, <2>2, ListedTells DEF Presented
  <2> QED
    BY <1>3, <2>1, <2>2 DEF NeedChoice, dialogVars
<1>4. ASSUME NEW n \in Ncus, Unannounced(n) \/ Removed(n) PROVE ChooserTells'
  BY <1>0, <1>4, UnannouncedTells, RemovedTells
<1>5. ASSUME NcpChanges \/ NcpAgain PROVE ChooserTells'
  <2>1. window' = window /\ Relisted
    BY <1>5, Zenon DEF NcpChanges, NcpAgain, dialogVars
  <2>2. CASE window = "none"
    BY <2>1, <2>2, Zenon DEF ChooserTells
  <2>3. CASE window # "none"
    <3>1. Listed
      BY <2>1, <2>3 DEF Relisted
    <3> QED
      BY <1>0, <3>1, ListedTells
  <2> QED
    BY <2>2, <2>3
<1>6. ASSUME Connected \/ Ok \/ Cancel PROVE ChooserTells'
  BY <1>0, <1>6
  DEF Connected, Ok, Cancel, Hidden, ChooserTells, vars, listVars
<1>7. ASSUME Select PROVE ChooserTells'
  <2>1. /\ UNCHANGED <<window, rows, orphans, menu, ncus, wifi>>
        /\ selected' \in rows \cup (IF orphans THEN {Orphan} ELSE {})
    BY <1>7 DEF Select, vars, dialogVars
  <2>2. selected' \in rows' \cup {None} \cup (IF orphans' THEN {Orphan} ELSE {})
    BY <2>1
  <2> QED
    BY <1>0, <2>1, <2>2, Zenon DEF ChooserTells
<1> QED
  BY <1>0, <1>1, <1>2, <1>3, <1>4, <1>5, <1>6, <1>7 DEF ChooserNext, ChooserInv

LEMMA ChooserStarts ==
    ASSUME ChooserInit
    PROVE  ChooserInv
<1>1. WifiInv
  BY InitInvariant DEF ChooserInit
<1>2. window = "none" /\ rows = {} /\ orphans = FALSE /\ selected = None
  BY DEF ChooserInit
<1> QED
  BY <1>1, <1>2 DEF ChooserInv, ChooserTells

-----------------------------------------------------------------------------
(* The status page (StatusPage).                                             *)

\* What the page needs of its state: types, and that only rows of connections
\* there are can be out of date.
StatusInv ==
    /\ Status!RowsFollow
    /\ links \in [DOMAIN links -> Status!Settings]
    /\ groups \in [StatusNcps -> Groups] /\ activeNcp \in StatusNcps
    /\ stale \subseteq DOMAIN links

\* A row whose connection tells of itself is right, and no other one changes.
LEMMA RowRefiltered ==
    ASSUME NEW n, NEW s \in Status!Settings
    PROVE  /\ (n \in Status!Refiltered(n, s)) = Status!InUse(s, activeNcp, groups)
           /\ \A m : m # n => (m \in Status!Refiltered(n, s)) = (m \in inView)
<1>1. CASE Status!InUse(s, activeNcp, groups)
  <2>1. Status!Refiltered(n, s) = inView \cup {n}
    BY <1>1, Zenon DEF Status!Refiltered
  <2>2. Status!InUse(s, activeNcp, groups) = TRUE
    BY <1>1 DEF Status!InUse, Status!Settings
  <2>3. /\ (n \in Status!Refiltered(n, s)) = TRUE
        /\ \A m : m # n => (m \in Status!Refiltered(n, s)) = (m \in inView)
    BY <2>1
  <2> QED
    BY <2>2, <2>3, Zenon
<1>2. CASE ~Status!InUse(s, activeNcp, groups)
  <2>1. Status!Refiltered(n, s) = inView \ {n}
    BY <1>2, Zenon DEF Status!Refiltered
  <2>2. Status!InUse(s, activeNcp, groups) = FALSE
    BY <1>2 DEF Status!InUse, Status!Settings
  <2>3. /\ (n \in Status!Refiltered(n, s)) = FALSE
        /\ \A m : m # n => (m \in Status!Refiltered(n, s)) = (m \in inView)
    BY <2>1
  <2> QED
    BY <2>2, <2>3, Zenon
<1> QED
  BY <1>1, <1>2

LEMMA StatusInit ==
    ASSUME ObjectViewsAssumption, Status!Init
    PROVE  StatusInv
<1>1. /\ links \in [Links -> Status!Settings] /\ groups \in [StatusNcps -> Groups]
      /\ activeNcp = Opened /\ Opened \in StatusNcps /\ stale = {}
      /\ inView = {n \in DOMAIN links : Status!InUse(links[n], activeNcp, groups)}
  BY DEF Status!Init, ObjectViewsAssumption, Status!StatusPageAssumption, Status!AllInUse
<1>2. \A n \in DOMAIN links : Status!InUse(links[n], activeNcp, groups) \in BOOLEAN
  BY <1>1 DEF Status!InUse, Status!Settings
<1> QED
  BY <1>1, <1>2 DEF StatusInv, Status!RowsFollow

LEMMA StatusKeeps ==
    ASSUME StatusInv, [Status!Next]_Status!vars
    PROVE  StatusInv'
<1> DEFINE inUse(n) == Status!InUse(links[n], activeNcp, groups)
<1>i. /\ inView \subseteq DOMAIN links
      /\ \A n \in DOMAIN links : links[n].manual \/ n \notin stale => (n \in inView) = inUse(n)
      /\ links \in [DOMAIN links -> Status!Settings]
      /\ groups \in [StatusNcps -> Groups] /\ activeNcp \in StatusNcps
      /\ stale \subseteq DOMAIN links
  BY DEF StatusInv, Status!RowsFollow
<1>1. CASE UNCHANGED Status!vars
  BY <1>1 DEF StatusInv, Status!RowsFollow, Status!vars, Status!InUse
<1>2. ASSUME NEW n \in Links, NEW s \in Status!Settings, Status!AddLink(n, s)
      PROVE  StatusInv'
  <2>1. /\ n \notin DOMAIN links /\ inView' = Status!Refiltered(n, s)
        /\ links' = [m \in DOMAIN links \cup {n} |-> IF m = n THEN s ELSE links[m]]
        /\ UNCHANGED <<groups, activeNcp, stale>>
    BY <1>2 DEF Status!AddLink
  <2>2. /\ (n \in inView') = Status!InUse(s, activeNcp, groups)
        /\ \A m : m # n => (m \in inView') = (m \in inView)
    BY <2>1, RowRefiltered
  <2>3. DOMAIN links' = DOMAIN links \cup {n} /\ links'[n] = s
        /\ \A m \in DOMAIN links : links'[m] = links[m] /\ m # n
    BY <2>1
  <2>4. links' \in [DOMAIN links' -> Status!Settings]
    BY <2>1, <2>3, <1>i
  <2>5. inView' \subseteq DOMAIN links'
    BY <2>2, <2>3, <1>i
  <2>6. \A m \in DOMAIN links' : links'[m].manual \/ m \notin stale' =>
            (m \in inView') = Status!InUse(links'[m], activeNcp', groups')
    BY <2>1, <2>2, <2>3, <1>i
  <2> QED
    BY <2>1, <2>3, <2>4, <2>5, <2>6, <1>i DEF StatusInv, Status!RowsFollow
<1>3. ASSUME NEW n \in Links, NEW s \in Status!Settings, Status!ChangeLink(n, s)
      PROVE  StatusInv'
  <2>1. /\ n \in DOMAIN links /\ inView' = Status!Refiltered(n, s)
        /\ links' = [links EXCEPT ![n] = s] /\ stale' = stale \ {n}
        /\ UNCHANGED <<groups, activeNcp>>
    BY <1>3 DEF Status!ChangeLink
  <2>2. /\ (n \in inView') = Status!InUse(s, activeNcp, groups)
        /\ \A m : m # n => (m \in inView') = (m \in inView)
    BY <2>1, RowRefiltered
  <2>3. DOMAIN links' = DOMAIN links /\ links'[n] = s
        /\ \A m \in DOMAIN links : m # n => links'[m] = links[m]
    BY <2>1, <1>i
  <2>4. links' \in [DOMAIN links' -> Status!Settings]
    BY <2>1, <2>3, <1>i
  <2>5. inView' \subseteq DOMAIN links'
    BY <2>2, <2>3, <1>i, <2>1
  <2>6. \A m \in DOMAIN links' : links'[m].manual \/ m \notin stale' =>
            (m \in inView') = Status!InUse(links'[m], activeNcp', groups')
    BY <2>1, <2>2, <2>3, <1>i
  <2> QED
    BY <2>1, <2>3, <2>4, <2>5, <2>6, <1>i DEF StatusInv, Status!RowsFollow
<1>4. ASSUME NEW n \in Links, Status!RemoveLink(n)
      PROVE  StatusInv'
  <2>1. /\ inView' = inView \ {n} /\ stale' = stale \ {n}
        /\ links' = [m \in DOMAIN links \ {n} |-> links[m]]
        /\ UNCHANGED <<groups, activeNcp>>
    BY <1>4 DEF Status!RemoveLink
  <2>2. DOMAIN links' = DOMAIN links \ {n} /\ \A m \in DOMAIN links' : links'[m] = links[m]
    BY <2>1
  <2>3. links' \in [DOMAIN links' -> Status!Settings]
    BY <2>1, <2>2, <1>i
  <2>4. \A m \in DOMAIN links' : links'[m].manual \/ m \notin stale' =>
            (m \in inView') = Status!InUse(links'[m], activeNcp', groups')
    BY <2>1, <2>2, <1>i
  <2> QED
    BY <2>1, <2>2, <2>3, <2>4, <1>i DEF StatusInv, Status!RowsFollow
<1>5. ASSUME NEW g \in Groups, Status!ChangeGroup(g)
      PROVE  StatusInv'
  <2>1. /\ groups' = [groups EXCEPT ![activeNcp] = g]
        /\ UNCHANGED <<links, activeNcp>>
        /\ \/ inView' = Status!AllInUse(links, activeNcp, groups') /\ stale' = {}
           \/ stale' = DOMAIN links /\ UNCHANGED inView
    BY <1>5 DEF Status!ChangeGroup
  <2>2. groups' \in [StatusNcps -> Groups] /\ stale' \subseteq DOMAIN links'
    BY <2>1, <1>i
  <2>3. Status!RowsFollow'
    <3>1. CASE inView' = Status!AllInUse(links, activeNcp, groups') /\ stale' = {}
      <4>1. \A n \in DOMAIN links : Status!InUse(links[n], activeNcp, groups') \in BOOLEAN
        BY <1>i DEF Status!InUse, Status!Settings
      <4>2. /\ inView' = {n \in DOMAIN links : Status!InUse(links[n], activeNcp, groups')}
            /\ links' = links /\ activeNcp' = activeNcp
        BY <2>1, <3>1, Zenon DEF Status!AllInUse
      <4> QED
        BY <4>1, <4>2 DEF Status!RowsFollow
    <3>2. CASE stale' = DOMAIN links /\ UNCHANGED inView
      \* A connection chosen by hand does not depend on the group.
      BY <2>1, <3>2, <1>i DEF Status!RowsFollow, Status!InUse
    <3> QED
      BY <2>1, <3>1, <3>2
  <2> QED
    BY <2>1, <2>2, <2>3, <1>i DEF StatusInv
<1>6. ASSUME NEW p \in StatusNcps, Status!ChangeNcp(p)
      PROVE  StatusInv'
  <2>1. /\ activeNcp' = p /\ stale' = DOMAIN links /\ UNCHANGED <<links, groups, inView>>
    BY <1>6 DEF Status!ChangeNcp
  <2> QED
    BY <2>1, <1>i DEF StatusInv, Status!RowsFollow, Status!InUse
<1>7. ASSUME NEW l \in Locs, Status!ChangeLoc(l)
      PROVE  StatusInv'
  BY <1>7 DEF StatusInv, Status!RowsFollow, Status!ChangeLoc
<1>8. CASE Status!Refresh
  BY <1>8 DEF StatusInv, Status!RowsFollow, Status!Refresh
<1> QED
  BY <1>1, <1>2, <1>3, <1>4, <1>5, <1>6, <1>7, <1>8 DEF Status!Next

-----------------------------------------------------------------------------
(* Lists without one of their elements.                                      *)

\* A list without its element i.
Cut(l, i) == SubSeq(l, 1, i - 1) \o SubSeq(l, i + 1, Len(l))

LEMMA ConcatRight ==
    ASSUME NEW S, NEW a \in Seq(S), NEW b \in Seq(S), NEW k \in 1 .. Len(a) + Len(b), ~(k <= Len(a))
    PROVE  (a \o b)[k] = b[k - Len(a)]
BY ConcatProperties

LEMMA CutFacts ==
    ASSUME NEW S, NEW l \in Seq(S), NEW i \in DOMAIN l
    PROVE  /\ Cut(l, i) \in Seq(S) /\ Len(Cut(l, i)) = Len(l) - 1
           /\ \A k \in 1 .. Len(l) - 1 : Cut(l, i)[k] = IF k < i THEN l[k] ELSE l[k + 1]
<1> DEFINE a == SubSeq(l, 1, i - 1)
           b == SubSeq(l, i + 1, Len(l))
<1>1. i \in 1 .. Len(l)
  OBVIOUS
<1>2. /\ a \in Seq(S) /\ Len(a) = i - 1
      /\ \A n \in 1 .. i - 1 : a[n] = l[n]
  BY <1>1, SubSeqProperties
<1>3. /\ b \in Seq(S) /\ Len(b) = Len(l) - i
      /\ \A n \in 1 .. Len(l) - i : b[n] = l[i + n]
  BY <1>1, SubSeqProperties
<1> HIDE DEF a, b
<1>4. a \o b \in Seq(S) /\ Len(a \o b) = Len(l) - 1
  BY <1>1, <1>2, <1>3
<1>5. ASSUME NEW k \in 1 .. Len(l) - 1 PROVE (a \o b)[k] = IF k < i THEN l[k] ELSE l[k + 1]
  <2>1. CASE k < i
    <3>1. (a \o b)[k] = a[k] /\ k \in 1 .. i - 1
      BY <2>1, <1>1, <1>2, <1>3
    <3> QED
      BY <3>1, <2>1, <1>2
  <2>2. CASE ~(k < i)
    <3>0. k \in 1 .. Len(a) + Len(b) /\ ~(k <= Len(a)) /\ k - (i - 1) \in 1 .. Len(l) - i
      BY <2>2, <1>1, <1>2, <1>3
    <3>a. (a \o b)[k] = b[k - Len(a)]
      BY <3>0, <1>2, <1>3, ConcatRight
    <3>1. (a \o b)[k] = b[k - (i - 1)] /\ k - (i - 1) \in 1 .. Len(l) - i
      BY <3>0, <3>a, <1>2
    <3> DEFINE n == k - (i - 1)
    <3>2. n \in 1 .. Len(l) - i /\ i + n = k + 1 /\ (a \o b)[k] = b[n]
      BY <3>0, <3>1, <1>1
    <3> HIDE DEF n
    <3>3. b[n] = l[i + n]
      BY <3>2, <1>3
    <3> QED
      BY <3>2, <3>3, <2>2
  <2> QED
    BY <2>1, <2>2
<1> QED
  BY <1>4, <1>5 DEF Cut, a, b

-----------------------------------------------------------------------------
(* The items for network modifiers E and locations F (ModeItems).            *)

ItemKinds == {"enm", "env"}
ObjectRecord == [state : {"unread", "active", "other"}, byHand : BOOLEAN]
ItemRecord(E, F) ==
    [of : E \cup F \cup {None}, on : BOOLEAN, usable : BOOLEAN, unsure : BOOLEAN, fresh : BOOLEAN]
KindIn(E, o) == IF o \in E THEN "enm" ELSE "env"

\* The object is in the list of its kind.
KnownIn(E, l, o) == \E n \in DOMAIN l[KindIn(E, o)] : l[KindIn(E, o)][n] = o

\* An item says of its object what was told last, unless it could not be read.
Tells(i, x) ==
    /\ i.unsure \/ i.on = (x.state = "active")
    /\ x.state = "unread" => i.unsure
Fits(E, i, o, x) == i.of = o /\ Tells(i, x) /\ (o \in E => i.usable = x.byHand)

\* An item put away has no object, or one of its kind that there is.
FitsAway(E, F, l, os, k, i) ==
    i.of # None =>
        /\ i.of \in E \cup F /\ KindIn(E, i.of) = k /\ KnownIn(E, l, i.of)
        /\ Fits(E, i, i.of, os[i.of])
MenuFits(E, F, l, os, m) ==
    \A o \in DOMAIN m : o \in E \cup F /\ KnownIn(E, l, o) /\ Fits(E, m[o], o, os[o])
CacheFits(E, F, l, os, c) ==
    \A k \in ItemKinds : \A n \in DOMAIN c[k] : FitsAway(E, F, l, os, k, c[k][n])

\* The lists have the objects of their kind.
ListsFit(E, F, l) == l["enm"] \in Seq(E) /\ l["env"] \in Seq(F)

ItemTypes(E, F) ==
    /\ obj \in [E \cup F -> ObjectRecord] /\ byHand \in BOOLEAN
    /\ listed \in [ItemKinds -> Seq(E \cup F)]
    /\ menu \in [DOMAIN menu -> ItemRecord(E, F)]
    /\ cache \in [ItemKinds -> Seq(ItemRecord(E, F))]

ItemsInv(E, F) ==
    /\ ItemTypes(E, F) /\ ListsFit(E, F, listed)
    /\ MenuFits(E, F, listed, obj, menu)
    /\ CacheFits(E, F, listed, obj, cache)
    /\ \A o \in DOMAIN menu :
          /\ o \in F => menu[o].fresh \/ menu[o].usable = byHand
          /\ asked = <<o, menu[o].on>> => menu[o].unsure

ItemsAssumed(E, F) == Items(E, F)!ModeItemsAssumption

\* What reading an object's state keeps.
LEMMA ReadObject ==
    ASSUME NEW E, NEW F, NEW x \in ObjectRecord, NEW y \in Items(E, F)!Read(x)
    PROVE  y \in ObjectRecord /\ y.byHand = x.byHand /\ (x.state # "unread" => y = x)
BY DEF Items!Read, Items!States, ObjectRecord

LEMMA ReadFits ==
    ASSUME NEW E, NEW F, NEW x \in ObjectRecord, NEW y \in Items(E, F)!Read(x), NEW i, NEW o,
           Fits(E, i, o, x)
    PROVE  Fits(E, i, o, y)
<1>1. y.byHand = x.byHand /\ (x.state # "unread" => y = x)
  BY ReadObject
<1>2. CASE x.state = "unread"
  <2>1. i.unsure
    BY <1>2 DEF Fits, Tells
  <2> QED
    BY <1>1, <2>1, Zenon DEF Fits, Tells
<1> QED
  BY <1>1, <1>2

LEMMA ToldItem ==
    ASSUME NEW E, NEW F, NEW i \in ItemRecord(E, F), NEW x \in ObjectRecord
    PROVE  /\ Items(E, F)!Told(i, x) \in ItemRecord(E, F)
           /\ Items(E, F)!Told(i, x).of = i.of
           /\ Items(E, F)!Told(i, x).usable = i.usable
           /\ Items(E, F)!Told(i, x).fresh = i.fresh
           /\ Tells(Items(E, F)!Told(i, x), x)
           /\ \A o : i.of = o /\ (o \in E => i.usable = x.byHand) =>
                 Fits(E, Items(E, F)!Told(i, x), o, x)
<1> DEFINE t == Items(E, F)!Told(i, x)
<1>1. t = [i EXCEPT !.on = (x.state = "active"), !.unsure = (x.state = "unread")]
  BY DEF Items!Told, Items!Active
<1>2. /\ t \in ItemRecord(E, F) /\ t.of = i.of /\ t.usable = i.usable /\ t.fresh = i.fresh
      /\ t.on = (x.state = "active") /\ t.unsure = (x.state = "unread")
  BY <1>1 DEF ItemRecord
<1> HIDE DEF t
<1>3. Tells(t, x)
  BY <1>2 DEF Tells
<1> QED
  BY <1>2, <1>3, Zenon DEF t, Fits

LEMMA MadeItem ==
    ASSUME NEW E, NEW F, NEW o \in E \cup F, NEW x \in ObjectRecord
    PROVE  /\ Items(E, F)!Made(o, x) \in ItemRecord(E, F)
           /\ Items(E, F)!Made(o, x).fresh = TRUE
           /\ Fits(E, Items(E, F)!Made(o, x), o, x)
<1> DEFINE i == Items(E, F)!Made(o, x)
           u == IF o \in E THEN x.byHand ELSE Items(E, F)!SelectionIsManual(listed, obj)
<1>1. i = [of |-> o, on |-> (x.state = "active"), usable |-> u,
           unsure |-> (x.state = "unread"), fresh |-> TRUE]
  BY DEF Items!Made, Items!Item, Items!Active
<1>2. u \in BOOLEAN /\ (o \in E => u = x.byHand)
  BY DEF ObjectRecord, Items!SelectionIsManual
<1> HIDE DEF u
<1>3. /\ i \in ItemRecord(E, F) /\ i.fresh = TRUE /\ i.of = o /\ i.usable = u
      /\ i.on = (x.state = "active") /\ i.unsure = (x.state = "unread")
  BY <1>1, <1>2 DEF ItemRecord
<1> HIDE DEF i
<1>4. Tells(i, x)
  BY <1>3 DEF Tells
<1>5. Fits(E, i, o, x)
  BY <1>2, <1>3, <1>4, Zenon DEF Fits
<1> QED
  BY <1>3, <1>5 DEF i

LEMMA ReusedItem ==
    ASSUME NEW E, NEW F, NEW o \in E \cup F, NEW x \in ObjectRecord, NEW i \in ItemRecord(E, F),
           i.of = o => Fits(E, i, o, x)
    PROVE  /\ Items(E, F)!Reused(i, o, x) \in ItemRecord(E, F)
           /\ Items(E, F)!Reused(i, o, x).fresh = TRUE
           /\ Fits(E, Items(E, F)!Reused(i, o, x), o, x)
<1> DEFINE r == Items(E, F)!Reused(i, o, x)
<1>1. CASE i.of = o
  <2>1. r = [i EXCEPT !.fresh = TRUE]
    BY <1>1 DEF Items!Reused
  <2>2. /\ r \in ItemRecord(E, F) /\ r.fresh = TRUE /\ r.of = i.of /\ r.on = i.on
        /\ r.usable = i.usable /\ r.unsure = i.unsure
    BY <2>1 DEF ItemRecord
  <2> HIDE DEF r
  <2>3. Fits(E, r, o, x)
    BY <1>1, <2>2, Zenon DEF Fits, Tells
  <2> QED
    BY <2>2, <2>3 DEF r
<1>2. CASE i.of # o
  <2> DEFINE t == Items(E, F)!Told(i, x)
             u == IF o \in E THEN x.byHand ELSE t.usable
  <2>1. t \in ItemRecord(E, F) /\ Tells(t, x)
    BY ToldItem
  <2>2. r = [t EXCEPT !.of = o, !.fresh = TRUE, !.usable = u]
    BY <1>2, Zenon DEF Items!Reused
  <2> HIDE DEF t
  <2>3. u \in BOOLEAN /\ (o \in E => u = x.byHand)
    BY <2>1 DEF ObjectRecord, ItemRecord
  <2> HIDE DEF u
  <2>4. /\ r \in ItemRecord(E, F) /\ r.fresh = TRUE /\ r.of = o /\ r.usable = u
        /\ r.on = t.on /\ r.unsure = t.unsure
    BY <2>1, <2>2, <2>3 DEF ItemRecord
  <2> HIDE DEF r
  <2>5. Fits(E, r, o, x)
    BY <2>1, <2>3, <2>4, Zenon DEF Fits, Tells
  <2> QED
    BY <2>4, <2>5 DEF r
<1> QED
  BY <1>1, <1>2

-----------------------------------------------------------------------------
LEMMA ItemKind ==
    ASSUME NEW E, NEW F, NEW o
    PROVE  Items(E, F)!KindOf(o) = KindIn(E, o) /\ KindIn(E, o) \in ItemKinds
BY DEF Items!KindOf, KindIn, ItemKinds

\* The types and the fits that every step has to keep.
LEMMA AwayKeeps ==
    ASSUME NEW E, NEW F, NEW l, NEW os, NEW l2, NEW os2, NEW k, NEW i, FitsAway(E, F, l, os, k, i),
           i.of # None => (KnownIn(E, l2, i.of) /\ os2[i.of] = os[i.of])
    PROVE  FitsAway(E, F, l2, os2, k, i)
BY DEF FitsAway

LEMMA ItemsAdd ==
    ASSUME NEW E, NEW F, ItemsAssumed(E, F), ItemsInv(E, F), NEW o \in E \cup F,
           Items(E, F)!AddObject(o)
    PROVE  ItemsInv(E, F)'
<1> DEFINE k == KindIn(E, o)
<1>k. Items(E, F)!KindOf(o) = k /\ k \in ItemKinds
  BY ItemKind
<1>1. /\ obj \in [E \cup F -> ObjectRecord] /\ byHand \in BOOLEAN
      /\ listed \in [ItemKinds -> Seq(E \cup F)]
      /\ menu \in [DOMAIN menu -> ItemRecord(E, F)]
      /\ cache \in [ItemKinds -> Seq(ItemRecord(E, F))]
  BY DEF ItemsInv, ItemTypes
<1>p. PICK h \in BOOLEAN : \E of \in Items(E, F)!Read([Items(E, F)!New EXCEPT !.byHand = h]) :
          /\ obj' = [obj EXCEPT ![o] = of]
          /\ menu' = Items(E, F)!WithItem(menu, o,
                         IF cache[k] = <<>> THEN Items(E, F)!Made(o, of)
                         ELSE Items(E, F)!Reused(Head(cache[k]), o, of))
  BY <1>k, Zenon DEF Items!AddObject
<1>2. PICK of \in Items(E, F)!Read([Items(E, F)!New EXCEPT !.byHand = h]) :
          /\ obj' = [obj EXCEPT ![o] = of]
          /\ menu' = Items(E, F)!WithItem(menu, o,
                         IF cache[k] = <<>> THEN Items(E, F)!Made(o, of)
                         ELSE Items(E, F)!Reused(Head(cache[k]), o, of))
  BY <1>p
<1>3. /\ \A n \in DOMAIN listed[k] : listed[k][n] # o
      /\ listed' = [listed EXCEPT ![k] = Append(@, o)]
      /\ cache' = IF cache[k] = <<>> THEN cache ELSE [cache EXCEPT ![k] = Tail(@)]
      /\ asked' = None /\ UNCHANGED byHand
  BY <1>k, Zenon DEF Items!AddObject
<1> DEFINE new == IF cache[k] = <<>> THEN Items(E, F)!Made(o, of)
                  ELSE Items(E, F)!Reused(Head(cache[k]), o, of)
<1>4. of \in ObjectRecord
  <2>1. [Items(E, F)!New EXCEPT !.byHand = h] \in ObjectRecord
    BY DEF Items!New, ObjectRecord
  <2> QED
    BY <2>1, ReadObject
<1>5. new \in ItemRecord(E, F) /\ new.fresh = TRUE /\ Fits(E, new, o, of)
  <2>1. CASE cache[k] = <<>>
    BY <2>1, <1>4, MadeItem
  <2>2. CASE cache[k] # <<>>
    <3> DEFINE i == Head(cache[k])
    <3>1. i \in ItemRecord(E, F) /\ i = cache[k][1] /\ 1 \in DOMAIN cache[k]
      BY <2>2, <1>1, <1>k
    <3>2. i.of # None => KnownIn(E, listed, i.of)
      BY <3>1, <1>k DEF ItemsInv, CacheFits, FitsAway
    <3>3. i.of # o
      BY <3>2, <1>3 DEF KnownIn, ItemsAssumed, Items!ModeItemsAssumption
    <3> QED
      BY <2>2, <3>1, <3>3, <1>4, ReusedItem
  <2> QED
    BY <2>1, <2>2
<1> HIDE DEF new
<1>6. menu' = [x \in DOMAIN menu \cup {o} |-> IF x = o THEN new ELSE menu[x]]
  BY <1>2, Zenon DEF Items!WithItem, new
<1>7. listed' \in [ItemKinds -> Seq(E \cup F)] /\ KnownIn(E, listed', o)
  <2>1. listed'[k] = Append(listed[k], o) /\ listed[k] \in Seq(E \cup F)
    BY <1>1, <1>3, <1>k
  <2>2. Len(listed[k]) + 1 \in DOMAIN listed'[k] /\ listed'[k][Len(listed[k]) + 1] = o
    BY <2>1
  <2>3. KnownIn(E, listed', o)
    BY <2>2, Zenon DEF KnownIn
  <2>4. listed' \in [ItemKinds -> Seq(E \cup F)]
    BY <1>1, <1>3, <1>k, <2>1
  <2> QED
    BY <2>3, <2>4
<1>8. ASSUME NEW x, KnownIn(E, listed, x) PROVE KnownIn(E, listed', x) /\ x # o
  <2>1. PICK n \in DOMAIN listed[KindIn(E, x)] : listed[KindIn(E, x)][n] = x
    BY <1>8 DEF KnownIn
  <2>2. x # o
    BY <2>1, <1>3
  <2>3. KindIn(E, x) \in ItemKinds
    BY ItemKind
  <2>4. n \in DOMAIN listed'[KindIn(E, x)] /\ listed'[KindIn(E, x)][n] = x
    BY <2>1, <2>3, <1>1, <1>3, <1>k
  <2> QED
    BY <2>2, <2>4 DEF KnownIn
<1>9. ASSUME NEW x, x # o PROVE obj'[x] = obj[x]
  BY <1>1, <1>2, <1>9
<1>10. obj' \in [E \cup F -> ObjectRecord] /\ obj'[o] = of
  BY <1>1, <1>2, <1>4
<1>11. cache' \in [ItemKinds -> Seq(ItemRecord(E, F))]
  BY <1>1, <1>3, <1>k
<1>12. \A kk \in ItemKinds : \A n \in DOMAIN cache'[kk] :
           \E m \in DOMAIN cache[kk] : cache'[kk][n] = cache[kk][m]
  <2> TAKE kk \in ItemKinds
  <2> TAKE n \in DOMAIN cache'[kk]
  <2>1. CASE cache' = cache
    BY <2>1
  <2>2. CASE cache[k] # <<>> /\ kk = k
    <3>1. cache'[k] = Tail(cache[k]) /\ cache[k] \in Seq(ItemRecord(E, F))
      BY <2>2, <1>1, <1>3, <1>k
    <3>2. n + 1 \in DOMAIN cache[k] /\ cache'[k][n] = cache[k][n + 1]
      BY <2>2, <3>1
    <3> QED
      BY <2>2, <3>2
  <2>3. CASE cache[k] # <<>> /\ kk # k
    BY <2>3, <1>1, <1>3, <1>k
  <2> QED
    BY <2>1, <2>2, <2>3, <1>3
<1>13. ItemTypes(E, F)'
  BY <1>1, <1>3, <1>5, <1>6, <1>7, <1>10, <1>11 DEF ItemTypes
<1>l. ListsFit(E, F, listed')
  <2> DEFINE S == IF k = "enm" THEN E ELSE F
  <2>1. listed[k] \in Seq(S) /\ o \in S
    BY <1>k DEF ItemsInv, ListsFit, KindIn, ItemKinds
  <2>2. Append(listed[k], o) \in Seq(S)
    <3> HIDE DEF S
    <3> QED
      BY <2>1
  <2> QED
    BY <2>2, <1>1, <1>3, <1>k DEF ItemsInv, ListsFit, ItemKinds
<1>14. MenuFits(E, F, listed', obj', menu')
  BY <1>5, <1>6, <1>7, <1>8, <1>9, <1>10, Zenon DEF MenuFits, ItemsInv
<1>15. CacheFits(E, F, listed', obj', cache')
  <2> SUFFICES ASSUME NEW kk \in ItemKinds, NEW n \in DOMAIN cache'[kk]
               PROVE  FitsAway(E, F, listed', obj', kk, cache'[kk][n])
    BY DEF CacheFits
  <2>1. PICK m \in DOMAIN cache[kk] : cache'[kk][n] = cache[kk][m]
    BY <1>12
  <2>2. FitsAway(E, F, listed, obj, kk, cache[kk][m])
    BY DEF ItemsInv, CacheFits
  <2>3. cache[kk][m].of # None => KnownIn(E, listed, cache[kk][m].of)
    BY <2>2 DEF FitsAway
  <2> QED
    BY <2>1, <2>2, <2>3, <1>8, <1>9, AwayKeeps
<1>16. \A x \in DOMAIN menu' :
          /\ x \in F => menu'[x].fresh \/ menu'[x].usable = byHand'
          /\ asked' = <<x, menu'[x].on>> => menu'[x].unsure
  <2> SUFFICES ASSUME NEW x \in DOMAIN menu'
               PROVE  /\ x \in F => menu'[x].fresh \/ menu'[x].usable = byHand'
                      /\ asked' # <<x, menu'[x].on>>
    OBVIOUS
  <2>1. x \in E \cup F /\ menu'[x] \in ItemRecord(E, F)
    BY <1>13, <1>14 DEF ItemTypes, MenuFits
  <2>2. asked' # <<x, menu'[x].on>>
    BY <2>1, <1>3 DEF ItemRecord, ItemsAssumed, Items!ModeItemsAssumption
  <2>3. x \in F => menu'[x].fresh \/ menu'[x].usable = byHand'
    BY <1>3, <1>5, <1>6, Zenon DEF ItemsInv
  <2> QED
    BY <2>2, <2>3
<1> QED
  BY <1>13, <1>14, <1>15, <1>16, <1>l, Zenon DEF ItemsInv

\* A list without the first place of an object, as the module writes it.
Less(l, o) == Cut(l, CHOOSE n \in DOMAIN l : l[n] = o)

\* What else is in a list is in the other one.
Remains(l, w, o) ==
    \A x : x # o /\ (\E n \in DOMAIN l : l[n] = x) => \E n \in DOMAIN w : w[n] = x

LEMMA WithoutFacts ==
    ASSUME NEW S, NEW l \in Seq(S), NEW o, \E n \in DOMAIN l : l[n] = o
    PROVE  /\ Less(l, o) \in Seq(S)
           /\ Remains(l, Less(l, o), o)
<1> DEFINE i == CHOOSE n \in DOMAIN l : l[n] = o
           w == Less(l, o)
<1>1. i \in DOMAIN l /\ l[i] = o
  OBVIOUS
<1>2. w = Cut(l, i)
  BY DEF Less
<1> HIDE DEF i, w
<1>3. /\ w \in Seq(S) /\ Len(w) = Len(l) - 1
      /\ \A k \in 1 .. Len(l) - 1 : w[k] = IF k < i THEN l[k] ELSE l[k + 1]
  BY <1>1, <1>2, CutFacts
<1>4. ASSUME NEW x, x # o, NEW n \in DOMAIN l, l[n] = x PROVE \E m \in DOMAIN w : w[m] = x
  <2>1. n \in 1 .. Len(l) /\ i \in 1 .. Len(l) /\ Len(l) \in Nat /\ n # i
    BY <1>1, <1>4
  <2>2. CASE n < i
    <3>1. n \in 1 .. Len(l) - 1 /\ n \in DOMAIN w
      BY <2>1, <2>2, <1>3
    <3> QED
      BY <3>1, <2>2, <1>3, <1>4
  <2>3. CASE n > i
    <3>1. n - 1 \in 1 .. Len(l) - 1 /\ n - 1 \in DOMAIN w /\ ~(n - 1 < i) /\ n - 1 + 1 = n
      BY <2>1, <2>3, <1>3
    <3> QED
      BY <3>1, <1>3, <1>4
  <2> QED
    BY <2>1, <2>2, <2>3
<1> QED
  BY <1>3, <1>4 DEF w, Remains

\* Nothing was asked, and the switch and the items' use are as before.
LEMMA NothingAsked ==
    ASSUME NEW E, NEW F, ItemsAssumed(E, F), NEW m, NEW o \in E \cup F,
           m[o] \in ItemRecord(E, F)
    PROVE  None # <<o, m[o].on>>
BY DEF ItemRecord, ItemsAssumed, Items!ModeItemsAssumption

LEMMA ItemsRemove ==
    ASSUME NEW E, NEW F, ItemsAssumed(E, F), ItemsInv(E, F), NEW o \in E \cup F,
           Items(E, F)!RemoveObject(o)
    PROVE  ItemsInv(E, F)'
<1> DEFINE k == KindIn(E, o)
           gone(i) == IF i.of = o THEN [i EXCEPT !.of = None] ELSE i
           put == IF o \in DOMAIN menu THEN <<gone(menu[o])>> ELSE <<>>
           was == [n \in DOMAIN cache[k] |-> gone(cache[k][n])]
<1>k. Items(E, F)!KindOf(o) = k /\ k \in ItemKinds
  BY ItemKind
<1>1. /\ obj \in [E \cup F -> ObjectRecord] /\ byHand \in BOOLEAN
      /\ listed \in [ItemKinds -> Seq(E \cup F)]
      /\ menu \in [DOMAIN menu -> ItemRecord(E, F)]
      /\ cache \in [ItemKinds -> Seq(ItemRecord(E, F))]
  BY DEF ItemsInv, ItemTypes
<1>2. /\ \E n \in DOMAIN listed[k] : listed[k][n] = o
      /\ listed' = [listed EXCEPT ![k] = Less(@, o)]
      /\ obj' = [obj EXCEPT ![o] = Items(E, F)!New]
      /\ menu' = [x \in DOMAIN menu \ {o} |-> menu[x]]
      /\ asked' = None /\ UNCHANGED byHand
  BY <1>k, Zenon DEF Items!RemoveObject, Items!Without, Less, Cut
<1>3. cache' = [cache EXCEPT ![k] = put \o was]
  BY <1>k DEF Items!RemoveObject
<1>4. ASSUME NEW i \in ItemRecord(E, F), NEW kk, FitsAway(E, F, listed, obj, kk, i)
      PROVE  /\ gone(i) \in ItemRecord(E, F)
             /\ FitsAway(E, F, listed, obj, kk, gone(i)) /\ gone(i).of # o
  <2>1. CASE i.of = o
    <3>1. gone(i) = [i EXCEPT !.of = None]
      BY <2>1
    <3>2. gone(i) \in ItemRecord(E, F) /\ gone(i).of = None
      BY <3>1 DEF ItemRecord
    <3> QED
      BY <3>2 DEF FitsAway, ItemsAssumed, Items!ModeItemsAssumption
  <2>2. CASE i.of # o
    BY <2>2, <1>4
  <2> QED
    BY <2>1, <2>2
<1>5. o \in DOMAIN menu => menu[o] \in ItemRecord(E, F) /\ FitsAway(E, F, listed, obj, k, menu[o])
  <2> SUFFICES ASSUME o \in DOMAIN menu
               PROVE  menu[o] \in ItemRecord(E, F) /\ FitsAway(E, F, listed, obj, k, menu[o])
    OBVIOUS
  <2>1. menu[o] \in ItemRecord(E, F)
    BY <1>1
  <2>2. KnownIn(E, listed, o) /\ Fits(E, menu[o], o, obj[o])
    BY DEF ItemsInv, MenuFits
  <2>3. menu[o].of = o
    BY <2>2 DEF Fits
  <2> QED
    BY <2>1, <2>2, <2>3 DEF FitsAway
<1>6. put \in Seq(ItemRecord(E, F)) /\ (\A n \in DOMAIN put :
          FitsAway(E, F, listed, obj, k, put[n]) /\ put[n].of # o)
  <2>1. CASE o \in DOMAIN menu
    <3> DEFINE g == gone(menu[o])
    <3>1. g \in ItemRecord(E, F) /\ FitsAway(E, F, listed, obj, k, g) /\ g.of # o
      BY <2>1, <1>4, <1>5
    <3>2. put = <<g>>
      BY <2>1
    <3> HIDE DEF g, put
    <3> QED
      BY <3>1, <3>2
  <2>2. CASE o \notin DOMAIN menu
    BY <2>2
  <2> QED
    BY <2>1, <2>2
<1>7. was \in Seq(ItemRecord(E, F)) /\ (\A n \in DOMAIN was :
          FitsAway(E, F, listed, obj, k, was[n]) /\ was[n].of # o)
  <2>1. \A n \in DOMAIN cache[k] :
           cache[k][n] \in ItemRecord(E, F) /\ FitsAway(E, F, listed, obj, k, cache[k][n])
    BY <1>1, <1>k DEF ItemsInv, CacheFits
  <2>2. \A n \in DOMAIN cache[k] :
           /\ gone(cache[k][n]) \in ItemRecord(E, F)
           /\ FitsAway(E, F, listed, obj, k, gone(cache[k][n])) /\ gone(cache[k][n]).of # o
    BY <2>1, <1>4
  <2>3. cache[k] \in Seq(ItemRecord(E, F))
    BY <1>1, <1>k
  <2> HIDE DEF gone
  <2> QED
    BY <2>2, <2>3
<1> HIDE DEF put, was
<1>8. /\ put \o was \in Seq(ItemRecord(E, F))
      /\ \A n \in DOMAIN (put \o was) :
            FitsAway(E, F, listed, obj, k, (put \o was)[n]) /\ (put \o was)[n].of # o
  <2>1. put \o was \in Seq(ItemRecord(E, F)) /\ Len(put \o was) = Len(put) + Len(was)
    BY <1>6, <1>7
  <2> SUFFICES ASSUME NEW n \in DOMAIN (put \o was)
               PROVE  FitsAway(E, F, listed, obj, k, (put \o was)[n]) /\ (put \o was)[n].of # o
    BY <2>1
  <2>2. CASE n \leq Len(put)
    <3>1. n \in DOMAIN put /\ (put \o was)[n] = put[n]
      BY <2>1, <2>2, <1>6, <1>7
    <3> QED
      BY <3>1, <1>6
  <2>3. CASE n > Len(put)
    <3>1. n - Len(put) \in DOMAIN was /\ (put \o was)[n] = was[n - Len(put)]
      BY <2>1, <2>3, <1>6, <1>7
    <3> QED
      BY <3>1, <1>7
  <2> QED
    BY <2>1, <2>2, <2>3
<1>9. listed[k] \in Seq(E \cup F)
  BY <1>1, <1>k
<1>10. listed' \in [ItemKinds -> Seq(E \cup F)]
  BY <1>1, <1>2, <1>9, <1>k, WithoutFacts
<1>11. ASSUME NEW x, KnownIn(E, listed, x), x # o PROVE KnownIn(E, listed', x)
  <2>1. KindIn(E, x) \in ItemKinds
    BY ItemKind
  <2>2. CASE KindIn(E, x) = k
    <3> DEFINE L == listed[k]
    <3>0. L \in Seq(E \cup F) /\ (\E n \in DOMAIN L : L[n] = o) /\ (\E n \in DOMAIN L : L[n] = x)
      BY <2>2, <1>2, <1>9, <1>11 DEF KnownIn
    <3>1. \E n \in DOMAIN Less(L, o) : Less(L, o)[n] = x
      <4> HIDE DEF L
      <4> QED
        <5>1. Remains(L, Less(L, o), o)
          BY <3>0, WithoutFacts
        <5> QED
          BY <5>1, <3>0, <1>11, Zenon DEF Remains
    <3>2. \E n \in DOMAIN Less(listed[k], o) :
             Less(listed[k], o)[n] = x
      BY <3>1
    <3>3. listed'[k] = Less(listed[k], o)
      BY <1>1, <1>2, <1>k
    <3> QED
      BY <2>2, <3>2, <3>3, Zenon DEF KnownIn
  <2>3. CASE KindIn(E, x) # k
    <3>1. listed'[KindIn(E, x)] = listed[KindIn(E, x)]
      BY <2>1, <2>3, <1>1, <1>2
    <3> QED
      BY <3>1, <1>11, Zenon DEF KnownIn
  <2> QED
    BY <2>2, <2>3
<1>12. /\ obj' \in [E \cup F -> ObjectRecord]
       /\ \A x \in E \cup F : x # o => obj'[x] = obj[x]
  <2>1. Items(E, F)!New \in ObjectRecord
    BY DEF Items!New, ObjectRecord
  <2> QED
    BY <2>1, <1>1, <1>2
<1>13. /\ cache' \in [ItemKinds -> Seq(ItemRecord(E, F))]
       /\ cache'[k] = put \o was /\ (\A kk \in ItemKinds : kk # k => cache'[kk] = cache[kk])
  BY <1>1, <1>3, <1>8, <1>k
<1>14. ItemTypes(E, F)'
  BY <1>1, <1>2, <1>10, <1>12, <1>13 DEF ItemTypes
<1>l. ListsFit(E, F, listed')
  <2>1. listed[k] \in Seq(IF k = "enm" THEN E ELSE F) /\ o \in (IF k = "enm" THEN E ELSE F)
    BY <1>k DEF ItemsInv, ListsFit, KindIn, ItemKinds
  <2>2. Less(listed[k], o) \in Seq(IF k = "enm" THEN E ELSE F)
    BY <2>1, <1>2, WithoutFacts
  <2> QED
    BY <2>2, <1>1, <1>2, <1>k DEF ItemsInv, ListsFit, ItemKinds
<1>15. MenuFits(E, F, listed', obj', menu')
  <2> SUFFICES ASSUME NEW x \in DOMAIN menu'
               PROVE  x \in E \cup F /\ KnownIn(E, listed', x) /\ Fits(E, menu'[x], x, obj'[x])
    BY DEF MenuFits
  <2>1. x \in DOMAIN menu /\ x # o /\ menu'[x] = menu[x]
    BY <1>2
  <2>2. x \in E \cup F /\ KnownIn(E, listed, x) /\ Fits(E, menu[x], x, obj[x])
    BY <2>1 DEF ItemsInv, MenuFits
  <2> QED
    BY <2>1, <2>2, <1>11, <1>12
<1>16. CacheFits(E, F, listed', obj', cache')
  <2> SUFFICES ASSUME NEW kk \in ItemKinds, NEW n \in DOMAIN cache'[kk]
               PROVE  FitsAway(E, F, listed', obj', kk, cache'[kk][n])
    BY DEF CacheFits
  <2> DEFINE i == cache'[kk][n]
  <2>1. FitsAway(E, F, listed, obj, kk, i) /\ i.of # o
    <3>1. CASE kk = k
      BY <3>1, <1>8, <1>13
    <3>2. CASE kk # k
      <4>1. i = cache[kk][n] /\ n \in DOMAIN cache[kk]
        BY <3>2, <1>13
      <4>2. FitsAway(E, F, listed, obj, kk, i)
        BY <4>1 DEF ItemsInv, CacheFits
      <4>3. i.of # None => KindIn(E, i.of) = kk
        BY <4>2 DEF FitsAway
      <4> QED
        BY <4>2, <4>3, <3>2 DEF ItemsAssumed, Items!ModeItemsAssumption
    <3> QED
      BY <3>1, <3>2
  <2>2. i.of # None => i.of \in E \cup F /\ KnownIn(E, listed, i.of)
    BY <2>1 DEF FitsAway
  <2> QED
    BY <2>1, <2>2, <1>11, <1>12, AwayKeeps
<1>17. \A x \in DOMAIN menu' :
          /\ x \in F => menu'[x].fresh \/ menu'[x].usable = byHand'
          /\ asked' = <<x, menu'[x].on>> => menu'[x].unsure
  <2> SUFFICES ASSUME NEW x \in DOMAIN menu'
               PROVE  /\ x \in F => menu'[x].fresh \/ menu'[x].usable = byHand'
                      /\ asked' # <<x, menu'[x].on>>
    OBVIOUS
  <2>1. x \in E \cup F /\ menu'[x] \in ItemRecord(E, F)
    BY <1>14, <1>15 DEF ItemTypes, MenuFits
  <2>2. asked' # <<x, menu'[x].on>>
    BY <2>1, <1>2, NothingAsked
  <2>3. x \in F => menu'[x].fresh \/ menu'[x].usable = byHand'
    BY <1>2, Zenon DEF ItemsInv
  <2> QED
    BY <2>2, <2>3
<1> QED
  BY <1>14, <1>15, <1>16, <1>17, <1>l, Zenon DEF ItemsInv

LEMMA ItemsParts ==
    ASSUME NEW E, NEW F, ItemsInv(E, F)
    PROVE  /\ obj \in [E \cup F -> ObjectRecord] /\ byHand \in BOOLEAN
           /\ listed \in [ItemKinds -> Seq(E \cup F)]
           /\ menu \in [DOMAIN menu -> ItemRecord(E, F)]
           /\ cache \in [ItemKinds -> Seq(ItemRecord(E, F))]
BY Zenon DEF ItemsInv, ItemTypes

\* The last part of the invariant after a step that asks for nothing.
LEMMA ItemsUnasked ==
    ASSUME NEW E, NEW F, ItemsAssumed(E, F), ItemTypes(E, F)', ListsFit(E, F, listed'),
           MenuFits(E, F, listed', obj', menu'), CacheFits(E, F, listed', obj', cache'),
           asked' = None,
           \A x \in DOMAIN menu' : x \in F => menu'[x].fresh \/ menu'[x].usable = byHand'
    PROVE  ItemsInv(E, F)'
<1>1. ASSUME NEW x \in DOMAIN menu' PROVE asked' # <<x, menu'[x].on>>
  <2>1. x \in E \cup F /\ menu'[x] \in ItemRecord(E, F)
    BY DEF ItemTypes, MenuFits
  <2> QED
    BY <2>1, NothingAsked
<1> QED
  BY <1>1, Zenon DEF ItemsInv

\* An object is read: nothing that is said of it becomes wrong.
LEMMA ReadKeeps ==
    ASSUME NEW E, NEW F, NEW l, NEW os \in [E \cup F -> ObjectRecord], NEW os2,
           NEW m, NEW c, MenuFits(E, F, l, os, m), CacheFits(E, F, l, os, c),
           os2 \in [E \cup F -> ObjectRecord],
           \A x \in E \cup F : os2[x] \in Items(E, F)!Read(os[x])
    PROVE  /\ MenuFits(E, F, l, os2, m) /\ CacheFits(E, F, l, os2, c)
<1>1. ASSUME NEW i, NEW x \in E \cup F, Fits(E, i, x, os[x]) PROVE Fits(E, i, x, os2[x])
  <2>1. os[x] \in ObjectRecord
    OBVIOUS
  <2> QED
    BY <2>1, <1>1, ReadFits
<1>2. MenuFits(E, F, l, os2, m)
  BY <1>1 DEF MenuFits
<1>3. CacheFits(E, F, l, os2, c)
  BY <1>1 DEF CacheFits, FitsAway
<1> QED
  BY <1>2, <1>3

LEMMA ReadItself ==
    ASSUME NEW E, NEW F, NEW x \in ObjectRecord
    PROVE  x \in Items(E, F)!Read(x)
<1>1. x = [x EXCEPT !.state = x.state] /\ x.state \in Items(E, F)!States
  BY DEF ObjectRecord, Items!States
<1> QED
  BY <1>1 DEF Items!Read

\* One object is read.
LEMMA ReadOne ==
    ASSUME NEW E, NEW F, ItemsInv(E, F), NEW o \in E \cup F, NEW of \in Items(E, F)!Read(obj[o]),
           obj' = [obj EXCEPT ![o] = of]
    PROVE  /\ obj' \in [E \cup F -> ObjectRecord]
           /\ MenuFits(E, F, listed, obj', menu) /\ CacheFits(E, F, listed, obj', cache)
<1>1. obj \in [E \cup F -> ObjectRecord]
  BY ItemsParts
<1>2. of \in ObjectRecord
  BY <1>1, ReadObject
<1>3. obj' \in [E \cup F -> ObjectRecord]
  BY <1>1, <1>2
<1>4. \A x \in E \cup F : obj'[x] \in Items(E, F)!Read(obj[x])
  BY <1>1, ReadItself
<1>5. MenuFits(E, F, listed, obj, menu) /\ CacheFits(E, F, listed, obj, cache)
  BY DEF ItemsInv
<1> QED
  BY <1>1, <1>3, <1>4, <1>5, ReadKeeps

LEMMA ItemsQuery ==
    ASSUME NEW E, NEW F, ItemsAssumed(E, F), ItemsInv(E, F), NEW o \in E \cup F,
           Items(E, F)!Query(o)
    PROVE  ItemsInv(E, F)'
<1>1. PICK of \in Items(E, F)!Read(obj[o]) : obj' = [obj EXCEPT ![o] = of]
  BY Zenon DEF Items!Query
<1>2. asked' = None /\ UNCHANGED <<listed, activeEnv, menu, cache, byHand, good>>
  BY Zenon DEF Items!Query
<1>3. /\ obj' \in [E \cup F -> ObjectRecord]
      /\ MenuFits(E, F, listed, obj', menu) /\ CacheFits(E, F, listed, obj', cache)
  BY <1>1, ReadOne
<1>4. ItemTypes(E, F)'
  BY <1>2, <1>3 DEF ItemTypes, ItemsInv
<1>5. /\ ListsFit(E, F, listed)
      /\ \A x \in DOMAIN menu : x \in F => menu[x].fresh \/ menu[x].usable = byHand
  BY DEF ItemsInv
<1> QED
  BY <1>2, <1>3, <1>4, <1>5, ItemsUnasked

LEMMA ItemsReload ==
    ASSUME NEW E, NEW F, ItemsAssumed(E, F), ItemsInv(E, F), NEW o \in E \cup F,
           NEW h \in BOOLEAN, Items(E, F)!Reload(o, h)
    PROVE  ItemsInv(E, F)'
<1> DEFINE now(i) == IF i.of = o /\ o \in E THEN [i EXCEPT !.usable = h] ELSE i
<1>1. /\ obj' = [obj EXCEPT ![o].byHand = h]
      /\ menu' = [x \in DOMAIN menu |-> now(menu[x])]
      /\ cache' = [k \in ItemKinds |-> [n \in DOMAIN cache[k] |-> now(cache[k][n])]]
      /\ asked' = None /\ UNCHANGED <<listed, activeEnv, byHand, good>>
  BY DEF Items!Reload, Items!Kinds, ItemKinds
<1>2. /\ obj \in [E \cup F -> ObjectRecord] /\ byHand \in BOOLEAN
      /\ menu \in [DOMAIN menu -> ItemRecord(E, F)]
      /\ cache \in [ItemKinds -> Seq(ItemRecord(E, F))]
  BY ItemsParts
<1>3. /\ obj' \in [E \cup F -> ObjectRecord]
      /\ obj'[o].byHand = h /\ obj'[o].state = obj[o].state
      /\ \A x \in E \cup F : x # o => obj'[x] = obj[x]
  BY <1>1, <1>2 DEF ObjectRecord
<1>4. ASSUME NEW i \in ItemRecord(E, F)
      PROVE  /\ now(i) \in ItemRecord(E, F) /\ now(i).of = i.of /\ now(i).on = i.on
             /\ now(i).unsure = i.unsure /\ now(i).fresh = i.fresh
             /\ i.of = o /\ o \in E => now(i).usable = h
             /\ (i.of # o \/ o \notin E) => now(i).usable = i.usable
  BY DEF ItemRecord
<1> HIDE DEF now
<1>5. ASSUME NEW i \in ItemRecord(E, F), NEW x \in E \cup F, Fits(E, i, x, obj[x])
      PROVE  Fits(E, now(i), x, obj'[x])
  <2>1. i.of = x /\ Tells(i, obj[x]) /\ (x \in E => i.usable = obj[x].byHand)
    BY <1>5 DEF Fits
  <2>2. obj'[x].state = obj[x].state
    BY <1>3
  <2>3. Tells(now(i), obj'[x])
    BY <2>1, <2>2, <1>4, Zenon DEF Tells
  <2>4. x \in E => now(i).usable = obj'[x].byHand
    BY <2>1, <1>3, <1>4
  <2> QED
    BY <2>1, <2>3, <2>4, <1>4 DEF Fits
<1>6. MenuFits(E, F, listed, obj, menu) /\ CacheFits(E, F, listed, obj, cache) /\ ListsFit(E, F, listed)
  BY DEF ItemsInv
<1>7. MenuFits(E, F, listed, obj', menu')
  <2> SUFFICES ASSUME NEW x \in DOMAIN menu
               PROVE  x \in E \cup F /\ KnownIn(E, listed, x) /\ Fits(E, menu'[x], x, obj'[x])
    BY <1>1 DEF MenuFits
  <2>1. x \in E \cup F /\ KnownIn(E, listed, x) /\ Fits(E, menu[x], x, obj[x]) /\ menu[x] \in ItemRecord(E, F)
    BY <1>2, <1>6 DEF MenuFits
  <2> QED
    BY <2>1, <1>1, <1>5
<1>8. CacheFits(E, F, listed, obj', cache')
  <2> SUFFICES ASSUME NEW k \in ItemKinds, NEW n \in DOMAIN cache[k]
               PROVE  FitsAway(E, F, listed, obj', k, cache'[k][n])
    BY <1>1 DEF CacheFits
  <2>1. FitsAway(E, F, listed, obj, k, cache[k][n]) /\ cache[k][n] \in ItemRecord(E, F)
    BY <1>2, <1>6 DEF CacheFits
  <2>2. cache'[k][n] = now(cache[k][n])
    BY <1>1
  <2> QED
    BY <2>1, <2>2, <1>4, <1>5 DEF FitsAway
<1>9. menu' \in [DOMAIN menu' -> ItemRecord(E, F)]
  BY <1>1, <1>2, <1>4
<1>10. cache' \in [ItemKinds -> Seq(ItemRecord(E, F))]
  <2> SUFFICES ASSUME NEW k \in ItemKinds
               PROVE  [n \in DOMAIN cache[k] |-> now(cache[k][n])] \in Seq(ItemRecord(E, F))
    BY <1>1
  <2>1. cache[k] \in Seq(ItemRecord(E, F))
    BY <1>2
  <2>2. \A n \in 1 .. Len(cache[k]) : now(cache[k][n]) \in ItemRecord(E, F)
    BY <2>1, <1>4
  <2> QED
    BY <2>1, <2>2
<1>11. ItemTypes(E, F)'
  BY <1>1, <1>3, <1>9, <1>10 DEF ItemTypes, ItemsInv
<1>12. \A x \in DOMAIN menu' : x \in F => menu'[x].fresh \/ menu'[x].usable = byHand'
  <2> SUFFICES ASSUME NEW x \in DOMAIN menu, x \in F
               PROVE  menu'[x].fresh \/ menu'[x].usable = byHand'
    BY <1>1
  <2>1. menu[x].fresh \/ menu[x].usable = byHand
    BY Zenon DEF ItemsInv
  <2>2. menu[x].of = x /\ x \notin E /\ menu[x] \in ItemRecord(E, F)
    BY <1>2, <1>6 DEF MenuFits, Fits, ItemsAssumed, Items!ModeItemsAssumption
  <2>3. menu'[x] = now(menu[x]) /\ (menu[x].of # o \/ o \notin E)
    BY <1>1, <2>2
  <2>4. menu'[x].fresh = menu[x].fresh /\ menu'[x].usable = menu[x].usable /\ byHand' = byHand
    BY <2>2, <2>3, <1>1, <1>4
  <2> QED
    BY <2>1, <2>4, Zenon
<1> QED
  BY <1>1, <1>6, <1>7, <1>8, <1>11, <1>12, ItemsUnasked

\* Items of locations and those put away, in some order.
LEMMA EnvItemsFit ==
    ASSUME NEW E, NEW F, ItemsAssumed(E, F), NEW l, NEW os,
           NEW m, m \in [DOMAIN m -> ItemRecord(E, F)], MenuFits(E, F, l, os, m),
           NEW c \in [ItemKinds -> Seq(ItemRecord(E, F))], CacheFits(E, F, l, os, c),
           NEW q \in Items(E, F)!EnvItems(m, c)
    PROVE  /\ q \in Seq(ItemRecord(E, F))
           /\ \A n \in DOMAIN q : FitsAway(E, F, l, os, "env", q[n])
<1> DEFINE D == DOMAIN m \cap F
           N == Cardinality(D)
           a(f) == [n \in DOMAIN f |-> m[f[n]]]
<1>0. Items(E, F)!Cardinality(D) = N /\ IsFiniteSet(F)
  BY DEF ItemsAssumed, Items!ModeItemsAssumption, Items!IsFiniteSet, IsFiniteSet,
         Items!Cardinality, Cardinality
<1>1. PICK f \in [1 .. N -> D] : q = a(f) \o c["env"]
  <2>1. PICK f \in Items(E, F)!Orders(D) : q = a(f) \o c["env"]
    BY Zenon DEF Items!EnvItems
  <2>2. f \in [1 .. N -> D]
    BY <1>0 DEF Items!Orders
  <2> QED
    BY <2>1, <2>2
<1>2. N \in Nat
  <2>1. IsFiniteSet(D)
    BY <1>0, FS_Subset
  <2> QED
    BY <2>1, FS_CardinalityType
<1> HIDE DEF N
<1>3. ASSUME NEW n \in 1 .. N
      PROVE  m[f[n]] \in ItemRecord(E, F) /\ FitsAway(E, F, l, os, "env", m[f[n]])
  <2>1. f[n] \in D /\ f[n] \in F /\ f[n] \notin E
    BY DEF ItemsAssumed, Items!ModeItemsAssumption
  <2>2. KnownIn(E, l, f[n]) /\ Fits(E, m[f[n]], f[n], os[f[n]])
    BY <2>1 DEF MenuFits
  <2>3. m[f[n]].of = f[n] /\ KindIn(E, f[n]) = "env"
    BY <2>1, <2>2 DEF Fits, KindIn
  <2> QED
    BY <2>1, <2>2, <2>3 DEF FitsAway
<1>4. /\ a(f) \in Seq(ItemRecord(E, F)) /\ Len(a(f)) = N
      /\ \A n \in 1 .. N : a(f)[n] = m[f[n]]
  BY <1>2, <1>3
<1>5. /\ c["env"] \in Seq(ItemRecord(E, F))
      /\ \A n \in DOMAIN c["env"] : FitsAway(E, F, l, os, "env", c["env"][n])
  BY DEF CacheFits, ItemKinds
<1> DEFINE r == a(f)
           s == c["env"]
<1> HIDE DEF r, s, a
<1>6. q = r \o s /\ r \in Seq(ItemRecord(E, F)) /\ s \in Seq(ItemRecord(E, F)) /\ Len(r) = N
  BY <1>1, <1>4, <1>5 DEF r, s
<1>7. /\ \A n \in 1 .. N : FitsAway(E, F, l, os, "env", r[n])
      /\ \A n \in DOMAIN s : FitsAway(E, F, l, os, "env", s[n])
  BY <1>3, <1>4, <1>5 DEF r, s
<1>8. q \in Seq(ItemRecord(E, F)) /\ Len(q) = N + Len(s)
  BY <1>2, <1>6
<1>9. ASSUME NEW n \in DOMAIN q PROVE FitsAway(E, F, l, os, "env", q[n])
  <2>1. CASE n \leq N
    <3>1. n \in 1 .. N /\ q[n] = r[n]
      BY <2>1, <1>2, <1>6, <1>8
    <3> QED
      BY <3>1, <1>7
  <2>2. CASE n > N
    <3>1. n - N \in DOMAIN s /\ q[n] = s[n - N]
      BY <2>2, <1>2, <1>6, <1>8
    <3> QED
      BY <3>1, <1>7
  <2> QED
    BY <2>1, <2>2, <1>2, <1>8
<1> QED
  BY <1>8, <1>9

LEMMA ItemsFail ==
    ASSUME NEW E, NEW F, ItemsAssumed(E, F), ItemsInv(E, F), Items(E, F)!Fails
    PROVE  ItemsInv(E, F)'
<1>1. PICK q \in Items(E, F)!EnvItems(menu, cache) : cache' = [cache EXCEPT !["env"] = q]
  BY Zenon DEF Items!Fails
<1>2. /\ menu' = [x \in DOMAIN menu \cap E |-> menu[x]]
      /\ asked' = None /\ UNCHANGED <<listed, obj, activeEnv, byHand>>
  BY Zenon DEF Items!Fails
<1>3. /\ menu \in [DOMAIN menu -> ItemRecord(E, F)]
      /\ cache \in [ItemKinds -> Seq(ItemRecord(E, F))]
  BY ItemsParts
<1>4. MenuFits(E, F, listed, obj, menu) /\ CacheFits(E, F, listed, obj, cache) /\ ListsFit(E, F, listed)
  BY DEF ItemsInv
<1>5. /\ q \in Seq(ItemRecord(E, F))
      /\ \A n \in DOMAIN q : FitsAway(E, F, listed, obj, "env", q[n])
  BY <1>3, <1>4, EnvItemsFit
<1>6. ItemTypes(E, F)'
  BY <1>1, <1>2, <1>3, <1>5 DEF ItemTypes, ItemsInv, ItemKinds
<1>7. MenuFits(E, F, listed, obj, menu')
  BY <1>2, <1>4 DEF MenuFits
<1>8. CacheFits(E, F, listed, obj, cache')
  BY <1>1, <1>3, <1>4, <1>5 DEF CacheFits, ItemKinds
<1>9. \A x \in DOMAIN menu' : x \in F => menu'[x].fresh \/ menu'[x].usable = byHand'
  BY <1>2, Zenon DEF ItemsInv
<1> QED
  BY <1>2, <1>4, <1>6, <1>7, <1>8, <1>9, ItemsUnasked

LEMMA ItemsReturn ==
    ASSUME NEW E, NEW F, ItemsAssumed(E, F), ItemsInv(E, F), Items(E, F)!Returns
    PROVE  ItemsInv(E, F)'
<1>1. asked' = None /\ UNCHANGED <<listed, obj, activeEnv, menu, cache, byHand>>
  BY Zenon DEF Items!Returns
<1>2. /\ MenuFits(E, F, listed', obj', menu') /\ CacheFits(E, F, listed', obj', cache')
      /\ ListsFit(E, F, listed') /\ ItemTypes(E, F)'
      /\ \A x \in DOMAIN menu' : x \in F => menu'[x].fresh \/ menu'[x].usable = byHand'
  BY <1>1 DEF ItemsInv, ItemTypes
<1> QED
  BY <1>1, <1>2, ItemsUnasked

\* The switch is set in the menu.
LEMMA SectionFits ==
    ASSUME NEW E, NEW F, ItemsAssumed(E, F), NEW l, NEW os, NEW hand \in BOOLEAN,
           NEW m, m \in [DOMAIN m -> ItemRecord(E, F)], MenuFits(E, F, l, os, m)
    PROVE  LET s == Items(E, F)!SectionSet(m, hand)
           IN  /\ s \in [DOMAIN s -> ItemRecord(E, F)] /\ MenuFits(E, F, l, os, s)
               /\ \A x \in DOMAIN s : x \in F => s[x].usable = hand
<1> DEFINE set(i) == [i EXCEPT !.usable = hand, !.fresh = FALSE]
           s == Items(E, F)!SectionSet(m, hand)
<1>1. s = [x \in DOMAIN m |-> IF x \in F THEN set(m[x]) ELSE m[x]]
  BY DEF Items!SectionSet
<1>2. ASSUME NEW i \in ItemRecord(E, F)
      PROVE  /\ set(i) \in ItemRecord(E, F) /\ set(i).of = i.of /\ set(i).on = i.on
             /\ set(i).unsure = i.unsure /\ set(i).usable = hand
  BY DEF ItemRecord
<1> HIDE DEF set, s
<1>3. ASSUME NEW x \in DOMAIN m
      PROVE  /\ s[x] \in ItemRecord(E, F) /\ x \in E \cup F /\ KnownIn(E, l, x)
             /\ Fits(E, s[x], x, os[x]) /\ (x \in F => s[x].usable = hand)
  <2>1. m[x] \in ItemRecord(E, F) /\ x \in E \cup F /\ KnownIn(E, l, x) /\ Fits(E, m[x], x, os[x])
    BY DEF MenuFits
  <2>2. CASE x \in F
    <3>1. x \notin E /\ s[x] = set(m[x])
      BY <2>2, <1>1 DEF ItemsAssumed, Items!ModeItemsAssumption
    <3>2. /\ s[x].of = m[x].of /\ s[x].on = m[x].on
          /\ s[x].unsure = m[x].unsure
      BY <2>1, <3>1, <1>2, Zenon
    <3>3. Fits(E, s[x], x, os[x])
      BY <2>1, <3>1, <3>2, Zenon DEF Fits, Tells
    <3> QED
      BY <2>1, <3>1, <3>3, <1>2
  <2>3. CASE x \notin F
    BY <2>1, <2>3, <1>1
  <2> QED
    BY <2>2, <2>3
<1>4. DOMAIN s = DOMAIN m
  BY <1>1
<1>5. s \in [DOMAIN s -> ItemRecord(E, F)]
  BY <1>1, <1>3, <1>4
<1>6. MenuFits(E, F, l, os, s)
  BY <1>3, <1>4 DEF MenuFits
<1> QED
  BY <1>3, <1>4, <1>5, <1>6 DEF s

LEMMA ItemsSwitch ==
    ASSUME NEW E, NEW F, ItemsAssumed(E, F), ItemsInv(E, F), NEW hand \in BOOLEAN,
           Items(E, F)!ClickSwitch(hand)
    PROVE  ItemsInv(E, F)'
<1>1. /\ byHand' = hand /\ menu' = Items(E, F)!SectionSet(menu, hand) /\ asked' = None
      /\ UNCHANGED <<listed, obj, activeEnv, cache, good>>
  BY Zenon DEF Items!ClickSwitch
<1>2. menu \in [DOMAIN menu -> ItemRecord(E, F)]
  BY ItemsParts
<1>3. MenuFits(E, F, listed, obj, menu) /\ CacheFits(E, F, listed, obj, cache) /\ ListsFit(E, F, listed)
  BY DEF ItemsInv
<1>4. /\ menu' \in [DOMAIN menu' -> ItemRecord(E, F)] /\ MenuFits(E, F, listed, obj, menu')
      /\ \A x \in DOMAIN menu' : x \in F => menu'[x].usable = hand
  BY <1>1, <1>2, <1>3, SectionFits
<1>5. ItemTypes(E, F)'
  BY <1>1, <1>4 DEF ItemTypes, ItemsInv
<1> QED
  BY <1>1, <1>3, <1>4, <1>5, ItemsUnasked

LEMMA ItemsClickEnv ==
    ASSUME NEW E, NEW F, ItemsAssumed(E, F), ItemsInv(E, F), NEW o \in F,
           Items(E, F)!ClickEnv(o)
    PROVE  ItemsInv(E, F)'
<1> DEFINE i == [menu[o] EXCEPT !.on = (o = activeEnv), !.unsure = TRUE]
<1>1. /\ o \in DOMAIN menu /\ menu' = [menu EXCEPT ![o] = i] /\ asked' = None
      /\ UNCHANGED <<listed, obj, activeEnv, cache, byHand, good>>
  BY DEF Items!ClickEnv
<1>2. menu \in [DOMAIN menu -> ItemRecord(E, F)]
  BY ItemsParts
<1>3. MenuFits(E, F, listed, obj, menu) /\ CacheFits(E, F, listed, obj, cache) /\ ListsFit(E, F, listed)
  BY DEF ItemsInv
<1>4. /\ i \in ItemRecord(E, F) /\ i.of = menu[o].of /\ i.unsure = TRUE
      /\ i.usable = menu[o].usable /\ i.fresh = menu[o].fresh
  BY <1>1, <1>2 DEF ItemRecord
<1> HIDE DEF i
<1>5. /\ menu' \in [DOMAIN menu' -> ItemRecord(E, F)] /\ DOMAIN menu' = DOMAIN menu
      /\ menu'[o] = i /\ \A x \in DOMAIN menu : x # o => menu'[x] = menu[x]
  BY <1>1, <1>2, <1>4
<1>6. Fits(E, i, o, obj[o])
  <2>1. Fits(E, menu[o], o, obj[o]) /\ o \notin E
    BY <1>1, <1>3 DEF MenuFits, ItemsAssumed, Items!ModeItemsAssumption
  <2> QED
    BY <2>1, <1>4, Zenon DEF Fits, Tells
<1>7. MenuFits(E, F, listed, obj, menu')
  BY <1>3, <1>5, <1>6 DEF MenuFits
<1>8. ItemTypes(E, F)'
  BY <1>1, <1>5 DEF ItemTypes, ItemsInv
<1>9. \A x \in DOMAIN menu' : x \in F => menu'[x].fresh \/ menu'[x].usable = byHand'
  <2>1. \A x \in DOMAIN menu : x \in F => menu[x].fresh \/ menu[x].usable = byHand
    BY Zenon DEF ItemsInv
  <2> QED
    BY <2>1, <1>1, <1>4, <1>5, Zenon
<1> QED
  BY <1>1, <1>3, <1>7, <1>8, <1>9, ItemsUnasked

\* The click asks for the opposite of what the object is, and so of what its
\* item says, unless that could not be read.
LEMMA ItemsClickEnm ==
    ASSUME NEW E, NEW F, ItemsAssumed(E, F), ItemsInv(E, F), NEW o \in E,
           Items(E, F)!ClickEnm(o)
    PROVE  ItemsInv(E, F)'
<1>1. PICK of \in Items(E, F)!Read(obj[o]) :
          /\ obj' = [obj EXCEPT ![o] = of]
          /\ asked' = <<o, ~Items(E, F)!Active(of)>>
  BY Zenon DEF Items!ClickEnm
<1>2. o \in DOMAIN menu /\ UNCHANGED <<listed, activeEnv, menu, cache, byHand, good>>
  BY Zenon DEF Items!ClickEnm
<1>3. /\ obj' \in [E \cup F -> ObjectRecord]
      /\ MenuFits(E, F, listed, obj', menu) /\ CacheFits(E, F, listed, obj', cache)
  BY <1>1, ReadOne
<1>4. ItemTypes(E, F)'
  BY <1>2, <1>3 DEF ItemTypes, ItemsInv
<1>5. asked' = <<o, menu[o].on>> => menu[o].unsure
  <2>1. Fits(E, menu[o], o, obj'[o])
    BY <1>2, <1>3 DEF MenuFits
  <2>2. obj'[o] = of
    BY <1>1, ItemsParts
  <2>3. menu[o].unsure \/ menu[o].on = Items(E, F)!Active(of)
    BY <2>1, <2>2, Zenon DEF Fits, Tells, Items!Active
  <2>4. Items(E, F)!Active(of) \in BOOLEAN
    BY DEF Items!Active
  <2> QED
    BY <2>3, <2>4, <1>1
<1>6. \A x \in DOMAIN menu : /\ x \in F => menu[x].fresh \/ menu[x].usable = byHand
                             /\ asked' = <<x, menu[x].on>> => menu[x].unsure
  <2>1. \A x \in DOMAIN menu : x \in F => menu[x].fresh \/ menu[x].usable = byHand
    BY Zenon DEF ItemsInv
  <2>2. ASSUME NEW x, asked' = <<x, menu[x].on>> PROVE x = o
    BY <2>2, <1>1
  <2> QED
    BY <2>1, <2>2, <1>5, Zenon
<1>7. ListsFit(E, F, listed)
  BY DEF ItemsInv
<1> QED
  BY <1>2, <1>3, <1>4, <1>6, <1>7 DEF ItemsInv

\* An object's state was told: its items, in the menu or put away, say so.
LEMMA ToldKeeps ==
    ASSUME NEW E, NEW F, NEW l, NEW os \in [E \cup F -> ObjectRecord], NEW o \in E \cup F,
           NEW x \in ObjectRecord, x.byHand = os[o].byHand,
           NEW m, m \in [DOMAIN m -> ItemRecord(E, F)], MenuFits(E, F, l, os, m),
           NEW c \in [ItemKinds -> Seq(ItemRecord(E, F))], CacheFits(E, F, l, os, c)
    PROVE  LET os2 == [os EXCEPT ![o] = x]
               m2  == Items(E, F)!MenuTold(m, o, x)
               c2  == Items(E, F)!CacheTold(c, o, x)
           IN  /\ os2 \in [E \cup F -> ObjectRecord]
               /\ m2 \in [DOMAIN m2 -> ItemRecord(E, F)] /\ MenuFits(E, F, l, os2, m2)
               /\ c2 \in [ItemKinds -> Seq(ItemRecord(E, F))] /\ CacheFits(E, F, l, os2, c2)
<1> DEFINE os2 == [os EXCEPT ![o] = x]
           m2  == Items(E, F)!MenuTold(m, o, x)
           c2  == Items(E, F)!CacheTold(c, o, x)
           now(i) == IF i.of = o THEN Items(E, F)!Told(i, x) ELSE i
<1>1. /\ m2 = [y \in DOMAIN m |-> now(m[y])]
      /\ c2 = [k \in ItemKinds |-> [n \in DOMAIN c[k] |-> now(c[k][n])]]
  BY DEF Items!MenuTold, Items!CacheTold, Items!Kinds, ItemKinds
<1>2. /\ os2 \in [E \cup F -> ObjectRecord] /\ os2[o] = x
      /\ \A y \in E \cup F : y # o => os2[y] = os[y]
  OBVIOUS
<1> HIDE DEF os2, m2, c2
<1>3. ASSUME NEW i \in ItemRecord(E, F)
      PROVE  now(i) \in ItemRecord(E, F) /\ now(i).of = i.of
  BY ToldItem
<1>4. ASSUME NEW i \in ItemRecord(E, F), NEW y \in E \cup F, Fits(E, i, y, os[y])
      PROVE  Fits(E, now(i), y, os2[y])
  <2>1. i.of = y
    BY <1>4 DEF Fits
  <2>2. CASE y = o
    <3>1. i.of = o /\ (o \in E => i.usable = x.byHand)
      BY <1>4, <2>2 DEF Fits
    <3>2. Fits(E, Items(E, F)!Told(i, x), o, x)
      BY <3>1, ToldItem
    <3> QED
      BY <3>1, <3>2, <2>2, <1>2
  <2>3. CASE y # o
    BY <2>1, <2>3, <1>2, <1>4
  <2> QED
    BY <2>2, <2>3
<1> HIDE DEF now
<1>5. m2 \in [DOMAIN m2 -> ItemRecord(E, F)]
  BY <1>1, <1>3
<1>6. MenuFits(E, F, l, os2, m2)
  <2> SUFFICES ASSUME NEW y \in DOMAIN m
               PROVE  y \in E \cup F /\ KnownIn(E, l, y) /\ Fits(E, m2[y], y, os2[y])
    BY <1>1 DEF MenuFits
  <2>1. m[y] \in ItemRecord(E, F) /\ y \in E \cup F /\ KnownIn(E, l, y) /\ Fits(E, m[y], y, os[y])
    BY DEF MenuFits
  <2> QED
    BY <2>1, <1>1, <1>4
<1>7. c2 \in [ItemKinds -> Seq(ItemRecord(E, F))]
  <2> SUFFICES ASSUME NEW k \in ItemKinds
               PROVE  [n \in DOMAIN c[k] |-> now(c[k][n])] \in Seq(ItemRecord(E, F))
    BY <1>1
  <2>1. c[k] \in Seq(ItemRecord(E, F))
    OBVIOUS
  <2>2. \A n \in 1 .. Len(c[k]) : now(c[k][n]) \in ItemRecord(E, F)
    BY <2>1, <1>3
  <2> QED
    BY <2>1, <2>2
<1>8. CacheFits(E, F, l, os2, c2)
  <2> SUFFICES ASSUME NEW k \in ItemKinds, NEW n \in DOMAIN c[k]
               PROVE  FitsAway(E, F, l, os2, k, c2[k][n])
    BY <1>1 DEF CacheFits
  <2>1. FitsAway(E, F, l, os, k, c[k][n]) /\ c[k][n] \in ItemRecord(E, F)
    BY DEF CacheFits
  <2>2. c2[k][n] = now(c[k][n])
    BY <1>1
  <2> QED
    BY <2>1, <2>2, <1>3, <1>4 DEF FitsAway
<1> QED
  BY <1>2, <1>5, <1>6, <1>7, <1>8 DEF os2, m2, c2

\* Telling leaves open whether the item can be used.
LEMMA ToldUse ==
    ASSUME NEW E, NEW F, NEW o, NEW x \in ObjectRecord, NEW m, m \in [DOMAIN m -> ItemRecord(E, F)]
    PROVE  LET m2 == Items(E, F)!MenuTold(m, o, x)
           IN  /\ DOMAIN m2 = DOMAIN m
               /\ \A y \in DOMAIN m : m2[y].fresh = m[y].fresh /\ m2[y].usable = m[y].usable
<1>1. ASSUME NEW i \in ItemRecord(E, F)
      PROVE  Items(E, F)!Told(i, x).fresh = i.fresh /\ Items(E, F)!Told(i, x).usable = i.usable
  BY ToldItem
<1> QED
  BY <1>1 DEF Items!MenuTold

LEMMA RestFacts ==
    ASSUME NEW S, NEW q \in Seq(S), NEW n \in Nat
    PROVE  /\ SubSeq(q, n + 1, Len(q)) \in Seq(S)
           /\ \A k \in DOMAIN SubSeq(q, n + 1, Len(q)) :
                 \E j \in DOMAIN q : SubSeq(q, n + 1, Len(q))[k] = q[j]
<1> DEFINE r == SubSeq(q, n + 1, Len(q))
<1>1. CASE n + 1 > Len(q)
  BY <1>1
<1>2. CASE n + 1 \leq Len(q)
  <2>1. /\ r \in Seq(S) /\ Len(r) = Len(q) - n
        /\ \A k \in 1 .. Len(q) - n : r[k] = q[n + k]
    BY <1>2, SubSeqProperties
  <2> HIDE DEF r
  <2>2. \A k \in DOMAIN r : n + k \in DOMAIN q /\ r[k] = q[n + k]
    BY <1>2, <2>1
  <2>3. r \in Seq(S) /\ (\A k \in DOMAIN r : \E j \in DOMAIN q : r[k] = q[j])
    BY <2>1, <2>2
  <2> QED
    BY <2>3 DEF r
<1> QED
  BY <1>1, <1>2

\* The items of locations are made anew.
LEMMA RecreatedFits ==
    ASSUME NEW E, NEW F, ItemsAssumed(E, F), ListsFit(E, F, listed),
           NEW os \in [E \cup F -> ObjectRecord],
           NEW q \in Seq(ItemRecord(E, F)),
           \A n \in DOMAIN q : FitsAway(E, F, listed, os, "env", q[n])
    PROVE  LET r == Items(E, F)!Recreated(q, os)
           IN  /\ DOMAIN r.items = {listed["env"][n] : n \in DOMAIN listed["env"]}
               /\ \A x \in DOMAIN r.items :
                     /\ x \in F /\ KnownIn(E, listed, x)
                     /\ r.items[x] \in ItemRecord(E, F) /\ Fits(E, r.items[x], x, os[x])
               /\ r.rest \in Seq(ItemRecord(E, F))
               /\ \A n \in DOMAIN r.rest : FitsAway(E, F, listed, os, "env", r.rest[n])
<1> DEFINE l == listed["env"]
           at(x) == CHOOSE n \in DOMAIN l : l[n] = x
           item(x) == IF at(x) \in DOMAIN q THEN Items(E, F)!Reused(q[at(x)], x, os[x])
                      ELSE Items(E, F)!Made(x, os[x])
           r == Items(E, F)!Recreated(q, os)
<1>1. r.items = [x \in {l[n] : n \in DOMAIN l} |-> item(x)]
  BY DEF Items!Recreated
<1>2. r.rest = SubSeq(q, Len(l) + 1, Len(q))
  BY DEF Items!Recreated
<1>3. l \in Seq(F)
  BY DEF ListsFit
<1> HIDE DEF r
<1>4. ASSUME NEW x \in {l[n] : n \in DOMAIN l}
      PROVE  x \in F /\ KnownIn(E, listed, x)
  <2>1. x \in F
    BY <1>3
  <2>2. KindIn(E, x) = "env"
    BY <2>1 DEF KindIn, ItemsAssumed, Items!ModeItemsAssumption
  <2> QED
    BY <2>1, <2>2 DEF KnownIn
<1>5. ASSUME NEW x \in {l[n] : n \in DOMAIN l}
      PROVE  item(x) \in ItemRecord(E, F) /\ Fits(E, item(x), x, os[x])
  <2>1. x \in E \cup F /\ os[x] \in ObjectRecord
    BY <1>4
  <2>2. CASE at(x) \in DOMAIN q
    <3> DEFINE i == q[at(x)]
    <3>1. i \in ItemRecord(E, F) /\ FitsAway(E, F, listed, os, "env", i)
      BY <2>2
    <3>2. item(x) = Items(E, F)!Reused(i, x, os[x])
      BY <2>2
    <3> HIDE DEF i, item
    <3>3. i.of = x => Fits(E, i, x, os[x])
      BY <2>1, <3>1 DEF FitsAway, ItemsAssumed, Items!ModeItemsAssumption
    <3> DEFINE y == os[x]
    <3>4. item(x) = Items(E, F)!Reused(i, x, y) /\ y \in ObjectRecord /\ (i.of = x => Fits(E, i, x, y))
      BY <2>1, <3>2, <3>3
    <3> HIDE DEF y, at, l
    <3>5. /\ Items(E, F)!Reused(i, x, y) \in ItemRecord(E, F)
          /\ Fits(E, Items(E, F)!Reused(i, x, y), x, y)
      BY <2>1, <3>1, <3>4, ReusedItem
    <3> QED
      BY <3>4, <3>5 DEF y
  <2>3. CASE at(x) \notin DOMAIN q
    <3>1. item(x) = Items(E, F)!Made(x, os[x])
      BY <2>3
    <3> HIDE DEF item
    <3> QED
      BY <2>1, <3>1, MadeItem
  <2> QED
    BY <2>2, <2>3
<1> HIDE DEF item
<1>6. r.rest \in Seq(ItemRecord(E, F)) /\ (\A n \in DOMAIN r.rest :
          FitsAway(E, F, listed, os, "env", r.rest[n]))
  <2>1. Len(l) \in Nat
    BY <1>3
  <2> DEFINE n == Len(l)
  <2> HIDE DEF n
  <2>2. r.rest = SubSeq(q, n + 1, Len(q)) /\ n \in Nat
    BY <2>1, <1>2 DEF n
  <2>3. /\ SubSeq(q, n + 1, Len(q)) \in Seq(ItemRecord(E, F))
        /\ \A k \in DOMAIN SubSeq(q, n + 1, Len(q)) :
              \E j \in DOMAIN q : SubSeq(q, n + 1, Len(q))[k] = q[j]
    BY <2>2, RestFacts, Zenon
  <2>4. /\ r.rest \in Seq(ItemRecord(E, F))
        /\ \A k \in DOMAIN r.rest : \E j \in DOMAIN q : r.rest[k] = q[j]
    BY <2>2, <2>3, Zenon
  <2> QED
    BY <2>4
<1> QED
  BY <1>1, <1>4, <1>5, <1>6 DEF r

LEMMA ItemsInit ==
    ASSUME NEW E, NEW F, ItemsAssumed(E, F), Items(E, F)!Init
    PROVE  ItemsInv(E, F)
<1>1. /\ listed = [k \in ItemKinds |-> <<>>] /\ cache = [k \in ItemKinds |-> <<>>]
      /\ obj = [o \in E \cup F |-> Items(E, F)!New] /\ menu = [o \in {} |-> None]
      /\ byHand = FALSE
  BY DEF Items!Init, Items!Kinds, ItemKinds, Items!Objects
<1>2. Items(E, F)!New \in ObjectRecord
  BY DEF Items!New, ObjectRecord
<1>3. ItemTypes(E, F) /\ ListsFit(E, F, listed)
  <2>1. obj \in [E \cup F -> ObjectRecord] /\ byHand \in BOOLEAN
    BY <1>1, <1>2
  <2>2. menu \in [DOMAIN menu -> ItemRecord(E, F)]
    BY <1>1
  <2>3. listed \in [ItemKinds -> Seq(E \cup F)] /\ cache \in [ItemKinds -> Seq(ItemRecord(E, F))]
    BY <1>1
  <2>4. listed["enm"] = <<>> /\ listed["env"] = <<>>
    BY <1>1 DEF ItemKinds
  <2> QED
    BY <2>1, <2>2, <2>3, <2>4 DEF ItemTypes, ListsFit
<1>4. MenuFits(E, F, listed, obj, menu) /\ CacheFits(E, F, listed, obj, cache)
  BY <1>1 DEF MenuFits, CacheFits
<1> QED
  BY <1>1, <1>3, <1>4 DEF ItemsInv

LEMMA ItemsInvTells ==
    ASSUME NEW E, NEW F, ItemsInv(E, F)
    PROVE  Items(E, F)!ItemsTell
<1> SUFFICES ASSUME NEW o \in DOMAIN menu
             PROVE  /\ menu[o].of = o
                    /\ menu[o].unsure \/ menu[o].on = Items(E, F)!Active(obj[o])
                    /\ o \in E => menu[o].usable = obj[o].byHand
                    /\ o \in F => menu[o].fresh \/ menu[o].usable = byHand
                    /\ asked = <<o, menu[o].on>> => menu[o].unsure
  BY DEF Items!ItemsTell
<1>1. Fits(E, menu[o], o, obj[o])
  BY DEF ItemsInv, MenuFits
<1>2. /\ o \in F => menu[o].fresh \/ menu[o].usable = byHand
      /\ asked = <<o, menu[o].on>> => menu[o].unsure
  BY Zenon DEF ItemsInv
<1> QED
  BY <1>1, <1>2, Zenon DEF Fits, Tells, Items!Active

LEMMA ItemsState ==
    ASSUME NEW E, NEW F, ItemsAssumed(E, F), ItemsInv(E, F), NEW o \in E \cup F,
           Items(E, F)!StateEvent(o)
    PROVE  ItemsInv(E, F)'
<1>1. PICK s \in Items(E, F)!States \ {"unread"} :
          LET of   == [obj[o] EXCEPT !.state = s]
              os   == [obj EXCEPT ![o] = of]
              told == Items(E, F)!StateChanged(o, s)
              m    == IF told THEN Items(E, F)!MenuTold(menu, o, of) ELSE menu
              c    == IF told THEN Items(E, F)!CacheTold(cache, o, of) ELSE cache
              hand == Items(E, F)!SelectionIsManual(listed, os)
          IN  IF o \in F /\ s = "active"
              THEN /\ activeEnv' = o
                   /\ byHand' = hand
                   /\ IF o = activeEnv
                      THEN obj' = os /\ menu' = Items(E, F)!SectionSet(m, hand) /\ cache' = c
                      ELSE \E f \in [F -> Items(E, F)!States] :
                           LET read == [x \in E \cup F |-> IF x \in F THEN [os[x] EXCEPT !.state = f[x]] ELSE os[x]] IN
                           /\ \A x \in F : read[x] \in Items(E, F)!Read(os[x])
                           /\ \E q \in Items(E, F)!EnvItems(m, c) :
                              LET r == Items(E, F)!Recreated(q, read)
                              IN  /\ obj' = read
                                  /\ menu' = Items(E, F)!SectionSet(
                                                [x \in (DOMAIN m \cap E) \cup DOMAIN r.items |->
                                                    IF x \in E THEN m[x] ELSE r.items[x]], hand)
                                  /\ cache' = [c EXCEPT !["env"] = r.rest]
              ELSE obj' = os /\ menu' = m /\ cache' = c /\ UNCHANGED <<activeEnv, byHand>>
  BY Zenon DEF Items!StateEvent, Items!Objects
<1>2. asked' = None /\ UNCHANGED <<listed, good>>
  BY Zenon DEF Items!StateEvent
<1> DEFINE of   == [obj[o] EXCEPT !.state = s]
           os   == [obj EXCEPT ![o] = of]
           told == Items(E, F)!StateChanged(o, s)
           m    == IF told THEN Items(E, F)!MenuTold(menu, o, of) ELSE menu
           c    == IF told THEN Items(E, F)!CacheTold(cache, o, of) ELSE cache
           hand == Items(E, F)!SelectionIsManual(listed, os)
<1>3. /\ obj \in [E \cup F -> ObjectRecord] /\ byHand \in BOOLEAN
      /\ listed \in [ItemKinds -> Seq(E \cup F)]
      /\ menu \in [DOMAIN menu -> ItemRecord(E, F)]
      /\ cache \in [ItemKinds -> Seq(ItemRecord(E, F))]
  BY ItemsParts
<1>4. MenuFits(E, F, listed, obj, menu) /\ CacheFits(E, F, listed, obj, cache) /\ ListsFit(E, F, listed)
  BY DEF ItemsInv
<1>5. of \in ObjectRecord /\ of.byHand = obj[o].byHand
  BY <1>3 DEF ObjectRecord, Items!States
<1>6. /\ os \in [E \cup F -> ObjectRecord]
      /\ m \in [DOMAIN m -> ItemRecord(E, F)] /\ MenuFits(E, F, listed, os, m)
      /\ c \in [ItemKinds -> Seq(ItemRecord(E, F))] /\ CacheFits(E, F, listed, os, c)
      /\ DOMAIN m = DOMAIN menu
      /\ \A y \in DOMAIN menu : m[y].fresh = menu[y].fresh /\ m[y].usable = menu[y].usable
  <2> HIDE DEF of
  <2>1. CASE told
    <3>1. m = Items(E, F)!MenuTold(menu, o, of) /\ c = Items(E, F)!CacheTold(cache, o, of)
      BY <2>1
    <3> HIDE DEF m, c
    <3>2. /\ os \in [E \cup F -> ObjectRecord]
          /\ m \in [DOMAIN m -> ItemRecord(E, F)] /\ MenuFits(E, F, listed, os, m)
          /\ c \in [ItemKinds -> Seq(ItemRecord(E, F))] /\ CacheFits(E, F, listed, os, c)
      BY <3>1, <1>3, <1>4, <1>5, ToldKeeps
    <3>3. /\ DOMAIN m = DOMAIN menu
          /\ \A y \in DOMAIN menu : m[y].fresh = menu[y].fresh /\ m[y].usable = menu[y].usable
      BY <3>1, <1>3, <1>5, ToldUse
    <3> QED
      BY <3>2, <3>3
  <2>2. CASE ~told
    <3>1. s = obj[o].state /\ obj[o] \in ObjectRecord
      BY <2>2, <1>3 DEF Items!StateChanged
    <3>2. of = obj[o]
      BY <3>1 DEF of, ObjectRecord
    <3>3. os = obj /\ m = menu /\ c = cache
      BY <3>2, <2>2, <1>3
    <3> HIDE DEF os, m, c
    <3> QED
      BY <3>3, <1>3, <1>4
  <2> QED
    BY <2>1, <2>2
<1>7. hand \in BOOLEAN
  BY DEF Items!SelectionIsManual
<1>8. CASE o \in F /\ s = "active" /\ o = activeEnv
  <2>1. byHand' = hand /\ obj' = os /\ menu' = Items(E, F)!SectionSet(m, hand) /\ cache' = c
    BY <1>1, <1>8
  <2> HIDE DEF of, os, told, m, c, hand
  <2>2. /\ menu' \in [DOMAIN menu' -> ItemRecord(E, F)] /\ MenuFits(E, F, listed, os, menu')
        /\ \A x \in DOMAIN menu' : x \in F => menu'[x].usable = hand
    <3>1. /\ m \in [DOMAIN m -> ItemRecord(E, F)] /\ MenuFits(E, F, listed, os, m)
          /\ menu' = Items(E, F)!SectionSet(m, hand)
      BY <2>1, <1>6
    <3> QED
      BY <3>1, <1>7, SectionFits
  <2>3. ItemTypes(E, F)'
    BY <2>1, <2>2, <1>2, <1>3, <1>6, <1>7 DEF ItemTypes
  <2> QED
    BY <2>1, <2>2, <2>3, <1>2, <1>4, <1>6, ItemsUnasked
<1>9. CASE o \in F /\ s = "active" /\ o # activeEnv
  <2>1. byHand' = hand
    BY <1>1, <1>9
  <2>2. PICK f \in [F -> Items(E, F)!States] :
           LET read == [x \in E \cup F |-> IF x \in F THEN [os[x] EXCEPT !.state = f[x]] ELSE os[x]] IN
           /\ \A x \in F : read[x] \in Items(E, F)!Read(os[x])
           /\ \E q \in Items(E, F)!EnvItems(m, c) :
              LET r == Items(E, F)!Recreated(q, read)
              IN  /\ obj' = read
                  /\ menu' = Items(E, F)!SectionSet([x \in (DOMAIN m \cap E) \cup DOMAIN r.items |->
                                                        IF x \in E THEN m[x] ELSE r.items[x]], hand)
                  /\ cache' = [c EXCEPT !["env"] = r.rest]
    BY <1>1, <1>9
  <2> HIDE DEF of, os, told, m, c, hand
  <2> DEFINE read == [x \in E \cup F |-> IF x \in F THEN [os[x] EXCEPT !.state = f[x]] ELSE os[x]]
  <2>3. PICK q \in Items(E, F)!EnvItems(m, c) :
           LET r == Items(E, F)!Recreated(q, read)
           IN  /\ obj' = read
               /\ menu' = Items(E, F)!SectionSet([x \in (DOMAIN m \cap E) \cup DOMAIN r.items |->
                                                     IF x \in E THEN m[x] ELSE r.items[x]], hand)
               /\ cache' = [c EXCEPT !["env"] = r.rest]
    BY <2>2
  <2>4. \A x \in E \cup F : read[x] \in Items(E, F)!Read(os[x])
    <3>1. \A x \in F : read[x] \in Items(E, F)!Read(os[x])
      BY <2>2
    <3>2. ASSUME NEW x \in E \cup F, x \notin F PROVE read[x] \in Items(E, F)!Read(os[x])
      BY <3>2, <1>6, ReadItself
    <3> QED
      BY <3>1, <3>2
  <2>5. DOMAIN read = E \cup F
    OBVIOUS
  <2>6. read = [x \in E \cup F |-> read[x]]
    OBVIOUS
  <2> DEFINE r  == Items(E, F)!Recreated(q, read)
             m2 == [x \in (DOMAIN m \cap E) \cup DOMAIN r.items |-> IF x \in E THEN m[x] ELSE r.items[x]]
  <2>7. obj' = read /\ menu' = Items(E, F)!SectionSet(m2, hand) /\ cache' = [c EXCEPT !["env"] = r.rest]
    BY <2>3
  <2> HIDE DEF read, r, m2
  <2>8. read \in [E \cup F -> ObjectRecord]
    <3>1. \A x \in E \cup F : read[x] \in ObjectRecord
      BY <2>4, <1>6, ReadObject
    <3> QED
      BY <3>1, <2>6
  <2>9. MenuFits(E, F, listed, read, m) /\ CacheFits(E, F, listed, read, c)
    BY <2>4, <2>8, <1>6, ReadKeeps
  <2>10. /\ q \in Seq(ItemRecord(E, F))
         /\ \A n \in DOMAIN q : FitsAway(E, F, listed, read, "env", q[n])
    BY <2>9, <1>6, EnvItemsFit
  <2>11. /\ \A x \in DOMAIN r.items :
               /\ x \in F /\ KnownIn(E, listed, x)
               /\ r.items[x] \in ItemRecord(E, F) /\ Fits(E, r.items[x], x, read[x])
         /\ r.rest \in Seq(ItemRecord(E, F))
         /\ \A n \in DOMAIN r.rest : FitsAway(E, F, listed, read, "env", r.rest[n])
    BY <2>8, <2>10, <1>4, RecreatedFits DEF r
  <2>12. E \cap F = {}
    BY DEF ItemsAssumed, Items!ModeItemsAssumption
  <2>13. m2 \in [DOMAIN m2 -> ItemRecord(E, F)] /\ MenuFits(E, F, listed, read, m2)
    <3>1. ASSUME NEW x \in DOMAIN m2
          PROVE  /\ m2[x] \in ItemRecord(E, F) /\ x \in E \cup F /\ KnownIn(E, listed, x)
                 /\ Fits(E, m2[x], x, read[x])
      <4>1. CASE x \in E
        <5>1. x \in DOMAIN m /\ m2[x] = m[x]
          BY <4>1, <2>11, <2>12 DEF m2
        <5> QED
          BY <5>1, <2>9, <1>6 DEF MenuFits
      <4>2. CASE x \notin E
        <5>1. x \in DOMAIN r.items /\ m2[x] = r.items[x]
          BY <4>2 DEF m2
        <5> QED
          BY <5>1, <2>11
      <4> QED
        BY <4>1, <4>2
    <3>2. m2 \in [DOMAIN m2 -> ItemRecord(E, F)]
      BY <3>1 DEF m2
    <3>3. MenuFits(E, F, listed, read, m2)
      BY <3>1 DEF MenuFits
    <3> QED
      BY <3>2, <3>3
  <2>14. /\ menu' \in [DOMAIN menu' -> ItemRecord(E, F)] /\ MenuFits(E, F, listed, read, menu')
         /\ \A x \in DOMAIN menu' : x \in F => menu'[x].usable = hand
    BY <2>7, <2>13, <1>7, SectionFits
  <2>15. cache' \in [ItemKinds -> Seq(ItemRecord(E, F))]
    BY <2>7, <2>11, <1>6
  <2>16. CacheFits(E, F, listed, read, cache')
    BY <2>7, <2>9, <2>11, <1>6 DEF CacheFits, ItemKinds
  <2>17. ItemTypes(E, F)'
    BY <2>1, <2>7, <2>8, <2>14, <2>15, <1>2, <1>3, <1>7 DEF ItemTypes
  <2> QED
    BY <2>1, <2>7, <2>14, <2>16, <2>17, <1>2, <1>4, ItemsUnasked
<1>10. CASE ~(o \in F /\ s = "active")
  <2>1. obj' = os /\ menu' = m /\ cache' = c /\ byHand' = byHand
    BY <1>1, <1>10
  <2> HIDE DEF of, os, told, m, c, hand
  <2>2. ItemTypes(E, F)'
    BY <2>1, <1>2, <1>3, <1>6 DEF ItemTypes
  <2>3. \A x \in DOMAIN menu' : x \in F => menu'[x].fresh \/ menu'[x].usable = byHand'
    <3>1. \A x \in DOMAIN menu : x \in F => menu[x].fresh \/ menu[x].usable = byHand
      BY Zenon DEF ItemsInv
    <3> QED
      BY <3>1, <2>1, <1>6, Zenon
  <2> QED
    BY <2>1, <2>2, <2>3, <1>2, <1>4, <1>6, ItemsUnasked
<1> QED
  BY <1>8, <1>9, <1>10, Zenon

\* A step of the items.
LEMMA ItemsKeeps ==
    ASSUME NEW E, NEW F, ItemsAssumed(E, F), ItemsInv(E, F), [Items(E, F)!Next]_(Items(E, F)!vars)
    PROVE  ItemsInv(E, F)'
<1>1. CASE UNCHANGED Items(E, F)!vars
  <2>1. UNCHANGED <<listed, obj, activeEnv, menu, cache, byHand, good, asked>>
    BY <1>1 DEF Items!vars
  <2> QED
    BY <2>1 DEF ItemsInv, ItemTypes
<1>2. CASE Items(E, F)!Next
  <2>1. ASSUME NEW o \in E \cup F, Items(E, F)!AddObject(o) PROVE ItemsInv(E, F)'
    BY <2>1, ItemsAdd
  <2>2. ASSUME NEW o \in E \cup F, Items(E, F)!RemoveObject(o) PROVE ItemsInv(E, F)'
    BY <2>2, ItemsRemove
  <2>3. ASSUME NEW o \in E \cup F, Items(E, F)!StateEvent(o) PROVE ItemsInv(E, F)'
    BY <2>3, ItemsState
  <2>4. ASSUME NEW o \in E \cup F, Items(E, F)!Query(o) PROVE ItemsInv(E, F)'
    BY <2>4, ItemsQuery
  <2>5. ASSUME NEW o \in E \cup F, NEW h \in BOOLEAN, Items(E, F)!Reload(o, h) PROVE ItemsInv(E, F)'
    BY <2>5, ItemsReload
  <2>6. ASSUME NEW o \in E, Items(E, F)!ClickEnm(o) PROVE ItemsInv(E, F)'
    BY <2>6, ItemsClickEnm
  <2>7. ASSUME NEW o \in F, Items(E, F)!ClickEnv(o) PROVE ItemsInv(E, F)'
    BY <2>7, ItemsClickEnv
  <2>8. ASSUME NEW h \in BOOLEAN, Items(E, F)!ClickSwitch(h) PROVE ItemsInv(E, F)'
    BY <2>8, ItemsSwitch
  <2>9. CASE Items(E, F)!Fails
    BY <2>9, ItemsFail
  <2>10. CASE Items(E, F)!Returns
    BY <2>10, ItemsReturn
  <2> QED
    BY <1>2, <2>1, <2>2, <2>3, <2>4, <2>5, <2>6, <2>7, <2>8, <2>9, <2>10, Zenon
       DEF Items!Next, Items!Objects
<1> QED
  BY <1>1, <1>2, Zenon

-----------------------------------------------------------------------------
(* The views of NCUs (NcuViews).                                             *)

NcuRecord == [iface : Views!Ifaces, link : Views!LinkStates, conn : Views!Conns,
              mode : {"manual", "prioritized"}]
LineRecord == [of : ViewedNcus \cup {None}, heard : SUBSET ViewedNcus, text : Views!Conns,
               early : BOOLEAN]
ViewRecord == [rec : NcuRecord, text : Views!Conns \cup {None}, early : BOOLEAN]

ViewTypes ==
    /\ lists \in [ViewNcps -> Seq(ViewedNcus)] /\ obj \in [ViewedNcus -> NcuRecord]
    /\ shownNcp \in ViewNcps \cup {None} /\ lines \in Seq(LineRecord)

\* The NCU is in the list of its NCP.
InList(l, n) == \E k \in DOMAIN l[NcpOf[n]] : l[NcpOf[n]][k] = n

\* Every list has NCUs of its NCP, each once.
ListsRight(l) ==
    \A p \in ViewNcps :
        /\ \A k \in DOMAIN l[p] : NcpOf[l[p][k]] = p
        /\ \A j, k \in DOMAIN l[p] : l[p][j] = l[p][k] => j = k

\* A line listens to the NCU it has and says what was made of it, unless it
\* was written too early.
LineRight(l, os, line) ==
    /\ line.of = None => line.heard = {}
    /\ line.of # None => /\ InList(l, line.of) /\ line.heard = {line.of}
                         /\ line.early \/ line.text = os[line.of].conn
LinesRight(l, os, ls) == \A k \in DOMAIN ls : LineRight(l, os, ls[k])

\* The lines are those of a list, in its order.
LinesOf(ls, l) == Len(ls) = Len(l) /\ \A k \in DOMAIN ls : ls[k].of = l[k]

\* The items are those of a list, and can be used if the NCU is chosen by hand.
ItemsOf(l, os, s) ==
    /\ DOMAIN s = {l[k] : k \in DOMAIN l}
    /\ \A n \in DOMAIN s : s[n] = (os[n].mode = "manual")

ViewsInv ==
    /\ ViewTypes /\ ListsRight(lists) /\ LinesRight(lists, obj, lines)
    /\ shownNcp # None => LinesOf(lines, lists[shownNcp]) /\ ItemsOf(lists[shownNcp], obj, sensitive)

-----------------------------------------------------------------------------
LEMMA ConnTyped ==
    ASSUME NEW n, NEW r \in NcuRecord
    PROVE  Views!Conn(n, r) \in Views!Conns
<1>1. r.iface \in Views!Ifaces /\ r.conn \in Views!Conns /\ r.link \in Views!LinkStates
  BY DEF NcuRecord
<1>2. \A o \in Views!Conns : Views!OfLink(r.link, o) \in Views!Conns
  BY <1>1 DEF Views!OfLink, Views!Conns
<1>3. \A i : Views!OfCable(i, r.conn) \in Views!Conns
  BY <1>1 DEF Views!OfCable, Views!Conns
<1>4. \A i : Views!OfStart(i) \in Views!Conns
  BY DEF Views!OfStart, Views!Conns
<1>5. /\ "unknown" \in Views!Conns /\ "duplicate address" \in Views!Conns
      /\ "unavailable" \in Views!Conns /\ "connected" \in Views!Conns
      /\ "connected to network" \in Views!Conns
  BY DEF Views!Conns
<1>6. CASE r.iface = "unread"
  <2>1. Views!Conn(n, r) = "unknown"
    BY <1>6 DEF Views!Conn
  <2> QED
    BY <2>1, <1>5
<1>7. CASE r.iface = "duplicate"
  <2>1. Views!Conn(n, r) = "duplicate address"
    BY <1>7 DEF Views!Conn
  <2> QED
    BY <2>1, <1>5
<1>8. CASE r.iface = "degraded"
  <2>1. Views!Conn(n, r) = "unavailable"
    BY <1>8 DEF Views!Conn
  <2> QED
    BY <2>1, <1>5
<1>9. CASE r.iface \in {"down", "off"} /\ n \in Wireless
  <2>1. Views!Conn(n, r) = Views!OfLink(r.link, "unavailable")
    BY <1>9 DEF Views!Conn
  <2> QED
    BY <2>1, <1>2, <1>5
<1>10. CASE r.iface \in {"down", "off"} /\ n \notin Wireless
  <2>1. Views!Conn(n, r) = Views!OfCable(r.iface, r.conn)
    BY <1>10 DEF Views!Conn
  <2> QED
    BY <2>1, <1>3
<1>11. CASE r.iface \in {"waiting", "timedout", "starting"}
  <2>1. Views!Conn(n, r) = IF n \in Wireless THEN Views!OfLink(r.link, Views!OfStart(r.iface))
                           ELSE Views!OfStart(r.iface)
    BY <1>11 DEF Views!Conn
  <2> QED
    BY <2>1, <1>2, <1>4
<1>12. CASE r.iface = "up"
  <2>1. Views!Conn(n, r) = IF n \in Wireless THEN "connected to network" ELSE "connected"
    BY <1>12 DEF Views!Conn
  <2> QED
    BY <2>1, <1>5
<1>13. CASE r.iface \in {"stopping", "online"}
  <2>1. Views!Conn(n, r) = r.conn
    BY <1>13 DEF Views!Conn
  <2> QED
    BY <2>1, <1>1
<1> QED
  BY <1>1, <1>6, <1>7, <1>8, <1>9, <1>10, <1>11, <1>12, <1>13 DEF Views!Ifaces

LEMMA ReadNcu ==
    ASSUME ObjectViewsAssumption, NEW n \in ViewedNcus, NEW r \in NcuRecord, NEW q \in Views!Read(n, r)
    PROVE  q \in NcuRecord /\ q.conn = r.conn /\ q.mode = r.mode
<1>1. IfaceOf[n] \subseteq Views!Ifaces /\ LinkOf[n] \subseteq Views!LinkStates
  BY DEF ObjectViewsAssumption, Views!ViewsAssumption
<1>2. PICK p \in Views!IfaceRead(n, r) : q \in Views!LinkRead(n, p)
  BY DEF Views!Read
<1>3. p \in NcuRecord /\ p.conn = r.conn /\ p.mode = r.mode
  BY <1>1 DEF Views!IfaceRead, NcuRecord
<1> QED
  BY <1>1, <1>2, <1>3 DEF Views!LinkRead, NcuRecord

LEMMA NoneIsNoConn == ASSUME ObjectViewsAssumption PROVE None \notin Views!Conns /\ None \notin ViewedNcus /\ None \notin ViewNcps
BY DEF ObjectViewsAssumption, Views!ViewsAssumption

LEMMA LearntNcu ==
    ASSUME ObjectViewsAssumption, NEW n \in ViewedNcus, NEW r \in NcuRecord, NEW q \in Views!Learnt(n, r)
    PROVE  q \in NcuRecord /\ q.mode = r.mode
<1>1. CASE r.conn # "unknown"
  BY <1>1 DEF Views!Learnt
<1>2. CASE r.conn = "unknown"
  <2>1. PICK p \in Views!Read(n, r) : q = Views!Known(n, p)
    BY <1>2 DEF Views!Learnt
  <2>2. p \in NcuRecord /\ p.mode = r.mode /\ p.conn = "unknown"
    BY <2>1, <1>2, ReadNcu
  <2>3. q = [p EXCEPT !.conn = Views!Conn(n, p)] /\ Views!Conn(n, p) \in Views!Conns
    BY <2>1, <2>2, ConnTyped DEF Views!Known
  <2> QED
    BY <2>2, <2>3 DEF NcuRecord
<1> QED
  BY <1>1, <1>2

LEMMA IconNcu ==
    ASSUME ObjectViewsAssumption, NEW n \in ViewedNcus, NEW r \in NcuRecord, NEW q \in Views!IconChosen(n, r)
    PROVE  q \in NcuRecord /\ q.mode = r.mode
<1>1. PICK p \in Views!Read(n, r), first \in BOOLEAN :
         q \in IF Views!Active(p, first) THEN Views!Learnt(n, p) ELSE {p}
  BY DEF Views!IconChosen
<1>2. p \in NcuRecord /\ p.mode = r.mode
  BY ReadNcu
<1>3. q \in Views!Learnt(n, p) \/ q = p
  BY <1>1
<1> QED
  BY <1>2, <1>3, LearntNcu

\* What a line says, if one was written, is what was made of its NCU.
Says(r, v) ==
    /\ v \in ViewRecord /\ v.rec.mode = r.mode
    /\ v.text = None => v.rec.conn = r.conn
    /\ v.text # None => v.early \/ v.text = v.rec.conn

LEMMA WrittenSays ==
    ASSUME ObjectViewsAssumption, NEW n \in ViewedNcus, NEW r \in NcuRecord, NEW v \in Views!Written(n, r)
    PROVE  Says(r, v) /\ v.text # None
<1>1. PICK q \in Views!IconChosen(n, r) : v = [rec |-> q, text |-> r.conn, early |-> q.conn # r.conn]
  BY DEF Views!Written
<1>2. q \in NcuRecord /\ q.mode = r.mode
  BY IconNcu
<1>3. r.conn \in Views!Conns /\ r.conn # None
  BY NoneIsNoConn DEF NcuRecord
<1> DEFINE e == q.conn # r.conn
<1>4. v = [rec |-> q, text |-> r.conn, early |-> e] /\ e \in BOOLEAN /\ (e \/ r.conn = q.conn)
  BY <1>1
<1> HIDE DEF e
<1>5. v \in ViewRecord /\ v.rec = q /\ v.text = r.conn /\ v.early = e
  BY <1>2, <1>3, <1>4 DEF ViewRecord
<1> QED
  BY <1>2, <1>3, <1>4, <1>5, Zenon DEF Says

LEMMA ToldSays ==
    ASSUME ObjectViewsAssumption, NEW n \in ViewedNcus, NEW r \in NcuRecord, NEW x \in NcuRecord,
           x.mode = r.mode, NEW v \in Views!Told(n, r.conn, x)
    PROVE  Says(r, v)
<1>1. CASE x.conn = r.conn
  <2>1. v = [rec |-> x, text |-> None, early |-> FALSE]
    BY <1>1 DEF Views!Told, Views!Unwritten
  <2>2. v \in ViewRecord /\ v.rec = x /\ v.text = None
    BY <2>1 DEF ViewRecord
  <2> QED
    BY <1>1, <2>2 DEF Says
<1>2. CASE x.conn # r.conn
  <2>1. v \in Views!Written(n, x)
    BY <1>2 DEF Views!Told
  <2>2. Says(x, v) /\ v.text # None
    BY <2>1, WrittenSays
  <2> QED
    BY <2>2 DEF Says
<1> QED
  BY <1>1, <1>2

LEMMA NoticedSays ==
    ASSUME ObjectViewsAssumption, NEW n \in ViewedNcus, NEW r \in NcuRecord, NEW v, Says(r, v),
           NEW w \in Views!Noticed(n, v)
    PROVE  Says(r, w)
<1>1. v \in ViewRecord /\ v.rec \in NcuRecord /\ v.rec.mode = r.mode
  BY DEF Says, ViewRecord
<1>2. ASSUME NEW q \in NcuRecord, q.mode = r.mode, q.conn = v.rec.conn, w = [v EXCEPT !.rec = q]
      PROVE  Says(r, w)
  <2>1. w \in ViewRecord /\ w.rec = q /\ w.text = v.text /\ w.early = v.early
    BY <1>1, <1>2 DEF ViewRecord
  <2>2. /\ v.text = None => v.rec.conn = r.conn
        /\ v.text # None => v.early \/ v.text = v.rec.conn
    BY Zenon DEF Says
  <2> QED
    BY <1>2, <2>1, <2>2, Zenon DEF Says
<1>3. CASE v.rec.conn # "unknown"
  <2>1. PICK q \in Views!Read(n, v.rec) : w = [v EXCEPT !.rec = q]
    BY <1>3 DEF Views!Noticed
  <2>2. q \in NcuRecord /\ q.mode = r.mode /\ q.conn = v.rec.conn
    BY <1>1, ReadNcu
  <2> QED
    BY <2>1, <2>2, <1>2
<1>4. CASE v.rec.conn = "unknown"
  <2>1. PICK q \in Views!Learnt(n, v.rec) :
           w \in IF q.conn = v.rec.conn THEN {[v EXCEPT !.rec = q]} ELSE Views!Written(n, q)
    BY <1>4 DEF Views!Noticed
  <2>2. q \in NcuRecord /\ q.mode = r.mode
    BY <1>1, LearntNcu
  <2>3. CASE q.conn = v.rec.conn
    BY <2>1, <2>2, <2>3, <1>2
  <2>4. CASE q.conn # v.rec.conn
    <3>1. Says(q, w) /\ w.text # None
      BY <2>1, <2>2, <2>4, WrittenSays
    <3> QED
      BY <3>1, <2>2 DEF Says
  <2> QED
    BY <2>3, <2>4
<1> QED
  BY <1>3, <1>4

LEMMA BoundSays ==
    ASSUME ObjectViewsAssumption, NEW n \in ViewedNcus, obj[n] \in NcuRecord, NEW v \in Views!Bound(n)
    PROVE  Says(obj[n], v) /\ v.text # None
<1>1. PICK u \in Views!Written(n, obj[n]) : v \in Views!Written(n, u.rec)
  BY DEF Views!Bound
<1>2. u.rec \in NcuRecord /\ u.rec.mode = obj[n].mode
  BY WrittenSays DEF Says, ViewRecord
<1>3. Says(u.rec, v) /\ v.text # None
  BY <1>1, <1>2, WrittenSays
<1> QED
  BY <1>2, <1>3 DEF Says

\* The lines are written again for an object of which they say so.
LEMMA RewrittenRight ==
    ASSUME ObjectViewsAssumption, NEW n \in ViewedNcus, NEW w, Says(obj[n], w),
           obj \in [ViewedNcus -> NcuRecord], lines \in Seq(LineRecord), LinesRight(lists, obj, lines)
    PROVE  LET ls == Views!Rewritten(n, w)
               os == [obj EXCEPT ![n] = w.rec]
           IN  /\ ls \in Seq(LineRecord) /\ LinesRight(lists, os, ls)
               /\ Len(ls) = Len(lines) /\ \A k \in DOMAIN ls : ls[k].of = lines[k].of
<1> DEFINE ls == Views!Rewritten(n, w)
           os == [obj EXCEPT ![n] = w.rec]
           now(line) == IF n \in line.heard /\ w.text # None
                        THEN [line EXCEPT !.text = w.text, !.early = w.early] ELSE line
<1>1. ls = [k \in DOMAIN lines |-> now(lines[k])]
  BY DEF Views!Rewritten
<1>2. /\ w.rec \in NcuRecord /\ w.text \in Views!Conns \cup {None} /\ w.early \in BOOLEAN
      /\ w.text = None => w.rec.conn = obj[n].conn
      /\ w.text # None => w.early \/ w.text = w.rec.conn
  BY DEF Says, ViewRecord
<1>3. os[n] = w.rec /\ \A m \in ViewedNcus : m # n => os[m] = obj[m]
  OBVIOUS
<1> HIDE DEF os, ls
<1>4. ASSUME NEW line \in LineRecord, LineRight(lists, obj, line)
      PROVE  now(line) \in LineRecord /\ now(line).of = line.of /\ LineRight(lists, os, now(line))
  <2>1. CASE n \in line.heard /\ w.text # None
    <3>1. line.of = n /\ line.heard = {n} /\ InList(lists, n) /\ n # None
      BY <2>1, <1>4, NoneIsNoConn DEF LineRight
    <3>2. now(line) = [line EXCEPT !.text = w.text, !.early = w.early]
      BY <2>1
    <3> HIDE DEF now
    <3>3. now(line) \in LineRecord /\ now(line).of = n /\ now(line).heard = {n}
          /\ now(line).text = w.text /\ now(line).early = w.early
      BY <3>1, <3>2, <2>1, <1>2 DEF LineRecord
    <3>4. now(line).early \/ now(line).text = os[n].conn
      BY <3>3, <2>1, <1>2, <1>3, Zenon
    <3> QED
      BY <3>1, <3>3, <3>4 DEF LineRight
  <2>2. CASE ~(n \in line.heard /\ w.text # None)
    <3>1. now(line) = line
      BY <2>2
    <3> HIDE DEF now
    <3>2. CASE line.of = None
      BY <3>1, <3>2, <1>4 DEF LineRight
    <3>3. CASE line.of # None
      <4>1. InList(lists, line.of) /\ line.heard = {line.of} /\ (line.early \/ line.text = obj[line.of].conn)
        BY <3>3, <1>4 DEF LineRight
      <4>2. line.of \in ViewedNcus
        BY <3>3 DEF LineRecord
      <4>3. os[line.of].conn = obj[line.of].conn
        <5>1. CASE line.of = n
          BY <5>1, <4>1, <2>2, <1>2, <1>3
        <5>2. CASE line.of # n
          BY <5>2, <4>2, <1>3
        <5> QED
          BY <5>1, <5>2
      <4> QED
        BY <3>1, <3>3, <4>1, <4>3 DEF LineRight
    <3> QED
      BY <3>2, <3>3
  <2> QED
    BY <2>1, <2>2
<1> HIDE DEF now
<1>5. \A k \in 1 .. Len(lines) : lines[k] \in LineRecord /\ LineRight(lists, obj, lines[k])
  BY DEF LinesRight
<1>6. \A k \in 1 .. Len(lines) :
          now(lines[k]) \in LineRecord /\ now(lines[k]).of = lines[k].of /\ LineRight(lists, os, now(lines[k]))
  BY <1>4, <1>5
<1>7. ls \in Seq(LineRecord) /\ Len(ls) = Len(lines) /\ DOMAIN ls = 1 .. Len(lines)
  BY <1>1, <1>6
<1>8. LinesRight(lists, os, ls)
  BY <1>1, <1>6, <1>7 DEF LinesRight
<1>9. \A k \in DOMAIN ls : ls[k].of = lines[k].of
  BY <1>1, <1>6, <1>7
<1> QED
  BY <1>7, <1>8, <1>9 DEF ls, os

LEMMA ViewsParts ==
    ASSUME ViewsInv
    PROVE  /\ lists \in [ViewNcps -> Seq(ViewedNcus)] /\ obj \in [ViewedNcus -> NcuRecord]
           /\ shownNcp \in ViewNcps \cup {None} /\ lines \in Seq(LineRecord)
           /\ ListsRight(lists) /\ LinesRight(lists, obj, lines)
           /\ shownNcp # None => LinesOf(lines, lists[shownNcp]) /\ ItemsOf(lists[shownNcp], obj, sensitive)
BY DEF ViewsInv, ViewTypes

LEMMA ListMembers ==
    ASSUME NEW l, l \in [ViewNcps -> Seq(ViewedNcus)], NEW p \in ViewNcps
    PROVE  {l[p][k] : k \in DOMAIN l[p]} \subseteq ViewedNcus
BY ElementOfSeq

\* Objects that are activated as before are shown as before.
LEMMA ItemsKept ==
    ASSUME NEW l \in Seq(ViewedNcus), NEW s, NEW os, NEW os2, ItemsOf(l, os, s),
           \A n \in ViewedNcus : os2[n].mode = os[n].mode
    PROVE  ItemsOf(l, os2, s)
<1>1. DOMAIN s \subseteq ViewedNcus
  BY DEF ItemsOf
<1> QED
  BY <1>1 DEF ItemsOf

LEMMA RewriteKeeps ==
    ASSUME ObjectViewsAssumption, ViewsInv, NEW n \in ViewedNcus, NEW w, Says(obj[n], w),
           obj' = [obj EXCEPT ![n] = w.rec], lines' = Views!Rewritten(n, w),
           UNCHANGED <<lists, shownNcp, sensitive>>
    PROVE  ViewsInv'
<1>1. /\ lists \in [ViewNcps -> Seq(ViewedNcus)] /\ obj \in [ViewedNcus -> NcuRecord]
      /\ shownNcp \in ViewNcps \cup {None} /\ lines \in Seq(LineRecord)
      /\ ListsRight(lists) /\ LinesRight(lists, obj, lines)
      /\ shownNcp # None => LinesOf(lines, lists[shownNcp]) /\ ItemsOf(lists[shownNcp], obj, sensitive)
  BY ViewsParts
<1>2. /\ lines' \in Seq(LineRecord) /\ LinesRight(lists, obj', lines')
      /\ Len(lines') = Len(lines) /\ \A k \in DOMAIN lines' : lines'[k].of = lines[k].of
  BY <1>1, RewrittenRight
<1>3. w.rec \in NcuRecord /\ w.rec.mode = obj[n].mode
  BY DEF Says, ViewRecord
<1>4. obj' \in [ViewedNcus -> NcuRecord] /\ \A m \in ViewedNcus : obj'[m].mode = obj[m].mode
  BY <1>1, <1>3
<1>5. ViewTypes'
  BY <1>1, <1>2, <1>4 DEF ViewTypes
<1>6. shownNcp # None => LinesOf(lines', lists[shownNcp]) /\ ItemsOf(lists[shownNcp], obj', sensitive)
  <2> SUFFICES ASSUME shownNcp # None
               PROVE  LinesOf(lines', lists[shownNcp]) /\ ItemsOf(lists[shownNcp], obj', sensitive)
    OBVIOUS
  <2>1. LinesOf(lines', lists[shownNcp])
    BY <1>1, <1>2 DEF LinesOf
  <2>2. ItemsOf(lists[shownNcp], obj', sensitive)
    <3>1. lists[shownNcp] \in Seq(ViewedNcus) /\ ItemsOf(lists[shownNcp], obj, sensitive)
      BY <1>1
    <3> QED
      BY <3>1, <1>4, ItemsKept
  <2> QED
    BY <2>1, <2>2
<1> QED
  BY <1>1, <1>2, <1>5, <1>6 DEF ViewsInv

LEMMA ReportedKeeps ==
    ASSUME ObjectViewsAssumption, ViewsInv, NEW n \in ViewedNcus, NEW r \in NcuRecord,
           r.conn = obj[n].conn, r.mode = obj[n].mode, NEW changed,
           Views!Reported(n, r, changed)
    PROVE  ViewsInv'
<1> DEFINE x == [r EXCEPT !.conn = Views!Conn(n, r)]
<1>1. PICK v \in Views!Told(n, r.conn, x) :
         \E w \in (IF changed /\ NcpOf[n] = shownNcp THEN Views!Noticed(n, v) ELSE {v}) :
             /\ obj' = [obj EXCEPT ![n] = w.rec]
             /\ lines' = Views!Rewritten(n, w)
  BY Zenon DEF Views!Reported
<1>2. PICK w \in (IF changed /\ NcpOf[n] = shownNcp THEN Views!Noticed(n, v) ELSE {v}) :
             /\ obj' = [obj EXCEPT ![n] = w.rec]
             /\ lines' = Views!Rewritten(n, w)
  BY <1>1
<1>3. x \in NcuRecord /\ x.mode = r.mode
  <2>1. Views!Conn(n, r) \in Views!Conns
    BY ConnTyped
  <2> QED
    BY <2>1 DEF NcuRecord
<1> HIDE DEF x
<1>4. Says(r, v)
  BY <1>1, <1>3, ToldSays
<1>5. Says(r, w)
  BY <1>2, <1>4, NoticedSays
<1>6. Says(obj[n], w)
  BY <1>5 DEF Says
<1>7. UNCHANGED <<lists, shownNcp, sensitive>>
  BY Zenon DEF Views!Reported
<1> QED
  BY <1>2, <1>6, <1>7, RewriteKeeps

LEMMA ViewsInterface ==
    ASSUME ObjectViewsAssumption, ViewsInv, NEW n \in ViewedNcus, Views!InterfaceEvent(n)
    PROVE  ViewsInv'
<1>1. PICK i \in IfaceOf[n] : Views!Reported(n, [obj[n] EXCEPT !.iface = i], i # obj[n].iface)
  BY Zenon DEF Views!InterfaceEvent
<1>2. i \in Views!Ifaces /\ obj[n] \in NcuRecord
  BY ViewsParts DEF ObjectViewsAssumption, Views!ViewsAssumption
<1> DEFINE r == [obj[n] EXCEPT !.iface = i]
<1>3. r \in NcuRecord /\ r.conn = obj[n].conn /\ r.mode = obj[n].mode
  BY <1>2 DEF NcuRecord
<1> QED
  BY <1>1, <1>3, ReportedKeeps

LEMMA ViewsLink ==
    ASSUME ObjectViewsAssumption, ViewsInv, NEW n \in ViewedNcus, Views!LinkEvent(n)
    PROVE  ViewsInv'
<1>1. PICK l \in LinkOf[n] : \E r \in Views!IfaceRead(n, [obj[n] EXCEPT !.link = l]) :
         Views!Reported(n, r, l # obj[n].link)
  BY Zenon DEF Views!LinkEvent
<1>2. PICK r \in Views!IfaceRead(n, [obj[n] EXCEPT !.link = l]) :
         Views!Reported(n, r, l # obj[n].link)
  BY <1>1
<1>3. l \in Views!LinkStates /\ obj[n] \in NcuRecord /\ IfaceOf[n] \subseteq Views!Ifaces
  BY ViewsParts DEF ObjectViewsAssumption, Views!ViewsAssumption
<1> DEFINE s == [obj[n] EXCEPT !.link = l]
<1>4. s \in NcuRecord /\ s.conn = obj[n].conn /\ s.mode = obj[n].mode
  BY <1>3 DEF NcuRecord
<1> HIDE DEF s
<1>5. r \in NcuRecord /\ r.conn = s.conn /\ r.mode = s.mode
  <2>1. r \in Views!IfaceRead(n, s)
    BY <1>2 DEF s
  <2> QED
    BY <2>1, <1>3, <1>4 DEF Views!IfaceRead, NcuRecord
<1> QED
  BY <1>2, <1>4, <1>5, ReportedKeeps

LEMMA ViewsWifi ==
    ASSUME ObjectViewsAssumption, ViewsInv, NEW n \in ViewedNcus, Views!WifiInfo(n)
    PROVE  ViewsInv'
<1>1. PICK v \in Views!Written(n, obj[n]) : obj' = [obj EXCEPT ![n] = v.rec] /\ lines' = Views!Rewritten(n, v)
  BY Zenon DEF Views!WifiInfo
<1>2. UNCHANGED <<lists, shownNcp, sensitive>>
  BY Zenon DEF Views!WifiInfo
<1>3. obj[n] \in NcuRecord
  BY ViewsParts
<1>4. Says(obj[n], v)
  BY <1>1, <1>3, WrittenSays
<1> QED
  BY <1>1, <1>2, <1>4, RewriteKeeps

\* Objects change in nothing that a line says.
LEMMA LinesKept ==
    ASSUME NEW l, NEW os, NEW os2, NEW ls \in Seq(LineRecord), LinesRight(l, os, ls),
           \A n \in ViewedNcus : os2[n].conn = os[n].conn
    PROVE  LinesRight(l, os2, ls)
<1> SUFFICES ASSUME NEW k \in DOMAIN ls PROVE LineRight(l, os2, ls[k])
  BY DEF LinesRight
<1>1. LineRight(l, os, ls[k]) /\ ls[k] \in LineRecord
  BY DEF LinesRight
<1>2. ls[k].of = None \/ ls[k].of \in ViewedNcus
  BY <1>1 DEF LineRecord
<1> QED
  BY <1>1, <1>2 DEF LineRight

LEMMA ViewsQuery ==
    ASSUME ObjectViewsAssumption, ViewsInv, NEW n \in ViewedNcus, Views!Query(n)
    PROVE  ViewsInv'
<1>1. PICK r \in Views!Read(n, obj[n]) : obj' = [obj EXCEPT ![n] = r]
  BY Zenon DEF Views!Query
<1>2. UNCHANGED <<lists, shownNcp, lines, sensitive>>
  BY Zenon DEF Views!Query
<1>3. /\ lists \in [ViewNcps -> Seq(ViewedNcus)] /\ obj \in [ViewedNcus -> NcuRecord]
      /\ shownNcp \in ViewNcps \cup {None} /\ lines \in Seq(LineRecord)
      /\ ListsRight(lists) /\ LinesRight(lists, obj, lines)
      /\ shownNcp # None => LinesOf(lines, lists[shownNcp]) /\ ItemsOf(lists[shownNcp], obj, sensitive)
  BY ViewsParts
<1>4. r \in NcuRecord /\ r.conn = obj[n].conn /\ r.mode = obj[n].mode
  BY <1>1, <1>3, ReadNcu
<1>5. /\ obj' \in [ViewedNcus -> NcuRecord]
      /\ \A m \in ViewedNcus : obj'[m].mode = obj[m].mode
      /\ \A m \in ViewedNcus : obj'[m].conn = obj[m].conn
  BY <1>1, <1>3, <1>4
<1>6. ViewTypes'
  BY <1>2, <1>3, <1>5 DEF ViewTypes
<1>7. LinesRight(lists, obj', lines)
  BY <1>3, <1>5, LinesKept
<1>8. shownNcp # None => ItemsOf(lists[shownNcp], obj', sensitive)
  <2> SUFFICES ASSUME shownNcp # None PROVE ItemsOf(lists[shownNcp], obj', sensitive)
    OBVIOUS
  <2>1. lists[shownNcp] \in Seq(ViewedNcus) /\ ItemsOf(lists[shownNcp], obj, sensitive)
    BY <1>3
  <2> QED
    BY <2>1, <1>5, ItemsKept
<1> QED
  BY <1>2, <1>3, <1>6, <1>7, <1>8 DEF ViewsInv

LEMMA ViewsReload ==
    ASSUME ObjectViewsAssumption, ViewsInv, NEW n \in ViewedNcus, Views!Reload(n)
    PROVE  ViewsInv'
<1>1. PICK mode \in ModesOf[n] :
         /\ obj' = [obj EXCEPT ![n].mode = mode]
         /\ sensitive' = Views!ItemTold(n, [obj[n] EXCEPT !.mode = mode])
  BY Zenon DEF Views!Reload
<1>2. UNCHANGED <<lists, shownNcp, lines>>
  BY Zenon DEF Views!Reload
<1>3. /\ lists \in [ViewNcps -> Seq(ViewedNcus)] /\ obj \in [ViewedNcus -> NcuRecord]
      /\ shownNcp \in ViewNcps \cup {None} /\ lines \in Seq(LineRecord)
      /\ ListsRight(lists) /\ LinesRight(lists, obj, lines)
      /\ shownNcp # None => LinesOf(lines, lists[shownNcp]) /\ ItemsOf(lists[shownNcp], obj, sensitive)
  BY ViewsParts
<1>4. mode \in {"manual", "prioritized"}
  BY DEF ObjectViewsAssumption, Views!ViewsAssumption
<1> DEFINE r == [obj[n] EXCEPT !.mode = mode]
<1>5. r \in NcuRecord /\ r.conn = obj[n].conn /\ r.mode = mode
  BY <1>3, <1>4 DEF NcuRecord
<1>6. obj' = [obj EXCEPT ![n] = r]
  BY <1>1
<1>7. sensitive' = [m \in DOMAIN sensitive |-> IF m = n THEN r.mode = "manual" ELSE sensitive[m]]
  BY <1>1 DEF Views!ItemTold, Views!Usable
<1> HIDE DEF r
<1>8. /\ obj' \in [ViewedNcus -> NcuRecord] /\ obj'[n] = r
      /\ \A m \in ViewedNcus : m # n => obj'[m] = obj[m]
      /\ \A m \in ViewedNcus : obj'[m].conn = obj[m].conn
  BY <1>3, <1>5, <1>6
<1>9. ViewTypes'
  BY <1>2, <1>3, <1>8 DEF ViewTypes
<1>10. LinesRight(lists, obj', lines)
  BY <1>3, <1>8, LinesKept
<1>11. shownNcp # None => ItemsOf(lists[shownNcp], obj', sensitive')
  <2> SUFFICES ASSUME shownNcp # None PROVE ItemsOf(lists[shownNcp], obj', sensitive')
    OBVIOUS
  <2>1. DOMAIN sensitive \subseteq ViewedNcus
    BY <1>3, ListMembers DEF ItemsOf
  <2>2. DOMAIN sensitive' = DOMAIN sensitive
    BY <1>7
  <2>3. ASSUME NEW m \in DOMAIN sensitive PROVE sensitive'[m] = (obj'[m].mode = "manual")
    <3>1. CASE m = n
      BY <3>1, <1>7, <1>8
    <3>2. CASE m # n
      <4>1. sensitive'[m] = sensitive[m] /\ obj'[m] = obj[m]
        BY <3>2, <2>1, <1>7, <1>8
      <4> QED
        BY <4>1, <1>3, Zenon DEF ItemsOf
    <3> QED
      BY <3>1, <3>2
  <2> QED
    BY <2>2, <2>3, <1>3 DEF ItemsOf
<1> QED
  BY <1>2, <1>3, <1>9, <1>10, <1>11 DEF ViewsInv

\* A line of another NCU than n is right still.
LEMMA LineElsewhere ==
    ASSUME NEW l, NEW l2, NEW os, NEW os2, NEW n, NEW line \in LineRecord, LineRight(l, os, line),
           line.of # n,
           \A m \in ViewedNcus : InList(l, m) /\ m # n => InList(l2, m),
           \A m \in ViewedNcus : m # n => os2[m] = os[m]
    PROVE  LineRight(l2, os2, line)
<1>1. line.of = None \/ line.of \in ViewedNcus
  BY DEF LineRecord
<1> QED
  BY <1>1 DEF LineRight

LEMMA NewNcu ==
    ASSUME ObjectViewsAssumption, NEW n \in ViewedNcus, NEW mode \in ModesOf[n]
    PROVE  Views!New(mode) \in NcuRecord /\ Views!New(mode).mode = mode /\ Views!New("manual") \in NcuRecord
<1>1. mode \in {"manual", "prioritized"}
  BY DEF ObjectViewsAssumption, Views!ViewsAssumption
<1>2. "unread" \in Views!Ifaces /\ "unread" \in Views!LinkStates /\ "unknown" \in Views!Conns
  BY DEF Views!Ifaces, Views!LinkStates, Views!Conns
<1> QED
  BY <1>1, <1>2 DEF Views!New, NcuRecord

LEMMA ViewsAdd ==
    ASSUME ObjectViewsAssumption, ViewsInv, NEW n \in ViewedNcus, Views!AddNcu(n)
    PROVE  ViewsInv'
<1> DEFINE p == NcpOf[n]
<1>1. /\ ~InList(lists, n) /\ lists' = [lists EXCEPT ![p] = Append(@, n)] /\ UNCHANGED shownNcp
  BY Zenon DEF Views!AddNcu, Views!Listed, InList
<1>2. PICK mode \in ModesOf[n] :
         IF p = shownNcp
         THEN \E w \in Views!Written(n, Views!New(mode)) : \E v \in Views!Written(n, w.rec) :
                 /\ obj' = [obj EXCEPT ![n] = v.rec]
                 /\ lines' = Append(lines, Views!Line(n, v))
                 /\ sensitive' = Views!WithItem(n, v.rec)
         ELSE obj' = [obj EXCEPT ![n] = Views!New(mode)] /\ UNCHANGED <<lines, sensitive>>
  BY Zenon DEF Views!AddNcu
<1>3. /\ lists \in [ViewNcps -> Seq(ViewedNcus)] /\ obj \in [ViewedNcus -> NcuRecord]
      /\ shownNcp \in ViewNcps \cup {None} /\ lines \in Seq(LineRecord)
      /\ ListsRight(lists) /\ LinesRight(lists, obj, lines)
      /\ shownNcp # None => LinesOf(lines, lists[shownNcp]) /\ ItemsOf(lists[shownNcp], obj, sensitive)
  BY ViewsParts
<1>4. p \in ViewNcps
  BY DEF ObjectViewsAssumption, Views!ViewsAssumption
<1>5. /\ lists' \in [ViewNcps -> Seq(ViewedNcus)]
      /\ lists[p] \in Seq(ViewedNcus) /\ lists'[p] = Append(lists[p], n)
      /\ \A q \in ViewNcps : q # p => lists'[q] = lists[q]
  BY <1>1, <1>3, <1>4
<1> DEFINE L == lists[p]
<1>6. /\ Len(L) \in Nat /\ Len(lists'[p]) = Len(L) + 1 /\ lists'[p][Len(L) + 1] = n
      /\ \A k \in 1 .. Len(L) : lists'[p][k] = L[k]
      /\ DOMAIN lists'[p] = 1 .. Len(L) + 1 /\ DOMAIN L = 1 .. Len(L)
  BY <1>5
<1>7. \A k \in 1 .. Len(L) : L[k] # n
  BY <1>1, <1>6 DEF InList
<1> HIDE DEF p, L
<1>8. ListsRight(lists')
  <2>1. ASSUME NEW q \in ViewNcps, q # p
        PROVE  /\ \A k \in DOMAIN lists'[q] : NcpOf[lists'[q][k]] = q
               /\ \A j, k \in DOMAIN lists'[q] : lists'[q][j] = lists'[q][k] => j = k
    BY <2>1, <1>3, <1>5 DEF ListsRight
  <2>2. \A k \in 1 .. Len(L) : NcpOf[L[k]] = p
    BY <1>3, <1>4, <1>6 DEF ListsRight, L
  <2>3. \A j, k \in 1 .. Len(L) : L[j] = L[k] => j = k
    BY <1>3, <1>4, <1>6 DEF ListsRight, L
  <2>4. \A k \in DOMAIN lists'[p] : NcpOf[lists'[p][k]] = p
    BY <2>2, <1>6 DEF p
  <2>5. \A j, k \in DOMAIN lists'[p] : lists'[p][j] = lists'[p][k] => j = k
    BY <2>3, <1>6, <1>7
  <2> QED
    BY <2>1, <2>4, <2>5 DEF ListsRight
<1>9. InList(lists', n)
  BY <1>6 DEF InList, p
<1>10. ASSUME NEW m \in ViewedNcus, InList(lists, m), m # n PROVE InList(lists', m)
  <2>1. NcpOf[m] \in ViewNcps
    BY DEF ObjectViewsAssumption, Views!ViewsAssumption
  <2>2. CASE NcpOf[m] = p
    BY <2>2, <1>6, <1>10 DEF InList, L
  <2>3. CASE NcpOf[m] # p
    BY <2>1, <2>3, <1>5, <1>10 DEF InList
  <2> QED
    BY <2>2, <2>3
<1>11. \A k \in DOMAIN lines : lines[k] \in LineRecord /\ LineRight(lists, obj, lines[k]) /\ lines[k].of # n
  <2>1. n # None
    BY NoneIsNoConn
  <2> QED
    BY <2>1, <1>1, <1>3 DEF LinesRight, LineRight
<1>12. ASSUME NEW r \in NcuRecord, obj' = [obj EXCEPT ![n] = r]
       PROVE  /\ obj' \in [ViewedNcus -> NcuRecord] /\ obj'[n] = r
              /\ \A m \in ViewedNcus : m # n => obj'[m] = obj[m]
              /\ LinesRight(lists', obj', lines)
  <2>1. /\ obj' \in [ViewedNcus -> NcuRecord] /\ obj'[n] = r
        /\ \A m \in ViewedNcus : m # n => obj'[m] = obj[m]
    BY <1>3, <1>12
  <2>2. ASSUME NEW k \in DOMAIN lines PROVE LineRight(lists', obj', lines[k])
    BY <2>1, <1>10, <1>11, LineElsewhere
  <2> QED
    BY <2>1, <2>2 DEF LinesRight
<1>13. CASE p = shownNcp
  <2>1. PICK w \in Views!Written(n, Views!New(mode)) : \E v \in Views!Written(n, w.rec) :
           /\ obj' = [obj EXCEPT ![n] = v.rec]
           /\ lines' = Append(lines, Views!Line(n, v))
           /\ sensitive' = Views!WithItem(n, v.rec)
    BY <1>2, <1>13
  <2>2. PICK v \in Views!Written(n, w.rec) :
           /\ obj' = [obj EXCEPT ![n] = v.rec]
           /\ lines' = Append(lines, Views!Line(n, v))
           /\ sensitive' = Views!WithItem(n, v.rec)
    BY <2>1
  <2>3. w.rec \in NcuRecord
    BY NewNcu, WrittenSays DEF Says, ViewRecord
  <2>4. Says(w.rec, v) /\ v.text # None
    BY <2>3, WrittenSays
  <2>5. v.rec \in NcuRecord /\ v.text \in Views!Conns /\ v.early \in BOOLEAN /\ (v.early \/ v.text = v.rec.conn)
    BY <2>4 DEF Says, ViewRecord
  <2>6. /\ obj' \in [ViewedNcus -> NcuRecord] /\ obj'[n] = v.rec
        /\ \A m \in ViewedNcus : m # n => obj'[m] = obj[m]
        /\ LinesRight(lists', obj', lines)
    BY <2>2, <2>5, <1>12
  <2> DEFINE line == Views!Line(n, v)
  <2>7. /\ line \in LineRecord /\ line.of = n /\ line.heard = {n} /\ line.text = v.text
        /\ line.early = v.early
    BY <2>5 DEF Views!Line, LineRecord
  <2> HIDE DEF line
  <2>8. LineRight(lists', obj', line)
    <3>1. line.early \/ line.text = obj'[n].conn
      BY <2>5, <2>6, <2>7, Zenon
    <3> QED
      BY <3>1, <2>7, <1>9, NoneIsNoConn DEF LineRight
  <2>9. /\ lines' \in Seq(LineRecord) /\ Len(lines') = Len(lines) + 1 /\ Len(lines) \in Nat
        /\ lines'[Len(lines) + 1] = line /\ \A k \in 1 .. Len(lines) : lines'[k] = lines[k]
        /\ DOMAIN lines' = 1 .. Len(lines) + 1
    BY <2>2, <2>7, <1>3 DEF line
  <2>10. LinesRight(lists', obj', lines')
    BY <2>6, <2>8, <2>9 DEF LinesRight
  <2>11. p # None /\ LinesOf(lines, L) /\ ItemsOf(L, obj, sensitive)
    BY <1>3, <1>4, <1>13, NoneIsNoConn DEF L
  <2>12. LinesOf(lines', lists'[p])
    <3>1. Len(lines) = Len(L) /\ \A k \in 1 .. Len(L) : lines[k].of = L[k]
      BY <2>9, <2>11 DEF LinesOf
    <3> QED
      BY <3>1, <2>7, <2>9, <1>6 DEF LinesOf
  <2>13. sensitive' = [m \in DOMAIN sensitive \cup {n} |->
                          IF m = n THEN v.rec.mode = "manual" ELSE sensitive[m]]
    BY <2>2 DEF Views!WithItem, Views!Usable
  <2>14. ItemsOf(lists'[p], obj', sensitive')
    <3>1. DOMAIN sensitive = {L[k] : k \in DOMAIN L}
      BY <2>11 DEF ItemsOf
    <3>2. {lists'[p][k] : k \in DOMAIN lists'[p]} = {L[k] : k \in DOMAIN L} \cup {n}
      BY <1>6
    <3>3. DOMAIN sensitive' = {lists'[p][k] : k \in DOMAIN lists'[p]}
      BY <2>13, <3>1, <3>2
    <3>4. DOMAIN sensitive \subseteq ViewedNcus
      BY <3>1, <1>3, <1>4, ListMembers DEF L
    <3>5. ASSUME NEW m \in DOMAIN sensitive' PROVE sensitive'[m] = (obj'[m].mode = "manual")
      <4>1. CASE m = n
        BY <4>1, <2>6, <2>13
      <4>2. CASE m # n
        <5>1. m \in DOMAIN sensitive /\ sensitive'[m] = sensitive[m] /\ obj'[m] = obj[m]
          BY <4>2, <2>6, <2>13, <3>4
        <5> QED
          BY <5>1, <2>11, Zenon DEF ItemsOf
      <4> QED
        BY <4>1, <4>2
    <3> QED
      BY <3>3, <3>5 DEF ItemsOf
  <2>15. ViewTypes'
    BY <2>6, <2>9, <1>1, <1>3, <1>5 DEF ViewTypes
  <2> QED
    BY <2>10, <2>12, <2>14, <2>15, <1>1, <1>8, <1>13 DEF ViewsInv
<1>14. CASE p # shownNcp
  <2>1. obj' = [obj EXCEPT ![n] = Views!New(mode)] /\ UNCHANGED <<lines, sensitive>>
    BY <1>2, <1>14
  <2>2. /\ obj' \in [ViewedNcus -> NcuRecord]
        /\ \A m \in ViewedNcus : m # n => obj'[m] = obj[m]
        /\ LinesRight(lists', obj', lines)
    BY <2>1, <1>12, NewNcu
  <2>3. ViewTypes'
    BY <2>1, <2>2, <1>1, <1>3, <1>5 DEF ViewTypes
  <2>4. shownNcp # None => LinesOf(lines, lists'[shownNcp]) /\ ItemsOf(lists'[shownNcp], obj', sensitive)
    <3> SUFFICES ASSUME shownNcp # None
                 PROVE  LinesOf(lines, lists'[shownNcp]) /\ ItemsOf(lists'[shownNcp], obj', sensitive)
      OBVIOUS
    <3>1. shownNcp \in ViewNcps /\ lists'[shownNcp] = lists[shownNcp]
      BY <1>3, <1>5, <1>14
    <3>2. DOMAIN sensitive \subseteq ViewedNcus /\ n \notin DOMAIN sensitive
      <4>1. DOMAIN sensitive = {lists[shownNcp][k] : k \in DOMAIN lists[shownNcp]}
        BY <1>3 DEF ItemsOf
      <4>2. \A k \in DOMAIN lists[shownNcp] : NcpOf[lists[shownNcp][k]] = shownNcp
        BY <3>1, <1>3 DEF ListsRight
      <4> QED
        BY <4>1, <4>2, <3>1, <1>3, <1>14, ListMembers DEF p
    <3>3. \A m \in DOMAIN sensitive : obj'[m] = obj[m]
      BY <3>2, <2>2
    <3>4. ItemsOf(lists[shownNcp], obj', sensitive)
      BY <3>3, <1>3 DEF ItemsOf
    <3> QED
      BY <3>1, <3>4, <1>3
  <2> QED
    BY <2>1, <2>2, <2>3, <2>4, <1>1, <1>8 DEF ViewsInv
<1> QED
  BY <1>13, <1>14

LEMMA ViewsRemove ==
    ASSUME ObjectViewsAssumption, ViewsInv, NEW n \in ViewedNcus, Views!RemoveNcu(n)
    PROVE  ViewsInv'
<1> DEFINE p == NcpOf[n]
           L == lists[p]
           j == CHOOSE k \in DOMAIN lines : lines[k].of = n
<1>1. PICK i \in DOMAIN L : /\ L[i] = n
                           /\ lists' = [lists EXCEPT ![p] = Cut(L, i)]
                           /\ obj' = [obj EXCEPT ![n] = Views!New("manual")]
                           /\ UNCHANGED shownNcp
  <2> DEFINE c == CHOOSE k \in DOMAIN L : L[k] = n
  <2>1. /\ \E k \in DOMAIN L : L[k] = n
        /\ lists' = [lists EXCEPT ![p] = Cut(L, c)]
        /\ obj' = [obj EXCEPT ![n] = Views!New("manual")]
        /\ UNCHANGED shownNcp
    BY Zenon DEF Views!RemoveNcu, Views!Listed, Views!RemoveAt, Cut
  <2>2. c \in DOMAIN L /\ L[c] = n
    BY <2>1
  <2> HIDE DEF c
  <2> QED
    BY <2>1, <2>2
<1>2. IF p = shownNcp
      THEN /\ lines' = Cut(lines, j)
           /\ sensitive' = [m \in DOMAIN sensitive \ {n} |-> sensitive[m]]
      ELSE /\ lines' = [k \in DOMAIN lines |->
                           IF lines[k].of = n THEN [lines[k] EXCEPT !.of = None, !.heard = {}] ELSE lines[k]]
           /\ UNCHANGED sensitive
  BY Zenon DEF Views!RemoveNcu, Views!RemoveAt, Cut
<1>3. /\ lists \in [ViewNcps -> Seq(ViewedNcus)] /\ obj \in [ViewedNcus -> NcuRecord]
      /\ shownNcp \in ViewNcps \cup {None} /\ lines \in Seq(LineRecord)
      /\ ListsRight(lists) /\ LinesRight(lists, obj, lines)
      /\ shownNcp # None => LinesOf(lines, lists[shownNcp]) /\ ItemsOf(lists[shownNcp], obj, sensitive)
  BY ViewsParts
<1>4. p \in ViewNcps /\ n # None /\ p # None
  BY NoneIsNoConn DEF ObjectViewsAssumption, Views!ViewsAssumption
<1>5. i \in DOMAIN L /\ L[i] = n /\ L \in Seq(ViewedNcus)
  BY <1>1, <1>3, <1>4
<1>6. /\ lists' \in [ViewNcps -> Seq(ViewedNcus)] /\ lists'[p] = Cut(L, i)
      /\ \A q \in ViewNcps : q # p => lists'[q] = lists[q]
  <2>1. Cut(L, i) \in Seq(ViewedNcus)
    BY <1>5, CutFacts
  <2> QED
    BY <2>1, <1>1, <1>3, <1>4
<1> DEFINE W == lists'[p]
<1>7. /\ i \in 1 .. Len(L) /\ Len(L) \in Nat /\ DOMAIN L = 1 .. Len(L)
      /\ Len(W) = Len(L) - 1 /\ DOMAIN W = 1 .. Len(L) - 1
      /\ \A k \in 1 .. Len(L) - 1 : W[k] = IF k < i THEN L[k] ELSE L[k + 1]
  <2> DEFINE c == Cut(L, i)
  <2>1. /\ c \in Seq(ViewedNcus) /\ Len(c) = Len(L) - 1
        /\ \A k \in 1 .. Len(L) - 1 : c[k] = IF k < i THEN L[k] ELSE L[k + 1]
    BY <1>5, CutFacts
  <2>2. W = c
    BY <1>6
  <2> HIDE DEF c, W
  <2> QED
    BY <2>1, <2>2, <1>5
<1>8. /\ \A k \in 1 .. Len(L) : NcpOf[L[k]] = p
      /\ \A h, k \in 1 .. Len(L) : L[h] = L[k] => h = k
  BY <1>3, <1>4, <1>7 DEF ListsRight
<1>9. \A k \in 1 .. Len(L) : k # i => L[k] # n
  BY <1>5, <1>7, <1>8
<1> HIDE DEF L, p, W
<1>10. ListsRight(lists')
  <2>1. ASSUME NEW q \in ViewNcps, q # p
        PROVE  /\ \A k \in DOMAIN lists'[q] : NcpOf[lists'[q][k]] = q
               /\ \A h, k \in DOMAIN lists'[q] : lists'[q][h] = lists'[q][k] => h = k
    BY <2>1, <1>3, <1>6 DEF ListsRight
  <2>2. \A k \in DOMAIN W : NcpOf[W[k]] = p
    BY <1>7, <1>8
  <2>3. \A h, k \in DOMAIN W : W[h] = W[k] => h = k
    BY <1>7, <1>8
  <2> QED
    BY <2>1, <2>2, <2>3 DEF ListsRight, W
<1>11. ASSUME NEW m \in ViewedNcus, InList(lists, m), m # n PROVE InList(lists', m)
  <2>1. NcpOf[m] \in ViewNcps
    BY DEF ObjectViewsAssumption, Views!ViewsAssumption
  <2>2. CASE NcpOf[m] = p
    <3>1. PICK k \in 1 .. Len(L) : L[k] = m
      BY <2>2, <1>7, <1>11 DEF InList, L
    <3>2. k # i
      BY <3>1, <1>5, <1>11
    <3>3. CASE k < i
      <4>1. k \in DOMAIN W /\ W[k] = m
        BY <3>1, <3>3, <1>7
      <4> QED
        BY <4>1, <2>2 DEF InList, W
    <3>4. CASE k > i
      <4>1. k - 1 \in DOMAIN W /\ W[k - 1] = m
        BY <3>1, <3>4, <1>7
      <4> QED
        BY <4>1, <2>2 DEF InList, W
    <3> QED
      BY <3>2, <3>3, <3>4, <1>7
  <2>3. CASE NcpOf[m] # p
    BY <2>1, <2>3, <1>6, <1>11 DEF InList
  <2> QED
    BY <2>2, <2>3
<1>12. /\ obj' \in [ViewedNcus -> NcuRecord]
       /\ \A m \in ViewedNcus : m # n => obj'[m] = obj[m]
  <2>1. Views!New("manual") \in NcuRecord
    <3>1. "unread" \in Views!Ifaces /\ "unread" \in Views!LinkStates /\ "unknown" \in Views!Conns
      BY DEF Views!Ifaces, Views!LinkStates, Views!Conns
    <3> QED
      BY <3>1 DEF Views!New, NcuRecord
  <2> QED
    BY <2>1, <1>1, <1>3
<1>13. \A k \in DOMAIN lines : lines[k] \in LineRecord /\ LineRight(lists, obj, lines[k])
  BY <1>3 DEF LinesRight
<1>14. ASSUME NEW line \in LineRecord, LineRight(lists, obj, line), line.of # n
       PROVE  LineRight(lists', obj', line)
  BY <1>11, <1>12, <1>14, LineElsewhere
<1>15. CASE p = shownNcp
  <2>1. lines' = Cut(lines, j) /\ sensitive' = [m \in DOMAIN sensitive \ {n} |-> sensitive[m]]
    BY <1>2, <1>15
  <2>2. LinesOf(lines, L) /\ ItemsOf(L, obj, sensitive)
    BY <1>3, <1>4, <1>15 DEF L
  <2>3. /\ Len(lines) = Len(L) /\ DOMAIN lines = 1 .. Len(L)
        /\ \A k \in 1 .. Len(L) : lines[k].of = L[k]
    BY <2>2, <1>3 DEF LinesOf
  <2>4. j = i
    <3>1. lines[i].of = n /\ i \in DOMAIN lines
      BY <2>3, <1>5, <1>7
    <3>2. j \in DOMAIN lines /\ lines[j].of = n
      BY <3>1
    <3> HIDE DEF j
    <3> QED
      BY <3>2, <2>3, <1>7, <1>9
  <2> HIDE DEF j
  <2>5. /\ lines' \in Seq(LineRecord) /\ Len(lines') = Len(L) - 1
        /\ \A k \in 1 .. Len(L) - 1 : lines'[k] = IF k < i THEN lines[k] ELSE lines[k + 1]
    <3>1. i \in DOMAIN lines /\ lines' = Cut(lines, i)
      BY <2>1, <2>3, <2>4, <1>7
    <3> QED
      BY <3>1, <2>3, <1>3, CutFacts
  <2>6. ASSUME NEW k \in DOMAIN lines'
        PROVE  /\ LineRight(lists', obj', lines'[k])
               /\ k \in 1 .. Len(L) - 1 /\ lines'[k].of = W[k]
    <3>1. k \in 1 .. Len(L) - 1
      BY <2>5, <1>7
    <3>2. CASE k < i
      <4>1. lines'[k] = lines[k] /\ lines[k].of = L[k] /\ L[k] # n /\ W[k] = L[k] /\ k \in DOMAIN lines
        BY <3>1, <3>2, <2>3, <2>5, <1>7, <1>9
      <4> QED
        BY <4>1, <3>1, <1>13, <1>14
    <3>3. CASE ~(k < i)
      <4>1. k + 1 \in 1 .. Len(L) /\ k + 1 # i
        BY <3>1, <3>3, <1>7
      <4>2. /\ lines'[k] = lines[k + 1] /\ lines[k + 1].of = L[k + 1] /\ L[k + 1] # n
            /\ W[k] = L[k + 1] /\ k + 1 \in DOMAIN lines
        BY <4>1, <3>1, <3>3, <2>3, <2>5, <1>7, <1>9
      <4> QED
        BY <4>2, <3>1, <1>13, <1>14
    <3> QED
      BY <3>2, <3>3
  <2>7. LinesRight(lists', obj', lines') /\ LinesOf(lines', W)
    BY <2>5, <2>6, <1>7 DEF LinesRight, LinesOf
  <2>8. ItemsOf(W, obj', sensitive')
    <3>1. DOMAIN sensitive = {L[k] : k \in 1 .. Len(L)}
      BY <2>2, <1>7 DEF ItemsOf
    <3>2. {W[k] : k \in DOMAIN W} = {L[k] : k \in 1 .. Len(L)} \ {n}
      <4>1. ASSUME NEW k \in DOMAIN W PROVE W[k] \in {L[h] : h \in 1 .. Len(L)} \ {n}
        <5>1. CASE k < i
          BY <5>1, <1>7, <1>9
        <5>2. CASE ~(k < i)
          <6>1. k + 1 \in 1 .. Len(L) /\ k + 1 # i /\ W[k] = L[k + 1]
            BY <5>2, <1>7
          <6> QED
            BY <6>1, <1>9
        <5> QED
          BY <5>1, <5>2
      <4>2. ASSUME NEW k \in 1 .. Len(L), L[k] # n PROVE \E h \in DOMAIN W : W[h] = L[k]
        <5>1. k # i
          BY <4>2, <1>5
        <5>2. CASE k < i
          BY <5>2, <1>7
        <5>3. CASE k > i
          <6>1. k - 1 \in DOMAIN W /\ W[k - 1] = L[k]
            BY <5>3, <1>7
          <6> QED
            BY <6>1
        <5> QED
          BY <5>1, <5>2, <5>3, <1>7
      <4> QED
        BY <4>1, <4>2
    <3>3. DOMAIN sensitive' = {W[k] : k \in DOMAIN W}
      BY <2>1, <3>1, <3>2
    <3>4. DOMAIN sensitive \subseteq ViewedNcus
      BY <3>1, <1>5, <1>7
    <3>5. ASSUME NEW m \in DOMAIN sensitive' PROVE sensitive'[m] = (obj'[m].mode = "manual")
      <4>1. m \in DOMAIN sensitive /\ sensitive'[m] = sensitive[m] /\ obj'[m] = obj[m]
        BY <2>1, <3>4, <1>12
      <4> QED
        BY <4>1, <2>2, Zenon DEF ItemsOf
    <3> QED
      BY <3>3, <3>5 DEF ItemsOf
  <2>9. ViewTypes'
    BY <2>5, <1>1, <1>3, <1>6, <1>12 DEF ViewTypes
  <2> QED
    BY <2>7, <2>8, <2>9, <1>1, <1>10, <1>15 DEF ViewsInv, W
<1>16. CASE p # shownNcp
  <2> DEFINE now(line) == IF line.of = n THEN [line EXCEPT !.of = None, !.heard = {}] ELSE line
  <2>1. lines' = [k \in DOMAIN lines |-> now(lines[k])] /\ UNCHANGED sensitive
    BY <1>2, <1>16
  <2>2. ASSUME NEW line \in LineRecord, LineRight(lists, obj, line)
        PROVE  now(line) \in LineRecord /\ LineRight(lists', obj', now(line))
               /\ (line.of # n => now(line) = line)
    <3>1. CASE line.of = n
      <4>1. now(line) \in LineRecord /\ now(line).of = None /\ now(line).heard = {}
        BY <3>1 DEF LineRecord
      <4> QED
        BY <3>1, <4>1 DEF LineRight
    <3>2. CASE line.of # n
      BY <3>2, <2>2, <1>14
    <3> QED
      BY <3>1, <3>2
  <2> HIDE DEF now
  <2>3. \A k \in 1 .. Len(lines) : now(lines[k]) \in LineRecord /\ LineRight(lists', obj', now(lines[k]))
    BY <1>3, <1>13, <2>2
  <2>4. lines' \in Seq(LineRecord) /\ DOMAIN lines' = 1 .. Len(lines) /\ Len(lines') = Len(lines)
    BY <2>1, <2>3, <1>3
  <2>5. LinesRight(lists', obj', lines')
    BY <2>1, <2>3, <2>4 DEF LinesRight
  <2>6. ViewTypes'
    BY <2>4, <1>1, <1>3, <1>6, <1>12 DEF ViewTypes
  <2>7. shownNcp # None => LinesOf(lines', lists'[shownNcp]) /\ ItemsOf(lists'[shownNcp], obj', sensitive)
    <3> SUFFICES ASSUME shownNcp # None
                 PROVE  LinesOf(lines', lists'[shownNcp]) /\ ItemsOf(lists'[shownNcp], obj', sensitive)
      OBVIOUS
    <3>1. shownNcp \in ViewNcps /\ lists'[shownNcp] = lists[shownNcp]
      BY <1>3, <1>6, <1>16
    <3>2. \A k \in DOMAIN lists[shownNcp] : lists[shownNcp][k] # n
      BY <3>1, <1>3, <1>16 DEF ListsRight, p
    <3>3. DOMAIN sensitive = {lists[shownNcp][k] : k \in DOMAIN lists[shownNcp]}
      BY <1>3 DEF ItemsOf
    <3>4. DOMAIN sensitive \subseteq ViewedNcus /\ n \notin DOMAIN sensitive
      BY <3>1, <3>2, <3>3, <1>3, ListMembers
    <3>5. ItemsOf(lists[shownNcp], obj', sensitive)
      BY <3>4, <1>3, <1>12 DEF ItemsOf
    <3>6. LinesOf(lines, lists[shownNcp])
      BY <1>3
    <3>7. \A k \in 1 .. Len(lines) : lines[k].of = lists[shownNcp][k] /\ k \in DOMAIN lists[shownNcp]
      BY <3>1, <3>6, <1>3 DEF LinesOf
    <3>8. \A k \in 1 .. Len(lines) : lines'[k] = lines[k]
      BY <3>2, <3>7, <2>1, <2>2, <1>3, <1>13
    <3>9. LinesOf(lines', lists[shownNcp])
      BY <3>6, <3>7, <3>8, <2>4 DEF LinesOf
    <3> QED
      BY <3>1, <3>5, <3>9
  <2> QED
    BY <2>1, <2>5, <2>6, <2>7, <1>1, <1>10 DEF ViewsInv
<1> QED
  BY <1>15, <1>16

\* The new line of an NCU.
LEMMA LineOfView ==
    ASSUME ObjectViewsAssumption, NEW n \in ViewedNcus, NEW v, NEW l, NEW os,
           v.text \in Views!Conns, v.early \in BOOLEAN, v.early \/ v.text = os[n].conn, InList(l, n)
    PROVE  /\ Views!Line(n, v) \in LineRecord /\ Views!Line(n, v).of = n
           /\ LineRight(l, os, Views!Line(n, v))
<1> DEFINE line == Views!Line(n, v)
<1>1. /\ line \in LineRecord /\ line.of = n /\ line.heard = {n} /\ line.text = v.text
      /\ line.early = v.early
  BY DEF Views!Line, LineRecord
<1> HIDE DEF line
<1>3. line.early \/ line.text = os[n].conn
  BY <1>1, Zenon
<1>4. LineRight(l, os, line)
  BY <1>1, <1>3, NoneIsNoConn DEF LineRight
<1> QED
  BY <1>1, <1>4 DEF line

LEMMA ViewsShow ==
    ASSUME ObjectViewsAssumption, ViewsInv, NEW p \in ViewNcps, Views!ShowNcp(p)
    PROVE  ViewsInv'
<1> DEFINE L == lists[p]
           kept == {k \in DOMAIN L \cap DOMAIN lines : lines[k].of = L[k]}
           new == DOMAIN L \ kept
<1>1. /\ lists \in [ViewNcps -> Seq(ViewedNcus)] /\ obj \in [ViewedNcus -> NcuRecord]
      /\ shownNcp \in ViewNcps \cup {None} /\ lines \in Seq(LineRecord)
      /\ ListsRight(lists) /\ LinesRight(lists, obj, lines)
  BY ViewsParts
<1>2. /\ shownNcp' = p /\ UNCHANGED lists
      /\ sensitive' = [n \in {L[k] : k \in DOMAIN L} |-> Views!Usable(obj[n])]
  BY Zenon DEF Views!ShowNcp
<1>3. PICK v \in [new -> UNION {Views!Bound(L[k]) : k \in new}] :
         /\ \A k \in new : v[k] \in Views!Bound(L[k])
         /\ obj' = [n \in ViewedNcus |->
                       IF \E k \in new : L[k] = n
                       THEN v[CHOOSE k \in new : L[k] = n].rec ELSE obj[n]]
         /\ lines' = [k \in DOMAIN L |->
                         IF k \in kept THEN lines[k]
                         ELSE IF k \in DOMAIN lines THEN Views!LineReused(lines[k], L[k], v[k])
                              ELSE Views!Line(L[k], v[k])]
  BY Zenon DEF Views!ShowNcp, Views!Shows
<1>4. /\ L \in Seq(ViewedNcus) /\ Len(L) \in Nat /\ DOMAIN L = 1 .. Len(L)
      /\ \A k \in DOMAIN L : L[k] \in ViewedNcus /\ NcpOf[L[k]] = p
      /\ \A j, k \in DOMAIN L : L[j] = L[k] => j = k
  BY <1>1 DEF ListsRight
<1>5. /\ kept \subseteq DOMAIN L /\ kept \subseteq DOMAIN lines /\ new \subseteq DOMAIN L
      /\ \A k \in DOMAIN L : k \in kept <=> k \notin new
      /\ \A k \in kept : lines[k].of = L[k]
  OBVIOUS
<1> HIDE DEF L, kept, new
<1>6. \A k \in new : /\ v[k].rec \in NcuRecord /\ v[k].rec.mode = obj[L[k]].mode
                     /\ v[k].text \in Views!Conns /\ v[k].early \in BOOLEAN
                     /\ v[k].early \/ v[k].text = v[k].rec.conn
  <2> SUFFICES ASSUME NEW k \in new
               PROVE  /\ v[k].rec \in NcuRecord /\ v[k].rec.mode = obj[L[k]].mode
                      /\ v[k].text \in Views!Conns /\ v[k].early \in BOOLEAN
                      /\ v[k].early \/ v[k].text = v[k].rec.conn
    OBVIOUS
  <2>1. L[k] \in ViewedNcus /\ v[k] \in Views!Bound(L[k])
    BY <1>3, <1>4, <1>5
  <2>2. obj[L[k]] \in NcuRecord
    BY <2>1, <1>1
  <2> QED
    BY <2>1, <2>2, BoundSays DEF Says, ViewRecord
<1>7. ASSUME NEW k \in new PROVE obj'[L[k]] = v[k].rec
  <2>1. L[k] \in ViewedNcus
    BY <1>4, <1>5
  <2> DEFINE c == CHOOSE j \in new : L[j] = L[k]
  <2>2. c \in new /\ L[c] = L[k]
    OBVIOUS
  <2>3. c = k
    BY <2>2, <1>4, <1>5
  <2>4. obj'[L[k]] = v[c].rec
    BY <2>1, <1>3
  <2> QED
    BY <2>3, <2>4
<1>8. ASSUME NEW n \in ViewedNcus, \A k \in new : L[k] # n PROVE obj'[n] = obj[n]
  BY <1>3, <1>8
<1>9. obj' \in [ViewedNcus -> NcuRecord] /\ \A n \in ViewedNcus : obj'[n].mode = obj[n].mode
  <2>1. ASSUME NEW n \in ViewedNcus PROVE obj'[n] \in NcuRecord /\ obj'[n].mode = obj[n].mode
    <3>1. CASE \E k \in new : L[k] = n
      BY <3>1, <1>6, <1>7
    <3>2. CASE ~(\E k \in new : L[k] = n)
      BY <3>2, <1>1, <1>8
    <3> QED
      BY <3>1, <3>2
  <2>2. /\ DOMAIN obj' = ViewedNcus
        /\ obj' = [n \in DOMAIN obj' |-> obj'[n]]
    BY <1>3
  <2> QED
    BY <2>1, <2>2
<1>10. ASSUME NEW k \in kept PROVE lines'[k] = lines[k]
  BY <1>3, <1>5
<1>11. ASSUME NEW k \in new PROVE lines'[k] = Views!Line(L[k], v[k])
  BY <1>3, <1>5 DEF Views!LineReused
<1>12. \A k \in DOMAIN L : InList(lists, L[k])
  BY <1>4 DEF InList, L
<1>13. ASSUME NEW k \in DOMAIN L
       PROVE  lines'[k] \in LineRecord /\ lines'[k].of = L[k] /\ LineRight(lists, obj', lines'[k])
  <2>1. CASE k \in kept
    <3>1. lines'[k] = lines[k] /\ lines[k] \in LineRecord /\ lines[k].of = L[k]
      BY <2>1, <1>1, <1>5, <1>10
    <3>2. LineRight(lists, obj, lines[k])
      BY <2>1, <1>1, <1>5 DEF LinesRight
    <3>3. \A j \in new : L[j] # L[k]
      BY <2>1, <1>4, <1>5
    <3>4. obj'[L[k]] = obj[L[k]] /\ L[k] # None
      BY <3>3, <1>4, <1>8, NoneIsNoConn
    <3>5. LineRight(lists, obj', lines[k])
      BY <3>1, <3>2, <3>4 DEF LineRight
    <3> QED
      BY <3>1, <3>5
  <2>2. CASE k \in new
    <3>1. /\ lines'[k] = Views!Line(L[k], v[k]) /\ L[k] \in ViewedNcus /\ InList(lists, L[k])
          /\ obj'[L[k]] = v[k].rec
      BY <2>2, <1>4, <1>7, <1>11, <1>12
    <3>2. /\ v[k].text \in Views!Conns /\ v[k].early \in BOOLEAN
          /\ v[k].early \/ v[k].text = obj'[L[k]].conn
      BY <2>2, <3>1, <1>6
    <3> DEFINE os == obj'
               u == v[k]
               m == L[k]
    <3>3. m \in ViewedNcus /\ u.text \in Views!Conns /\ u.early \in BOOLEAN
          /\ (u.early \/ u.text = os[m].conn) /\ InList(lists, m)
      BY <3>1, <3>2
    <3> HIDE DEF os, u, m
    <3>4. /\ Views!Line(m, u) \in LineRecord /\ Views!Line(m, u).of = m
          /\ LineRight(lists, os, Views!Line(m, u))
      BY <3>3, LineOfView
    <3> QED
      BY <3>1, <3>4 DEF os, u, m
  <2> QED
    BY <2>1, <2>2, <1>5
<1>14. lines' \in Seq(LineRecord) /\ Len(lines') = Len(L) /\ DOMAIN lines' = DOMAIN L
  <2>1. DOMAIN lines' = 1 .. Len(L) /\ lines' = [k \in 1 .. Len(L) |-> lines'[k]]
    BY <1>3, <1>4
  <2> QED
    BY <2>1, <1>4, <1>13
<1>15. LinesRight(lists', obj', lines') /\ LinesOf(lines', L)
  BY <1>2, <1>13, <1>14 DEF LinesRight, LinesOf
<1>16. ItemsOf(L, obj', sensitive')
  <2>1. DOMAIN sensitive' = {L[k] : k \in DOMAIN L}
    BY <1>2
  <2>2. ASSUME NEW n \in DOMAIN sensitive' PROVE sensitive'[n] = (obj'[n].mode = "manual")
    <3>1. n \in ViewedNcus
      BY <2>1, <1>4
    <3>2. sensitive'[n] = (obj[n].mode = "manual")
      BY <2>1, <1>2 DEF Views!Usable
    <3> QED
      BY <3>1, <3>2, <1>9
  <2> QED
    BY <2>1, <2>2 DEF ItemsOf
<1>17. ViewTypes'
  BY <1>1, <1>2, <1>9, <1>14 DEF ViewTypes
<1> QED
  BY <1>1, <1>2, <1>15, <1>16, <1>17 DEF ViewsInv, L

LEMMA ViewsShowNone ==
    ASSUME ObjectViewsAssumption, ViewsInv, Views!ShowNone
    PROVE  ViewsInv'
<1>1. shownNcp' = None /\ UNCHANGED <<lists, obj, lines>>
  BY Zenon DEF Views!ShowNone
<1> QED
  BY <1>1 DEF ViewsInv, ViewTypes

LEMMA ViewsInit ==
    ASSUME ObjectViewsAssumption, Views!Init
    PROVE  ViewsInv
<1>1. /\ lists = [p \in ViewNcps |-> <<>>] /\ obj = [n \in ViewedNcus |-> Views!New("manual")]
      /\ shownNcp = None /\ lines = <<>>
  BY Zenon DEF Views!Init
<1>2. Views!New("manual") \in NcuRecord
  BY DEF Views!New, NcuRecord, Views!Ifaces, Views!LinkStates, Views!Conns
<1>3. ViewTypes
  BY <1>1, <1>2 DEF ViewTypes
<1>4. ListsRight(lists) /\ LinesRight(lists, obj, lines)
  BY <1>1 DEF ListsRight, LinesRight
<1> QED
  BY <1>1, <1>3, <1>4 DEF ViewsInv

LEMMA ViewsKeeps ==
    ASSUME ObjectViewsAssumption, ViewsInv, [Views!Next]_Views!vars
    PROVE  ViewsInv'
<1>1. CASE UNCHANGED Views!vars
  <2>1. UNCHANGED <<lists, obj, shownNcp, lines, sensitive>>
    BY <1>1 DEF Views!vars
  <2> QED
    BY <2>1 DEF ViewsInv, ViewTypes
<1>2. CASE Views!Next
  BY <1>2, ViewsInterface, ViewsLink, ViewsWifi, ViewsQuery, ViewsReload, ViewsAdd, ViewsRemove,
     ViewsShow, ViewsShowNone, Zenon DEF Views!Next
<1> QED
  BY <1>1, <1>2

LEMMA ViewsInvFollow ==
    ASSUME ObjectViewsAssumption, ViewsInv
    PROVE  Views!ViewsFollow
<1> SUFFICES ASSUME shownNcp # None
             PROVE  LET reached == {lists[shownNcp][k] : k \in DOMAIN lists[shownNcp]}
                    IN  /\ {lines[k].of : k \in DOMAIN lines} = reached
                        /\ Len(lines) = Len(lists[shownNcp])
                        /\ \A k \in DOMAIN lines : lines[k].early \/ lines[k].text = obj[lines[k].of].conn
                        /\ DOMAIN sensitive = reached
                        /\ \A n \in reached : sensitive[n] = (obj[n].mode = "manual")
  BY DEF Views!ViewsFollow
<1> DEFINE L == lists[shownNcp]
<1>1. /\ lists \in [ViewNcps -> Seq(ViewedNcus)] /\ shownNcp \in ViewNcps /\ lines \in Seq(LineRecord)
      /\ LinesRight(lists, obj, lines) /\ LinesOf(lines, L) /\ ItemsOf(L, obj, sensitive)
  BY ViewsParts
<1>2. L \in Seq(ViewedNcus) /\ Len(lines) = Len(L) /\ DOMAIN lines = DOMAIN L
      /\ \A k \in DOMAIN L : lines[k].of = L[k] /\ L[k] # None
  <2>1. L \in Seq(ViewedNcus)
    BY <1>1
  <2> QED
    BY <2>1, <1>1, NoneIsNoConn DEF LinesOf
<1> HIDE DEF L
<1>3. \A k \in DOMAIN lines : lines[k].early \/ lines[k].text = obj[lines[k].of].conn
  BY <1>1, <1>2 DEF LinesRight, LineRight
<1>4. {lines[k].of : k \in DOMAIN lines} = {L[k] : k \in DOMAIN L}
  BY <1>2
<1>5. DOMAIN sensitive = {L[k] : k \in DOMAIN L} /\ \A n \in {L[k] : k \in DOMAIN L} : sensitive[n] = (obj[n].mode = "manual")
  BY <1>1 DEF ItemsOf
<1> QED
  BY <1>2, <1>3, <1>4, <1>5 DEF L

LEMMA ItemsAssumptions ==
    ASSUME ObjectViewsAssumption
    PROVE  ItemsAssumed(Enms, {}) /\ ItemsAssumed({}, Envs)
BY Zenon DEF ObjectViewsAssumption, ItemsAssumed

==============================================================================
