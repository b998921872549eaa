----------------------------- MODULE PanelsProofs -----------------------------
(* Proofs about Panels: every part keeps what it needs of its states (the      *)
(* lemmas on the views of the objects are those of ObjectViewsProofs), so that *)
(* the views tell what is so, and the pages for profiles and for addresses     *)
(* store and ask for what the user chose, whatever the objects and the bounds. *)
EXTENDS Panels, ObjectViewsProofs, WellFoundedInduction

\* Every part starts as its module says, and takes only steps of its own.
LEMMA PartsInit ==
    ASSUME PanelsInit
    PROVE  /\ part = "combo" => Combo!Init
           /\ part = "ip" => Ip!Init
           /\ part = "profiles" => Profiles!Init
           /\ part = "rules" => Rules!Init
           /\ part = "views" => Views!Init
           /\ part = "enms" => Items(Enms, {})!Init
           /\ part = "envs" => Items({}, Envs)!Init
           /\ part = "status" => Status!Init
           /\ part = "chooser" => ChooserInit
BY Zenon DEF PanelsInit

LEMMA PartsNext ==
    ASSUME [PanelsNext]_panelVars
    PROVE  /\ part' = part
           /\ part = "combo" => [Combo!Next]_Combo!vars
           /\ part = "ip" => [Ip!Next]_Ip!vars
           /\ part = "profiles" => [Profiles!Next]_Profiles!vars
           /\ part = "rules" => [Rules!Next]_Rules!vars
           /\ part = "views" => [Views!Next]_Views!vars
           /\ part = "enms" => [Items(Enms, {})!Next]_(Items(Enms, {})!vars)
           /\ part = "envs" => [Items({}, Envs)!Next]_(Items({}, Envs)!vars)
           /\ part = "status" => [Status!Next]_Status!vars
           /\ part = "chooser" => [ChooserNext]_chooserVars
<1>1. CASE UNCHANGED panelVars
  <2>1. part' = part
    BY <1>1 DEF panelVars
  <2>2. UNCHANGED <<OfCombo, OfIp, OfProfiles, OfRules, OfViews, OfItems, OfChooser, OfStatus,
      ncus, menu, page, stored, obj, choice, edits, outcome, rows, admin, listed, asked>>
    BY <1>1 DEF panelVars
  <2> QED
    BY <2>1, <2>2
    DEF OfCombo, OfIp, OfProfiles, OfRules, OfViews, OfItems, OfChooser, OfStatus,
        Combo!vars, Ip!vars, Profiles!vars, Rules!vars, Views!vars, Items!vars,
        Status!vars, chooserVars, vars, dialogVars, listVars
<1>2. CASE PanelsNext
  <2>1. /\ part' = part
        /\ \/ part = "combo" /\ Combo!Next
           \/ part = "ip" /\ Ip!Next
           \/ part = "profiles" /\ Profiles!Next
           \/ part = "rules" /\ Rules!Next
           \/ part = "views" /\ Views!Next
           \/ part = "enms" /\ Items(Enms, {})!Next
           \/ part = "envs" /\ Items({}, Envs)!Next
           \/ part = "status" /\ Status!Next
           \/ part = "chooser" /\ ChooserNext
    BY <1>2, Zenon
    DEF PanelsNext, ComboStep, IpStep, ProfilesStep, RulesStep, ViewsStep, ItemsStep, StatusStep,
        ChooserStep
  <2> QED
    BY <2>1
<1> QED
  BY <1>1, <1>2

-----------------------------------------------------------------------------
(* The page for profiles (ProfilePanel).                                     *)

\* A list has nothing twice.
Once(l) == \A i, j \in DOMAIN l : l[i] = l[j] => i = j

\* The objects are what the page makes of a name and a handle.
AreNcps(os) ==
    /\ os = [o \in Ids |-> os[o]]
    /\ \A o \in Ids : os[o] = Profiles!Ncp(os[o].name, os[o].handle)

\* The choice is what is on the row chosen; no list has an object twice.
ProfilesInv ==
    /\ IsFiniteSet(stored) /\ AreNcps(objs)
    /\ rows \in Seq(Ids) /\ Once(rows) /\ listed \in Seq(Ids) /\ Once(listed)
    /\ toggled = 0 \/ (toggled \in DOMAIN rows /\ choice = <<rows[toggled]>>)

LEMMA ProfilesFinite == ASSUME NEW S PROVE Profiles!IsFiniteSet(S) <=> IsFiniteSet(S)
BY Zenon DEF Profiles!IsFiniteSet, IsFiniteSet

LEMMA ProfilesCardinality == ASSUME NEW S PROVE Profiles!Cardinality(S) = Cardinality(S)
BY Zenon DEF Profiles!Cardinality, Cardinality

LEMMA RowsAreNcps ==
    ASSUME NEW os, \A o \in Ids : os[o] = Profiles!Ncp(os[o].name, os[o].handle), NEW l, NEW r
    PROVE  AreNcps(Profiles!Kept(os, l, r))
<1> DEFINE ks == Profiles!Kept(os, l, r)
<1>1. /\ ks = [o \in Ids |-> IF o \in Profiles!Used(l, r) THEN os[o] ELSE Profiles!Nothing]
      /\ \A o \in Ids : ks[o] = IF o \in Profiles!Used(l, r) THEN os[o] ELSE Profiles!Nothing
  BY DEF Profiles!Kept
<1>2. Profiles!Nothing = Profiles!Ncp(Profiles!Nothing.name, Profiles!Nothing.handle)
  BY DEF Profiles!Nothing, Profiles!Ncp
<1> HIDE DEF ks
<1>3. ks = [o \in Ids |-> ks[o]]
  BY <1>1
<1> QED
  BY <1>1, <1>2, <1>3, Zenon DEF AreNcps, ks

\* What a change of one object makes of them.
Changed(o, n, h) == [objs EXCEPT ![o] = Profiles!Ncp(n, h)]

LEMMA ChangedNcp ==
    ASSUME AreNcps(objs), NEW o \in Ids, NEW n, NEW h
    PROVE  \A p \in Ids : Changed(o, n, h)[p]
                             = Profiles!Ncp(Changed(o, n, h)[p].name, Changed(o, n, h)[p].handle)
<1> DEFINE os == Changed(o, n, h)
<1>1. DOMAIN objs = Ids
  <2>1. objs = [p \in Ids |-> objs[p]]
    BY DEF AreNcps
  <2> QED
    BY <2>1, Zenon
<1>2. \A p \in Ids : os[p] = IF p = o THEN Profiles!Ncp(n, h) ELSE objs[p]
  BY <1>1 DEF Changed
<1> DEFINE x == Profiles!Ncp(n, h)
<1>3. x = Profiles!Ncp(x.name, x.handle)
  BY DEF Profiles!Ncp
<1> HIDE DEF os, x
<1>4. ASSUME NEW p \in Ids PROVE os[p] = Profiles!Ncp(os[p].name, os[p].handle)
  <2>1. CASE p = o
    BY <2>1, <1>2, <1>3 DEF x
  <2>2. CASE p # o
    BY <2>2, <1>2 DEF AreNcps
  <2> QED
    BY <2>1, <2>2
<1> QED
  BY <1>4 DEF os

LEMMA AppendOnce ==
    ASSUME NEW l \in Seq(Ids), Once(l), NEW o \in Ids, \A i \in DOMAIN l : l[i] # o
    PROVE  /\ Append(l, o) \in Seq(Ids) /\ Once(Append(l, o))
           /\ \A i \in DOMAIN l : i \in DOMAIN Append(l, o) /\ Append(l, o)[i] = l[i]
           /\ \A i \in DOMAIN Append(l, o) : i \in DOMAIN l \/ i = Len(l) + 1
BY DEF Once

LEMMA ConcatLeft ==
    ASSUME NEW S, NEW a \in Seq(S), NEW b \in Seq(S)
    PROVE  /\ a \o b \in Seq(S) /\ Len(a \o b) = Len(a) + Len(b) /\ Len(b) \in Nat
           /\ \A k \in 1 .. Len(a) : (a \o b)[k] = a[k]
BY ConcatProperties

LEMMA AddedOnce ==
    ASSUME NEW l \in Seq(Ids), Once(l), NEW o \in Ids
    PROVE  Profiles!Added(o, l) \in Seq(Ids) /\ Once(Profiles!Added(o, l))
<1>1. CASE o \in Profiles!ToSet(l)
  BY <1>1 DEF Profiles!Added
<1>2. CASE o \notin Profiles!ToSet(l)
  <2>1. Profiles!Added(o, l) = <<o>> \o l /\ \A i \in DOMAIN l : l[i] # o
    BY <1>2 DEF Profiles!Added, Profiles!ToSet
  <2> DEFINE a == <<o>>
  <2>2. a \in Seq(Ids) /\ Len(a) = 1 /\ a[1] = o
    OBVIOUS
  <2> HIDE DEF a
  <2>a. /\ a \o l \in Seq(Ids) /\ Len(a \o l) = Len(a) + Len(l) /\ Len(l) \in Nat
        /\ \A k \in 1 .. Len(a) : (a \o l)[k] = a[k]
    BY <2>2, ConcatLeft, Zenon
  <2>3. a \o l \in Seq(Ids) /\ Len(a \o l) = Len(l) + 1 /\ Len(l) \in Nat
    BY <2>2, <2>a
  <2>4. (a \o l)[1] = o
    BY <2>2, <2>a
  <2>5. ASSUME NEW i \in 2 .. Len(l) + 1 PROVE i - 1 \in DOMAIN l /\ (a \o l)[i] = l[i - 1]
    <3>1. i \in 1 .. Len(a) + Len(l) /\ ~(i <= Len(a)) /\ i - 1 \in DOMAIN l
      BY <2>2, <2>3
    <3> QED
      BY <3>1, <2>2, ConcatRight
  <2>6. Once(a \o l)
    <3> SUFFICES ASSUME NEW i \in DOMAIN (a \o l), NEW j \in DOMAIN (a \o l),
                        (a \o l)[i] = (a \o l)[j]
                 PROVE  i = j
      BY DEF Once
    <3>1. i \in 1 .. Len(l) + 1 /\ j \in 1 .. Len(l) + 1
      BY <2>3
    <3>2. CASE i = 1 /\ j = 1
      BY <3>2
    <3>3. CASE i = 1 /\ j # 1
      <4>1. j \in 2 .. Len(l) + 1
        BY <3>1, <3>3, <2>3
      <4> QED
        BY <4>1, <3>3, <2>1, <2>4, <2>5
    <3>4. CASE i # 1 /\ j = 1
      <4>1. i \in 2 .. Len(l) + 1
        BY <3>1, <3>4, <2>3
      <4> QED
        BY <4>1, <3>4, <2>1, <2>4, <2>5
    <3>5. CASE i # 1 /\ j # 1
      <4>1. i \in 2 .. Len(l) + 1 /\ j \in 2 .. Len(l) + 1
        BY <3>1, <3>5, <2>3
      <4>2. i - 1 = j - 1
        BY <4>1, <2>5 DEF Once
      <4> QED
        BY <4>1, <4>2, <2>3
    <3> QED
      BY <3>2, <3>3, <3>4, <3>5
  <2> QED
    BY <2>1, <2>3, <2>6 DEF a
<1> QED
  BY <1>1, <1>2

LEMMA CutOnce ==
    ASSUME NEW l \in Seq(Ids), Once(l), NEW i \in DOMAIN l
    PROVE  /\ Profiles!RemoveAt(l, i) \in Seq(Ids) /\ Once(Profiles!RemoveAt(l, i))
           /\ Len(Profiles!RemoveAt(l, i)) = Len(l) - 1
           /\ \A k \in 1 .. Len(l) - 1 :
                 Profiles!RemoveAt(l, i)[k] = IF k < i THEN l[k] ELSE l[k + 1]
<1>1. Profiles!RemoveAt(l, i) = Cut(l, i)
  BY Zenon DEF Profiles!RemoveAt, Cut
<1> DEFINE c == Cut(l, i)
<1>2. /\ c \in Seq(Ids) /\ Len(c) = Len(l) - 1 /\ Len(l) \in Nat
      /\ \A k \in 1 .. Len(l) - 1 : c[k] = IF k < i THEN l[k] ELSE l[k + 1]
  BY CutFacts
<1> HIDE DEF c
<1>3. i \in 1 .. Len(l) /\ \A j, k \in 1 .. Len(l) : l[j] = l[k] => j = k
  BY DEF Once
<1>4. Once(c)
  <2> SUFFICES ASSUME NEW j \in 1 .. Len(l) - 1, NEW k \in 1 .. Len(l) - 1, c[j] = c[k] PROVE j = k
    BY <1>2 DEF Once
  <2> DEFINE u == IF j < i THEN j ELSE j + 1
             v == IF k < i THEN k ELSE k + 1
  <2>1. c[j] = l[u] /\ c[k] = l[v] /\ u \in 1 .. Len(l) /\ v \in 1 .. Len(l)
    BY <1>2
  <2>2. u = v => j = k
    BY <1>2, <1>3
  <2> HIDE DEF u, v
  <2> QED
    BY <2>1, <2>2, <1>3
<1> QED
  BY <1>1, <1>2, <1>4 DEF c

LEMMA LessWellFounded == IsWellFoundedOn({p \in Nat \X Nat : p[1] < p[2]}, Nat)
BY NatLessThanWellFounded, Zenon DEF OpToRel

LEMMA LeastOfThem ==
    ASSUME NEW S \in SUBSET Nat, S # {}
    PROVE  Profiles!Least(S) \in S
<1> DEFINE R == {p \in Nat \X Nat : p[1] < p[2]}
<1>1. \A x, y \in Nat : x < y => <<x, y>> \in R
  OBVIOUS
<1>2. IsWellFoundedOn(R, Nat)
  BY LessWellFounded
<1> HIDE DEF R
<1>3. PICK x \in S : \A y \in S : <<y, x>> \notin R
  BY <1>2, WFMin
<1>4. \A y \in S : x <= y
  <2> SUFFICES ASSUME NEW y \in S PROVE x <= y
    OBVIOUS
  <2>1. x \in Nat /\ y \in Nat /\ ~(y < x)
    BY <1>1, <1>3
  <2> QED
    BY <2>1
<1> QED
  BY <1>4, Zenon DEF Profiles!Least

LEMMA UnlistedOnce ==
    ASSUME NEW l \in Seq(Ids), Once(l), NEW o
    PROVE  Profiles!Unlisted(l, o) \in Seq(Ids) /\ Once(Profiles!Unlisted(l, o))
<1>1. CASE o \in Profiles!ToSet(l)
  <2> DEFINE S == {i \in DOMAIN l : l[i] = o}
             k == Profiles!Least(S)
  <2>1. S \in SUBSET Nat /\ S # {} /\ S \subseteq DOMAIN l
    BY <1>1 DEF Profiles!ToSet
  <2>2. Profiles!Unlisted(l, o) = Profiles!RemoveAt(l, k)
    BY <1>1, Zenon DEF Profiles!Unlisted
  <2> HIDE DEF S
  <2>3. k \in DOMAIN l
    BY <2>1, LeastOfThem
  <2> HIDE DEF k
  <2> QED
    BY <2>2, <2>3, CutOnce
<1>2. CASE o \notin Profiles!ToSet(l)
  <2>1. Profiles!Unlisted(l, o) = l
    BY <1>2, Zenon DEF Profiles!Unlisted
  <2> QED
    BY <2>1
<1> QED
  BY <1>1, <1>2

\* Lists and objects set anew.
LEMMA WithRowKeeps ==
    ASSUME NEW l \in Seq(Ids), Once(l), NEW r \in Seq(Ids), Once(r),
           NEW os, \A o \in Ids : os[o] = Profiles!Ncp(os[o].name, os[o].handle),
           Profiles!WithRow(l, r, os), IsFiniteSet(stored'),
           toggled' = 0 \/ (toggled' \in DOMAIN r /\ choice' = <<r[toggled']>>)
    PROVE  ProfilesInv'
<1>1. listed' = l /\ rows' = r /\ objs' = Profiles!Kept(os, l, r)
  BY Zenon DEF Profiles!WithRow
<1>2. AreNcps(objs')
  BY <1>1, RowsAreNcps
<1> QED
  BY <1>1, <1>2 DEF ProfilesInv

LEMMA FiniteWith == ASSUME NEW S, IsFiniteSet(S), NEW n PROVE IsFiniteSet(S \cup {n}) /\ IsFiniteSet(S \ {n})
BY FS_AddElement, FS_RemoveElement

LEMMA NcpsOf ==
    ASSUME AreNcps(objs)
    PROVE  \A o \in Ids : objs[o] = Profiles!Ncp(objs[o].name, objs[o].handle)
BY Zenon DEF AreNcps

LEMMA NewIds == Profiles!New \subseteq Ids
BY DEF Profiles!New

LEMMA NewOnNoRow ==
    ASSUME NEW o \in Profiles!New
    PROVE  \A i \in DOMAIN rows : rows[i] # o
BY DEF Profiles!New, Profiles!Used, Profiles!ToSet

LEMMA CreateKeeps ==
    ASSUME ProfilesInv, Profiles!Create
    PROVE  ProfilesInv'
<1>1. PICK n \in ProfileNames \ Profiles!NamesOn(rows), o \in Profiles!New :
         \/ /\ Profiles!WithRow(Profiles!Added(o, listed), Append(rows, o),
                                [objs EXCEPT ![o] = Profiles!Ncp(n, TRUE)])
            /\ stored' = stored \/ stored' = stored \cup {n}
         \/ /\ Profiles!WithRow(listed, Append(rows, o), [objs EXCEPT ![o] = Profiles!Ncp(n, FALSE)])
            /\ stored' = stored
  BY Zenon DEF Profiles!Create, Profiles!Creates
<1>2. toggled' = toggled /\ choice' = choice
  BY DEF Profiles!Create
<1>3. /\ IsFiniteSet(stored) /\ AreNcps(objs)
      /\ rows \in Seq(Ids) /\ Once(rows) /\ listed \in Seq(Ids) /\ Once(listed)
  BY DEF ProfilesInv
<1>4. o \in Ids /\ \A i \in DOMAIN rows : rows[i] # o
  BY NewIds, NewOnNoRow
<1> DEFINE r == Append(rows, o)
<1>5. /\ r \in Seq(Ids) /\ Once(r)
      /\ \A i \in DOMAIN rows : i \in DOMAIN r /\ r[i] = rows[i]
  BY <1>3, <1>4, AppendOnce
<1>6. IsFiniteSet(stored')
  BY <1>1, <1>3, FiniteWith
<1> HIDE DEF r
<1>7. toggled' = 0 \/ (toggled' \in DOMAIN r /\ choice' = <<r[toggled']>>)
  BY <1>2, <1>5 DEF ProfilesInv
<1>8. ASSUME NEW h PROVE \A p \in Ids : Changed(o, n, h)[p]
                             = Profiles!Ncp(Changed(o, n, h)[p].name, Changed(o, n, h)[p].handle)
  BY <1>3, <1>4, ChangedNcp
<1>9. CASE Profiles!WithRow(Profiles!Added(o, listed), r, Changed(o, n, TRUE))
  <2> DEFINE l == Profiles!Added(o, listed)
             x == Changed(o, n, TRUE)
  <2>1. l \in Seq(Ids) /\ Once(l)
    BY <1>3, <1>4, AddedOnce
  <2>2. \A p \in Ids : x[p] = Profiles!Ncp(x[p].name, x[p].handle)
    BY <1>8, Zenon
  <2>3. Profiles!WithRow(l, r, x)
    BY <1>9
  <2> HIDE DEF l, x
  <2> QED
    BY <2>1, <2>2, <2>3, <1>5, <1>6, <1>7, WithRowKeeps
<1>10. CASE Profiles!WithRow(listed, r, Changed(o, n, FALSE))
  <2> DEFINE x == Changed(o, n, FALSE)
  <2>2. \A p \in Ids : x[p] = Profiles!Ncp(x[p].name, x[p].handle)
    BY <1>8, Zenon
  <2>3. Profiles!WithRow(listed, r, x)
    BY <1>10
  <2> HIDE DEF x
  <2> QED
    BY <2>2, <2>3, <1>3, <1>5, <1>6, <1>7, WithRowKeeps
<1> QED
  BY <1>1, <1>9, <1>10, Zenon DEF r, Changed

LEMMA ProfilesParts ==
    ASSUME ProfilesInv
    PROVE  /\ IsFiniteSet(stored) /\ AreNcps(objs)
           /\ \A o \in Ids : objs[o] = Profiles!Ncp(objs[o].name, objs[o].handle)
           /\ rows \in Seq(Ids) /\ Once(rows) /\ listed \in Seq(Ids) /\ Once(listed)
           /\ toggled = 0 \/ (toggled \in DOMAIN rows /\ choice = <<rows[toggled]>>)
BY NcpsOf DEF ProfilesInv

LEMMA DupKeeps ==
    ASSUME ProfilesInv, Profiles!Dup
    PROVE  ProfilesInv'
<1>1. PICK n \in ProfileNames \ Profiles!NamesOn(rows), o \in Profiles!New :
         /\ Profiles!WithRow(Profiles!Added(o, listed), Append(rows, o),
                             [objs EXCEPT ![o] = Profiles!Ncp(n, TRUE)])
         /\ stored' = stored \cup {n}
  BY Zenon DEF Profiles!Dup
<1>2. toggled' = toggled /\ choice' = choice
  BY DEF Profiles!Dup
<1>4. o \in Ids /\ \A i \in DOMAIN rows : rows[i] # o
  BY NewIds, NewOnNoRow
<1> DEFINE r == Append(rows, o)
<1>5. /\ r \in Seq(Ids) /\ Once(r)
      /\ \A i \in DOMAIN rows : i \in DOMAIN r /\ r[i] = rows[i]
  BY <1>4, ProfilesParts, AppendOnce
<1>6. IsFiniteSet(stored')
  BY <1>1, ProfilesParts, FiniteWith
<1>a. Profiles!WithRow(Profiles!Added(o, listed), r, Changed(o, n, TRUE))
  BY <1>1, Zenon DEF Changed
<1> HIDE DEF r
<1>7. toggled' = 0 \/ (toggled' \in DOMAIN r /\ choice' = <<r[toggled']>>)
  BY <1>2, <1>5, ProfilesParts
<1> DEFINE l == Profiles!Added(o, listed)
           x == Changed(o, n, TRUE)
<1>8. l \in Seq(Ids) /\ Once(l)
  BY <1>4, AddedOnce, ProfilesParts
<1>b. AreNcps(objs)
  BY ProfilesParts
<1>c. ASSUME NEW h PROVE \A p \in Ids : Changed(o, n, h)[p]
                             = Profiles!Ncp(Changed(o, n, h)[p].name, Changed(o, n, h)[p].handle)
  BY <1>4, <1>b, ChangedNcp
<1>9. \A p \in Ids : x[p] = Profiles!Ncp(x[p].name, x[p].handle)
  BY <1>c, Zenon
<1>10. Profiles!WithRow(l, r, x)
  BY <1>a
<1> HIDE DEF l, x
<1> QED
  BY <1>5, <1>6, <1>7, <1>8, <1>9, <1>10, WithRowKeeps

\* Where the row chosen is when another one is gone.
LEMMA RowAfterFollows ==
    ASSUME ProfilesInv, NEW i \in DOMAIN rows,
           toggled' = Profiles!RowAfter(i),
           choice' = IF choice = <<rows[i]>> THEN <<>> ELSE choice
    PROVE  LET r == Profiles!RemoveAt(rows, i)
           IN  toggled' = 0 \/ (toggled' \in DOMAIN r /\ choice' = <<r[toggled']>>)
<1> DEFINE r == Profiles!RemoveAt(rows, i)
<1>1. /\ r \in Seq(Ids) /\ Len(r) = Len(rows) - 1
      /\ \A k \in 1 .. Len(rows) - 1 : r[k] = IF k < i THEN rows[k] ELSE rows[k + 1]
  BY ProfilesParts, CutOnce
<1> HIDE DEF r
<1>2. rows \in Seq(Ids) /\ i \in 1 .. Len(rows) /\ Len(rows) \in Nat
  BY ProfilesParts
<1>3. CASE toggled = 0
  <2>1. toggled # i /\ ~(toggled > i)
    BY <1>2, <1>3
  <2>2. toggled' = toggled
    BY <2>1 DEF Profiles!RowAfter
  <2> QED
    BY <2>2, <1>3
<1>4. CASE toggled = i
  <2>1. toggled' = 0
    BY <1>4 DEF Profiles!RowAfter
  <2> QED
    BY <2>1
<1>5. CASE toggled # 0 /\ toggled # i
  <2>1. toggled \in 1 .. Len(rows) /\ choice = <<rows[toggled]>>
    BY <1>2, <1>5, ProfilesParts
  <2>2. rows[toggled] # rows[i]
    BY <2>1, <1>2, <1>5, ProfilesParts DEF Once
  <2>3. choice' = <<rows[toggled]>>
    BY <2>1, <2>2
  <2>4. CASE toggled > i
    <3>1. toggled' = toggled - 1
      BY <2>4, <1>5 DEF Profiles!RowAfter
    <3> DEFINE k == toggled - 1
    <3>2. k \in 1 .. Len(rows) - 1 /\ ~(k < i) /\ k + 1 = toggled /\ k \in DOMAIN r
      BY <2>1, <2>4, <1>1, <1>2
    <3> HIDE DEF k
    <3>3. r[k] = rows[toggled]
      BY <3>2, <1>1
    <3> QED
      BY <3>1, <3>2, <3>3, <2>3 DEF k, r
  <2>5. CASE ~(toggled > i)
    <3>1. toggled' = toggled
      BY <2>5, <1>5 DEF Profiles!RowAfter
    <3>2. toggled \in 1 .. Len(rows) - 1 /\ toggled < i /\ toggled \in DOMAIN r
      BY <2>1, <2>5, <1>1, <1>2, <1>5
    <3>3. r[toggled] = rows[toggled]
      BY <3>2, <1>1
    <3> QED
      BY <3>1, <3>2, <3>3, <2>3 DEF r
  <2> QED
    BY <2>4, <2>5
<1> QED
  BY <1>3, <1>4, <1>5

LEMMA RemoveRowKeeps ==
    ASSUME ProfilesInv, Profiles!RemoveRow
    PROVE  ProfilesInv'
<1>1. PICK i \in DOMAIN rows :
         /\ Profiles!Destroys(rows[i], stored, events)
         /\ Profiles!WithRow(Profiles!Unlisted(listed, rows[i]), Profiles!RemoveAt(rows, i), objs)
         /\ toggled' = Profiles!RowAfter(i)
         /\ choice' = IF choice = <<rows[i]>> THEN <<>> ELSE choice
  BY Zenon DEF Profiles!RemoveRow
<1>2. IsFiniteSet(stored')
  BY <1>1, ProfilesParts, FiniteWith DEF Profiles!Destroys
<1> DEFINE r == Profiles!RemoveAt(rows, i)
           l == Profiles!Unlisted(listed, rows[i])
<1>3. toggled' = 0 \/ (toggled' \in DOMAIN r /\ choice' = <<r[toggled']>>)
  BY <1>1, RowAfterFollows, Zenon
<1>4. r \in Seq(Ids) /\ Once(r)
  BY ProfilesParts, CutOnce
<1>5. l \in Seq(Ids) /\ Once(l)
  BY ProfilesParts, UnlistedOnce
<1>6. Profiles!WithRow(l, r, objs)
  BY <1>1
<1> HIDE DEF l, r
<1> QED
  BY <1>2, <1>3, <1>4, <1>5, <1>6, ProfilesParts, WithRowKeeps

LEMMA RenameKeeps ==
    ASSUME ProfilesInv, Profiles!Rename
    PROVE  ProfilesInv'
<1>1. PICK i \in DOMAIN rows, n \in ProfileNames, o \in Profiles!New :
         /\ Profiles!WithRow(Profiles!Replaced(rows[i], o), [rows EXCEPT ![i] = o],
                             [objs EXCEPT ![o] = Profiles!Ncp(n, TRUE)])
         /\ Profiles!Destroys(rows[i], stored \cup {n}, events)
         /\ choice' = IF choice = <<rows[i]>> THEN <<o>> ELSE choice
  BY Zenon DEF Profiles!Rename
<1>2. toggled' = toggled
  BY DEF Profiles!Rename
<1>3. IsFiniteSet(stored')
  <2>1. IsFiniteSet(stored \cup {n})
    BY ProfilesParts, FiniteWith
  <2>2. IsFiniteSet((stored \cup {n}) \ {objs[rows[i]].name})
    BY <2>1, FiniteWith
  <2> QED
    BY <1>1, <2>1, <2>2 DEF Profiles!Destroys
<1>4. o \in Ids /\ \A k \in DOMAIN rows : rows[k] # o
  BY NewIds, NewOnNoRow
<1> DEFINE r == [rows EXCEPT ![i] = o]
           l == Profiles!Replaced(rows[i], o)
           x == Changed(o, n, TRUE)
<1>5. /\ r \in Seq(Ids) /\ DOMAIN r = DOMAIN rows /\ r[i] = o
      /\ \A k \in DOMAIN rows : k # i => r[k] = rows[k]
  BY <1>4, ProfilesParts
<1> HIDE DEF r
<1>6. Once(r)
  BY <1>4, <1>5, ProfilesParts DEF Once
<1>7. toggled' = 0 \/ (toggled' \in DOMAIN r /\ choice' = <<r[toggled']>>)
  <2>1. CASE toggled = 0
    BY <2>1, <1>2
  <2>2. CASE toggled = i
    BY <2>2, <1>1, <1>2, <1>5, ProfilesParts
  <2>3. CASE toggled # 0 /\ toggled # i
    <3>1. toggled \in DOMAIN rows /\ choice = <<rows[toggled]>>
      BY <2>3, ProfilesParts
    <3>2. rows[toggled] # rows[i]
      BY <3>1, <2>3, ProfilesParts DEF Once
    <3>3. choice' = <<rows[toggled]>>
      BY <3>1, <3>2, <1>1
    <3> QED
      BY <3>1, <3>3, <2>3, <1>2, <1>5
  <2> QED
    BY <2>1, <2>2, <2>3
<1>8. l \in Seq(Ids) /\ Once(l)
  <2> DEFINE a == Profiles!Added(o, listed)
  <2>1. l = Profiles!Unlisted(a, rows[i])
    BY Zenon DEF Profiles!Replaced
  <2>2. a \in Seq(Ids) /\ Once(a)
    BY <1>4, AddedOnce, ProfilesParts
  <2> HIDE DEF a, l
  <2> QED
    BY <2>1, <2>2, UnlistedOnce
<1>b. AreNcps(objs)
  BY ProfilesParts
<1>c. ASSUME NEW h PROVE \A p \in Ids : Changed(o, n, h)[p]
                             = Profiles!Ncp(Changed(o, n, h)[p].name, Changed(o, n, h)[p].handle)
  BY <1>4, <1>b, ChangedNcp
<1>9. \A p \in Ids : x[p] = Profiles!Ncp(x[p].name, x[p].handle)
  BY <1>c, Zenon
<1>10. Profiles!WithRow(l, r, x)
  BY <1>1, Zenon DEF Changed, r
<1> HIDE DEF l, x
<1> QED
  BY <1>3, <1>5, <1>6, <1>7, <1>8, <1>9, <1>10, WithRowKeeps

\* The lists and the choice stay.
LEMMA SameRowsKeep ==
    ASSUME ProfilesInv, AreNcps(objs'), IsFiniteSet(stored'),
           rows' = rows, listed' = listed, toggled' = toggled, choice' = choice
    PROVE  ProfilesInv'
BY DEF ProfilesInv

LEMMA SetRowKeeps ==
    ASSUME ProfilesInv, NEW i \in DOMAIN rows, NEW n, NEW h, NEW l \in Seq(Ids), Once(l),
           Profiles!WithRow(l, rows, [objs EXCEPT ![rows[i]] = Profiles!Ncp(n, h)]),
           IsFiniteSet(stored'), toggled' = toggled, choice' = choice
    PROVE  ProfilesInv'
<1> DEFINE x == Changed(rows[i], n, h)
<1>1. rows[i] \in Ids /\ AreNcps(objs)
  BY ProfilesParts
<1>2. \A p \in Ids : x[p] = Profiles!Ncp(x[p].name, x[p].handle)
  BY <1>1, ChangedNcp
<1>3. Profiles!WithRow(l, rows, x)
  BY Zenon DEF Changed
<1> HIDE DEF x
<1> QED
  BY <1>2, <1>3, ProfilesParts, WithRowKeeps

LEMMA RenameUncreatedKeeps ==
    ASSUME ProfilesInv, Profiles!RenameUncreated
    PROVE  ProfilesInv'
<1>1. PICK i \in DOMAIN rows, n \in ProfileNames :
         LET m == IF n \in stored THEN objs[rows[i]].name ELSE n
         IN  \/ /\ stored' = stored \cup {m}
                /\ Profiles!WithRow(Profiles!Added(rows[i], listed), rows,
                                    [objs EXCEPT ![rows[i]] = Profiles!Ncp(m, TRUE)])
             \/ /\ stored' = stored
                /\ Profiles!WithRow(listed, rows, [objs EXCEPT ![rows[i]] = Profiles!Ncp(m, FALSE)])
  BY Zenon DEF Profiles!RenameUncreated, Profiles!Creates
<1>2. toggled' = toggled /\ choice' = choice
  BY DEF Profiles!RenameUncreated
<1> DEFINE m == IF n \in stored THEN objs[rows[i]].name ELSE n
           l == Profiles!Added(rows[i], listed)
<1>3. IsFiniteSet(stored')
  <2>1. stored' = stored \cup {m} \/ stored' = stored
    BY <1>1
  <2> HIDE DEF m
  <2> QED
    BY <2>1, ProfilesParts, FiniteWith
<1>4. l \in Seq(Ids) /\ Once(l)
  BY AddedOnce, ProfilesParts
<1>5. CASE Profiles!WithRow(l, rows, [objs EXCEPT ![rows[i]] = Profiles!Ncp(m, TRUE)])
  <2> HIDE DEF m, l
  <2> QED
    BY <1>2, <1>3, <1>4, <1>5, SetRowKeeps
<1>6. CASE Profiles!WithRow(listed, rows, [objs EXCEPT ![rows[i]] = Profiles!Ncp(m, FALSE)])
  <2> HIDE DEF m, l
  <2> QED
    BY <1>2, <1>3, <1>6, ProfilesParts, SetRowKeeps
<1> QED
  BY <1>1, <1>5, <1>6, Zenon

LEMMA EditUncreatedKeeps ==
    ASSUME ProfilesInv, Profiles!EditUncreated
    PROVE  ProfilesInv'
<1>1. PICK i \in DOMAIN rows :
         LET n == objs[rows[i]].name
         IN  \/ /\ stored' = stored \cup {n}
                /\ Profiles!WithRow(Profiles!Added(rows[i], listed), rows,
                                    [objs EXCEPT ![rows[i]] = Profiles!Ncp(n, TRUE)])
             \/ /\ stored' = stored
                /\ Profiles!WithRow(listed, rows,
                                    [objs EXCEPT ![rows[i]] = Profiles!Ncp(n, n \in stored)])
  BY Zenon DEF Profiles!EditUncreated, Profiles!Creates
<1>2. toggled' = toggled /\ choice' = choice
  BY DEF Profiles!EditUncreated
<1> DEFINE m == objs[rows[i]].name
           l == Profiles!Added(rows[i], listed)
           h == m \in stored
<1>3. IsFiniteSet(stored')
  <2>1. stored' = stored \cup {m} \/ stored' = stored
    BY <1>1
  <2> HIDE DEF m
  <2> QED
    BY <2>1, ProfilesParts, FiniteWith
<1>4. l \in Seq(Ids) /\ Once(l)
  BY AddedOnce, ProfilesParts
<1>5. CASE Profiles!WithRow(l, rows, [objs EXCEPT ![rows[i]] = Profiles!Ncp(m, TRUE)])
  <2> HIDE DEF m, l
  <2> QED
    BY <1>2, <1>3, <1>4, <1>5, SetRowKeeps
<1>6. CASE Profiles!WithRow(listed, rows, [objs EXCEPT ![rows[i]] = Profiles!Ncp(m, h)])
  <2> HIDE DEF m, l, h
  <2> QED
    BY <1>2, <1>3, <1>6, ProfilesParts, SetRowKeeps
<1> QED
  BY <1>1, <1>5, <1>6, Zenon

LEMMA ToggleKeeps ==
    ASSUME ProfilesInv, Profiles!Toggle
    PROVE  ProfilesInv'
<1>1. /\ toggled' \in DOMAIN rows /\ choice' = <<rows[toggled']>>
      /\ stored' = stored /\ objs' = objs /\ listed' = listed /\ rows' = rows
  BY DEF Profiles!Toggle
<1> QED
  BY <1>1, ProfilesParts DEF ProfilesInv

LEMMA RefreshKeeps ==
    ASSUME ProfilesInv, Profiles!Refresh
    PROVE  ProfilesInv'
<1>1. /\ rows' = listed /\ listed' = listed /\ stored' = stored
      /\ objs' = Profiles!Kept(objs, listed, listed) /\ toggled' = 0
  BY DEF Profiles!Refresh
<1>2. AreNcps(objs')
  BY <1>1, ProfilesParts, RowsAreNcps
<1> QED
  BY <1>1, <1>2, ProfilesParts DEF ProfilesInv

LEMMA ProfilesOthersKeep ==
    ASSUME ProfilesInv, Profiles!Turn \/ Profiles!OkElsewhere \/ Profiles!Admin
    PROVE  ProfilesInv'
<1>1. rows' = rows /\ listed' = listed /\ toggled' = toggled /\ choice' = choice /\ objs' = objs
  BY DEF Profiles!Turn, Profiles!OkElsewhere, Profiles!Admin
<1>2. IsFiniteSet(stored')
  <2>1. stored' = stored \/ (\E n : stored' = stored \cup {n} \/ stored' = stored \ {n})
    BY DEF Profiles!Turn, Profiles!OkElsewhere, Profiles!Admin, Profiles!Creates
  <2> QED
    BY <2>1, ProfilesParts, FiniteWith
<1> QED
  BY <1>1, <1>2, ProfilesParts, SameRowsKeep

LEMMA FiniteNames ==
    ASSUME ProfilesInv, NEW S \in SUBSET DOMAIN rows
    PROVE  IsFiniteSet(Profiles!NamesOf(S))
<1> DEFINE N == Profiles!NamesOf(S)
           q == [i \in 1 .. Len(rows) |-> objs[rows[i]].name]
           T == {objs[rows[i]].name : i \in 1 .. Len(rows)}
<1>1. N = {objs[rows[i]].name : i \in S}
  BY Zenon DEF Profiles!NamesOf
<1>2. Len(rows) \in Nat /\ DOMAIN rows = 1 .. Len(rows)
  BY ProfilesParts
<1>3. q \in Seq(T) /\ Len(q) = Len(rows)
  BY <1>2
<1>4. \A s \in N : \E n \in 1 .. Len(q) : q[n] = s
  <2> SUFFICES ASSUME NEW i \in S PROVE \E n \in 1 .. Len(q) : q[n] = objs[rows[i]].name
    BY <1>1
  <2>1. i \in 1 .. Len(rows)
    BY <1>2
  <2> QED
    BY <2>1, <1>3
<1>5. N \subseteq T
  BY <1>1, <1>2
<1> HIDE DEF q, N, T
<1>6. \E s \in Seq(T) : \A x \in N : \E n \in 1 .. Len(s) : s[n] = x
  BY <1>3, <1>4
<1>7. IsFiniteSet(T)
  <2>1. \A x \in T : \E n \in 1 .. Len(q) : q[n] = x
    <3> SUFFICES ASSUME NEW i \in 1 .. Len(rows) PROVE \E n \in 1 .. Len(q) : q[n] = objs[rows[i]].name
      BY DEF T
    <3> QED
      BY <1>3 DEF q
  <2> QED
    BY <2>1, <1>3, Zenon DEF IsFiniteSet
<1> QED
  BY <1>5, <1>7, FS_Subset DEF N

LEMMA HandleGiven ==
    ASSUME NEW n, NEW h, NEW t
    PROVE  [Profiles!Ncp(n, h) EXCEPT !.handle = t] = Profiles!Ncp(n, t)
BY DEF Profiles!Ncp

\* What apply() does to the objects: it only gives them handles.
LEMMA OkNames ==
    ASSUME ProfilesInv, Profiles!Ok
    PROVE  /\ AreNcps(objs')
           /\ \A o \in Ids : objs'[o].name = objs[o].name
           /\ \E S \in SUBSET DOMAIN rows : stored' = stored \cup Profiles!NamesOf(S)
<1>1. PICK k \in 0 .. Len(rows) :
         /\ objs' = [o \in Ids |-> IF \E i \in Profiles!CreatedUpTo(k) : rows[i] = o
                                   THEN [objs[o] EXCEPT !.handle = TRUE] ELSE objs[o]]
         /\ stored' = stored \cup Profiles!NamesOf(Profiles!CreatedUpTo(k))
  BY Zenon DEF Profiles!Ok
<1> DEFINE C(o) == \E i \in Profiles!CreatedUpTo(k) : rows[i] = o
           y(o) == [objs[o] EXCEPT !.handle = TRUE]
<1>2. Profiles!CreatedUpTo(k) \subseteq DOMAIN rows
  BY DEF Profiles!CreatedUpTo, Profiles!Uncreated
<1>3. /\ objs' = [o \in Ids |-> objs'[o]]
      /\ \A o \in Ids : objs'[o] = IF C(o) THEN y(o) ELSE objs[o]
  BY <1>1
<1>4. ASSUME NEW o \in Ids PROVE y(o) = Profiles!Ncp(objs[o].name, TRUE)
  <2> DEFINE n == objs[o].name
             h == objs[o].handle
  <2>1. objs[o] = Profiles!Ncp(n, h)
    BY ProfilesParts
  <2> HIDE DEF n, h
  <2>2. y(o) = [Profiles!Ncp(n, h) EXCEPT !.handle = TRUE]
    BY <2>1
  <2>3. [Profiles!Ncp(n, h) EXCEPT !.handle = TRUE] = Profiles!Ncp(n, TRUE)
    BY HandleGiven, Zenon
  <2> QED
    BY <2>2, <2>3 DEF n
<1> HIDE DEF C, y
<1>5. ASSUME NEW o \in Ids
      PROVE  objs'[o] = Profiles!Ncp(objs'[o].name, objs'[o].handle) /\ objs'[o].name = objs[o].name
  <2>1. CASE C(o)
    <3> DEFINE n == objs[o].name
               x == objs'[o]
    <3>1. x = Profiles!Ncp(n, TRUE)
      BY <2>1, <1>3, <1>4
    <3> HIDE DEF n, x
    <3>2. x.name = n /\ x.handle = TRUE
      BY <3>1 DEF Profiles!Ncp
    <3> QED
      BY <3>1, <3>2, Zenon DEF n, x
  <2>2. CASE ~C(o)
    BY <2>2, <1>3, ProfilesParts
  <2> QED
    BY <2>1, <2>2
<1>6. AreNcps(objs')
  BY <1>3, <1>5 DEF AreNcps
<1> QED
  BY <1>1, <1>2, <1>5, <1>6

LEMMA ProfilesOkKeeps ==
    ASSUME ProfilesInv, Profiles!Ok
    PROVE  ProfilesInv'
<1>1. rows' = rows /\ listed' = listed /\ toggled' = toggled /\ choice' = choice
  BY DEF Profiles!Ok
<1>2. PICK S \in SUBSET DOMAIN rows : stored' = stored \cup Profiles!NamesOf(S)
  BY OkNames
<1>3. IsFiniteSet(stored')
  <2>1. IsFiniteSet(stored) /\ IsFiniteSet(Profiles!NamesOf(S))
    BY FiniteNames, ProfilesParts
  <2> QED
    BY <2>1, <1>2, FS_Union
<1> QED
  BY <1>1, <1>3, OkNames, SameRowsKeep

LEMMA HandleKeeps ==
    ASSUME ProfilesInv, Profiles!Handle, PanelsAssumption
    PROVE  ProfilesInv'
<1>1. /\ stored' = stored /\ toggled' = toggled /\ choice' = choice
      /\ \E n : Profiles!HandleAdd(n) \/ Profiles!HandleRemove(n)
  BY DEF Profiles!Handle
<1>2. PICK n : Profiles!HandleAdd(n) \/ Profiles!HandleRemove(n)
  BY <1>1
<1>3. IsFiniteSet(stored')
  BY <1>1, ProfilesParts
<1>4. CASE UNCHANGED <<objs, listed, rows>>
  BY <1>1, <1>3, <1>4, ProfilesParts, SameRowsKeep
<1>5. CASE Profiles!HandleAdd(n) /\ ~UNCHANGED <<objs, listed, rows>>
  <2>1. PICK o \in Profiles!New :
           Profiles!WithRow(Profiles!Added(o, listed), rows,
                            [objs EXCEPT ![o] = Profiles!Ncp(n, n \in stored)])
    BY <1>5, Zenon DEF Profiles!HandleAdd
  <2> DEFINE h == n \in stored
             l == Profiles!Added(o, listed)
             x == Changed(o, n, h)
  <2>2. o \in Ids /\ AreNcps(objs)
    BY NewIds, ProfilesParts
  <2>3. l \in Seq(Ids) /\ Once(l)
    BY <2>2, AddedOnce, ProfilesParts
  <2>4. Profiles!WithRow(l, rows, x)
    BY <2>1, Zenon DEF Changed
  <2> HIDE DEF h
  <2>5. \A p \in Ids : x[p] = Profiles!Ncp(x[p].name, x[p].handle)
    BY <2>2, ChangedNcp
  <2> HIDE DEF l, x
  <2> QED
    BY <2>3, <2>4, <2>5, <1>1, <1>3, ProfilesParts, WithRowKeeps
<1>6. CASE Profiles!HandleRemove(n) /\ ~UNCHANGED <<objs, listed, rows>>
  <2> DEFINE S == Profiles!Named(listed, n)
             k == Profiles!Least(S)
             l == Profiles!RemoveAt(listed, k)
  <2>1. S # {} /\ Profiles!WithRow(l, rows, objs)
    BY <1>6, Zenon DEF Profiles!HandleRemove
  <2>2. S \in SUBSET Nat /\ S \subseteq DOMAIN listed
    BY ProfilesParts DEF Profiles!Named
  <2> HIDE DEF S
  <2>3. k \in DOMAIN listed
    BY <2>1, <2>2, LeastOfThem
  <2> HIDE DEF k
  <2>4. l \in Seq(Ids) /\ Once(l)
    BY <2>3, CutOnce, ProfilesParts
  <2> HIDE DEF l
  <2> QED
    BY <2>1, <2>4, <1>1, <1>3, ProfilesParts, WithRowKeeps
<1> QED
  BY <1>2, <1>4, <1>5, <1>6

LEMMA ProfilesInit ==
    ASSUME PanelsAssumption, Profiles!Init
    PROVE  ProfilesInv
<1>1. PICK l \in Profiles!SetToSeqs(1 .. Profiles!Cardinality(stored)), f \in Profiles!SetToSeqs(stored) :
         /\ listed = l /\ rows = l
         /\ objs = [o \in Ids |-> IF o \in DOMAIN f THEN Profiles!Ncp(f[o], TRUE) ELSE Profiles!Nothing]
  BY Zenon DEF Profiles!Init
<1>2. IsFiniteSet(stored) /\ Cardinality(stored) <= 2
  BY ProfilesFinite, ProfilesCardinality DEF Profiles!Init
<1> DEFINE n == Cardinality(stored)
<1>3. n \in Nat /\ n <= 2 /\ Profiles!Cardinality(stored) = n
  BY <1>2, FS_CardinalityType, ProfilesCardinality
<1> HIDE DEF n
<1>4. IsFiniteSet(1 .. n) /\ Cardinality(1 .. n) = n
  BY <1>3, FS_Interval
<1>5. Profiles!Cardinality(1 .. n) = n
  BY <1>4, ProfilesCardinality
<1>6. l \in [1 .. n -> 1 .. n] /\ \A i, j \in 1 .. n : i # j => l[i] # l[j]
  BY <1>1, <1>3, <1>5 DEF Profiles!SetToSeqs
<1>7. 1 .. 2 \subseteq Ids
  BY DEF PanelsAssumption, Profiles!PanelAssumption
<1>8. 1 .. n \subseteq Ids
  <2>1. 1 .. n \subseteq 1 .. 2
    BY <1>3
  <2> QED
    BY <2>1, <1>7, Zenon
<1>9. l \in Seq(Ids) /\ Once(l)
  BY <1>3, <1>6, <1>8 DEF Once
<1>10. AreNcps(objs)
  <2>1. objs = [o \in Ids |-> objs[o]]
    BY <1>1
  <2>2. ASSUME NEW o \in Ids PROVE objs[o] = Profiles!Ncp(objs[o].name, objs[o].handle)
    <3>1. CASE o \in DOMAIN f
      <4> DEFINE v == f[o]
      <4>1. objs[o] = Profiles!Ncp(v, TRUE)
        BY <3>1, <1>1
      <4> HIDE DEF v
      <4> QED
        BY <4>1 DEF Profiles!Ncp
    <3>2. CASE o \notin DOMAIN f
      <4>1. objs[o] = Profiles!Ncp(0, FALSE)
        BY <3>2, <1>1 DEF Profiles!Nothing
      <4> QED
        BY <4>1 DEF Profiles!Ncp
    <3> QED
      BY <3>1, <3>2
  <2> QED
    BY <2>1, <2>2 DEF AreNcps
<1>11. toggled = 0
  BY DEF Profiles!Init
<1> QED
  BY <1>1, <1>2, <1>9, <1>10, <1>11 DEF ProfilesInv

LEMMA ProfilesKeep ==
    ASSUME PanelsAssumption, ProfilesInv, [Profiles!Next]_Profiles!vars
    PROVE  ProfilesInv'
<1>1. CASE UNCHANGED Profiles!vars
  <2>1. /\ rows' = rows /\ listed' = listed /\ toggled' = toggled /\ choice' = choice
        /\ objs' = objs /\ stored' = stored
    BY <1>1 DEF Profiles!vars
  <2> QED
    BY <2>1, ProfilesParts, SameRowsKeep
<1>2. CASE Profiles!Next
  BY <1>2, CreateKeeps, DupKeeps, RemoveRowKeeps, RenameKeeps, RenameUncreatedKeeps,
     EditUncreatedKeeps, ToggleKeeps, RefreshKeeps, ProfilesOthersKeep, ProfilesOkKeeps, HandleKeeps,
     Zenon DEF Profiles!Next
<1> QED
  BY <1>1, <1>2

\* apply() asks for the profile on the row chosen.
LEMMA AsksRight ==
    ASSUME PanelsAssumption, ProfilesInv, [Profiles!Next]_Profiles!vars
    PROVE  Profiles!AsksForTheChoice
<1>1. CASE Profiles!Ok
  <2> SUFFICES ASSUME asked' # asked PROVE choice # <<>> /\ asked' = objs'[choice[1]].name
    BY DEF Profiles!AsksForTheChoice
  <2>1. asked' = Profiles!Activates
    BY <1>1 DEF Profiles!Ok
  <2>2. toggled \in DOMAIN rows /\ asked' = objs[rows[toggled]].name
    BY <2>1, Zenon DEF Profiles!Activates
  <2>3. choice = <<rows[toggled]>> /\ rows[toggled] \in Ids
    BY <2>2, ProfilesParts
  <2>4. choice # <<>> /\ choice[1] = rows[toggled]
    BY <2>3
  <2>5. objs'[rows[toggled]].name = objs[rows[toggled]].name
    BY <1>1, <2>3, OkNames
  <2> QED
    BY <2>2, <2>4, <2>5
<1>2. CASE asked' = asked
  BY <1>2 DEF Profiles!AsksForTheChoice
<1>3. CASE UNCHANGED Profiles!vars
  BY <1>2, <1>3 DEF Profiles!vars
<1>4. CASE Profiles!Next /\ ~Profiles!Ok
  BY <1>2, <1>4
  DEF Profiles!Next, Profiles!Edit, Profiles!Create, Profiles!Dup, Profiles!RemoveRow,
      Profiles!Rename, Profiles!RenameUncreated, Profiles!EditUncreated, Profiles!Toggle,
      Profiles!Refresh, Profiles!Turn, Profiles!OkElsewhere, Profiles!Admin, Profiles!Handle
<1> QED
  BY <1>1, <1>3, <1>4

\* Renaming destroys at most one profile, after it made one.
LEMMA RenameKeepsAsMany ==
    ASSUME ProfilesInv
    PROVE  Profiles!KeepsAsMany
<1> SUFFICES ASSUME Profiles!Rename PROVE Profiles!Cardinality(stored') >= Profiles!Cardinality(stored)
  BY DEF Profiles!KeepsAsMany
<1>1. PICK i \in DOMAIN rows, n \in ProfileNames :
         Profiles!Copies(rows[i], n) /\ Profiles!Destroys(rows[i], stored \cup {n}, events)
  BY Zenon DEF Profiles!Rename
<1> DEFINE m == objs[rows[i]].name
<1>2. n \notin stored /\ m \in stored
  BY <1>1 DEF Profiles!Copies
<1>3. stored' = stored \cup {n} \/ stored' = (stored \cup {n}) \ {m}
  BY <1>1 DEF Profiles!Destroys
<1> HIDE DEF m
<1>4. IsFiniteSet(stored)
  BY ProfilesParts
<1>5. Cardinality(stored) \in Nat
  BY <1>4, FS_CardinalityType
<1>6. IsFiniteSet(stored \cup {n}) /\ Cardinality(stored \cup {n}) = Cardinality(stored) + 1
  BY <1>2, <1>4, FS_AddElement
<1>7. Cardinality((stored \cup {n}) \ {m}) = Cardinality(stored \cup {n}) - 1
  BY <1>2, <1>6, FS_RemoveElement
<1>8. Cardinality(stored') = Cardinality(stored) + 1 \/ Cardinality(stored') = Cardinality(stored)
  <2>1. CASE stored' = stored \cup {n}
    BY <2>1, <1>6
  <2>2. CASE stored' = (stored \cup {n}) \ {m}
    <3>1. Cardinality(stored') = (Cardinality(stored) + 1) - 1
      BY <2>2, <1>6, <1>7
    <3> QED
      BY <3>1, <1>5
  <2> QED
    BY <2>1, <2>2, <1>3
<1>9. /\ Profiles!Cardinality(stored') = Cardinality(stored')
      /\ Profiles!Cardinality(stored) = Cardinality(stored)
  BY ProfilesCardinality, Zenon
<1> DEFINE c == Cardinality(stored)
           d == Cardinality(stored')
<1>10. c \in Nat /\ (d = c + 1 \/ d = c)
  BY <1>5, <1>8
<1> HIDE DEF c, d
<1>11. d >= c
  BY <1>10
<1> QED
  BY <1>9, <1>11, Zenon DEF c, d

-----------------------------------------------------------------------------
(* The page for addresses (IpPanel).                                         *)

IpFamilies == {"v4", "v6"}
IpLists    == Seq(Addrs \cup {0})
IpRoutes   == Routes \cup {0}
IpObject ==
    [active : [IpFamilies -> BOOLEAN], dhcp : [IpFamilies -> BOOLEAN],
     rows : [IpFamilies -> IpLists], route : [IpFamilies -> IpRoutes],
     enabled : BOOLEAN, modified : BOOLEAN]
IpScreen ==
    [mode : {"off", "dhcp", "manual", "both"}, on6 : BOOLEAN, manual6 : BOOLEAN,
     route : [IpFamilies -> IpRoutes]]
IpConfig ==
    [on : [IpFamilies -> BOOLEAN], dhcp : [IpFamilies -> BOOLEAN],
     addrs : [IpFamilies -> IpLists], route : [IpFamilies -> IpRoutes], enabled : BOOLEAN]

IpTypes ==
    /\ obj \in IpObject /\ screen \in IpScreen
    /\ shown \in BOOLEAN /\ outcome \in {"open", "ok"}

\* A page the user left is still to be committed, and says what was chosen.
IpInv ==
    /\ IpTypes
    /\ outcome = "open" /\ ~shown =>
          obj.modified /\ choice = <<Ip!SavedIn(Ip!Committed(obj))>>
    /\ Ip!OkStoresTheChoice

LEMMA IpFamiliesAre == Ip!Families = IpFamilies
BY DEF Ip!Families, IpFamilies

LEMMA EmptyList == <<>> \in IpLists
BY DEF IpLists

\* What apply() makes of an object.
LEMMA Applied4Is ==
    ASSUME NEW o \in IpObject, screen \in IpScreen
    PROVE  LET p == Ip!Applied4(o)
           IN  /\ p \in IpObject
               /\ p.active = [o.active EXCEPT !["v4"] = (screen.mode # "off")]
               /\ screen.mode # "off" => p.dhcp["v4"] = (screen.mode # "manual")
               /\ p.dhcp["v6"] = o.dhcp["v6"]
               /\ p.rows["v4"] = IF screen.mode = "dhcp" THEN <<>> ELSE o.rows["v4"]
               /\ p.rows["v6"] = o.rows["v6"]
               /\ p.route["v4"] = IF screen.mode = "off" THEN 0 ELSE screen.route["v4"]
               /\ p.route["v6"] = o.route["v6"]
<1>1. CASE screen.mode = "off"
  BY <1>1 DEF Ip!Applied4, IpObject, IpScreen, IpFamilies, IpRoutes
<1>2. CASE screen.mode # "off"
  BY <1>2, EmptyList DEF Ip!Applied4, IpObject, IpScreen, IpFamilies, IpRoutes
<1> QED
  BY <1>1, <1>2

LEMMA Applied6Is ==
    ASSUME NEW o \in IpObject, screen \in IpScreen
    PROVE  LET p == Ip!Applied6(o)
           IN  /\ p \in IpObject
               /\ p.active = [o.active EXCEPT !["v6"] = screen.on6]
               /\ p.dhcp["v4"] = o.dhcp["v4"]
               /\ p.rows["v4"] = o.rows["v4"]
               /\ p.rows["v6"] = IF screen.on6 /\ screen.manual6 THEN o.rows["v6"] ELSE <<>>
               /\ p.route["v4"] = o.route["v4"]
               /\ p.route["v6"] = IF screen.on6 THEN screen.route["v6"] ELSE 0
<1>1. CASE screen.on6
  BY <1>1, EmptyList DEF Ip!Applied6, IpObject, IpScreen, IpFamilies, IpRoutes
<1>2. CASE ~screen.on6
  BY <1>2, EmptyList DEF Ip!Applied6, IpObject, IpScreen, IpFamilies, IpRoutes
<1> QED
  BY <1>1, <1>2

LEMMA AppliedIs ==
    ASSUME obj \in IpObject, screen \in IpScreen
    PROVE  LET p == Ip!Applied
               on(f) == Ip!On(screen, f)
           IN  /\ p \in IpObject /\ p.modified = TRUE
               /\ p.active = [f \in IpFamilies |-> on(f)]
               /\ p.active["v4"] => p.dhcp["v4"] = (screen.mode # "manual")
               /\ \A f \in IpFamilies : Ip!Static(screen, f) => p.rows[f] = obj.rows[f]
               /\ \A f \in IpFamilies : on(f) /\ ~Ip!Static(screen, f) => p.rows[f] = <<>>
               /\ p.route = [f \in IpFamilies |-> IF on(f) THEN screen.route[f] ELSE 0]
<1> DEFINE a == Ip!Applied4(obj)
           b == Ip!Applied6(a)
           p == Ip!Applied
<1>1. /\ a \in IpObject
      /\ a.active = [obj.active EXCEPT !["v4"] = (screen.mode # "off")]
      /\ screen.mode # "off" => a.dhcp["v4"] = (screen.mode # "manual")
      /\ a.rows["v4"] = IF screen.mode = "dhcp" THEN <<>> ELSE obj.rows["v4"]
      /\ a.rows["v6"] = obj.rows["v6"]
      /\ a.route["v4"] = IF screen.mode = "off" THEN 0 ELSE screen.route["v4"]
  BY Applied4Is
<1> HIDE DEF a
<1>2. /\ b \in IpObject
      /\ b.active = [a.active EXCEPT !["v6"] = screen.on6]
      /\ b.dhcp["v4"] = a.dhcp["v4"]
      /\ b.rows["v4"] = a.rows["v4"]
      /\ b.rows["v6"] = IF screen.on6 /\ screen.manual6 THEN a.rows["v6"] ELSE <<>>
      /\ b.route["v4"] = a.route["v4"]
      /\ b.route["v6"] = IF screen.on6 THEN screen.route["v6"] ELSE 0
  BY <1>1, Applied6Is
<1>3. p = [b EXCEPT !.modified = TRUE]
  BY Zenon DEF Ip!Applied, a
<1> HIDE DEF b, p
<1>4. /\ p \in IpObject /\ p.modified = TRUE
      /\ p.active = b.active /\ p.dhcp = b.dhcp /\ p.rows = b.rows /\ p.route = b.route
  BY <1>2, <1>3 DEF IpObject
<1>5. Ip!On(screen, "v4") = (screen.mode # "off") /\ Ip!On(screen, "v6") = screen.on6
  BY DEF Ip!On, IpScreen
<1>6. /\ Ip!Static(screen, "v4") = (screen.mode \in {"manual", "both"})
      /\ Ip!Static(screen, "v6") = (screen.on6 /\ screen.manual6)
  BY DEF Ip!Static, IpScreen
<1>7. screen.mode \in {"off", "dhcp", "manual", "both"}
  BY DEF IpScreen
<1>8. p.active = [f \in IpFamilies |-> Ip!On(screen, f)]
  BY <1>1, <1>2, <1>4, <1>5 DEF IpFamilies, IpObject
<1>9. p.active["v4"] => p.dhcp["v4"] = (screen.mode # "manual")
  BY <1>1, <1>2, <1>4, <1>5, <1>8 DEF IpFamilies
<1>10. \A f \in IpFamilies : Ip!Static(screen, f) => p.rows[f] = obj.rows[f]
  BY <1>1, <1>2, <1>4, <1>6, <1>7 DEF IpFamilies
<1>11. \A f \in IpFamilies : Ip!On(screen, f) /\ ~Ip!Static(screen, f) => p.rows[f] = <<>>
  BY <1>1, <1>2, <1>4, <1>5, <1>6, <1>7 DEF IpFamilies
<1>12. p.route = [f \in IpFamilies |-> IF Ip!On(screen, f) THEN screen.route[f] ELSE 0]
  <2>1. p.route \in [IpFamilies -> IpRoutes]
    BY <1>4 DEF IpObject
  <2>2. \A f \in IpFamilies : p.route[f] = IF Ip!On(screen, f) THEN screen.route[f] ELSE 0
    BY <1>1, <1>2, <1>4, <1>5 DEF IpFamilies
  <2> QED
    BY <2>1, <2>2
<1> QED
  BY <1>4, <1>8, <1>9, <1>10, <1>11, <1>12 DEF p

LEMMA AppliedSaves ==
    ASSUME obj \in IpObject, screen \in IpScreen
    PROVE  Ip!SavedIn(Ip!Committed(Ip!Applied)) = Ip!Chosen
<1> DEFINE p == Ip!Applied
<1>1. /\ p \in IpObject
      /\ p.active = [f \in IpFamilies |-> Ip!On(screen, f)]
      /\ p.active["v4"] => p.dhcp["v4"] = (screen.mode # "manual")
      /\ \A f \in IpFamilies : Ip!Static(screen, f) => p.rows[f] = obj.rows[f]
      /\ \A f \in IpFamilies : Ip!On(screen, f) /\ ~Ip!Static(screen, f) => p.rows[f] = <<>>
      /\ p.route = [f \in IpFamilies |-> IF Ip!On(screen, f) THEN screen.route[f] ELSE 0]
  BY AppliedIs
<1> HIDE DEF p
<1> DEFINE c == Ip!Committed(p)
<1>2. /\ c.on = p.active /\ c.route = p.route
      /\ c.dhcp["v4"] = (p.active["v4"] /\ p.dhcp["v4"])
      /\ \A f \in IpFamilies : c.addrs[f] = IF p.active[f] THEN p.rows[f] ELSE <<>>
  BY IpFamiliesAre DEF Ip!Committed, IpFamilies
<1> HIDE DEF c
<1>3. screen.mode \in {"off", "dhcp", "manual", "both"}
  BY DEF IpScreen
<1>4. (c.on["v4"] /\ c.dhcp["v4"]) = (screen.mode \in {"dhcp", "both"})
  BY <1>1, <1>2, <1>3 DEF IpObject, IpFamilies, Ip!On
<1> DEFINE x(f) == IF c.on[f] THEN Ip!ToSet(c.addrs[f]) ELSE {}
           y(f) == IF Ip!Static(screen, f) THEN Ip!ToSet(obj.rows[f]) ELSE {}
<1>5. ASSUME NEW f \in IpFamilies PROVE x(f) = y(f)
  <2>0. Ip!Static(screen, f) => Ip!On(screen, f)
    BY DEF Ip!Static, Ip!On
  <2>1. c.on[f] = Ip!On(screen, f)
    BY <1>1, <1>2
  <2>2. Ip!ToSet(<<>>) = {}
    BY DEF Ip!ToSet
  <2>3. CASE Ip!Static(screen, f)
    BY <2>0, <2>1, <2>3, <1>1, <1>2
  <2>4. CASE ~Ip!Static(screen, f) /\ Ip!On(screen, f)
    BY <2>1, <2>2, <2>4, <1>1, <1>2
  <2>5. CASE ~Ip!On(screen, f)
    BY <2>0, <2>1, <2>5
  <2> QED
    BY <2>3, <2>4, <2>5
<1> DEFINE X == [f \in IpFamilies |-> x(f)]
           Y == [f \in IpFamilies |-> y(f)]
           d == c.on["v4"] /\ c.dhcp["v4"]
           e == screen.mode \in {"dhcp", "both"}
           R == [f \in IpFamilies |-> IF Ip!On(screen, f) THEN screen.route[f] ELSE 0]
           O == [f \in IpFamilies |-> Ip!On(screen, f)]
<1>6. X = Y
  BY <1>5, Zenon
<1>7. Ip!SavedIn(c) = [on |-> c.on, dhcp |-> d, addrs |-> X, route |-> c.route]
  BY IpFamiliesAre, Zenon DEF Ip!SavedIn
<1>8. Ip!Chosen = [on |-> O, dhcp |-> e, addrs |-> Y, route |-> R]
  BY IpFamiliesAre, Zenon DEF Ip!Chosen
<1>9. c.on = O /\ c.route = R /\ d = e
  BY <1>1, <1>2, <1>4
<1> HIDE DEF d, e, X, Y, R, O
<1> QED
  BY <1>6, <1>7, <1>8, <1>9, Zenon DEF c, p

\* Committing looks neither at whether an object changed nor, but for its use,
\* at whether it is enabled.
LEMMA SavedOfUse ==
    ASSUME NEW o \in IpObject, NEW u \in BOOLEAN, NEW p, p = [o EXCEPT !.enabled = u]
    PROVE  p \in IpObject /\ p.modified = o.modified /\ Ip!SavedIn(Ip!Committed(p)) = Ip!SavedIn(Ip!Committed(o))
<1>1. /\ p \in IpObject /\ p.modified = o.modified
      /\ p.active = o.active /\ p.dhcp = o.dhcp /\ p.rows = o.rows /\ p.route = o.route
  BY DEF IpObject
<1> DEFINE c == Ip!Committed(p)
           d == Ip!Committed(o)
<1>2. c.on = d.on /\ c.dhcp = d.dhcp /\ c.addrs = d.addrs /\ c.route = d.route
  BY <1>1 DEF Ip!Committed
<1> HIDE DEF c, d
<1>3. Ip!SavedIn(c) = Ip!SavedIn(d)
  BY <1>2, Zenon DEF Ip!SavedIn
<1> QED
  BY <1>1, <1>3 DEF c, d

LEMMA CommittedUse ==
    ASSUME NEW o \in IpObject
    PROVE  Ip!Committed(o).enabled \in BOOLEAN
BY DEF Ip!Committed, IpObject, IpFamilies

LEMMA BothIn ==
    ASSUME NEW S, NEW v4 \in S, NEW v6 \in S
    PROVE  Ip!Both(v4, v6) \in [IpFamilies -> S]
BY IpFamiliesAre, Zenon DEF Ip!Both

LEMMA IpStores ==
    ASSUME PanelsAssumption
    PROVE  Configs \subseteq IpConfig
<1> SUFFICES ASSUME NEW c \in Configs PROVE c \in IpConfig
  OBVIOUS
<1>1. Ip!StoresAssumption
  BY Zenon DEF PanelsAssumption
<1>2. c \in {Ip!Config(m, l4, on6, l6, r) : m \in Ip!Modes, l4 \in Ip!Lists \ {<<>>}, on6 \in BOOLEAN,
                                          l6 \in Ip!Lists, r \in Routes \cup {0}}
  BY <1>1 DEF Ip!StoresAssumption
<1>3. PICK m \in Ip!Modes, l4 \in Ip!Lists, on6 \in BOOLEAN, l6 \in Ip!Lists, r \in IpRoutes :
          c = Ip!Config(m, l4, on6, l6, r)
  BY <1>2 DEF IpRoutes
<1>4. Ip!Lists \subseteq IpLists
  BY DEF Ip!Lists, Ip!SeqOf, IpLists
<1>5. /\ Ip!Both(m # "off", on6) \in [IpFamilies -> BOOLEAN]
      /\ Ip!Both(m \in {"dhcp", "both"}, on6) \in [IpFamilies -> BOOLEAN]
  <2>1. (m # "off") \in BOOLEAN /\ (m \in {"dhcp", "both"}) \in BOOLEAN
    OBVIOUS
  <2> QED
    BY <2>1, BothIn, Zenon
<1>6. Ip!Both(IF m \in {"manual", "both"} THEN l4 ELSE <<>>, IF on6 THEN l6 ELSE <<>>)
          \in [IpFamilies -> IpLists]
  BY <1>4, EmptyList, BothIn
<1>7. Ip!Both(IF m = "off" THEN 0 ELSE r, 0) \in [IpFamilies -> IpRoutes]
  BY BothIn DEF IpRoutes
<1>8. c = [on      |-> Ip!Both(m # "off", on6),
           dhcp    |-> Ip!Both(m \in {"dhcp", "both"}, on6),
           addrs   |-> Ip!Both(IF m \in {"manual", "both"} THEN l4 ELSE <<>>, IF on6 THEN l6 ELSE <<>>),
           route   |-> Ip!Both(IF m = "off" THEN 0 ELSE r, 0),
           enabled |-> TRUE]
  BY <1>3, Zenon DEF Ip!Config
<1> QED
  BY <1>5, <1>6, <1>7, <1>8, Zenon DEF IpConfig

LEMMA IpReloads ==
    ASSUME NEW o \in IpObject, NEW c \in IpConfig
    PROVE  Ip!Reload(o, c) \in IpObject /\ Ip!Reload(o, c).modified = FALSE
<1> DEFINE d == [f \in IpFamilies |-> o.dhcp[f] \/ (c.on[f] /\ c.dhcp[f])]
           r == [f \in IpFamilies |-> Ip!RowsRead(c, f)]
<1>1. d \in [IpFamilies -> BOOLEAN]
  BY Zenon
<1>2. r \in [IpFamilies -> IpLists]
  <2> SUFFICES ASSUME NEW f \in IpFamilies PROVE Ip!RowsRead(c, f) \in IpLists
    BY Zenon
  <2> DEFINE l == c.addrs[f]
  <2>1. l \in IpLists
    BY DEF IpConfig
  <2> HIDE DEF l
  <2>2. Ip!Reverse(l) \in IpLists
    BY <2>1 DEF Ip!Reverse, IpLists
  <2> QED
    BY <2>2, EmptyList, Zenon DEF Ip!RowsRead, l
<1>3. Ip!Reload(o, c) =
          [[o EXCEPT !.active = c.on, !.dhcp = d, !.rows = r]
              EXCEPT !.route = c.route, !.enabled = c.enabled, !.modified = FALSE]
  BY IpFamiliesAre, Zenon DEF Ip!Reload, Ip!Read
<1> HIDE DEF d, r
<1> QED
  BY <1>1, <1>2, <1>3 DEF IpObject, IpConfig

LEMMA IpPages ==
    ASSUME NEW o \in IpObject
    PROVE  /\ Ip!Populated(o) \in IpScreen
           /\ screen \in IpScreen => Ip!Refilled(o) \in IpScreen
<1>1. Ip!ModeOf(o) \in {"off", "dhcp", "manual", "both"}
  BY Zenon DEF Ip!ModeOf
<1>2. o.active["v6"] \in BOOLEAN /\ (o.rows["v6"] # <<>>) \in BOOLEAN /\ o.route \in [IpFamilies -> IpRoutes]
  BY DEF IpObject, IpFamilies
<1>3. Ip!Populated(o) \in IpScreen
  BY <1>1, <1>2 DEF Ip!Populated, IpScreen
<1>4. screen \in IpScreen => Ip!Refilled(o) \in IpScreen
  BY <1>2 DEF Ip!Refilled, IpScreen
<1> QED
  BY <1>3, <1>4

LEMMA IpUnread == Ip!Unread \in IpObject
<1>1. /\ Ip!Both(FALSE, FALSE) \in [IpFamilies -> BOOLEAN]
      /\ Ip!Both(FALSE, TRUE) \in [IpFamilies -> BOOLEAN]
      /\ Ip!Both(<<>>, <<>>) \in [IpFamilies -> IpLists]
      /\ Ip!Both(0, 0) \in [IpFamilies -> IpRoutes]
  BY EmptyList, BothIn DEF IpRoutes
<1> QED
  BY <1>1, Zenon DEF Ip!Unread, IpObject

LEMMA IpInit ==
    ASSUME PanelsAssumption, Ip!Init
    PROVE  IpInv
<1>1. /\ stored \in Configs
      /\ obj = Ip!Reload(Ip!Unread, stored)
      /\ screen = Ip!Populated(obj) /\ shown = TRUE
      /\ outcome = "open"
  BY Zenon DEF Ip!Init
<1>2. obj \in IpObject
  BY <1>1, IpStores, IpUnread, IpReloads
<1>3. screen \in IpScreen
  BY <1>1, <1>2, IpPages
<1> QED
  BY <1>1, <1>2, <1>3 DEF IpInv, IpTypes, Ip!OkStoresTheChoice

\* While the page is shown only the types matter.
LEMMA IpWhileShown ==
    ASSUME IpInv, shown = TRUE, outcome = "open", obj' \in IpObject, screen' \in IpScreen,
           shown' = shown, outcome' = outcome
    PROVE  IpInv'
BY DEF IpInv, IpTypes, Ip!OkStoresTheChoice

LEMMA IpEdit ==
    ASSUME IpInv, Ip!Edit
    PROVE  /\ shown = TRUE /\ outcome = "open"
           /\ obj \in IpObject /\ screen \in IpScreen
BY DEF IpInv, IpTypes, Ip!Edit

\* The object after a change of a flag or a setting.
LEMMA IpSettings ==
    ASSUME NEW o \in IpObject, NEW a \in BOOLEAN, NEW d \in BOOLEAN, NEW g \in BOOLEAN
    PROVE  /\ [o EXCEPT !.active["v4"] = a, !.dhcp["v4"] = d, !.modified = g] \in IpObject
           /\ [o EXCEPT !.active["v6"] = a, !.modified = g] \in IpObject
BY DEF IpObject, IpFamilies

LEMMA IpRows ==
    ASSUME NEW o \in IpObject, NEW f \in IpFamilies, NEW l \in IpLists
    PROVE  [o EXCEPT !.rows[f] = l, !.modified = TRUE] \in IpObject
BY DEF IpObject

LEMMA ChooseModeKeeps ==
    ASSUME IpInv, Ip!ChooseMode
    PROVE  IpInv'
<1>1. PICK m \in Ip!Modes \ {screen.mode} :
          LET a == m # "off"
              d == IF a THEN m # "manual" ELSE obj.dhcp["v4"]
          IN  /\ screen' = [screen EXCEPT !.mode = m]
              /\ obj' = [obj EXCEPT !.active["v4"] = a, !.dhcp["v4"] = d,
                            !.modified = @ \/ a # obj.active["v4"] \/ d # obj.dhcp["v4"]]
  BY Zenon DEF Ip!ChooseMode
<1>2. Ip!Edit /\ shown' = shown /\ outcome' = outcome
  BY Zenon DEF Ip!ChooseMode
<1>3. /\ shown = TRUE /\ outcome = "open"
      /\ obj \in IpObject /\ screen \in IpScreen
  BY <1>2, IpEdit
<1> DEFINE a == m # "off"
           d == IF a THEN m # "manual" ELSE obj.dhcp["v4"]
           g == obj.modified \/ a # obj.active["v4"] \/ d # obj.dhcp["v4"]
<1>4. /\ screen' = [screen EXCEPT !.mode = m]
      /\ obj' = [obj EXCEPT !.active["v4"] = a, !.dhcp["v4"] = d, !.modified = g]
  BY <1>1, Zenon
<1>5. a \in BOOLEAN /\ d \in BOOLEAN /\ g \in BOOLEAN
  BY <1>3 DEF IpObject, IpFamilies
<1> HIDE DEF a, d, g
<1>6. obj' \in IpObject
  BY <1>3, <1>4, <1>5, IpSettings
<1>7. screen' \in IpScreen
  BY <1>3, <1>4 DEF IpScreen, Ip!Modes
<1> QED
  BY <1>2, <1>3, <1>6, <1>7, IpWhileShown

LEMMA ChooseIpv6Keeps ==
    ASSUME IpInv, Ip!ChooseIpv6
    PROVE  IpInv'
<1> DEFINE g == obj.modified \/ obj.active["v6"]
<1>1. /\ screen' = [screen EXCEPT !.on6 = ~screen.on6]
      /\ obj' = IF ~screen.on6 THEN obj ELSE [obj EXCEPT !.active["v6"] = FALSE, !.modified = g]
      /\ Ip!Edit /\ shown' = shown /\ outcome' = outcome
  BY Zenon DEF Ip!ChooseIpv6
<1>2. /\ shown = TRUE /\ outcome = "open"
      /\ obj \in IpObject /\ screen \in IpScreen
  BY <1>1, IpEdit
<1>3. g \in BOOLEAN
  BY <1>2 DEF IpObject, IpFamilies
<1> HIDE DEF g
<1>4. obj' \in IpObject
  BY <1>1, <1>2, <1>3, IpSettings
<1>5. screen' \in IpScreen
  BY <1>1, <1>2 DEF IpScreen
<1> QED
  BY <1>1, <1>2, <1>4, <1>5, IpWhileShown

LEMMA WidgetsKeep ==
    ASSUME IpInv, Ip!ToggleManual \/ Ip!TypeRoute
    PROVE  IpInv'
<1>1. Ip!Edit /\ shown' = shown /\ outcome' = outcome /\ obj' = obj
  BY Zenon DEF Ip!ToggleManual, Ip!TypeRoute
<1>2. /\ shown = TRUE /\ outcome = "open"
      /\ obj \in IpObject /\ screen \in IpScreen
  BY <1>1, IpEdit
<1>3. CASE Ip!ToggleManual
  <2>1. screen' = [screen EXCEPT !.manual6 = ~screen.manual6]
    BY <1>3, Zenon DEF Ip!ToggleManual
  <2>2. screen' \in IpScreen
    BY <2>1, <1>2 DEF IpScreen
  <2> QED
    BY <1>1, <1>2, <2>2, IpWhileShown
<1>4. CASE Ip!TypeRoute
  <2>1. PICK f \in Ip!Families, r \in IpRoutes : screen' = [screen EXCEPT !.route[f] = r]
    BY <1>4, Zenon DEF Ip!TypeRoute, IpRoutes
  <2>2. screen' \in IpScreen
    BY <2>1, <1>2, IpFamiliesAre DEF IpScreen
  <2> QED
    BY <1>1, <1>2, <2>2, IpWhileShown
<1> QED
  BY <1>3, <1>4

LEMMA RowsKeep ==
    ASSUME IpInv, Ip!AddRow \/ Ip!DeleteRow
    PROVE  IpInv'
<1>1. Ip!Edit /\ shown' = shown /\ outcome' = outcome /\ screen' = screen
  BY Zenon DEF Ip!AddRow, Ip!DeleteRow
<1>2. /\ shown = TRUE /\ outcome = "open"
      /\ obj \in IpObject /\ screen \in IpScreen
  BY <1>1, IpEdit
<1>3. ASSUME NEW f \in IpFamilies PROVE obj.rows[f] \in IpLists
  BY <1>2 DEF IpObject
<1>4. \E f \in IpFamilies, l \in IpLists : obj' = [obj EXCEPT !.rows[f] = l, !.modified = TRUE]
  <2>1. CASE Ip!AddRow
    <3>1. PICK f \in IpFamilies : obj' = [obj EXCEPT !.rows[f] = Append(obj.rows[f], 0), !.modified = TRUE]
      BY <2>1, IpFamiliesAre, Zenon DEF Ip!AddRow
    <3>2. Append(obj.rows[f], 0) \in IpLists
      BY <1>3 DEF IpLists
    <3> QED
      BY <3>1, <3>2
  <2>2. CASE Ip!DeleteRow
    <3>0. PICK f \in IpFamilies : \E i \in DOMAIN obj.rows[f] :
              obj' = [obj EXCEPT !.rows[f] = Ip!RemoveAt(obj.rows[f], i), !.modified = TRUE]
      BY <2>2, IpFamiliesAre, Zenon DEF Ip!DeleteRow
    <3>1. PICK i \in DOMAIN obj.rows[f] :
              obj' = [obj EXCEPT !.rows[f] = Ip!RemoveAt(obj.rows[f], i), !.modified = TRUE]
      BY <3>0
    <3>2. Ip!RemoveAt(obj.rows[f], i) \in IpLists
      <4> DEFINE l == obj.rows[f]
      <4>1. l \in IpLists /\ i \in DOMAIN l
        BY <1>3
      <4>2. Ip!RemoveAt(l, i) = Cut(l, i)
        BY Zenon DEF Ip!RemoveAt, Cut
      <4> HIDE DEF l
      <4>3. Cut(l, i) \in IpLists
        BY <4>1, CutFacts DEF IpLists
      <4> QED
        BY <4>2, <4>3 DEF l
    <3> QED
      BY <3>1, <3>2
  <2> QED
    BY <1>1, <2>1, <2>2
<1>5. obj' \in IpObject
  BY <1>2, <1>4, IpRows
<1> QED
  BY <1>1, <1>2, <1>5, IpWhileShown

LEMMA IpCell ==
    ASSUME NEW o \in IpObject, NEW f \in IpFamilies, NEW i \in DOMAIN o.rows[f], NEW a \in Addrs
    PROVE  Ip!WithCell(o, f, i, a) \in IpObject
<1> DEFINE l == o.rows[f]
           m == [l EXCEPT ![i] = a]
<1>1. l \in IpLists /\ i \in DOMAIN l
  BY DEF IpObject
<1>2. Ip!WithCell(o, f, i, a) = [o EXCEPT !.rows[f] = m]
  BY Zenon DEF Ip!WithCell
<1> HIDE DEF l
<1>3. m \in IpLists
  BY <1>1 DEF IpLists
<1> HIDE DEF m
<1> QED
  BY <1>2, <1>3 DEF IpObject

LEMMA EditCellKeeps ==
    ASSUME IpInv, Ip!EditCell
    PROVE  IpInv'
<1>1. Ip!Edit /\ shown' = shown /\ outcome' = outcome /\ screen' = Ip!Refilled(obj')
  BY Zenon DEF Ip!EditCell
<1>2. /\ shown = TRUE /\ outcome = "open"
      /\ obj \in IpObject /\ screen \in IpScreen
  BY <1>1, IpEdit
<1>3. PICK f \in IpFamilies, a \in Addrs :
          \E i \in DOMAIN obj.rows[f] : obj' = Ip!WithCell(obj, f, i, a)
  BY IpFamiliesAre, Zenon DEF Ip!EditCell
<1>4. obj' \in IpObject
  BY <1>2, <1>3, IpCell
<1>5. screen' \in IpScreen
  BY <1>1, <1>2, <1>4, IpPages
<1> QED
  BY <1>1, <1>2, <1>4, <1>5, IpWhileShown

LEMMA LeaveKeeps ==
    ASSUME IpInv, Ip!Leave
    PROVE  IpInv'
<1>1. /\ outcome = "open" /\ outcome' = outcome /\ shown' = FALSE
      /\ obj' = Ip!Applied /\ screen' = screen /\ choice' = <<Ip!Chosen>>
  BY Zenon DEF Ip!Leave
<1>2. obj \in IpObject /\ screen \in IpScreen
  BY DEF IpInv, IpTypes
<1>3. obj' \in IpObject /\ obj'.modified = TRUE
  BY <1>1, <1>2, AppliedIs
<1>4. choice' = <<Ip!SavedIn(Ip!Committed(obj'))>>
  BY <1>1, <1>2, AppliedSaves
<1>5. IpTypes'
  BY <1>1, <1>2, <1>3 DEF IpTypes
<1>6. (outcome = "open" /\ ~shown => obj.modified /\ choice = <<Ip!SavedIn(Ip!Committed(obj))>>)'
  BY <1>3, <1>4
<1>7. Ip!OkStoresTheChoice'
  BY <1>1 DEF Ip!OkStoresTheChoice
<1> QED
  BY <1>5, <1>6, <1>7 DEF IpInv

LEMMA ReturnKeeps ==
    ASSUME IpInv, Ip!Return
    PROVE  IpInv'
<1>1. /\ outcome = "open" /\ outcome' = outcome /\ shown' = TRUE
      /\ obj' = obj /\ screen' = Ip!Populated(obj)
  BY Zenon DEF Ip!Return
<1>2. screen' \in IpScreen
  BY <1>1, IpPages DEF IpInv, IpTypes
<1> QED
  BY <1>1, <1>2 DEF IpInv, IpTypes, Ip!OkStoresTheChoice

LEMMA IpModified ==
    ASSUME NEW o \in IpObject, NEW g \in BOOLEAN
    PROVE  [o EXCEPT !.modified = g] \in IpObject
BY DEF IpObject

LEMMA RefusalsKeep ==
    ASSUME IpInv, Ip!LeaveRefused \/ Ip!OkRefused
    PROVE  IpInv'
<1>1. /\ outcome = "open" /\ outcome' = outcome /\ shown /\ shown' = shown
      /\ obj' = [Ip!Applied4(obj) EXCEPT !.modified = TRUE]
      /\ screen' = Ip!Refilled(obj') \/ screen' = screen
  BY Zenon DEF Ip!LeaveRefused, Ip!OkRefused
<1>2. obj \in IpObject /\ screen \in IpScreen /\ shown = TRUE
  BY <1>1 DEF IpInv, IpTypes
<1>3. Ip!Applied4(obj) \in IpObject
  BY <1>2, Applied4Is
<1>4. obj' \in IpObject
  BY <1>1, <1>3, IpModified
<1>5. screen' \in IpScreen
  BY <1>1, <1>2, <1>4, IpPages
<1> QED
  BY <1>1, <1>2, <1>4, <1>5, IpWhileShown

LEMMA FillsKeep ==
    ASSUME IpInv, Ip!Refresh \/ Ip!StateChanges
    PROVE  IpInv'
<1>1. /\ outcome = "open" /\ outcome' = outcome /\ shown /\ shown' = shown /\ obj' = obj
      /\ screen' = Ip!Refilled(obj) \/ screen' = Ip!Populated(obj)
  BY Zenon DEF Ip!Refresh, Ip!StateChanges
<1>2. obj \in IpObject /\ screen \in IpScreen /\ shown = TRUE
  BY <1>1 DEF IpInv, IpTypes
<1>3. screen' \in IpScreen
  BY <1>1, <1>2, IpPages
<1> QED
  BY <1>1, <1>2, <1>3, IpWhileShown

\* A notification of nwamd touches neither what the user left nor, then, the object.
LEMMA AnnouncedKeeps ==
    ASSUME PanelsAssumption, IpInv, Ip!Announced
    PROVE  IpInv'
<1>1. /\ outcome = "open" /\ outcome' = outcome /\ shown' = shown /\ choice' = choice
      /\ stored' \in Configs
      /\ \/ obj' = obj /\ screen' = screen
         \/ /\ ~obj.modified
            /\ obj' = Ip!Reload(obj, stored')
            /\ screen' = IF shown THEN Ip!Refilled(obj') ELSE screen
  BY Zenon DEF Ip!Announced
<1>2. obj \in IpObject /\ screen \in IpScreen /\ shown \in BOOLEAN
  BY DEF IpInv, IpTypes
<1>3. CASE obj' = obj /\ screen' = screen
  BY <1>1, <1>3 DEF IpInv, IpTypes, Ip!OkStoresTheChoice
<1>4. CASE /\ ~obj.modified
           /\ obj' = Ip!Reload(obj, stored')
           /\ screen' = IF shown THEN Ip!Refilled(obj') ELSE screen
  <2>1. shown = TRUE
    BY <1>1, <1>2, <1>4 DEF IpInv
  <2>2. obj' \in IpObject
    BY <1>1, <1>2, <1>4, IpStores, IpReloads
  <2>3. screen' \in IpScreen
    BY <1>2, <1>4, <2>1, <2>2, IpPages
  <2> QED
    BY <1>1, <2>1, <2>2, <2>3, IpWhileShown
<1> QED
  BY <1>1, <1>3, <1>4

\* Committing either stores what the object says or leaves it to be committed.
LEMMA OkKeeps ==
    ASSUME IpInv, Ip!Ok
    PROVE  IpInv'
<1> DEFINE o == IF shown THEN Ip!Applied ELSE obj
           c == Ip!Committed(o)
<1>1. /\ outcome = "open" /\ shown' = shown /\ screen' = screen
      /\ choice' = IF shown THEN <<Ip!Chosen>> ELSE choice
      /\ \/ /\ stored' = IF o.modified THEN c ELSE stored
            /\ obj' = [o EXCEPT !.modified = FALSE, !.enabled = c.enabled]
            /\ outcome' = "ok"
         \/ /\ obj' = [o EXCEPT !.enabled = c.enabled]
            /\ outcome' = outcome
  BY Zenon DEF Ip!Ok
<1>2. obj \in IpObject /\ screen \in IpScreen /\ shown \in BOOLEAN
  BY DEF IpInv, IpTypes
<1>3. o \in IpObject /\ o.modified = TRUE
  <2>1. CASE shown = TRUE
    BY <1>2, <2>1, AppliedIs
  <2>2. CASE shown = FALSE
    <3>1. obj.modified /\ obj.modified \in BOOLEAN
      BY <1>1, <1>2, <2>2 DEF IpInv, IpObject
    <3> QED
      BY <1>2, <2>2, <3>1
  <2> QED
    BY <1>2, <2>1, <2>2
<1>4. choice' = <<Ip!SavedIn(c)>>
  <2>1. CASE shown = TRUE
    <3>1. Ip!SavedIn(Ip!Committed(Ip!Applied)) = Ip!Chosen
      BY <1>2, AppliedSaves
    <3> QED
      BY <1>1, <2>1, <3>1
  <2>2. CASE shown = FALSE
    BY <1>1, <2>2 DEF IpInv
  <2> QED
    BY <1>2, <2>1, <2>2
<1> HIDE DEF o
<1>5. c.enabled \in BOOLEAN
  BY <1>3, CommittedUse
<1>6. CASE /\ stored' = IF o.modified THEN c ELSE stored
           /\ obj' = [o EXCEPT !.modified = FALSE, !.enabled = c.enabled]
           /\ outcome' = "ok"
  <2> HIDE DEF c
  <2>1. obj' \in IpObject
    BY <1>3, <1>5, <1>6 DEF IpObject
  <2>2. stored' = c
    BY <1>3, <1>6
  <2>3. \A i \in DOMAIN choice' : choice'[i] = Ip!SavedIn(stored')
    BY <1>4, <2>2
  <2>4. IpTypes'
    BY <1>1, <1>2, <1>6, <2>1 DEF IpTypes
  <2>5. Ip!OkStoresTheChoice'
    BY <2>3, Zenon DEF Ip!OkStoresTheChoice, Ip!SavedIn
  <2> QED
    BY <1>6, <2>4, <2>5 DEF IpInv
<1>7. CASE /\ obj' = [o EXCEPT !.enabled = c.enabled]
           /\ outcome' = outcome
  <2>1. /\ obj' \in IpObject /\ obj'.modified = o.modified
        /\ Ip!SavedIn(Ip!Committed(obj')) = Ip!SavedIn(c)
    BY <1>3, <1>5, <1>7, SavedOfUse
  <2>2. IpTypes'
    BY <1>1, <1>2, <1>7, <2>1 DEF IpTypes
  <2>3. (outcome = "open" /\ ~shown => obj.modified /\ choice = <<Ip!SavedIn(Ip!Committed(obj))>>)'
    BY <1>3, <1>4, <2>1
  <2>4. Ip!OkStoresTheChoice'
    BY <1>1, <1>7 DEF Ip!OkStoresTheChoice
  <2> QED
    BY <2>2, <2>3, <2>4 DEF IpInv
<1> QED
  BY <1>1, <1>6, <1>7

LEMMA IpKeeps ==
    ASSUME PanelsAssumption, IpInv, [Ip!Next]_(Ip!vars)
    PROVE  IpInv'
<1>1. CASE UNCHANGED Ip!vars
  BY <1>1 DEF Ip!vars, IpInv, IpTypes, Ip!OkStoresTheChoice, Ip!SavedIn, Ip!Committed
<1>2. CASE Ip!Next
  BY <1>2, ChooseModeKeeps, ChooseIpv6Keeps, WidgetsKeep, RowsKeep, EditCellKeeps, LeaveKeeps,
     ReturnKeeps, RefusalsKeep, FillsKeep, OkKeeps, AnnouncedKeeps, Zenon
  DEF Ip!Next
<1> QED
  BY <1>1, <1>2

-----------------------------------------------------------------------------
\* What the parts need of their states.
PanelsInv ==
    /\ part = "views" => ViewsInv
    /\ part = "enms" => ItemsInv(Enms, {})
    /\ part = "envs" => ItemsInv({}, Envs)
    /\ part = "chooser" => ChooserInv
    /\ part = "status" => StatusInv
    /\ part = "profiles" => ProfilesInv
    /\ part = "ip" => IpInv

LEMMA PanelsStart ==
    ASSUME ObjectViewsAssumption, PanelsAssumption, PanelsInit
    PROVE  PanelsInv
<1>1. ASSUME part = "views" PROVE ViewsInv
  BY <1>1, PartsInit, ViewsInit
<1>2. ASSUME part = "enms" PROVE ItemsInv(Enms, {})
  BY <1>2, PartsInit, ItemsInit, ItemsAssumptions
<1>3. ASSUME part = "envs" PROVE ItemsInv({}, Envs)
  BY <1>3, PartsInit, ItemsInit, ItemsAssumptions
<1>4. ASSUME part = "chooser" PROVE ChooserInv
  BY <1>4, PartsInit, ChooserStarts
<1>5. ASSUME part = "status" PROVE StatusInv
  BY <1>5, PartsInit, StatusInit
<1>6. ASSUME part = "profiles" PROVE ProfilesInv
  BY <1>6, PartsInit, ProfilesInit
<1>7. ASSUME part = "ip" PROVE IpInv
  BY <1>7, PartsInit, IpInit
<1> QED
  BY <1>1, <1>2, <1>3, <1>4, <1>5, <1>6, <1>7 DEF PanelsInv

LEMMA PanelsStep ==
    ASSUME ObjectViewsAssumption, PanelsAssumption, PanelsInv, [PanelsNext]_panelVars
    PROVE  PanelsInv'
<1>p. part' = part
  BY PartsNext
<1>1. ASSUME part = "views" PROVE ViewsInv'
  <2>1. ViewsInv
    BY <1>1 DEF PanelsInv
  <2> QED
    BY <2>1, <1>1, PartsNext, ViewsKeeps
<1>2. ASSUME part = "enms" PROVE ItemsInv(Enms, {})'
  <2>1. ItemsInv(Enms, {})
    BY <1>2 DEF PanelsInv
  <2>2. [Items(Enms, {})!Next]_(Items(Enms, {})!vars)
    BY <1>2, PartsNext
  <2> QED
    BY <2>1, <2>2, ItemsKeeps, ItemsAssumptions
<1>3. ASSUME part = "envs" PROVE ItemsInv({}, Envs)'
  <2>1. ItemsInv({}, Envs)
    BY <1>3 DEF PanelsInv
  <2>2. [Items({}, Envs)!Next]_(Items({}, Envs)!vars)
    BY <1>3, PartsNext
  <2> QED
    BY <2>1, <2>2, ItemsKeeps, ItemsAssumptions
<1>4. ASSUME part = "chooser" PROVE ChooserInv'
  <2>1. ChooserInv
    BY <1>4 DEF PanelsInv
  <2> QED
    BY <2>1, <1>4, PartsNext, ChooserKeeps
<1>5. ASSUME part = "status" PROVE StatusInv'
  <2>1. StatusInv
    BY <1>5 DEF PanelsInv
  <2> QED
    BY <2>1, <1>5, PartsNext, StatusKeeps
<1>6. ASSUME part = "profiles" PROVE ProfilesInv'
  <2>1. ProfilesInv
    BY <1>6 DEF PanelsInv
  <2> QED
    BY <2>1, <1>6, PartsNext, ProfilesKeep
<1>7. ASSUME part = "ip" PROVE IpInv'
  <2>1. IpInv
    BY <1>7 DEF PanelsInv
  <2> QED
    BY <2>1, <1>7, PartsNext, IpKeeps
<1> QED
  BY <1>p, <1>1, <1>2, <1>3, <1>4, <1>5, <1>6, <1>7 DEF PanelsInv

LEMMA PanelsInvariant == PanelsSpec => []PanelsInv
<1>1. PanelsInit => PanelsInv
  BY PanelsStart, ObjectViewsAssumption, PanelsAssumption
<1>2. PanelsInv /\ [PanelsNext]_panelVars => PanelsInv'
  BY PanelsStep, ObjectViewsAssumption, PanelsAssumption
<1> QED
  BY <1>1, <1>2, PTL DEF PanelsSpec

\* The tooltip, the items of the menu and the dialog for wireless networks say
\* what is so, for any objects and any order of events.
THEOREM ViewsAreRight == PanelsSpec => []ViewsTell
<1>1. PanelsInv => ViewsTell
  <2> SUFFICES ASSUME PanelsInv PROVE ViewsTell
    OBVIOUS
  <2>1. ASSUME part = "views" PROVE Views!ViewsFollow
    BY <2>1, ViewsInvFollow, ObjectViewsAssumption DEF PanelsInv
  <2>2. ASSUME part = "enms" PROVE Items(Enms, {})!ItemsTell
    BY <2>2, ItemsInvTells DEF PanelsInv
  <2>3. ASSUME part = "envs" PROVE Items({}, Envs)!ItemsTell
    BY <2>3, ItemsInvTells DEF PanelsInv
  <2>4. ASSUME part = "chooser" PROVE ChooserTells
    BY <2>4 DEF PanelsInv, ChooserInv
  <2> QED
    BY <2>1, <2>2, <2>3, <2>4 DEF ViewsTell
<1> QED
  BY <1>1, PanelsInvariant, PTL

\* The status page has a row for each connection in use, for any number of
\* connections, profiles and priority groups.
THEOREM StatusRowsAreRight == PanelsSpec => []RowsFollow
<1>1. PanelsInv => RowsFollow
  BY DEF PanelsInv, RowsFollow, StatusInv
<1> QED
  BY <1>1, PanelsInvariant, PTL

\* OK stores, for both families, what the user left on the page for addresses,
\* for any addresses, routes, configurations in nwamd and number of rows.
THEOREM OkStoresWhatWasChosen == PanelsSpec => []OkStoresTheChoice
<1>1. PanelsInv => OkStoresTheChoice
  BY DEF PanelsInv, OkStoresTheChoice, IpInv
<1> QED
  BY <1>1, PanelsInvariant, PTL

\* OK on the page for profiles asks nwamd to activate the profile whose button
\* the user pressed last, for any number of profiles, objects and changes of them.
THEOREM TheChoiceIsActivated == PanelsSpec => ActivatesTheChoice
<1>1. PanelsInv /\ [PanelsNext]_panelVars => [part = "profiles" => Profiles!AsksForTheChoice]_panelVars
  <2> SUFFICES ASSUME PanelsInv, [PanelsNext]_panelVars, part = "profiles"
               PROVE  Profiles!AsksForTheChoice
    BY Zenon
  <2>1. ProfilesInv
    BY DEF PanelsInv
  <2> QED
    BY <2>1, PartsNext, AsksRight, PanelsAssumption
<1> QED
  BY <1>1, PanelsInvariant, PTL DEF PanelsSpec, ActivatesTheChoice

\* Renaming a profile loses none in nwamd, for any number of them.
THEOREM RenamingLosesNone == PanelsSpec => RenameLosesNone
<1>1. PanelsInv /\ [PanelsNext]_panelVars => [part = "profiles" => Profiles!KeepsAsMany]_panelVars
  <2> SUFFICES ASSUME PanelsInv, part = "profiles" PROVE Profiles!KeepsAsMany
    BY Zenon
  <2>1. ProfilesInv
    BY DEF PanelsInv
  <2> QED
    BY <2>1, RenameKeepsAsMany
<1> QED
  BY <1>1, PanelsInvariant, PTL DEF PanelsSpec, RenameLosesNone

===============================================================================
