-------------------------- MODULE LocationDialogProofs --------------------------
(* Proofs about the two dialogs of locations, for any names, objects and       *)
(* bounds.  Of LocationDialog: its types, that a location is only enabled      *)
(* because the user chose it, that the listed locations come to have what is   *)
(* stored, and that the dialog keeps the promises of EditStore.  Of            *)
(* EnvPrefDialog, the dialog for the properties of one location: that it shows *)
(* the services of its location and loses nothing the user typed.              *)
EXTENDS LocationDialog, EnvPrefDialog, PendingEvents, FiniteSetTheorems, WellFoundedInduction

-----------------------------------------------------------------------------
(* The inductive invariant, in parts.                                          *)

Types ==
    /\ store \in [Names -> Content \cup {Absent}]
    /\ enabled \in Names \cup {None}
    /\ queue \in Seq(Event)
    /\ objs \in [Objs -> Object \cup {None}]
    /\ listed \in SUBSET Objs /\ twins \in SUBSET Names /\ rows \in Seq(Objs)
    /\ {active, sel, toggled, editing, choice} \subseteq Objs \cup {None}
    /\ combo \in {"manual", "rules", "system"}
    /\ manual \in BOOLEAN /\ open \in BOOLEAN
    /\ edits \in 0..MaxEdits /\ admins \in 0..MaxAdmin

\* What the program refers to lives.
Lives == \A o \in RowSet \cup listed \cup {active, sel, toggled, editing} : o # None => objs[o] # None

\* The selected and the edited location are in the dialog's list.
Refers ==
    /\ sel # None => sel \in RowSet
    /\ editing # None => open /\ editing \in RowSet

\* The location to activate is the one the user clicked in the open dialog.
Chosen == toggled # None => open /\ toggled = choice

SafeInv == Types /\ Lives /\ Refers /\ Chosen

LEMMA TypesLive == TypeOK <=> Types /\ Lives
BY DEF TypeOK, Types, Lives

-----------------------------------------------------------------------------
(* The helpers.                                                                *)

LEMMA ObjFields ==
    ASSUME NEW r \in Object
    PROVE  /\ r.name \in Names /\ r.h \in Content \cup {NoHandle}
           /\ r.mod \in BOOLEAN /\ r.fresh \in BOOLEAN /\ r.en \in BOOLEAN
           /\ r # None
           /\ r.h # NoHandle => r.h \in Content /\ r.h.mode \in Modes
           /\ ModeOf(r) \in Modes
BY ObjsAssumption DEF Object, Content, ModeOf, Modes

LEMMA ReloadObject ==
    ASSUME NEW r \in Object, NEW unread \in BOOLEAN, store \in [Names -> Content \cup {Absent}]
    PROVE  /\ Reload(r, unread) \in Object /\ Reload(r, unread).name = r.name
           /\ Reload(r, unread).mod = FALSE
           /\ unread => Reload(r, unread).h = NoHandle /\ Reload(r, unread).fresh = r.fresh
           /\ ~unread /\ store[r.name] # Absent =>
                 Reload(r, unread).h = store[r.name] /\ Reload(r, unread).fresh = FALSE
           /\ ~unread /\ store[r.name] = Absent =>
                 Reload(r, unread).h = r.h /\ Reload(r, unread).fresh = r.fresh
<1> DEFINE e == (enabled = r.name)
<1>1. e \in BOOLEAN
  OBVIOUS
<1>2. r.name \in Names
  BY ObjFields
<1>3. store[r.name] \in Content \cup {Absent}
  BY <1>2
<1>4. Reload(r, unread) =
         IF unread THEN [r EXCEPT !.h = NoHandle, !.mod = FALSE, !.en = FALSE]
         ELSE IF store[r.name] # Absent
         THEN [r EXCEPT !.h = store[r.name], !.mod = FALSE, !.fresh = FALSE, !.en = e]
         ELSE [r EXCEPT !.mod = FALSE]
  BY DEF Reload
<1> HIDE DEF e
<1>5. CASE ~unread /\ store[r.name] # Absent
  <2> DEFINE c == store[r.name]
  <2>1. c \in Content
    BY <1>3, <1>5
  <2>2. Reload(r, unread) = [r EXCEPT !.h = c, !.mod = FALSE, !.fresh = FALSE, !.en = e]
    BY <1>4, <1>5
  <2> HIDE DEF c
  <2> DEFINE d == Reload(r, unread)
  <2>3. d \in Object /\ d.name = r.name /\ d.mod = FALSE /\ d.h = c /\ d.fresh = FALSE
    BY <1>1, <2>1, <2>2 DEF Object
  <2> QED BY <1>5, <2>3 DEF c
<1>6. CASE ~unread /\ store[r.name] = Absent
  <2>1. Reload(r, unread) = [r EXCEPT !.mod = FALSE]
    BY <1>4, <1>6
  <2> DEFINE d == Reload(r, unread)
  <2>2. d \in Object /\ d.name = r.name /\ d.mod = FALSE /\ d.h = r.h /\ d.fresh = r.fresh
    BY <2>1 DEF Object
  <2> QED BY <1>6, <2>2
<1>7. CASE unread
  <2>1. Reload(r, unread) = [r EXCEPT !.h = NoHandle, !.mod = FALSE, !.en = FALSE]
    BY <1>4, <1>7
  <2> DEFINE d == Reload(r, unread)
  <2>2. d \in Object /\ d.name = r.name /\ d.mod = FALSE /\ d.h = NoHandle /\ d.fresh = r.fresh
    BY <2>1 DEF Object
  <2> QED BY <1>7, <2>2
<1> QED BY <1>5, <1>6, <1>7

\* The location r was read again, or could not be.
Reread(r, c) == \E unread \in BOOLEAN : c = Reload(r, unread)

LEMMA RereadObject ==
    ASSUME NEW r \in Object, NEW c, Reread(r, c), store \in [Names -> Content \cup {Absent}]
    PROVE  /\ c \in Object /\ c.name = r.name /\ c.mod = FALSE
           /\ \/ c.h = NoHandle
              \/ store[r.name] # Absent /\ c.h = store[r.name]
              \/ store[r.name] = Absent /\ c.h = r.h
           /\ store[r.name] = Absent => c.fresh = r.fresh
<1>1. PICK unread \in BOOLEAN : c = Reload(r, unread)
  BY DEF Reread
<1> DEFINE d == Reload(r, unread)
<1>2. /\ d \in Object /\ d.name = r.name /\ d.mod = FALSE
      /\ unread => d.h = NoHandle /\ d.fresh = r.fresh
      /\ ~unread /\ store[r.name] # Absent => d.h = store[r.name] /\ d.fresh = FALSE
      /\ ~unread /\ store[r.name] = Absent => d.h = r.h /\ d.fresh = r.fresh
  BY ReloadObject
<1> HIDE DEF d
<1>3. c = d
  BY <1>1 DEF d
<1> QED BY <1>2, <1>3

\* A failure to read is counted.
LEMMA TroubleCounts ==
    ASSUME admins \in 0 .. MaxAdmin, NEW some, Trouble(some)
    PROVE  admins' \in 0 .. MaxAdmin
BY BoundsAssumption DEF Trouble

LEMMA SetObject ==
    ASSUME NEW r \in Object, NEW c, r.h # NoHandle => c \in Content
    PROVE  /\ Set(r, c) \in Object /\ Set(r, c).name = r.name
           /\ Set(r, c).mod = TRUE /\ Set(r, c).fresh = r.fresh
           /\ Set(r, c).h = IF r.h = NoHandle THEN NoHandle ELSE c
<1> DEFINE d == IF r.h = NoHandle THEN r.h ELSE c
<1>1. d \in Content \cup {NoHandle}
  BY ObjFields
<1>2. Set(r, c) = [r EXCEPT !.h = d, !.mod = TRUE]
  BY DEF Set, Object
<1> HIDE DEF d
<1>3. /\ Set(r, c) \in Object /\ Set(r, c).name = r.name
      /\ Set(r, c).mod = TRUE /\ Set(r, c).fresh = r.fresh /\ Set(r, c).h = d
  BY <1>1, <1>2 DEF Object
<1> QED BY <1>3 DEF d

LEMMA SetModeObject ==
    ASSUME NEW r \in Object, NEW m \in Modes
    PROVE  /\ SetMode(r, m) \in Object /\ SetMode(r, m).name = r.name
           /\ SetMode(r, m).mod = TRUE /\ SetMode(r, m).fresh = r.fresh
           /\ r.h = NoHandle => SetMode(r, m).h = NoHandle
           /\ r.h # NoHandle => SetMode(r, m).h # NoHandle /\ ModeOf(SetMode(r, m)) = m
<1> DEFINE c == [r.h EXCEPT !.mode = m]
<1>1. r.h # NoHandle => c \in Content /\ c.mode = m /\ c # NoHandle
  <2>1. r.h # NoHandle => c \in Content /\ c.mode = m
    BY ObjFields DEF Content
  <2> HIDE DEF c
  <2> QED BY <2>1, ObjsAssumption
<1>2. SetMode(r, m) = Set(r, c)
  BY DEF SetMode
<1> HIDE DEF c
<1>3. /\ Set(r, c) \in Object /\ Set(r, c).name = r.name
      /\ Set(r, c).mod = TRUE /\ Set(r, c).fresh = r.fresh
      /\ Set(r, c).h = IF r.h = NoHandle THEN NoHandle ELSE c
  BY <1>1, SetObject
<1> QED BY <1>1, <1>2, <1>3 DEF ModeOf

LEMMA SetConditionsObject ==
    ASSUME NEW r \in Object, NEW some \in BOOLEAN
    PROVE  /\ SetConditions(r, some) \in Object /\ SetConditions(r, some).name = r.name
           /\ SetConditions(r, some).mod = TRUE /\ SetConditions(r, some).fresh = r.fresh
           /\ r.h = NoHandle => SetConditions(r, some).h = NoHandle
           /\ r.h # NoHandle => /\ SetConditions(r, some).h # NoHandle
                                /\ ModeOf(SetConditions(r, some)) \in {ModeOf(r), "manual"}
<1>1. CASE some
  <2> DEFINE c == [r.h EXCEPT !.conds = TRUE]
  <2>1. r.h # NoHandle => c \in Content /\ c.mode = r.h.mode /\ c # NoHandle
    <3>1. r.h # NoHandle => c \in Content /\ c.mode = r.h.mode
      BY ObjFields DEF Content
    <3> HIDE DEF c
    <3> QED BY <3>1, ObjsAssumption
  <2>2. SetConditions(r, some) = Set(r, c)
    BY <1>1 DEF SetConditions
  <2> HIDE DEF c
  <2>3. /\ Set(r, c) \in Object /\ Set(r, c).name = r.name
        /\ Set(r, c).mod = TRUE /\ Set(r, c).fresh = r.fresh
        /\ Set(r, c).h = IF r.h = NoHandle THEN NoHandle ELSE c
    BY <2>1, SetObject
  <2> QED BY <2>1, <2>2, <2>3 DEF ModeOf
<1>2. CASE ~some
  <2>1. SetConditions(r, some) = SetMode(r, "manual")
    BY <1>2 DEF SetConditions
  <2>2. "manual" \in Modes
    BY DEF Modes
  <2> QED BY <2>1, <2>2, SetModeObject
<1> QED BY <1>1, <1>2

LEMMA NewEnvObject ==
    ASSUME NEW n \in Names, NEW unread \in BOOLEAN, NEW r \in NewEnv(n, unread),
           store \in [Names -> Content \cup {Absent}]
    PROVE  /\ r \in Object /\ r.name = n
           /\ (store[n] # Absent /\ r.h = store[n]) \/ r.fresh = TRUE \/ r.h = NoHandle
<1> DEFINE blank == [name |-> n, h |-> NoHandle, mod |-> FALSE, fresh |-> FALSE, en |-> FALSE]
<1>1. blank \in Object /\ blank.name = n /\ blank.h = NoHandle
  BY DEF Object
<1>2. NewContent \in Content
  BY DEF NewContent, Content, Modes
<1>3. CASE store[n] # Absent /\ ~unread
  <2>1. r = Reload(blank, FALSE)
    BY <1>3 DEF NewEnv
  <2> HIDE DEF blank
  <2> QED BY <1>1, <1>3, <2>1, ReloadObject
<1>4. CASE ~(store[n] # Absent /\ ~unread)
  <2>1. r = [blank EXCEPT !.h = NewContent, !.mod = TRUE, !.fresh = TRUE] \/ r = blank
    BY <1>4 DEF NewEnv
  <2> HIDE DEF blank
  <2>2. ASSUME r = [blank EXCEPT !.h = NewContent, !.mod = TRUE, !.fresh = TRUE]
        PROVE  r \in Object /\ r.name = n /\ r.fresh = TRUE
    BY <1>1, <1>2, <2>2 DEF Object
  <2> QED BY <1>1, <1>4, <2>1, <2>2
<1> QED BY <1>3, <1>4

LEMMA ComboType ==
    ASSUME NEW r \in Object
    PROVE  /\ ComboOf(r) \in {"manual", "rules", "system"}
           /\ ModeOf(r) = "system" => ComboOf(r) = "system"
<1>1. ModeOf(r) \in {"manual", "any", "all", "system"}
  BY ObjFields DEF Modes
<1>2. CASE ModeOf(r) = "manual"
  BY <1>2 DEF ComboOf
<1>3. CASE ModeOf(r) \in {"any", "all"}
  BY <1>3 DEF ComboOf
<1>4. CASE ModeOf(r) = "system"
  BY <1>4 DEF ComboOf
<1> QED BY <1>1, <1>2, <1>3, <1>4

LEMMA SavedEvent ==
    ASSUME NEW n \in Names
    PROVE  /\ Saved(n) \in Event
           /\ Saved(n).name = n /\ Saved(n).act \in {"ADD", "REFRESH"}
           /\ Saved(n).act = "ADD" <=> store[n] = Absent
BY DEF Saved, Event

\* The list without the row of o.
LEMMA WithoutRows ==
    ASSUME NEW q \in Seq(Objs), NEW o \in ToSet(q)
    PROVE  Without(q, o) \in Seq(Objs) /\ ToSet(Without(q, o)) \subseteq ToSet(q)
<1> DEFINE i == CHOOSE j \in DOMAIN q : q[j] = o
<1>1. i \in DOMAIN q
  BY DEF ToSet
<1>2. Without(q, o) = SubSeq(q, 1, i - 1) \o SubSeq(q, i + 1, Len(q))
  BY DEF Without, RemoveAt
<1> HIDE DEF i
<1>3. i \in 1 .. Len(q) /\ Len(q) \in Nat
  BY <1>1
<1> DEFINE s == SubSeq(q, 1, i - 1)
           t == SubSeq(q, i + 1, Len(q))
<1>4. s \in Seq(Objs) /\ Len(s) = i - 1 /\ \A k \in 1 .. Len(s) : s[k] = q[k]
  BY <1>3
<1>5. t \in Seq(Objs) /\ Len(t) = Len(q) - i /\ \A k \in 1 .. Len(t) : t[k] = q[k + i]
  BY <1>3
<1> HIDE DEF s, t
<1>6. s \o t \in Seq(Objs) /\ Len(s \o t) = Len(s) + Len(t)
      /\ \A k \in 1 .. Len(s \o t) : (s \o t)[k] = IF k <= Len(s) THEN s[k] ELSE t[k - Len(s)]
  BY <1>4, <1>5, ConcatFacts
<1>7. ASSUME NEW k \in 1 .. Len(s \o t) PROVE (s \o t)[k] \in ToSet(q)
  <2>1. CASE k <= Len(s)
    <3>1. (s \o t)[k] = q[k] /\ k \in DOMAIN q
      BY <1>3, <1>4, <1>6, <2>1
    <3> QED BY <3>1 DEF ToSet
  <2>2. CASE ~(k <= Len(s))
    <3> DEFINE a == Len(s)
               b == Len(t)
    <3>a. a \in Nat /\ b \in Nat /\ a = i - 1 /\ b = Len(q) - i /\ k \in 1 .. a + b /\ ~(k <= a)
      BY <1>4, <1>5, <1>6, <2>2
    <3>b. k - a \in 1 .. b /\ (k - a) + i \in 1 .. Len(q)
      <4> HIDE DEF a, b
      <4> QED BY <1>3, <3>a
    <3>1. k - Len(s) \in 1 .. Len(t) /\ (k - Len(s)) + i \in 1 .. Len(q)
      BY <3>b
    <3> HIDE DEF a, b
    <3>2. (s \o t)[k] = q[(k - Len(s)) + i] /\ (k - Len(s)) + i \in DOMAIN q
      BY <1>5, <1>6, <2>2, <3>1
    <3> QED BY <3>2 DEF ToSet
  <2> QED BY <2>1, <2>2
<1>8. DOMAIN (s \o t) = 1 .. Len(s \o t)
  BY <1>6
<1> QED BY <1>2, <1>6, <1>7, <1>8 DEF ToSet, s, t

LEMMA AppendRows ==
    ASSUME NEW q \in Seq(Objs), NEW o \in Objs
    PROVE  Append(q, o) \in Seq(Objs) /\ ToSet(Append(q, o)) = ToSet(q) \cup {o}
<1>1. /\ DOMAIN q = 1 .. Len(q) /\ Len(q) \in Nat
      /\ DOMAIN Append(q, o) = 1 .. Len(q) + 1
      /\ Append(q, o)[Len(q) + 1] = o
      /\ \A i \in 1 .. Len(q) : Append(q, o)[i] = q[i]
  OBVIOUS
<1>2. ToSet(Append(q, o)) = {Append(q, o)[i] : i \in 1 .. Len(q) + 1}
  BY <1>1 DEF ToSet
<1>3. ToSet(q) = {q[i] : i \in 1 .. Len(q)}
  BY <1>1 DEF ToSet
<1>4. ASSUME NEW i \in 1 .. Len(q) + 1 PROVE Append(q, o)[i] \in ToSet(q) \cup {o}
  BY <1>1, <1>3
<1>5. ASSUME NEW x \in ToSet(q) \cup {o} PROVE \E i \in 1 .. Len(q) + 1 : Append(q, o)[i] = x
  <2>1. CASE x = o
    BY <1>1, <2>1
  <2>2. CASE x # o
    <3>1. PICK i \in 1 .. Len(q) : q[i] = x
      BY <1>3, <2>2
    <3>2. i \in 1 .. Len(q) + 1 /\ Append(q, o)[i] = x
      BY <1>1, <3>1
    <3> QED BY <3>2
  <2> QED BY <2>1, <2>2
<1> QED BY <1>2, <1>4, <1>5

\* A finite set listed in some order.
LEMMA ListRows ==
    ASSUME NEW S \in SUBSET Objs
    PROVE  SetToSeq(S) \in Seq(Objs) /\ ToSet(SetToSeq(S)) = S
<1>1. IsFiniteSet(S)
  BY ObjsAssumption, FS_Subset
<1>2. Cardinality(S) \in Nat /\ ExistsBijection(1 .. Cardinality(S), S)
  BY <1>1, FS_CardinalityType
<1> DEFINE n == Cardinality(S)
           q == SetToSeq(S)
<1>3. \E f \in [1 .. n -> S] : IsInjective(f)
  <2>1. PICK f \in Bijection(1 .. n, S) : TRUE
    BY <1>2 DEF ExistsBijection
  <2>2. f \in [1 .. n -> S] /\ \A i, j \in 1 .. n : f[i] = f[j] => i = j
    BY <2>1 DEF Bijection, Injection, IsInjective
  <2>3. DOMAIN f = 1 .. n
    BY <2>2
  <2> QED BY <2>2, <2>3 DEF IsInjective
<1>4. q \in [1 .. n -> S] /\ IsInjective(q)
  BY <1>3 DEF SetToSeq
<1> HIDE DEF q
<1>5. q \in Injection(1 .. n, S)
  BY <1>4 DEF IsInjective, Injection
<1>6. IsFiniteSet(1 .. n) /\ Cardinality(1 .. n) = n
  BY <1>2, FS_Interval
<1>7. q \in Surjection(1 .. n, S)
  BY <1>1, <1>5, <1>6, FS_Injection
<1>8. q \in Seq(Objs)
  BY <1>2, <1>4
<1>9. ToSet(q) = S
  BY <1>4, <1>7 DEF ToSet, Surjection
<1> QED BY <1>8, <1>9 DEF q

LEMMA LessWellFounded == IsWellFoundedOn({p \in Nat \X Nat : p[1] < p[2]}, Nat)
BY NatLessThanWellFounded, Zenon DEF OpToRel

LEMMA Greatest ==
    ASSUME NEW n \in Nat, NEW S \in SUBSET (0 .. n), S # {}
    PROVE  \E j \in S : \A k \in S : k <= j
<1> DEFINE T == {n - j : j \in S}
           R == {p \in Nat \X Nat : p[1] < p[2]}
<1>1. T \subseteq Nat /\ T # {}
  <2>1. \A j \in S : j \in 0 .. n
    OBVIOUS
  <2>2. \A j \in 0 .. n : n - j \in Nat
    OBVIOUS
  <2> QED BY <2>1, <2>2, Zenon
<1>2. IsWellFoundedOn(R, Nat)
  BY LessWellFounded
<1>3. \A x, y \in Nat : x < y => <<x, y>> \in R
  OBVIOUS
<1> HIDE DEF R
<1>4. PICK x \in T : \A y \in T : <<y, x>> \notin R
  <2> HIDE DEF T
  <2> QED BY <1>1, <1>2, WFMin
<1>5. PICK j \in S : x = n - j
  OBVIOUS
<1>6. ASSUME NEW k \in S PROVE k <= j
  <2>1. n - k \in T /\ n - k \in Nat /\ x \in Nat
    OBVIOUS
  <2>2. ~(n - k < x)
    <3> HIDE DEF T
    <3> QED BY <1>3, <1>4, <2>1
  <2> QED BY <1>5, <2>2
<1> QED BY <1>6

\* A location that was committed.
Clean(r) == [r EXCEPT !.mod = FALSE, !.fresh = FALSE]

LEMMA CleanObject ==
    ASSUME NEW r \in Object
    PROVE  /\ Clean(r) \in Object /\ Clean(r).name = r.name /\ Clean(r).h = r.h
           /\ Clean(r).mod = FALSE /\ Clean(r).fresh = FALSE
BY DEF Object, Clean

\* The rows are objects that live.
LEMMA RowFacts ==
    ASSUME Types, Lives
    PROVE  /\ Len(rows) \in Nat /\ DOMAIN rows = 1 .. Len(rows)
           /\ \A j \in 1 .. Len(rows) : rows[j] \in RowSet
           /\ RowSet \subseteq Objs
           /\ \A o \in RowSet \cup listed : o \in Objs /\ objs[o] \in Object
           /\ \A o \in RowSet : \E j \in 1 .. Len(rows) : rows[j] = o
<1>1. Len(rows) \in Nat /\ DOMAIN rows = 1 .. Len(rows) /\ \A j \in 1 .. Len(rows) : rows[j] \in Objs
  BY DEF Types
<1>2. RowSet = {rows[j] : j \in 1 .. Len(rows)}
  BY <1>1 DEF RowSet, ToSet
<1>3. \A o \in RowSet \cup listed : o \in Objs
  BY <1>1, <1>2 DEF Types
<1>4. \A o \in RowSet \cup listed : o # None /\ objs[o] # None
  BY <1>3, ObjsAssumption DEF Lives
<1>5. \A o \in Objs : objs[o] \in Object \cup {None}
  BY DEF Types
<1> QED BY <1>1, <1>2, <1>3, <1>4, <1>5

\* A reference of a dialog or of the daemon object, if there is one.
LEMMA RefFacts ==
    ASSUME Types, Lives, NEW o, o \in {active, sel, toggled, editing}, o # None
    PROVE  o \in Objs /\ objs[o] \in Object
BY DEF Types, Lives

LEMMA CommittedFacts ==
    ASSUME Types, Lives, NEW i \in 1 .. Len(rows) + 1
    PROVE  /\ Committed(i) \subseteq 1 .. Len(rows)
           /\ IsFiniteSet(Committed(i)) /\ Cardinality(Committed(i)) \in Nat
           /\ \A j \in Committed(i) : /\ rows[j] \in RowSet /\ objs[rows[j]] \in Object
                                      /\ objs[rows[j]].mod /\ objs[rows[j]].h \in Content
<1>1. Len(rows) \in Nat
  BY RowFacts
<1>2. Committed(i) \subseteq 1 .. Len(rows)
  BY <1>1 DEF Committed
<1>3. \A j \in Committed(i) : objs[rows[j]].mod /\ objs[rows[j]].h # NoHandle
  BY DEF Committed
<1>4. IsFiniteSet(1 .. Len(rows))
  BY <1>1, FS_Interval
<1>5. IsFiniteSet(Committed(i))
  BY <1>2, <1>4, FS_Subset
<1>6. \A j \in Committed(i) : rows[j] \in RowSet /\ objs[rows[j]] \in Object
  BY <1>2, RowFacts
<1>7. \A j \in Committed(i) : objs[rows[j]].h \in Content
  BY <1>3, <1>6, ObjFields
<1> QED BY <1>2, <1>3, <1>5, <1>6, <1>7, FS_CardinalityType

\* What the rows before i that are committed write, and what becomes of them.
LEMMA CommitFacts ==
    ASSUME Types, Lives, NEW i \in 1 .. Len(rows) + 1, CommitRows(i)
    PROVE  /\ store' \in [Names -> Content \cup {Absent}]
           /\ \A n \in Names :
                 \/ store'[n] = store[n] /\ \A j \in Committed(i) : objs[rows[j]].name # n
                 \/ \E j \in Committed(i) : objs[rows[j]].name = n /\ store'[n] = objs[rows[j]].h
           /\ objs' \in [Objs -> Object \cup {None}]
           /\ \A o \in Objs : IF \E j \in Committed(i) : rows[j] = o
                              THEN objs'[o] = Clean(objs[o])
                              ELSE objs'[o] = objs[o]
<1> DEFINE of(n) == {j \in Committed(i) : objs[rows[j]].name = n}
           last(n) == CHOOSE j \in of(n) : \A k \in of(n) : k <= j
<1>1. store' = [n \in Names |-> IF of(n) = {} THEN store[n] ELSE objs[rows[last(n)]].h]
  BY DEF CommitRows
<1>2. ASSUME NEW n \in Names, of(n) # {} PROVE last(n) \in of(n)
  <2>1. of(n) \subseteq 0 .. Len(rows) /\ Len(rows) \in Nat
    BY CommittedFacts, RowFacts
  <2>2. \E j \in of(n) : \A k \in of(n) : k <= j
    <3> HIDE DEF of
    <3> QED BY <1>2, <2>1, Greatest
  <2> QED BY <2>2
<1>3. ASSUME NEW n \in Names
      PROVE  /\ store'[n] \in Content \cup {Absent}
             /\ \/ store'[n] = store[n] /\ \A j \in Committed(i) : objs[rows[j]].name # n
                \/ \E j \in Committed(i) : objs[rows[j]].name = n /\ store'[n] = objs[rows[j]].h
  <2>1. CASE of(n) = {}
    <3>1. store'[n] = store[n]
      BY <1>1, <2>1
    <3>2. store[n] \in Content \cup {Absent}
      BY DEF Types
    <3> QED BY <2>1, <3>1, <3>2
  <2>2. CASE of(n) # {}
    <3>1. store'[n] = objs[rows[last(n)]].h
      BY <1>1, <2>2
    <3>2. last(n) \in Committed(i) /\ objs[rows[last(n)]].name = n
      BY <1>2, <2>2
    <3> HIDE DEF last
    <3> QED BY <3>1, <3>2, CommittedFacts
  <2> QED BY <2>1, <2>2
<1>4. DOMAIN store' = Names /\ store' = [n \in Names |-> store'[n]]
  BY <1>1
<1>5. objs' = [o \in Objs |-> IF \E j \in Committed(i) : rows[j] = o
                              THEN Clean(objs[o]) ELSE objs[o]]
  BY DEF CommitRows, Clean
<1>6. ASSUME NEW o \in Objs PROVE objs'[o] \in Object \cup {None}
  <2>1. CASE \E j \in Committed(i) : rows[j] = o
    <3>1. objs[o] \in Object /\ objs'[o] = Clean(objs[o])
      BY <1>5, <2>1, CommittedFacts
    <3> QED BY <3>1, CleanObject
  <2>2. CASE ~\E j \in Committed(i) : rows[j] = o
    BY <1>5, <2>2 DEF Types
  <2> QED BY <2>1, <2>2
<1>7. objs' \in [Objs -> Object \cup {None}]
  BY <1>5, <1>6
<1>8. store' \in [Names -> Content \cup {Absent}]
  BY <1>3, <1>4
<1> HIDE DEF of, last
<1> QED BY <1>3, <1>5, <1>7, <1>8

\* What nwamd tells of the commits.
LEMMA CommitEventsFacts ==
    ASSUME Types, Lives, NEW i \in 1 .. Len(rows) + 1, NEW order \in Ordered(Committed(i))
    PROVE  /\ CommitEvents(order) \in Seq(Event)
           /\ \A e : Has(CommitEvents(order), e) <=>
                        \E j \in Committed(i) : e = Saved(objs[rows[j]].name)
<1> DEFINE n == Cardinality(Committed(i))
           evs == CommitEvents(order)
<1>1. n \in Nat /\ order \in [1 .. n -> Committed(i)] /\ Committed(i) = Range(order)
  BY CommittedFacts DEF Ordered
<1>2. DOMAIN order = 1 .. n
  BY <1>1
<1>3. evs = [k \in 1 .. n |-> Saved(objs[rows[order[k]]].name)]
  BY <1>2 DEF CommitEvents
<1>4. \A k \in 1 .. n : order[k] \in Committed(i)
  BY <1>1
<1>5. ASSUME NEW k \in 1 .. n PROVE Saved(objs[rows[order[k]]].name) \in Event
  BY <1>4, CommittedFacts, ObjFields, SavedEvent
<1> HIDE DEF evs, n
<1>6. evs \in Seq(Event) /\ Len(evs) = n
  BY <1>1, <1>3, <1>5
<1>7. ASSUME NEW e, Has(evs, e) PROVE \E j \in Committed(i) : e = Saved(objs[rows[j]].name)
  <2>1. PICK k \in 1 .. n : evs[k] = e
    BY <1>6, <1>7 DEF Has
  <2> QED BY <1>3, <1>4, <2>1
<1>8. ASSUME NEW j \in Committed(i) PROVE Has(evs, Saved(objs[rows[j]].name))
  <2>1. PICK k \in 1 .. n : order[k] = j
    BY <1>1, <1>2 DEF Range
  <2>2. evs[k] = Saved(objs[rows[j]].name)
    BY <1>3, <2>1
  <2> QED BY <1>6, <2>2 DEF Has
<1> QED BY <1>6, <1>7, <1>8 DEF evs

\* The commits are told of, and then what is enabled or disabled.
LEMMA ActivatedFacts ==
    ASSUME Types, Lives, NEW evs \in Seq(Event), Activated(evs)
    PROVE  /\ enabled' \in Names \cup {None}
           /\ queue' \in Seq(Event)
           /\ \E t \in Seq(Event) : /\ queue' = (queue \o evs) \o t
                                    /\ \A e : Has(t, e) => e.act # "ADD"
<1>1. queue \o evs \in Seq(Event)
  BY HasConcat DEF Types
<1>2. CASE enabled' = enabled /\ queue' = queue \o evs
  <2>1. <<>> \in Seq(Event) /\ \A e : ~Has(<<>>, e)
    BY DEF Has
  <2>2. queue' = (queue \o evs) \o <<>>
    BY <1>1, <1>2
  <2> QED BY <1>1, <1>2, <2>1, <2>2 DEF Types
<1>3. CASE ~(enabled' = enabled /\ queue' = queue \o evs) /\ ~manual
  <2> DEFINE t == <<[act |-> "REFRESH", name |-> enabled]>>
  <2>1. /\ active # None /\ enabled = objs[active].name /\ enabled' = None
        /\ queue' = queue \o evs \o t
    BY <1>3 DEF Activated
  <2>2. enabled \in Names
    BY <2>1, RefFacts, ObjFields
  <2>3. [act |-> "REFRESH", name |-> enabled] \in Event
    BY <2>2 DEF Event
  <2> HIDE DEF Event
  <2>4. t \in Seq(Event)
    BY <2>3
  <2>5. \A e : Has(t, e) => e.act # "ADD"
    BY DEF Has
  <2> HIDE DEF t
  <2>6. queue' \in Seq(Event)
    BY <1>1, <2>1, <2>4, HasConcat
  <2> QED BY <2>1, <2>4, <2>5, <2>6
<1>4. CASE ~(enabled' = enabled /\ queue' = queue \o evs) /\ manual
  <2> DEFINE n == objs[toggled].name
             t == <<[act |-> "REFRESH", name |-> n], [act |-> "STATE", name |-> n]>>
  <2>1. toggled # None /\ enabled' = n /\ queue' = queue \o evs \o t
    BY <1>4 DEF Activated
  <2>2. n \in Names
    BY <2>1, RefFacts, ObjFields
  <2>3. [act |-> "REFRESH", name |-> n] \in Event /\ [act |-> "STATE", name |-> n] \in Event
    BY <2>2 DEF Event
  <2> HIDE DEF n
  <2>4. t \in Seq(Event)
    BY <2>3
  <2>5. \A e : Has(t, e) => e.act # "ADD"
    BY DEF Has
  <2> HIDE DEF t
  <2>6. queue' \in Seq(Event)
    BY <1>1, <2>1, <2>4, HasConcat
  <2> QED BY <2>1, <2>2, <2>4, <2>5, <2>6
<1> QED BY <1>2, <1>3, <1>4 DEF Activated

-----------------------------------------------------------------------------
(* Types, and what the program refers to.                                      *)

\* Objects change, but none is freed, and the lists stay.
LEMMA KeepsRefs ==
    ASSUME Types, Lives,
           \A o \in Objs : objs[o] # None => objs'[o] # None,
           rows' = rows, listed' = listed, active' = active \/ active' \in listed,
           sel' = None \/ sel' \in RowSet,
           editing' = None \/ (editing' \in RowSet /\ open'),
           toggled' = None \/ (toggled' \in RowSet \cup {toggled} /\ open' /\ toggled' = choice')
    PROVE  Lives' /\ Refers' /\ Chosen'
<1>1. RowSet' = RowSet
  BY DEF RowSet
<1>2. ASSUME NEW o \in RowSet' \cup listed' \cup {active', sel', toggled', editing'}, o # None
      PROVE  objs'[o] # None
  <2>1. o \in RowSet \cup listed \cup {active, sel, toggled, editing}
    BY <1>1, <1>2
  <2>2. o \in Objs /\ objs[o] # None
    BY <1>2, <2>1, RowFacts, RefFacts DEF Lives
  <2> QED BY <2>2
<1>3. Lives'
  BY <1>2 DEF Lives
<1> QED BY <1>1, <1>3 DEF Refers, Chosen

\* One object gets another content.
LEMMA OneChanged ==
    ASSUME Types, NEW o \in Objs, NEW r \in Object, objs' = [objs EXCEPT ![o] = r]
    PROVE  /\ objs' \in [Objs -> Object \cup {None}]
           /\ objs'[o] = r
           /\ \A p \in Objs : p # o => objs'[p] = objs[p]
           /\ \A p \in Objs : objs[p] # None => objs'[p] # None
<1>1. r # None
  BY ObjFields
<1>2. /\ objs' \in [Objs -> Object \cup {None}]
      /\ objs'[o] = r
      /\ \A p \in Objs : p # o => objs'[p] = objs[p]
  BY DEF Types
<1> QED BY <1>1, <1>2

\* What is still referred to is not freed.
LEMMA HeldFacts ==
    ASSUME NEW os \in [Objs -> Object \cup {None}], objs' = Held(os),
           \A o \in ToSet(rows') \cup listed' \cup {active', toggled', editing'} :
              o # None => o \in Objs /\ os[o] # None,
           sel' = None \/ sel' \in ToSet(rows')
    PROVE  /\ objs' \in [Objs -> Object \cup {None}]
           /\ Lives'
           /\ \A o \in Objs : objs'[o] = None \/ objs'[o] = os[o]
           /\ \A o \in ToSet(rows') \cup listed' \cup {active', toggled', editing'} :
                 o # None => objs'[o] = os[o]
<1>1. objs' = [o \in Objs |-> IF o \in ToSet(rows') \cup listed' \cup {active', toggled', editing'}
                              THEN os[o] ELSE None]
  BY DEF Held
<1>2. \A o \in Objs : objs'[o] = None \/ objs'[o] = os[o]
  BY <1>1
<1>3. objs' \in [Objs -> Object \cup {None}]
  BY <1>1
<1>4. \A o \in ToSet(rows') \cup listed' \cup {active', toggled', editing'} :
         o # None => o \in Objs /\ objs'[o] = os[o]
  BY <1>1
<1>5. \A o \in ToSet(rows') \cup listed' \cup {active', sel', toggled', editing'} :
         o # None => objs'[o] # None
  BY <1>4
<1>6. Lives'
  BY <1>5 DEF Lives, RowSet
<1> QED BY <1>2, <1>3, <1>4, <1>6

LEMMA QueueTypes ==
    ASSUME queue \in Seq(Event), NEW e \in Event
    PROVE  /\ Append(queue, e) \in Seq(Event)
           /\ queue # <<>> => Tail(queue) \in Seq(Event) /\ Head(queue) \in Event
OBVIOUS

LEMMA InitSafe == Init => SafeInv
<1> SUFFICES ASSUME Init PROVE SafeInv
  OBVIOUS
<1> DEFINE of == CHOOSE f \in [Names -> Objs] : \A m, n \in Names : m # n => f[m] # f[n]
           stored == {n \in Names : store[n] # Absent}
           entry(o) == CHOOSE n \in stored : of[n] = o
           new(n) == [name |-> n, h |-> store[n], mod |-> FALSE, fresh |-> FALSE, en |-> FALSE]
<1>1. of \in [Names -> Objs]
  BY ObjsAssumption
<1>2. store \in [Names -> Content \cup {Absent}]
  BY StoresAssumption DEF Init
<1>3. /\ listed = {of[n] : n \in stored}
      /\ objs = [o \in Objs |-> IF \E n \in stored : of[n] = o THEN new(entry(o)) ELSE None]
  BY DEF Init
<1>4. ASSUME NEW n \in stored PROVE new(n) \in Object
  <2>1. n \in Names /\ store[n] \in Content
    BY <1>2
  <2> QED BY <2>1 DEF Object
<1>5. ASSUME NEW o \in Objs, NEW n \in stored, of[n] = o PROVE entry(o) \in stored
  BY <1>5
<1> HIDE DEF of, new, entry
<1>6. objs \in [Objs -> Object \cup {None}]
  BY <1>3, <1>4, <1>5
<1>7. listed \subseteq Objs
  BY <1>1, <1>3
<1>8. \A o \in listed : objs[o] # None
  <2> SUFFICES ASSUME NEW n \in stored PROVE objs[of[n]] # None
    BY <1>3
  <2>1. of[n] \in Objs
    BY <1>1
  <2>2. objs[of[n]] = new(entry(of[n])) /\ entry(of[n]) \in stored
    BY <1>3, <1>5, <2>1
  <2>3. new(entry(of[n])) \in Object
    BY <1>4, <2>2
  <2> QED BY <2>2, <2>3, ObjsAssumption
<1>9. enabled = None /\ queue = <<>> /\ active = None /\ twins = {} /\ rows = <<>> /\ sel = None
      /\ combo = "manual" /\ toggled = None /\ editing = None /\ choice = None
  BY DEF Init
<1>10. edits = 0 /\ admins = 0 /\ manual = FALSE /\ open = FALSE
  BY DEF Init
<1>11. edits \in 0 .. MaxEdits /\ admins \in 0 .. MaxAdmin
  BY <1>10, BoundsAssumption
<1>12. RowSet = {}
  BY <1>9 DEF RowSet, ToSet
<1>13. rows \in Seq(Objs) /\ queue \in Seq(Event)
  BY <1>9
<1>14. Types
  BY <1>2, <1>6, <1>7, <1>9, <1>10, <1>11, <1>13, Zenon DEF Types
<1>15. Lives
  BY <1>8, <1>9, <1>12 DEF Lives
<1> QED BY <1>9, <1>14, <1>15 DEF SafeInv, Refers, Chosen

LEMMA StepSafe == SafeInv /\ [Next]_vars => SafeInv'
<1> SUFFICES ASSUME SafeInv, [Next]_vars PROVE SafeInv'
  OBVIOUS
<1> USE DEF SafeInv
<1>a. /\ edits \in 0 .. MaxEdits /\ admins \in 0 .. MaxAdmin /\ MaxEdits \in Nat /\ MaxAdmin \in Nat
      /\ edits < MaxEdits => edits + 1 \in 0 .. MaxEdits
      /\ admins < MaxAdmin => admins + 1 \in 0 .. MaxAdmin
  BY BoundsAssumption DEF Types
<1>b. sel # None => sel \in RowSet /\ sel \in Objs /\ objs[sel] \in Object
  BY RowFacts DEF Refers
<1>c. editing # None => open /\ editing \in RowSet /\ editing \in Objs /\ objs[editing] \in Object
  BY RowFacts DEF Refers
<1>d. MayEdit => open /\ editing = None /\ edits + 1 \in 0 .. MaxEdits
  BY <1>a DEF MayEdit
<1>1. CASE OpenDialog
  <2>1. /\ ~open /\ open' = TRUE /\ rows' = SetToSeq(listed) /\ sel' = None
        /\ manual' = SelectionIsManual(objs, listed) /\ choice' = None
        /\ UNCHANGED <<store, enabled, queue, listed, active, twins, combo, toggled, editing,
                       edits, admins>>
        /\ objs' = Held(objs)
    BY <1>1 DEF OpenDialog, nwamd, daemon
  <2>2. rows' \in Seq(Objs) /\ ToSet(rows') = listed
    BY <2>1, ListRows DEF Types
  <2>3. toggled = None /\ editing = None
    BY <2>1 DEF Chosen, Refers
  <2>4. \A o \in ToSet(rows') \cup listed' \cup {active', toggled', editing'} :
           o # None => o \in Objs /\ objs[o] # None
    BY <2>1, <2>2, RowFacts, RefFacts DEF Lives
  <2>5. objs' \in [Objs -> Object \cup {None}] /\ Lives'
    BY <2>1, <2>4, HeldFacts DEF Types
  <2>6. manual' \in BOOLEAN
    BY <2>1 DEF SelectionIsManual
  <2>7. Types'
    BY <2>1, <2>2, <2>5, <2>6, Zenon DEF Types
  <2> QED BY <2>1, <2>3, <2>5, <2>7 DEF Refers, Chosen
<1>2. CASE AddLocation \/ Duplicate
  <2>1. PICK o \in Free : \E r \in Object : MayEdit /\ AddRow(o, r) /\ admins' \in 0 .. MaxAdmin
    <3>1. CASE AddLocation
      <4>1. PICK o \in Free, n \in Names \ RowNames, unread \in BOOLEAN :
               Trouble(unread) /\ \E r \in NewEnv(n, unread) : AddRow(o, r)
        BY <3>1 DEF AddLocation
      <4>2. PICK r \in NewEnv(n, unread) : AddRow(o, r)
        BY <4>1
      <4>3. r \in Object
        BY NewEnvObject DEF Types
      <4>4. admins' \in 0 .. MaxAdmin
        BY <1>a, <4>1, TroubleCounts
      <4>5. MayEdit
        BY <3>1 DEF AddLocation
      <4> QED BY <4>2, <4>3, <4>4, <4>5
    <3>2. CASE Duplicate
      <4>1. PICK o \in Free, n \in Names :
               AddRow(o, [name |-> n, h |-> objs[sel].h, mod |-> TRUE, fresh |-> TRUE, en |-> FALSE])
        BY <3>2 DEF Duplicate
      <4>2. sel # None /\ MayEdit /\ admins' \in 0 .. MaxAdmin
        BY <1>a, <3>2 DEF Duplicate
      <4>3. [name |-> n, h |-> objs[sel].h, mod |-> TRUE, fresh |-> TRUE, en |-> FALSE] \in Object
        BY <1>b, <4>2, ObjFields DEF Object
      <4> QED BY <4>1, <4>2, <4>3
    <3> QED BY <1>2, <3>1, <3>2
  <2>2. PICK r \in Object : MayEdit /\ AddRow(o, r) /\ admins' \in 0 .. MaxAdmin
    BY <2>1
  <2>3. /\ objs' = [objs EXCEPT ![o] = r] /\ rows' = Append(rows, o) /\ sel' = o
        /\ combo' = ComboOf(r) /\ edits' = edits + 1
        /\ UNCHANGED <<store, enabled, queue, listed, active, twins, toggled, manual, choice,
                       open, editing>>
    BY <2>2 DEF AddRow, Edited, nwamd, daemon, choosing
  <2>4. o \in Objs
    BY DEF Free
  <2>5. /\ objs' \in [Objs -> Object \cup {None}] /\ objs'[o] = r
        /\ \A p \in Objs : objs[p] # None => objs'[p] # None
    BY <2>3, <2>4, OneChanged
  <2>6. rows' \in Seq(Objs) /\ RowSet' = RowSet \cup {o}
    BY <2>3, <2>4, AppendRows DEF Types, RowSet
  <2>7. combo' \in {"manual", "rules", "system"}
    BY <2>3, ComboType
  <2>8. Types'
    BY <1>d, <2>2, <2>3, <2>4, <2>5, <2>6, <2>7, Zenon DEF Types
  <2>9. ASSUME NEW p \in RowSet' \cup listed' \cup {active', sel', toggled', editing'}, p # None
        PROVE  objs'[p] # None
    <3>1. CASE p = o
      BY <2>5, <3>1, ObjFields
    <3>2. CASE p # o
      <4>1. p \in RowSet \cup listed \cup {active, toggled, editing}
        BY <2>3, <2>6, <2>9, <3>2
      <4>2. p \in Objs /\ objs[p] # None
        BY <2>9, <4>1, RowFacts, RefFacts DEF Lives
      <4> QED BY <2>5, <4>2
    <3> QED BY <3>1, <3>2
  <2>10. Lives'
    BY <2>9 DEF Lives
  <2> QED BY <1>d, <2>2, <2>3, <2>6, <2>8, <2>10 DEF Refers, Chosen
<1>3. CASE RemoveLocation
  <2>1. /\ MayEdit /\ sel # None
        /\ toggled' = (IF toggled = sel THEN None ELSE toggled)
        /\ choice' = (IF choice = sel THEN None ELSE choice)
        /\ rows' = Without(rows, sel) /\ sel' = None /\ edits' = edits + 1
        /\ UNCHANGED <<listed, active, twins, combo, manual, open, editing, admins>>
    BY <1>3 DEF RemoveLocation, Edited, daemon
  <2>2. rows' \in Seq(Objs) /\ ToSet(rows') \subseteq RowSet
    BY <1>b, <2>1, WithoutRows DEF Types, RowSet
  <2>3. PICK os \in [Objs -> Object \cup {None}] :
           /\ objs' = Held(os)
           /\ \A o \in Objs : objs[o] # None => os[o] # None
           /\ store' \in [Names -> Content \cup {Absent}] /\ enabled' \in Names \cup {None}
           /\ queue' \in Seq(Event)
    <3> DEFINE n == objs[sel].name
               d == [objs[sel] EXCEPT !.h = NoHandle]
    <3>1. CASE objs' = Held(objs) /\ UNCHANGED nwamd
      BY <3>1 DEF nwamd, Types
    <3>2. CASE ~(objs' = Held(objs) /\ UNCHANGED nwamd)
      <4>1. /\ store' = [store EXCEPT ![n] = Absent]
            /\ enabled' = (IF enabled = n THEN None ELSE enabled)
            /\ queue' = Append(queue, [act |-> "DESTROY", name |-> n])
            /\ objs' = Held([objs EXCEPT ![sel].h = NoHandle])
        BY <1>3, <3>2 DEF RemoveLocation
      <4>2. [objs EXCEPT ![sel].h = NoHandle] = [objs EXCEPT ![sel] = d]
        BY <1>b, <2>1 DEF Types
      <4>3. d \in Object /\ d # None /\ n \in Names
        BY <1>b, <2>1, ObjFields, ObjsAssumption DEF Object
      <4>4. [act |-> "DESTROY", name |-> n] \in Event
        BY <4>3 DEF Event
      <4> HIDE DEF d, n
      <4>5. store' \in [Names -> Content \cup {Absent}] /\ enabled' \in Names \cup {None}
        BY <4>1, <4>3 DEF Types
      <4>6. queue' \in Seq(Event)
        BY <4>1, <4>4, QueueTypes DEF Types
      <4>7. [objs EXCEPT ![sel] = d] \in [Objs -> Object \cup {None}]
        BY <4>3 DEF Types
      <4>8. \A o \in Objs : objs[o] # None => [objs EXCEPT ![sel] = d][o] # None
        BY <4>3 DEF Types
      <4> QED BY <4>1, <4>2, <4>5, <4>6, <4>7, <4>8
    <3> QED BY <3>1, <3>2
  <2>4. \A o \in ToSet(rows') \cup listed' \cup {active', toggled', editing'} :
           o # None => o \in Objs /\ os[o] # None
    <3> SUFFICES ASSUME NEW o \in RowSet \cup listed \cup {active, toggled, editing}, o # None
                 PROVE  o \in Objs /\ os[o] # None
      BY <2>1, <2>2
    <3>1. o \in Objs /\ objs[o] # None
      BY RowFacts, RefFacts DEF Lives
    <3> QED BY <2>3, <3>1
  <2>5. objs' \in [Objs -> Object \cup {None}] /\ Lives'
    BY <2>1, <2>3, <2>4, HeldFacts
  <2>6. toggled' \in Objs \cup {None} /\ choice' \in Objs \cup {None}
    BY <2>1 DEF Types
  <2>7. Types'
    BY <1>d, <2>1, <2>2, <2>3, <2>5, <2>6, Zenon DEF Types
  <2> QED BY <1>d, <2>1, <2>5, <2>7 DEF Refers, Chosen
<1>4. CASE Rename
  <2>1. /\ MayEdit /\ sel # None /\ edits' = edits + 1
        /\ UNCHANGED <<store, enabled, queue, listed, active, rows, sel, combo, toggled, manual,
                       choice, open,
                       editing, admins>>
    BY <1>4 DEF Rename, Edited, nwamd, choosing
  <2>2. PICK n \in Names \ RowNames :
           /\ objs' = [objs EXCEPT ![sel] = [@ EXCEPT !.name = n, !.mod = TRUE]]
           /\ twins' = IF sel \in listed /\ Named(n) # {} THEN twins \cup {n} ELSE twins
    BY <1>4 DEF Rename
  <2> DEFINE r == [objs[sel] EXCEPT !.name = n, !.mod = TRUE]
  <2>3. r \in Object
    BY <1>b, <2>1 DEF Object
  <2>4. objs' = [objs EXCEPT ![sel] = r]
    BY <2>2
  <2> HIDE DEF r
  <2>5. objs' \in [Objs -> Object \cup {None}] /\ \A p \in Objs : objs[p] # None => objs'[p] # None
    BY <1>b, <2>1, <2>3, <2>4, OneChanged
  <2>6. twins' \in SUBSET Names
    BY <2>2 DEF Types
  <2>7. Types'
    BY <1>d, <2>1, <2>5, <2>6, Zenon DEF Types
  <2>8. Lives' /\ Refers' /\ Chosen'
    BY <1>b, <1>d, <2>1, <2>5, KeepsRefs DEF Chosen
  <2> QED BY <2>7, <2>8
<1>5. CASE \E o \in Objs : SelectRow(o)
  <2>1. PICK o \in Objs : SelectRow(o)
    BY <1>5
  <2>2. /\ open /\ editing = None /\ o \in RowSet /\ sel' = o /\ combo' = ComboOf(objs[o])
        /\ UNCHANGED <<store, enabled, queue, objs, listed, active, twins, rows, toggled, manual,
                       choice, open,
                       editing, edits, admins>>
    BY <2>1 DEF SelectRow, nwamd, daemon, choosing
  <2>3. combo' \in {"manual", "rules", "system"}
    BY <2>2, RowFacts, ComboType
  <2>4. Types'
    BY <2>2, <2>3, Zenon DEF Types
  <2>5. Lives' /\ Refers' /\ Chosen'
    BY <2>2, KeepsRefs DEF Chosen
  <2> QED BY <2>4, <2>5
<1>6. CASE Toggle
  <2>1. /\ MayEdit /\ edits' = edits + 1
        /\ UNCHANGED <<store, enabled, queue, objs, listed, active, twins, rows, sel, combo, open,
                       editing, admins>>
    BY <1>6 DEF Toggle, Edited, nwamd, daemon
  <2>2. \/ toggled' = toggled /\ choice' = choice /\ manual' \in BOOLEAN
        \/ \E o \in RowSet : toggled' = o /\ choice' = o /\ manual' = manual
    BY <1>6 DEF Toggle, Types
  <2>3. toggled' \in Objs \cup {None} /\ choice' \in Objs \cup {None} /\ manual' \in BOOLEAN
    BY <2>2, RowFacts DEF Types
  <2>4. Types'
    BY <1>d, <2>1, <2>3, Zenon DEF Types
  <2>5. Lives' /\ Refers' /\ Chosen'
    BY <1>b, <1>d, <2>1, <2>2, KeepsRefs DEF Chosen
  <2> QED BY <2>4, <2>5
<1>7. CASE ChooseActivation \/ Rules
  <2>1. /\ MayEdit /\ sel # None /\ edits' = edits + 1
        /\ UNCHANGED <<store, enabled, queue, listed, active, twins, rows, sel, toggled, manual,
                       choice, open,
                       editing, admins>>
    BY <1>7 DEF ChooseActivation, Rules, Edited, nwamd, daemon, choosing
  <2>2. \E r \in Object : objs' = [objs EXCEPT ![sel] = r] /\ combo' \in {"manual", "rules", "system"}
    <3>1. CASE ChooseActivation
      <4> DEFINE mode == IF combo = "manual" THEN "any" ELSE "manual"
                 r == IF ModeOf(objs[sel]) = mode THEN objs[sel] ELSE SetMode(objs[sel], mode)
      <4>1. objs' = [objs EXCEPT ![sel] = r] /\ combo' = (IF combo = "manual" THEN "rules" ELSE "manual")
        BY <3>1 DEF ChooseActivation
      <4>2. mode \in Modes
        BY DEF Modes
      <4>3. r \in Object
        <5> HIDE DEF mode
        <5> QED BY <1>b, <2>1, <4>2, SetModeObject
      <4> QED BY <4>1, <4>3
    <3>2. CASE Rules
      <4>1. PICK m \in {"any", "all"}, some \in BOOLEAN :
               LET r == SetConditions(SetMode(objs[sel], m), some)
               IN  objs' = [objs EXCEPT ![sel] = r] /\ combo' = ComboOf(r)
        BY <3>2 DEF Rules
      <4>2. SetMode(objs[sel], m) \in Object
        BY <1>b, <2>1, SetModeObject DEF Modes
      <4>3. SetConditions(SetMode(objs[sel], m), some) \in Object
        BY <4>2, SetConditionsObject
      <4> QED BY <4>1, <4>3, ComboType
    <3> QED BY <1>7, <3>1, <3>2
  <2>3. objs' \in [Objs -> Object \cup {None}] /\ \A p \in Objs : objs[p] # None => objs'[p] # None
    BY <1>b, <2>1, <2>2, OneChanged
  <2>4. Types'
    BY <1>d, <2>1, <2>2, <2>3, Zenon DEF Types
  <2>5. Lives' /\ Refers' /\ Chosen'
    BY <1>b, <1>d, <2>1, <2>3, KeepsRefs DEF Chosen
  <2> QED BY <2>4, <2>5
<1>8. CASE EditProperties
  <2>1. /\ MayEdit /\ sel # None /\ editing' = sel
        /\ UNCHANGED <<store, enabled, queue, objs, listed, active, twins, rows, sel, combo,
                       toggled, manual, choice,
                       open, edits, admins>>
    BY <1>8 DEF EditProperties, nwamd, daemon, choosing
  <2>2. Types'
    BY <1>b, <2>1, Zenon DEF Types
  <2>3. Lives' /\ Refers' /\ Chosen'
    BY <1>b, <1>d, <2>1, KeepsRefs DEF Chosen
  <2> QED BY <2>2, <2>3
<1>9. CASE ChangeProperties
  <2>1. /\ editing # None /\ edits < MaxEdits /\ edits' = edits + 1
        /\ UNCHANGED <<store, enabled, queue, listed, active, twins, rows, sel, combo, toggled,
                       manual, choice, open,
                       editing, admins>>
    BY <1>9 DEF ChangeProperties, Edited, nwamd, daemon, choosing
  <2> DEFINE c == IF objs[editing].h = NoHandle THEN objs[editing].h
                  ELSE [objs[editing].h EXCEPT !.text = 1 - @]
             r == Set(objs[editing], c)
  <2>2. objs' = [objs EXCEPT ![editing] = r]
    BY <1>9 DEF ChangeProperties
  <2>3. objs[editing].h # NoHandle => c \in Content
    <3>1. ASSUME NEW d \in Content PROVE [d EXCEPT !.text = 1 - @] \in Content
      BY DEF Content
    <3> QED BY <1>c, <2>1, <3>1, ObjFields
  <2>4. r \in Object
    <3> HIDE DEF c
    <3> QED BY <1>c, <2>1, <2>3, SetObject
  <2> HIDE DEF r
  <2>5. objs' \in [Objs -> Object \cup {None}] /\ \A p \in Objs : objs[p] # None => objs'[p] # None
    BY <1>c, <2>1, <2>2, <2>4, OneChanged
  <2>6. Types'
    BY <1>a, <2>1, <2>5, Zenon DEF Types
  <2>7. Lives' /\ Refers' /\ Chosen'
    BY <1>b, <1>c, <2>1, <2>5, KeepsRefs DEF Chosen
  <2> QED BY <2>6, <2>7
<1>10. CASE ApplyProperties
  <2>1. /\ editing # None /\ editing' = None
        /\ UNCHANGED <<enabled, listed, active, twins, rows, sel, combo, toggled, manual, choice,
                       open, edits, admins>>
    BY <1>10 DEF ApplyProperties, daemon, choosing
  <2>2. /\ store' \in [Names -> Content \cup {Absent}] /\ queue' \in Seq(Event)
        /\ objs' \in [Objs -> Object \cup {None}] /\ \A p \in Objs : objs[p] # None => objs'[p] # None
    <3>1. CASE UNCHANGED <<store, queue, objs>>
      BY <3>1 DEF Types
    <3>2. CASE ~UNCHANGED <<store, queue, objs>>
      <4> DEFINE n == objs[editing].name
                 c == objs[editing].h
                 r == Clean(objs[editing])
      <4>1. /\ c # NoHandle /\ store' = [store EXCEPT ![n] = c] /\ queue' = Append(queue, Saved(n))
            /\ objs' = [objs EXCEPT ![editing] = r]
        BY <1>10, <3>2 DEF ApplyProperties, Clean
      <4>2. n \in Names /\ c \in Content
        BY <1>c, <2>1, <4>1, ObjFields
      <4>3. r \in Object
        BY <1>c, <2>1, CleanObject
      <4> HIDE DEF n, c, r
      <4>4. store' \in [Names -> Content \cup {Absent}]
        BY <4>1, <4>2 DEF Types
      <4>5. queue' \in Seq(Event)
        BY <4>1, <4>2, SavedEvent, QueueTypes DEF Types
      <4> QED BY <1>c, <2>1, <4>1, <4>3, <4>4, <4>5, OneChanged
    <3> QED BY <3>1, <3>2
  <2>3. Types'
    BY <2>1, <2>2, Zenon DEF Types
  <2>4. Lives' /\ Refers' /\ Chosen'
    BY <1>b, <2>1, <2>2, KeepsRefs DEF Chosen
  <2> QED BY <2>3, <2>4
<1>11. CASE CancelProperties
  <2>a. PICK unread \in BOOLEAN :
           Trouble(unread) /\ objs' = [objs EXCEPT ![editing] = Reload(@, unread)]
    BY <1>11 DEF CancelProperties
  <2>1. /\ editing # None /\ editing' = None
        /\ objs' = [objs EXCEPT ![editing] = Reload(objs[editing], unread)]
        /\ UNCHANGED <<store, enabled, queue, listed, active, twins, rows, sel, combo, toggled,
                       manual, choice, open, edits>>
    BY <1>11, <2>a DEF CancelProperties, nwamd, daemon, choosing
  <2>b. admins' \in 0 .. MaxAdmin
    BY <1>a, <2>a, TroubleCounts
  <2>2. Reload(objs[editing], unread) \in Object
    BY <1>c, <2>1, ReloadObject DEF Types
  <2>3. objs' \in [Objs -> Object \cup {None}] /\ \A p \in Objs : objs[p] # None => objs'[p] # None
    BY <1>c, <2>1, <2>2, OneChanged
  <2>4. Types'
    BY <2>1, <2>b, <2>3, Zenon DEF Types
  <2>5. Lives' /\ Refers' /\ Chosen'
    BY <1>b, <2>1, <2>3, KeepsRefs DEF Chosen
  <2> QED BY <2>4, <2>5
<1>12. CASE Ok
  <2>1. PICK i \in 1 .. (Len(rows) + 1) :
           /\ CommitRows(i)
           /\ \E order \in Ordered(Committed(i)) : Activated(CommitEvents(order))
           /\ Responds(i > Len(rows))
           /\ sel' = IF i <= Len(rows) THEN rows[i] ELSE sel
           /\ combo' = IF sel' # sel THEN ComboOf(objs'[sel']) ELSE combo
    BY <1>12 DEF Ok
  <2>2. PICK order \in Ordered(Committed(i)) : Activated(CommitEvents(order))
    BY <2>1
  <2>3. /\ toggled' = None /\ open /\ editing = None
        /\ UNCHANGED <<listed, active, twins, rows, manual, editing, choice, edits, admins>>
    BY <1>12, <2>1 DEF Ok, Forget, Responds, daemon
  <2>4. open' \in BOOLEAN
    BY <2>1 DEF Responds
  <2>5. store' \in [Names -> Content \cup {Absent}]
    BY <2>1, CommitFacts
  <2>6. objs' \in [Objs -> Object \cup {None}] /\ \A p \in Objs : objs[p] # None => objs'[p] # None
    <3>1. ASSUME NEW p \in Objs, objs[p] # None PROVE objs'[p] # None
      <4>1. objs[p] \in Object
        BY <3>1 DEF Types
      <4>2. objs'[p] = Clean(objs[p]) \/ objs'[p] = objs[p]
        BY <2>1, CommitFacts
      <4>3. objs'[p] \in Object
        BY <4>1, <4>2, CleanObject
      <4> QED BY <4>3, ObjFields
    <3> QED BY <2>1, <3>1, CommitFacts
  <2>7. sel' = None \/ sel' \in RowSet
    <3>1. i <= Len(rows) => rows[i] \in RowSet
      BY RowFacts
    <3> QED BY <1>b, <2>1, <3>1
  <2>8. combo' \in {"manual", "rules", "system"}
    <3>1. CASE sel' = sel
      BY <2>1, <3>1 DEF Types
    <3>2. CASE sel' # sel
      <4>1. i <= Len(rows)
        BY <2>1, <3>2
      <4>2. sel' = rows[i] /\ rows[i] \in RowSet
        BY <2>1, <4>1, RowFacts
      <4>3. objs'[sel'] \in Object
        BY <2>6, <4>2, RowFacts, ObjFields
      <4> QED BY <2>1, <3>2, <4>3, ComboType
    <3> QED BY <3>1, <3>2
  <2>9. enabled' \in Names \cup {None} /\ queue' \in Seq(Event)
    BY <2>2, CommitEventsFacts, ActivatedFacts
  <2>10. sel' \in Objs \cup {None}
    BY <2>7, RowFacts
  <2>11. Types'
    BY <2>3, <2>4, <2>5, <2>6, <2>8, <2>9, <2>10, Zenon DEF Types
  <2>12. Lives' /\ Refers' /\ Chosen'
    BY <2>3, <2>6, <2>7, KeepsRefs
  <2> QED BY <2>11, <2>12
<1>13. CASE Cancel
  <2>a. PICK unread \in SUBSET RowSet :
           /\ Trouble(unread # {})
           /\ objs' = [o \in Objs |-> IF o \in RowSet THEN Reload(objs[o], o \in unread) ELSE objs[o]]
    BY Zenon, <1>13 DEF Cancel
  <2>1. /\ open /\ editing = None /\ open' = FALSE /\ toggled' = None
        /\ objs' = [o \in Objs |-> IF o \in RowSet THEN Reload(objs[o], o \in unread) ELSE objs[o]]
        /\ UNCHANGED <<store, enabled, queue, listed, active, twins, rows, sel, combo, manual,
                       editing, choice, edits>>
    BY <1>13, <2>a DEF Cancel, Responds, Forget, nwamd, daemon
  <2>b. admins' \in 0 .. MaxAdmin
    BY <1>a, <2>a, TroubleCounts
  <2>2. ASSUME NEW o \in RowSet PROVE Reload(objs[o], o \in unread) \in Object
    <3> DEFINE u == o \in unread
    <3>1. u \in BOOLEAN
      OBVIOUS
    <3> HIDE DEF u
    <3>2. Reload(objs[o], u) \in Object
      BY <3>1, RowFacts, ReloadObject DEF Types
    <3> QED BY <3>2 DEF u
  <2>3. ASSUME NEW o \in Objs
        PROVE  objs'[o] \in Object \cup {None} /\ (objs[o] # None => objs'[o] # None)
    <3>1. CASE o \in RowSet
      BY <2>1, <2>2, <3>1, ObjFields
    <3>2. CASE o \notin RowSet
      BY <2>1, <3>2 DEF Types
    <3> QED BY <3>1, <3>2
  <2>4. objs' \in [Objs -> Object \cup {None}]
    BY <2>1, <2>3
  <2>5. Types'
    BY <2>1, <2>b, <2>4, Zenon DEF Types
  <2>6. Lives' /\ Refers' /\ Chosen'
    BY <1>b, <2>1, <2>3, KeepsRefs
  <2> QED BY <2>5, <2>6
<1>14. CASE EventAdd
  <2>1. /\ queue # <<>> /\ queue' = Tail(queue)
        /\ UNCHANGED <<store, enabled, active, twins, rows, sel, combo, toggled, manual, choice,
                       open, editing, edits>>
    BY <1>14 DEF EventAdd, Take, EventKeeps
  <2>2. Tail(queue) \in Seq(Event) /\ Head(queue).name \in Names
    <3>1. Tail(queue) \in Seq(Event) /\ Head(queue) \in Event
      BY <2>1, TailFacts DEF Types
    <3> QED BY <3>1 DEF Event
  <2>3. CASE UNCHANGED <<objs, listed, admins>>
    <3>1. Types'
      BY <2>1, <2>2, <2>3, Zenon DEF Types
    <3>2. Lives' /\ Refers' /\ Chosen'
      BY <1>b, <1>c, <2>1, <2>3, KeepsRefs DEF Chosen
    <3> QED BY <3>1, <3>2
  <2>4. CASE ~UNCHANGED <<objs, listed, admins>>
    <3>1. PICK o \in Free, unread \in BOOLEAN : \E r \in NewEnv(Head(queue).name, unread) :
             Trouble(unread) /\ objs' = [objs EXCEPT ![o] = r] /\ listed' = listed \cup {o}
      BY <1>14, <2>4 DEF EventAdd
    <3>2. PICK r \in NewEnv(Head(queue).name, unread) :
             Trouble(unread) /\ objs' = [objs EXCEPT ![o] = r]
      BY <3>1
    <3>a. admins' \in 0 .. MaxAdmin
      BY <1>a, <3>2, TroubleCounts
    <3>3. o \in Objs /\ r \in Object
      BY <2>2, NewEnvObject DEF Free, Types
    <3>4. /\ objs' \in [Objs -> Object \cup {None}] /\ objs'[o] = r
          /\ \A p \in Objs : objs[p] # None => objs'[p] # None
      BY <3>2, <3>3, OneChanged
    <3>5. listed' \in SUBSET Objs
      BY <3>1, <3>3 DEF Types
    <3>6. Types'
      BY <2>1, <2>2, <3>a, <3>4, <3>5, Zenon DEF Types
    <3>7. RowSet' = RowSet
      BY <2>1 DEF RowSet
    <3>8. ASSUME NEW p \in RowSet' \cup listed' \cup {active', sel', toggled', editing'}, p # None
          PROVE  objs'[p] # None
      <4>1. CASE p = o
        BY <3>3, <3>4, <4>1, ObjFields
      <4>2. CASE p # o
        <5>1. p \in RowSet \cup listed \cup {active, sel, toggled, editing}
          BY <2>1, <3>1, <3>7, <3>8, <4>2
        <5>2. p \in Objs /\ objs[p] # None
          BY <3>8, <5>1, RowFacts, RefFacts DEF Lives
        <5> QED BY <3>4, <5>2
      <4> QED BY <4>1, <4>2
    <3>9. Lives'
      BY <3>8 DEF Lives
    <3> QED BY <2>1, <3>6, <3>7, <3>9 DEF Refers, Chosen
  <2> QED BY <2>3, <2>4
<1>15. CASE EventRefresh
  <2>1. /\ queue # <<>> /\ queue' = Tail(queue)
        /\ UNCHANGED <<store, enabled, listed, active, twins, rows, sel, combo, toggled, manual,
                       choice, open, editing, edits>>
    BY <1>15 DEF EventRefresh, Take, EventKeeps, daemon
  <2>2. Tail(queue) \in Seq(Event)
    BY <2>1, TailFacts DEF Types
  <2>3. /\ objs' \in [Objs -> Object \cup {None}] /\ \A p \in Objs : objs[p] # None => objs'[p] # None
        /\ admins' \in 0 .. MaxAdmin
    <3>1. CASE UNCHANGED <<objs, admins>>
      BY <1>a, <3>1 DEF Types
    <3>2. CASE ~UNCHANGED <<objs, admins>>
      <4>1. PICK o \in Subject, unread \in BOOLEAN :
               Trouble(unread) /\ objs' = [objs EXCEPT ![o] = IF @.mod THEN @ ELSE Reload(@, unread)]
        BY <1>15, <3>2 DEF EventRefresh
      <4>a. admins' \in 0 .. MaxAdmin
        BY <1>a, <4>1, TroubleCounts
      <4>2. o \in Objs /\ objs[o] \in Object
        BY RowFacts DEF Subject, Named
      <4> DEFINE r == IF objs[o].mod THEN objs[o] ELSE Reload(objs[o], unread)
      <4>3. objs' = [objs EXCEPT ![o] = r]
        BY <4>1
      <4>4. r \in Object
        BY <4>2, ReloadObject DEF Types
      <4> HIDE DEF r
      <4> QED BY <4>a, <4>2, <4>3, <4>4, OneChanged
    <3> QED BY <3>1, <3>2
  <2>4. Types'
    BY <2>1, <2>2, <2>3, Zenon DEF Types
  <2>5. Lives' /\ Refers' /\ Chosen'
    BY <1>b, <1>c, <2>1, <2>3, KeepsRefs DEF Chosen
  <2> QED BY <2>4, <2>5
<1>16. CASE EventDestroy \/ EventState
  <2>1. /\ queue # <<>> /\ queue' = Tail(queue)
        /\ UNCHANGED <<store, enabled, twins, rows, sel, combo, toggled, choice, open, editing,
                       edits, admins>>
        /\ manual' \in BOOLEAN
    BY <1>16 DEF EventDestroy, EventState, Take, EventKeeps, SelectionIsManual, Types
  <2>2. Tail(queue) \in Seq(Event)
    BY <2>1, TailFacts DEF Types
  <2>3. /\ objs' = objs \/ objs' = Held(objs)
        /\ listed' \subseteq listed
        /\ active' \in {active, None} \cup listed'
    <3>1. CASE EventDestroy
      BY <3>1 DEF EventDestroy
    <3>2. CASE EventState
      BY <3>2 DEF EventState, Subject, Named
    <3> QED BY <1>16, <3>1, <3>2
  <2>4. ToSet(rows') = RowSet
    BY <2>1 DEF RowSet
  <2>5. \A o \in ToSet(rows') \cup listed' \cup {active', toggled', editing'} :
           o # None => o \in Objs /\ objs[o] # None
    BY <2>1, <2>3, <2>4, RowFacts, RefFacts DEF Lives
  <2>6. objs' \in [Objs -> Object \cup {None}] /\ Lives'
    <3>1. CASE objs' = objs
      <4>1. Lives'
        BY <2>1, <2>3, <2>5, <3>1 DEF Lives, RowSet
      <4> QED BY <3>1, <4>1 DEF Types
    <3>2. CASE objs' = Held(objs)
      BY <1>b, <2>1, <2>4, <2>5, <3>2, HeldFacts DEF Types
    <3> QED BY <2>3, <3>1, <3>2
  <2>7. listed' \in SUBSET Objs /\ active' \in Objs \cup {None}
    BY <2>3 DEF Types
  <2>8. Types'
    BY <2>1, <2>2, <2>6, <2>7, Zenon DEF Types
  <2> QED BY <2>1, <2>6, <2>8 DEF Refers, Chosen, RowSet
<1>17. CASE Configure \/ Online
  <2>1. /\ admins < MaxAdmin /\ admins' = admins + 1
        /\ UNCHANGED <<enabled, objs, listed, active, twins, rows, sel, combo, toggled, manual,
                       choice, open, editing,
                       edits>>
    BY <1>17 DEF Configure, Online, daemon, choosing
  <2>2. store' \in [Names -> Content \cup {Absent}] /\ queue' \in Seq(Event)
    <3>1. CASE Configure
      <4>1. PICK n \in Names, c \in Samples : store' = [store EXCEPT ![n] = c] /\ queue' = Append(queue, Saved(n))
        BY <3>1 DEF Configure
      <4>2. Saved(n) \in Event /\ c \in Content
        BY SavedEvent, StoresAssumption
      <4> QED BY <4>1, <4>2, QueueTypes DEF Types
    <3>2. CASE Online
      <4>1. PICK n \in Names : queue' = Append(queue, [act |-> "STATE", name |-> n])
        BY <3>2 DEF Online
      <4>2. [act |-> "STATE", name |-> n] \in Event
        BY DEF Event
      <4>3. store' = store
        BY <3>2 DEF Online
      <4> QED BY <4>1, <4>2, <4>3, QueueTypes DEF Types
    <3> QED BY <1>17, <3>1, <3>2
  <2>3. Types'
    BY <1>a, <2>1, <2>2, Zenon DEF Types
  <2>4. Lives' /\ Refers' /\ Chosen'
    BY <1>b, <1>c, <2>1, KeepsRefs DEF Chosen
  <2> QED BY <2>3, <2>4
<1>18. CASE UNCHANGED vars
  <2>1. UNCHANGED <<store, enabled, queue, objs, listed, active, twins, rows, sel, combo, toggled,
                    manual, open, editing,
                    choice, edits, admins>>
    BY <1>18 DEF vars
  <2>2. Types'
    BY <2>1, Zenon DEF Types
  <2>3. Lives' /\ Refers' /\ Chosen'
    BY <1>b, <1>c, <2>1, KeepsRefs DEF Chosen
  <2> QED BY <2>2, <2>3
<1> QED
  BY <1>1, <1>2, <1>3, <1>4, <1>5, <1>6, <1>7, <1>8, <1>9, <1>10, <1>11, <1>12, <1>13, <1>14,
     <1>15, <1>16, <1>17,
     <1>18 DEF Next

\* Every reference the dialog and the daemon object keep is to an object that
\* lives; the location to activate is one the user clicked in the open dialog.
LEMMA Safe == Spec => []SafeInv
BY InitSafe, StepSafe, PTL DEF Spec

\* A location is only enabled because the user clicked it since the dialog was
\* opened (apply(), which uses toggled_env and then forgets it).
THEOREM ChoiceEnabled == Spec => EnablesTheChoice
<1>1. ASSUME SafeInv, [Next]_vars, enabled' # enabled, enabled' # None
      PROVE  choice # None /\ objs[choice].name = enabled'
  <2>1. CASE Ok
    <3>1. PICK i \in 1 .. (Len(rows) + 1) :
             \E order \in Ordered(Committed(i)) : Activated(CommitEvents(order))
      BY <2>1 DEF Ok
    <3>2. manual /\ toggled # None /\ enabled' = objs[toggled].name
      BY <1>1, <3>1 DEF Activated
    <3> QED BY <1>1, <3>2 DEF SafeInv, Chosen
  <2>2. CASE RemoveLocation
    BY <1>1, <2>2 DEF RemoveLocation, nwamd
  <2>3. CASE UNCHANGED vars
    BY <1>1, <2>3 DEF vars
  <2>4. CASE OpenDialog \/ AddLocation \/ Duplicate \/ Rename \/ (\E o \in Objs : SelectRow(o))
             \/ Toggle \/ ChooseActivation \/ Rules
    BY <1>1, <2>4 DEF OpenDialog, AddLocation, Duplicate, Rename, SelectRow, Toggle,
       ChooseActivation, Rules, AddRow,
                      nwamd
  <2>5. CASE EditProperties \/ ChangeProperties \/ ApplyProperties \/ CancelProperties \/ Cancel
             \/ Configure \/ Online
    BY <1>1, <2>5 DEF EditProperties, ChangeProperties, ApplyProperties, CancelProperties, Cancel,
       Configure, Online,
                      nwamd
  <2>6. CASE EventAdd \/ EventRefresh \/ EventDestroy \/ EventState
    BY <1>1, <2>6 DEF EventAdd, EventRefresh, EventDestroy, EventState, EventKeeps
  <2> QED BY <1>1, <2>1, <2>2, <2>3, <2>4, <2>5, <2>6 DEF Next
<1>2. SafeInv /\ [Next]_vars =>
         (enabled' # enabled /\ enabled' # None => choice # None /\ objs[choice].name = enabled')
  BY <1>1
<1>3. SafeInv /\ [Next]_vars =>
         [enabled' # enabled /\ enabled' # None => choice # None /\ objs[choice].name = enabled']_vars
  BY <1>2
<1> QED BY <1>3, Safe, PTL DEF Spec, EnablesTheChoice

-----------------------------------------------------------------------------
(* The promises of EditStore.                                                  *)

LEMMA PromiseInit == Init => Promise!Init
<1> SUFFICES ASSUME Init PROVE Promise!Init
  OBVIOUS
<1>1. \A o \in Objs : objs[o] # None => objs[o].mod = FALSE
  BY DEF Init
<1>2. open = FALSE
  BY DEF Init
<1> QED BY <1>1, <1>2 DEF Promise!Init

\* The objects os as EditStore sees them, and that those of S are what was
\* written between the stores s and t.
DraftsOf(os) == [o \in Objs |-> IF os[o] = None THEN None ELSE [name |-> os[o].name, text |-> os[o].h]]
Writes(S, dr, s, t) ==
    /\ DOMAIN t = DOMAIN s
    /\ \A d \in S : dr[d] # None
    /\ \A n \in DOMAIN s :
          LET of == {d \in S : dr[d].name = n}
          IN  IF of = {} THEN t[n] = s[n]
              ELSE \E d \in of : t[n] = dr[d].text /\ dr[d].text # NoHandle

\* What Cancel of the dialog does to the rows.
LEMMA CancelReads ==
    ASSUME Cancel
    PROVE  /\ \A o \in RowSet : o \in Objs => Reread(objs[o], objs'[o])
           /\ \A o \in Objs : o \notin RowSet => objs'[o] = objs[o]
<1>1. PICK unread \in SUBSET RowSet :
         objs' = [o \in Objs |-> IF o \in RowSet THEN Reload(objs[o], o \in unread) ELSE objs[o]]
  BY Zenon DEF Cancel
<1>2. ASSUME NEW o \in Objs, o \in RowSet PROVE Reread(objs[o], objs'[o])
  <2> DEFINE u == o \in unread
  <2>1. u \in BOOLEAN
    OBVIOUS
  <2>2. objs'[o] = Reload(objs[o], u)
    BY <1>1, <1>2
  <2> HIDE DEF u
  <2> QED BY <2>1, <2>2 DEF Reread
<1> QED BY <1>1, <1>2

LEMMA PromiseForms ==
    /\ Promise!SaveSome <=>
          open /\ open' /\ \E S \in SUBSET RowSet : Writes(S, DraftsOf(objs'), store, store')
    /\ Promise!SaveAll <=>
          /\ open /\ ~open' /\ \E S \in SUBSET RowSet : Writes(S, DraftsOf(objs'), store, store')
          /\ {o \in Objs : objs'[o] # None /\ objs'[o].mod /\ objs'[o].h # NoHandle} \cap RowSet' = {}
<1>1. Promise!SaveSome <=>
         open /\ open' /\ \E S \in SUBSET RowSet : Writes(S, DraftsOf(objs'), store, store')
  BY Zenon DEF Promise!SaveSome, Promise!Written, Writes, DraftsOf
<1>2. Promise!SaveAll <=>
         /\ open /\ ~open' /\ \E S \in SUBSET RowSet : Writes(S, DraftsOf(objs'), store, store')
         /\ {o \in Objs : objs'[o] # None /\ objs'[o].mod /\ objs'[o].h # NoHandle} \cap RowSet' = {}
  BY Zenon DEF Promise!SaveAll, Promise!Written, Writes, DraftsOf
<1> QED BY <1>1, <1>2

LEMMA WrittenBy ==
    ASSUME NEW S \in SUBSET Objs, DOMAIN store = Names, DOMAIN store' = Names,
           \A d \in S : objs'[d] \in Object /\ objs'[d].h # NoHandle,
           \A n \in Names : \/ store'[n] = store[n] /\ \A d \in S : objs'[d].name # n
                            \/ \E d \in S : objs'[d].name = n /\ store'[n] = objs'[d].h
    PROVE  Writes(S, DraftsOf(objs'), store, store')
<1> DEFINE dr == DraftsOf(objs')
<1>1. ASSUME NEW d \in S
      PROVE  /\ dr[d] # None /\ dr[d].name = objs'[d].name /\ dr[d].text = objs'[d].h
             /\ objs'[d].h # NoHandle
  <2>1. dr[d] = [name |-> objs'[d].name, text |-> objs'[d].h]
    BY ObjFields DEF DraftsOf
  <2> HIDE DEF dr
  <2>2. [name |-> objs'[d].name, text |-> objs'[d].h] \in [name : Names, text : Content \cup {NoHandle}]
    BY ObjFields
  <2>3. dr[d] # None
    BY <2>1, <2>2, ObjsAssumption
  <2> QED BY <2>1, <2>3
<1> HIDE DEF dr
<1>2. ASSUME NEW n \in DOMAIN store
      PROVE  LET of == {d \in S : dr[d].name = n}
             IN  IF of = {} THEN store'[n] = store[n]
                 ELSE \E d \in of : store'[n] = dr[d].text /\ dr[d].text # NoHandle
  BY <1>1
<1>3. Writes(S, dr, store, store')
  BY <1>1, <1>2 DEF Writes
<1> QED BY <1>3 DEF dr

LEMMA PromiseStep == SafeInv /\ [Next]_vars => [Promise!Next]_(Promise!vars)
<1> SUFFICES ASSUME SafeInv, [Next]_vars PROVE Promise!Next \/ UNCHANGED Promise!vars
  OBVIOUS
<1>a. SafeInv'
  BY StepSafe
<1>b. Types /\ Lives /\ Refers /\ Types' /\ DOMAIN store = Names /\ DOMAIN store' = Names
  BY <1>a DEF SafeInv, Types
<1>1. CASE OpenDialog
  BY <1>1 DEF OpenDialog, nwamd, Promise!Next, Promise!Open
<1>2. CASE UNCHANGED <<store, open>>
  BY <1>2 DEF Promise!Next, Promise!Edit
<1>3. CASE RemoveLocation
  <2>1. MayEdit /\ sel # None /\ open' = open
    BY <1>3 DEF RemoveLocation
  <2>2. open
    BY <2>1 DEF MayEdit
  <2>3. store' = store \/ store' = [store EXCEPT ![objs[sel].name] = Absent]
    BY <1>3 DEF RemoveLocation, nwamd
  <2>4. objs[sel].name \in Names
    BY <1>b, <2>1, RefFacts, ObjFields
  <2> QED BY <1>b, <1>2, <2>1, <2>2, <2>3, <2>4 DEF Promise!Next, Promise!Delete
<1>4. CASE ApplyProperties /\ store' # store
  <2> DEFINE n == objs[editing].name
             c == objs[editing].h
             r == Clean(objs[editing])
  <2>1. /\ editing # None /\ store' = [store EXCEPT ![n] = c] /\ objs' = [objs EXCEPT ![editing] = r]
        /\ rows' = rows /\ open' = open /\ c # NoHandle
    BY <1>4 DEF ApplyProperties, Clean
  <2>2. open /\ editing \in RowSet /\ editing \in Objs /\ objs[editing] \in Object
    BY <1>b, <2>1, RowFacts DEF Refers
  <2>3. r \in Object /\ r.name = n /\ r.h = c
    BY <2>2, CleanObject
  <2>4. n \in Names
    BY <2>2, ObjFields
  <2> HIDE DEF r, n, c
  <2>5. objs'[editing] = r /\ r # None
    BY <1>b, <2>1, <2>2, <2>3, ObjFields, OneChanged
  <2>6. Writes({editing}, DraftsOf(objs'), store, store')
    <3>1. store'[n] = c /\ \A m \in Names \ {n} : store'[m] = store[m]
      BY <1>b, <2>1, <2>4
    <3>2. {editing} \in SUBSET Objs
      BY <2>2
    <3>3. \A d \in {editing} : objs'[d] \in Object /\ objs'[d].h # NoHandle
      BY <2>1, <2>3, <2>5
    <3>4. \A m \in Names : \/ store'[m] = store[m] /\ \A d \in {editing} : objs'[d].name # m
                           \/ \E d \in {editing} : objs'[d].name = m /\ store'[m] = objs'[d].h
      BY <2>3, <2>5, <3>1
    <3> QED BY <1>b, <3>2, <3>3, <3>4, WrittenBy
  <2>7. {editing} \in SUBSET RowSet
    BY <2>2
  <2>8. Promise!SaveSome
    <3>1. open /\ open'
      BY <2>1, <2>2
    <3> QED BY <2>6, <2>7, <3>1, PromiseForms, Zenon
  <2> QED BY <2>8 DEF Promise!Next
<1>5. CASE Ok
  <2>1. PICK i \in 1 .. (Len(rows) + 1) : CommitRows(i) /\ Responds(i > Len(rows))
    BY <1>5 DEF Ok
  <2> DEFINE S == {rows[j] : j \in Committed(i)}
  <2>2. S \in SUBSET RowSet
    BY <1>b, <2>1, CommittedFacts
  <2>3. ASSUME NEW d \in S
        PROVE  d \in Objs /\ objs'[d] \in Object /\ objs'[d].name = objs[d].name /\ objs'[d].h = objs[d].h
               /\ objs'[d].mod = FALSE /\ objs'[d].h # NoHandle
    <3>1. PICK j \in Committed(i) : rows[j] = d
      BY <2>3
    <3>2. d \in Objs /\ objs[d] \in Object
      BY <1>b, <2>2, RowFacts
    <3>3. objs'[d] = Clean(objs[d])
      BY <1>b, <2>1, <3>1, <3>2, CommitFacts
    <3>4. objs[d].h # NoHandle
      BY <3>1 DEF Committed
    <3> QED BY <3>2, <3>3, <3>4, CleanObject
  <2>4. ASSUME NEW n \in Names
        PROVE  \/ store'[n] = store[n] /\ \A d \in S : objs'[d].name # n
               \/ \E d \in S : objs'[d].name = n /\ store'[n] = objs'[d].h
    <3>1. CASE store'[n] = store[n] /\ \A j \in Committed(i) : objs[rows[j]].name # n
      BY <2>3, <3>1
    <3>2. CASE \E j \in Committed(i) : objs[rows[j]].name = n /\ store'[n] = objs[rows[j]].h
      BY <2>3, <3>2
    <3>3. \/ store'[n] = store[n] /\ \A j \in Committed(i) : objs[rows[j]].name # n
          \/ \E j \in Committed(i) : objs[rows[j]].name = n /\ store'[n] = objs[rows[j]].h
      BY <1>b, <2>1, CommitFacts
    <3> QED BY <3>1, <3>2, <3>3
  <2>5. Writes(S, DraftsOf(objs'), store, store')
    <3> HIDE DEF S
    <3>1. S \in SUBSET Objs /\ \A d \in S : objs'[d] \in Object /\ objs'[d].h # NoHandle
      BY <2>3
    <3> QED BY <1>b, <2>4, <3>1, WrittenBy
  <2>6. rows' = rows /\ RowSet' = RowSet /\ open
    BY <1>5, <2>1 DEF Ok, Responds, RowSet
  <2>7. CASE open'
    <3>1. Promise!SaveSome
      <4> HIDE DEF S
      <4> QED BY <2>2, <2>5, <2>6, <2>7, PromiseForms, Zenon
    <3> QED BY <3>1 DEF Promise!Next
  <2>8. CASE ~open'
    <3>1. i = Len(rows) + 1
      <4>1. open' = ~(i > Len(rows))
        BY <2>1 DEF Responds
      <4>2. i > Len(rows)
        BY <2>8, <4>1
      <4> QED BY <1>b, <4>2, RowFacts
    <3>2. ASSUME NEW o \in RowSet PROVE ~(objs'[o].mod /\ objs'[o].h # NoHandle)
      <4>1. CASE o \in S
        BY <2>3, <4>1
      <4>2. CASE o \notin S
        <5>1. PICK j \in 1 .. Len(rows) : rows[j] = o
          BY <1>b, RowFacts
        <5>2. j \notin Committed(i) /\ j \in 1 .. (i - 1)
          BY <1>b, <3>1, <4>2, <5>1, RowFacts
        <5>3. ~(objs[o].mod /\ objs[o].h # NoHandle)
          BY <5>1, <5>2 DEF Committed
        <5>4. objs'[o] = objs[o]
          <6>1. ~\E k \in Committed(i) : rows[k] = o
            BY <4>2
          <6>2. o \in Objs
            BY <1>b, RowFacts
          <6> QED BY <1>b, <2>1, <6>1, <6>2, CommitFacts
        <5> QED BY <5>3, <5>4
      <4> QED BY <4>1, <4>2
    <3>3. {o \in Objs : objs'[o] # None /\ objs'[o].mod /\ objs'[o].h # NoHandle} \cap RowSet = {}
      BY <3>2
    <3>4. Promise!SaveAll
      <4> HIDE DEF S
      <4>1. {o \in Objs : objs'[o] # None /\ objs'[o].mod /\ objs'[o].h # NoHandle} \cap RowSet' = {}
        BY <2>6, <3>3
      <4> QED BY <2>2, <2>5, <2>6, <2>8, <4>1, PromiseForms, Zenon
    <3> QED BY <3>4 DEF Promise!Next
  <2> QED BY <2>7, <2>8
<1>6. CASE Cancel
  <2>1. /\ open /\ ~open' /\ store' = store /\ rows' = rows
        /\ \A o \in RowSet : o \in Objs => Reread(objs[o], objs'[o])
    BY <1>6, CancelReads DEF Cancel, Responds, nwamd
  <2>2. RowSet' = RowSet
    BY <2>1 DEF RowSet
  <2>3. ASSUME NEW d \in RowSet
        PROVE  /\ d \in Objs /\ objs'[d] # None
               /\ store[objs'[d].name] # Absent => objs'[d].h \in {store[objs'[d].name], NoHandle}
    <3>1. d \in Objs /\ objs[d] \in Object
      BY <1>b, RowFacts
    <3>2. store \in [Names -> Content \cup {Absent}]
      BY <1>b DEF Types
    <3>3. /\ objs'[d] \in Object /\ objs'[d].name = objs[d].name
          /\ store[objs[d].name] # Absent => objs'[d].h \in {store[objs[d].name], NoHandle}
      BY <2>1, <3>1, <3>2, RereadObject
    <3> QED BY <3>1, <3>3, ObjFields
  <2>4. Promise!Revert
    BY <2>1, <2>2, <2>3 DEF Promise!Revert
  <2> QED BY <2>4 DEF Promise!Next
<1>7. CASE Configure
  <2>1. PICK n \in Names, c \in Samples : store' = [store EXCEPT ![n] = c]
    BY <1>7 DEF Configure
  <2>2. objs' = objs /\ rows' = rows /\ open' = open
    BY <1>7 DEF Configure
  <2>3. RowSet' = RowSet
    BY <2>2 DEF RowSet
  <2>4. \A m \in Names \ {n} : store'[m] = store[m]
    BY <1>b, <2>1
  <2>5. Promise!Outside
    BY <1>b, <2>2, <2>3, <2>4 DEF Promise!Outside
  <2> QED BY <2>5 DEF Promise!Next
<1>8. CASE AddLocation \/ Duplicate \/ Rename \/ (\E o \in Objs : SelectRow(o)) \/ Toggle \/ ChooseActivation \/ Rules
           \/ EditProperties \/ ChangeProperties \/ CancelProperties \/ Online
  <2>1. UNCHANGED <<store, open>>
    BY <1>8 DEF AddLocation, Duplicate, Rename, SelectRow, Toggle, ChooseActivation, Rules,
       AddRow, EditProperties,
                ChangeProperties, CancelProperties, Online, nwamd
  <2> QED BY <1>2, <2>1
<1>9. CASE EventAdd \/ EventRefresh \/ EventDestroy \/ EventState \/ (ApplyProperties /\ store' = store)
           \/ UNCHANGED vars
  <2>1. UNCHANGED <<store, open>>
    BY <1>9 DEF EventAdd, EventRefresh, EventDestroy, EventState, EventKeeps, ApplyProperties, vars
  <2> QED BY <1>2, <2>1
<1> QED BY <1>1, <1>3, <1>4, <1>5, <1>6, <1>7, <1>8, <1>9 DEF Next

\* The dialog is an EditStore: nothing stored changes but by a commit of what
\* the user saw, OK leaves no row unsaved, and Cancel gives back what is stored, or
\* a location without a handle where it cannot be read, which is never written
\* (nwam_location_dialog.c: apply(), cancel(), remove_object(); nwamui_env.c: the
\* reads that fail).
THEOREM KeepsPromise == Spec => PromiseKept
BY Safe, PromiseInit, PromiseStep, PTL DEF Spec, PromiseKept, Promise!Spec

-----------------------------------------------------------------------------
(* That the listed locations come to have what is stored needs to know of      *)
(* every event that is pending what it is good for.  While the entry of a      *)
(* listed location is gone, an event will take the location off the list;      *)
(* while it differs from its entry, an event will have it read again or taken  *)
(* off; and an event that tells of a new entry comes, if that entry is gone,   *)
(* before one that tells so.                                                   *)

\* But for twins, a name stands for one row, and for one listed location.
Unique ==
    /\ \A o, p \in RowSet : objs[o].name = objs[p].name /\ objs[o].name \notin twins => o = p
    /\ \A o, p \in listed : objs[o].name = objs[p].name /\ objs[o].name \notin twins => o = p

Told(act, n) == [act |-> act, name |-> n]

\* After the event of a new entry that is gone comes that of its end.
EndsTold == \A n \in Names : store[n] = Absent => Covered(queue, Told("ADD", n), Told("DESTROY", n))

\* With the store s and the events q pending, the location r is in memory only,
\* or has no handle, or it has what is stored once they are handled, if it is
\* listed still.
Sound(r, s, q) ==
    \/ r.fresh \/ r.h = NoHandle
    \/ /\ s[r.name] = Absent /\ ModeOf(r) # "system" => Has(q, Told("DESTROY", r.name))
       /\ ~r.mod /\ ModeOf(r) # "system" /\ s[r.name] # Absent =>
             \/ r.h = s[r.name]
             \/ Has(q, Told("REFRESH", r.name))
             \/ Has(q, Told("DESTROY", r.name))

AllSound == \A o \in listed : objs[o].name \in twins \/ Sound(objs[o], store, queue)

\* The dialog does not let the mode of a location of the system be changed, if
\* its entry is gone: it was selected as one, or it would have been read again.
ModeFixed ==
    sel # None => (ModeOf(objs[sel]) = "system" /\ store[objs[sel].name] = Absent => combo = "system")

ConvInv == Unique /\ EndsTold /\ AllSound /\ ModeFixed

Stored == [Names -> Content \cup {Absent}]

LEMMA ToldEvent ==
    ASSUME NEW n \in Names, NEW a \in {"ADD", "REFRESH", "DESTROY", "STATE"}
    PROVE  Told(a, n) \in Event
BY DEF Told, Event

LEMMA ToldSaved ==
    ASSUME NEW n \in Names
    PROVE  Saved(n) = IF store[n] = Absent THEN Told("ADD", n) ELSE Told("REFRESH", n)
BY DEF Saved, Told

\* An entry is written or removed, and nwamd tells of it.
LEMMA SoundPosted ==
    ASSUME NEW r \in Object, NEW s, NEW t, NEW q, NEW p,
           Sound(r, s, q),
           \A a \in {"REFRESH", "DESTROY"} : Has(q, Told(a, r.name)) => Has(p, Told(a, r.name)),
           \/ t[r.name] = s[r.name]
           \/ t[r.name] # Absent /\ (s[r.name] = Absent \/ Has(p, Told("REFRESH", r.name)))
           \/ t[r.name] = Absent /\ Has(p, Told("DESTROY", r.name))
    PROVE  Sound(r, t, p)
BY DEF Sound

LEMMA SoundReload ==
    ASSUME NEW r \in Object, NEW c, Reread(r, c), NEW q, store \in Stored, Sound(r, store, q)
    PROVE  Sound(c, store, q)
<1>1. /\ c.name = r.name /\ c.mod = FALSE
      /\ \/ c.h = NoHandle
         \/ store[r.name] # Absent /\ c.h = store[r.name]
         \/ store[r.name] = Absent /\ c.h = r.h
      /\ store[r.name] = Absent => c.fresh = r.fresh
  BY RereadObject DEF Stored
<1> QED BY <1>1 DEF Sound, ModeOf

\* Reading it again does not make it a location of the system, if its entry is gone.
LEMMA RereadMode ==
    ASSUME NEW r \in Object, NEW c, Reread(r, c), store \in Stored, store[r.name] = Absent,
           ModeOf(c) = "system"
    PROVE  ModeOf(r) = "system"
<1>1. c.h = NoHandle \/ c.h = r.h
  BY RereadObject DEF Stored
<1> QED BY <1>1 DEF ModeOf

\* It is read again, or has modifications, and that was all that was pending.
LEMMA SoundRefreshed ==
    ASSUME NEW r \in Object, NEW q \in Seq(Event), store \in Stored, Sound(r, store, q),
           q # <<>>, Head(q) # Told("DESTROY", r.name)
    PROVE  /\ r.mod => Sound(r, store, Tail(q))
           /\ \A c : Reread(r, c) => Sound(c, store, Tail(q))
<1>1. Has(q, Told("DESTROY", r.name)) => Has(Tail(q), Told("DESTROY", r.name))
  BY HasTail
<1>2. r.mod => Sound(r, store, Tail(q))
  BY <1>1 DEF Sound
<1>3. ASSUME NEW c, Reread(r, c) PROVE Sound(c, store, Tail(q))
  <2>1. /\ c.name = r.name /\ c.mod = FALSE
        /\ \/ c.h = NoHandle
           \/ store[r.name] # Absent /\ c.h = store[r.name]
           \/ store[r.name] = Absent /\ c.h = r.h
        /\ store[r.name] = Absent => c.fresh = r.fresh
    BY <1>3, RereadObject DEF Stored
  <2> QED BY <1>1, <2>1 DEF Sound, ModeOf
<1> QED BY <1>2, <1>3

\* An event about something else is handled.
LEMMA SoundTaken ==
    ASSUME NEW r \in Object, NEW s, NEW q \in Seq(Event), q # <<>>, Sound(r, s, q),
           Head(q) # Told("REFRESH", r.name), Head(q) # Told("DESTROY", r.name)
    PROVE  Sound(r, s, Tail(q))
<1>1. \A a \in {"REFRESH", "DESTROY"} : Has(q, Told(a, r.name)) => Has(Tail(q), Told(a, r.name))
  BY HasTail
<1> QED BY <1>1 DEF Sound

\* The user changes it.
LEMMA SoundChanged ==
    ASSUME NEW r \in Object, NEW c \in Object, NEW s, NEW q, Sound(r, s, q),
           c.name = r.name, c.fresh = r.fresh, c.mod, r.h = NoHandle => c.h = NoHandle,
           ModeOf(r) = "system" => ModeOf(c) = "system" \/ s[r.name] # Absent
    PROVE  Sound(c, s, q)
BY DEF Sound

\* It is committed.
LEMMA SoundClean ==
    ASSUME NEW r \in Object, NEW s, NEW q, r.h # NoHandle, s[r.name] = r.h
    PROVE  Sound(Clean(r), s, q)
<1>1. Clean(r).name = r.name /\ Clean(r).h = r.h
  BY CleanObject
<1>2. s[r.name] # Absent
  BY ObjFields, ObjsAssumption
<1> QED BY <1>1, <1>2 DEF Sound

-----------------------------------------------------------------------------
(* What most steps leave true.                                                 *)

\* No row and no listed location is added or renamed.
LEMMA UniqueKept ==
    ASSUME Unique, RowSet' \subseteq RowSet, listed' \subseteq listed, twins' = twins,
           \A o \in RowSet' \cup listed' : objs'[o].name = objs[o].name
    PROVE  Unique'
BY DEF Unique

\* The selected location is none, or its mode is not made that of the system,
\* nor is its entry removed.
LEMMA ModeKept ==
    ASSUME ModeFixed, combo' = combo, sel' = sel,
           sel # None => /\ objs'[sel].name = objs[sel].name
                         /\ ModeOf(objs'[sel]) = "system" /\ store'[objs[sel].name] = Absent
                                => ModeOf(objs[sel]) = "system" /\ store[objs[sel].name] = Absent
    PROVE  ModeFixed'
BY DEF ModeFixed, ModeOf

\* The oldest event is handled.
LEMMA EndsTaken ==
    ASSUME EndsTold, queue \in Seq(Event), queue # <<>>, queue' = Tail(queue), store' = store
    PROVE  EndsTold'
BY CoveredTail DEF EndsTold

\* More events are posted, none of them of a new entry that is gone.
LEMMA EndsPosted ==
    ASSUME EndsTold, queue \in Seq(Event), NEW t \in Seq(Event), queue' = queue \o t,
           \A n \in Names : store'[n] = Absent => store[n] = Absent /\ ~Has(t, Told("ADD", n))
    PROVE  EndsTold'
BY CoveredConcat DEF EndsTold

LEMMA EndsKept ==
    ASSUME EndsTold, UNCHANGED <<store, queue>>
    PROVE  EndsTold'
BY DEF EndsTold

\* The listed locations stay sound or become so.
LEMMA SoundKept ==
    ASSUME AllSound, listed' \subseteq listed, UNCHANGED <<store, queue, twins>>,
           \A o \in listed' : \/ objs'[o] = objs[o]
                              \/ /\ objs'[o].name = objs[o].name
                                 /\ Sound(objs[o], store, queue) => Sound(objs'[o], store, queue)
    PROVE  AllSound'
BY DEF AllSound

LEMMA InitConv == Init => ConvInv
<1> SUFFICES ASSUME Init PROVE ConvInv
  OBVIOUS
<1> DEFINE of == CHOOSE f \in [Names -> Objs] : \A m, n \in Names : m # n => f[m] # f[n]
           stored == {n \in Names : store[n] # Absent}
           entry(o) == CHOOSE n \in stored : of[n] = o
           new(n) == [name |-> n, h |-> store[n], mod |-> FALSE, fresh |-> FALSE, en |-> FALSE]
<1>1. of \in [Names -> Objs] /\ \A m, n \in Names : m # n => of[m] # of[n]
  <2>1. \E f \in [Names -> Objs] : \A m, n \in Names : m # n => f[m] # f[n]
    BY ObjsAssumption
  <2> QED BY <2>1
<1>2. /\ listed = {of[n] : n \in stored}
      /\ objs = [o \in Objs |-> IF \E n \in stored : of[n] = o THEN new(entry(o)) ELSE None]
      /\ rows = <<>> /\ sel = None /\ queue = <<>>
  BY DEF Init
<1> HIDE DEF of
<1>3. ASSUME NEW n \in stored PROVE of[n] \in Objs /\ entry(of[n]) = n
  <2>1. entry(of[n]) \in stored /\ of[entry(of[n])] = of[n]
    OBVIOUS
  <2> HIDE DEF entry
  <2> QED BY <1>1, <2>1
<1> HIDE DEF entry, new
<1>4. ASSUME NEW n \in stored PROVE objs[of[n]] = new(n)
  BY <1>2, <1>3
<1>5. ASSUME NEW n \in stored PROVE objs[of[n]].name = n /\ objs[of[n]].h = store[n] /\ store[n] # Absent
  <2>1. objs[of[n]] = new(n)
    BY <1>4
  <2>2. new(n).name = n /\ new(n).h = store[n]
    BY DEF new
  <2> QED BY <2>1, <2>2
<1>6. RowSet = {}
  BY <1>2 DEF RowSet, ToSet
<1>7. Unique
  <2>1. ASSUME NEW o \in listed, NEW p \in listed, objs[o].name = objs[p].name PROVE o = p
    <3>1. PICK m \in stored : o = of[m]
      BY <1>2
    <3>2. PICK n \in stored : p = of[n]
      BY <1>2
    <3> QED BY <1>5, <2>1, <3>1, <3>2
  <2> QED BY <1>6, <2>1 DEF Unique
<1>8. EndsTold
  BY <1>2 DEF EndsTold, Covered
<1>9. AllSound
  BY <1>2, <1>5 DEF AllSound, Sound
<1>10. ModeFixed
  BY <1>2 DEF ModeFixed
<1> QED BY <1>7, <1>8, <1>9, <1>10 DEF ConvInv

LEMMA StepConv == SafeInv /\ ConvInv /\ [Next]_vars => ConvInv'
<1> SUFFICES ASSUME SafeInv, ConvInv, [Next]_vars PROVE ConvInv'
  OBVIOUS
<1>a. Types /\ Lives /\ Refers /\ Unique /\ EndsTold /\ AllSound /\ ModeFixed
  BY DEF SafeInv, ConvInv
<1>b. store \in Stored /\ queue \in Seq(Event)
  BY <1>a DEF Types, Stored
<1>c. Types' /\ Lives'
  BY StepSafe DEF SafeInv
<1>d. sel # None => sel \in RowSet /\ sel \in Objs /\ objs[sel] \in Object /\ objs[sel].name \in Names
  BY <1>a, RowFacts, ObjFields DEF Refers
<1>e. editing # None => editing \in RowSet /\ editing \in Objs /\ objs[editing] \in Object /\ objs[editing].name \in Names
  BY <1>a, RowFacts, ObjFields DEF Refers
<1>f. \A o \in RowSet \cup listed : o \in Objs /\ objs[o] \in Object /\ objs[o].name \in Names /\ o # None
  BY <1>a, RowFacts, ObjFields, ObjsAssumption
\* The content of one object changes, and neither the lists nor the store.
<1>g. ASSUME NEW o \in RowSet \cup listed, NEW r \in Object, objs' = [objs EXCEPT ![o] = r], r.name = objs[o].name,
             Sound(objs[o], store, queue) => Sound(r, store, queue),
             UNCHANGED <<store, queue, listed, twins, rows>>
      PROVE  Unique' /\ EndsTold' /\ AllSound'
  <2>1. o \in Objs
    BY <1>f
  <2>2. objs'[o] = r /\ \A p \in Objs : p # o => objs'[p] = objs[p]
    BY <1>a, <1>g, <2>1, OneChanged
  <2>3. RowSet' = RowSet
    BY <1>g DEF RowSet
  <2>4. \A p \in RowSet \cup listed : objs'[p].name = objs[p].name
    BY <1>f, <1>g, <2>2
  <2>5. Unique'
    BY <1>a, <1>g, <2>3, <2>4, UniqueKept
  <2>6. \A p \in listed' : \/ objs'[p] = objs[p]
                           \/ /\ objs'[p].name = objs[p].name
                              /\ Sound(objs[p], store, queue) => Sound(objs'[p], store, queue)
    BY <1>f, <1>g, <2>2
  <2>7. AllSound'
    BY <1>a, <1>g, <2>6, SoundKept
  <2> QED BY <1>a, <1>g, <2>5, <2>7, EndsKept
<1>1. CASE OpenDialog
  <2>1. /\ rows' = SetToSeq(listed) /\ sel' = None
        /\ UNCHANGED <<store, queue, listed, twins, active, toggled, editing>>
        /\ objs' = Held(objs)
    BY <1>1 DEF OpenDialog, nwamd, daemon
  <2>2. RowSet' = listed
    BY <1>a, <2>1, ListRows DEF Types, RowSet
  <2>3. \A o \in listed : objs'[o] = objs[o]
    <3>1. \A o \in listed : o \in listed' /\ o \in Objs
      BY <1>f, <2>1
    <3> QED BY <2>1, <3>1 DEF Held
  <2>4. Unique'
    BY <1>a, <2>1, <2>2, <2>3 DEF Unique
  <2>5. AllSound'
    BY <1>a, <2>1, <2>3, SoundKept
  <2>6. ModeFixed'
    BY <2>1 DEF ModeFixed
  <2> QED BY <1>a, <2>1, <2>4, <2>5, <2>6, EndsKept DEF ConvInv
<1>2. CASE AddLocation \/ Duplicate
  <2>1. PICK o \in Free, n \in Names \ RowNames : \E r \in Object : r.name = n /\ AddRow(o, r)
    <3>1. CASE AddLocation
      <4>1. PICK o \in Free, n \in Names \ RowNames, unread \in BOOLEAN :
               \E r \in NewEnv(n, unread) : AddRow(o, r)
        BY <3>1 DEF AddLocation
      <4>2. \A r \in NewEnv(n, unread) : r \in Object /\ r.name = n
        BY <1>b, NewEnvObject DEF Stored
      <4> QED BY <4>1, <4>2
    <3>2. CASE Duplicate
      <4>1. PICK o \in Free, n \in Names \ RowNames :
               AddRow(o, [name |-> n, h |-> objs[sel].h, mod |-> TRUE, fresh |-> TRUE, en |-> FALSE])
        BY <3>2 DEF Duplicate
      <4>2. sel # None
        BY <3>2 DEF Duplicate
      <4>3. [name |-> n, h |-> objs[sel].h, mod |-> TRUE, fresh |-> TRUE, en |-> FALSE] \in Object
        BY <1>d, <4>2, ObjFields DEF Object
      <4> QED BY <4>1, <4>3
    <3> QED BY <1>2, <3>1, <3>2
  <2>2. PICK r \in Object : r.name = n /\ AddRow(o, r)
    BY <2>1
  <2>3. /\ objs' = [objs EXCEPT ![o] = r] /\ rows' = Append(rows, o) /\ sel' = o
        /\ combo' = ComboOf(r) /\ UNCHANGED <<store, queue, listed, twins>>
    BY <2>2 DEF AddRow, nwamd, daemon
  <2>4. o \in Objs /\ o \notin RowSet /\ o \notin listed
    <3>1. o \in Objs /\ objs[o] = None
      BY DEF Free
    <3> QED BY <1>f, <3>1, ObjFields
  <2>5. objs'[o] = r /\ \A p \in Objs : p # o => objs'[p] = objs[p]
    BY <1>a, <2>3, <2>4, OneChanged
  <2>6. RowSet' = RowSet \cup {o}
    BY <1>a, <2>3, <2>4, AppendRows DEF Types, RowSet
  <2>7. \A p \in RowSet \cup listed : objs'[p] = objs[p]
    BY <1>f, <2>4, <2>5
  <2>8. \A p \in RowSet : objs[p].name # n
    BY DEF RowNames
  <2>9. Unique'
    BY <1>a, <2>2, <2>3, <2>5, <2>6, <2>7, <2>8 DEF Unique
  <2>10. AllSound'
    BY <1>a, <2>3, <2>7, SoundKept
  <2>11. ModeFixed'
    BY <2>3, <2>5, ComboType DEF ModeFixed
  <2> QED BY <1>a, <2>3, <2>9, <2>10, <2>11, EndsKept DEF ConvInv
<1>3. CASE RemoveLocation
  <2>1. /\ sel # None /\ ModeOf(objs[sel]) # "system" /\ rows' = Without(rows, sel) /\ sel' = None
        /\ UNCHANGED <<listed, active, twins, editing>>
    BY <1>3 DEF RemoveLocation, daemon
  <2>2. RowSet' \subseteq RowSet
    BY <1>a, <1>d, <2>1, WithoutRows DEF Types, RowSet
  <2>3. ModeFixed'
    BY <2>1 DEF ModeFixed
  <2> DEFINE n == objs[sel].name
             d == [objs[sel] EXCEPT !.h = NoHandle]
  <2>4. CASE objs' = Held(objs) /\ UNCHANGED nwamd
    <3>1. \A o \in RowSet' \cup listed' : objs'[o] = objs[o]
      <4>1. \A o \in RowSet' \cup listed' : o \in Objs /\ o \in ToSet(rows') \cup listed'
        BY <1>f, <2>1, <2>2 DEF RowSet
      <4> QED BY <2>4, <4>1 DEF Held
    <3>2. UNCHANGED <<store, queue>>
      BY <2>4 DEF nwamd
    <3>3. Unique'
      BY <1>a, <2>1, <2>2, <3>1, UniqueKept
    <3>4. AllSound'
      BY <1>a, <2>1, <3>1, <3>2, SoundKept
    <3> QED BY <1>a, <2>3, <3>2, <3>3, <3>4, EndsKept DEF ConvInv
  <2>5. CASE ~(objs' = Held(objs) /\ UNCHANGED nwamd)
    <3>1. /\ store' = [store EXCEPT ![n] = Absent]
          /\ queue' = Append(queue, Told("DESTROY", n))
          /\ objs' = Held([objs EXCEPT ![sel].h = NoHandle])
      BY <1>3, <2>5 DEF RemoveLocation, Told
    <3>2. [objs EXCEPT ![sel].h = NoHandle] = [objs EXCEPT ![sel] = d]
      BY <1>a, <1>d, <2>1 DEF Types
    <3>3. d \in Object /\ d.name = n /\ ModeOf(d) = "manual" /\ d.h = NoHandle /\ n \in Names /\ d.fresh = objs[sel].fresh
      BY <1>d, <2>1 DEF Object, ModeOf
    <3> HIDE DEF d
    <3>4. \A o \in RowSet' \cup listed' : objs'[o] = IF o = sel THEN d ELSE objs[o]
      <4>1. \A o \in RowSet' \cup listed' : o \in Objs /\ o \in ToSet(rows') \cup listed'
        BY <1>f, <2>1, <2>2 DEF RowSet
      <4>2. \A o \in Objs : [objs EXCEPT ![sel] = d][o] = IF o = sel THEN d ELSE objs[o]
        BY <1>a DEF Types
      <4> HIDE DEF n
      <4> QED BY <3>1, <3>2, <4>1, <4>2 DEF Held
    <3>5. \A o \in RowSet' \cup listed' : objs'[o].name = objs[o].name
      BY <3>3, <3>4
    <3>6. Unique'
      BY <1>a, <2>1, <2>2, <3>5, UniqueKept
    <3>7. Told("DESTROY", n) \in Event /\ \A m \in Names : Told("DESTROY", n) # Told("ADD", m)
      BY <3>3, ToldEvent DEF Told
    <3>8. /\ \A e : Has(queue, e) => Has(queue', e)
          /\ Has(queue', Told("DESTROY", n))
      BY <1>b, <3>1, <3>7, HasAppend
    <3>9. store'[n] = Absent /\ \A m \in Names \ {n} : store'[m] = store[m]
      BY <1>b, <3>1, <3>3 DEF Stored
    <3> HIDE DEF n
    <3>10. EndsTold'
      <4> SUFFICES ASSUME NEW m \in Names, store'[m] = Absent
                   PROVE  Covered(queue', Told("ADD", m), Told("DESTROY", m))
        BY DEF EndsTold
      <4>1. CASE m = n
        BY <1>b, <3>1, <3>7, <4>1, CoveredAppend
      <4>2. CASE m # n
        BY <1>a, <1>b, <3>1, <3>7, <3>9, <4>2, CoveredAppendOther DEF EndsTold
      <4> QED BY <4>1, <4>2
    <3>11. ASSUME NEW o \in listed, objs[o].name \notin twins PROVE Sound(objs'[o], store', queue')
      <4>1. objs[o] \in Object /\ Sound(objs[o], store, queue)
        BY <1>a, <1>f, <3>11 DEF AllSound
      <4>2. CASE o = sel
        <5>1. objs'[o] = d
          BY <2>1, <3>4, <4>2
        <5> QED BY <3>3, <3>8, <5>1 DEF Sound
      <4>3. CASE o # sel
        <5>1. objs'[o] = objs[o] /\ objs[o].name \in Names
          BY <1>f, <2>1, <3>4, <4>3
        <5>2. Sound(objs[o], store', queue')
          BY <3>8, <3>9, <4>1, <5>1, SoundPosted
        <5> QED BY <5>1, <5>2
      <4> QED BY <4>2, <4>3
    <3>12. AllSound'
      BY <2>1, <3>5, <3>11 DEF AllSound
    <3> QED BY <2>3, <3>6, <3>10, <3>12 DEF ConvInv
  <2> QED BY <2>4, <2>5
<1>4. CASE Rename
  <2>1. /\ sel # None /\ objs[sel].fresh /\ ModeOf(objs[sel]) # "system"
        /\ UNCHANGED <<store, queue, listed, rows, sel, combo>>
    BY <1>4 DEF Rename, nwamd
  <2>2. PICK n \in Names \ RowNames :
           /\ objs' = [objs EXCEPT ![sel] = [@ EXCEPT !.name = n, !.mod = TRUE]]
           /\ twins' = IF sel \in listed /\ Named(n) # {} THEN twins \cup {n} ELSE twins
    BY <1>4 DEF Rename
  <2> DEFINE r == [objs[sel] EXCEPT !.name = n, !.mod = TRUE]
  <2>3. r \in Object /\ r.name = n /\ r.fresh /\ r.h = objs[sel].h
    BY <1>d, <2>1 DEF Object
  <2>4. objs' = [objs EXCEPT ![sel] = r]
    BY <2>2
  <2> HIDE DEF r
  <2>5. objs'[sel] = r /\ \A p \in Objs : p # sel => objs'[p] = objs[p]
    BY <1>a, <1>d, <2>1, <2>3, <2>4, OneChanged
  <2>6. RowSet' = RowSet /\ \A p \in RowSet : objs[p].name # n
    BY <2>1 DEF RowSet, RowNames
  <2>7. \A o, p \in RowSet' : objs'[o].name = objs'[p].name /\ objs'[o].name \notin twins' => o = p
    <3>1. \A o \in RowSet : o # sel => objs'[o].name = objs[o].name
      BY <1>f, <2>5
    <3>2. objs'[sel].name = n /\ twins \subseteq twins'
      BY <2>2, <2>3, <2>5
    <3> QED BY <1>a, <2>6, <3>1, <3>2 DEF Unique
  <2>8. \A o, p \in listed' : objs'[o].name = objs'[p].name /\ objs'[o].name \notin twins' => o = p
    <3>1. \A o \in listed : o # sel => objs'[o].name = objs[o].name
      BY <1>f, <2>5
    <3>2. objs'[sel].name = n /\ twins \subseteq twins'
      BY <2>2, <2>3, <2>5
    <3>3. sel \in listed /\ n \notin twins' => \A o \in listed : objs[o].name # n
      BY <2>2 DEF Named
    <3> QED BY <1>a, <2>1, <3>1, <3>2, <3>3 DEF Unique
  <2>9. AllSound'
    <3> SUFFICES ASSUME NEW o \in listed PROVE objs'[o].name \in twins' \/ Sound(objs'[o], store, queue)
      BY <2>1 DEF AllSound
    <3>1. CASE o = sel
      BY <2>3, <2>5, <3>1 DEF Sound
    <3>2. CASE o # sel
      <4>1. objs'[o] = objs[o] /\ twins \subseteq twins'
        BY <1>f, <2>2, <2>5, <3>2
      <4> QED BY <1>a, <4>1 DEF AllSound
    <3> QED BY <3>1, <3>2
  <2>10. ModeFixed'
    <3>1. ModeOf(objs'[sel]) = ModeOf(objs[sel])
      BY <2>3, <2>5 DEF ModeOf
    <3> QED BY <2>1, <3>1 DEF ModeFixed
  <2>11. EndsTold'
    BY <1>a, <2>1, EndsKept
  <2> QED BY <2>7, <2>8, <2>9, <2>10, <2>11 DEF ConvInv, Unique
<1>5. CASE (\E o \in Objs : SelectRow(o)) \/ Toggle \/ EditProperties \/ Online
  <2>1. UNCHANGED <<store, objs, listed, twins, rows>>
    BY <1>5 DEF SelectRow, Toggle, EditProperties, Online, nwamd, daemon
  <2>2. RowSet' = RowSet /\ Unique'
    BY <1>a, <2>1 DEF RowSet, Unique
  <2>3. ModeFixed'
    <3>1. CASE sel' = sel /\ combo' = combo
      BY <1>a, <2>1, <3>1 DEF ModeFixed
    <3>2. CASE ~(sel' = sel /\ combo' = combo)
      <4>1. PICK o \in Objs : SelectRow(o)
        BY <1>5, <3>2 DEF Toggle, EditProperties, Online
      <4>2. o \in RowSet /\ sel' = o /\ combo' = ComboOf(objs[o])
        BY <4>1 DEF SelectRow
      <4> QED BY <1>f, <2>1, <4>2, ComboType DEF ModeFixed
    <3> QED BY <3>1, <3>2
  <2>4. CASE queue' = queue
    BY <1>a, <2>1, <2>2, <2>3, <2>4, EndsKept, SoundKept DEF ConvInv
  <2>5. CASE queue' # queue
    <3>1. PICK n \in Names : queue' = Append(queue, Told("STATE", n))
      BY <1>5, <2>5 DEF SelectRow, Toggle, EditProperties, Online, nwamd, Told
    <3>2. Told("STATE", n) \in Event /\ \A m \in Names : Told("STATE", n) # Told("ADD", m)
      BY ToldEvent DEF Told
    <3>3. EndsTold'
      BY <1>a, <1>b, <2>1, <3>1, <3>2, CoveredAppendOther DEF EndsTold
    <3>4. \A e : Has(queue, e) => Has(queue', e)
      BY <1>b, <3>1, <3>2, HasAppend
    <3>5. ASSUME NEW o \in listed, objs[o].name \notin twins PROVE Sound(objs[o], store, queue')
      <4>1. objs[o] \in Object /\ Sound(objs[o], store, queue)
        BY <1>a, <1>f, <3>5 DEF AllSound
      <4> QED BY <3>4, <4>1, SoundPosted
    <3>6. AllSound'
      BY <2>1, <3>5 DEF AllSound
    <3> QED BY <2>2, <2>3, <3>3, <3>6 DEF ConvInv
  <2> QED BY <2>4, <2>5
<1>6. CASE ChooseActivation \/ Rules
  <2>1. /\ sel # None /\ UNCHANGED <<store, queue, listed, twins, rows, sel>>
    BY <1>6 DEF ChooseActivation, Rules, nwamd, daemon
  <2>2. combo # "system"
    BY <1>6 DEF ChooseActivation, Rules
  <2>3. ModeOf(objs[sel]) = "system" => store[objs[sel].name] # Absent
    BY <1>a, <2>1, <2>2 DEF ModeFixed
  <2>4. \E r \in Object :
           /\ objs' = [objs EXCEPT ![sel] = r] /\ r.name = objs[sel].name
           /\ \/ r = objs[sel]
              \/ r.mod /\ r.fresh = objs[sel].fresh /\ (objs[sel].h = NoHandle => r.h = NoHandle)
           /\ ModeOf(r) = "system" => FALSE
    <3>1. CASE ChooseActivation
      <4> DEFINE mode == IF combo = "manual" THEN "any" ELSE "manual"
                 r == IF ModeOf(objs[sel]) = mode THEN objs[sel] ELSE SetMode(objs[sel], mode)
      <4>1. objs' = [objs EXCEPT ![sel] = r]
        BY <3>1 DEF ChooseActivation
      <4>2. mode \in Modes /\ mode # "system"
        BY DEF Modes
      <4> HIDE DEF mode
      <4>3. CASE ModeOf(objs[sel]) = mode
        BY <1>d, <2>1, <4>1, <4>2, <4>3
      <4>4. CASE ModeOf(objs[sel]) # mode
        <5>1. r = SetMode(objs[sel], mode)
          BY <4>4
        <5>2. /\ r \in Object /\ r.name = objs[sel].name /\ r.mod = TRUE /\ r.fresh = objs[sel].fresh
              /\ objs[sel].h = NoHandle => r.h = NoHandle
              /\ objs[sel].h # NoHandle => ModeOf(r) = mode
          BY <1>d, <2>1, <4>2, <5>1, SetModeObject
        <5>3. ModeOf(r) # "system"
          BY <4>2, <5>2 DEF ModeOf
        <5> HIDE DEF r
        <5> QED BY <4>1, <5>2, <5>3
      <4> QED BY <4>3, <4>4
    <3>2. CASE Rules
      <4>1. PICK m \in {"any", "all"}, some \in BOOLEAN :
               objs' = [objs EXCEPT ![sel] = SetConditions(SetMode(objs[sel], m), some)]
        BY <3>2 DEF Rules
      <4> DEFINE q == SetMode(objs[sel], m)
                 r == SetConditions(q, some)
      <4>2. /\ q \in Object /\ q.name = objs[sel].name /\ q.fresh = objs[sel].fresh
            /\ objs[sel].h = NoHandle => q.h = NoHandle
            /\ objs[sel].h # NoHandle => ModeOf(q) = m
        <5>1. m \in Modes
          BY DEF Modes
        <5> QED BY <1>d, <2>1, <5>1, SetModeObject
      <4>3. objs' = [objs EXCEPT ![sel] = r]
        BY <4>1
      <4> HIDE DEF q
      <4>4. /\ r \in Object /\ r.name = q.name /\ r.mod = TRUE /\ r.fresh = q.fresh
            /\ q.h = NoHandle => r.h = NoHandle
            /\ q.h # NoHandle => ModeOf(r) \in {ModeOf(q), "manual"}
        BY <4>2, SetConditionsObject
      <4> HIDE DEF r
      <4>5. ModeOf(r) # "system"
        <5>1. ModeOf(q) # "system"
          BY <4>2 DEF ModeOf
        <5> QED BY <4>4, <5>1 DEF ModeOf
      <4> QED BY <4>2, <4>3, <4>4, <4>5
    <3> QED BY <1>6, <3>1, <3>2
  <2>5. PICK r \in Object :
           /\ objs' = [objs EXCEPT ![sel] = r] /\ r.name = objs[sel].name
           /\ \/ r = objs[sel]
              \/ r.mod /\ r.fresh = objs[sel].fresh /\ (objs[sel].h = NoHandle => r.h = NoHandle)
           /\ ModeOf(r) # "system"
    BY <2>4
  <2>6. Sound(objs[sel], store, queue) => Sound(r, store, queue)
    BY <1>d, <2>1, <2>3, <2>5, SoundChanged
  <2>7. Unique' /\ EndsTold' /\ AllSound'
    BY <1>d, <1>g, <2>1, <2>5, <2>6
  <2>8. objs'[sel] = r
    BY <1>a, <1>d, <2>1, <2>5, OneChanged
  <2>9. ModeFixed'
    BY <2>1, <2>5, <2>8 DEF ModeFixed
  <2> QED BY <2>7, <2>9 DEF ConvInv
<1>7. CASE ChangeProperties
  <2>1. editing # None /\ UNCHANGED <<store, queue, listed, twins, rows, sel, combo>>
    BY <1>7 DEF ChangeProperties, nwamd, daemon
  <2> DEFINE c == IF objs[editing].h = NoHandle THEN objs[editing].h
                  ELSE [objs[editing].h EXCEPT !.text = 1 - @]
             r == Set(objs[editing], c)
  <2>2. objs' = [objs EXCEPT ![editing] = r]
    BY <1>7 DEF ChangeProperties
  <2>3. objs[editing].h # NoHandle => c \in Content /\ c.mode = objs[editing].h.mode /\ c # NoHandle
    <3>1. ASSUME NEW x \in Content
          PROVE  [x EXCEPT !.text = 1 - @] \in Content /\ [x EXCEPT !.text = 1 - @].mode = x.mode
      BY DEF Content
    <3> QED BY <1>e, <2>1, <3>1, ObjFields, ObjsAssumption
  <2> HIDE DEF c
  <2>4. /\ r \in Object /\ r.name = objs[editing].name /\ r.mod = TRUE /\ r.fresh = objs[editing].fresh
        /\ r.h = IF objs[editing].h = NoHandle THEN NoHandle ELSE c
    BY <1>e, <2>1, <2>3, SetObject
  <2>5. ModeOf(r) = ModeOf(objs[editing])
    BY <2>3, <2>4 DEF ModeOf
  <2> HIDE DEF r
  <2>6. Sound(objs[editing], store, queue) => Sound(r, store, queue)
    BY <1>e, <2>1, <2>4, <2>5, SoundChanged
  <2>7. Unique' /\ EndsTold' /\ AllSound'
    BY <1>e, <1>g, <2>1, <2>2, <2>4, <2>6
  <2>8. objs'[editing] = r /\ \A p \in Objs : p # editing => objs'[p] = objs[p]
    BY <1>a, <1>e, <2>1, <2>2, <2>4, OneChanged
  <2>9. ModeFixed'
    <3>1. sel # None => objs'[sel].name = objs[sel].name /\ ModeOf(objs'[sel]) = ModeOf(objs[sel])
      BY <1>d, <2>4, <2>5, <2>8
    <3> QED BY <1>a, <2>1, <3>1, ModeKept
  <2> QED BY <2>7, <2>9 DEF ConvInv
<1>8. CASE CancelProperties
  <2>a. PICK unread \in BOOLEAN : objs' = [objs EXCEPT ![editing] = Reload(@, unread)]
    BY <1>8 DEF CancelProperties
  <2> DEFINE c == Reload(objs[editing], unread)
  <2>1. /\ editing # None /\ objs' = [objs EXCEPT ![editing] = c]
        /\ UNCHANGED <<store, queue, listed, twins, rows, sel, combo>>
    BY <1>8, <2>a DEF CancelProperties, nwamd, daemon
  <2>b. Reread(objs[editing], c)
    BY DEF Reread
  <2> HIDE DEF c
  <2>2. c \in Object /\ c.name = objs[editing].name
    BY <1>b, <1>e, <2>1, <2>b, RereadObject DEF Stored
  <2>3. Sound(objs[editing], store, queue) => Sound(c, store, queue)
    BY <1>b, <1>e, <2>1, <2>b, SoundReload
  <2>4. Unique' /\ EndsTold' /\ AllSound'
    BY <1>e, <1>g, <2>1, <2>2, <2>3
  <2>5. objs'[editing] = c /\ \A p \in Objs : p # editing => objs'[p] = objs[p]
    BY <1>a, <1>e, <2>1, <2>2, OneChanged
  <2>6. ModeFixed'
    <3>1. CASE sel = editing
      <4>1. store[objs[sel].name] = Absent /\ ModeOf(objs'[sel]) = "system" => ModeOf(objs[sel]) = "system"
        BY <1>b, <1>e, <2>1, <2>b, <2>5, <3>1, RereadMode
      <4> QED BY <1>a, <2>1, <2>2, <2>5, <3>1, <4>1, ModeKept
    <3>2. CASE sel # editing
      <4>1. sel # None => objs'[sel] = objs[sel]
        BY <1>d, <2>5, <3>2
      <4> QED BY <1>a, <2>1, <4>1, ModeKept
    <3> QED BY <3>1, <3>2
  <2> QED BY <2>4, <2>6 DEF ConvInv
<1>9. CASE ApplyProperties
  <2>1. editing # None /\ UNCHANGED <<listed, twins, rows, sel, combo>>
    BY <1>9 DEF ApplyProperties, daemon
  <2>2. CASE UNCHANGED <<store, queue, objs>>
    <3>1. Unique' /\ ModeFixed' /\ AllSound'
      BY <1>a, <2>1, <2>2 DEF Unique, ModeFixed, AllSound, RowSet
    <3> QED BY <1>a, <2>2, <3>1, EndsKept DEF ConvInv
  <2>3. CASE ~UNCHANGED <<store, queue, objs>>
    <3> DEFINE n == objs[editing].name
               c == objs[editing].h
               r == Clean(objs[editing])
    <3>1. /\ c # NoHandle /\ store' = [store EXCEPT ![n] = c] /\ queue' = Append(queue, Saved(n))
          /\ objs' = [objs EXCEPT ![editing] = r]
      BY <1>9, <2>3 DEF ApplyProperties, Clean
    <3>2. n \in Names /\ c \in Content /\ c # Absent
      BY <1>e, <2>1, <3>1, ObjFields, ObjsAssumption
    <3>3. r \in Object /\ r.name = n /\ r.h = c
      BY <1>e, <2>1, CleanObject
    <3>4. store'[n] = c /\ \A m \in Names \ {n} : store'[m] = store[m]
      BY <1>b, <3>1, <3>2 DEF Stored
    <3>5. objs'[editing] = r /\ \A p \in Objs : p # editing => objs'[p] = objs[p]
      BY <1>a, <1>e, <2>1, <3>1, <3>3, OneChanged
    <3>6. Sound(r, store', queue')
      BY <1>e, <2>1, <3>1, <3>4, SoundClean
    <3> HIDE DEF r, c, n
    <3>7. /\ Saved(n) \in Event /\ \A e : Has(queue, e) => Has(queue', e)
          /\ Has(queue', Saved(n))
      BY <1>b, <3>1, <3>2, SavedEvent, HasAppend
    <3>8. store[n] = Absent \/ Has(queue', Told("REFRESH", n))
      BY <3>2, <3>7, ToldSaved
    <3>9. EndsTold'
      <4> SUFFICES ASSUME NEW m \in Names, store'[m] = Absent
                   PROVE  Covered(queue', Told("ADD", m), Told("DESTROY", m))
        BY DEF EndsTold
      <4>1. m # n /\ store[m] = Absent
        BY <3>2, <3>4
      <4>2. Saved(n) # Told("ADD", m)
        BY <3>2, <4>1, ToldSaved DEF Told
      <4> QED BY <1>a, <1>b, <3>1, <3>7, <4>1, <4>2, CoveredAppendOther DEF EndsTold
    <3>10. ASSUME NEW o \in listed, objs[o].name \notin twins PROVE Sound(objs'[o], store', queue')
      <4>1. objs[o] \in Object /\ Sound(objs[o], store, queue) /\ o \in Objs /\ objs[o].name \in Names
        BY <1>a, <1>f, <3>10 DEF AllSound
      <4>2. CASE o = editing
        BY <3>5, <3>6, <4>2
      <4>3. CASE o # editing
        <5>1. objs'[o] = objs[o]
          BY <3>5, <4>1, <4>3
        <5>2. Sound(objs[o], store', queue')
          BY <3>2, <3>4, <3>7, <3>8, <4>1, SoundPosted
        <5> QED BY <5>1, <5>2
      <4> QED BY <4>2, <4>3
    <3>11. \A o \in RowSet \cup listed : objs'[o].name = objs[o].name
      BY <1>f, <3>3, <3>5 DEF n
    <3>12. AllSound'
      BY <2>1, <3>10, <3>11 DEF AllSound
    <3>13. RowSet' = RowSet
      BY <2>1 DEF RowSet
    <3>14. Unique'
      BY <1>a, <2>1, <3>11, <3>13, UniqueKept
    <3>15. ModeFixed'
      <4>1. sel # None => /\ objs'[sel].name = objs[sel].name /\ ModeOf(objs'[sel]) = ModeOf(objs[sel])
                          /\ store'[objs[sel].name] = Absent => store[objs[sel].name] = Absent
        <5>1. ModeOf(r) = ModeOf(objs[editing])
          BY <3>3 DEF ModeOf, c
        <5>2. sel # None => /\ store'[objs[sel].name] = Absent => store[objs[sel].name] = Absent
          BY <1>d, <3>2, <3>4
        <5>3. sel # None => objs'[sel].name = objs[sel].name /\ ModeOf(objs'[sel]) = ModeOf(objs[sel])
          BY <1>d, <3>5, <3>11, <5>1
        <5> QED BY <5>2, <5>3
      <4> QED BY <1>a, <2>1, <4>1, ModeKept
    <3> QED BY <3>9, <3>12, <3>14, <3>15 DEF ConvInv
  <2> QED BY <2>2, <2>3
<1>10. CASE Cancel
  <2>1. /\ \A o \in RowSet : o \in Objs => Reread(objs[o], objs'[o])
        /\ \A o \in Objs : o \notin RowSet => objs'[o] = objs[o]
        /\ UNCHANGED <<store, queue, listed, twins, rows, sel, combo>>
    BY <1>10, CancelReads DEF Cancel, nwamd, daemon
  <2>2. ASSUME NEW o \in RowSet \cup listed
        PROVE  /\ objs'[o].name = objs[o].name
               /\ Sound(objs[o], store, queue) => Sound(objs'[o], store, queue)
               /\ store[objs[o].name] = Absent /\ ModeOf(objs'[o]) = "system"
                     => ModeOf(objs[o]) = "system"
    <3>1. CASE objs'[o] = objs[o]
      BY <3>1
    <3>2. CASE Reread(objs[o], objs'[o])
      <4>1. objs'[o].name = objs[o].name
        BY <1>b, <1>f, <3>2, RereadObject DEF Stored
      <4>2. Sound(objs[o], store, queue) => Sound(objs'[o], store, queue)
        BY <1>b, <1>f, <3>2, SoundReload
      <4>3. store[objs[o].name] = Absent /\ ModeOf(objs'[o]) = "system" => ModeOf(objs[o]) = "system"
        BY <1>b, <1>f, <3>2, RereadMode
      <4> QED BY <4>1, <4>2, <4>3
    <3> QED BY <1>f, <2>1, <3>1, <3>2
  <2>3. RowSet' = RowSet
    BY <2>1 DEF RowSet
  <2>4. Unique'
    BY <1>a, <2>1, <2>2, <2>3, UniqueKept
  <2>5. AllSound'
    BY <1>a, <2>1, <2>2, SoundKept
  <2>6. ModeFixed'
    BY <1>a, <1>d, <2>1, <2>2, ModeKept
  <2> QED BY <1>a, <2>1, <2>4, <2>5, <2>6, EndsKept DEF ConvInv
<1>11. CASE Ok
  <2>1. PICK i \in 1 .. (Len(rows) + 1) :
           /\ CommitRows(i)
           /\ \E order \in Ordered(Committed(i)) : Activated(CommitEvents(order))
           /\ sel' = IF i <= Len(rows) THEN rows[i] ELSE sel
           /\ combo' = IF sel' # sel THEN ComboOf(objs'[sel']) ELSE combo
    BY <1>11 DEF Ok
  <2>2. PICK order \in Ordered(Committed(i)) : Activated(CommitEvents(order))
    BY <2>1
  <2>3. UNCHANGED <<listed, twins, rows>>
    BY <1>11 DEF Ok, daemon
  <2> DEFINE evs == CommitEvents(order)
  <2>4. evs \in Seq(Event) /\ \A e : Has(evs, e) <=> \E j \in Committed(i) : e = Saved(objs[rows[j]].name)
    BY <1>a, CommitEventsFacts
  <2>5. PICK t \in Seq(Event) : queue' = (queue \o evs) \o t /\ \A e : Has(t, e) => e.act # "ADD"
    <3>1. Activated(evs)
      BY <2>2
    <3> HIDE DEF evs
    <3> QED BY <1>a, <2>4, <3>1, ActivatedFacts
  <2> HIDE DEF evs
  <2>6. queue \o evs \in Seq(Event) /\ \A e : Has(queue, e) \/ Has(evs, e) => Has(queue', e)
    BY <1>b, <2>4, <2>5, HasConcat
  <2>7. ASSUME NEW n \in Names
        PROVE  \/ store'[n] = store[n] /\ \A j \in Committed(i) : objs[rows[j]].name # n
               \/ \E j \in Committed(i) : objs[rows[j]].name = n /\ store'[n] = objs[rows[j]].h
    BY <1>a, <2>1, CommitFacts
  <2>8. \A j \in Committed(i) : /\ rows[j] \in RowSet /\ objs[rows[j]] \in Object /\ objs[rows[j]].name \in Names
                                /\ objs[rows[j]].h \in Content
                                /\ objs[rows[j]].h # Absent /\ objs[rows[j]].h # NoHandle
    BY <1>a, CommittedFacts, ObjFields, ObjsAssumption
  <2>9. \A n \in Names : store'[n] = Absent => store[n] = Absent /\ \A j \in Committed(i) : objs[rows[j]].name # n
    BY <2>7, <2>8
  <2>10. EndsTold'
    <3> SUFFICES ASSUME NEW n \in Names, store'[n] = Absent
                 PROVE  Covered(queue', Told("ADD", n), Told("DESTROY", n))
      BY DEF EndsTold
    <3>1. Covered(queue, Told("ADD", n), Told("DESTROY", n))
      BY <1>a, <2>9 DEF EndsTold
    <3>2. ~Has(evs, Told("ADD", n))
      <4>1. ASSUME NEW j \in Committed(i) PROVE Saved(objs[rows[j]].name) # Told("ADD", n)
        <5>1. objs[rows[j]].name # n /\ objs[rows[j]].name \in Names
          BY <2>8, <2>9
        <5>2. Saved(objs[rows[j]].name).name = objs[rows[j]].name /\ Told("ADD", n).name = n
          BY <5>1, SavedEvent DEF Told
        <5> QED BY <5>1, <5>2
      <4> QED BY <2>4, <4>1
    <3>3. ~Has(t, Told("ADD", n))
      BY <2>5 DEF Told
    <3>4. Covered(queue \o evs, Told("ADD", n), Told("DESTROY", n))
      BY <1>b, <2>4, <3>1, <3>2, CoveredConcat
    <3> QED BY <2>5, <2>6, <3>3, <3>4, CoveredConcat
  <2>11. ASSUME NEW o \in RowSet \cup listed
         PROVE  /\ objs'[o] = objs[o] \/ objs'[o] = Clean(objs[o])
                /\ objs'[o].name = objs[o].name /\ objs'[o].h = objs[o].h
    <3>1. objs'[o] = objs[o] \/ objs'[o] = Clean(objs[o])
      BY <1>a, <1>f, <2>1, CommitFacts
    <3> QED BY <1>f, <3>1, CleanObject
  <2>12. ASSUME NEW o \in listed, objs[o].name \notin twins PROVE Sound(objs'[o], store', queue')
    <3> DEFINE n == objs[o].name
    <3>1. objs[o] \in Object /\ Sound(objs[o], store, queue) /\ o \in Objs /\ n \in Names
      BY <1>a, <1>f, <2>12 DEF AllSound
    <3>2. CASE \E j \in Committed(i) : rows[j] = o
      <4>1. PICK j \in Committed(i) : rows[j] = o
        BY <3>2
      <4>2. objs'[o] = Clean(objs[o])
        BY <1>a, <2>1, <3>1, <4>1, CommitFacts
      <4>3. PICK k \in Committed(i) : objs[rows[k]].name = n /\ store'[n] = objs[rows[k]].h
        BY <2>7, <3>1, <4>1
      <4>4. rows[k] = o
        BY <1>a, <2>8, <2>12, <4>1, <4>3 DEF Unique
      <4>5. store'[n] = objs[o].h /\ objs[o].h # NoHandle
        BY <2>8, <4>3, <4>4
      <4> QED BY <3>1, <4>2, <4>5, SoundClean
    <3>3. CASE ~\E j \in Committed(i) : rows[j] = o
      <4>1. objs'[o] = objs[o]
        BY <1>a, <2>1, <3>1, <3>3, CommitFacts
      <4>2. \/ store'[n] = store[n]
            \/ store'[n] # Absent /\ (store[n] = Absent \/ Has(queue', Told("REFRESH", n)))
        <5>1. CASE store'[n] # store[n]
          <6>1. PICK j \in Committed(i) : objs[rows[j]].name = n /\ store'[n] = objs[rows[j]].h
            BY <2>7, <3>1, <5>1
          <6>2. Has(queue', Saved(n)) /\ store'[n] # Absent
            BY <2>4, <2>6, <2>8, <6>1
          <6>3. Saved(n) = IF store[n] = Absent THEN Told("ADD", n) ELSE Told("REFRESH", n)
            BY <3>1, ToldSaved
          <6> QED BY <6>2, <6>3
        <5> QED BY <5>1
      <4>3. Sound(objs[o], store', queue')
        BY <2>6, <3>1, <4>2, SoundPosted
      <4> QED BY <4>1, <4>3
    <3> QED BY <3>2, <3>3
  <2>13. AllSound'
    BY <2>3, <2>11, <2>12 DEF AllSound
  <2>14. RowSet' = RowSet
    BY <2>3 DEF RowSet
  <2>15. Unique'
    BY <1>a, <2>3, <2>11, <2>14, UniqueKept
  <2>16. ModeFixed'
    <3>1. CASE sel' = sel
      <4>1. sel # None => /\ objs'[sel].name = objs[sel].name /\ ModeOf(objs'[sel]) = ModeOf(objs[sel])
                          /\ store'[objs[sel].name] = Absent => store[objs[sel].name] = Absent
        BY <1>d, <2>9, <2>11 DEF ModeOf
      <4> QED BY <1>a, <2>1, <3>1, <4>1, ModeKept
    <3>2. CASE sel' # sel
      <4>1. i <= Len(rows)
        BY <2>1, <3>2
      <4>2. sel' = rows[i] /\ rows[i] \in RowSet
        BY <1>a, <2>1, <4>1, RowFacts
      <4>3. objs'[sel'] \in Object
        BY <1>f, <2>11, <4>2, CleanObject
      <4>4. combo' = ComboOf(objs'[sel'])
        BY <2>1, <3>2
      <4> QED BY <4>3, <4>4, ComboType DEF ModeFixed
    <3> QED BY <3>1, <3>2
  <2> QED BY <2>10, <2>13, <2>15, <2>16 DEF ConvInv
<1>12. CASE EventAdd
  <2> DEFINE n == Head(queue).name
  <2>1. /\ queue # <<>> /\ Head(queue).act = "ADD" /\ queue' = Tail(queue)
        /\ UNCHANGED <<store, twins, rows, sel, combo>>
    BY <1>12 DEF EventAdd, Take, EventKeeps
  <2>2. n \in Names /\ Head(queue) = Told("ADD", n)
    <3>1. Head(queue) \in Event
      BY <1>b, <2>1, TailFacts
    <3> QED BY <2>1, <3>1 DEF Event, Told
  <2>3. EndsTold'
    BY <1>a, <1>b, <2>1, EndsTaken
  <2>4. \A r \in Object : Sound(r, store, queue) => Sound(r, store, queue')
    <3> SUFFICES ASSUME NEW r \in Object, Sound(r, store, queue) PROVE Sound(r, store, queue')
      OBVIOUS
    <3>1. Head(queue) # Told("REFRESH", r.name) /\ Head(queue) # Told("DESTROY", r.name)
      BY <2>2 DEF Told
    <3> QED BY <1>b, <2>1, <3>1, SoundTaken
  <2> HIDE DEF n
  <2>5. RowSet' = RowSet
    BY <2>1 DEF RowSet
  <2>6. CASE UNCHANGED <<objs, listed, admins>>
    <3>1. AllSound'
      BY <1>a, <1>f, <2>1, <2>4, <2>6 DEF AllSound
    <3>2. Unique' /\ ModeFixed'
      BY <1>a, <2>1, <2>5, <2>6 DEF Unique, ModeFixed
    <3> QED BY <2>3, <3>1, <3>2 DEF ConvInv
  <2>7. CASE ~UNCHANGED <<objs, listed, admins>>
    <3>1. Subject = {} /\ \E o \in Free, unread \in BOOLEAN : \E r \in NewEnv(n, unread) :
             objs' = [objs EXCEPT ![o] = r] /\ listed' = listed \cup {o}
      BY <1>12, <2>7 DEF EventAdd, n
    <3>2. PICK o \in Free, unread \in BOOLEAN : \E r \in NewEnv(n, unread) :
             objs' = [objs EXCEPT ![o] = r] /\ listed' = listed \cup {o}
      BY <3>1
    <3>a. PICK r \in NewEnv(n, unread) : objs' = [objs EXCEPT ![o] = r] /\ listed' = listed \cup {o}
      BY <3>2
    <3>3. /\ r \in Object /\ r.name = n
          /\ (store[n] # Absent /\ r.h = store[n]) \/ r.fresh = TRUE \/ r.h = NoHandle
      BY <1>b, <2>2, NewEnvObject DEF Stored
    <3>4. o \in Objs /\ o \notin RowSet /\ o \notin listed
      <4>1. o \in Objs /\ objs[o] = None
        BY DEF Free
      <4> QED BY <1>f, <4>1, ObjFields
    <3>5. objs'[o] = r /\ \A p \in Objs : p # o => objs'[p] = objs[p]
      BY <1>a, <3>a, <3>3, <3>4, OneChanged
    <3>6. \A p \in RowSet \cup listed : objs'[p] = objs[p]
      BY <1>f, <3>4, <3>5
    <3>7. \A p \in listed : objs[p].name # n
      BY <3>1 DEF Subject, Named, n
    <3>8. Unique'
      BY <1>a, <2>1, <2>5, <3>a, <3>3, <3>5, <3>6, <3>7 DEF Unique
    <3>9. Sound(r, store, queue')
      BY <3>3 DEF Sound
    <3>10. AllSound'
      BY <1>a, <1>f, <2>1, <2>4, <3>a, <3>5, <3>6, <3>9 DEF AllSound
    <3>11. ModeFixed'
      BY <1>a, <1>d, <2>1, <3>6 DEF ModeFixed
    <3> QED BY <2>3, <3>8, <3>10, <3>11 DEF ConvInv
  <2> QED BY <2>6, <2>7
<1>13. CASE EventRefresh
  <2> DEFINE n == Head(queue).name
  <2>1. /\ queue # <<>> /\ Head(queue).act = "REFRESH" /\ queue' = Tail(queue)
        /\ UNCHANGED <<store, listed, twins, rows, sel, combo>>
    BY <1>13 DEF EventRefresh, Take, EventKeeps, daemon
  <2>2. n \in Names /\ Head(queue) = Told("REFRESH", n)
    <3>1. Head(queue) \in Event
      BY <1>b, <2>1, TailFacts
    <3> QED BY <2>1, <3>1 DEF Event, Told
  <2>3. EndsTold'
    BY <1>a, <1>b, <2>1, EndsTaken
  <2>4. ASSUME NEW r \in Object, Sound(r, store, queue), r.name # n PROVE Sound(r, store, queue')
    <3>1. Head(queue) # Told("REFRESH", r.name) /\ Head(queue) # Told("DESTROY", r.name)
      BY <2>2, <2>4 DEF Told
    <3> QED BY <1>b, <2>1, <2>4, <3>1, SoundTaken
  <2> HIDE DEF n
  <2>5. RowSet' = RowSet
    BY <2>1 DEF RowSet
  <2>6. CASE Subject = {}
    <3>1. objs' = objs /\ \A p \in listed : objs[p].name # n
      BY <1>13, <2>6 DEF EventRefresh, Subject, Named, n
    <3>2. AllSound'
      BY <1>a, <1>f, <2>1, <2>4, <3>1 DEF AllSound
    <3>3. Unique' /\ ModeFixed'
      BY <1>a, <2>1, <2>5, <3>1 DEF Unique, ModeFixed
    <3> QED BY <2>3, <3>2, <3>3 DEF ConvInv
  <2>7. CASE Subject # {}
    <3>1. PICK o \in Subject, unread \in BOOLEAN :
             objs' = [objs EXCEPT ![o] = IF @.mod THEN @ ELSE Reload(@, unread)]
      BY <1>13, <2>7 DEF EventRefresh
    <3>2. o \in listed /\ objs[o].name = n
      BY DEF Subject, Named, n
    <3> DEFINE c == Reload(objs[o], unread)
               r == IF objs[o].mod THEN objs[o] ELSE c
    <3>3. objs' = [objs EXCEPT ![o] = r]
      BY <3>1
    <3>a. Reread(objs[o], c)
      BY DEF Reread
    <3> HIDE DEF c
    <3>4. c \in Object /\ c.name = objs[o].name
      BY <1>b, <1>f, <3>2, <3>a, RereadObject DEF Stored
    <3>5. r \in Object /\ r.name = objs[o].name
      BY <1>f, <3>2, <3>4
    <3>6. Sound(objs[o], store, queue) => Sound(r, store, queue')
      <4>1. Head(queue) # Told("DESTROY", objs[o].name)
        BY <2>2 DEF Told
      <4> QED BY <1>b, <1>f, <2>1, <3>2, <3>a, <4>1, SoundRefreshed
    <3>b. store[objs[o].name] = Absent /\ ModeOf(r) = "system" => ModeOf(objs[o]) = "system"
      BY <1>b, <1>f, <3>2, <3>a, RereadMode
    <3> HIDE DEF r
    <3>7. objs'[o] = r /\ \A p \in Objs : p # o => objs'[p] = objs[p]
      BY <1>a, <1>f, <3>2, <3>3, <3>5, OneChanged
    <3>8. \A p \in RowSet \cup listed : objs'[p].name = objs[p].name
      BY <1>f, <3>5, <3>7
    <3>9. Unique'
      BY <1>a, <2>1, <2>5, <3>8, UniqueKept
    <3>10. ASSUME NEW p \in listed, objs[p].name \notin twins PROVE Sound(objs'[p], store, queue')
      <4>1. objs[p] \in Object /\ p \in Objs /\ Sound(objs[p], store, queue)
        BY <1>a, <1>f, <3>10 DEF AllSound
      <4>2. CASE p = o
        BY <3>6, <3>7, <4>1, <4>2
      <4>3. CASE p # o
        <5>1. objs[p].name # n
          BY <1>a, <3>2, <3>10, <4>3 DEF Unique
        <5> QED BY <2>4, <3>7, <4>1, <4>3, <5>1
      <4> QED BY <4>2, <4>3
    <3>11. AllSound'
      BY <2>1, <3>8, <3>10 DEF AllSound
    <3>12. ModeFixed'
      <4>1. sel # None /\ store[objs[sel].name] = Absent /\ ModeOf(objs'[sel]) = "system"
               => ModeOf(objs[sel]) = "system"
        BY <1>d, <3>b, <3>7
      <4> QED BY <1>a, <1>d, <2>1, <3>8, <4>1, ModeKept
    <3> QED BY <2>3, <3>9, <3>11, <3>12 DEF ConvInv
  <2> QED BY <2>6, <2>7
<1>14. CASE EventDestroy
  <2> DEFINE n == Head(queue).name
  <2>1. /\ queue # <<>> /\ Head(queue).act = "DESTROY" /\ queue' = Tail(queue)
        /\ UNCHANGED <<store, twins, rows, sel, combo, toggled, editing>>
    BY <1>14 DEF EventDestroy, Take, EventKeeps
  <2>2. n \in Names /\ Head(queue) = Told("DESTROY", n)
    <3>1. Head(queue) \in Event
      BY <1>b, <2>1, TailFacts
    <3> QED BY <2>1, <3>1 DEF Event, Told
  <2>3. EndsTold'
    BY <1>a, <1>b, <2>1, EndsTaken
  <2>4. ASSUME NEW r \in Object, Sound(r, store, queue), r.name # n PROVE Sound(r, store, queue')
    <3>1. Head(queue) # Told("REFRESH", r.name) /\ Head(queue) # Told("DESTROY", r.name)
      BY <2>2, <2>4 DEF Told
    <3> QED BY <1>b, <2>1, <2>4, <3>1, SoundTaken
  <2> HIDE DEF n
  <2>5. RowSet' = RowSet
    BY <2>1 DEF RowSet
  <2>6. CASE Subject = {}
    <3>1. objs' = objs /\ listed' = listed /\ \A p \in listed : objs[p].name # n
      BY <1>14, <2>6 DEF EventDestroy, Subject, Named, n
    <3>2. AllSound'
      BY <1>a, <1>f, <2>1, <2>4, <3>1 DEF AllSound
    <3>3. Unique' /\ ModeFixed'
      BY <1>a, <2>1, <2>5, <3>1 DEF Unique, ModeFixed
    <3> QED BY <2>3, <3>2, <3>3 DEF ConvInv
  <2>7. CASE Subject # {}
    <3>1. PICK o \in Subject :
             /\ listed' = (IF ModeOf(objs[o]) = "system" THEN listed ELSE listed \ {o})
             /\ objs' = Held(objs)
      BY <1>14, <2>7 DEF EventDestroy
    <3>2. o \in listed /\ objs[o].name = n
      BY DEF Subject, Named, n
    <3>3. \A p \in RowSet' \cup listed' : objs'[p] = objs[p]
      <4>1. \A p \in RowSet' \cup listed' : p \in Objs /\ p \in ToSet(rows') \cup listed'
        BY <1>f, <2>5, <3>1 DEF RowSet
      <4> QED BY <3>1, <4>1 DEF Held
    <3>4. listed' \subseteq listed
      BY <3>1
    <3>5. Unique'
      BY <1>a, <2>1, <2>5, <3>3, <3>4, UniqueKept
    <3>6. ASSUME NEW p \in listed', objs[p].name \notin twins PROVE Sound(objs[p], store, queue')
      <4>1. p \in listed /\ objs[p] \in Object /\ Sound(objs[p], store, queue)
        BY <1>a, <1>f, <3>4, <3>6 DEF AllSound
      <4>2. CASE p = o
        <5>1. ModeOf(objs[p]) = "system"
          BY <3>1, <4>2
        <5> QED BY <5>1 DEF Sound
      <4>3. CASE p # o
        <5>1. objs[p].name # n
          BY <1>a, <3>2, <3>6, <4>1, <4>3 DEF Unique
        <5> QED BY <2>4, <4>1, <5>1
      <4> QED BY <4>2, <4>3
    <3>7. AllSound'
      BY <2>1, <3>3, <3>6 DEF AllSound
    <3>8. ModeFixed'
      BY <1>a, <1>d, <2>1, <2>5, <3>3 DEF ModeFixed
    <3> QED BY <2>3, <3>5, <3>7, <3>8 DEF ConvInv
  <2> QED BY <2>6, <2>7
<1>15. CASE EventState
  <2> DEFINE n == Head(queue).name
  <2>1. /\ queue # <<>> /\ Head(queue).act = "STATE" /\ queue' = Tail(queue)
        /\ UNCHANGED <<store, listed, twins, rows, sel, combo, toggled, editing>>
        /\ objs' = objs \/ objs' = Held(objs)
    BY <1>15 DEF EventState, Take, EventKeeps
  <2>2. Head(queue) = Told("STATE", n)
    <3>1. Head(queue) \in Event
      BY <1>b, <2>1, TailFacts
    <3> QED BY <2>1, <3>1 DEF Event, Told
  <2>3. EndsTold'
    BY <1>a, <1>b, <2>1, EndsTaken
  <2>4. ASSUME NEW r \in Object, Sound(r, store, queue) PROVE Sound(r, store, queue')
    <3>1. Head(queue) # Told("REFRESH", r.name) /\ Head(queue) # Told("DESTROY", r.name)
      BY <2>2 DEF Told
    <3> QED BY <1>b, <2>1, <2>4, <3>1, SoundTaken
  <2>5. RowSet' = RowSet
    BY <2>1 DEF RowSet
  <2>6. \A p \in RowSet' \cup listed' : objs'[p] = objs[p]
    <3>1. \A p \in RowSet' \cup listed' : p \in Objs /\ p \in ToSet(rows') \cup listed'
      BY <1>f, <2>1, <2>5 DEF RowSet
    <3> QED BY <2>1, <3>1 DEF Held
  <2>7. Unique'
    BY <1>a, <2>1, <2>5, <2>6, UniqueKept
  <2>8. AllSound'
    BY <1>a, <1>f, <2>1, <2>4, <2>6 DEF AllSound
  <2>9. ModeFixed'
    BY <1>a, <1>d, <2>1, <2>5, <2>6 DEF ModeFixed
  <2> QED BY <2>3, <2>7, <2>8, <2>9 DEF ConvInv
<1>16. CASE Configure
  <2>1. UNCHANGED <<objs, listed, twins, rows, sel, combo>>
    BY <1>16 DEF Configure, daemon
  <2>2. PICK n \in Names, c \in Samples : store' = [store EXCEPT ![n] = c] /\ queue' = Append(queue, Saved(n))
    BY <1>16 DEF Configure
  <2>3. c # Absent
    BY StoresAssumption, ObjsAssumption
  <2>4. store'[n] = c /\ \A m \in Names \ {n} : store'[m] = store[m]
    BY <1>b, <2>2 DEF Stored
  <2>5. /\ Saved(n) \in Event /\ \A e : Has(queue, e) => Has(queue', e)
        /\ Has(queue', Saved(n))
    BY <1>b, <2>2, SavedEvent, HasAppend
  <2>6. store[n] = Absent \/ Has(queue', Told("REFRESH", n))
    BY <2>5, ToldSaved
  <2>7. EndsTold'
    <3> SUFFICES ASSUME NEW m \in Names, store'[m] = Absent
                 PROVE  Covered(queue', Told("ADD", m), Told("DESTROY", m))
      BY DEF EndsTold
    <3>1. m # n /\ store[m] = Absent
      BY <2>3, <2>4
    <3>2. Saved(n) # Told("ADD", m)
      BY <3>1, ToldSaved DEF Told
    <3> QED BY <1>a, <1>b, <2>2, <2>5, <3>1, <3>2, CoveredAppendOther DEF EndsTold
  <2>8. ASSUME NEW o \in listed, objs[o].name \notin twins PROVE Sound(objs[o], store', queue')
    <3>1. objs[o] \in Object /\ Sound(objs[o], store, queue) /\ objs[o].name \in Names
      BY <1>a, <1>f, <2>8 DEF AllSound
    <3> QED BY <2>3, <2>4, <2>5, <2>6, <3>1, SoundPosted
  <2>9. AllSound'
    BY <2>1, <2>8 DEF AllSound
  <2>10. Unique'
    BY <1>a, <2>1 DEF Unique, RowSet
  <2>11. ModeFixed'
    BY <1>a, <1>d, <2>1, <2>3, <2>4, ModeKept
  <2> QED BY <2>7, <2>9, <2>10, <2>11 DEF ConvInv
<1>17. CASE UNCHANGED vars
  <2>1. UNCHANGED <<store, queue, objs, listed, twins, rows, sel, combo>>
    BY <1>17 DEF vars
  <2>2. Unique' /\ ModeFixed' /\ AllSound'
    BY <1>a, <2>1 DEF Unique, ModeFixed, AllSound, RowSet
  <2> QED BY <1>a, <2>1, <2>2, EndsKept DEF ConvInv
<1> QED
  BY <1>1, <1>2, <1>3, <1>4, <1>5, <1>6, <1>7, <1>8, <1>9, <1>10, <1>11, <1>12, <1>13, <1>14,
     <1>15, <1>16, <1>17
     DEF Next

\* Once every event is handled, the listed locations without modifications have
\* what is stored (nwamd_event_handler() and reload(), after whatever the
\* dialogs committed, reverted or removed).
THEOREM Converges == Spec => []LocationsConverge
<1>1. SafeInv /\ ConvInv => LocationsConverge
  <2> SUFFICES ASSUME SafeInv, ConvInv PROVE LocationsConverge
    OBVIOUS
  <2>1. TypeOK
    BY TypesLive DEF SafeInv
  <2>2. ASSUME queue = <<>>, NEW o \in listed, ~objs[o].mod, ~objs[o].fresh, objs[o].h # NoHandle,
               ModeOf(objs[o]) # "system", objs[o].name \notin twins, store[objs[o].name] # Absent
        PROVE  objs[o].h = store[objs[o].name]
    <3>1. Sound(objs[o], store, queue)
      BY <2>2 DEF ConvInv, AllSound
    <3>2. \A e : ~Has(queue, e)
      BY <2>2 DEF Has
    <3> QED BY <2>2, <3>1, <3>2 DEF Sound
  <2> QED BY <2>1, <2>2 DEF LocationsConverge
<1>2. Spec => []ConvInv
  BY InitSafe, InitConv, StepSafe, StepConv, PTL DEF Spec
<1> QED BY <1>1, <1>2, Safe, PTL

-----------------------------------------------------------------------------
(***************************************************************************)
(* The properties dialog (EnvPrefDialog), for any locations, stored        *)
(* contents and number of clicks: the dialog shows the services of its     *)
(* location, and no REFRESH event takes away what the user typed.          *)
(*                                                                         *)
(* The first needs that no location with a handle is without a service,    *)
(* which holds until one is read again underneath the open dialog: then    *)
(* the check boxes are out of date and the last service can go.  The       *)
(* second needs that what was typed into is marked as modified, which is   *)
(* what keeps the daemon object from reading it again.                     *)
(***************************************************************************)

-----------------------------------------------------------------------------
(* The inductive invariant.                                                *)

OnOne == running => selEnv \in Envs

NoneEmpty ==
    ~outside => \A e \in Envs : persisted[e].ns # {} /\ (e \notin bare => env[e].ns # {})

\* A location without a handle has no property.
Bare == \A e \in Envs : e \in bare => env[e] = Nothing

Marked == running /\ typed # {} => mod[selEnv]

\* The widgets are those of what the location has.
Exact == ~outside /\ selEnv \notin bare

\* What the open dialog shows of the services ns.
Shows(u, ns) ==
    /\ u.cb = ns /\ u.cb # {}
    /\ u.num = Cardinality(u.cb)
    /\ Cardinality(u.cb) = 1 => u.cb \cap u.sens = {}
    /\ (u.defBtn <=> u.num = 1)

DialogInv ==
    PrefTypeOK /\ OnOne /\ NoneEmpty /\ Bare /\ ServicesShown /\ Marked /\ TypingSurvives

-----------------------------------------------------------------------------
(* The contents of locations and widgets.                                  *)

LEMMA ServicesFinite ==
    /\ IsFiniteSet(Services) /\ Cardinality(Services) <= 4
    /\ \A S \in SUBSET Services : /\ IsFiniteSet(S) /\ Cardinality(S) \in 0 .. 4
                                  /\ Cardinality(S) = 0 <=> S = {}
                                  /\ Cardinality(S) = 1 <=> \E x : S = {x}
<1> DEFINE A == {"files"} \cup {"dns"}
           B == A \cup {"nis"}
           C == B \cup {"ldap"}
<1>1. IsFiniteSet({"files"}) /\ Cardinality({"files"}) = 1
  BY FS_Singleton
<1>2. IsFiniteSet(A) /\ Cardinality(A) <= 2
  BY <1>1, FS_AddElement
<1>3. IsFiniteSet(B) /\ Cardinality(B) <= 3
  <2>1. Cardinality(A) \in Nat
    BY <1>2, FS_CardinalityType
  <2> HIDE DEF A
  <2> QED BY <1>2, <2>1, FS_AddElement
<1>4. IsFiniteSet(C) /\ Cardinality(C) <= 4
  <2>1. Cardinality(B) \in Nat
    BY <1>3, FS_CardinalityType
  <2> HIDE DEF B
  <2> QED BY <1>3, <2>1, FS_AddElement
<1>5. C = Services
  BY DEF Services
<1>6. IsFiniteSet(Services) /\ Cardinality(Services) <= 4 /\ Cardinality(Services) \in Nat
  BY <1>4, <1>5, FS_CardinalityType
<1>7. ASSUME NEW S \in SUBSET Services
      PROVE  /\ IsFiniteSet(S) /\ Cardinality(S) \in 0 .. 4
             /\ Cardinality(S) = 0 <=> S = {}
             /\ Cardinality(S) = 1 <=> \E x : S = {x}
  <2>1. IsFiniteSet(S) /\ Cardinality(S) <= Cardinality(Services)
    BY <1>6, FS_Subset
  <2>2. Cardinality(S) \in Nat
    BY <2>1, FS_CardinalityType
  <2>3. Cardinality(S) = 0 <=> S = {}
    BY <2>1, FS_EmptySet
  <2>4. Cardinality(S) = 1 <=> \E x : S = {x}
    BY <2>1, FS_Singleton
  <2>5. Cardinality(S) \in 0 .. 4
    BY <1>6, <2>1, <2>2
  <2> QED BY <2>1, <2>3, <2>4, <2>5, Zenon
<1> QED BY <1>6, <1>7

LEMMA ContentFields ==
    ASSUME NEW c \in Settings
    PROVE  /\ c.ns \in SUBSET Services /\ c.src \in [Sourced -> {"dhcp", "manual"}]
           /\ c.text \in [Fields -> 0 .. 1] /\ c.file \in Services \cup {Own, Unset}
           /\ c.sec \in 0 .. 1
BY DEF Settings

LEMMA WidgetFields ==
    ASSUME NEW u \in Widgets
    PROVE  /\ u.cb \in SUBSET Services /\ u.sens \in SUBSET Services
           /\ u.rb \in [Sourced -> {"dhcp", "manual"}] /\ u.entry \in [Fields -> 0 .. 1]
           /\ u.excl \in SUBSET {"search", "domain"} /\ u.num \in 0 .. 4
           /\ u.file \in Services \cup {Own, Unset} /\ u.defBtn \in BOOLEAN
           /\ u.secCb \in BOOLEAN /\ u.secFile \in 0 .. 1
BY DEF Widgets

LEMMA MakeWidgets ==
    ASSUME NEW cb \in SUBSET Services, NEW sens \in SUBSET Services,
           NEW rb \in [Sourced -> {"dhcp", "manual"}], NEW entry \in [Fields -> 0 .. 1],
           NEW excl \in SUBSET {"search", "domain"}, NEW num \in 0 .. 4,
           NEW file \in Services \cup {Own, Unset}, NEW defBtn \in BOOLEAN,
           NEW secCb \in BOOLEAN, NEW secFile \in 0 .. 1
    PROVE  [cb |-> cb, sens |-> sens, rb |-> rb, entry |-> entry, excl |-> excl, num |-> num,
            file |-> file, defBtn |-> defBtn, secCb |-> secCb, secFile |-> secFile] \in Widgets
BY DEF Widgets

\* What updating the widgets of the switch file changes.
LEMMA UpdateFacts ==
    ASSUME NEW u \in Widgets, NEW c \in Settings
    PROVE  /\ UpdateSwitch(u, c) \in Widgets
           /\ UpdateSwitch(u, c).cb = u.cb /\ UpdateSwitch(u, c).sens = u.sens
           /\ UpdateSwitch(u, c).num = u.num /\ UpdateSwitch(u, c).entry = u.entry
           /\ (UpdateSwitch(u, c).defBtn <=> u.num = 1)
<1>1. Exclusive(u) \in SUBSET {"search", "domain"}
  BY DEF Exclusive
<1>2. c.file \in Services \cup {Own, Unset}
  BY ContentFields
<1> DEFINE f == IF u.num = 1 /\ {c.file} = c.ns THEN Unset ELSE c.file
           b == u.num = 1
<1>3. f \in Services \cup {Own, Unset} /\ b \in BOOLEAN
  BY <1>2
<1>4. UpdateSwitch(u, c) = [u EXCEPT !.excl = Exclusive(u), !.file = f, !.defBtn = b]
  BY DEF UpdateSwitch
<1> HIDE DEF f, b
<1>5. /\ [u EXCEPT !.excl = Exclusive(u), !.file = f, !.defBtn = b] \in Widgets
      /\ [u EXCEPT !.excl = Exclusive(u), !.file = f, !.defBtn = b].cb = u.cb
      /\ [u EXCEPT !.excl = Exclusive(u), !.file = f, !.defBtn = b].sens = u.sens
      /\ [u EXCEPT !.excl = Exclusive(u), !.file = f, !.defBtn = b].num = u.num
      /\ [u EXCEPT !.excl = Exclusive(u), !.file = f, !.defBtn = b].entry = u.entry
      /\ [u EXCEPT !.excl = Exclusive(u), !.file = f, !.defBtn = b].defBtn = b
  BY <1>1, <1>3 DEF Widgets
<1> QED BY <1>4, <1>5 DEF b

\* Filling the Security page changes its own widgets only.
LEMMA SecurityFacts ==
    ASSUME NEW u \in Widgets, NEW c \in Settings
    PROVE  /\ FillSecurity(u, c) \in Widgets
           /\ FillSecurity(u, c).cb = u.cb /\ FillSecurity(u, c).sens = u.sens
           /\ FillSecurity(u, c).num = u.num
           /\ (FillSecurity(u, c).defBtn <=> u.defBtn)
<1> DEFINE b == c.sec = 1
           f == IF c.sec = 1 THEN 1 ELSE u.secFile
           v == [u EXCEPT !.secCb = b, !.secFile = f]
<1>1. b \in BOOLEAN /\ f \in 0 .. 1
  BY WidgetFields
<1>2. FillSecurity(u, c) = v
  BY DEF FillSecurity, Widgets
<1> HIDE DEF b, f
<1>3. v \in Widgets /\ v.cb = u.cb /\ v.sens = u.sens /\ v.num = u.num /\ v.defBtn = u.defBtn
  BY <1>1 DEF Widgets
<1> HIDE DEF v
<1> QED BY <1>2, <1>3

\* The sensitive boxes never hold the only service.
LEMMA BoxesFacts ==
    ASSUME NEW cb \in SUBSET Services, NEW n \in Nat
    PROVE  /\ SensitiveBoxes(cb, n) \in SUBSET Services
           /\ n = 1 => cb \cap SensitiveBoxes(cb, n) = {}
<1>1. SensitiveBoxes(cb, n) \in SUBSET Services
  BY DEF SensitiveBoxes
<1>2. ASSUME n = 1, NEW s \in cb PROVE s \notin SensitiveBoxes(cb, n)
  <2>1. ~(n > 1)
    BY <1>2
  <2> QED BY <2>1 DEF SensitiveBoxes
<1> QED BY <1>1, <1>2

\* After the dialog was filled it shows the services of the location.
LEMMA FillFacts ==
    ASSUME ui \in Widgets, NEW c \in Settings
    PROVE  /\ Fill(c) \in Widgets
           /\ c.ns # {} => Shows(Fill(c), c.ns) /\ ~Crashes(Fill(c), c)
<1> DEFINE n == Cardinality(c.ns)
           boxes == SensitiveBoxes(c.ns, n)
           uses(f) == \/ f = "default" \/ f \in c.ns
                      \/ f \in {"search", "domain"} /\ "dns" \in c.ns
           radios == [s \in Sourced |-> IF s \in c.ns THEN c.src[s] ELSE ui.rb[s]]
           texts == [f \in Fields |-> IF uses(f) /\ (c.text[f] = 1 \/ f = "domain")
                                      THEN c.text[f] ELSE ui.entry[f]]
           filled == [ui EXCEPT !.cb = c.ns, !.num = n, !.sens = boxes,
                                !.rb = radios, !.entry = texts]
           switched == UpdateSwitch(filled, c)
<1>1. c.ns \in SUBSET Services /\ c.src \in [Sourced -> {"dhcp", "manual"}]
      /\ c.text \in [Fields -> 0 .. 1]
  BY ContentFields
<1>2. ui.rb \in [Sourced -> {"dhcp", "manual"}] /\ ui.entry \in [Fields -> 0 .. 1]
  BY WidgetFields
<1>3. n \in 0 .. 4
  BY <1>1, ServicesFinite
<1>4. boxes \in SUBSET Services /\ (n = 1 => c.ns \cap boxes = {})
  BY <1>1, <1>3, BoxesFacts
<1>5. radios \in [Sourced -> {"dhcp", "manual"}]
  BY <1>1, <1>2
<1>6. texts \in [Fields -> 0 .. 1]
  <2> HIDE DEF uses
  <2> QED BY <1>1, <1>2
<1>7. Fill(c) = FillSecurity(switched, c)
  BY DEF Fill
<1> HIDE DEF boxes, radios, texts, n
<1>8. filled \in Widgets /\ filled.cb = c.ns /\ filled.num = n /\ filled.sens = boxes
  BY <1>1, <1>3, <1>4, <1>5, <1>6 DEF Widgets
<1> HIDE DEF filled
<1>9. /\ switched \in Widgets /\ switched.cb = c.ns /\ switched.num = n /\ switched.sens = boxes
      /\ (switched.defBtn <=> n = 1)
  BY <1>8, UpdateFacts
<1> HIDE DEF switched
<1>10. /\ Fill(c) \in Widgets /\ Fill(c).cb = c.ns /\ Fill(c).num = n /\ Fill(c).sens = boxes
       /\ (Fill(c).defBtn <=> n = 1)
  BY <1>7, <1>9, SecurityFacts
<1> HIDE DEF n
<1>11. ASSUME c.ns # {} PROVE Shows(Fill(c), c.ns)
  BY <1>4, <1>10, <1>11 DEF Shows, n
<1>12. ASSUME c.ns # {} PROVE ~Crashes(Fill(c), c)
  BY <1>12 DEF Crashes
<1> QED BY <1>10, <1>11, <1>12

\* The types of the state, one by one.
LEMMA TypePieces ==
    ASSUME PrefTypeOK
    PROVE  /\ persisted \in [Envs -> Settings] /\ env \in [Envs -> Settings]
           /\ bare \in SUBSET Envs
           /\ mod \in [Envs -> BOOLEAN] /\ pending \in SUBSET Envs
           /\ ui \in Widgets /\ typed \in SUBSET Fields
           /\ \A e \in Envs : env[e] \in Settings /\ persisted[e] \in Settings
BY DEF PrefTypeOK

LEMMA NothingFacts == Nothing \in Settings /\ Nothing.ns = {}
BY DEF Nothing, Settings

\* A location with a handle takes what is set, the others keep what they have.
LEMMA TakesFacts ==
    ASSUME DialogInv, selEnv \in Envs, NEW d \in Settings
    PROVE  /\ Takes(d) \in Settings
           /\ selEnv \in bare => Takes(d) = env[selEnv]
           /\ selEnv \notin bare => Takes(d) = d
BY TypePieces DEF DialogInv, Takes

\* What the open dialog shows while no location was read again underneath it.
LEMMA Shown ==
    ASSUME ServicesShown, running, Exact
    PROVE  ~dead /\ Shows(ui, env[selEnv].ns)
<1>1. /\ ~dead
      /\ ui.cb = env[selEnv].ns /\ ui.cb # {}
      /\ ui.num = Cardinality(ui.cb)
      /\ Cardinality(ui.cb) = 1 => ui.cb \cap ui.sens = {}
      /\ (ui.defBtn <=> ui.num = 1)
  BY Zenon DEF ServicesShown, Exact
<1> QED BY <1>1, Zenon DEF Shows

\* An action of the user in the open dialog, after which the location holds c.
LEMMA EditPreserves ==
    ASSUME DialogInv, MayClick, Clicked, NEW c \in Settings,
           env' = [env EXCEPT ![selEnv] = c], ui' \in Widgets, dead' \in BOOLEAN,
           Exact => c.ns # {} /\ Shows(ui', c.ns) /\ ~dead',
           selEnv \in bare => c = env[selEnv],
           mod' \in [Envs -> BOOLEAN], typed' \in SUBSET Fields, typed' # {} => mod'[selEnv],
           selEnv \notin bare => \A f \in typed' : c.text[f] = ui'.entry[f],
           UNCHANGED <<persisted, bare, pending, selEnv, running, outside, reconfigs>>
    PROVE  DialogInv'
<1>1. PrefTypeOK /\ OnOne /\ NoneEmpty /\ Bare /\ running /\ selEnv \in Envs
  BY DEF DialogInv, MayClick, OnOne
<1>2. clicks' \in 0 .. MaxClicks
  BY <1>1, ClicksAssumption DEF PrefTypeOK, MayClick, Clicked
<1>3. /\ env' \in [Envs -> Settings] /\ env'[selEnv] = c
      /\ \A e \in Envs : e # selEnv => env'[e] = env[e]
  BY <1>1, TypePieces
<1>4. PrefTypeOK'
  BY <1>1, <1>2, <1>3 DEF PrefTypeOK
<1>5. OnOne'
  BY <1>1 DEF OnOne
<1>6. NoneEmpty'
  <2> SUFFICES ASSUME ~outside', NEW e \in Envs
               PROVE  persisted'[e].ns # {} /\ (e \notin bare' => env'[e].ns # {})
    BY DEF NoneEmpty
  <2>1. persisted[e].ns # {} /\ (e \notin bare => env[e].ns # {})
    BY <1>1 DEF NoneEmpty
  <2>2. selEnv \notin bare => c.ns # {}
    BY DEF Exact
  <2> QED BY <1>3, <2>1, <2>2
<1>7. ServicesShown'
  <2> SUFFICES ASSUME running', Exact' PROVE ~dead' /\ Shows(ui', env'[selEnv'].ns)
    BY <1>4, Zenon DEF ServicesShown, Shows, Exact
  <2> QED BY <1>3 DEF Exact
<1>8. Marked'
  BY DEF Marked
<1>9. TypingSurvives'
  BY <1>3 DEF TypingSurvives
<1>10. Bare'
  BY <1>1, <1>3 DEF Bare
<1> QED BY <1>4, <1>5, <1>6, <1>7, <1>8, <1>9, <1>10 DEF DialogInv

\* An action that changes other widgets only.
LEMMA WidgetsPreserve ==
    ASSUME DialogInv, MayClick, Clicked, ui' \in Widgets,
           ui'.cb = ui.cb, ui'.sens = ui.sens, ui'.num = ui.num, ui'.entry = ui.entry,
           ui.num = 1 /\ ui.defBtn => ui'.defBtn, ui.num # 1 => (ui'.defBtn <=> ui.defBtn),
           UNCHANGED <<persisted, env, bare, mod, pending, selEnv, running, typed, outside, dead,
                       reconfigs>>
    PROVE  DialogInv'
<1>1. PrefTypeOK /\ ServicesShown /\ running /\ selEnv \in Envs
  BY DEF DialogInv, MayClick, OnOne
<1>2. env[selEnv] \in Settings /\ env' = [env EXCEPT ![selEnv] = env[selEnv]]
  BY <1>1, TypePieces
<1>3. ASSUME Exact PROVE env[selEnv].ns # {} /\ Shows(ui', env[selEnv].ns) /\ ~dead'
  <2>1. ~dead /\ Shows(ui, env[selEnv].ns)
    BY <1>1, <1>3, Shown
  <2>2. env[selEnv].ns # {}
    BY <2>1 DEF Shows
  <2>3. ui.defBtn <=> ui.num = 1
    BY <2>1, Zenon DEF Shows
  <2>4. ui'.defBtn <=> ui'.num = 1
    BY <2>3
  <2>5. /\ ui'.cb = env[selEnv].ns /\ ui'.cb # {} /\ ui'.num = Cardinality(ui'.cb)
        /\ Cardinality(ui'.cb) = 1 => ui'.cb \cap ui'.sens = {}
    BY <2>1 DEF Shows
  <2> QED BY <2>1, <2>2, <2>4, <2>5, Zenon DEF Shows
<1>4. /\ mod' \in [Envs -> BOOLEAN] /\ typed' \in SUBSET Fields /\ dead' \in BOOLEAN
  BY <1>1 DEF PrefTypeOK
<1>5. typed' # {} => mod'[selEnv]
  BY <1>1, Zenon DEF DialogInv, Marked
<1>6. selEnv \notin bare => \A f \in typed' : env[selEnv].text[f] = ui'.entry[f]
  BY <1>1 DEF DialogInv, TypingSurvives
<1> QED BY <1>2, <1>3, <1>4, <1>5, <1>6, EditPreserves

LEMMA OtherWidgetsPreserve ==
    ASSUME DialogInv, UseDefaultFile \/ ChooseFile \/ Secure
    PROVE  DialogInv'
<1>1. ui \in Widgets
  BY TypePieces DEF DialogInv
<1>2. CASE UseDefaultFile
  <2>1. ui' = [ui EXCEPT !.file = Unset]
    BY <1>2 DEF UseDefaultFile
  <2>2. /\ ui' \in Widgets /\ ui'.cb = ui.cb /\ ui'.sens = ui.sens /\ ui'.num = ui.num
        /\ ui'.entry = ui.entry /\ ui'.defBtn = ui.defBtn
    BY <1>1, <2>1 DEF Widgets
  <2>3. /\ MayClick /\ Clicked
        /\ UNCHANGED <<persisted, env, bare, mod, pending, selEnv, running, typed, outside, dead,
                       reconfigs>>
    BY <1>2 DEF UseDefaultFile
  <2> QED BY <2>2, <2>3, WidgetsPreserve
<1>3. CASE ChooseFile
  <2> DEFINE b == IF ui.num = 1 THEN TRUE ELSE ui.defBtn
  <2>1. ui' = [ui EXCEPT !.file = Own, !.defBtn = b]
    BY <1>1, <1>3 DEF ChooseFile, Widgets
  <2>2. b \in BOOLEAN /\ (ui.num = 1 => b) /\ (ui.num # 1 => b = ui.defBtn)
    BY <1>1 DEF Widgets
  <2> HIDE DEF b
  <2>3. /\ ui' \in Widgets /\ ui'.cb = ui.cb /\ ui'.sens = ui.sens /\ ui'.num = ui.num
        /\ ui'.entry = ui.entry /\ ui'.defBtn = b
    BY <1>1, <2>1, <2>2 DEF Widgets
  <2>4. /\ MayClick /\ Clicked
        /\ UNCHANGED <<persisted, env, bare, mod, pending, selEnv, running, typed, outside, dead,
                       reconfigs>>
    BY <1>3 DEF ChooseFile
  <2>5. ui.num = 1 => ui'.defBtn
    BY <2>2, <2>3
  <2>6. ui.num # 1 => (ui'.defBtn <=> ui.defBtn)
    BY <2>2, <2>3
  <2> HIDE DEF b
  <2> QED BY <2>3, <2>4, <2>5, <2>6, WidgetsPreserve
<1>4. CASE Secure
  <2> DEFINE b == ~ui.secCb
  <2>1. \/ ui' = [ui EXCEPT !.secCb = b]
        \/ ui' = [ui EXCEPT !.secFile = 1]
    BY <1>1, <1>4 DEF Secure, Widgets
  <2> b \in BOOLEAN
    OBVIOUS
  <2> HIDE DEF b
  <2>2. /\ ui' \in Widgets /\ ui'.cb = ui.cb /\ ui'.sens = ui.sens /\ ui'.num = ui.num
        /\ ui'.entry = ui.entry /\ ui'.defBtn = ui.defBtn
    BY <1>1, <2>1 DEF Widgets
  <2>3. /\ MayClick /\ Clicked
        /\ UNCHANGED <<persisted, env, bare, mod, pending, selEnv, running, typed, outside, dead,
                       reconfigs>>
    BY <1>4 DEF Secure
  <2> QED BY <2>2, <2>3, WidgetsPreserve
<1> QED BY <1>2, <1>3, <1>4

\* The active boxes and the other widgets after the check box of s was clicked.
Toggled(s) == IF s \in ui.cb THEN ui.cb \ {s} ELSE ui.cb \cup {s}

LEMMA ServiceFacts ==
    ASSUME ui \in Widgets, NEW s \in Services, NEW ns \in SUBSET Services
    PROVE  /\ ServiceWidgets(s, ns) \in Widgets
           /\ ServiceWidgets(s, ns).cb = Toggled(s) /\ ServiceWidgets(s, ns).entry = ui.entry
           /\ Toggled(s) = ns /\ ns # {} =>
                /\ ServiceWidgets(s, ns).num = Cardinality(ns)
                /\ Cardinality(ns) = 1 => ns \cap ServiceWidgets(s, ns).sens = {}
<1> DEFINE cb == Toggled(s)
           n == IF s \in cb /\ ns = {} THEN 1 ELSE Cardinality(ns)
           boxes == SensitiveBoxes(cb, n)
           radios == [t \in Sourced |-> IF t = s /\ s \in cb /\ s \notin env[selEnv].ns
                                        THEN "dhcp" ELSE ui.rb[t]]
           u == [ui EXCEPT !.cb = cb, !.num = n, !.sens = boxes, !.rb = radios]
<1>1. cb \in SUBSET Services
  BY WidgetFields DEF Toggled
<1>2. Cardinality(ns) \in 0 .. 4
  BY ServicesFinite
<1>3. n \in 0 .. 4
  BY <1>2
<1>4. boxes \in SUBSET Services /\ (n = 1 => cb \cap boxes = {})
  BY <1>1, <1>3, BoxesFacts
<1>5. radios \in [Sourced -> {"dhcp", "manual"}]
  BY WidgetFields
<1>6. ServiceWidgets(s, ns) = u
  BY DEF ServiceWidgets, Widgets, Toggled
<1>7. ns # {} => n = Cardinality(ns)
  OBVIOUS
<1> HIDE DEF n, boxes, radios, cb
<1>8. /\ u \in Widgets /\ u.cb = cb /\ u.num = n /\ u.sens = boxes /\ u.entry = ui.entry
  BY <1>1, <1>3, <1>4, <1>5 DEF Widgets
<1> HIDE DEF u
<1> QED BY <1>4, <1>6, <1>7, <1>8 DEF cb

\* on_ns_selection_clicked() keeps the boxes and the services alike, and one
\* of them.
LEMMA ToggleServicePreserves ==
    ASSUME DialogInv, NEW s \in Services, ToggleService(s)
    PROVE  DialogInv'
<1>1. MayClick /\ Clicked /\ s \in ui.sens /\ selEnv \in Envs /\ running
  BY DEF ToggleService, DialogInv, OnOne, MayClick
<1>2. PrefTypeOK /\ ServicesShown /\ TypingSurvives /\ ui \in Widgets /\ env[selEnv] \in Settings
  BY <1>1, TypePieces DEF DialogInv
<1> DEFINE old == env[selEnv]
           adds == s \notin ui.cb
           ns == IF adds THEN (IF old.ns = {} THEN {} ELSE old.ns \cup {s}) ELSE old.ns \ {s}
           u == ServiceWidgets(s, ns)
           cb == Toggled(s)
           src == [t \in Sourced |-> IF t = s /\ adds /\ s \notin old.ns
                                     THEN "dhcp" ELSE old.src[t]]
           kept(written) == IF written THEN ns ELSE old.ns
           d(written) == [old EXCEPT !.ns = kept(written), !.src = src]
           c(written) == Takes(d(written))
<1>3. PICK written \in BOOLEAN :
         /\ written \/ ns = {}
         /\ env' = [env EXCEPT ![selEnv] = c(written)]
         /\ ui' = UpdateSwitch(u, c(written))
         /\ dead' = Crashes(u, c(written))
  <2>1. \E written \in BOOLEAN :
             /\ written \/ ns = {}
             /\ LET k == Takes([old EXCEPT !.ns = IF written THEN ns ELSE @,
                                     !.src = [t \in Sourced |->
                                        IF t = s /\ adds /\ s \notin old.ns THEN "dhcp" ELSE @[t]]])
                IN  /\ env' = [env EXCEPT ![selEnv] = k]
                    /\ ui' = UpdateSwitch(u, k)
                    /\ dead' = Crashes(u, k)
    BY DEF ToggleService
  <2>2. ASSUME NEW written
        PROVE  d(written) = [old EXCEPT !.ns = IF written THEN ns ELSE @,
                                     !.src = [t \in Sourced |->
                                        IF t = s /\ adds /\ s \notin old.ns THEN "dhcp" ELSE @[t]]]
    BY <1>2 DEF Settings
  <2> HIDE DEF ns, u, d, adds
  <2> QED BY <2>1, <2>2
<1>4. /\ old.ns \in SUBSET Services /\ old.src \in [Sourced -> {"dhcp", "manual"}]
      /\ old.text \in [Fields -> 0 .. 1]
  BY <1>2, ContentFields
<1>5. ns \in SUBSET Services /\ src \in [Sourced -> {"dhcp", "manual"}]
  BY <1>4
<1>6. kept(written) \in SUBSET Services
  BY <1>4, <1>5
<1> HIDE DEF src, kept
<1>7. /\ d(written) \in Settings /\ d(written).ns = kept(written)
      /\ d(written).text = old.text
  BY <1>2, <1>5, <1>6 DEF Settings
<1> HIDE DEF d
<1>17. /\ c(written) \in Settings
       /\ selEnv \in bare => c(written) = env[selEnv]
       /\ selEnv \notin bare => c(written) = d(written)
  BY <1>1, <1>7, TakesFacts
<1>8. ASSUME Exact PROVE cb = ns /\ ns # {} /\ kept(written) = ns
  <2>1. Shows(ui, old.ns)
    BY <1>1, <1>2, <1>8, Shown
  <2>2. ui.cb = old.ns /\ old.ns # {}
    BY <2>1 DEF Shows
  <2>3. cb = ns
    BY <2>2 DEF Toggled
  <2>4. ns # {}
    <3>1. CASE adds
      BY <2>2, <3>1
    <3>2. CASE ~adds
      <4>1. Cardinality(ui.cb) # 1
        BY <1>1, <2>1, <3>2 DEF Shows
      <4>2. ~\E x : old.ns = {x}
        BY <4>1, <2>2, <1>4, ServicesFinite
      <4>3. old.ns # {s}
        BY <4>2
      <4> QED BY <2>2, <3>2, <4>3
    <3> QED BY <3>1, <3>2
  <2>5. kept(written) = ns
    BY <1>3, <2>4 DEF kept
  <2> QED BY <2>3, <2>4, <2>5
<1>9. /\ u \in Widgets /\ u.cb = cb /\ u.entry = ui.entry
      /\ cb = ns /\ ns # {} => /\ u.num = Cardinality(ns)
                               /\ Cardinality(ns) = 1 => ns \cap u.sens = {}
  <2> HIDE DEF ns
  <2> QED BY <1>2, <1>5, ServiceFacts
<1> HIDE DEF u, ns, cb, c
<1>10. /\ ui' \in Widgets /\ ui'.cb = cb /\ ui'.sens = u.sens /\ ui'.num = u.num
       /\ ui'.entry = ui.entry
  BY <1>3, <1>17, <1>9, UpdateFacts
<1>11. ui'.defBtn <=> u.num = 1
  BY <1>3, <1>17, <1>9, UpdateFacts
<1>12. ASSUME Exact PROVE c(written).ns # {} /\ Shows(ui', c(written).ns) /\ ~dead'
  <2>1. /\ cb = ns /\ ns # {} /\ c(written).ns = ns
    BY <1>7, <1>8, <1>12, <1>17 DEF Exact
  <2>2. Shows(ui', ns)
    BY <1>9, <1>10, <1>11, <2>1 DEF Shows
  <2>3. ~dead'
    BY <1>3, <2>1 DEF Crashes
  <2> QED BY <2>1, <2>2, <2>3
<1>13. dead' \in BOOLEAN
  BY <1>3 DEF Crashes
<1>14. /\ mod' = [mod EXCEPT ![selEnv] = TRUE]
       /\ UNCHANGED <<persisted, bare, pending, selEnv, running, typed, outside, reconfigs>>
  BY DEF ToggleService
<1>15. mod' \in [Envs -> BOOLEAN] /\ mod'[selEnv] /\ typed' \in SUBSET Fields
  BY <1>1, <1>2, <1>14, TypePieces
<1>16. selEnv \notin bare => \A f \in typed' : c(written).text[f] = ui'.entry[f]
  BY <1>1, <1>2, <1>7, <1>10, <1>14, <1>17 DEF TypingSurvives
<1> QED BY <1>1, <1>3, <1>10, <1>12, <1>13, <1>14, <1>15, <1>16, <1>17, EditPreserves

\* The widgets of the services stay as they are: the open dialog still shows them.
LEMMA StillShown ==
    ASSUME DialogInv, running, Exact, NEW u, NEW c,
           u.cb = ui.cb, u.num = ui.num, u.sens = ui.sens,
           u.defBtn <=> u.num = 1, c.ns = env[selEnv].ns
    PROVE  c.ns # {} /\ Shows(u, c.ns) /\ ~dead
<1>1. ~dead /\ Shows(ui, env[selEnv].ns)
  BY Shown DEF DialogInv
<1>2. /\ u.cb = c.ns /\ c.ns # {} /\ u.num = Cardinality(u.cb)
      /\ Cardinality(u.cb) = 1 => u.cb \cap u.sens = {}
  BY <1>1 DEF Shows
<1> QED BY <1>1, <1>2, Zenon DEF Shows

LEMMA ToggleSourcePreserves ==
    ASSUME DialogInv, NEW s \in Sourced, ToggleSource(s)
    PROVE  DialogInv'
<1>1. MayClick /\ Clicked /\ selEnv \in Envs /\ running
  BY DEF ToggleSource, DialogInv, OnOne, MayClick
<1>2. PrefTypeOK /\ TypingSurvives /\ ui \in Widgets /\ env[selEnv] \in Settings
  BY <1>1, TypePieces DEF DialogInv
<1> DEFINE v == IF ui.rb[s] = "dhcp" THEN "manual" ELSE "dhcp"
           d == [env[selEnv] EXCEPT !.src[s] = v]
           c == Takes(d)
           u == [ui EXCEPT !.rb[s] = v]
<1>3. env' = [env EXCEPT ![selEnv] = c] /\ ui' = UpdateSwitch(u, c) /\ dead' = Crashes(u, c)
  BY DEF ToggleSource
<1>4. v \in {"dhcp", "manual"}
  OBVIOUS
<1> HIDE DEF v
<1>14. d \in Settings /\ d.ns = env[selEnv].ns /\ d.text = env[selEnv].text
  BY <1>2, <1>4 DEF Settings
<1> HIDE DEF d
<1>15. /\ c \in Settings
       /\ selEnv \in bare => c = env[selEnv]
       /\ selEnv \notin bare => c = d
  BY <1>1, <1>14, TakesFacts
<1>5. c \in Settings /\ c.ns = env[selEnv].ns /\ c.text = env[selEnv].text
  BY <1>14, <1>15
<1>6. /\ u \in Widgets /\ u.cb = ui.cb /\ u.sens = ui.sens /\ u.num = ui.num
      /\ u.entry = ui.entry
  BY <1>2, <1>4 DEF Widgets
<1> HIDE DEF c, u
<1>7. /\ ui' \in Widgets /\ ui'.cb = ui.cb /\ ui'.sens = ui.sens /\ ui'.num = ui.num
      /\ ui'.entry = ui.entry
  BY <1>3, <1>5, <1>6, UpdateFacts
<1>8. ui'.defBtn <=> ui'.num = 1
  BY <1>3, <1>5, <1>6, <1>7, UpdateFacts
<1>9. ASSUME Exact PROVE c.ns # {} /\ Shows(ui', c.ns) /\ ~dead'
  <2>1. c.ns # {} /\ Shows(ui', c.ns)
    BY <1>1, <1>5, <1>7, <1>8, <1>9, StillShown
  <2> QED BY <1>3, <2>1 DEF Crashes
<1>10. dead' \in BOOLEAN
  BY <1>3 DEF Crashes
<1>11. /\ mod' = [mod EXCEPT ![selEnv] = TRUE]
       /\ UNCHANGED <<persisted, bare, pending, selEnv, running, typed, outside, reconfigs>>
  BY DEF ToggleSource
<1>12. mod' \in [Envs -> BOOLEAN] /\ mod'[selEnv] /\ typed' \in SUBSET Fields
  BY <1>1, <1>2, <1>11, TypePieces
<1>13. selEnv \notin bare => \A f \in typed' : c.text[f] = ui'.entry[f]
  BY <1>1, <1>2, <1>5, <1>7, <1>11 DEF TypingSurvives
<1> QED BY <1>1, <1>3, <1>5, <1>7, <1>9, <1>10, <1>11, <1>12, <1>13, <1>15, EditPreserves

\* What is typed goes into the location and into the entry.
LEMMA TypeTextPreserves ==
    ASSUME DialogInv, NEW f \in Fields, TypeText(f)
    PROVE  DialogInv'
<1>1. MayClick /\ Clicked /\ selEnv \in Envs /\ running
  BY DEF TypeText, DialogInv, OnOne, MayClick
<1>2. PrefTypeOK /\ ServicesShown /\ TypingSurvives /\ ui \in Widgets /\ env[selEnv] \in Settings
  BY <1>1, TypePieces DEF DialogInv
<1> DEFINE t == 1 - ui.entry[f]
           other == {"search", "domain"} \ {f}
           excl == IF f \notin {"search", "domain"} THEN ui.excl
                   ELSE IF t = 1 THEN ui.excl \ other ELSE ui.excl \cup other
           d == [env[selEnv] EXCEPT !.text[f] = t]
           c == Takes(d)
           u == [ui EXCEPT !.entry[f] = t, !.excl = excl]
<1>3. env' = [env EXCEPT ![selEnv] = c] /\ mod' = [mod EXCEPT ![selEnv] = TRUE]
  <2>1. Write(f, t)
    BY DEF TypeText
  <2>2. [env EXCEPT ![selEnv] = Takes([@ EXCEPT !.text[f] = t])] = [env EXCEPT ![selEnv] = c]
    BY <1>1, <1>2, TypePieces
  <2> QED BY <2>1, <2>2 DEF Write
<1>4. ui' = u
  BY <1>2 DEF TypeText, Widgets
<1>5. t \in 0 .. 1
  <2>1. ui.entry[f] \in 0 .. 1
    BY <1>2, WidgetFields
  <2> QED BY <2>1
<1>6. excl \in SUBSET {"search", "domain"}
  BY <1>2, WidgetFields
<1> HIDE DEF t, excl
<1>13. /\ d \in Settings /\ d.ns = env[selEnv].ns /\ d.text[f] = t
       /\ \A g \in Fields : g # f => d.text[g] = env[selEnv].text[g]
  BY <1>2, <1>5 DEF Settings
<1> HIDE DEF d
<1>14. /\ c \in Settings
       /\ selEnv \in bare => c = env[selEnv]
       /\ selEnv \notin bare => c = d
  BY <1>1, <1>13, TakesFacts
<1>7. c \in Settings /\ c.ns = env[selEnv].ns
  BY <1>13, <1>14
<1>8. /\ u \in Widgets /\ u.cb = ui.cb /\ u.sens = ui.sens /\ u.num = ui.num
      /\ u.defBtn = ui.defBtn /\ u.entry[f] = t
      /\ \A g \in Fields : g # f => u.entry[g] = ui.entry[g]
  BY <1>2, <1>5, <1>6 DEF Widgets
<1> HIDE DEF c, u
<1>9. typed' = typed \cup {f} /\ UNCHANGED <<persisted, bare, pending, selEnv, running, outside, dead, reconfigs>>
  BY DEF TypeText
<1>10. ASSUME Exact PROVE c.ns # {} /\ Shows(ui', c.ns) /\ ~dead'
  <2>1. ui.defBtn <=> ui.num = 1
    BY <1>1, <1>2, <1>10, Shown, Zenon DEF Shows
  <2>2. u.defBtn <=> u.num = 1
    BY <1>8, <2>1
  <2>3. c.ns # {} /\ Shows(u, c.ns) /\ ~dead
    BY <1>1, <1>7, <1>8, <1>10, <2>2, StillShown
  <2> QED BY <1>4, <1>9, <2>3
<1>11. /\ mod' \in [Envs -> BOOLEAN] /\ mod'[selEnv] /\ typed' \in SUBSET Fields
       /\ dead' \in BOOLEAN /\ ui' \in Widgets
  BY <1>1, <1>2, <1>3, <1>4, <1>8, <1>9 DEF PrefTypeOK
<1>12. selEnv \notin bare => \A g \in typed' : c.text[g] = ui'.entry[g]
  BY <1>1, <1>2, <1>4, <1>8, <1>9, <1>13, <1>14 DEF TypingSurvives, PrefTypeOK
<1> QED BY <1>1, <1>3, <1>7, <1>9, <1>10, <1>11, <1>12, <1>14, EditPreserves

\* Opening the dialog fills it from the location.
LEMMA ShowPreserves ==
    ASSUME DialogInv, NEW e \in Envs, Show(e)
    PROVE  DialogInv'
<1>1. PrefTypeOK /\ NoneEmpty /\ Bare /\ ui \in Widgets /\ env[e] \in Settings
  BY TypePieces DEF DialogInv
<1>2. /\ selEnv' = e /\ ui' = Fill(env[e]) /\ running' = TRUE /\ typed' = {}
      /\ UNCHANGED <<persisted, env, bare, mod, pending, outside, clicks, reconfigs>>
  BY DEF Show
<1>3. dead' = Crashes(ui', env[e])
  BY DEF Show
<1>4. ui' \in Widgets
  BY <1>1, <1>2, FillFacts
<1>5. dead' \in BOOLEAN
  BY <1>3 DEF Crashes
<1>6. PrefTypeOK'
  BY <1>1, <1>2, <1>4, <1>5 DEF PrefTypeOK
<1>7. OnOne' /\ NoneEmpty' /\ Bare' /\ Marked' /\ TypingSurvives'
  BY <1>1, <1>2 DEF OnOne, NoneEmpty, Bare, Marked, TypingSurvives
<1>8. ServicesShown'
  <2> SUFFICES ASSUME Exact' PROVE ~dead' /\ Shows(ui', env'[selEnv'].ns)
    BY <1>6, Zenon DEF ServicesShown, Shows, Exact
  <2>1. env[e].ns # {}
    BY <1>1, <1>2 DEF NoneEmpty, Exact
  <2>2. Shows(Fill(env[e]), env[e].ns) /\ ~Crashes(Fill(env[e]), env[e])
    BY <1>1, <2>1, FillFacts
  <2> QED BY <1>2, <1>3, <2>2
<1> QED BY <1>6, <1>7, <1>8 DEF DialogInv

\* Applying writes the files only, and what was not saved stays marked.
LEMMA ApplyPreserves ==
    ASSUME DialogInv, NEW ok \in BOOLEAN, Apply(ok)
    PROVE  DialogInv'
<1>1. running /\ ~dead /\ selEnv \in Envs
  BY DEF Apply, Answers, DialogInv, OnOne
<1>2. /\ PrefTypeOK /\ NoneEmpty /\ Bare /\ Marked /\ ServicesShown /\ TypingSurvives /\ ui \in Widgets
      /\ env[selEnv] \in Settings
  BY <1>1, TypePieces DEF DialogInv
<1> DEFINE sec == IF ui.secCb THEN ui.secFile ELSE 0
           d == [env[selEnv] EXCEPT !.file = ui.file, !.sec = sec]
           c == Takes(d)
<1>3. /\ env' = [env EXCEPT ![selEnv] = c]
      /\ UNCHANGED <<bare, selEnv, ui, outside, dead, clicks, reconfigs>>
  BY DEF Apply
<1>4. PICK saved \in BOOLEAN :
         /\ saved => selEnv \notin bare
         /\ mod' = [mod EXCEPT ![selEnv] = ~saved]
         /\ persisted' = IF saved THEN [persisted EXCEPT ![selEnv] = c] ELSE persisted
         /\ pending' = IF saved THEN pending \cup {selEnv} ELSE pending
         /\ running' = ~((saved \/ selEnv \in bare) /\ ok)
         /\ typed' = IF saved THEN {} ELSE typed
  BY DEF Apply
<1>5. sec \in 0 .. 1 /\ ui.file \in Services \cup {Own, Unset}
  BY <1>2, WidgetFields
<1> HIDE DEF sec
<1>16. d \in Settings /\ d.ns = env[selEnv].ns /\ d.text = env[selEnv].text
  BY <1>2, <1>5 DEF Settings
<1> HIDE DEF d
<1>17. /\ c \in Settings
       /\ selEnv \in bare => c = env[selEnv]
       /\ selEnv \notin bare => c = d
  BY <1>1, <1>16, TakesFacts
<1>6. c \in Settings /\ c.ns = env[selEnv].ns /\ c.text = env[selEnv].text
  BY <1>16, <1>17
<1> HIDE DEF c
<1>7. /\ env' \in [Envs -> Settings] /\ env'[selEnv] = c
      /\ \A e \in Envs : e # selEnv => env'[e] = env[e]
  BY <1>1, <1>2, <1>3, <1>6, TypePieces
<1>8. /\ persisted' \in [Envs -> Settings]
      /\ \A e \in Envs : \/ persisted'[e] = persisted[e]
                         \/ e = selEnv /\ persisted'[e] = c /\ selEnv \notin bare
  BY <1>1, <1>2, <1>4, <1>6, TypePieces
<1>9. /\ mod' \in [Envs -> BOOLEAN] /\ pending' \in SUBSET Envs /\ typed' \in SUBSET Fields
      /\ running' \in BOOLEAN
  BY <1>1, <1>2, <1>4, TypePieces
<1>10. PrefTypeOK'
  BY <1>2, <1>3, <1>7, <1>8, <1>9 DEF PrefTypeOK
<1>11. OnOne'
  BY <1>1, <1>3 DEF OnOne
<1>12. NoneEmpty'
  <2> SUFFICES ASSUME ~outside', NEW e \in Envs
               PROVE  persisted'[e].ns # {} /\ (e \notin bare' => env'[e].ns # {})
    BY DEF NoneEmpty
  <2>1. persisted[e].ns # {} /\ (e \notin bare => env[e].ns # {})
    BY <1>2, <1>3 DEF NoneEmpty
  <2> QED BY <1>3, <1>6, <1>7, <1>8, <2>1
<1>13. ServicesShown'
  <2> SUFFICES ASSUME running', Exact' PROVE ~dead' /\ Shows(ui', env'[selEnv'].ns)
    BY <1>10, Zenon DEF ServicesShown, Shows, Exact
  <2>1. ~dead /\ Shows(ui, env[selEnv].ns)
    BY <1>1, <1>2, <1>3, Shown DEF Exact
  <2> QED BY <1>3, <1>6, <1>7, <2>1
<1>14. Marked'
  <2>1. typed' # {} => ~saved
    BY <1>4
  <2>2. typed' # {} => mod'[selEnv]
    BY <1>1, <1>2, <1>4, <2>1, TypePieces
  <2> QED BY <1>3, <2>2 DEF Marked
<1>15. TypingSurvives'
  BY <1>1, <1>2, <1>3, <1>4, <1>6, <1>7 DEF TypingSurvives
<1>18. Bare'
  BY <1>2, <1>3, <1>7, <1>17 DEF Bare
<1> QED BY <1>10, <1>11, <1>12, <1>13, <1>14, <1>15, <1>18 DEF DialogInv

\* A closed dialog shows nothing and has nothing to keep.
LEMMA ClosedPreserves ==
    ASSUME PrefTypeOK', NoneEmpty', Bare', running' = FALSE
    PROVE  DialogInv'
<1>1. ServicesShown'
  BY Zenon DEF ServicesShown
<1> QED BY <1>1 DEF DialogInv, OnOne, Marked, TypingSurvives

\* What reading the locations es again leaves.
LEMMA ReadAgainFacts ==
    ASSUME DialogInv, NEW es \in SUBSET Envs, NEW failed, ReadAgain(es, failed)
    PROVE  /\ env' \in [Envs -> Settings] /\ bare' \in SUBSET Envs /\ mod' \in [Envs -> BOOLEAN]
           /\ Bare'
           /\ \A e \in es : e \notin bare' => env'[e] = persisted[e]
           /\ \A e \in Envs \ es : /\ env'[e] = env[e] /\ (e \in bare' <=> e \in bare)
                                  /\ (mod'[e] <=> mod[e])
<1>1. PrefTypeOK /\ Bare /\ Nothing \in Settings
  BY NothingFacts DEF DialogInv
<1>2. /\ failed \subseteq es
      /\ env' = [e \in Envs |-> IF e \in failed THEN Nothing
                               ELSE IF e \in es THEN persisted[e] ELSE env[e]]
      /\ bare' = (bare \ es) \cup failed
  BY DEF ReadAgain
<1>3. mod' = [e \in Envs |-> mod[e] /\ e \notin es]
  BY DEF ReadAgain
<1>4. mod' \in [Envs -> BOOLEAN] /\ \A e \in Envs \ es : mod'[e] <=> mod[e]
  BY <1>3
<1>5. env' \in [Envs -> Settings] /\ bare' \in SUBSET Envs
  BY <1>1, <1>2, TypePieces
<1>6. Bare'
  BY <1>1, <1>2 DEF Bare
<1>7. \A e \in es : e \notin bare' => env'[e] = persisted[e]
  BY <1>2
<1>8. \A e \in Envs \ es : env'[e] = env[e] /\ (e \in bare' <=> e \in bare)
  BY <1>2
<1> QED BY <1>4, <1>5, <1>6, <1>7, <1>8

LEMMA FailuresBound ==
    ASSUME DialogInv, NEW failed, FailuresCount(failed)
    PROVE  reconfigs' \in 0 .. MaxReconfigs
<1>1. reconfigs \in 0 .. MaxReconfigs
  BY DEF DialogInv, PrefTypeOK
<1> QED BY <1>1, ClicksAssumption DEF FailuresCount

LEMMA CancelPreserves ==
    ASSUME DialogInv, Discard
    PROVE  DialogInv'
<1>1. running /\ selEnv \in Envs /\ PrefTypeOK /\ NoneEmpty
  BY DEF Discard, Answers, DialogInv, OnOne
<1>2. PICK failed \in SUBSET {selEnv} : ReadAgain({selEnv}, failed) /\ FailuresCount(failed)
  BY DEF Discard
<1>3. /\ running' = FALSE /\ typed' = {}
      /\ UNCHANGED <<persisted, pending, selEnv, ui, outside, dead, clicks>>
  BY DEF Discard
<1>4. /\ env' \in [Envs -> Settings] /\ bare' \in SUBSET Envs /\ mod' \in [Envs -> BOOLEAN]
      /\ Bare'
      /\ \A e \in Envs : \/ e \in bare'
                         \/ env'[e] = persisted[e]
                         \/ env'[e] = env[e] /\ e \notin bare
  <2> DEFINE es == {selEnv}
  <2>1. es \in SUBSET Envs /\ ReadAgain(es, failed)
    BY <1>1, <1>2
  <2> HIDE DEF es
  <2> QED BY <2>1, ReadAgainFacts
<1>5. reconfigs' \in 0 .. MaxReconfigs
  BY <1>2, FailuresBound
<1>6. PrefTypeOK'
  BY <1>1, <1>3, <1>4, <1>5 DEF PrefTypeOK
<1>7. NoneEmpty'
  BY <1>1, <1>3, <1>4 DEF NoneEmpty
<1> QED BY <1>3, <1>4, <1>6, <1>7, ClosedPreserves

LEMMA RestartPreserves ==
    ASSUME DialogInv, Restart
    PROVE  DialogInv'
<1>1. PrefTypeOK /\ NoneEmpty
  BY DEF DialogInv
<1>2. /\ dead' = FALSE /\ env' = persisted /\ bare' = {} /\ mod' = [e \in Envs |-> FALSE] /\ pending' = {}
      /\ selEnv' = Unset /\ ui' = Started /\ running' = FALSE /\ typed' = {}
      /\ UNCHANGED <<persisted, outside, clicks, reconfigs>>
  BY DEF Restart
<1>3. Started \in Widgets
  BY DEF Started, Widgets
<1>4. PrefTypeOK'
  BY <1>1, <1>2, <1>3 DEF PrefTypeOK
<1>5. NoneEmpty'
  BY <1>1, <1>2 DEF NoneEmpty
<1>6. Bare'
  BY <1>2 DEF Bare
<1> QED BY <1>2, <1>4, <1>5, <1>6, ClosedPreserves

\* Locations are read again by an event: the one shown is not, or holds nothing
\* that the user typed.
LEMMA ReadPreserves ==
    ASSUME DialogInv, NEW es \in SUBSET Envs, NEW failed, ReadAgain(es, failed), NoteOutside,
           typed' \subseteq typed, running /\ selEnv \in es => typed' = {},
           pending' \in SUBSET Envs, reconfigs' \in 0 .. MaxReconfigs,
           UNCHANGED <<persisted, selEnv, ui, running, dead, clicks>>
    PROVE  DialogInv'
<1>1. /\ PrefTypeOK /\ OnOne /\ NoneEmpty /\ Bare /\ ServicesShown /\ Marked
      /\ TypingSurvives
  BY DEF DialogInv
<1>2. /\ env' \in [Envs -> Settings] /\ bare' \in SUBSET Envs /\ mod' \in [Envs -> BOOLEAN]
      /\ Bare'
      /\ \A e \in es : e \notin bare' => env'[e] = persisted[e]
      /\ \A e \in Envs \ es : /\ env'[e] = env[e] /\ (e \in bare' <=> e \in bare)
                             /\ (mod'[e] <=> mod[e])
  BY ReadAgainFacts
<1> DEFINE changed == \E e \in Envs : e = selEnv /\ env'[e] # env[e]
<1>3. outside' = (outside \/ (running /\ changed))
  BY DEF NoteOutside
<1>4. outside' \in BOOLEAN /\ (~outside' => ~outside)
  <2> HIDE DEF changed
  <2> QED BY <1>3
<1>5. ~outside' /\ running /\ selEnv \in Envs => env'[selEnv] = env[selEnv]
  <2> SUFFICES ASSUME ~outside', running, selEnv \in Envs PROVE env'[selEnv] = env[selEnv]
    OBVIOUS
  <2>1. ~changed
    <3> HIDE DEF changed
    <3> QED BY <1>3
  <2> QED BY <2>1
<1> HIDE DEF changed
<1>6. PrefTypeOK'
  BY <1>1, <1>2, <1>4 DEF PrefTypeOK
<1>7. OnOne'
  BY <1>1 DEF OnOne
<1>8. NoneEmpty'
  <2> SUFFICES ASSUME ~outside', NEW e \in Envs
               PROVE  persisted'[e].ns # {} /\ (e \notin bare' => env'[e].ns # {})
    BY DEF NoneEmpty
  <2>1. persisted[e].ns # {} /\ (e \notin bare => env[e].ns # {})
    BY <1>1, <1>4 DEF NoneEmpty
  <2> QED BY <1>2, <2>1
<1>9. ServicesShown'
  <2> SUFFICES ASSUME running', Exact' PROVE ~dead' /\ Shows(ui', env'[selEnv'].ns)
    BY <1>6, Zenon DEF ServicesShown, Shows, Exact
  <2>1. running /\ ~outside /\ ~outside' /\ selEnv \notin bare' /\ selEnv \in Envs
    BY <1>1, <1>4 DEF OnOne, Exact
  <2>2. env'[selEnv] = env[selEnv]
    BY <1>5, <2>1
  <2>3. selEnv \notin bare
    <3>1. CASE selEnv \in es
      <4>1. env[selEnv].ns # {}
        BY <1>1, <1>2, <2>1, <2>2, <3>1 DEF NoneEmpty
      <4> QED BY <1>1, <2>1, <4>1, NothingFacts DEF Bare
    <3>2. CASE selEnv \notin es
      BY <1>2, <2>1, <3>2
    <3> QED BY <3>1, <3>2
  <2>4. ~dead /\ Shows(ui, env[selEnv].ns)
    BY <1>1, <2>1, <2>3, Shown DEF Exact
  <2> QED BY <2>2, <2>4
<1>10. Marked'
  <2> SUFFICES ASSUME running', typed' # {} PROVE mod'[selEnv']
    BY DEF Marked
  <2>1. running /\ typed # {} /\ selEnv \in Envs \ es
    BY <1>1 DEF OnOne
  <2>2. mod[selEnv]
    BY <1>1, <2>1 DEF Marked
  <2> QED BY <1>2, <2>1, <2>2
<1>11. TypingSurvives'
  <2> SUFFICES ASSUME running', selEnv' \notin bare', NEW f \in typed'
               PROVE  env'[selEnv'].text[f] = ui'.entry[f]
    BY DEF TypingSurvives
  <2>1. running /\ f \in typed /\ selEnv \in Envs \ es
    BY <1>1 DEF OnOne
  <2>2. env'[selEnv] = env[selEnv] /\ selEnv \notin bare
    BY <1>2, <2>1
  <2> QED BY <1>1, <2>1, <2>2 DEF TypingSurvives
<1> QED BY <1>2, <1>6, <1>7, <1>8, <1>9, <1>10, <1>11 DEF DialogInv

\* A location that is marked is not read again.
LEMMA RefreshPreserves ==
    ASSUME DialogInv, NEW e \in Envs, Refresh(e)
    PROVE  DialogInv'
<1> DEFINE es == IF mod[e] THEN {} ELSE {e}
<1>1. PrefTypeOK /\ Marked
  BY DEF DialogInv
<1>2. PICK failed \in SUBSET es : ReadAgain(es, failed) /\ FailuresCount(failed)
  BY DEF Refresh
<1>3. /\ pending' = pending \ {e} /\ NoteOutside
      /\ UNCHANGED <<persisted, selEnv, ui, running, typed, dead, clicks>>
  BY DEF Refresh
<1>4. es \in SUBSET Envs
  OBVIOUS
<1>5. running /\ selEnv \in es => typed' = {}
  BY <1>1, <1>3 DEF Marked
<1>6. reconfigs' \in 0 .. MaxReconfigs
  BY <1>2, FailuresBound
<1>7. pending' \in SUBSET Envs
  BY <1>1, <1>3, TypePieces
<1> HIDE DEF es
<1> QED BY <1>2, <1>3, <1>4, <1>5, <1>6, <1>7, ReadPreserves

\* nwamd is there again: of a location read again nothing typed is left.
LEMMA ActivatePreserves ==
    ASSUME DialogInv, Activate
    PROVE  DialogInv'
<1>1. PICK es \in SUBSET Envs : \E failed \in SUBSET es :
          /\ ReadAgain(es, failed)
          /\ typed' = IF selEnv \in es THEN {} ELSE typed
  BY Zenon DEF Activate
<1>2. PICK failed \in SUBSET es :
          /\ ReadAgain(es, failed)
          /\ typed' = IF selEnv \in es THEN {} ELSE typed
  BY <1>1, Zenon
<1>3. /\ reconfigs < MaxReconfigs /\ reconfigs' = reconfigs + 1 /\ NoteOutside
      /\ UNCHANGED <<persisted, pending, selEnv, ui, running, dead, clicks>>
  BY DEF Activate
<1>4. typed' \subseteq typed /\ (running /\ selEnv \in es => typed' = {})
  BY <1>2
<1>5. reconfigs' \in 0 .. MaxReconfigs /\ pending' \in SUBSET Envs
  BY <1>3, ClicksAssumption DEF DialogInv, PrefTypeOK
<1> QED BY <1>2, <1>3, <1>4, <1>5, ReadPreserves

\* The administrator touches nothing the program has.
LEMMA ConfigurePreserves ==
    ASSUME DialogInv, NEW e \in Envs, Reconfigure(e)
    PROVE  DialogInv'
<1>1. /\ PrefTypeOK /\ OnOne /\ NoneEmpty /\ Bare /\ ServicesShown /\ Marked
      /\ TypingSurvives
  BY DEF DialogInv
<1>2. PICK c \in Presets : persisted' = [persisted EXCEPT ![e] = c]
  BY DEF Reconfigure
<1>3. /\ reconfigs < MaxReconfigs /\ pending' = pending \cup {e} /\ reconfigs' = reconfigs + 1
      /\ UNCHANGED <<env, bare, mod, selEnv, ui, running, typed, outside, dead, clicks>>
  BY DEF Reconfigure
<1>4. c \in Settings /\ c.ns # {}
  BY PresetsAssumption
<1>5. /\ persisted' \in [Envs -> Settings]
      /\ \A x \in Envs : persisted'[x] = persisted[x] \/ persisted'[x] = c
  BY <1>1, <1>2, <1>4, TypePieces
<1>6. PrefTypeOK'
  BY <1>1, <1>3, <1>5, ClicksAssumption DEF PrefTypeOK
<1>7. NoneEmpty'
  BY <1>1, <1>3, <1>4, <1>5 DEF NoneEmpty
<1>8. OnOne' /\ Bare' /\ Marked' /\ TypingSurvives'
  BY <1>1, <1>3 DEF OnOne, Bare, Marked, TypingSurvives
<1>9. ServicesShown'
  <2> SUFFICES ASSUME running', Exact' PROVE ~dead' /\ Shows(ui', env'[selEnv'].ns)
    BY <1>6, Zenon DEF ServicesShown, Shows, Exact
  <2> QED BY <1>1, <1>3, Shown DEF Exact
<1> QED BY <1>6, <1>7, <1>8, <1>9 DEF DialogInv

LEMMA InitInv == PrefInit => DialogInv
<1> SUFFICES ASSUME PrefInit PROVE DialogInv
  OBVIOUS
<1>1. /\ persisted \in [Envs -> Presets] /\ env = persisted /\ bare = {} /\ mod = [e \in Envs |-> FALSE]
      /\ pending = {} /\ selEnv = Unset /\ ui = Started /\ running = FALSE /\ typed = {}
      /\ outside = FALSE /\ dead = FALSE /\ clicks = 0 /\ reconfigs = 0
  BY DEF PrefInit
<1>2. persisted \in [Envs -> Settings] /\ \A e \in Envs : persisted[e].ns # {}
  BY <1>1, PresetsAssumption
<1>3. Started \in Widgets
  BY DEF Started, Widgets
<1>4. PrefTypeOK
  <2>1. clicks \in 0 .. MaxClicks /\ reconfigs \in 0 .. MaxReconfigs
    BY <1>1, ClicksAssumption
  <2>2. running \in BOOLEAN /\ outside \in BOOLEAN /\ dead \in BOOLEAN
    BY <1>1
  <2>3. /\ persisted \in [Envs -> Settings] /\ env \in [Envs -> Settings]
        /\ bare \in SUBSET Envs /\ mod \in [Envs -> BOOLEAN] /\ pending \in SUBSET Envs
        /\ selEnv \in Envs \cup {Unset} /\ ui \in Widgets /\ typed \in SUBSET Fields
    BY <1>1, <1>2, <1>3
  <2> QED BY <2>1, <2>2, <2>3, Zenon DEF PrefTypeOK
<1>5. NoneEmpty /\ Bare /\ OnOne /\ Marked /\ TypingSurvives
  BY <1>1, <1>2 DEF NoneEmpty, Bare, OnOne, Marked, TypingSurvives
<1>6. ServicesShown
  BY <1>1, <1>4, Zenon DEF ServicesShown
<1> QED BY <1>4, <1>5, <1>6 DEF DialogInv

LEMMA NextInv == DialogInv /\ [PrefNext]_prefVars => DialogInv'
<1> SUFFICES ASSUME DialogInv, [PrefNext]_prefVars PROVE DialogInv'
  OBVIOUS
<1>1. ASSUME NEW e \in Envs, Show(e) \/ Refresh(e) \/ Reconfigure(e) PROVE DialogInv'
  BY <1>1, ShowPreserves, RefreshPreserves, ConfigurePreserves
<1>2. ASSUME NEW s \in Services, ToggleService(s) PROVE DialogInv'
  BY <1>2, ToggleServicePreserves
<1>3. ASSUME NEW s \in Sourced, ToggleSource(s) PROVE DialogInv'
  BY <1>3, ToggleSourcePreserves
<1>4. ASSUME NEW f \in Fields, TypeText(f) PROVE DialogInv'
  BY <1>4, TypeTextPreserves
<1>5. CASE UseDefaultFile \/ ChooseFile \/ Secure
  BY <1>5, OtherWidgetsPreserve
<1>6. ASSUME NEW ok \in BOOLEAN, Apply(ok) PROVE DialogInv'
  BY <1>6, ApplyPreserves
<1>7. CASE Discard \/ Activate \/ Restart
  BY <1>7, CancelPreserves, ActivatePreserves, RestartPreserves
<1>8. CASE UNCHANGED prefVars
  <2>1. UNCHANGED <<persisted, env, bare, mod, pending, selEnv, ui, running, typed, outside, dead,
                  clicks, reconfigs>>
    BY <1>8 DEF prefVars
  <2>2. PrefTypeOK' /\ OnOne' /\ NoneEmpty' /\ Bare' /\ Marked' /\ TypingSurvives'
    BY <2>1 DEF DialogInv, PrefTypeOK, OnOne, NoneEmpty, Bare, Marked, TypingSurvives
  <2>3. ServicesShown'
    BY <2>1, <2>2, Zenon DEF DialogInv, ServicesShown
  <2> QED BY <2>2, <2>3 DEF DialogInv
<1> QED BY <1>1, <1>2, <1>3, <1>4, <1>5, <1>6, <1>7, <1>8 DEF PrefNext

\* Every reachable state of the dialog is of its type.
THEOREM PropertiesTyped == PrefSpec => []PrefTypeOK
<1>1. DialogInv => PrefTypeOK
  BY DEF DialogInv
<1> QED BY <1>1, InitInv, NextInv, PTL DEF PrefSpec

\* Unless the location it shows was read again and had changed, or has no handle,
\* the open dialog shows the services its location has and keeps one of them, offers the default switch
\* file exactly when there is one service, and never asks an empty list for its
\* first service: on_ns_selection_clicked() and update_nsswitch_related_widgets()
\* (nwam_env_pref_dialog.c) for any locations and any changes made elsewhere.
THEOREM ServicesCorrect == PrefSpec => []ServicesShown
<1>1. DialogInv => ServicesShown
  BY DEF DialogInv
<1> QED BY <1>1, InitInv, NextInv, PTL DEF PrefSpec

\* What the user typed is what the location holds until it is saved or
\* cancelled, whatever REFRESH events the daemon object handles meanwhile and
\* whichever locations lose their handles; except that a location without a handle
\* holds nothing, and that the return of nwamd (NWAMUI_DAEMON_INFO_ACTIVE), which
\* reads modified locations again as well, drops what was typed before it.
THEOREM TypingKept == PrefSpec => []TypingSurvives
<1>1. DialogInv => TypingSurvives
  BY DEF DialogInv
<1> QED BY <1>1, InitInv, NextInv, PTL DEF PrefSpec
=============================================================================
