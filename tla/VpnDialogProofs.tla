---------------------------- MODULE VpnDialogProofs ----------------------------
(* Proofs about VpnDialog, for any modifiers, objects and bounds: its types,   *)
(* that the listed modifiers come to have what is stored, that what is started *)
(* is what was saved, and that the dialog keeps the promises of EditStore.     *)
EXTENDS VpnDialog, PendingEvents, FiniteSetTheorems, WellFoundedInduction

-----------------------------------------------------------------------------
(* The inductive invariant of what the program refers to, in parts.            *)

\* What the program refers to lives.
Lives == \A o \in RowSet \cup listed \cup {sel, cur} : o # None => objs[o] # None

\* The selected row is one, and while the dialog is open the panel is that of
\* the selected row, and can only be used if there is one.
Refers ==
    /\ sel # None => sel \in RowSet
    /\ open /\ sel # None => cur = sel
    /\ open /\ w.sens => sel # None

SafeInv == TypeOK /\ Lives /\ Refers

-----------------------------------------------------------------------------
(* Objects, and what the dialog makes of them.                                 *)

LEMMA ObjFields ==
    ASSUME NEW r \in Object
    PROVE  /\ r.name \in Names /\ r.h \in Content \cup {NoHandle}
           /\ r.mod \in BOOLEAN /\ r.fresh \in BOOLEAN
           /\ r.frozen \in BOOLEAN /\ r.act \in BOOLEAN
           /\ r # None
           /\ r.h # NoHandle => r.h \in Content /\ r.h.cmd \in Cmds /\ r.h.fmri \in 0 .. 1
BY ObjsAssumption DEF Object, Content

\* What writing to the object r may make of it: it stays what it is, or its
\* content changes and it counts as modified.
Edited(r, c) ==
    /\ c \in Object /\ c.name = r.name /\ c.fresh = r.fresh
    /\ c.mod \/ (c.h = r.h /\ c.mod = r.mod)

LEMMA EditedSelf == ASSUME NEW r \in Object PROVE Edited(r, r)
BY DEF Edited

LEMMA EditedTwice ==
    ASSUME NEW r, NEW c, NEW d, Edited(r, c), Edited(c, d)
    PROVE  Edited(r, d)
BY Zenon DEF Edited

LEMMA EditedContent ==
    ASSUME NEW r \in Object, NEW c \in Content
    PROVE  Edited(r, [r EXCEPT !.h = c, !.mod = TRUE])
BY DEF Edited, Object

LEMMA EditedMarks ==
    ASSUME NEW r \in Object, NEW b \in BOOLEAN
    PROVE  /\ Edited(r, [r EXCEPT !.mod = TRUE]) /\ Edited(r, [r EXCEPT !.frozen = TRUE])
           /\ Edited(r, [r EXCEPT !.act = b])
<1>1. Edited(r, [r EXCEPT !.mod = TRUE])
  BY DEF Edited, Object
<1>2. Edited(r, [r EXCEPT !.frozen = TRUE])
  BY DEF Edited, Object
<1>3. Edited(r, [r EXCEPT !.act = b])
  BY DEF Edited, Object
<1> QED BY <1>1, <1>2, <1>3

LEMMA CmdEdited == ASSUME NEW r \in Object, NEW t \in Cmds PROVE Edited(r, SetCmd(r, t))
<1>1. CASE CmdFails(r, t)
  BY <1>1, EditedSelf DEF SetCmd
<1>2. CASE ~CmdFails(r, t)
  <2> DEFINE c == [r.h EXCEPT !.cmd = t]
  <2>1. r.h \in Content
    BY <1>2, ObjFields DEF CmdFails
  <2>2. c \in Content
    BY <2>1 DEF Content
  <2>3. SetCmd(r, t) = [r EXCEPT !.h = c, !.mod = TRUE]
    BY <1>2 DEF SetCmd, Object
  <2> HIDE DEF c
  <2> QED BY <2>2, <2>3, EditedContent
<1> QED BY <1>1, <1>2

LEMMA FmriEdited == ASSUME NEW r \in Object, NEW t \in 0 .. 1 PROVE Edited(r, SetFmri(r, t))
<1>1. CASE FmriFails(r, t)
  BY <1>1, EditedSelf DEF SetFmri
<1>2. CASE ~FmriFails(r, t)
  <2> DEFINE c == [r.h EXCEPT !.fmri = t]
  <2>1. r.h \in Content
    BY <1>2, ObjFields DEF FmriFails
  <2>2. c \in Content
    BY <2>1 DEF Content
  <2>3. SetFmri(r, t) = [r EXCEPT !.h = c, !.mod = TRUE]
    BY <1>2 DEF SetFmri, Object
  <2> HIDE DEF c
  <2> QED BY <2>2, <2>3, EditedContent
<1> QED BY <1>1, <1>2

LEMMA ModeEdited == ASSUME NEW r \in Object, NEW m \in Modes PROVE Edited(r, SetMode(r, m))
<1>1. CASE r.h = NoHandle
  BY <1>1, EditedSelf DEF SetMode
<1>2. CASE r.h # NoHandle
  <2> DEFINE c == [r.h EXCEPT !.mode = m]
  <2>1. r.h \in Content
    BY <1>2, ObjFields
  <2>2. c \in Content
    BY <2>1 DEF Content
  <2>3. SetMode(r, m) = [r EXCEPT !.h = c, !.mod = TRUE]
    BY <1>2 DEF SetMode, Object
  <2> HIDE DEF c
  <2> QED BY <2>2, <2>3, EditedContent
<1> QED BY <1>1, <1>2

LEMMA ConditionsEdited ==
    ASSUME NEW r \in Object, NEW some \in BOOLEAN
    PROVE  Edited(r, SetConditions(r, some))
<1>1. CASE r.h = NoHandle
  BY <1>1, EditedSelf DEF SetConditions
<1>2. CASE r.h # NoHandle /\ some
  <2> DEFINE c == [r.h EXCEPT !.conds = TRUE]
  <2>1. r.h \in Content
    BY <1>2, ObjFields
  <2>2. c \in Content
    BY <2>1 DEF Content
  <2>3. SetConditions(r, some) = [r EXCEPT !.h = c, !.mod = TRUE]
    BY <1>2 DEF SetConditions, Object
  <2> HIDE DEF c
  <2> QED BY <2>2, <2>3, EditedContent
<1>3. CASE r.h # NoHandle /\ ~some
  <2>1. SetConditions(r, some) = SetMode(r, "manual") /\ "manual" \in Modes
    BY <1>3 DEF SetConditions, Modes
  <2> QED BY <2>1, ModeEdited
<1> QED BY <1>1, <1>2, <1>3

LEMMA WidgetFields ==
    ASSUME w \in Widgets
    PROVE  /\ w.cmd \in Cmds /\ w.fmri \in 0 .. 1 /\ w.cli \in BOOLEAN /\ w.cond \in BOOLEAN
           /\ w.sens \in BOOLEAN /\ w.startBtn \in BOOLEAN /\ w.stopBtn \in BOOLEAN
BY DEF Widgets

LEMMA CommandsEdited ==
    ASSUME NEW r \in Object, w \in Widgets
    PROVE  UpdateCommands(r).ok \in BOOLEAN /\ Edited(r, UpdateCommands(r).r)
<1>1. w.cmd \in Cmds /\ w.fmri \in 0 .. 1 /\ 0 \in Cmds /\ 0 \in 0 .. 1
  BY WidgetFields DEF Cmds
<1>2. CASE w.cli
  <2> DEFINE done == IF r.h # NoHandle /\ r.h.cmd = 2 /\ w.cmd = 2 THEN r ELSE SetCmd(r, w.cmd)
             u == IF CmdFails(r, w.cmd) THEN r ELSE SetFmri(done, 0)
  <2>1. Edited(r, done)
    BY <1>1, CmdEdited, EditedSelf
  <2>2. done \in Object
    BY <2>1, Zenon DEF Edited
  <2>3. UpdateCommands(r) = [ok |-> ~CmdFails(r, w.cmd), r |-> u]
    BY <1>2, Zenon DEF UpdateCommands
  <2> HIDE DEF done
  <2>4. Edited(done, SetFmri(done, 0))
    BY <1>1, <2>2, FmriEdited
  <2>5. Edited(r, u)
    BY <2>1, <2>4, EditedSelf, EditedTwice
  <2> HIDE DEF u
  <2> QED BY <2>3, <2>5
<1>3. CASE ~w.cli /\ r.h = NoHandle
  <2>1. UpdateCommands(r) = [ok |-> w.fmri = 0, r |-> r]
    BY <1>3, Zenon DEF UpdateCommands
  <2> QED BY <2>1, EditedSelf
<1>4. CASE ~w.cli /\ r.h # NoHandle
  <2> DEFINE named == IF w.fmri = r.h.fmri THEN r ELSE SetFmri(r, w.fmri)
             u == [SetCmd(named, 0) EXCEPT !.mod = TRUE]
  <2>1. Edited(r, named)
    BY <1>1, FmriEdited, EditedSelf
  <2>2. UpdateCommands(r) = [ok |-> TRUE, r |-> u]
    BY <1>4, Zenon DEF UpdateCommands
  <2> HIDE DEF named
  <2>3. named \in Object
    BY <2>1, Zenon DEF Edited
  <2>4. Edited(named, SetCmd(named, 0)) /\ SetCmd(named, 0) \in Object
    <3>1. Edited(named, SetCmd(named, 0))
      BY <1>1, <2>3, CmdEdited
    <3> QED BY <3>1, Zenon DEF Edited
  <2>5. Edited(SetCmd(named, 0), u)
    BY <2>4, EditedMarks
  <2>6. Edited(r, u)
    BY <2>1, <2>4, <2>5, EditedTwice
  <2> HIDE DEF u
  <2> QED BY <2>2, <2>6
<1> QED BY <1>2, <1>3, <1>4

LEMMA ModeWritten ==
    ASSUME NEW r \in Object, w \in Widgets
    PROVE  UpdateMode(r).ok \in BOOLEAN /\ Edited(r, UpdateMode(r).r)
<1>1. "manual" \in Modes /\ "all" \in Modes
  BY DEF Modes
<1>2. CASE ~w.cond
  <2> DEFINE u == IF ModeOf(r) = "manual" THEN r ELSE SetConditions(SetMode(r, "manual"), FALSE)
  <2>1. UpdateMode(r) = [ok |-> TRUE, r |-> u]
    BY <1>2, Zenon DEF UpdateMode
  <2>2. Edited(r, SetMode(r, "manual"))
    BY <1>1, ModeEdited
  <2>3. SetMode(r, "manual") \in Object
    BY <2>2, Zenon DEF Edited
  <2>4. Edited(SetMode(r, "manual"), SetConditions(SetMode(r, "manual"), FALSE))
    BY <2>3, ConditionsEdited
  <2>5. Edited(r, u)
    BY <2>2, <2>4, EditedSelf, EditedTwice
  <2> HIDE DEF u
  <2> QED BY <2>1, <2>5
<1>3. CASE w.cond
  <2> DEFINE u == IF HasConds(r) /\ ModeOf(r) = "manual" THEN SetMode(r, "all") ELSE r
  <2>1. UpdateMode(r) = [ok |-> HasConds(r), r |-> u]
    BY <1>3, Zenon DEF UpdateMode
  <2>2. Edited(r, u)
    BY <1>1, ModeEdited, EditedSelf
  <2>3. HasConds(r) \in BOOLEAN
    <3>1. CASE r.h = NoHandle
      BY <3>1 DEF HasConds
    <3>2. CASE r.h # NoHandle
      <4>1. r.h.conds \in BOOLEAN
        BY <3>2, ObjFields DEF Content
      <4> QED BY <3>2, <4>1 DEF HasConds
    <3> QED BY <3>1, <3>2
  <2> HIDE DEF u
  <2> QED BY <2>1, <2>2, <2>3
<1> QED BY <1>2, <1>3

\* nwam_update_obj() only writes to the object.
LEMMA ObjEdited ==
    ASSUME NEW r \in Object, w \in Widgets
    PROVE  UpdateObj(r).ok \in BOOLEAN /\ Edited(r, UpdateObj(r).r)
<1> DEFINE c == UpdateCommands(r)
           m == UpdateMode(c.r)
<1>1. c.ok \in BOOLEAN /\ Edited(r, c.r)
  BY CommandsEdited
<1>2. c.r \in Object
  BY <1>1, Zenon DEF Edited
<1> HIDE DEF c
<1>3. m.ok \in BOOLEAN /\ Edited(c.r, m.r)
  BY <1>2, ModeWritten
<1>4. m.r \in Object
  BY <1>3, Zenon DEF Edited
<1>5. UpdateObj(r) = IF ~c.ok THEN [ok |-> FALSE, r |-> [c.r EXCEPT !.frozen = TRUE]]
                     ELSE IF ~m.ok THEN [ok |-> FALSE, r |-> [m.r EXCEPT !.frozen = TRUE]]
                     ELSE m
  BY Zenon DEF UpdateObj, c
<1> HIDE DEF m
<1>6. Edited(c.r, [c.r EXCEPT !.frozen = TRUE]) /\ Edited(m.r, [m.r EXCEPT !.frozen = TRUE])
  BY <1>2, <1>4, EditedMarks
<1>7. /\ Edited(r, [c.r EXCEPT !.frozen = TRUE])
      /\ Edited(r, [m.r EXCEPT !.frozen = TRUE]) /\ Edited(r, m.r)
  BY <1>1, <1>3, <1>6, EditedTwice
<1> DEFINE x == [c.r EXCEPT !.frozen = TRUE]
           y == [m.r EXCEPT !.frozen = TRUE]
<1>8. Edited(r, x) /\ Edited(r, y) /\ Edited(r, m.r)
  BY <1>7
<1>9. UpdateObj(r) = IF ~c.ok THEN [ok |-> FALSE, r |-> x]
                     ELSE IF ~m.ok THEN [ok |-> FALSE, r |-> y] ELSE m
  BY <1>5
<1> HIDE DEF x, y
<1>10. CASE ~c.ok
  BY <1>8, <1>9, <1>10
<1>11. CASE c.ok /\ ~m.ok
  BY <1>8, <1>9, <1>11
<1>12. CASE c.ok /\ m.ok
  <2>1. UpdateObj(r) = m
    BY <1>9, <1>12
  <2> QED BY <1>3, <1>8, <2>1
<1> QED BY <1>10, <1>11, <1>12

LEMMA ReloadObject ==
    ASSUME NEW r \in Object, NEW unread \in BOOLEAN, store \in [Names -> Content \cup {Absent}]
    PROVE  /\ Reload(r, unread) \in Object
           /\ Reload(r, unread).name = r.name /\ Reload(r, unread).mod = r.mod
           /\ unread => Reload(r, unread).h = NoHandle /\ Reload(r, unread).fresh = r.fresh
           /\ ~unread /\ store[r.name] # Absent => Reload(r, unread).h = store[r.name]
           /\ ~unread /\ store[r.name] = Absent => Reload(r, unread) = r
<1>1. CASE ~unread /\ store[r.name] # Absent
  <2> DEFINE c == store[r.name]
  <2>1. c \in Content
    BY <1>1, ObjFields
  <2>2. Reload(r, unread) = [r EXCEPT !.h = c, !.fresh = FALSE]
    BY <1>1 DEF Reload
  <2> HIDE DEF c
  <2>3. /\ [r EXCEPT !.h = c, !.fresh = FALSE] \in Object
        /\ [r EXCEPT !.h = c, !.fresh = FALSE].name = r.name
        /\ [r EXCEPT !.h = c, !.fresh = FALSE].mod = r.mod
        /\ [r EXCEPT !.h = c, !.fresh = FALSE].h = c
    BY <2>1 DEF Object
  <2> QED BY <1>1, <2>2, <2>3 DEF c
<1>2. CASE ~unread /\ store[r.name] = Absent
  BY <1>2 DEF Reload
<1>3. CASE unread
  <2>1. Reload(r, unread) = [r EXCEPT !.h = NoHandle]
    BY <1>3 DEF Reload
  <2>2. /\ [r EXCEPT !.h = NoHandle] \in Object /\ [r EXCEPT !.h = NoHandle].name = r.name
        /\ [r EXCEPT !.h = NoHandle].mod = r.mod /\ [r EXCEPT !.h = NoHandle].h = NoHandle
        /\ [r EXCEPT !.h = NoHandle].fresh = r.fresh
    BY DEF Object
  <2> QED BY <1>3, <2>1, <2>2
<1> QED BY <1>1, <1>2, <1>3

\* The object r was read again, or could not be.
Reread(r, c) == \E unread \in BOOLEAN : c = Reload(r, unread)

LEMMA RereadObject ==
    ASSUME NEW r \in Object, NEW c, Reread(r, c), store \in [Names -> Content \cup {Absent}]
    PROVE  /\ c \in Object /\ c.name = r.name /\ c.mod = r.mod
           /\ \/ c.h = NoHandle /\ c.fresh = r.fresh
              \/ store[r.name] # Absent /\ c.h = store[r.name]
              \/ store[r.name] = Absent /\ c = r
<1>1. PICK unread \in BOOLEAN : c = Reload(r, unread)
  BY DEF Reread
<1> DEFINE d == Reload(r, unread)
<1>2. /\ d \in Object /\ d.name = r.name /\ d.mod = r.mod
      /\ unread => d.h = NoHandle /\ d.fresh = r.fresh
      /\ ~unread /\ store[r.name] # Absent => d.h = store[r.name]
      /\ ~unread /\ store[r.name] = Absent => d = r
  BY ReloadObject
<1> HIDE DEF d
<1>3. c = d
  BY <1>1 DEF d
<1> QED BY <1>2, <1>3

LEMMA NewEnmObject ==
    ASSUME NEW n \in Names, NEW unread \in BOOLEAN, NEW r \in NewEnm(n, unread),
           store \in [Names -> Content \cup {Absent}], online \in SUBSET Names
    PROVE  /\ r \in Object /\ r.name = n
           /\ (store[n] # Absent /\ r.h = store[n]) \/ (r.fresh /\ r.mod) \/ r.h = NoHandle
<1> DEFINE on == (n \in online)
           blank == [name |-> n, h |-> NoHandle, mod |-> FALSE, fresh |-> FALSE,
                     frozen |-> FALSE, act |-> on]
<1>1. on \in BOOLEAN
  OBVIOUS
<1>2. r \in IF store[n] # Absent /\ ~unread THEN {Reload(blank, FALSE)}
            ELSE {[blank EXCEPT !.h = NewContent, !.mod = TRUE, !.fresh = TRUE], blank}
  BY Zenon DEF NewEnm
<1> HIDE DEF on
<1>3. blank \in Object /\ blank.name = n /\ blank.h = NoHandle
  BY <1>1 DEF Object
<1>4. NewContent \in Content
  BY DEF NewContent, Content, Cmds, Modes
<1> HIDE DEF blank
<1>5. CASE store[n] # Absent /\ ~unread
  <2>1. r = Reload(blank, FALSE)
    BY <1>2, <1>5
  <2> QED BY <1>3, <1>5, <2>1, ReloadObject
<1>6. CASE ~(store[n] # Absent /\ ~unread)
  <2>1. ASSUME r = [blank EXCEPT !.h = NewContent, !.mod = TRUE, !.fresh = TRUE]
        PROVE  r \in Object /\ r.name = n /\ r.fresh /\ r.mod
    BY <1>3, <1>4, <2>1 DEF Object
  <2> QED BY <1>2, <1>3, <1>6, <2>1
<1> QED BY <1>5, <1>6

\* A modifier that was committed.
Clean(r) == [r EXCEPT !.mod = FALSE, !.fresh = FALSE]

LEMMA CleanObject ==
    ASSUME NEW r \in Object
    PROVE  /\ Clean(r) \in Object /\ Clean(r).name = r.name /\ Clean(r).h = r.h
           /\ Clean(r).mod = FALSE /\ Clean(r).fresh = FALSE
BY DEF Object, Clean

LEMMA SavedEvent ==
    ASSUME NEW n \in Names
    PROVE  /\ Saved(n) \in Event
           /\ Saved(n).name = n /\ Saved(n).act \in {"ADD", "REFRESH"}
           /\ Saved(n).act = "ADD" <=> store[n] = Absent
BY DEF Saved, Event

-----------------------------------------------------------------------------
(* The widgets of the panel.                                                   *)

LEMMA LoadedWidgets ==
    ASSUME NEW r \in Object
    PROVE  LoadWidgets(r) \in Widgets
<1> DEFINE c == IF r.h = NoHandle THEN NewContent ELSE r.h
           cli == c.cmd # 0 \/ c.fmri = 0
           cond == Conditional(c)
           start == ~cond /\ ~r.act /\ (c.cmd # 0 \/ c.fmri # 0)
           stop == ~cond /\ r.act
<1>1. c \in Content
  BY ObjFields DEF NewContent, Content, Cmds, Modes
<1>2. c.cmd \in Cmds /\ c.fmri \in 0 .. 1
  BY <1>1 DEF Content
<1>3. cli \in BOOLEAN /\ cond \in BOOLEAN
  BY DEF Conditional
<1>4. start \in BOOLEAN /\ stop \in BOOLEAN
  OBVIOUS
<1>5. LoadWidgets(r) = [cmd |-> c.cmd, fmri |-> c.fmri, cli |-> cli, cond |-> cond, sens |-> TRUE,
                        startBtn |-> start, stopBtn |-> stop]
  BY Zenon DEF LoadWidgets
<1> HIDE DEF start, stop, cli, cond, c
<1> QED BY <1>2, <1>3, <1>4, <1>5 DEF Widgets

LEMMA BlankedWidgets ==
    ASSUME w \in Widgets
    PROVE  BlankWidgets \in Widgets /\ BlankWidgets.sens = FALSE
<1>1. 0 \in Cmds /\ 0 \in 0 .. 1
  BY DEF Cmds
<1> QED BY <1>1 DEF BlankWidgets, Widgets

\* The panel of the selected row follows its object.
LEMMA NotifyFacts ==
    ASSUME TypeOK, NEW o, NEW r \in Object, Notify(o, r)
    PROVE  /\ w' \in Widgets /\ cur' \in {cur, sel}
           /\ w'.sens => w.sens \/ sel # None
<1>1. CASE Heard(o, r)
  <2>1. w' = LoadWidgets(r) /\ cur' = sel /\ sel # None
    BY <1>1 DEF Notify, Heard
  <2> QED BY <2>1, LoadedWidgets
<1>2. CASE ~Heard(o, r)
  <2>1. w' = w /\ cur' = cur
    BY <1>2 DEF Notify
  <2> QED BY <2>1 DEF TypeOK
<1> QED BY <1>1, <1>2

-----------------------------------------------------------------------------
(* The lists, and the objects on them.                                         *)

\* The list without the row of o.
LEMMA WithoutRows ==
    ASSUME NEW q \in Seq(Objs), NEW o \in ToSet(q)
    PROVE  Without(q, o) \in Seq(Objs) /\ ToSet(Without(q, o)) \subseteq ToSet(q)
<1> DEFINE i == CHOOSE j \in DOMAIN q : q[j] = o
<1>1. i \in DOMAIN q
  BY DEF ToSet
<1>2. Without(q, o) = SubSeq(q, 1, i - 1) \o SubSeq(q, i + 1, Len(q))
  BY DEF Without, RemoveAt
<1> HIDE DEF i
<1>3. i \in 1 .. Len(q) /\ Len(q) \in Nat
  BY <1>1
<1> DEFINE s == SubSeq(q, 1, i - 1)
           t == SubSeq(q, i + 1, Len(q))
<1>4. s \in Seq(Objs) /\ Len(s) = i - 1 /\ \A k \in 1 .. Len(s) : s[k] = q[k]
  BY <1>3
<1>5. t \in Seq(Objs) /\ Len(t) = Len(q) - i /\ \A k \in 1 .. Len(t) : t[k] = q[k + i]
  BY <1>3
<1> HIDE DEF s, t
<1>6. s \o t \in Seq(Objs) /\ Len(s \o t) = Len(s) + Len(t)
      /\ \A k \in 1 .. Len(s \o t) : (s \o t)[k] = IF k <= Len(s) THEN s[k] ELSE t[k - Len(s)]
  BY <1>4, <1>5, ConcatFacts
<1>7. ASSUME NEW k \in 1 .. Len(s \o t) PROVE (s \o t)[k] \in ToSet(q)
  <2>1. CASE k <= Len(s)
    <3>1. (s \o t)[k] = q[k] /\ k \in DOMAIN q
      BY <1>3, <1>4, <1>6, <2>1
    <3> QED BY <3>1 DEF ToSet
  <2>2. CASE ~(k <= Len(s))
    <3> DEFINE a == Len(s)
               b == Len(t)
    <3>a. a \in Nat /\ b \in Nat /\ a = i - 1 /\ b = Len(q) - i /\ k \in 1 .. a + b /\ ~(k <= a)
      BY <1>4, <1>5, <1>6, <2>2
    <3>b. k - a \in 1 .. b /\ (k - a) + i \in 1 .. Len(q)
      <4> HIDE DEF a, b
      <4> QED BY <1>3, <3>a
    <3>1. k - Len(s) \in 1 .. Len(t) /\ (k - Len(s)) + i \in 1 .. Len(q)
      BY <3>b
    <3> HIDE DEF a, b
    <3>2. (s \o t)[k] = q[(k - Len(s)) + i] /\ (k - Len(s)) + i \in DOMAIN q
      BY <1>5, <1>6, <2>2, <3>1
    <3> QED BY <3>2 DEF ToSet
  <2> QED BY <2>1, <2>2
<1>8. DOMAIN (s \o t) = 1 .. Len(s \o t)
  BY <1>6
<1> QED BY <1>2, <1>6, <1>7, <1>8 DEF ToSet, s, t

LEMMA AppendRows ==
    ASSUME NEW q \in Seq(Objs), NEW o \in Objs
    PROVE  Append(q, o) \in Seq(Objs) /\ ToSet(Append(q, o)) = ToSet(q) \cup {o}
<1>1. /\ DOMAIN q = 1 .. Len(q) /\ Len(q) \in Nat
      /\ DOMAIN Append(q, o) = 1 .. Len(q) + 1
      /\ Append(q, o)[Len(q) + 1] = o
      /\ \A i \in 1 .. Len(q) : Append(q, o)[i] = q[i]
  OBVIOUS
<1>2. ToSet(Append(q, o)) = {Append(q, o)[i] : i \in 1 .. Len(q) + 1}
  BY <1>1 DEF ToSet
<1>3. ToSet(q) = {q[i] : i \in 1 .. Len(q)}
  BY <1>1 DEF ToSet
<1>4. ASSUME NEW i \in 1 .. Len(q) + 1 PROVE Append(q, o)[i] \in ToSet(q) \cup {o}
  BY <1>1, <1>3
<1>5. ASSUME NEW x \in ToSet(q) \cup {o} PROVE \E i \in 1 .. Len(q) + 1 : Append(q, o)[i] = x
  <2>1. CASE x = o
    BY <1>1, <2>1
  <2>2. CASE x # o
    <3>1. PICK i \in 1 .. Len(q) : q[i] = x
      BY <1>3, <2>2
    <3>2. i \in 1 .. Len(q) + 1 /\ Append(q, o)[i] = x
      BY <1>1, <3>1
    <3> QED BY <3>2
  <2> QED BY <2>1, <2>2
<1> QED BY <1>2, <1>4, <1>5

\* A finite set listed in some order.
LEMMA ListRows ==
    ASSUME NEW S \in SUBSET Objs
    PROVE  SetToSeq(S) \in Seq(Objs) /\ ToSet(SetToSeq(S)) = S
<1>1. IsFiniteSet(S)
  BY ObjsAssumption, FS_Subset
<1>2. Cardinality(S) \in Nat /\ ExistsBijection(1 .. Cardinality(S), S)
  BY <1>1, FS_CardinalityType
<1> DEFINE n == Cardinality(S)
           q == SetToSeq(S)
<1>3. \E f \in [1 .. n -> S] : IsInjective(f)
  <2>1. PICK f \in Bijection(1 .. n, S) : TRUE
    BY <1>2 DEF ExistsBijection
  <2>2. f \in [1 .. n -> S] /\ \A i, j \in 1 .. n : f[i] = f[j] => i = j
    BY <2>1 DEF Bijection, Injection, IsInjective
  <2>3. DOMAIN f = 1 .. n
    BY <2>2
  <2> QED BY <2>2, <2>3 DEF IsInjective
<1>4. q \in [1 .. n -> S] /\ IsInjective(q)
  BY <1>3 DEF SetToSeq
<1> HIDE DEF q
<1>5. q \in Injection(1 .. n, S)
  BY <1>4 DEF IsInjective, Injection
<1>6. IsFiniteSet(1 .. n) /\ Cardinality(1 .. n) = n
  BY <1>2, FS_Interval
<1>7. q \in Surjection(1 .. n, S)
  BY <1>1, <1>5, <1>6, FS_Injection
<1>8. q \in Seq(Objs)
  BY <1>2, <1>4
<1>9. ToSet(q) = S
  BY <1>4, <1>7 DEF ToSet, Surjection
<1> QED BY <1>8, <1>9 DEF q

LEMMA LessWellFounded == IsWellFoundedOn({p \in Nat \X Nat : p[1] < p[2]}, Nat)
BY NatLessThanWellFounded, Zenon DEF OpToRel

LEMMA Greatest ==
    ASSUME NEW n \in Nat, NEW S \in SUBSET (0 .. n), S # {}
    PROVE  \E j \in S : \A k \in S : k <= j
<1> DEFINE T == {n - j : j \in S}
           R == {p \in Nat \X Nat : p[1] < p[2]}
<1>1. T \subseteq Nat /\ T # {}
  <2>1. \A j \in S : j \in 0 .. n
    OBVIOUS
  <2>2. \A j \in 0 .. n : n - j \in Nat
    OBVIOUS
  <2> QED BY <2>1, <2>2, Zenon
<1>2. IsWellFoundedOn(R, Nat)
  BY LessWellFounded
<1>3. \A x, y \in Nat : x < y => <<x, y>> \in R
  OBVIOUS
<1> HIDE DEF R
<1>4. PICK x \in T : \A y \in T : <<y, x>> \notin R
  <2> HIDE DEF T
  <2> QED BY <1>1, <1>2, WFMin
<1>5. PICK j \in S : x = n - j
  OBVIOUS
<1>6. ASSUME NEW k \in S PROVE k <= j
  <2>1. n - k \in T /\ n - k \in Nat /\ x \in Nat
    OBVIOUS
  <2>2. ~(n - k < x)
    <3> HIDE DEF T
    <3> QED BY <1>3, <1>4, <2>1
  <2> QED BY <1>5, <2>2
<1> QED BY <1>6

\* The rows are objects that live.
LEMMA RowFacts ==
    ASSUME TypeOK, Lives
    PROVE  /\ Len(rows) \in Nat /\ DOMAIN rows = 1 .. Len(rows)
           /\ \A j \in 1 .. Len(rows) : rows[j] \in RowSet
           /\ RowSet \subseteq Objs
           /\ \A o \in RowSet \cup listed : o \in Objs /\ objs[o] \in Object
           /\ \A o \in RowSet : \E j \in 1 .. Len(rows) : rows[j] = o
<1>1. Len(rows) \in Nat /\ DOMAIN rows = 1 .. Len(rows) /\ \A j \in 1 .. Len(rows) : rows[j] \in Objs
  BY DEF TypeOK
<1>2. RowSet = {rows[j] : j \in 1 .. Len(rows)}
  BY <1>1 DEF RowSet, ToSet
<1>3. \A o \in RowSet \cup listed : o \in Objs
  BY <1>1, <1>2 DEF TypeOK
<1>4. \A o \in RowSet \cup listed : o # None /\ objs[o] # None
  BY <1>3, ObjsAssumption DEF Lives
<1>5. \A o \in Objs : objs[o] \in Object \cup {None}
  BY DEF TypeOK
<1> QED BY <1>1, <1>2, <1>3, <1>4, <1>5

LEMMA RefFacts ==
    ASSUME TypeOK, Lives, NEW o \in {sel, cur}, o # None
    PROVE  o \in Objs /\ objs[o] \in Object
BY DEF TypeOK, Lives

\* One object gets another content.
LEMMA OneChanged ==
    ASSUME TypeOK, NEW o \in Objs, NEW r \in Object, objs' = [objs EXCEPT ![o] = r]
    PROVE  /\ objs' \in [Objs -> Object \cup {None}]
           /\ objs'[o] = r
           /\ \A p \in Objs : p # o => objs'[p] = objs[p]
           /\ \A p \in Objs : objs[p] # None => objs'[p] # None
<1>1. r # None
  BY ObjFields
<1>2. /\ objs' \in [Objs -> Object \cup {None}]
      /\ objs'[o] = r
      /\ \A p \in Objs : p # o => objs'[p] = objs[p]
  BY DEF TypeOK
<1> QED BY <1>1, <1>2

\* What is still referred to is not freed.
LEMMA CollectFacts ==
    ASSUME NEW os \in [Objs -> Object \cup {None}], NEW rws, NEW ls, NEW c
    PROVE  /\ Collect(os, rws, ls, c) \in [Objs -> Object \cup {None}]
           /\ \A o \in Objs : o \in ToSet(rws) \cup ls \cup {c} => Collect(os, rws, ls, c)[o] = os[o]
<1>1. Collect(os, rws, ls, c) = [o \in Objs |-> IF o \in ToSet(rws) \cup ls \cup {c} THEN os[o] ELSE None]
  BY DEF Collect
<1> QED BY <1>1

\* The objects after nwam_update_obj() wrote to the current one, if there is one.
LEMMA UpdatedFacts ==
    ASSUME TypeOK, Lives
    PROVE  /\ Update.ok \in BOOLEAN
           /\ Updated \in [Objs -> Object \cup {None}]
           /\ cur # None => /\ Update.r \in Object /\ Updated[cur] = Update.r
                            /\ Edited(objs[cur], Update.r)
           /\ \A o \in Objs : o # cur => Updated[o] = objs[o]
           /\ \A o \in Objs : objs[o] # None => Updated[o] \in Object /\ Edited(objs[o], Updated[o])
<1>1. CASE cur = None
  <2>1. Update.ok = TRUE /\ Updated = objs
    BY <1>1 DEF Update, Updated
  <2>2. \A o \in Objs : objs[o] # None => objs[o] \in Object
    BY DEF TypeOK
  <2>3. objs \in [Objs -> Object \cup {None}]
    BY DEF TypeOK
  <2> QED BY <1>1, <2>1, <2>2, <2>3, EditedSelf
<1>2. CASE cur # None
  <2>1. cur \in Objs /\ objs[cur] \in Object
    BY <1>2, RefFacts
  <2>2. Update = UpdateObj(objs[cur])
    BY <1>2 DEF Update
  <2>3. Update.ok \in BOOLEAN /\ Edited(objs[cur], Update.r)
    <3>1. w \in Widgets
      BY DEF TypeOK
    <3> QED BY <2>1, <2>2, <3>1, ObjEdited
  <2>4. Update.r \in Object
    BY <2>3, Zenon DEF Edited
  <2>5. Updated = [objs EXCEPT ![cur] = Update.r]
    BY <1>2 DEF Updated
  <2> DEFINE r == Update.r
             os == Updated
  <2>6. r \in Object /\ os = [objs EXCEPT ![cur] = r] /\ Edited(objs[cur], r)
    BY <2>3, <2>4, <2>5
  <2> HIDE DEF r, os
  <2>7. /\ os \in [Objs -> Object \cup {None}] /\ os[cur] = r
        /\ \A o \in Objs : o # cur => os[o] = objs[o]
    BY <2>1, <2>6 DEF TypeOK
  <2>8. \A o \in Objs : objs[o] # None => objs[o] \in Object
    BY DEF TypeOK
  <2>9. \A o \in Objs : objs[o] # None => os[o] \in Object /\ Edited(objs[o], os[o])
    BY <2>6, <2>7, <2>8, EditedSelf
  <2> QED BY <2>3, <2>6, <2>7, <2>9 DEF r, os
<1> QED BY <1>1, <1>2

LEMMA CommittedFacts ==
    ASSUME TypeOK, Lives, NEW os, \A o \in RowSet : os[o] \in Object,
           NEW i \in 1 .. Len(rows) + 1, \A j \in 1 .. (i - 1) : Commits(os, j)
    PROVE  /\ Committed(os, i) \subseteq 1 .. Len(rows)
           /\ IsFiniteSet(Committed(os, i)) /\ Cardinality(Committed(os, i)) \in Nat
           /\ \A j \in Committed(os, i) : /\ rows[j] \in RowSet /\ os[rows[j]] \in Object
                                          /\ os[rows[j]].mod /\ os[rows[j]].h \in Content
<1>1. Len(rows) \in Nat
  BY RowFacts
<1>2. Committed(os, i) \subseteq 1 .. Len(rows)
  BY <1>1 DEF Committed
<1>3. \A j \in Committed(os, i) : os[rows[j]].mod /\ os[rows[j]].h # NoHandle
  BY DEF Committed, Commits
<1>4. IsFiniteSet(1 .. Len(rows))
  BY <1>1, FS_Interval
<1>5. IsFiniteSet(Committed(os, i))
  BY <1>2, <1>4, FS_Subset
<1>6. \A j \in Committed(os, i) : rows[j] \in RowSet /\ os[rows[j]] \in Object
  BY <1>2, RowFacts
<1>7. \A j \in Committed(os, i) : os[rows[j]].h \in Content
  BY <1>3, <1>6, ObjFields
<1> QED BY <1>2, <1>3, <1>5, <1>6, <1>7, FS_CardinalityType

\* What the rows before i that are committed write, and what becomes of them.
LEMMA CommitFacts ==
    ASSUME TypeOK, Lives, NEW os \in [Objs -> Object \cup {None}], \A o \in RowSet : os[o] \in Object,
           NEW i \in 1 .. Len(rows) + 1, CommitRows(os, i)
    PROVE  /\ store' \in [Names -> Content \cup {Absent}]
           /\ \A n \in Names :
                 \/ store'[n] = store[n] /\ \A j \in Committed(os, i) : os[rows[j]].name # n
                 \/ \E j \in Committed(os, i) : os[rows[j]].name = n /\ store'[n] = os[rows[j]].h
           /\ objs' \in [Objs -> Object \cup {None}]
           /\ \A o \in Objs : IF \E j \in Committed(os, i) : rows[j] = o
                              THEN objs'[o] = Clean(os[o])
                              ELSE objs'[o] = os[o]
<1> DEFINE of(n) == {j \in Committed(os, i) : os[rows[j]].name = n}
           last(n) == CHOOSE j \in of(n) : \A k \in of(n) : k <= j
<1>1. store' = [n \in Names |-> IF of(n) = {} THEN store[n] ELSE os[rows[last(n)]].h]
  BY DEF CommitRows
<1>a. \A j \in 1 .. (i - 1) : Commits(os, j)
  BY DEF CommitRows
<1>2. ASSUME NEW n \in Names, of(n) # {} PROVE last(n) \in of(n)
  <2>1. of(n) \subseteq 0 .. Len(rows) /\ Len(rows) \in Nat
    BY <1>a, CommittedFacts, RowFacts
  <2>2. \E j \in of(n) : \A k \in of(n) : k <= j
    <3> HIDE DEF of
    <3> QED BY <1>2, <2>1, Greatest
  <2> QED BY <2>2
<1>3. ASSUME NEW n \in Names
      PROVE  /\ store'[n] \in Content \cup {Absent}
             /\ \/ store'[n] = store[n] /\ \A j \in Committed(os, i) : os[rows[j]].name # n
                \/ \E j \in Committed(os, i) : os[rows[j]].name = n /\ store'[n] = os[rows[j]].h
  <2>1. CASE of(n) = {}
    <3>1. store'[n] = store[n]
      BY <1>1, <2>1
    <3>2. store[n] \in Content \cup {Absent}
      BY DEF TypeOK
    <3> QED BY <2>1, <3>1, <3>2
  <2>2. CASE of(n) # {}
    <3>1. store'[n] = os[rows[last(n)]].h
      BY <1>1, <2>2
    <3>2. last(n) \in Committed(os, i) /\ os[rows[last(n)]].name = n
      BY <1>2, <2>2
    <3> HIDE DEF last
    <3> QED BY <1>a, <3>1, <3>2, CommittedFacts
  <2> QED BY <2>1, <2>2
<1>4. DOMAIN store' = Names /\ store' = [n \in Names |-> store'[n]]
  BY <1>1
<1>5. objs' = [o \in Objs |-> IF \E j \in Committed(os, i) : rows[j] = o
                              THEN Clean(os[o]) ELSE os[o]]
  BY DEF CommitRows, Clean
<1>6. ASSUME NEW o \in Objs PROVE objs'[o] \in Object \cup {None}
  <2>1. CASE \E j \in Committed(os, i) : rows[j] = o
    <3>1. os[o] \in Object /\ objs'[o] = Clean(os[o])
      BY <1>a, <1>5, <2>1, CommittedFacts
    <3> QED BY <3>1, CleanObject
  <2>2. CASE ~\E j \in Committed(os, i) : rows[j] = o
    BY <1>5, <2>2
  <2> QED BY <2>1, <2>2
<1>7. objs' \in [Objs -> Object \cup {None}]
  BY <1>5, <1>6
<1>8. store' \in [Names -> Content \cup {Absent}]
  BY <1>3, <1>4
<1> HIDE DEF of, last
<1> QED BY <1>3, <1>5, <1>7, <1>8

\* What nwamd tells of the commits.
LEMMA ReportedFacts ==
    ASSUME TypeOK, Lives, NEW os, \A o \in RowSet : os[o] \in Object,
           NEW i \in 1 .. Len(rows) + 1, \A j \in 1 .. (i - 1) : Commits(os, j), Reported(os, i)
    PROVE  \E t \in Seq(Event) :
              /\ queue' = queue \o t
              /\ \A e : Has(t, e) <=> \E j \in Committed(os, i) : e = Saved(os[rows[j]].name)
<1> DEFINE n == Cardinality(Committed(os, i))
<1>1. PICK order \in Ordered(Committed(os, i)) :
         queue' = queue \o [k \in DOMAIN order |-> Saved(os[rows[order[k]]].name)]
  BY DEF Reported
<1> DEFINE evs == [k \in DOMAIN order |-> Saved(os[rows[order[k]]].name)]
<1>2. n \in Nat /\ order \in [1 .. n -> Committed(os, i)] /\ Committed(os, i) = Range(order)
  BY CommittedFacts DEF Ordered
<1>3. DOMAIN order = 1 .. n
  BY <1>2
<1>4. evs = [k \in 1 .. n |-> Saved(os[rows[order[k]]].name)]
  BY <1>3
<1>5. \A k \in 1 .. n : order[k] \in Committed(os, i)
  BY <1>2
<1>6. ASSUME NEW k \in 1 .. n PROVE Saved(os[rows[order[k]]].name) \in Event
  BY <1>5, CommittedFacts, ObjFields, SavedEvent
<1>7. queue' = queue \o evs
  BY <1>1
<1> HIDE DEF evs, n
<1>8. evs \in Seq(Event) /\ Len(evs) = n
  BY <1>2, <1>4, <1>6
<1>9. ASSUME NEW e, Has(evs, e) PROVE \E j \in Committed(os, i) : e = Saved(os[rows[j]].name)
  <2>1. PICK k \in 1 .. n : evs[k] = e
    BY <1>8, <1>9 DEF Has
  <2> QED BY <1>4, <1>5, <2>1
<1>10. ASSUME NEW j \in Committed(os, i) PROVE Has(evs, Saved(os[rows[j]].name))
  <2>1. PICK k \in 1 .. n : order[k] = j
    BY <1>2, <1>3 DEF Range
  <2>2. evs[k] = Saved(os[rows[j]].name)
    BY <1>4, <2>1
  <2> QED BY <1>8, <2>2 DEF Has
<1> QED BY <1>7, <1>8, <1>9, <1>10

-----------------------------------------------------------------------------
(* Types, and what the program refers to.                                      *)

\* A step that touches neither what is stored, the events nor the lists, and
\* after which an object is what it was, was written to, or was read again.
Quiet ==
    /\ UNCHANGED <<store, online, queue, listed, strays, rows>>
    /\ \A o \in RowSet \cup listed : Edited(objs[o], objs'[o]) \/ Reread(objs[o], objs'[o])

Counts(was, is, bound) == is = was \/ (was < bound /\ is = was + 1)

LEMMA CountsTyped ==
    ASSUME TypeOK
    PROVE  /\ Counts(edits, edits', MaxEdits) => edits' \in 0 .. MaxEdits
           /\ Counts(admins, admins', MaxAdmin) => admins' \in 0 .. MaxAdmin
BY BoundsAssumption DEF TypeOK, Counts

LEMMA TroubleCounts == ASSUME NEW some, Trouble(some) PROVE Counts(admins, admins', MaxAdmin)
BY DEF Trouble, Counts

\* The rows stay, and what is referred to lives and is referred to as before.
LEMMA KeepsSafe ==
    ASSUME TypeOK, Lives, rows' = rows, store' \in [Names -> Content \cup {Absent}],
           online' \in SUBSET Names, queue' \in Seq(Event),
           objs' \in [Objs -> Object \cup {None}],
           listed' \in SUBSET Objs, strays' \in SUBSET Names,
           \A o \in RowSet \cup listed' : objs'[o] # None,
           sel' = None \/ sel' \in RowSet,
           cur' = None \/ (cur' \in Objs /\ objs'[cur'] # None),
           w' \in Widgets, open' \in BOOLEAN,
           open' /\ sel' # None => cur' = sel',
           open' /\ w'.sens => sel' # None,
           Counts(edits, edits', MaxEdits), Counts(admins, admins', MaxAdmin)
    PROVE  SafeInv'
<1>1. RowSet' = RowSet
  BY DEF RowSet
<1>2. Lives'
  BY <1>1 DEF Lives
<1>3. sel' \in Objs \cup {None} /\ cur' \in Objs \cup {None}
  BY RowFacts
<1>4. edits' \in 0 .. MaxEdits /\ admins' \in 0 .. MaxAdmin
  BY CountsTyped
<1>5. TypeOK'
  BY <1>3, <1>4, Zenon DEF TypeOK
<1>6. Refers'
  BY <1>1 DEF Refers
<1> QED BY <1>2, <1>5, <1>6 DEF SafeInv

LEMMA QuietSafe ==
    ASSUME SafeInv, Quiet, objs' \in [Objs -> Object \cup {None}],
           sel' = None \/ sel' \in RowSet,
           cur' = None \/ (cur' \in Objs /\ objs'[cur'] # None),
           w' \in Widgets, open' \in BOOLEAN,
           open' /\ sel' # None => cur' = sel',
           open' /\ w'.sens => sel' # None,
           Counts(edits, edits', MaxEdits), Counts(admins, admins', MaxAdmin)
    PROVE  SafeInv'
<1>1. TypeOK /\ Lives
  BY DEF SafeInv
<1>2. \A o \in RowSet \cup listed : objs'[o] \in Object
  <2>1. \A r : Edited(objs[r], objs'[r]) => objs'[r] \in Object
    BY DEF Edited
  <2>2. \A o \in RowSet \cup listed : Reread(objs[o], objs'[o]) => objs'[o] \in Object
    BY <1>1, RowFacts, RereadObject DEF TypeOK
  <2> QED BY <2>1, <2>2 DEF Quiet
<1>3. /\ UNCHANGED <<store, online, queue, listed, strays, rows>>
      /\ \A o \in RowSet \cup listed' : objs'[o] # None
  BY <1>2, ObjFields DEF Quiet
<1>4. /\ store' \in [Names -> Content \cup {Absent}] /\ online' \in SUBSET Names
      /\ queue' \in Seq(Event) /\ listed' \in SUBSET Objs /\ strays' \in SUBSET Names
  BY <1>1, <1>3 DEF TypeOK
<1> QED BY <1>1, <1>3, <1>4, KeepsSafe

\* What the actions of the user on the panel rely on.
LEMMA UserFacts ==
    ASSUME SafeInv
    PROVE  /\ sel # None => sel \in RowSet /\ sel \in Objs /\ objs[sel] \in Object
           /\ cur # None => cur \in Objs /\ objs[cur] \in Object
           /\ open /\ sel # None => cur = sel
           /\ open /\ w.sens => sel # None
           /\ MayEdit /\ edits' = edits + 1 => open /\ Counts(edits, edits', MaxEdits)
           /\ admins' = admins => Counts(admins, admins', MaxAdmin)
           /\ edits' = edits => Counts(edits, edits', MaxEdits)
BY RowFacts, RefFacts DEF SafeInv, Refers, MayEdit, Counts

\* Only one object is written to.
LEMMA QuietChange ==
    ASSUME SafeInv, NEW o \in Objs, NEW r, Edited(objs[o], r), objs' = [objs EXCEPT ![o] = r],
           UNCHANGED <<store, online, queue, listed, strays, rows, sel, open>>,
           cur' \in {cur, sel}, w' \in Widgets, w'.sens => w.sens \/ sel # None,
           Counts(edits, edits', MaxEdits), Counts(admins, admins', MaxAdmin)
    PROVE  SafeInv' /\ Quiet
<1>1. TypeOK /\ Lives /\ Refers /\ r \in Object
  BY Zenon DEF SafeInv, Edited
<1>2. /\ objs' \in [Objs -> Object \cup {None}]
      /\ objs'[o] = r
      /\ \A p \in Objs : p # o => objs'[p] = objs[p]
      /\ \A p \in Objs : objs[p] # None => objs'[p] # None
  BY <1>1, OneChanged
<1>3. \A p \in RowSet \cup listed : p \in Objs /\ Edited(objs[p], objs[p])
  BY <1>1, RowFacts, EditedSelf
<1>4. Quiet
  BY <1>2, <1>3 DEF Quiet
<1>5. cur' = None \/ (cur' \in Objs /\ objs'[cur'] # None)
  BY <1>1, <1>2, RefFacts, ObjFields
<1>6. open' \in BOOLEAN /\ (sel' = None \/ sel' \in RowSet)
  BY <1>1 DEF TypeOK, Refers
<1>7. /\ open' /\ sel' # None => cur' = sel'
      /\ open' /\ w'.sens => sel' # None
  BY <1>1 DEF Refers
<1> QED BY <1>2, <1>4, <1>5, <1>6, <1>7, QuietSafe

\* The current object is written to, and nothing else happens.
LEMMA QuietUpdate ==
    ASSUME SafeInv, objs' = Updated,
           UNCHANGED <<store, online, queue, listed, strays, rows, sel, open>>,
           cur' \in {cur, sel}, w' \in Widgets, w'.sens => w.sens \/ sel # None,
           Counts(edits, edits', MaxEdits), Counts(admins, admins', MaxAdmin)
    PROVE  SafeInv' /\ Quiet
<1>1. TypeOK /\ Lives /\ Refers
  BY DEF SafeInv
<1>2. /\ objs' \in [Objs -> Object \cup {None}]
      /\ \A o \in Objs : objs[o] # None => objs'[o] \in Object /\ Edited(objs[o], objs'[o])
  BY <1>1, UpdatedFacts
<1>3. \A p \in RowSet \cup listed : p \in Objs /\ objs[p] # None
  BY <1>1, RowFacts, ObjFields
<1>4. Quiet
  BY <1>2, <1>3 DEF Quiet
<1>5. cur' = None \/ (cur' \in Objs /\ objs'[cur'] # None)
  BY <1>1, <1>2, RefFacts, ObjFields
<1>6. open' \in BOOLEAN /\ (sel' = None \/ sel' \in RowSet)
  BY <1>1 DEF TypeOK, Refers
<1>7. /\ open' /\ sel' # None => cur' = sel'
      /\ open' /\ w'.sens => sel' # None
  BY <1>1 DEF Refers
<1> QED BY <1>2, <1>4, <1>5, <1>6, <1>7, QuietSafe

LEMMA SelectRowQuiet ==
    ASSUME SafeInv, NEW o \in Objs, SelectRow(o)
    PROVE  SafeInv' /\ Quiet
<1> DEFINE leaves == sel = None \/ Update.ok
           os == IF sel = None THEN objs ELSE Updated
<1>1. /\ open /\ o \in RowSet
      /\ objs' = (IF leaves THEN Collect(os, rows, listed, o) ELSE os)
      /\ IF leaves THEN sel' = o /\ cur' = o /\ w' = LoadWidgets(os[o])
                   ELSE UNCHANGED <<sel, cur, w>>
      /\ UNCHANGED <<store, online, queue, listed, strays, rows, open, edits, admins>>
  BY DEF SelectRow, nwamd, daemon
<1>2. TypeOK /\ Lives /\ Refers
  BY DEF SafeInv
<1>3. /\ Counts(edits, edits', MaxEdits) /\ Counts(admins, admins', MaxAdmin)
      /\ open' \in BOOLEAN
  BY <1>1, <1>2, UserFacts DEF TypeOK
<1>4. CASE leaves
  <2>1. /\ os \in [Objs -> Object \cup {None}]
        /\ \A p \in Objs : objs[p] # None => os[p] \in Object /\ Edited(objs[p], os[p])
    <3>1. \A p \in Objs : objs[p] # None => objs[p] \in Object
      BY <1>2 DEF TypeOK
    <3>2. objs \in [Objs -> Object \cup {None}]
      BY <1>2 DEF TypeOK
    <3> QED BY <1>2, <3>1, <3>2, UpdatedFacts, EditedSelf
  <2>2. \A p \in RowSet \cup listed : p \in Objs /\ objs[p] # None
    BY <1>2, RowFacts, ObjFields
  <2> HIDE DEF os
  <2>3. objs' = Collect(os, rows, listed, o) /\ sel' = o /\ cur' = o /\ w' = LoadWidgets(os[o])
    BY <1>1, <1>4
  <2>4. objs' \in [Objs -> Object \cup {None}] /\ \A p \in RowSet \cup listed : objs'[p] = os[p]
    BY <2>1, <2>2, <2>3, CollectFacts DEF RowSet
  <2>5. Quiet
    BY <1>1, <2>1, <2>2, <2>4 DEF Quiet
  <2>6. objs'[o] \in Object /\ w' \in Widgets
    BY <1>1, <2>1, <2>2, <2>3, <2>4, LoadedWidgets
  <2>7. objs'[o] # None /\ o # None
    BY <2>6, ObjFields, ObjsAssumption
  <2> QED BY <1>1, <1>3, <2>3, <2>4, <2>5, <2>6, <2>7, QuietSafe
<1>5. CASE ~leaves
  <2>1. objs' = Updated /\ UNCHANGED <<sel, cur, w>>
    BY <1>1, <1>5
  <2>2. w' \in Widgets
    BY <1>2, <2>1 DEF TypeOK
  <2> QED BY <1>1, <1>3, <2>1, <2>2, QuietUpdate
<1> QED BY <1>4, <1>5

LEMMA PanelQuiet ==
    ASSUME SafeInv, EditCommand \/ EditService \/ ToggleKind \/ ToggleConditional \/ Rules
    PROVE  SafeInv' /\ Quiet
<1>a. TypeOK /\ w \in Widgets
  BY DEF SafeInv, TypeOK
<1>b. /\ MayEdit /\ edits' = edits + 1 /\ admins' = admins
      /\ w.sens
      /\ UNCHANGED <<store, online, queue, listed, strays, rows, sel, open>>
  BY DEF EditCommand, EditService, ToggleKind, ToggleConditional, Rules, nwamd, daemon
<1>c. /\ sel # None /\ cur = sel /\ sel \in Objs /\ objs[sel] \in Object
      /\ Counts(edits, edits', MaxEdits) /\ Counts(admins, admins', MaxAdmin)
  BY <1>b, UserFacts
<1>1. CASE EditCommand
  <2>1. PICK t \in {w.cmd - 1, w.cmd + 1} \cap Cmds :
           LET r == objs[cur]
               ok == ~CmdFails(r, t) /\ ~w.cond
           IN  /\ objs' = [objs EXCEPT ![cur] = SetCmd(r, t)]
               /\ w' = IF 2 \in {t, w.cmd}
                       THEN [w EXCEPT !.cmd = t, !.stopBtn = r.act /\ ok]
                       ELSE [w EXCEPT !.cmd = t, !.startBtn = ~r.act /\ ok]
    BY <1>1 DEF EditCommand
  <2> DEFINE p == objs[cur].act /\ ~CmdFails(objs[cur], t) /\ ~w.cond
             q == ~objs[cur].act /\ ~CmdFails(objs[cur], t) /\ ~w.cond
  <2>2. /\ objs' = [objs EXCEPT ![sel] = SetCmd(objs[sel], t)]
        /\ w' = [w EXCEPT !.cmd = t, !.stopBtn = p] \/ w' = [w EXCEPT !.cmd = t, !.startBtn = q]
    BY <1>c, <2>1
  <2>3. p \in BOOLEAN /\ q \in BOOLEAN
    OBVIOUS
  <2> HIDE DEF p, q
  <2>4. w' \in Widgets
    BY <1>a, <2>2, <2>3 DEF Widgets
  <2>5. Edited(objs[sel], SetCmd(objs[sel], t))
    BY <1>c, CmdEdited
  <2>6. cur' = cur
    BY <1>1 DEF EditCommand
  <2> QED BY <1>b, <1>c, <2>2, <2>4, <2>5, <2>6, QuietChange
<1>2. CASE EditService
  <2> DEFINE t == 1 - w.fmri
             p == ~FmriFails(objs[cur], t) /\ ~w.cond /\ ~objs[cur].act
             q == ~FmriFails(objs[cur], t) /\ ~w.cond /\ objs[cur].act
  <2>1. /\ objs' = [objs EXCEPT ![sel] = SetFmri(objs[sel], t)] /\ cur' = cur
        /\ w' = [w EXCEPT !.fmri = t, !.startBtn = p, !.stopBtn = q]
    BY <1>2, <1>c DEF EditService
  <2>2. p \in BOOLEAN /\ q \in BOOLEAN
    OBVIOUS
  <2>3. t \in 0 .. 1
    BY <1>a, WidgetFields
  <2> HIDE DEF p, q, t
  <2>4. w' \in Widgets
    BY <1>a, <2>1, <2>2, <2>3 DEF Widgets
  <2>5. Edited(objs[sel], SetFmri(objs[sel], t))
    BY <1>c, <2>3, FmriEdited
  <2> QED BY <1>b, <1>c, <2>1, <2>4, <2>5, QuietChange
<1>3. CASE ToggleKind \/ ToggleConditional
  <2>1. objs' = objs /\ cur' = cur
    BY <1>3 DEF ToggleKind, ToggleConditional
  <2>2. w' \in Widgets
    <3>1. CASE ToggleKind
      <4>1. w' = [w EXCEPT !.cli = ~w.cli]
        BY <3>1 DEF ToggleKind
      <4>2. (~w.cli) \in BOOLEAN
        OBVIOUS
      <4> QED BY <1>a, <4>1, <4>2 DEF Widgets
    <3>2. CASE ToggleConditional
      <4> DEFINE act == cur # None /\ objs[cur].act
                 p == w.cond /\ ~act
                 q == w.cond /\ act
      <4>1. w' = [w EXCEPT !.cond = ~w.cond, !.startBtn = p, !.stopBtn = q]
        BY <3>2 DEF ToggleConditional
      <4>2. (~w.cond) \in BOOLEAN /\ p \in BOOLEAN /\ q \in BOOLEAN
        OBVIOUS
      <4> HIDE DEF act, p, q
      <4> QED BY <1>a, <4>1, <4>2 DEF Widgets
    <3> QED BY <1>3, <3>1, <3>2
  <2>3. objs' = [objs EXCEPT ![sel] = objs[sel]]
    BY <1>a, <1>c, <2>1 DEF TypeOK
  <2> QED BY <1>b, <1>c, <2>1, <2>2, <2>3, EditedSelf, QuietChange
<1>4. CASE Rules
  <2>1. PICK m \in {"any", "all"}, some \in BOOLEAN :
           LET r == SetConditions(SetMode(objs[sel], m), some)
           IN  objs' = [objs EXCEPT ![sel] = r] /\ Notify(sel, r)
    BY <1>4 DEF Rules
  <2> DEFINE p == SetMode(objs[sel], m)
             r == SetConditions(p, some)
  <2>2. objs' = [objs EXCEPT ![sel] = r] /\ Notify(sel, r)
    BY <2>1
  <2>3. Edited(objs[sel], p)
    BY <1>c, ModeEdited DEF Modes
  <2> HIDE DEF p
  <2>4. Edited(p, r)
    BY <2>3, ConditionsEdited DEF Edited
  <2> HIDE DEF r
  <2>5. Edited(objs[sel], r) /\ r \in Object
    <3>1. Edited(objs[sel], r)
      BY <2>3, <2>4, EditedTwice
    <3> QED BY <3>1, Zenon DEF Edited
  <2>6. w' \in Widgets /\ cur' \in {cur, sel} /\ (w'.sens => w.sens \/ sel # None)
    BY <1>a, <2>2, <2>5, NotifyFacts
  <2> QED BY <1>b, <1>c, <2>2, <2>5, <2>6, QuietChange
<1> QED BY <1>1, <1>2, <1>3, <1>4

LEMMA CancelQuiet ==
    ASSUME SafeInv, Cancel
    PROVE  /\ SafeInv' /\ Quiet
           /\ open /\ ~open' /\ \A o \in RowSet : Reread(objs[o], objs'[o])
<1>a. PICK unread \in SUBSET RowSet :
         /\ Trouble(unread # {})
         /\ objs' = Collect([o \in Objs |-> IF o \in RowSet THEN Reload(objs[o], o \in unread)
                                           ELSE objs[o]],
                            rows, listed, None)
  BY Zenon DEF Cancel
<1> DEFINE os == [o \in Objs |-> IF o \in RowSet THEN Reload(objs[o], o \in unread) ELSE objs[o]]
<1>1. /\ open /\ open' = FALSE /\ cur' = None
      /\ objs' = Collect(os, rows, listed, None)
      /\ w' = IF Heard(sel, objs'[sel]) THEN LoadWidgets(objs'[sel]) ELSE w
      /\ UNCHANGED <<store, online, queue, listed, strays, rows, sel, edits>>
  BY <1>a DEF Cancel, Responds, nwamd, daemon
<1>2. TypeOK /\ Lives /\ Refers
  BY DEF SafeInv
<1>3. \A o \in RowSet \cup listed : o \in Objs /\ objs[o] \in Object
  BY <1>2, RowFacts
<1>b. ASSUME NEW o \in RowSet PROVE Reread(objs[o], Reload(objs[o], o \in unread))
  <2>1. (o \in unread) \in BOOLEAN
    OBVIOUS
  <2> DEFINE u == o \in unread
  <2>2. u \in BOOLEAN
    BY <2>1
  <2> HIDE DEF u
  <2>3. Reread(objs[o], Reload(objs[o], u))
    BY <2>2, Zenon DEF Reread
  <2> QED BY <2>3 DEF u
<1>4. \A o \in RowSet : Reload(objs[o], o \in unread) \in Object
  BY <1>2, <1>3, <1>b, RereadObject DEF TypeOK
<1>5. /\ os \in [Objs -> Object \cup {None}]
      /\ \A o \in RowSet : Reread(objs[o], os[o]) /\ os[o] \in Object
      /\ \A o \in Objs : o \notin RowSet => os[o] = objs[o]
  BY <1>2, <1>3, <1>4, <1>b DEF TypeOK
<1> HIDE DEF os
<1>6. objs' \in [Objs -> Object \cup {None}] /\ \A o \in RowSet \cup listed : objs'[o] = os[o]
  BY <1>1, <1>3, <1>5, CollectFacts DEF RowSet
<1>7. Quiet
  <2>1. \A o \in RowSet \cup listed : Edited(objs[o], objs'[o]) \/ Reread(objs[o], objs'[o])
    BY <1>3, <1>5, <1>6, EditedSelf
  <2> QED BY <1>1, <2>1 DEF Quiet
<1>8. w' \in Widgets
  <2>1. CASE Heard(sel, objs'[sel])
    <3>1. sel \in RowSet
      BY <1>2, <2>1 DEF Heard, Refers
    <3>2. objs'[sel] \in Object
      BY <1>5, <1>6, <3>1
    <3> QED BY <1>1, <2>1, <3>2, LoadedWidgets
  <2>2. CASE ~Heard(sel, objs'[sel])
    BY <1>1, <1>2, <2>2 DEF TypeOK
  <2> QED BY <2>1, <2>2
<1>9. Counts(edits, edits', MaxEdits) /\ Counts(admins, admins', MaxAdmin)
  BY <1>a, <1>1, UserFacts, TroubleCounts
<1>10. sel' = None \/ sel' \in RowSet
  BY <1>1, <1>2 DEF Refers
<1>11. SafeInv'
  BY <1>1, <1>6, <1>7, <1>8, <1>9, <1>10, QuietSafe
<1> QED BY <1>1, <1>3, <1>5, <1>6, <1>7, <1>11

-----------------------------------------------------------------------------
(* Start and Stop, and OK.                                                     *)

Told(act, n) == [act |-> act, name |-> n]

\* The modifier r is committed, listed, and started or stopped.
Started(r) ==
    /\ r.h \in Content
    /\ store' = IF r.mod THEN [store EXCEPT ![r.name] = r.h] ELSE store
    /\ objs' = [objs EXCEPT ![cur] = Clean(r)]
    /\ listed' = listed \cup {cur}
    /\ \/ strays' = strays /\ Named(r.name) \ {cur} = {} /\ (cur \in listed \/ r.h = store'[r.name])
       \/ strays' = strays \cup {r.name}
    /\ online' = online \/ (online' \in SUBSET Names /\ store'[r.name] # Absent)
    /\ \E a, b \in Seq(Event) :
          /\ queue' = (queue \o a) \o b
          /\ \A e : Has(a, e) <=> r.mod /\ e = Saved(r.name)
          /\ \A e : Has(b, e) => e.act = "STATE"

LEMMA StartStopFacts ==
    ASSUME SafeInv, NEW on \in BOOLEAN, StartStop(on)
    PROVE  /\ open /\ sel # None /\ cur = sel /\ sel \in Objs /\ objs[sel] \in Object
           /\ Update.r \in Object /\ Edited(objs[sel], Update.r)
           /\ UNCHANGED <<rows, sel, open>>
           /\ Counts(edits, edits', MaxEdits) /\ Counts(admins, admins', MaxAdmin)
           /\ cur' = sel /\ w' \in Widgets
           /\ \/ objs' = Updated /\ UNCHANGED <<store, online, queue, listed, strays>>
              \/ Started(Update.r)
<1> DEFINE r == Update.r
           n == r.name
           fail(fails) == ~Update.ok \/ r.h = NoHandle \/ (r.mod /\ (fails \/ ~Valid(r.h)))
           done == [r EXCEPT !.mod = FALSE, !.fresh = FALSE]
           st == IF r.mod THEN [store EXCEPT ![n] = r.h] ELSE store
           enables == st[n] # Absent /\ (n \in online) # on
           saved == IF r.mod THEN <<Saved(n)>> ELSE <<>>
           state == IF enables THEN <<[act |-> "STATE", name |-> n, on |-> on]>> ELSE <<>>
<1>1. MayEdit /\ sel # None /\ edits' = edits + 1 /\ UNCHANGED <<rows, sel, open, admins>>
  BY DEF StartStop
<1>2. /\ open /\ cur = sel /\ sel \in Objs /\ objs[sel] \in Object
      /\ Counts(edits, edits', MaxEdits) /\ Counts(admins, admins', MaxAdmin)
  BY <1>1, UserFacts
<1>3. TypeOK /\ Lives
  BY DEF SafeInv
<1>4. r \in Object /\ Edited(objs[sel], r)
  BY <1>1, <1>2, <1>3, UpdatedFacts
<1>5. PICK fails \in BOOLEAN :
        IF fail(fails)
        THEN /\ objs' = Updated
             /\ IF Update.ok THEN Notify(cur, r) ELSE UNCHANGED <<cur, w>>
             /\ UNCHANGED <<nwamd, daemon>>
        ELSE /\ store' = st
             /\ objs' = [objs EXCEPT ![cur] = done]
             /\ listed' = listed \cup {cur}
             /\ strays' = IF Named(n) \ {cur} = {} /\ (cur \in listed \/ r.h = st[n])
                          THEN strays ELSE strays \cup {n}
             /\ Notify(cur, done)
             /\ online' = IF ~enables THEN online
                          ELSE IF on THEN online \cup {n} ELSE online \ {n}
             /\ queue' = queue \o saved \o state
  BY Zenon DEF StartStop
<1>6. CASE fail(fails)
  <2>1. /\ objs' = Updated /\ UNCHANGED <<store, online, queue, listed, strays>>
        /\ Notify(cur, r) \/ UNCHANGED <<cur, w>>
    BY <1>5, <1>6 DEF nwamd, daemon
  <2> HIDE DEF r
  <2>2. w' \in Widgets /\ cur' = sel
    <3>1. CASE Notify(cur, r)
      BY <1>2, <1>3, <1>4, <3>1, NotifyFacts
    <3>2. CASE UNCHANGED <<cur, w>>
      BY <1>2, <1>3, <3>2 DEF TypeOK
    <3> QED BY <2>1, <3>1, <3>2
  <2> QED BY <1>1, <1>2, <1>4, <2>1, <2>2 DEF r
<1>7. CASE ~fail(fails)
  <2>1. /\ store' = st /\ objs' = [objs EXCEPT ![cur] = done] /\ listed' = listed \cup {cur}
        /\ strays' = IF Named(n) \ {cur} = {} /\ (cur \in listed \/ r.h = st[n])
                     THEN strays ELSE strays \cup {n}
        /\ Notify(cur, done)
        /\ online' = IF ~enables THEN online ELSE IF on THEN online \cup {n} ELSE online \ {n}
        /\ queue' = queue \o saved \o state
    BY <1>5, <1>7
  <2>2. r.h # NoHandle
    BY <1>7
  <2> HIDE DEF r
  <2>3. r.h \in Content /\ n \in Names
    BY <1>4, <2>2, ObjFields
  <2>4. done = Clean(r) /\ Clean(r) \in Object
    BY <1>4, CleanObject DEF Clean
  <2>5. w' \in Widgets /\ cur' = sel
    BY <1>2, <1>3, <2>1, <2>4, NotifyFacts
  <2>6. Saved(n) \in Event /\ [act |-> "STATE", name |-> n, on |-> on] \in Event
    BY <2>3, SavedEvent DEF Event
  <2> HIDE DEF n
  <2>7. saved \in Seq(Event) /\ \A e : Has(saved, e) <=> r.mod /\ e = Saved(n)
    BY <2>6 DEF Has
  <2>8. state \in Seq(Event) /\ \A e : Has(state, e) => e.act = "STATE"
    BY <2>6 DEF Has
  <2>9. online' = online \/ (online' \in SUBSET Names /\ st[n] # Absent)
    <3>1. online \in SUBSET Names
      BY <1>3 DEF TypeOK
    <3>2. n \in Names
      BY <2>3 DEF n
    <3> HIDE DEF st
    <3> QED BY <2>1, <3>1, <3>2
  <2> HIDE DEF saved, state, enables
  <2>10. \E a, b \in Seq(Event) :
            /\ queue' = (queue \o a) \o b
            /\ \A e : Has(a, e) <=> r.mod /\ e = Saved(n)
            /\ \A e : Has(b, e) => e.act = "STATE"
    BY <2>1, <2>7, <2>8
  <2>11. \/ strays' = strays /\ Named(n) \ {cur} = {} /\ (cur \in listed \/ r.h = store'[n])
         \/ strays' = strays \cup {n}
    <3> HIDE DEF st
    <3> QED BY <2>1
  <2>12. Started(r)
    <3>1. store' = IF r.mod THEN [store EXCEPT ![r.name] = r.h] ELSE store
      BY <2>1 DEF n
    <3>2. objs' = [objs EXCEPT ![cur] = Clean(r)] /\ listed' = listed \cup {cur}
      BY <2>1, <2>4
    <3>3. online' = online \/ (online' \in SUBSET Names /\ store'[n] # Absent)
      BY <2>1, <2>9
    <3> HIDE DEF done, st
    <3> QED BY <2>3, <2>10, <2>11, <3>1, <3>2, <3>3, Zenon DEF Started, n
  <2> QED BY <1>1, <1>2, <1>4, <2>5, <2>12 DEF r
<1> QED BY <1>6, <1>7

LEMMA StartStopSafe ==
    ASSUME SafeInv, NEW on \in BOOLEAN, StartStop(on)
    PROVE  SafeInv' /\ (Quiet \/ Started(Update.r))
<1> DEFINE r == Update.r
<1>1. /\ open /\ sel # None /\ cur = sel /\ sel \in Objs /\ objs[sel] \in Object
      /\ r \in Object /\ Edited(objs[sel], r)
      /\ UNCHANGED <<rows, sel, open>>
      /\ Counts(edits, edits', MaxEdits) /\ Counts(admins, admins', MaxAdmin)
      /\ cur' = sel /\ w' \in Widgets
      /\ \/ objs' = Updated /\ UNCHANGED <<store, online, queue, listed, strays>>
         \/ Started(r)
  BY StartStopFacts
<1>2. TypeOK /\ Lives /\ Refers
  BY DEF SafeInv
<1>3. CASE objs' = Updated /\ UNCHANGED <<store, online, queue, listed, strays>>
  BY <1>1, <1>3, QuietUpdate
<1>4. CASE Started(r)
  <2> HIDE DEF r
  <2>1. Clean(r) \in Object /\ r.name \in Names
    BY <1>1, CleanObject, ObjFields
  <2>2. objs' = [objs EXCEPT ![sel] = Clean(r)] /\ listed' = listed \cup {sel}
    BY <1>1, <1>4 DEF Started
  <2>3. objs' \in [Objs -> Object \cup {None}] /\ objs'[sel] # None
        /\ \A p \in Objs : objs[p] # None => objs'[p] # None
    BY <1>1, <1>2, <2>1, <2>2, OneChanged, ObjFields
  <2>4. \A o \in RowSet \cup listed' : o \in Objs /\ objs'[o] # None
    BY <1>1, <1>2, <2>2, <2>3, RowFacts, ObjFields
  <2>5. store' \in [Names -> Content \cup {Absent}]
    <3>1. r.h \in Content /\ store' = (IF r.mod THEN [store EXCEPT ![r.name] = r.h] ELSE store)
      BY <1>4 DEF Started
    <3>2. store \in [Names -> Content \cup {Absent}]
      BY <1>2 DEF TypeOK
    <3> QED BY <3>1, <3>2
  <2>6. online' \in SUBSET Names
    <3>1. online' = online \/ online' \in SUBSET Names
      BY <1>4 DEF Started
    <3> QED BY <1>2, <3>1 DEF TypeOK
  <2>7. queue' \in Seq(Event)
    <3>1. PICK a, b \in Seq(Event) : queue' = (queue \o a) \o b
      BY <1>4 DEF Started
    <3> QED BY <1>2, <3>1, HasConcat DEF TypeOK
  <2>8. strays' \in SUBSET Names
    <3>1. strays' = strays \/ strays' = strays \cup {r.name}
      BY <1>4 DEF Started
    <3> QED BY <1>2, <2>1, <3>1 DEF TypeOK
  <2>9. listed' \in SUBSET Objs /\ open' \in BOOLEAN
    BY <1>1, <1>2, <2>2 DEF TypeOK
  <2>10. sel' \in RowSet /\ cur' \in Objs /\ objs'[cur'] # None
    BY <1>1, <1>2, <2>3 DEF Refers
  <2>11. SafeInv'
    BY <1>1, <1>2, <2>3, <2>4, <2>5, <2>6, <2>7, <2>8, <2>9, <2>10, KeepsSafe
  <2> QED BY <1>4, <2>11 DEF r
<1> QED BY <1>1, <1>3, <1>4

LEMMA OkFacts ==
    ASSUME SafeInv, Ok
    PROVE  /\ SafeInv' /\ open /\ UNCHANGED <<online, listed, strays, rows>>
           /\ \E i \in 1 .. (Len(rows) + 1), t \in Seq(Event) :
                 /\ CommitRows(Updated, i)
                 /\ open' \/ i = Len(rows) + 1
                 /\ queue' = queue \o t
                 /\ \A e : Has(t, e) <=> \E j \in Committed(Updated, i) : e = Saved(Updated[rows[j]].name)
<1> DEFINE os == Updated
<1>1. PICK i \in 1 .. (Len(rows) + 1) :
          /\ CommitRows(os, i) /\ Reported(os, i)
          /\ Responds(Update.ok /\ i > Len(rows))
          /\ IF Update.ok /\ i <= Len(rows)
             THEN sel' = rows[i] /\ cur' = rows[i] /\ w' = LoadWidgets(objs'[rows[i]])
             ELSE /\ sel' = sel
                  /\ IF cur # None /\ Update.ok THEN Notify(cur, objs'[cur])
                     ELSE UNCHANGED <<cur, w>>
  BY Zenon DEF Ok
<1>2. UNCHANGED <<online, listed, strays, rows, edits, admins>>
  BY DEF Ok, daemon
<1>3. TypeOK /\ Lives /\ Refers
  BY DEF SafeInv
<1>4. /\ Update.ok \in BOOLEAN
      /\ os \in [Objs -> Object \cup {None}]
      /\ \A o \in Objs : objs[o] # None => os[o] \in Object
  BY <1>3, UpdatedFacts
<1>5. \A o \in RowSet \cup listed : o \in Objs /\ objs[o] # None /\ os[o] \in Object
  BY <1>3, <1>4, RowFacts, ObjFields
<1> HIDE DEF os
<1>6. \A j \in 1 .. (i - 1) : Commits(os, j)
  BY <1>1 DEF CommitRows
<1>7. PICK t \in Seq(Event) : /\ queue' = queue \o t
                              /\ \A e : Has(t, e) <=> \E j \in Committed(os, i) : e = Saved(os[rows[j]].name)
  BY <1>1, <1>3, <1>5, <1>6, ReportedFacts
<1>8. /\ store' \in [Names -> Content \cup {Absent}]
      /\ objs' \in [Objs -> Object \cup {None}]
      /\ \A o \in Objs : IF \E j \in Committed(os, i) : rows[j] = o
                         THEN objs'[o] = Clean(os[o]) ELSE objs'[o] = os[o]
  BY <1>1, <1>3, <1>4, <1>5, CommitFacts
<1>9. ASSUME NEW o \in Objs, objs[o] # None PROVE objs'[o] \in Object
  <2>1. objs'[o] = os[o] \/ objs'[o] = Clean(os[o])
    BY <1>8
  <2> QED BY <1>4, <1>9, <2>1, CleanObject
<1>10. open /\ open' = ~(Update.ok /\ i > Len(rows)) /\ Len(rows) \in Nat
  BY <1>1, <1>3, RowFacts DEF Responds
<1>11. open' \in BOOLEAN /\ (open' \/ i = Len(rows) + 1)
  <2>1. open' \in BOOLEAN /\ (open' \/ i > Len(rows))
    BY <1>10, Zenon
  <2>2. i > Len(rows) => i = Len(rows) + 1
    BY <1>10
  <2> QED BY <2>1, <2>2
<1>12. /\ sel' = None \/ sel' \in RowSet
       /\ cur' = None \/ (cur' \in Objs /\ objs'[cur'] # None)
       /\ w' \in Widgets
       /\ sel' # None => cur' = sel'
       /\ w'.sens => sel' # None
  <2>1. CASE Update.ok /\ i <= Len(rows)
    <3>1. sel' = rows[i] /\ cur' = rows[i] /\ w' = LoadWidgets(objs'[rows[i]])
      BY <1>1, <2>1
    <3>2. rows[i] \in RowSet /\ rows[i] \in Objs /\ objs'[rows[i]] \in Object
      <4>1. i \in 1 .. Len(rows)
        BY <1>10, <2>1
      <4>2. rows[i] \in RowSet
        BY <1>3, <4>1, RowFacts
      <4> QED BY <1>5, <1>9, <4>2
    <3>3. rows[i] # None /\ objs'[rows[i]] # None
      BY <3>2, ObjFields, ObjsAssumption
    <3> QED BY <3>1, <3>2, <3>3, LoadedWidgets
  <2>2. CASE ~(Update.ok /\ i <= Len(rows))
    <3>1. /\ sel' = sel
          /\ \/ cur # None /\ Notify(cur, objs'[cur])
             \/ UNCHANGED <<cur, w>>
      BY <1>1, <2>2
    <3>2. cur # None => cur \in Objs /\ objs[cur] # None
      BY <1>3, RefFacts, ObjFields
    <3>3. /\ cur' \in {cur, sel} /\ w' \in Widgets /\ (w'.sens => w.sens \/ sel # None)
      <4>1. CASE cur # None /\ Notify(cur, objs'[cur])
        <5>1. objs'[cur] \in Object
          BY <1>9, <3>2, <4>1
        <5> QED BY <1>3, <4>1, <5>1, NotifyFacts
      <4>2. CASE UNCHANGED <<cur, w>>
        BY <1>3, <4>2 DEF TypeOK
      <4> QED BY <3>1, <4>1, <4>2
    <3>4. sel # None => cur = sel /\ sel \in Objs /\ objs[sel] # None /\ sel \in RowSet
      BY <1>3, <1>10, <3>2 DEF Refers
    <3>5. w.sens => sel # None
      BY <1>3, <1>10 DEF Refers
    <3>6. \A o \in {cur, sel} : o # None => o \in Objs /\ objs'[o] # None
      <4>1. \A o \in Objs : objs[o] # None => objs'[o] # None
        BY <1>9, ObjFields
      <4> QED BY <3>2, <3>4, <4>1
    <3>7. cur' = None \/ (cur' \in Objs /\ objs'[cur'] # None)
      BY <3>3, <3>6
    <3> QED BY <3>1, <3>3, <3>4, <3>5, <3>7
  <2> QED BY <2>1, <2>2
<1>13. Counts(edits, edits', MaxEdits) /\ Counts(admins, admins', MaxAdmin)
  BY <1>2, UserFacts
<1>14. online' \in SUBSET Names /\ listed' \in SUBSET Objs /\ strays' \in SUBSET Names /\ rows' = rows
  BY <1>2, <1>3 DEF TypeOK
<1>15. queue' \in Seq(Event)
  BY <1>3, <1>7, HasConcat DEF TypeOK
<1>16. \A o \in RowSet \cup listed' : objs'[o] # None
  BY <1>2, <1>5, <1>9, ObjFields
<1>17. SafeInv'
  BY <1>3, <1>8, <1>11, <1>12, <1>13, <1>14, <1>15, <1>16, KeepsSafe
<1> QED BY <1>1, <1>2, <1>7, <1>10, <1>11, <1>17 DEF os

\* An event of nwamd is handled.
LEMMA EventSafe ==
    ASSUME SafeInv, queue # <<>>, queue' = Tail(queue), EventKeeps,
           Counts(admins, admins', MaxAdmin),
           objs' \in [Objs -> Object \cup {None}], listed' \in SUBSET Objs,
           \A o \in RowSet \cup listed' \cup {sel, cur} : o # None => objs'[o] # None,
           cur' \in {cur, sel}, w' \in Widgets, w'.sens => w.sens \/ sel # None
    PROVE  SafeInv'
<1>1. TypeOK /\ Lives /\ Refers
  BY DEF SafeInv
<1>2. UNCHANGED <<store, online, strays, rows, sel, open, edits>>
  BY DEF EventKeeps
<1>3. queue' \in Seq(Event)
  BY <1>1, TailFacts DEF TypeOK
<1>4. Counts(edits, edits', MaxEdits) /\ Counts(admins, admins', MaxAdmin)
  BY <1>2, UserFacts
<1>5. /\ store' \in [Names -> Content \cup {Absent}] /\ online' \in SUBSET Names
      /\ strays' \in SUBSET Names /\ open' \in BOOLEAN
  BY <1>1, <1>2 DEF TypeOK
<1>6. cur' = None \/ (cur' \in Objs /\ objs'[cur'] # None)
  <2>1. cur' # None => cur' \in Objs
    BY <1>1 DEF TypeOK
  <2> QED BY <2>1
<1>7. \A o \in RowSet \cup listed' : objs'[o] # None
  <2>1. None \notin RowSet \cup listed'
    BY <1>1, RowFacts, ObjsAssumption
  <2> QED BY <2>1
<1>8. /\ sel' = None \/ sel' \in RowSet
      /\ open' /\ sel' # None => cur' = sel'
      /\ open' /\ w'.sens => sel' # None
  BY <1>1, <1>2 DEF Refers
<1> QED BY <1>1, <1>2, <1>3, <1>4, <1>5, <1>6, <1>7, <1>8, KeepsSafe

\* A new modifier is made, and the others stay or are freed.
LEMMA AddFacts ==
    ASSUME SafeInv, AddModifier
    PROVE  /\ SafeInv'
           /\ \/ Quiet
              \/ /\ UNCHANGED <<store, online, queue, listed, strays>>
                 /\ \E o \in Free, n \in Names \ RowNames :
                       /\ RowSet' = RowSet \cup {o} /\ o \notin RowSet \cup listed
                       /\ objs'[o].name = n
                       /\ \A p \in RowSet \cup listed : Edited(objs[p], objs'[p])
<1>1. TypeOK /\ Lives /\ Refers
  BY DEF SafeInv
<1>2. /\ MayEdit /\ edits' = edits + 1
      /\ UNCHANGED <<store, online, queue, listed, strays, open>>
  BY DEF AddModifier, nwamd, daemon
<1>3. Counts(edits, edits', MaxEdits) /\ open
  BY <1>2, UserFacts
<1>4. CASE ~Update.ok
  <2>1. objs' = Updated /\ UNCHANGED <<rows, sel, cur, w>> /\ Counts(admins, admins', MaxAdmin)
    BY <1>4, UserFacts DEF AddModifier
  <2>2. w' \in Widgets
    BY <1>1, <2>1 DEF TypeOK
  <2> QED BY <1>2, <1>3, <2>1, <2>2, QuietUpdate
<1>5. CASE Update.ok
  <2>1. PICK o \in Free, n \in Names \ RowNames, unread \in BOOLEAN : \E r \in NewEnm(n, unread) :
              /\ Trouble(unread)
              /\ rows' = Append(rows, o)
              /\ sel' = o /\ cur' = o /\ w' = LoadWidgets(r)
              /\ objs' = [Collect(Updated, rows, listed, None) EXCEPT ![o] = r]
    BY <1>5, Zenon DEF AddModifier
  <2>2. PICK r \in NewEnm(n, unread) :
              /\ Trouble(unread)
              /\ rows' = Append(rows, o)
              /\ sel' = o /\ cur' = o /\ w' = LoadWidgets(r)
              /\ objs' = [Collect(Updated, rows, listed, None) EXCEPT ![o] = r]
    BY <2>1
  <2>3. r \in Object /\ r.name = n /\ r # None
    BY <1>1, NewEnmObject, ObjFields DEF TypeOK
  <2>4. o \in Objs /\ o \notin RowSet \cup listed /\ o # None
    <3>1. o \in Objs /\ objs[o] = None
      BY DEF Free
    <3>2. \A p \in RowSet \cup listed : objs[p] # None
      BY <1>1, RowFacts, ObjFields
    <3> QED BY <3>1, <3>2, ObjsAssumption
  <2> DEFINE os == Collect(Updated, rows, listed, None)
  <2>5. os \in [Objs -> Object \cup {None}] /\ \A p \in RowSet \cup listed : os[p] = Updated[p]
    <3>1. \A p \in RowSet \cup listed : p \in Objs /\ p \in ToSet(rows) \cup listed \cup {None}
      BY <1>1, RowFacts DEF RowSet
    <3> QED BY <1>1, <3>1, UpdatedFacts, CollectFacts
  <2>6. objs' = [os EXCEPT ![o] = r]
    BY <2>2
  <2> HIDE DEF os
  <2>7. /\ objs' \in [Objs -> Object \cup {None}] /\ objs'[o] = r
        /\ \A p \in Objs : p # o => objs'[p] = os[p]
    BY <2>3, <2>4, <2>5, <2>6
  <2>8. \A p \in RowSet \cup listed : objs'[p] \in Object /\ Edited(objs[p], objs'[p])
    <3>1. \A p \in RowSet \cup listed : p \in Objs /\ p # o /\ objs[p] # None
      BY <1>1, <2>4, RowFacts, ObjFields
    <3> QED BY <1>1, <2>5, <2>7, <3>1, UpdatedFacts
  <2>9. rows' \in Seq(Objs) /\ RowSet' = RowSet \cup {o}
    BY <1>1, <2>2, <2>4, AppendRows DEF TypeOK, RowSet
  <2>10. \A p \in RowSet' \cup listed' \cup {sel', cur'} : objs'[p] # None
    BY <1>2, <2>2, <2>3, <2>7, <2>8, <2>9, ObjFields
  <2>11. Lives' /\ Refers'
    <3>1. Lives'
      BY <2>10 DEF Lives
    <3>2. Refers'
      BY <2>2, <2>4, <2>9 DEF Refers
    <3> QED BY <3>1, <3>2
  <2>12. w' \in Widgets /\ edits' \in 0 .. MaxEdits /\ admins' \in 0 .. MaxAdmin
    BY <1>1, <1>3, <2>2, <2>3, LoadedWidgets, CountsTyped, TroubleCounts
  <2>13. TypeOK'
    BY <1>1, <1>2, <2>2, <2>4, <2>7, <2>9, <2>12, Zenon DEF TypeOK
  <2> QED BY <1>2, <2>3, <2>4, <2>7, <2>8, <2>9, <2>11, <2>13 DEF SafeInv
<1> QED BY <1>1, <1>4, <1>5, UpdatedFacts

\* The selected modifier is destroyed, or only its row goes.
LEMMA RemoveFacts ==
    ASSUME SafeInv, RemoveModifier
    PROVE  /\ SafeInv' /\ open /\ open' /\ UNCHANGED <<listed, strays>>
           /\ RowSet' \subseteq RowSet
           /\ sel \in RowSet
           /\ \/ /\ UNCHANGED <<store, online, queue>>
                 /\ \A p \in RowSet' \cup listed : objs'[p] = objs[p]
              \/ /\ store' = [store EXCEPT ![objs[sel].name] = Absent]
                 /\ queue' = Append(queue, Told("DESTROY", objs[sel].name))
                 /\ \A p \in RowSet' \cup listed : p # sel => objs'[p] = objs[p]
                 /\ sel \in RowSet' \cup listed =>
                       objs'[sel] \in Object /\ objs'[sel].name = objs[sel].name /\ objs'[sel].h = NoHandle
<1>1. TypeOK /\ Lives /\ Refers
  BY DEF SafeInv
<1>2. /\ MayEdit /\ sel # None
      /\ rows' = Without(rows, sel) /\ cur' = None /\ sel' = None /\ w' = BlankWidgets
      /\ edits' = edits + 1 /\ UNCHANGED <<listed, strays, open, admins>>
  BY DEF RemoveModifier, daemon
<1>3. Counts(edits, edits', MaxEdits) /\ Counts(admins, admins', MaxAdmin) /\ open
      /\ sel \in RowSet /\ sel \in Objs /\ objs[sel] \in Object
  BY <1>2, UserFacts
<1>4. rows' \in Seq(Objs) /\ ToSet(rows') \subseteq RowSet /\ RowSet' = ToSet(rows')
  BY <1>1, <1>2, <1>3, WithoutRows DEF TypeOK, RowSet
<1>5. w' \in Widgets /\ edits' \in 0 .. MaxEdits
  BY <1>1, <1>2, <1>3, BlankedWidgets, CountsTyped DEF TypeOK
<1> DEFINE n == objs[sel].name
           d == [objs[sel] EXCEPT !.h = NoHandle]
           gone == [objs EXCEPT ![sel] = d]
<1>6. n \in Names /\ d \in Object /\ d.name = n /\ d.h = NoHandle
  BY <1>3, ObjFields DEF Object
<1>7. [objs EXCEPT ![sel].h = NoHandle] = gone
  BY <1>1, <1>3 DEF TypeOK
<1>8. \/ /\ store' = [store EXCEPT ![n] = Absent] /\ online' = online \ {n}
         /\ queue' = Append(queue, Told("DESTROY", n))
         /\ objs' = Collect(gone, rows', listed, None)
      \/ objs' = Collect(objs, rows', listed, None) /\ UNCHANGED <<store, online, queue>>
  BY <1>2, <1>7 DEF RemoveModifier, nwamd, Told
<1> HIDE DEF d, n
<1>9. /\ gone \in [Objs -> Object \cup {None}] /\ gone[sel] = d
      /\ \A p \in Objs : p # sel => gone[p] = objs[p]
      /\ objs \in [Objs -> Object \cup {None}]
  BY <1>1, <1>3, <1>6 DEF TypeOK
<1> HIDE DEF gone
<1>10. \A p \in RowSet' \cup listed : p \in Objs /\ objs[p] \in Object /\ p \in ToSet(rows') \cup listed \cup {None}
  BY <1>1, <1>4, RowFacts
<1>11. ASSUME NEW os \in [Objs -> Object \cup {None}], objs' = Collect(os, rows', listed, None),
              \A p \in RowSet' \cup listed : os[p] \in Object,
              store' \in [Names -> Content \cup {Absent}], online' \in SUBSET Names, queue' \in Seq(Event)
       PROVE  SafeInv' /\ \A p \in RowSet' \cup listed : objs'[p] = os[p]
  <2>1. objs' \in [Objs -> Object \cup {None}] /\ \A p \in RowSet' \cup listed : objs'[p] = os[p]
    BY <1>10, <1>11, CollectFacts
  <2>2. \A p \in RowSet' \cup listed' : objs'[p] # None
    BY <1>2, <1>11, <2>1, ObjFields
  <2>3. Lives' /\ Refers'
    <3>1. w'.sens = FALSE
      BY <1>1, <1>2, BlankedWidgets DEF TypeOK
    <3> QED BY <1>2, <2>2, <3>1 DEF Lives, Refers
  <2>4. TypeOK'
    BY <1>1, <1>2, <1>4, <1>5, <1>11, <2>1, Zenon DEF TypeOK
  <2> QED BY <2>1, <2>3, <2>4 DEF SafeInv
<1>12. CASE objs' = Collect(objs, rows', listed, None) /\ UNCHANGED <<store, online, queue>>
  <2>1. SafeInv' /\ \A p \in RowSet' \cup listed : objs'[p] = objs[p]
    <3>1. store' \in [Names -> Content \cup {Absent}] /\ online' \in SUBSET Names /\ queue' \in Seq(Event)
      BY <1>1, <1>12 DEF TypeOK
    <3> QED BY <1>9, <1>10, <1>11, <1>12, <3>1
  <2> QED BY <1>2, <1>3, <1>4, <1>12, <2>1
<1>13. CASE /\ store' = [store EXCEPT ![n] = Absent] /\ online' = online \ {n}
            /\ queue' = Append(queue, Told("DESTROY", n))
            /\ objs' = Collect(gone, rows', listed, None)
  <2>1. store' \in [Names -> Content \cup {Absent}] /\ online' \in SUBSET Names
    BY <1>1, <1>6, <1>13 DEF TypeOK
  <2>2. queue' \in Seq(Event)
    <3>1. Told("DESTROY", n) \in Event
      BY <1>6 DEF Told, Event
    <3> QED BY <1>1, <1>13, <3>1, AppendFacts DEF TypeOK
  <2>3. \A p \in RowSet' \cup listed : gone[p] \in Object
    BY <1>6, <1>9, <1>10
  <2>4. SafeInv' /\ \A p \in RowSet' \cup listed : objs'[p] = gone[p]
    BY <1>9, <1>11, <1>13, <2>1, <2>2, <2>3
  <2>5. /\ \A p \in RowSet' \cup listed : p # sel => objs'[p] = objs[p]
        /\ sel \in RowSet' \cup listed =>
              objs'[sel] \in Object /\ objs'[sel].name = n /\ objs'[sel].h = NoHandle
    BY <1>6, <1>9, <1>10, <2>4
  <2> QED BY <1>2, <1>3, <1>4, <1>13, <2>4, <2>5 DEF n
<1> QED BY <1>8, <1>12, <1>13

LEMMA InitSafe == Init => SafeInv
<1> SUFFICES ASSUME Init PROVE SafeInv
  OBVIOUS
<1> DEFINE of == CHOOSE f \in [Names -> Objs] : \A m, n \in Names : m # n => f[m] # f[n]
           stored == {n \in Names : store[n] # Absent}
           entry(o) == CHOOSE n \in stored : of[n] = o
           new(n) == [name |-> n, h |-> store[n], mod |-> FALSE, fresh |-> FALSE,
                      frozen |-> FALSE, act |-> FALSE]
<1>1. of \in [Names -> Objs]
  BY ObjsAssumption
<1>2. store \in [Names -> Content \cup {Absent}]
  BY StoresAssumption DEF Init
<1>3. /\ listed = {of[n] : n \in stored}
      /\ objs = [o \in Objs |-> IF \E n \in stored : of[n] = o THEN new(entry(o)) ELSE None]
  BY DEF Init
<1>4. ASSUME NEW n \in stored PROVE new(n) \in Object
  <2>1. n \in Names /\ store[n] \in Content
    BY <1>2
  <2> QED BY <2>1 DEF Object
<1>5. ASSUME NEW o \in Objs, NEW n \in stored, of[n] = o PROVE entry(o) \in stored
  BY <1>5
<1> HIDE DEF of, new, entry
<1>6. objs \in [Objs -> Object \cup {None}]
  BY <1>3, <1>4, <1>5
<1>7. listed \subseteq Objs
  BY <1>1, <1>3
<1>8. \A o \in listed : objs[o] # None
  <2> SUFFICES ASSUME NEW n \in stored PROVE objs[of[n]] # None
    BY <1>3
  <2>1. of[n] \in Objs
    BY <1>1
  <2>2. objs[of[n]] = new(entry(of[n])) /\ entry(of[n]) \in stored
    BY <1>3, <1>5, <2>1
  <2>3. new(entry(of[n])) \in Object
    BY <1>4, <2>2
  <2> QED BY <2>2, <2>3, ObjFields
<1>9. online = {} /\ queue = <<>> /\ strays = {} /\ rows = <<>> /\ sel = None /\ cur = None
      /\ open = FALSE /\ edits = 0 /\ admins = 0
  BY DEF Init
<1>10. w = [cmd |-> 0, fmri |-> 0, cli |-> TRUE, cond |-> FALSE, sens |-> FALSE,
            startBtn |-> FALSE, stopBtn |-> FALSE]
  BY DEF Init
<1>11. edits \in 0 .. MaxEdits /\ admins \in 0 .. MaxAdmin
  BY <1>9, BoundsAssumption
<1>12. RowSet = {}
  BY <1>9 DEF RowSet, ToSet
<1>13. rows \in Seq(Objs) /\ queue \in Seq(Event) /\ online \in SUBSET Names /\ strays \in SUBSET Names
       /\ open \in BOOLEAN
  <2>1. <<>> \in Seq(Objs) /\ <<>> \in Seq(Event)
    OBVIOUS
  <2>2. {} \in SUBSET Names /\ FALSE \in BOOLEAN
    OBVIOUS
  <2> QED BY <1>9, <2>1, <2>2, Zenon
<1>14. w \in Widgets
  <2>1. 0 \in Cmds
    BY DEF Cmds
  <2> QED BY <1>10, <2>1 DEF Widgets
<1>15. sel \in Objs \cup {None} /\ cur \in Objs \cup {None} /\ listed \in SUBSET Objs
  BY <1>7, <1>9
<1>16. TypeOK
  BY <1>2, <1>6, <1>11, <1>13, <1>14, <1>15, Zenon DEF TypeOK
<1>17. Lives
  BY <1>8, <1>9, <1>12 DEF Lives
<1> QED BY <1>9, <1>16, <1>17 DEF SafeInv, Refers

LEMMA EventAddFacts ==
    ASSUME SafeInv, EventAdd
    PROVE  /\ SafeInv'
           /\ \/ UNCHANGED <<objs, listed>>
              \/ /\ Named(Head(queue).name) = {}
                 /\ \E o \in Objs, unread \in BOOLEAN : \E r \in NewEnm(Head(queue).name, unread) :
                       /\ objs'[o] = r /\ r \in Object /\ listed' = listed \cup {o}
                       /\ o \notin RowSet \cup listed
                       /\ \A p \in RowSet \cup listed : objs'[p] = objs[p]
<1>1. TypeOK /\ Lives /\ Refers
  BY DEF SafeInv
<1>2. queue # <<>> /\ queue' = Tail(queue) /\ EventKeeps /\ UNCHANGED <<cur, w>>
  BY DEF EventAdd, Take
<1>3. Head(queue).name \in Names
  <2>1. Head(queue) \in Event
    BY <1>1, <1>2, TailFacts DEF TypeOK
  <2> QED BY <2>1 DEF Event
<1>4. \A p \in RowSet \cup listed \cup {sel, cur} : p # None => p \in Objs /\ objs[p] \in Object
  BY <1>1, RowFacts, RefFacts
<1>5. cur' \in {cur, sel} /\ w' \in Widgets /\ (w'.sens => w.sens \/ sel # None)
  BY <1>1, <1>2 DEF TypeOK
<1>6. CASE UNCHANGED <<objs, listed>>
  <2>1. objs' \in [Objs -> Object \cup {None}] /\ listed' \in SUBSET Objs
    BY <1>1, <1>6 DEF TypeOK
  <2>3. Counts(admins, admins', MaxAdmin)
    BY UserFacts, TroubleCounts DEF EventAdd
  <2>2. \A o \in RowSet \cup listed' \cup {sel, cur} : o # None => objs'[o] # None
    BY <1>4, <1>6, ObjFields
  <2> QED BY <1>2, <1>5, <1>6, <2>1, <2>2, <2>3, EventSafe
<1>7. CASE ~UNCHANGED <<objs, listed>>
  <2>1. Named(Head(queue).name) = {}
        /\ \E o \in Free, unread \in BOOLEAN : \E r \in NewEnm(Head(queue).name, unread) :
              /\ Trouble(unread)
              /\ objs' = [objs EXCEPT ![o] = r] /\ listed' = listed \cup {o}
    BY <1>7 DEF EventAdd, Head1
  <2>2. PICK o \in Free, unread \in BOOLEAN : \E r \in NewEnm(Head(queue).name, unread) :
              /\ Trouble(unread)
              /\ objs' = [objs EXCEPT ![o] = r] /\ listed' = listed \cup {o}
    BY <2>1
  <2>a. PICK r \in NewEnm(Head(queue).name, unread) :
              /\ Trouble(unread)
              /\ objs' = [objs EXCEPT ![o] = r] /\ listed' = listed \cup {o}
    BY <2>2
  <2>3. r \in Object /\ r # None
    BY <1>1, <1>3, NewEnmObject, ObjFields DEF TypeOK
  <2>4. o \in Objs /\ o \notin RowSet \cup listed \cup {sel, cur}
    <3>1. o \in Objs /\ objs[o] = None /\ o # None
      BY ObjsAssumption DEF Free
    <3> QED BY <1>4, <3>1, ObjFields
  <2>5. /\ objs' \in [Objs -> Object \cup {None}] /\ objs'[o] = r
        /\ \A p \in Objs : p # o => objs'[p] = objs[p]
    BY <1>1, <2>a, <2>3, <2>4, OneChanged
  <2>6. \A p \in RowSet \cup listed \cup {sel, cur} : p # None => objs'[p] = objs[p]
    BY <1>4, <2>4, <2>5
  <2>7. \A p \in RowSet \cup listed' \cup {sel, cur} : p # None => objs'[p] # None
    BY <1>4, <2>a, <2>3, <2>5, <2>6, ObjFields
  <2>8. listed' \in SUBSET Objs
    BY <1>1, <2>a, <2>4 DEF TypeOK
  <2>9. SafeInv'
    BY <1>2, <1>5, <2>a, <2>5, <2>7, <2>8, EventSafe, TroubleCounts
  <2>10. \A p \in RowSet \cup listed : objs'[p] = objs[p]
    <3>1. None \notin RowSet \cup listed
      BY <1>1, RowFacts, ObjsAssumption
    <3> QED BY <2>6, <3>1
  <2>11. \E p \in Objs, u \in BOOLEAN : \E c \in NewEnm(Head(queue).name, u) :
            /\ objs'[p] = c /\ c \in Object /\ listed' = listed \cup {p}
            /\ p \notin RowSet \cup listed
            /\ \A x \in RowSet \cup listed : objs'[x] = objs[x]
    BY <2>a, <2>3, <2>4, <2>5, <2>10
  <2> QED BY <2>1, <2>9, <2>11
<1> QED BY <1>6, <1>7

\* The event finds a listed modifier of its name, or none is listed.
LEMMA EventChangeFacts ==
    ASSUME SafeInv, EventRefresh \/ EventState
    PROVE  /\ SafeInv' /\ listed' = listed
           /\ \/ Named(Head(queue).name) = {} /\ objs' = objs
              \/ \E o \in Named(Head(queue).name), r \in Object :
                    /\ o \in Objs /\ objs' = [objs EXCEPT ![o] = r]
                    /\ EventState => Edited(objs[o], r)
                    /\ EventRefresh => IF objs[o].mod THEN r = objs[o] ELSE Reread(objs[o], r)
<1>1. TypeOK /\ Lives /\ Refers
  BY DEF SafeInv
<1>2. queue # <<>> /\ queue' = Tail(queue) /\ EventKeeps /\ listed' = listed
  BY DEF EventRefresh, EventState, Take
<1>3. \A p \in RowSet \cup listed \cup {sel, cur} : p # None => p \in Objs /\ objs[p] \in Object
  BY <1>1, RowFacts, RefFacts
<1>4. CASE Named(Head(queue).name) = {}
  <2>1. UNCHANGED <<objs, cur, w>> /\ Counts(admins, admins', MaxAdmin)
    <3>1. UNCHANGED <<objs, cur, w, admins>>
      BY <1>4 DEF EventRefresh, EventState, Head1
    <3> QED BY <3>1, UserFacts
  <2>2. /\ objs' \in [Objs -> Object \cup {None}] /\ listed' \in SUBSET Objs
        /\ cur' \in {cur, sel} /\ w' \in Widgets /\ (w'.sens => w.sens \/ sel # None)
    BY <1>1, <1>2, <2>1 DEF TypeOK
  <2>3. \A o \in RowSet \cup listed' \cup {sel, cur} : o # None => objs'[o] # None
    BY <1>2, <1>3, <2>1, ObjFields
  <2> QED BY <1>2, <1>4, <2>1, <2>2, <2>3, EventSafe
<1>5. CASE Named(Head(queue).name) # {}
  <2>1. \E o \in Named(Head(queue).name), r \in Object :
           /\ objs' = [objs EXCEPT ![o] = r] /\ Counts(admins, admins', MaxAdmin)
           /\ Notify(o, r) \/ UNCHANGED <<cur, w>>
           /\ EventState => Edited(objs[o], r)
           /\ EventRefresh => IF objs[o].mod THEN r = objs[o] ELSE Reread(objs[o], r)
    <3>a. \A o \in Named(Head(queue).name) : objs[o] \in Object
      BY <1>1, RowFacts DEF Named
    <3>1. CASE EventRefresh
      <4>1. PICK o \in Named(Head(queue).name), unread \in BOOLEAN :
               LET r == IF objs[o].mod THEN objs[o] ELSE Reload(objs[o], unread)
               IN  /\ Trouble(unread) /\ objs' = [objs EXCEPT ![o] = r]
                   /\ IF objs[o].mod THEN UNCHANGED <<cur, w>> ELSE Notify(o, r)
        BY <1>5, <3>1 DEF EventRefresh, Head1
      <4> DEFINE r == IF objs[o].mod THEN objs[o] ELSE Reload(objs[o], unread)
      <4>2. r \in Object
        BY <1>1, <3>a, ReloadObject DEF TypeOK
      <4>a. Counts(admins, admins', MaxAdmin)
        BY <4>1, TroubleCounts
      <4>3. objs' = [objs EXCEPT ![o] = r] /\ (Notify(o, r) \/ UNCHANGED <<cur, w>>)
        BY <4>1
      <4>4. ~EventState
        <5>1. Head(queue).act = "REFRESH"
          BY <3>1 DEF EventRefresh, Take, Head1
        <5> QED BY <5>1 DEF EventState, Take, Head1
      <4> HIDE DEF r
      <4>5. IF objs[o].mod THEN r = objs[o] ELSE Reread(objs[o], r)
        BY DEF r, Reread
      <4> QED BY <4>2, <4>3, <4>4, <4>5, <4>a
    <3>2. CASE EventState
      <4>1. PICK o \in Named(Head(queue).name) :
               LET r == [objs[o] EXCEPT !.act = Head(queue).on]
               IN  objs' = [objs EXCEPT ![o] = r]
                   /\ IF r = objs[o] THEN UNCHANGED <<cur, w>> ELSE Notify(o, r)
        BY <1>5, <3>2 DEF EventState, Head1
      <4> DEFINE r == [objs[o] EXCEPT !.act = Head(queue).on]
      <4>a. Head(queue).act = "STATE"
        BY <3>2 DEF EventState, Take, Head1
      <4>2. Head(queue).on \in BOOLEAN
        <5>1. Head(queue) \in Event
          BY <1>1, <1>2, TailFacts DEF TypeOK
        <5> QED BY <4>a, <5>1 DEF Event
      <4>3. Edited(objs[o], r) /\ r \in Object
        <5>1. Edited(objs[o], r)
          BY <3>a, <4>2, EditedMarks
        <5> QED BY <5>1, Zenon DEF Edited
      <4>4. objs' = [objs EXCEPT ![o] = r] /\ (Notify(o, r) \/ UNCHANGED <<cur, w>>)
        BY <4>1
      <4>5. ~EventRefresh
        BY <4>a DEF EventRefresh, Take, Head1
      <4>6. Counts(admins, admins', MaxAdmin)
        BY <3>2, UserFacts DEF EventState
      <4> HIDE DEF r
      <4> QED BY <4>3, <4>4, <4>5, <4>6
    <3> QED BY <3>1, <3>2
  <2>2. PICK o \in Named(Head(queue).name), r \in Object :
           /\ objs' = [objs EXCEPT ![o] = r] /\ Counts(admins, admins', MaxAdmin)
           /\ Notify(o, r) \/ UNCHANGED <<cur, w>>
           /\ EventState => Edited(objs[o], r)
           /\ EventRefresh => IF objs[o].mod THEN r = objs[o] ELSE Reread(objs[o], r)
    BY <2>1
  <2>3. o \in Objs
    BY <1>1 DEF Named, TypeOK
  <2>4. /\ objs' \in [Objs -> Object \cup {None}]
        /\ \A p \in Objs : objs[p] # None => objs'[p] # None
    BY <1>1, <2>2, <2>3, OneChanged
  <2>5. \A p \in RowSet \cup listed' \cup {sel, cur} : p # None => objs'[p] # None
    BY <1>2, <1>3, <2>4, ObjFields
  <2>6. cur' \in {cur, sel} /\ w' \in Widgets /\ (w'.sens => w.sens \/ sel # None)
    <3>1. CASE Notify(o, r)
      BY <1>1, <3>1, NotifyFacts
    <3>2. CASE UNCHANGED <<cur, w>>
      BY <1>1, <3>2 DEF TypeOK
    <3> QED BY <2>2, <3>1, <3>2
  <2>7. listed' \in SUBSET Objs
    BY <1>1, <1>2 DEF TypeOK
  <2>8. SafeInv'
    BY <1>2, <2>2, <2>4, <2>5, <2>6, <2>7, EventSafe
  <2> QED BY <1>2, <2>2, <2>3, <2>8
<1> QED BY <1>4, <1>5

LEMMA EventDestroyFacts ==
    ASSUME SafeInv, EventDestroy
    PROVE  /\ SafeInv'
           /\ \A p \in RowSet \cup listed' : objs'[p] = objs[p]
           /\ \/ Named(Head(queue).name) = {} /\ listed' = listed
              \/ \E o \in Named(Head(queue).name) : listed' = listed \ {o}
<1>1. TypeOK /\ Lives /\ Refers
  BY DEF SafeInv
<1>2. queue # <<>> /\ queue' = Tail(queue) /\ EventKeeps /\ UNCHANGED <<cur, w>>
  BY DEF EventDestroy, Take
<1>3. \A p \in RowSet \cup listed \cup {sel, cur} : p # None => p \in Objs /\ objs[p] \in Object
  BY <1>1, RowFacts, RefFacts
<1>4. /\ objs' = objs \/ objs' = Collect(objs, rows, listed', cur)
      /\ \/ Named(Head(queue).name) = {} /\ listed' = listed
         \/ \E o \in Named(Head(queue).name) : listed' = listed \ {o}
  BY DEF EventDestroy, Head1
<1>5. listed' \subseteq listed
  BY <1>4
<1>6. objs \in [Objs -> Object \cup {None}] /\ listed' \in SUBSET Objs
  BY <1>1, <1>5 DEF TypeOK
<1>7. objs' \in [Objs -> Object \cup {None}]
      /\ \A p \in RowSet \cup listed' \cup {sel, cur} : p # None => objs'[p] = objs[p]
  <2>1. CASE objs' = objs
    BY <1>6, <2>1
  <2>2. CASE objs' = Collect(objs, rows, listed', cur)
    <3>1. \A p \in RowSet \cup listed' \cup {sel, cur} : p # None => p \in Objs /\ p \in ToSet(rows) \cup listed' \cup {cur}
      BY <1>1, <1>3, <1>5 DEF RowSet, Refers
    <3> QED BY <1>6, <2>2, <3>1, CollectFacts
  <2> QED BY <1>4, <2>1, <2>2
<1>8. \A p \in RowSet \cup listed' \cup {sel, cur} : p # None => objs'[p] # None
  BY <1>3, <1>5, <1>7, ObjFields
<1>9. cur' \in {cur, sel} /\ w' \in Widgets /\ (w'.sens => w.sens \/ sel # None)
  BY <1>1, <1>2 DEF TypeOK
<1>a. Counts(admins, admins', MaxAdmin)
  BY UserFacts DEF EventDestroy
<1>10. SafeInv'
  BY <1>2, <1>6, <1>7, <1>8, <1>9, <1>a, EventSafe
<1>11. None \notin RowSet \cup listed'
  BY <1>1, <1>5, RowFacts, ObjsAssumption
<1> QED BY <1>4, <1>7, <1>10, <1>11

\* The rows become the listed modifiers.
LEMMA OpenFacts ==
    ASSUME SafeInv, OpenDialog
    PROVE  /\ SafeInv' /\ ~open /\ open' /\ UNCHANGED <<store, online, queue, listed, strays, edits>>
           /\ RowSet' = listed
           /\ \A p \in listed : objs'[p] = objs[p]
<1>1. TypeOK /\ Lives /\ Refers
  BY DEF SafeInv
<1>2. /\ ~open /\ open' = TRUE /\ rows' = SetToSeq(listed) /\ sel' = None /\ w' = BlankWidgets
      /\ objs' = Collect(objs, rows', listed, cur)
      /\ UNCHANGED <<store, online, queue, listed, strays, cur, edits, admins>>
  BY DEF OpenDialog, nwamd, daemon
<1>3. /\ objs \in [Objs -> Object \cup {None}] /\ listed \in SUBSET Objs /\ w \in Widgets
      /\ store \in [Names -> Content \cup {Absent}] /\ online \in SUBSET Names
      /\ queue \in Seq(Event) /\ strays \in SUBSET Names /\ cur \in Objs \cup {None}
      /\ edits \in 0 .. MaxEdits /\ admins \in 0 .. MaxAdmin
  BY <1>1 DEF TypeOK
<1>4. rows' \in Seq(Objs) /\ ToSet(rows') = listed
  BY <1>2, <1>3, ListRows
<1>5. RowSet' = listed
  BY <1>4 DEF RowSet
<1>6. objs' \in [Objs -> Object \cup {None}]
      /\ \A p \in Objs : p \in listed \cup {cur} => objs'[p] = objs[p]
  BY <1>2, <1>3, <1>4, CollectFacts
<1>7. \A p \in listed : p \in Objs /\ objs'[p] = objs[p] /\ objs'[p] # None
  BY <1>1, <1>3, <1>6, RowFacts, ObjFields
<1>8. cur # None => objs'[cur] # None
  BY <1>1, <1>3, <1>6, RefFacts, ObjFields
<1>9. w' \in Widgets /\ ~w'.sens
  <2>1. BlankWidgets \in Widgets /\ BlankWidgets.sens = FALSE
    BY <1>3, BlankedWidgets
  <2> QED BY <1>2, <2>1
<1>10. /\ store' \in [Names -> Content \cup {Absent}] /\ online' \in SUBSET Names
       /\ queue' \in Seq(Event) /\ listed' \in SUBSET Objs /\ strays' \in SUBSET Names
       /\ edits' \in 0 .. MaxEdits /\ admins' \in 0 .. MaxAdmin /\ cur' \in Objs \cup {None}
  BY <1>2, <1>3
<1>11. sel' \in Objs \cup {None} /\ open' \in BOOLEAN
  BY <1>2
<1>12. TypeOK'
  BY <1>4, <1>6, <1>9, <1>10, <1>11, Zenon DEF TypeOK
<1>13. Lives'
  BY <1>2, <1>5, <1>7, <1>8 DEF Lives
<1>14. Refers'
  BY <1>2, <1>9 DEF Refers
<1> QED BY <1>2, <1>5, <1>7, <1>12, <1>13, <1>14 DEF SafeInv

LEMMA RenameFacts ==
    ASSUME SafeInv, Rename
    PROVE  /\ SafeInv' /\ UNCHANGED <<store, online, queue, listed, rows, sel, open>>
           /\ sel \in RowSet /\ sel \in Objs
           /\ \E n \in Names \ RowNames :
                 /\ objs'[sel].name = n /\ objs'[sel].fresh /\ objs'[sel].mod
                 /\ \A p \in Objs : p # sel => objs'[p] = objs[p]
                 /\ strays' = IF sel \in listed /\ Named(n) # {} THEN strays \cup {n} ELSE strays
<1>1. TypeOK /\ Lives /\ Refers
  BY DEF SafeInv
<1>2. /\ MayEdit /\ sel # None /\ objs[sel].fresh /\ edits' = edits + 1
      /\ UNCHANGED <<store, online, queue, listed, rows, sel, open, admins>>
  BY DEF Rename, nwamd
<1>3. PICK n \in Names \ RowNames :
         /\ objs' = [objs EXCEPT ![sel] = [objs[sel] EXCEPT !.name = n, !.mod = TRUE]]
         /\ Notify(sel, [objs[sel] EXCEPT !.name = n, !.mod = TRUE])
         /\ strays' = IF sel \in listed /\ Named(n) # {} THEN strays \cup {n} ELSE strays
  BY Zenon DEF Rename
<1>4. /\ sel \in RowSet /\ sel \in Objs /\ objs[sel] \in Object
      /\ Counts(edits, edits', MaxEdits) /\ Counts(admins, admins', MaxAdmin)
  BY <1>2, UserFacts
<1> DEFINE r == [objs[sel] EXCEPT !.name = n, !.mod = TRUE]
<1>5. r \in Object /\ r.name = n /\ r.mod /\ r.fresh
  <2>1. ASSUME NEW x \in Object, x.fresh
        PROVE  /\ [x EXCEPT !.name = n, !.mod = TRUE] \in Object
               /\ [x EXCEPT !.name = n, !.mod = TRUE].name = n
               /\ [x EXCEPT !.name = n, !.mod = TRUE].mod
               /\ [x EXCEPT !.name = n, !.mod = TRUE].fresh
    BY <2>1 DEF Object
  <2> QED BY <1>2, <1>4, <2>1
<1>6. objs' = [objs EXCEPT ![sel] = r] /\ Notify(sel, r)
  BY <1>3
<1> HIDE DEF r
<1>7. /\ objs' \in [Objs -> Object \cup {None}] /\ objs'[sel] = r
      /\ \A p \in Objs : p # sel => objs'[p] = objs[p]
      /\ \A p \in Objs : objs[p] # None => objs'[p] # None
  BY <1>1, <1>4, <1>5, <1>6, OneChanged
<1>8. w' \in Widgets /\ cur' \in {cur, sel} /\ (w'.sens => w.sens \/ sel # None)
  BY <1>1, <1>5, <1>6, NotifyFacts
<1>9. /\ store' \in [Names -> Content \cup {Absent}] /\ online' \in SUBSET Names
      /\ queue' \in Seq(Event) /\ listed' \in SUBSET Objs /\ open' \in BOOLEAN
  BY <1>1, <1>2 DEF TypeOK
<1>10. strays' \in SUBSET Names
  <2>1. strays \in SUBSET Names
    BY <1>1 DEF TypeOK
  <2> QED BY <1>3, <2>1
<1>11. \A o \in RowSet \cup listed' : objs'[o] # None
  BY <1>1, <1>2, <1>7, RowFacts, ObjFields
<1>12. cur' = None \/ (cur' \in Objs /\ objs'[cur'] # None)
  BY <1>1, <1>7, <1>8, RefFacts, ObjFields
<1>13. open' /\ sel' # None => cur' = sel'
  BY <1>1, <1>2, <1>8 DEF Refers
<1>14. SafeInv'
  BY <1>1, <1>2, <1>4, <1>7, <1>8, <1>9, <1>10, <1>11, <1>12, <1>13, KeepsSafe
<1> QED BY <1>2, <1>3, <1>4, <1>5, <1>7, <1>14

LEMMA OutsideFacts ==
    ASSUME SafeInv, Configure \/ Flip
    PROVE  /\ SafeInv' /\ UNCHANGED <<objs, listed, strays, rows, sel, cur, w, open, edits>>
           /\ Configure => online' = online /\
                 \E n \in Names, c \in Content : /\ store' = [store EXCEPT ![n] = c]
                                                 /\ queue' = Append(queue, Saved(n))
           /\ Flip => store' = store /\ \E e \in Event : e.act = "STATE" /\ queue' = Append(queue, e)
<1>1. TypeOK /\ Lives /\ Refers
  BY DEF SafeInv
<1>2. /\ admins < MaxAdmin /\ admins' = admins + 1
      /\ UNCHANGED <<objs, listed, strays, rows, sel, cur, w, open, edits>>
  BY DEF Configure, Flip, daemon, ui
<1>3. Configure => online' = online /\
                 \E n \in Names, c \in Content : /\ store' = [store EXCEPT ![n] = c]
                                                 /\ queue' = Append(queue, Saved(n))
  BY StoresAssumption DEF Configure
<1>4. Flip => store' = store /\ online' \in SUBSET Names
                 /\ \E e \in Event : e.act = "STATE" /\ queue' = Append(queue, e)
  <2> SUFFICES ASSUME Flip PROVE store' = store /\ online' \in SUBSET Names
                 /\ \E e \in Event : e.act = "STATE" /\ queue' = Append(queue, e)
    OBVIOUS
  <2>1. PICK n \in Names :
           /\ online' = (IF n \in online THEN online \ {n} ELSE online \cup {n})
           /\ queue' = Append(queue, [act |-> "STATE", name |-> n, on |-> n \notin online])
    BY DEF Flip
  <2>2. online \in SUBSET Names
    BY <1>1 DEF TypeOK
  <2>3. [act |-> "STATE", name |-> n, on |-> n \notin online] \in Event
    <3>1. (n \notin online) \in BOOLEAN
      OBVIOUS
    <3>2. ASSUME NEW b \in BOOLEAN PROVE [act |-> "STATE", name |-> n, on |-> b] \in Event
      BY DEF Event
    <3> QED BY <3>1, <3>2
  <2>4. store' = store
    BY DEF Flip
  <2>5. online' \in SUBSET Names
    BY <2>1, <2>2
  <2> QED BY <2>1, <2>3, <2>4, <2>5
<1>5. queue \in Seq(Event) /\ store \in [Names -> Content \cup {Absent}] /\ online \in SUBSET Names
  BY <1>1 DEF TypeOK
<1>6. queue' \in Seq(Event)
  BY <1>3, <1>4, <1>5, SavedEvent, AppendFacts
<1>7. store' \in [Names -> Content \cup {Absent}] /\ online' \in SUBSET Names
  BY <1>3, <1>4, <1>5
<1>8. /\ objs' \in [Objs -> Object \cup {None}] /\ listed' \in SUBSET Objs /\ strays' \in SUBSET Names
      /\ w' \in Widgets /\ open' \in BOOLEAN
  BY <1>1, <1>2 DEF TypeOK
<1>9. \A o \in RowSet \cup listed' : objs'[o] # None
  BY <1>1, <1>2, RowFacts, ObjFields
<1>10. cur' = None \/ (cur' \in Objs /\ objs'[cur'] # None)
  BY <1>1, <1>2, RefFacts, ObjFields
<1>11. /\ sel' = None \/ sel' \in RowSet
       /\ open' /\ sel' # None => cur' = sel'
       /\ open' /\ w'.sens => sel' # None
  BY <1>1, <1>2 DEF Refers
<1>12. Counts(edits, edits', MaxEdits) /\ Counts(admins, admins', MaxAdmin)
  BY <1>2 DEF Counts
<1>13. SafeInv'
  BY <1>1, <1>2, <1>6, <1>7, <1>8, <1>9, <1>10, <1>11, <1>12, KeepsSafe
<1> QED BY <1>2, <1>3, <1>4, <1>13

LEMMA StepSafe == SafeInv /\ [Next]_vars => SafeInv'
<1> SUFFICES ASSUME SafeInv, [Next]_vars PROVE SafeInv'
  OBVIOUS
<1>1. CASE OpenDialog \/ AddModifier \/ RemoveModifier \/ Rename
  BY <1>1, OpenFacts, AddFacts, RemoveFacts, RenameFacts
<1>2. CASE (\E o \in Objs : SelectRow(o)) \/ (\E on \in BOOLEAN : StartStop(on))
  BY <1>2, SelectRowQuiet, StartStopSafe
<1>3. CASE EditCommand \/ EditService \/ ToggleKind \/ ToggleConditional \/ Rules
  BY <1>3, PanelQuiet
<1>4. CASE Ok \/ Cancel
  BY <1>4, OkFacts, CancelQuiet
<1>5. CASE EventAdd \/ EventRefresh \/ EventDestroy \/ EventState
  BY <1>5, EventAddFacts, EventChangeFacts, EventDestroyFacts
<1>6. CASE Configure \/ Flip
  BY <1>6, OutsideFacts
<1>7. CASE UNCHANGED vars
  BY <1>7 DEF vars, SafeInv, TypeOK, Lives, Refers, RowSet
<1> QED BY <1>1, <1>2, <1>3, <1>4, <1>5, <1>6, <1>7, Zenon DEF Next

LEMMA Safe == Spec => []SafeInv
<1>1. SafeInv /\ [Next]_vars => SafeInv'
  BY StepSafe
<1> QED BY InitSafe, <1>1, PTL DEF Spec

-----------------------------------------------------------------------------
(* The promises of EditStore.                                                  *)

\* The modifiers S are committed by OK, and nwamd reports them in t.
Wrote(S, t) ==
    /\ S \subseteq RowSet
    /\ \A o \in S : Updated[o].mod /\ Updated[o].h \in Content /\ objs'[o] = Clean(Updated[o])
    /\ \A o \in (RowSet \cup listed) \ S : objs'[o] = Updated[o]
    /\ \A n \in Names :
          \/ store'[n] = store[n] /\ \A o \in S : Updated[o].name # n
          \/ \E o \in S : Updated[o].name = n /\ store'[n] = Updated[o].h
    /\ ~open' => \A o \in RowSet \ S : ~Updated[o].mod
    /\ t \in Seq(Event) /\ queue' = queue \o t
    /\ \A e : Has(t, e) <=> \E o \in S : e = Saved(Updated[o].name)

LEMMA OkWrites ==
    ASSUME SafeInv, Ok
    PROVE  \E S, t : Wrote(S, t)
<1> DEFINE os == Updated
<1>1. PICK i \in 1 .. (Len(rows) + 1), t \in Seq(Event) :
         /\ CommitRows(os, i)
         /\ open' \/ i = Len(rows) + 1
         /\ queue' = queue \o t
         /\ \A e : Has(t, e) <=> \E j \in Committed(os, i) : e = Saved(os[rows[j]].name)
  BY OkFacts
<1>2. TypeOK /\ Lives
  BY DEF SafeInv
<1>3. /\ os \in [Objs -> Object \cup {None}]
      /\ \A o \in RowSet \cup listed : o \in Objs /\ os[o] \in Object
  BY <1>2, UpdatedFacts, RowFacts, ObjFields
<1> DEFINE C == Committed(os, i)
           S == {rows[j] : j \in C}
<1>4. Wrote(S, t) <=>
    /\ S \subseteq RowSet
    /\ \A o \in S : os[o].mod /\ os[o].h \in Content /\ objs'[o] = Clean(os[o])
    /\ \A o \in (RowSet \cup listed) \ S : objs'[o] = os[o]
    /\ \A n \in Names :
          \/ store'[n] = store[n] /\ \A o \in S : os[o].name # n
          \/ \E o \in S : os[o].name = n /\ store'[n] = os[o].h
    /\ ~open' => \A o \in RowSet \ S : ~os[o].mod
    /\ t \in Seq(Event) /\ queue' = queue \o t
    /\ \A e : Has(t, e) <=> \E o \in S : e = Saved(os[o].name)
  BY Zenon DEF Wrote
<1> HIDE DEF os
<1>5. \A j \in 1 .. (i - 1) : Commits(os, j)
  BY <1>1 DEF CommitRows
<1>6. \A j \in C : rows[j] \in RowSet /\ os[rows[j]].mod /\ os[rows[j]].h \in Content
  BY <1>2, <1>3, <1>5, CommittedFacts
<1>7. /\ \A n \in Names :
            \/ store'[n] = store[n] /\ \A j \in C : os[rows[j]].name # n
            \/ \E j \in C : os[rows[j]].name = n /\ store'[n] = os[rows[j]].h
      /\ \A o \in Objs : IF \E j \in C : rows[j] = o
                         THEN objs'[o] = Clean(os[o]) ELSE objs'[o] = os[o]
  <2>1. \A o \in RowSet : os[o] \in Object
    BY <1>3
  <2>2. \A n \in Names :
            \/ store'[n] = store[n] /\ \A j \in Committed(os, i) : os[rows[j]].name # n
            \/ \E j \in Committed(os, i) : os[rows[j]].name = n /\ store'[n] = os[rows[j]].h
    <3> HIDE DEF C, S
    <3> QED BY <1>1, <1>2, <1>3, <2>1, CommitFacts
  <2>3. \A o \in Objs : IF \E j \in Committed(os, i) : rows[j] = o
                       THEN objs'[o] = Clean(os[o]) ELSE objs'[o] = os[o]
    <3> HIDE DEF C, S
    <3> QED BY <1>1, <1>2, <1>3, <2>1, CommitFacts
  <2> QED BY <2>2, <2>3, Zenon
<1>8. ~open' => \A o \in RowSet \ S : ~os[o].mod
  <2> SUFFICES ASSUME ~open', NEW o \in RowSet \ S PROVE ~os[o].mod
    OBVIOUS
  <2>1. i = Len(rows) + 1
    BY <1>1
  <2>2. PICK j \in 1 .. Len(rows) : rows[j] = o
    BY <1>2, RowFacts
  <2>3. j \in 1 .. (i - 1) /\ j \notin C
    BY <1>2, <2>1, <2>2, RowFacts
  <2> QED BY <2>2, <2>3 DEF Committed
<1> HIDE DEF C
<1>9. S \subseteq RowSet /\ \A o \in S : os[o].mod /\ os[o].h \in Content
  BY <1>6
<1>10. \A o \in S : o \in Objs /\ \E j \in C : rows[j] = o
  BY <1>3, <1>6
<1>11. \A o \in S : objs'[o] = Clean(os[o])
  BY <1>7, <1>10
<1>12. \A o \in (RowSet \cup listed) \ S : objs'[o] = os[o]
  <2> SUFFICES ASSUME NEW o \in RowSet \cup listed, o \notin S PROVE objs'[o] = os[o]
    OBVIOUS
  <2>1. ~\E j \in C : rows[j] = o
    OBVIOUS
  <2>2. o \in Objs
    BY <1>3
  <2> HIDE DEF S
  <2> QED BY <1>7, <2>1, <2>2
<1>13. \A n \in Names :
          \/ store'[n] = store[n] /\ \A o \in S : os[o].name # n
          \/ \E o \in S : os[o].name = n /\ store'[n] = os[o].h
  <2> SUFFICES ASSUME NEW n \in Names
               PROVE  \/ store'[n] = store[n] /\ \A o \in S : os[o].name # n
                      \/ \E o \in S : os[o].name = n /\ store'[n] = os[o].h
    OBVIOUS
  <2>1. CASE store'[n] = store[n] /\ \A j \in C : os[rows[j]].name # n
    BY <1>10, <2>1
  <2>2. CASE \E j \in C : os[rows[j]].name = n /\ store'[n] = os[rows[j]].h
    BY <2>2
  <2> QED BY <1>7, <2>1, <2>2
<1>14. \A e : Has(t, e) <=> \E o \in S : e = Saved(os[o].name)
  BY <1>1 DEF C
<1> HIDE DEF S
<1>15. Wrote(S, t)
  BY <1>1, <1>4, <1>8, <1>9, <1>11, <1>12, <1>13, <1>14
<1> QED BY <1>15

LEMMA PromiseInit == Init => Promise!Init
<1> SUFFICES ASSUME Init PROVE Promise!Init
  OBVIOUS
<1> DEFINE of == CHOOSE f \in [Names -> Objs] : \A m, n \in Names : m # n => f[m] # f[n]
           stored == {n \in Names : store[n] # Absent}
           entry(o) == CHOOSE n \in stored : of[n] = o
           new(n) == [name |-> n, h |-> store[n], mod |-> FALSE, fresh |-> FALSE,
                      frozen |-> FALSE, act |-> FALSE]
<1>1. objs = [o \in Objs |-> IF \E n \in stored : of[n] = o THEN new(entry(o)) ELSE None]
  BY DEF Init
<1>2. \A n : new(n).mod = FALSE
  OBVIOUS
<1> HIDE DEF of, new, entry, stored
<1>3. \A o \in Objs : objs[o] # None => objs[o].mod = FALSE
  BY <1>1, <1>2
<1>4. open = FALSE
  BY DEF Init
<1> QED BY <1>3, <1>4 DEF Promise!Init

\* The objects os as EditStore sees them, and that those of S are what was
\* written between the stores s and t.
DraftsOf(os) == [o \in Objs |-> IF os[o] = None THEN None ELSE [name |-> os[o].name, text |-> os[o].h]]
Writes(S, dr, s, t) ==
    /\ DOMAIN t = DOMAIN s
    /\ \A d \in S : dr[d] # None
    /\ \A n \in DOMAIN s :
          LET of == {d \in S : dr[d].name = n}
          IN  IF of = {} THEN t[n] = s[n]
              ELSE \E d \in of : t[n] = dr[d].text /\ dr[d].text # NoHandle

LEMMA PromiseForms ==
    /\ Promise!SaveSome <=>
          open /\ open' /\ \E S \in SUBSET RowSet : Writes(S, DraftsOf(objs'), store, store')
    /\ Promise!SaveAll <=>
          /\ open /\ ~open' /\ \E S \in SUBSET RowSet : Writes(S, DraftsOf(objs'), store, store')
          /\ {o \in Objs : objs'[o] # None /\ objs'[o].mod} \cap RowSet' = {}
<1>1. Promise!SaveSome <=>
         open /\ open' /\ \E S \in SUBSET RowSet : Writes(S, DraftsOf(objs'), store, store')
  BY Zenon DEF Promise!SaveSome, Promise!Written, Writes, DraftsOf
<1>2. Promise!SaveAll <=>
         /\ open /\ ~open' /\ \E S \in SUBSET RowSet : Writes(S, DraftsOf(objs'), store, store')
         /\ {o \in Objs : objs'[o] # None /\ objs'[o].mod} \cap RowSet' = {}
  BY Zenon DEF Promise!SaveAll, Promise!Written, Writes, DraftsOf
<1> QED BY <1>1, <1>2

LEMMA WrittenBy ==
    ASSUME NEW S \in SUBSET Objs, DOMAIN store = Names, DOMAIN store' = Names,
           \A d \in S : objs'[d] \in Object /\ objs'[d].h # NoHandle,
           \A n \in Names : \/ store'[n] = store[n] /\ \A d \in S : objs'[d].name # n
                            \/ \E d \in S : objs'[d].name = n /\ store'[n] = objs'[d].h
    PROVE  Writes(S, DraftsOf(objs'), store, store')
<1> DEFINE dr == DraftsOf(objs')
<1>1. ASSUME NEW d \in S
      PROVE  /\ dr[d] # None /\ dr[d].name = objs'[d].name /\ dr[d].text = objs'[d].h
             /\ objs'[d].h # NoHandle
  <2>1. dr[d] = [name |-> objs'[d].name, text |-> objs'[d].h]
    BY ObjFields DEF DraftsOf
  <2> HIDE DEF dr
  <2>2. [name |-> objs'[d].name, text |-> objs'[d].h] \in [name : Names, text : Content \cup {NoHandle}]
    BY ObjFields
  <2>3. dr[d] # None
    BY <2>1, <2>2, ObjsAssumption
  <2> QED BY <2>1, <2>3
<1> HIDE DEF dr
<1>2. ASSUME NEW n \in DOMAIN store
      PROVE  LET of == {d \in S : dr[d].name = n}
             IN  IF of = {} THEN store'[n] = store[n]
                 ELSE \E d \in of : store'[n] = dr[d].text /\ dr[d].text # NoHandle
  BY <1>1
<1>3. Writes(S, dr, store, store')
  BY <1>1, <1>2 DEF Writes
<1> QED BY <1>3 DEF dr

LEMMA PromiseStep == SafeInv /\ [Next]_vars => [Promise!Next]_(Promise!vars)
<1> SUFFICES ASSUME SafeInv, [Next]_vars PROVE Promise!Next \/ UNCHANGED Promise!vars
  OBVIOUS
<1>a. SafeInv'
  BY StepSafe
<1>b. TypeOK /\ Lives /\ Refers /\ TypeOK' /\ DOMAIN store = Names /\ DOMAIN store' = Names
  BY <1>a DEF SafeInv, TypeOK
<1>c. \A o \in RowSet \cup listed : o \in Objs /\ objs[o] \in Object /\ o # None
  BY <1>b, RowFacts, ObjsAssumption
<1>1. CASE OpenDialog
  <2>1. ~open /\ open' /\ store' = store
    BY <1>1, OpenFacts
  <2> QED BY <2>1 DEF Promise!Next, Promise!Open
<1>2. CASE UNCHANGED <<store, open>>
  BY <1>2 DEF Promise!Next, Promise!Edit
<1>3. CASE RemoveModifier
  <2>1. open /\ open' /\ sel \in RowSet
        /\ (store' = store \/ store' = [store EXCEPT ![objs[sel].name] = Absent])
    BY <1>3, RemoveFacts
  <2>2. objs[sel].name \in Names
    BY <1>c, <2>1, ObjFields
  <2>3. CASE store' = [store EXCEPT ![objs[sel].name] = Absent]
    BY <1>b, <2>1, <2>2, <2>3 DEF Promise!Next, Promise!Delete
  <2>4. open' = open
    BY <1>3 DEF RemoveModifier
  <2> QED BY <1>2, <2>1, <2>3, <2>4
<1>4. ASSUME NEW on \in BOOLEAN, StartStop(on) PROVE Promise!Next
  <2> DEFINE r == Update.r
  <2>1. /\ open /\ sel # None /\ cur = sel /\ sel \in Objs /\ r \in Object
        /\ UNCHANGED <<rows, sel, open>>
        /\ store' = store \/ Started(r)
    BY <1>4, StartStopFacts
  <2> HIDE DEF r
  <2>2. CASE store' = store
    <3>1. UNCHANGED <<store, open>>
      BY <2>1, <2>2
    <3> QED BY <3>1 DEF Promise!Next, Promise!Edit
  <2>3. CASE store' # store
    <3>1. store' = [store EXCEPT ![r.name] = r.h] /\ objs' = [objs EXCEPT ![sel] = Clean(r)]
      BY <2>1, <2>3 DEF Started
    <3>2. Clean(r) \in Object /\ Clean(r).name = r.name /\ Clean(r).h = r.h /\ r.name \in Names
      BY <2>1, CleanObject, ObjFields
    <3>3. objs'[sel] = Clean(r)
      BY <1>b, <2>1, <3>1, <3>2, OneChanged
    <3>4. store'[r.name] = r.h /\ \A m \in Names : m # r.name => store'[m] = store[m]
      BY <1>b, <3>1, <3>2
    <3>a. r.h # NoHandle
      BY <2>1, <2>3, ObjsAssumption DEF Started
    <3>5. {sel} \in SUBSET Objs /\ \A d \in {sel} : objs'[d] \in Object /\ objs'[d].h # NoHandle
      BY <2>1, <3>2, <3>3, <3>a
    <3>6. \A m \in Names : \/ store'[m] = store[m] /\ \A d \in {sel} : objs'[d].name # m
                           \/ \E d \in {sel} : objs'[d].name = m /\ store'[m] = objs'[d].h
      BY <3>2, <3>3, <3>4
    <3>7. Writes({sel}, DraftsOf(objs'), store, store')
      BY <1>b, <3>5, <3>6, WrittenBy
    <3>8. {sel} \in SUBSET RowSet /\ open'
      BY <1>b, <2>1 DEF Refers
    <3>9. Promise!SaveSome
      BY <2>1, <3>7, <3>8, PromiseForms, Zenon
    <3> QED BY <3>9 DEF Promise!Next
  <2> QED BY <2>2, <2>3
<1>5. CASE Ok
  <2>1. PICK S, t : Wrote(S, t)
    BY <1>5, OkWrites
  <2>2. open /\ rows' = rows
    BY <1>5, OkFacts
  <2>3. RowSet' = RowSet
    BY <2>2 DEF RowSet
  <2>4. /\ S \subseteq RowSet
        /\ \A o \in S : Updated[o].h \in Content /\ objs'[o] = Clean(Updated[o])
        /\ \A o \in RowSet \ S : objs'[o] = Updated[o]
        /\ \A n \in Names :
              \/ store'[n] = store[n] /\ \A o \in S : Updated[o].name # n
              \/ \E o \in S : Updated[o].name = n /\ store'[n] = Updated[o].h
        /\ ~open' => \A o \in RowSet \ S : ~Updated[o].mod
    BY <2>1 DEF Wrote
  <2>5. \A o \in RowSet : Updated[o] \in Object
    BY <1>b, <1>c, UpdatedFacts, ObjFields
  <2>6. \A d \in S : /\ d \in Objs /\ objs'[d] \in Object /\ objs'[d].name = Updated[d].name
                     /\ objs'[d].h = Updated[d].h /\ objs'[d].mod = FALSE
    <3> SUFFICES ASSUME NEW d \in S
                 PROVE  /\ d \in Objs /\ objs'[d] \in Object /\ objs'[d].name = Updated[d].name
                        /\ objs'[d].h = Updated[d].h /\ objs'[d].mod = FALSE
      OBVIOUS
    <3>1. d \in Objs /\ Updated[d] \in Object /\ objs'[d] = Clean(Updated[d])
      BY <1>c, <2>4, <2>5
    <3>2. /\ Clean(Updated[d]) \in Object /\ Clean(Updated[d]).name = Updated[d].name
          /\ Clean(Updated[d]).h = Updated[d].h /\ Clean(Updated[d]).mod = FALSE
      BY <3>1, CleanObject
    <3> QED BY <3>1, <3>2
  <2>7. ASSUME NEW n \in Names
        PROVE  \/ store'[n] = store[n] /\ \A d \in S : objs'[d].name # n
               \/ \E d \in S : objs'[d].name = n /\ store'[n] = objs'[d].h
    BY <2>4, <2>6
  <2>8. Writes(S, DraftsOf(objs'), store, store')
    <3>1. S \in SUBSET Objs /\ \A d \in S : objs'[d] \in Object /\ objs'[d].h # NoHandle
      BY <2>4, <2>6, ObjsAssumption
    <3> QED BY <1>b, <2>7, <3>1, WrittenBy
  <2>9. CASE open'
    <3>1. Promise!SaveSome
      BY <2>2, <2>4, <2>8, <2>9, PromiseForms, Zenon
    <3> QED BY <3>1 DEF Promise!Next
  <2>10. CASE ~open'
    <3>1. \A o \in RowSet : ~objs'[o].mod
      BY <2>4, <2>6, <2>10
    <3>2. {o \in Objs : objs'[o] # None /\ objs'[o].mod} \cap RowSet' = {}
      BY <2>3, <3>1
    <3>3. Promise!SaveAll
      BY <2>2, <2>4, <2>8, <2>10, <3>2, PromiseForms, Zenon
    <3> QED BY <3>3 DEF Promise!Next
  <2> QED BY <2>9, <2>10
<1>6. CASE Cancel
  <2>1. Quiet /\ open /\ ~open' /\ \A o \in RowSet : Reread(objs[o], objs'[o])
    BY <1>6, CancelQuiet
  <2>2. store' = store /\ RowSet' = RowSet
    BY <2>1 DEF Quiet, RowSet
  <2>3. ASSUME NEW d \in RowSet
        PROVE  /\ d \in Objs /\ objs'[d] # None
               /\ store[objs'[d].name] # Absent => objs'[d].h \in {store[objs'[d].name], NoHandle}
    <3>1. d \in Objs /\ objs[d] \in Object /\ Reread(objs[d], objs'[d])
      BY <1>c, <2>1
    <3>2. store \in [Names -> Content \cup {Absent}]
      BY <1>b DEF TypeOK
    <3> QED BY <3>1, <3>2, RereadObject, ObjFields
  <2>4. Promise!Revert
    BY <2>1, <2>2, <2>3 DEF Promise!Revert
  <2> QED BY <2>4 DEF Promise!Next
<1>7. CASE Configure
  <2>1. PICK n \in Names, c \in Content : store' = [store EXCEPT ![n] = c]
    BY <1>7, OutsideFacts
  <2>2. objs' = objs /\ rows' = rows /\ open' = open
    BY <1>7, OutsideFacts
  <2>3. RowSet' = RowSet
    BY <2>2 DEF RowSet
  <2>4. \A m \in Names \ {n} : store'[m] = store[m]
    BY <1>b, <2>1
  <2>5. Promise!Outside
    BY <1>b, <2>2, <2>3, <2>4 DEF Promise!Outside
  <2> QED BY <2>5 DEF Promise!Next
<1>8. CASE AddModifier \/ Rename \/ (\E o \in Objs : SelectRow(o)) \/ EditCommand \/ EditService
           \/ ToggleKind \/ ToggleConditional \/ Rules \/ Flip
  <2>1. UNCHANGED <<store, open>>
    BY <1>8 DEF AddModifier, Rename, SelectRow, EditCommand, EditService, ToggleKind,
       ToggleConditional, Rules, Flip, nwamd, ui
  <2> QED BY <1>2, <2>1
<1>9. CASE EventAdd \/ EventRefresh \/ EventDestroy \/ EventState \/ UNCHANGED vars
  <2>1. UNCHANGED <<store, open>>
    BY <1>9 DEF EventAdd, EventRefresh, EventDestroy, EventState, EventKeeps, vars
  <2> QED BY <1>2, <2>1
<1> QED BY <1>1, <1>3, <1>4, <1>5, <1>6, <1>7, <1>8, <1>9, Zenon DEF Next

\* The dialog is an EditStore: nothing stored changes but by a commit of what
\* the user saw or a removal, OK leaves no row unsaved, and Cancel gives back
\* what is stored, or a modifier without a handle where it cannot be read, which
\* is never written (nwam_vpn_pref_dialog.c: apply(), cancel(), remove_object(),
\* vpn_pref_clicked_cb(); nwamui_enm.c: the reads that fail).
THEOREM KeepsPromise == Spec => PromiseKept
BY Safe, PromiseInit, PromiseStep, PTL DEF Spec, PromiseKept, Promise!Spec

-----------------------------------------------------------------------------
(* That the listed modifiers come to have what is stored needs to know of      *)
(* every event that is pending what it is good for.  While the entry of a      *)
(* listed modifier is gone, an event will take it off the list; while it       *)
(* differs from its entry, an event will have it read again or taken off; and  *)
(* an event that tells of a new entry comes, if that entry is gone, before one *)
(* that tells so.                                                              *)

\* But for strays, a name stands for one row, and for one listed modifier.
Unique ==
    /\ \A o, p \in RowSet : objs[o].name = objs[p].name /\ objs[o].name \notin strays => o = p
    /\ \A o, p \in listed : objs[o].name = objs[p].name /\ objs[o].name \notin strays => o = p

\* After the event of a new entry that is gone comes that of its end.
EndsTold == \A n \in Names : store[n] = Absent => Covered(queue, Told("ADD", n), Told("DESTROY", n))

\* With the store s and the events q pending, the modifier r is in memory only,
\* or it has what is stored once they are handled, if it is listed still.
Sound(r, s, q) ==
    \/ r.fresh /\ r.mod
    \/ /\ s[r.name] = Absent => Has(q, Told("DESTROY", r.name))
       /\ ~r.mod /\ r.h # NoHandle /\ s[r.name] # Absent =>
             \/ r.h = s[r.name]
             \/ Has(q, Told("REFRESH", r.name))
             \/ Has(q, Told("DESTROY", r.name))

AllSound == \A o \in listed : objs[o].name \in strays \/ Sound(objs[o], store, queue)

ConvInv == Unique /\ EndsTold /\ AllSound

Stored == [Names -> Content \cup {Absent}]

LEMMA ToldEvent ==
    ASSUME NEW n \in Names, NEW a \in {"ADD", "REFRESH", "DESTROY"}
    PROVE  Told(a, n) \in Event /\ Told(a, n).act = a /\ Told(a, n).name = n
BY DEF Told, Event

LEMMA ToldSaved ==
    ASSUME NEW n \in Names
    PROVE  Saved(n) = IF store[n] = Absent THEN Told("ADD", n) ELSE Told("REFRESH", n)
BY DEF Saved, Told

\* An event of a new entry is nothing else.
LEMMA AddTold ==
    ASSUME NEW e \in Event, e.act = "ADD"
    PROVE  e.name \in Names /\ e = Told("ADD", e.name)
BY DEF Event, Told

\* An entry is written or removed, and nwamd tells of it.
LEMMA SoundPosted ==
    ASSUME NEW r \in Object, NEW s, NEW t, NEW q, NEW p,
           Sound(r, s, q),
           \A a \in {"REFRESH", "DESTROY"} : Has(q, Told(a, r.name)) => Has(p, Told(a, r.name)),
           \/ t[r.name] = s[r.name]
           \/ t[r.name] # Absent /\ (s[r.name] = Absent \/ Has(p, Told("REFRESH", r.name)))
           \/ t[r.name] = Absent /\ Has(p, Told("DESTROY", r.name))
    PROVE  Sound(r, t, p)
BY DEF Sound

LEMMA SoundReload ==
    ASSUME NEW r \in Object, NEW c, NEW q, Reread(r, c), store \in Stored, Sound(r, store, q)
    PROVE  Sound(c, store, q)
<1>1. /\ c.name = r.name /\ c.mod = r.mod
      /\ \/ c.h = NoHandle /\ c.fresh = r.fresh
         \/ store[r.name] # Absent /\ c.h = store[r.name]
         \/ c = r
  BY RereadObject DEF Stored
<1>2. CASE c.h = NoHandle /\ c.fresh = r.fresh
  BY <1>1, <1>2 DEF Sound
<1>3. CASE store[r.name] # Absent /\ c.h = store[r.name]
  BY <1>1, <1>3 DEF Sound
<1> QED BY <1>1, <1>2, <1>3

\* It is read again, or has modifications, and that was all that was pending.
LEMMA SoundRefreshed ==
    ASSUME NEW r \in Object, NEW q \in Seq(Event), store \in Stored, Sound(r, store, q),
           q # <<>>, Head(q) # Told("DESTROY", r.name)
    PROVE  /\ r.mod => Sound(r, store, Tail(q))
           /\ \A c : Reread(r, c) => Sound(c, store, Tail(q))
<1>1. Has(q, Told("DESTROY", r.name)) => Has(Tail(q), Told("DESTROY", r.name))
  BY HasTail
<1>2. r.mod => Sound(r, store, Tail(q))
  BY <1>1 DEF Sound
<1>3. ASSUME NEW c, Reread(r, c) PROVE Sound(c, store, Tail(q))
  <2>1. /\ c.name = r.name /\ c.mod = r.mod
        /\ \/ c.h = NoHandle /\ c.fresh = r.fresh
           \/ store[r.name] # Absent /\ c.h = store[r.name]
           \/ store[r.name] = Absent /\ c = r
    BY <1>3, RereadObject DEF Stored
  <2>2. CASE c.h = NoHandle /\ c.fresh = r.fresh
    BY <1>1, <2>1, <2>2 DEF Sound
  <2>3. CASE store[r.name] # Absent /\ c.h = store[r.name]
    BY <2>1, <2>3 DEF Sound
  <2>4. CASE store[r.name] = Absent /\ c = r
    BY <1>1, <2>4 DEF Sound
  <2> QED BY <2>1, <2>2, <2>3, <2>4
<1> QED BY <1>2, <1>3

\* An event about something else is handled.
LEMMA SoundTaken ==
    ASSUME NEW r \in Object, NEW s, NEW q \in Seq(Event), q # <<>>, Sound(r, s, q),
           Head(q) # Told("REFRESH", r.name), Head(q) # Told("DESTROY", r.name)
    PROVE  Sound(r, s, Tail(q))
<1>1. \A a \in {"REFRESH", "DESTROY"} : Has(q, Told(a, r.name)) => Has(Tail(q), Told(a, r.name))
  BY HasTail
<1> QED BY <1>1 DEF Sound

\* The dialog writes to it.
LEMMA SoundEdited ==
    ASSUME NEW r \in Object, NEW c, NEW s, NEW q, Sound(r, s, q), Edited(r, c)
    PROVE  Sound(c, s, q)
<1>1. /\ c.name = r.name /\ c.fresh = r.fresh
      /\ c.mod \/ (c.h = r.h /\ c.mod = r.mod)
  BY DEF Edited
<1> QED BY <1>1 DEF Sound

\* It is committed.
LEMMA SoundClean ==
    ASSUME NEW r \in Object, NEW s, NEW q, r.h # NoHandle, s[r.name] = r.h
    PROVE  Sound(Clean(r), s, q)
<1>1. Clean(r).name = r.name /\ Clean(r).h = r.h
  BY CleanObject
<1>2. s[r.name] # Absent
  BY ObjFields, ObjsAssumption
<1> QED BY <1>1, <1>2 DEF Sound

-----------------------------------------------------------------------------
(* What most steps leave true.                                                 *)

LEMMA ConvFacts ==
    ASSUME SafeInv, ConvInv
    PROVE  /\ TypeOK /\ Lives /\ Refers /\ Unique /\ EndsTold /\ AllSound
           /\ store \in Stored /\ queue \in Seq(Event)
           /\ \A o \in RowSet \cup listed : o \in Objs /\ objs[o] \in Object /\ objs[o].name \in Names
<1>1. TypeOK /\ Lives /\ Refers /\ Unique /\ EndsTold /\ AllSound
  BY DEF SafeInv, ConvInv
<1>2. store \in Stored /\ queue \in Seq(Event)
  BY <1>1 DEF TypeOK, Stored
<1>3. \A o \in RowSet \cup listed : o \in Objs /\ objs[o] \in Object /\ objs[o].name \in Names
  BY <1>1, RowFacts, ObjFields
<1> QED BY <1>1, <1>2, <1>3

\* No row and no listed modifier is added or renamed.
LEMMA UniqueKept ==
    ASSUME Unique, RowSet' \subseteq RowSet, listed' \subseteq listed, strays \subseteq strays',
           \A o \in RowSet' \cup listed' : objs'[o].name = objs[o].name
    PROVE  Unique'
BY DEF Unique

\* The oldest event is handled.
LEMMA EndsTaken ==
    ASSUME EndsTold, queue \in Seq(Event), queue # <<>>, queue' = Tail(queue), store' = store
    PROVE  EndsTold'
BY CoveredTail DEF EndsTold

\* More events are posted, none of them of a new entry that is gone.
LEMMA EndsPosted ==
    ASSUME EndsTold, queue \in Seq(Event), NEW t \in Seq(Event), queue' = queue \o t,
           \A n \in Names : store'[n] = Absent => store[n] = Absent /\ ~Has(t, Told("ADD", n))
    PROVE  EndsTold'
BY CoveredConcat DEF EndsTold

LEMMA EndsKept ==
    ASSUME EndsTold, UNCHANGED <<store, queue>>
    PROVE  EndsTold'
BY DEF EndsTold

\* A pair of lists of events that are posted is one.
LEMMA PostedTwice ==
    ASSUME NEW q \in Seq(Event), NEW a \in Seq(Event), NEW b \in Seq(Event)
    PROVE  /\ a \o b \in Seq(Event) /\ (q \o a) \o b = q \o (a \o b)
           /\ \A e : Has(a \o b, e) <=> Has(a, e) \/ Has(b, e)
<1>1. (q \o a) \o b = q \o (a \o b)
  OBVIOUS
<1> QED BY <1>1, HasConcat

LEMMA InitConv == Init => ConvInv
<1> SUFFICES ASSUME Init PROVE ConvInv
  OBVIOUS
<1> DEFINE of == CHOOSE f \in [Names -> Objs] : \A m, n \in Names : m # n => f[m] # f[n]
           stored == {n \in Names : store[n] # Absent}
           entry(o) == CHOOSE n \in stored : of[n] = o
           new(n) == [name |-> n, h |-> store[n], mod |-> FALSE, fresh |-> FALSE,
                      frozen |-> FALSE, act |-> FALSE]
<1>1. of \in [Names -> Objs] /\ \A m, n \in Names : m # n => of[m] # of[n]
  <2>1. \E f \in [Names -> Objs] : \A m, n \in Names : m # n => f[m] # f[n]
    BY ObjsAssumption
  <2> QED BY <2>1
<1>2. /\ listed = {of[n] : n \in stored}
      /\ objs = [o \in Objs |-> IF \E n \in stored : of[n] = o THEN new(entry(o)) ELSE None]
      /\ rows = <<>> /\ queue = <<>>
  BY DEF Init
<1> HIDE DEF of
<1>3. ASSUME NEW n \in stored PROVE of[n] \in Objs /\ entry(of[n]) = n
  <2>1. entry(of[n]) \in stored /\ of[entry(of[n])] = of[n]
    OBVIOUS
  <2> HIDE DEF entry
  <2> QED BY <1>1, <2>1
<1> HIDE DEF entry, new
<1>4. ASSUME NEW n \in stored PROVE objs[of[n]] = new(n)
  BY <1>2, <1>3
<1>5. ASSUME NEW n \in stored PROVE objs[of[n]].name = n /\ objs[of[n]].h = store[n] /\ store[n] # Absent
  <2>1. objs[of[n]] = new(n)
    BY <1>4
  <2>2. new(n).name = n /\ new(n).h = store[n]
    BY DEF new
  <2> QED BY <2>1, <2>2
<1>6. RowSet = {}
  BY <1>2 DEF RowSet, ToSet
<1>7. Unique
  <2>1. ASSUME NEW o \in listed, NEW p \in listed, objs[o].name = objs[p].name PROVE o = p
    <3>1. PICK m \in stored : o = of[m]
      BY <1>2
    <3>2. PICK n \in stored : p = of[n]
      BY <1>2
    <3> QED BY <1>5, <2>1, <3>1, <3>2
  <2> QED BY <1>6, <2>1 DEF Unique
<1>8. EndsTold
  BY <1>2 DEF EndsTold, Covered
<1>9. AllSound
  BY <1>2, <1>5 DEF AllSound, Sound
<1> QED BY <1>7, <1>8, <1>9 DEF ConvInv

LEMMA QuietConv == ASSUME SafeInv, ConvInv, Quiet PROVE ConvInv'
<1>1. /\ TypeOK /\ Unique /\ EndsTold /\ AllSound /\ store \in Stored
      /\ \A o \in RowSet \cup listed : objs[o] \in Object
  BY ConvFacts
<1>2. /\ UNCHANGED <<store, queue, listed, strays, rows>>
      /\ \A o \in RowSet \cup listed : Edited(objs[o], objs'[o]) \/ Reread(objs[o], objs'[o])
  BY DEF Quiet
<1>3. RowSet' = RowSet
  BY <1>2 DEF RowSet
<1>4. ASSUME NEW o \in RowSet \cup listed
      PROVE  /\ objs'[o].name = objs[o].name
             /\ Sound(objs[o], store, queue) => Sound(objs'[o], store, queue)
  <2>1. CASE Edited(objs[o], objs'[o])
    <3>1. objs'[o].name = objs[o].name
      BY <2>1 DEF Edited
    <3> QED BY <1>1, <2>1, <3>1, SoundEdited
  <2>2. CASE Reread(objs[o], objs'[o])
    BY <1>1, <2>2, SoundReload, RereadObject DEF Stored
  <2> QED BY <1>2, <2>1, <2>2
<1>5. Unique'
  BY <1>1, <1>2, <1>3, <1>4, UniqueKept
<1>6. AllSound'
  BY <1>1, <1>2, <1>4 DEF AllSound
<1> QED BY <1>1, <1>2, <1>5, <1>6, EndsKept DEF ConvInv

-----------------------------------------------------------------------------
(* What the user does with the list.                                           *)

LEMMA OpenConv == ASSUME SafeInv, ConvInv, OpenDialog PROVE ConvInv'
<1>1. /\ UNCHANGED <<store, queue, listed, strays>> /\ RowSet' = listed
      /\ \A p \in listed : objs'[p] = objs[p]
  BY OpenFacts
<1>2. Unique /\ EndsTold /\ AllSound
  BY DEF ConvInv
<1>3. Unique'
  BY <1>1, <1>2 DEF Unique
<1>4. AllSound'
  BY <1>1, <1>2 DEF AllSound
<1> QED BY <1>1, <1>2, <1>3, <1>4, EndsKept DEF ConvInv

LEMMA AddConv == ASSUME SafeInv, ConvInv, AddModifier PROVE ConvInv'
<1>1. CASE Quiet
  BY <1>1, QuietConv
<1>2. CASE ~Quiet
  <2>1. PICK o \in Free, n \in Names \ RowNames :
           /\ RowSet' = RowSet \cup {o} /\ o \notin RowSet \cup listed
           /\ objs'[o].name = n
           /\ \A p \in RowSet \cup listed : Edited(objs[p], objs'[p])
    BY <1>2, AddFacts
  <2>2. UNCHANGED <<store, queue, listed, strays>>
    BY <1>2, AddFacts
  <2>3. /\ Unique /\ EndsTold /\ AllSound
        /\ \A p \in RowSet \cup listed : objs[p] \in Object
    BY ConvFacts
  <2>4. \A p \in RowSet \cup listed : objs'[p].name = objs[p].name
    BY <2>1 DEF Edited
  <2>5. \A p \in RowSet : objs[p].name # n
    BY DEF RowNames
  <2>6. Unique'
    BY <2>1, <2>2, <2>3, <2>4, <2>5 DEF Unique
  <2>7. \A p \in listed : Sound(objs[p], store, queue) => Sound(objs'[p], store, queue)
    BY <2>1, <2>3, SoundEdited
  <2>8. AllSound'
    BY <2>2, <2>3, <2>4, <2>7 DEF AllSound
  <2> QED BY <2>2, <2>3, <2>6, <2>8, EndsKept DEF ConvInv
<1> QED BY <1>1, <1>2

LEMMA RenameConv == ASSUME SafeInv, ConvInv, Rename PROVE ConvInv'
<1>1. PICK n \in Names \ RowNames :
         /\ objs'[sel].name = n /\ objs'[sel].fresh /\ objs'[sel].mod
         /\ \A p \in Objs : p # sel => objs'[p] = objs[p]
         /\ strays' = IF sel \in listed /\ Named(n) # {} THEN strays \cup {n} ELSE strays
  BY RenameFacts
<1>2. UNCHANGED <<store, queue, listed, rows>>
  BY RenameFacts
<1>3. /\ Unique /\ EndsTold /\ AllSound
      /\ \A p \in RowSet \cup listed : p \in Objs
  BY ConvFacts
<1>4. RowSet' = RowSet /\ strays \subseteq strays'
  BY <1>1, <1>2 DEF RowSet
<1>5. \A p \in RowSet : objs[p].name # n
  BY DEF RowNames
<1>6. \A p \in RowSet \cup listed : p # sel => objs'[p] = objs[p]
  BY <1>1, <1>3
<1>7. ASSUME NEW p \in listed, sel \in listed, objs[p].name = n PROVE n \in strays'
  <2>1. p \in Named(n)
    BY <1>7 DEF Named
  <2> QED BY <1>1, <1>7, <2>1
<1>8. \A o, p \in RowSet : objs'[o].name = objs'[p].name /\ objs'[o].name \notin strays' => o = p
  BY <1>1, <1>3, <1>4, <1>5, <1>6 DEF Unique
<1>9. \A o, p \in listed : objs'[o].name = objs'[p].name /\ objs'[o].name \notin strays' => o = p
  <2> SUFFICES ASSUME NEW o \in listed, NEW p \in listed, objs'[o].name = objs'[p].name,
                      objs'[o].name \notin strays'
               PROVE  o = p
    OBVIOUS
  <2>1. CASE o # sel /\ p # sel
    <3>1. objs'[o] = objs[o] /\ objs'[p] = objs[p]
      BY <1>6, <2>1
    <3> QED BY <1>3, <1>4, <3>1 DEF Unique
  <2>2. CASE o = sel /\ p # sel
    BY <1>1, <1>6, <1>7, <2>2
  <2>3. CASE o # sel /\ p = sel
    BY <1>1, <1>6, <1>7, <2>3
  <2> QED BY <2>1, <2>2, <2>3
<1>10. Unique'
  BY <1>2, <1>4, <1>8, <1>9 DEF Unique
<1>11. AllSound'
  <2> SUFFICES ASSUME NEW o \in listed
               PROVE  objs'[o].name \in strays' \/ Sound(objs'[o], store, queue)
    BY <1>2 DEF AllSound
  <2>1. CASE o = sel
    BY <1>1, <2>1 DEF Sound
  <2>2. CASE o # sel
    BY <1>3, <1>4, <1>6, <2>2 DEF AllSound
  <2> QED BY <2>1, <2>2
<1> QED BY <1>2, <1>3, <1>10, <1>11, EndsKept DEF ConvInv

LEMMA RemoveConv == ASSUME SafeInv, ConvInv, RemoveModifier PROVE ConvInv'
<1> DEFINE n == objs[sel].name
<1>1. /\ UNCHANGED <<listed, strays>> /\ RowSet' \subseteq RowSet /\ sel \in RowSet
      /\ \/ /\ UNCHANGED <<store, queue>>
            /\ \A p \in RowSet' \cup listed : objs'[p] = objs[p]
         \/ /\ store' = [store EXCEPT ![n] = Absent]
            /\ queue' = Append(queue, Told("DESTROY", n))
            /\ \A p \in RowSet' \cup listed : p # sel => objs'[p] = objs[p]
            /\ sel \in RowSet' \cup listed =>
                  objs'[sel] \in Object /\ objs'[sel].name = n /\ objs'[sel].h = NoHandle
  BY RemoveFacts
<1>2. /\ Unique /\ EndsTold /\ AllSound /\ store \in Stored /\ queue \in Seq(Event)
      /\ \A p \in RowSet \cup listed : objs[p] \in Object /\ objs[p].name \in Names
  BY ConvFacts
<1>3. Unique'
  <2>1. \A p \in RowSet' \cup listed' : objs'[p].name = objs[p].name
    BY <1>1
  <2> QED BY <1>1, <1>2, <2>1, UniqueKept
<1>4. CASE UNCHANGED <<store, queue>> /\ \A p \in RowSet' \cup listed : objs'[p] = objs[p]
  <2>1. AllSound'
    BY <1>1, <1>2, <1>4 DEF AllSound
  <2> QED BY <1>2, <1>3, <1>4, <2>1, EndsKept DEF ConvInv
<1>5. CASE /\ store' = [store EXCEPT ![n] = Absent]
           /\ queue' = Append(queue, Told("DESTROY", n))
           /\ \A p \in RowSet' \cup listed : p # sel => objs'[p] = objs[p]
           /\ sel \in RowSet' \cup listed =>
                 objs'[sel] \in Object /\ objs'[sel].name = n /\ objs'[sel].h = NoHandle
  <2>1. n \in Names
    BY <1>1, <1>2
  <2> HIDE DEF n
  <2>2. store'[n] = Absent /\ \A m \in Names : m # n => store'[m] = store[m]
    BY <1>2, <1>5, <2>1 DEF Stored
  <2>3. Told("DESTROY", n) \in Event
    BY <2>1, ToldEvent
  <2>4. Has(queue', Told("DESTROY", n)) /\ \A e : Has(queue, e) => Has(queue', e)
    BY <1>2, <1>5, <2>3, HasAppend
  <2>5. EndsTold'
    <3> SUFFICES ASSUME NEW m \in Names, store'[m] = Absent
                 PROVE  Covered(queue', Told("ADD", m), Told("DESTROY", m))
      BY DEF EndsTold
    <3>1. CASE m = n
      <4>1. Told("ADD", n) # Told("DESTROY", n)
        BY <2>1, ToldEvent
      <4> QED BY <1>2, <1>5, <2>3, <3>1, <4>1, CoveredAppend
    <3>2. CASE m # n
      <4>1. Told("ADD", m) # Told("DESTROY", n) /\ store[m] = Absent
        BY <2>1, <2>2, <3>2, ToldEvent
      <4> QED BY <1>2, <1>5, <2>3, <4>1, CoveredAppendOther DEF EndsTold
    <3> QED BY <3>1, <3>2
  <2>6. ASSUME NEW p \in listed, objs'[p].name \notin strays PROVE Sound(objs'[p], store', queue')
    <3>1. CASE p = sel
      <4>1. objs'[p].name = n
        BY <1>5, <3>1
      <4> QED BY <2>2, <2>4, <4>1 DEF Sound
    <3>2. CASE p # sel
      <4>1. objs'[p] = objs[p] /\ objs[p] \in Object /\ objs[p].name \in Names
        BY <1>2, <1>5, <3>2
      <4>2. Sound(objs[p], store, queue)
        BY <1>2, <2>6, <4>1 DEF AllSound
      <4>3. \/ store'[objs[p].name] = store[objs[p].name]
            \/ store'[objs[p].name] = Absent /\ Has(queue', Told("DESTROY", objs[p].name))
        BY <2>2, <2>4, <4>1
      <4> QED BY <2>4, <4>1, <4>2, <4>3, SoundPosted
    <3> QED BY <3>1, <3>2
  <2>7. AllSound'
    BY <1>1, <2>6 DEF AllSound
  <2> QED BY <1>3, <2>5, <2>7 DEF ConvInv
<1> QED BY <1>1, <1>4, <1>5

-----------------------------------------------------------------------------
(* What is committed.                                                          *)

LEMMA StartConv ==
    ASSUME SafeInv, ConvInv, cur # None, Started(Update.r), rows' = rows
    PROVE  ConvInv'
<1> DEFINE r == Update.r
           n == r.name
<1>1. /\ Unique /\ EndsTold /\ AllSound /\ store \in Stored /\ queue \in Seq(Event)
      /\ TypeOK /\ Lives
      /\ \A p \in RowSet \cup listed : p \in Objs /\ objs[p] \in Object /\ objs[p].name \in Names
  BY ConvFacts
<1>2. cur \in Objs /\ objs[cur] \in Object /\ r \in Object /\ Edited(objs[cur], r)
  BY <1>1, RefFacts, UpdatedFacts
<1> HIDE DEF r
<1>3. /\ r.h \in Content
      /\ store' = IF r.mod THEN [store EXCEPT ![n] = r.h] ELSE store
      /\ objs' = [objs EXCEPT ![cur] = Clean(r)]
      /\ listed' = listed \cup {cur}
      /\ \/ strays' = strays /\ Named(n) \ {cur} = {} /\ (cur \in listed \/ r.h = store'[n])
         \/ strays' = strays \cup {n}
  BY DEF Started, r
<1>4. PICK a \in Seq(Event), b \in Seq(Event) :
         /\ queue' = (queue \o a) \o b
         /\ \A e : Has(a, e) <=> r.mod /\ e = Saved(n)
         /\ \A e : Has(b, e) => e.act = "STATE"
  BY DEF Started, r
<1>5. n \in Names /\ Clean(r) \in Object /\ Clean(r).name = n
  BY <1>2, CleanObject, ObjFields
<1>6. objs[cur].name = n
  BY <1>2 DEF Edited
<1> HIDE DEF n
<1>7. objs'[cur] = Clean(r) /\ \A p \in Objs : p # cur => objs'[p] = objs[p]
  BY <1>1, <1>2, <1>3, <1>5, OneChanged
<1>8. /\ a \o b \in Seq(Event) /\ queue' = queue \o (a \o b)
      /\ \A e : Has(a \o b, e) <=> Has(a, e) \/ Has(b, e)
  BY <1>1, <1>4, PostedTwice
<1>9. \A e : Has(queue, e) => Has(queue', e)
  BY <1>1, <1>8, HasConcat
<1>10. /\ strays \subseteq strays' /\ RowSet' = RowSet
       /\ \A m \in Names : m # n => store'[m] = store[m]
       /\ r.mod => store'[n] = r.h
       /\ ~r.mod => store' = store
  <2>1. RowSet' = RowSet
    BY DEF RowSet
  <2>2. strays \subseteq strays'
    BY <1>3
  <2>3. /\ \A m \in Names : m # n => store'[m] = store[m]
        /\ r.mod => store'[n] = r.h
        /\ ~r.mod => store' = store
    BY <1>1, <1>3, <1>5 DEF Stored
  <2> QED BY <2>1, <2>2, <2>3
<1>11. ASSUME NEW p \in listed, p # cur, objs[p].name = n PROVE n \in strays'
  <2>1. p \in Named(n) \ {cur}
    BY <1>11 DEF Named
  <2> QED BY <1>3, <2>1
<1>12. \A p \in RowSet \cup listed \cup {cur} : objs'[p].name = objs[p].name
  BY <1>1, <1>5, <1>6, <1>7
<1>13. Unique'
  <2>1. \A o, p \in RowSet : objs'[o].name = objs'[p].name /\ objs'[o].name \notin strays' => o = p
    BY <1>1, <1>10, <1>12 DEF Unique
  <2>2. \A o, p \in listed' : objs'[o].name = objs'[p].name /\ objs'[o].name \notin strays' => o = p
    <3> SUFFICES ASSUME NEW o \in listed \cup {cur}, NEW p \in listed \cup {cur},
                        objs[o].name = objs[p].name, objs[o].name \notin strays'
                 PROVE  o = p
      BY <1>3, <1>12
    <3>1. CASE o # cur /\ p # cur
      BY <1>1, <1>10, <3>1 DEF Unique
    <3>2. CASE o = cur \/ p = cur
      BY <1>6, <1>11, <3>2
    <3> QED BY <3>1, <3>2
  <2> QED BY <1>10, <2>1, <2>2 DEF Unique
<1>14. EndsTold'
  <2>1. ASSUME NEW m \in Names, store'[m] = Absent
        PROVE  store[m] = Absent /\ ~Has(a \o b, Told("ADD", m))
    <3>1. r.mod => m # n
      <4>1. r.h # Absent
        BY <1>3, ObjsAssumption
      <4> QED BY <1>10, <2>1, <4>1
    <3>2. Saved(n).name = n /\ Told("ADD", m).name = m /\ Told("ADD", m).act = "ADD"
      BY <1>5, SavedEvent, ToldEvent
    <3>3. ~Has(a, Told("ADD", m))
      BY <1>4, <3>1, <3>2
    <3>4. ~Has(b, Told("ADD", m))
      BY <1>4, <3>2
    <3>5. store[m] = Absent
      BY <1>10, <2>1, <3>1
    <3> QED BY <1>8, <3>3, <3>4, <3>5
  <2> QED BY <1>1, <1>8, <2>1, EndsPosted
<1>15. ASSUME NEW p \in listed, p # cur, objs[p].name \notin strays' PROVE Sound(objs[p], store', queue')
  <2>1. Sound(objs[p], store, queue) /\ objs[p] \in Object /\ objs[p].name \in Names
    BY <1>1, <1>10, <1>15 DEF AllSound
  <2>2. store'[objs[p].name] = store[objs[p].name]
    BY <1>10, <1>11, <1>15, <2>1
  <2> QED BY <1>9, <2>1, <2>2, SoundPosted
<1>16. ASSUME n \notin strays' PROVE Sound(Clean(r), store', queue')
  <2>1. r.h # NoHandle
    BY <1>3, ObjsAssumption
  <2>2. CASE r.h = store'[n]
    BY <1>2, <2>1, <2>2, SoundClean DEF n
  <2>3. CASE r.h # store'[n]
    <3>1. cur \in listed /\ n \notin strays /\ ~r.mod
      BY <1>3, <1>10, <1>16, <2>3
    <3>2. objs[cur].h = r.h /\ ~objs[cur].mod
      BY <1>2, <3>1 DEF Edited
    <3>3. Sound(objs[cur], store, queue)
      BY <1>1, <1>6, <3>1 DEF AllSound
    <3>4. Clean(r).name = n /\ Clean(r).h = r.h
      BY <1>2, <1>5, CleanObject
    <3>5. store' = store
      BY <1>10, <3>1
    <3> QED BY <1>6, <1>9, <2>1, <3>2, <3>3, <3>4, <3>5 DEF Sound
  <2> QED BY <2>2, <2>3
<1>17. AllSound'
  <2> SUFFICES ASSUME NEW p \in listed', objs'[p].name \notin strays' PROVE Sound(objs'[p], store', queue')
    BY DEF AllSound
  <2>1. CASE p = cur
    BY <1>5, <1>7, <1>16, <2>1
  <2>2. CASE p # cur
    <3>1. p \in listed /\ objs'[p] = objs[p]
      BY <1>1, <1>3, <1>7, <2>2
    <3> QED BY <1>15, <2>2, <3>1
  <2> QED BY <2>1, <2>2
<1> QED BY <1>13, <1>14, <1>17 DEF ConvInv

LEMMA OkConv == ASSUME SafeInv, ConvInv, Ok PROVE ConvInv'
<1>1. /\ Unique /\ EndsTold /\ AllSound /\ store \in Stored /\ queue \in Seq(Event)
      /\ TypeOK /\ Lives
      /\ \A p \in RowSet \cup listed : p \in Objs /\ objs[p] \in Object /\ objs[p].name \in Names
  BY ConvFacts
<1>2. PICK S, t : Wrote(S, t)
  BY OkWrites
<1>3. /\ S \subseteq RowSet
      /\ \A o \in S : Updated[o].mod /\ Updated[o].h \in Content /\ objs'[o] = Clean(Updated[o])
      /\ \A o \in (RowSet \cup listed) \ S : objs'[o] = Updated[o]
      /\ \A n \in Names :
            \/ store'[n] = store[n] /\ \A o \in S : Updated[o].name # n
            \/ \E o \in S : Updated[o].name = n /\ store'[n] = Updated[o].h
      /\ t \in Seq(Event) /\ queue' = queue \o t
      /\ \A e : Has(t, e) <=> \E o \in S : e = Saved(Updated[o].name)
  BY <1>2 DEF Wrote
<1>4. UNCHANGED <<listed, strays, rows>>
  BY OkFacts
<1>5. RowSet' = RowSet
  BY <1>4 DEF RowSet
<1>6. \A o \in RowSet \cup listed : /\ Updated[o] \in Object /\ Edited(objs[o], Updated[o])
                                    /\ Updated[o].name = objs[o].name
  <2>1. \A o \in RowSet \cup listed : Updated[o] \in Object /\ Edited(objs[o], Updated[o])
    BY <1>1, UpdatedFacts, ObjFields
  <2> QED BY <2>1 DEF Edited
<1>7. \A o \in RowSet \cup listed : objs'[o].name = objs[o].name
  <2> SUFFICES ASSUME NEW o \in RowSet \cup listed PROVE objs'[o].name = objs[o].name
    OBVIOUS
  <2>1. objs'[o] = Updated[o] \/ objs'[o] = Clean(Updated[o])
    BY <1>3
  <2> QED BY <1>6, <2>1, CleanObject
<1>8. Unique'
  BY <1>1, <1>4, <1>5, <1>7, UniqueKept
<1>9. \A e : Has(queue', e) <=> Has(queue, e) \/ Has(t, e)
  BY <1>1, <1>3, HasConcat
<1>10. \A c \in Content : c # Absent /\ c # NoHandle
  BY ObjsAssumption
<1>11. EndsTold'
  <2>1. ASSUME NEW m \in Names, store'[m] = Absent
        PROVE  store[m] = Absent /\ ~Has(t, Told("ADD", m))
    <3>1. store'[m] = store[m] /\ \A o \in S : Updated[o].name # m
      BY <1>3, <1>10, <2>1
    <3>2. \A o \in S : Saved(Updated[o].name).name # m
      BY <1>1, <1>3, <1>6, <3>1, SavedEvent
    <3>3. Told("ADD", m).name = m
      BY ToldEvent
    <3> QED BY <1>3, <2>1, <3>1, <3>2, <3>3
  <2> QED BY <1>1, <1>3, <2>1, EndsPosted
<1>12. ASSUME NEW p \in listed, objs[p].name \notin strays PROVE Sound(objs'[p], store', queue')
  <2> DEFINE n == objs[p].name
             u == Updated[p]
  <2>1. n \in Names /\ u \in Object /\ u.name = n /\ Edited(objs[p], u) /\ objs[p] \in Object
    BY <1>1, <1>6
  <2>2. Sound(objs[p], store, queue)
    BY <1>1, <1>12 DEF AllSound
  <2>3. n \notin strays
    BY <1>12
  <2>4. \A o \in RowSet : objs[o].name = n /\ p \in RowSet => o = p
    BY <1>1, <2>3 DEF Unique
  <2>5. \A o \in S : Updated[o].name = objs[o].name
    BY <1>3, <1>6
  <2>6. p \in S => u.h \in Content /\ objs'[p] = Clean(u)
    BY <1>3
  <2>7. p \notin S => objs'[p] = u
    BY <1>3
  <2> HIDE DEF n, u
  <2>8. CASE p \in S
    <3>1. PICK o \in S : Updated[o].name = n /\ store'[n] = Updated[o].h
      <4>1. Updated[p].name = n
        BY <2>1 DEF u
      <4> QED BY <1>3, <2>1, <2>8, <4>1
    <3>2. o = p
      BY <1>3, <2>4, <2>5, <2>8, <3>1
    <3>3. store'[u.name] = u.h /\ u.h # NoHandle
      BY <1>10, <2>1, <2>6, <2>8, <3>1, <3>2 DEF u
    <3> QED BY <2>1, <2>6, <2>8, <3>3, SoundClean
  <2>9. CASE p \notin S
    <3>1. Sound(u, store, queue)
      BY <2>1, <2>2, SoundEdited
    <3>2. \/ store'[n] = store[n]
          \/ store'[n] # Absent /\ (store[n] = Absent \/ Has(queue', Told("REFRESH", n)))
      <4>1. CASE store'[n] = store[n]
        BY <4>1
      <4>2. CASE \E o \in S : Updated[o].name = n /\ store'[n] = Updated[o].h
        <5>1. store'[n] # Absent
          BY <1>3, <1>10, <4>2
        <5>2. Has(t, Saved(n))
          BY <1>3, <4>2
        <5>3. store[n] # Absent => Saved(n) = Told("REFRESH", n)
          BY <2>1, ToldSaved
        <5> QED BY <1>9, <5>1, <5>2, <5>3
      <4> QED BY <1>3, <2>1, <4>1, <4>2
    <3> QED BY <1>9, <2>1, <2>7, <2>9, <3>1, <3>2, SoundPosted
  <2> QED BY <2>8, <2>9
<1>13. AllSound'
  BY <1>4, <1>7, <1>12 DEF AllSound
<1> QED BY <1>8, <1>11, <1>13 DEF ConvInv

-----------------------------------------------------------------------------
(* The events of nwamd, and what happens outside.                              *)

LEMMA TakenFacts ==
    ASSUME SafeInv, EventAdd \/ EventRefresh \/ EventDestroy \/ EventState
    PROVE  /\ queue # <<>> /\ queue' = Tail(queue) /\ UNCHANGED <<store, strays, rows>>
           /\ Head(queue) \in Event
           /\ EventAdd => Head(queue).act = "ADD"
           /\ EventRefresh => Head(queue).act = "REFRESH"
           /\ EventDestroy => Head(queue).act = "DESTROY"
           /\ EventState => Head(queue).act = "STATE"
<1>1. /\ queue # <<>> /\ queue' = Tail(queue) /\ UNCHANGED <<store, strays, rows>>
      /\ EventAdd => Head(queue).act = "ADD"
      /\ EventRefresh => Head(queue).act = "REFRESH"
      /\ EventDestroy => Head(queue).act = "DESTROY"
      /\ EventState => Head(queue).act = "STATE"
  BY DEF EventAdd, EventRefresh, EventDestroy, EventState, EventKeeps, Take, Head1
<1>2. queue \in Seq(Event)
  BY DEF SafeInv, TypeOK
<1> QED BY <1>1, <1>2, TailFacts

LEMMA EventAddConv == ASSUME SafeInv, ConvInv, EventAdd PROVE ConvInv'
<1> DEFINE n == Head(queue).name
<1>1. /\ Unique /\ EndsTold /\ AllSound /\ store \in Stored /\ queue \in Seq(Event)
      /\ TypeOK
      /\ \A p \in RowSet \cup listed : objs[p] \in Object /\ objs[p].name \in Names
  BY ConvFacts
<1>2. /\ queue # <<>> /\ queue' = Tail(queue) /\ UNCHANGED <<store, strays, rows>>
      /\ Head(queue) \in Event /\ Head(queue).act = "ADD"
  BY TakenFacts
<1>3. RowSet' = RowSet
  BY <1>2 DEF RowSet
<1>4. EndsTold'
  BY <1>1, <1>2, EndsTaken
<1>5. ASSUME NEW p \in listed, objs[p].name \notin strays PROVE Sound(objs[p], store, queue')
  <2>1. \A a \in {"REFRESH", "DESTROY"} : Head(queue) # Told(a, objs[p].name)
    BY <1>1, <1>2, ToldEvent
  <2>2. Sound(objs[p], store, queue) /\ objs[p] \in Object
    BY <1>1, <1>5 DEF AllSound
  <2> QED BY <1>1, <1>2, <2>1, <2>2, SoundTaken
<1>6. CASE UNCHANGED <<objs, listed>>
  <2>1. Unique'
    BY <1>1, <1>2, <1>3, <1>6, UniqueKept
  <2>2. AllSound'
    BY <1>2, <1>5, <1>6 DEF AllSound
  <2> QED BY <1>4, <2>1, <2>2 DEF ConvInv
<1>7. CASE ~UNCHANGED <<objs, listed>>
  <2>1. /\ Named(n) = {}
        /\ \E o \in Objs, unread \in BOOLEAN : \E r \in NewEnm(n, unread) :
              /\ objs'[o] = r /\ r \in Object /\ listed' = listed \cup {o}
              /\ o \notin RowSet \cup listed
              /\ \A p \in RowSet \cup listed : objs'[p] = objs[p]
    BY <1>7, EventAddFacts
  <2>a. PICK o \in Objs, unread \in BOOLEAN : \E r \in NewEnm(n, unread) :
              /\ objs'[o] = r /\ r \in Object /\ listed' = listed \cup {o}
              /\ o \notin RowSet \cup listed
              /\ \A p \in RowSet \cup listed : objs'[p] = objs[p]
    BY <2>1
  <2>2. PICK r \in NewEnm(n, unread) :
              /\ objs'[o] = r /\ r \in Object /\ listed' = listed \cup {o}
              /\ o \notin RowSet \cup listed
              /\ \A p \in RowSet \cup listed : objs'[p] = objs[p]
    BY <2>a
  <2>3. n \in Names /\ Head(queue) = Told("ADD", n)
    BY <1>2, AddTold
  <2>4. \A p \in listed : objs[p].name # n
    BY <2>1 DEF Named
  <2> HIDE DEF n
  <2>5. /\ r.name = n
        /\ (store[n] # Absent /\ r.h = store[n]) \/ (r.fresh /\ r.mod) \/ r.h = NoHandle
    <3>1. store \in [Names -> Content \cup {Absent}] /\ online \in SUBSET Names
      BY <1>1 DEF TypeOK
    <3> QED BY <2>3, <3>1, NewEnmObject
  <2>6. Unique'
    BY <1>1, <1>2, <1>3, <2>2, <2>4, <2>5 DEF Unique
  <2>7. Sound(r, store, queue')
    <3>1. store[n] = Absent => Has(queue', Told("DESTROY", n))
      BY <1>1, <1>2, <2>3, CoveredTail DEF EndsTold
    <3> QED BY <2>5, <3>1 DEF Sound
  <2>8. AllSound'
    BY <1>2, <1>5, <2>2, <2>7 DEF AllSound
  <2> QED BY <1>4, <2>6, <2>8 DEF ConvInv
<1> QED BY <1>6, <1>7

LEMMA EventChangeConv == ASSUME SafeInv, ConvInv, EventRefresh \/ EventState PROVE ConvInv'
<1> DEFINE n == Head(queue).name
<1>1. /\ Unique /\ EndsTold /\ AllSound /\ store \in Stored /\ queue \in Seq(Event)
      /\ TypeOK
      /\ \A p \in RowSet \cup listed : p \in Objs /\ objs[p] \in Object /\ objs[p].name \in Names
  BY ConvFacts
<1>2. /\ queue # <<>> /\ queue' = Tail(queue) /\ UNCHANGED <<store, strays, rows>>
      /\ EventRefresh => Head(queue).act = "REFRESH"
      /\ EventState => Head(queue).act = "STATE"
  BY TakenFacts
<1>3. RowSet' = RowSet
  BY <1>2 DEF RowSet
<1>4. EndsTold'
  BY <1>1, <1>2, EndsTaken
<1>5. /\ listed' = listed
      /\ \/ Named(n) = {} /\ objs' = objs
         \/ \E o \in Named(n), r \in Object :
               /\ o \in Objs /\ objs' = [objs EXCEPT ![o] = r]
               /\ EventState => Edited(objs[o], r)
               /\ EventRefresh => IF objs[o].mod THEN r = objs[o] ELSE Reread(objs[o], r)
  BY EventChangeFacts
<1>6. \A m \in Names : /\ Head(queue) # Told("DESTROY", m)
                       /\ EventState \/ m # n => Head(queue) # Told("REFRESH", m)
  BY <1>2, ToldEvent
<1> HIDE DEF n
<1>7. ASSUME NEW p \in listed, objs[p].name \notin strays, EventState \/ objs[p].name # n
      PROVE  Sound(objs[p], store, queue')
  <2>1. Sound(objs[p], store, queue) /\ objs[p] \in Object /\ objs[p].name \in Names
    BY <1>1, <1>7 DEF AllSound
  <2>2. Head(queue) # Told("REFRESH", objs[p].name) /\ Head(queue) # Told("DESTROY", objs[p].name)
    BY <1>6, <1>7, <2>1
  <2> QED BY <1>1, <1>2, <2>1, <2>2, SoundTaken
<1>8. CASE Named(n) = {} /\ objs' = objs
  <2>1. \A p \in listed : objs[p].name # n
    BY <1>8 DEF Named
  <2>2. Unique'
    BY <1>1, <1>2, <1>3, <1>5, <1>8, UniqueKept
  <2>3. AllSound'
    BY <1>2, <1>5, <1>7, <1>8, <2>1 DEF AllSound
  <2> QED BY <1>4, <2>2, <2>3 DEF ConvInv
<1>9. CASE \E o \in Named(n), r \in Object :
               /\ o \in Objs /\ objs' = [objs EXCEPT ![o] = r]
               /\ EventState => Edited(objs[o], r)
               /\ EventRefresh => IF objs[o].mod THEN r = objs[o] ELSE Reread(objs[o], r)
  <2>1. PICK o \in Named(n), r \in Object :
               /\ o \in Objs /\ objs' = [objs EXCEPT ![o] = r]
               /\ EventState => Edited(objs[o], r)
               /\ EventRefresh => IF objs[o].mod THEN r = objs[o] ELSE Reread(objs[o], r)
    BY <1>9
  <2>2. objs'[o] = r /\ \A p \in Objs : p # o => objs'[p] = objs[p]
    BY <1>1, <2>1, OneChanged
  <2>3. o \in listed /\ objs[o].name = n /\ objs[o] \in Object
    BY <1>1 DEF Named
  <2>4. r.name = n
    <3>1. CASE EventState
      BY <2>1, <2>3, <3>1 DEF Edited
    <3>2. CASE EventRefresh
      BY <1>1, <2>1, <2>3, <3>2, RereadObject DEF Stored
    <3> QED BY <3>1, <3>2
  <2>5. \A p \in RowSet \cup listed : objs'[p].name = objs[p].name
    BY <1>1, <2>2, <2>3, <2>4
  <2>6. Unique'
    BY <1>1, <1>2, <1>3, <1>5, <2>5, UniqueKept
  <2>7. ASSUME n \notin strays PROVE Sound(r, store, queue')
    <3>1. CASE EventState
      BY <1>7, <2>1, <2>3, <2>7, <3>1, SoundEdited
    <3>2. CASE EventRefresh
      <4>1. Sound(objs[o], store, queue)
        BY <1>1, <2>3, <2>7 DEF AllSound
      <4>2. Head(queue) # Told("DESTROY", objs[o].name)
        BY <1>1, <1>6, <2>3
      <4>3. /\ objs[o].mod => Sound(objs[o], store, queue')
            /\ Reread(objs[o], r) => Sound(r, store, queue')
        BY <1>1, <1>2, <2>3, <4>1, <4>2, SoundRefreshed
      <4> QED BY <2>1, <3>2, <4>3
    <3> QED BY <3>1, <3>2
  <2>8. ASSUME NEW p \in listed, objs[p].name \notin strays, p # o PROVE Sound(objs[p], store, queue')
    <3>1. objs[p].name # n
      BY <1>1, <2>3, <2>8 DEF Unique
    <3> QED BY <1>7, <2>8, <3>1
  <2>9. AllSound'
    <3> SUFFICES ASSUME NEW p \in listed, objs'[p].name \notin strays PROVE Sound(objs'[p], store, queue')
      BY <1>2, <1>5 DEF AllSound
    <3>1. CASE p = o
      BY <2>2, <2>4, <2>7, <3>1
    <3>2. CASE p # o
      BY <1>1, <2>2, <2>8, <3>2
    <3> QED BY <3>1, <3>2
  <2> QED BY <1>4, <2>6, <2>9 DEF ConvInv
<1> QED BY <1>5, <1>8, <1>9

LEMMA EventDestroyConv == ASSUME SafeInv, ConvInv, EventDestroy PROVE ConvInv'
<1> DEFINE n == Head(queue).name
<1>1. /\ Unique /\ EndsTold /\ AllSound /\ store \in Stored /\ queue \in Seq(Event)
      /\ \A p \in RowSet \cup listed : objs[p] \in Object /\ objs[p].name \in Names
  BY ConvFacts
<1>2. /\ queue # <<>> /\ queue' = Tail(queue) /\ UNCHANGED <<store, strays, rows>>
  BY TakenFacts
<1>3. RowSet' = RowSet
  BY <1>2 DEF RowSet
<1>4. EndsTold'
  BY <1>1, <1>2, EndsTaken
<1>5. /\ \A p \in RowSet \cup listed' : objs'[p] = objs[p]
      /\ \/ Named(n) = {} /\ listed' = listed
         \/ \E o \in Named(n) : listed' = listed \ {o}
  BY EventDestroyFacts
<1>6. listed' \subseteq listed
  BY <1>5
<1>7. Unique'
  BY <1>1, <1>2, <1>3, <1>5, <1>6, UniqueKept
<1>8. \A m \in Names, a \in {"REFRESH", "DESTROY"} : m # n => Head(queue) # Told(a, m)
  BY ToldEvent
<1> HIDE DEF n
<1>9. ASSUME NEW p \in listed', objs[p].name \notin strays PROVE objs[p].name # n
  <2>1. CASE Named(n) = {}
    BY <1>6, <2>1 DEF Named
  <2>2. CASE \E o \in Named(n) : listed' = listed \ {o}
    <3>1. PICK o \in Named(n) : listed' = listed \ {o}
      BY <2>2
    <3>2. o \in listed /\ objs[o].name = n /\ p \in listed /\ p # o
      BY <3>1 DEF Named
    <3> QED BY <1>1, <1>9, <3>2 DEF Unique
  <2> QED BY <1>5, <2>1, <2>2
<1>10. AllSound'
  <2> SUFFICES ASSUME NEW p \in listed', objs'[p].name \notin strays PROVE Sound(objs'[p], store, queue')
    BY <1>2 DEF AllSound
  <2>1. objs'[p] = objs[p] /\ p \in listed
    BY <1>5, <1>6
  <2>2. objs[p].name # n /\ objs[p] \in Object /\ objs[p].name \in Names /\ Sound(objs[p], store, queue)
    BY <1>1, <1>9, <2>1 DEF AllSound
  <2> QED BY <1>1, <1>2, <1>8, <2>1, <2>2, SoundTaken
<1> QED BY <1>4, <1>7, <1>10 DEF ConvInv

LEMMA OutsideConv == ASSUME SafeInv, ConvInv, Configure \/ Flip PROVE ConvInv'
<1>1. /\ Unique /\ EndsTold /\ AllSound /\ store \in Stored /\ queue \in Seq(Event)
      /\ \A p \in RowSet \cup listed : objs[p] \in Object /\ objs[p].name \in Names
  BY ConvFacts
<1>2. UNCHANGED <<objs, listed, strays, rows>>
  BY OutsideFacts
<1>3. RowSet' = RowSet
  BY <1>2 DEF RowSet
<1>4. Unique'
  BY <1>1, <1>2, <1>3, UniqueKept
<1>5. CASE Configure
  <2>1. PICK n \in Names, c \in Content : store' = [store EXCEPT ![n] = c] /\ queue' = Append(queue, Saved(n))
    BY <1>5, OutsideFacts
  <2>2. c # Absent
    BY ObjsAssumption
  <2>3. store'[n] = c /\ \A m \in Names : m # n => store'[m] = store[m]
    BY <1>1, <2>1 DEF Stored
  <2>4. Saved(n) \in Event /\ Saved(n).name = n /\ (store[n] # Absent => Saved(n) = Told("REFRESH", n))
    BY SavedEvent, ToldSaved
  <2>5. Has(queue', Saved(n)) /\ \A e : Has(queue, e) => Has(queue', e)
    BY <1>1, <2>1, <2>4, HasAppend
  <2>6. EndsTold'
    <3> SUFFICES ASSUME NEW m \in Names, store'[m] = Absent
                 PROVE  Covered(queue', Told("ADD", m), Told("DESTROY", m))
      BY DEF EndsTold
    <3>1. m # n /\ store[m] = Absent /\ Saved(n) # Told("ADD", m)
      BY <2>2, <2>3, <2>4, ToldEvent
    <3> QED BY <1>1, <2>1, <2>4, <3>1, CoveredAppendOther DEF EndsTold
  <2>7. ASSUME NEW p \in listed, objs[p].name \notin strays PROVE Sound(objs[p], store', queue')
    <3>1. Sound(objs[p], store, queue) /\ objs[p] \in Object /\ objs[p].name \in Names
      BY <1>1, <2>7 DEF AllSound
    <3>2. \/ store'[objs[p].name] = store[objs[p].name]
          \/ /\ store'[objs[p].name] # Absent
             /\ store[objs[p].name] = Absent \/ Has(queue', Told("REFRESH", objs[p].name))
      BY <2>2, <2>3, <2>4, <2>5, <3>1
    <3> QED BY <2>5, <3>1, <3>2, SoundPosted
  <2>8. AllSound'
    BY <1>2, <2>7 DEF AllSound
  <2> QED BY <1>4, <2>6, <2>8 DEF ConvInv
<1>6. CASE Flip
  <2>1. store' = store
    BY <1>6, OutsideFacts
  <2>2. PICK e \in Event : e.act = "STATE" /\ queue' = Append(queue, e)
    BY <1>6, OutsideFacts
  <2>3. EndsTold'
    <3> SUFFICES ASSUME NEW m \in Names, store[m] = Absent
                 PROVE  Covered(queue', Told("ADD", m), Told("DESTROY", m))
      BY <2>1 DEF EndsTold
    <3>1. e # Told("ADD", m)
      BY <2>2, ToldEvent
    <3> QED BY <1>1, <2>2, <3>1, CoveredAppendOther DEF EndsTold
  <2>4. \A x : Has(queue, x) => Has(queue', x)
    BY <1>1, <2>2, HasAppend
  <2>5. \A p \in listed : Sound(objs[p], store, queue) => Sound(objs[p], store, queue')
    BY <2>4 DEF Sound
  <2>6. AllSound'
    BY <1>1, <1>2, <2>1, <2>5 DEF AllSound
  <2> QED BY <1>4, <2>3, <2>6 DEF ConvInv
<1> QED BY <1>5, <1>6

LEMMA StepConv == SafeInv /\ ConvInv /\ [Next]_vars => ConvInv'
<1> SUFFICES ASSUME SafeInv, ConvInv, [Next]_vars PROVE ConvInv'
  OBVIOUS
<1>1. CASE OpenDialog \/ AddModifier \/ RemoveModifier \/ Rename
  BY <1>1, OpenConv, AddConv, RemoveConv, RenameConv
<1>2. CASE (\E o \in Objs : SelectRow(o)) \/ Cancel
  BY <1>2, SelectRowQuiet, CancelQuiet, QuietConv
<1>3. CASE EditCommand \/ EditService \/ ToggleKind \/ ToggleConditional \/ Rules
  BY <1>3, PanelQuiet, QuietConv
<1>4. ASSUME NEW on \in BOOLEAN, StartStop(on) PROVE ConvInv'
  <2>1. sel # None /\ cur = sel /\ rows' = rows
    BY <1>4, StartStopFacts
  <2>2. Quiet \/ Started(Update.r)
    BY <1>4, StartStopSafe
  <2> QED BY <2>1, <2>2, QuietConv, StartConv
<1>5. CASE EventAdd \/ EventRefresh \/ EventDestroy \/ EventState
  BY <1>5, EventAddConv, EventChangeConv, EventDestroyConv
<1>6. CASE Configure \/ Flip
  BY <1>6, OutsideConv
<1>7. CASE UNCHANGED vars
  BY <1>7 DEF vars, ConvInv, Unique, EndsTold, AllSound, RowSet
<1> QED BY <1>1, <1>2, <1>3, <1>4, <1>5, <1>6, <1>7, OkConv, Zenon DEF Next

\* What the invariant says of a listed modifier without modifications.
LEMMA ToldOf ==
    ASSUME SafeInv, ConvInv, NEW o \in listed, ~objs[o].mod, objs[o].h # NoHandle,
           store[objs[o].name] # Absent, objs[o].name \notin strays, ~Untold(objs[o].name)
    PROVE  objs[o].h = store[objs[o].name]
<1>1. Sound(objs[o], store, queue) /\ objs[o].name \in Names
  BY ConvFacts DEF AllSound
<1>2. \A a \in {"REFRESH", "DESTROY"} : ~Has(queue, Told(a, objs[o].name))
  BY <1>1, ToldEvent DEF Untold, Has
<1> QED BY <1>1, <1>2 DEF Sound

\* What a modifier has is what is stored, once the daemon object was told of
\* every change (nwamui_daemon.c: the events; nwamui_enm.c: reload(); the
\* commits and the removals of nwam_vpn_pref_dialog.c).
THEOREM Converges == Spec => []ListedConverges
<1>1. SafeInv /\ ConvInv => ListedConverges
  BY ToldOf DEF ListedConverges, SafeInv
<1> QED BY <1>1, InitConv, StepConv, Safe, PTL DEF Spec

LEMMA StartedSaved ==
    ASSUME SafeInv, ConvInv, NEW on \in BOOLEAN, StartStop(on), online' # online
    PROVE  \/ objs[cur].name \in strays' \/ Untold(objs[cur].name)
           \/ objs'[cur].h = store'[objs[cur].name]
<1> DEFINE r == Update.r
           n == objs[cur].name
<1>1. /\ sel # None /\ cur = sel /\ sel \in Objs /\ objs[sel] \in Object
      /\ r \in Object /\ Edited(objs[sel], r) /\ Started(r)
  BY StartStopFacts
<1>2. /\ TypeOK /\ AllSound /\ store \in Stored
  BY ConvFacts
<1> HIDE DEF r
<1>3. r.name = n /\ n \in Names
  BY <1>1, ObjFields DEF Edited
<1> HIDE DEF n
<1>4. /\ r.h \in Content
      /\ store' = IF r.mod THEN [store EXCEPT ![n] = r.h] ELSE store
      /\ objs' = [objs EXCEPT ![cur] = Clean(r)]
      /\ \/ strays' = strays /\ (cur \in listed \/ r.h = store'[n])
         \/ strays' = strays \cup {n}
      /\ store'[n] # Absent
  BY <1>1, <1>3 DEF Started
<1>5. objs'[cur].h = r.h
  BY <1>1, <1>2, <1>4, CleanObject, OneChanged
<1>6. CASE r.mod
  <2>1. store'[n] = r.h
    BY <1>2, <1>3, <1>4, <1>6 DEF Stored
  <2> QED BY <1>5, <2>1 DEF n
<1>7. CASE ~r.mod /\ strays' = strays /\ cur \in listed
  <2>1. store' = store /\ r.h # NoHandle
    BY <1>4, <1>7, ObjsAssumption
  <2>2. objs[cur].h = r.h /\ ~objs[cur].mod
    BY <1>1, <1>7 DEF Edited
  <2>3. ~Untold(n) /\ n \notin strays => objs[cur].h = store[n]
    BY <1>4, <1>7, <2>1, <2>2, ToldOf DEF n
  <2> QED BY <1>5, <1>7, <2>1, <2>2, <2>3 DEF n
<1> QED BY <1>4, <1>5, <1>6, <1>7 DEF n

\* What is started or stopped is what was saved (nwam_vpn_pref_dialog.c:
\* vpn_pref_clicked_cb(), which commits before it enables or disables).
THEOREM StartsSaved == Spec => StartsWhatIsSaved
<1> DEFINE Saves == online' # online /\ edits' # edits /\ sel' # None =>
              LET n == objs[cur].name
              IN  n \in strays' \/ Untold(n) \/ objs'[cur].h = store'[n]
<1>1. ASSUME SafeInv, ConvInv, [Next]_vars, online' # online, edits' # edits, sel' # None
      PROVE  LET n == objs[cur].name
             IN  n \in strays' \/ Untold(n) \/ objs'[cur].h = store'[n]
  <2>1. ASSUME NEW on \in BOOLEAN, StartStop(on)
        PROVE  LET n == objs[cur].name
               IN  n \in strays' \/ Untold(n) \/ objs'[cur].h = store'[n]
    BY <1>1, <2>1, StartedSaved
  <2>2. CASE RemoveModifier
    BY <1>1, <2>2 DEF RemoveModifier
  <2>3. CASE OpenDialog \/ AddModifier \/ Rename \/ (\E o \in Objs : SelectRow(o))
             \/ EditCommand \/ EditService \/ ToggleKind \/ ToggleConditional \/ Rules
    BY <1>1, <2>3 DEF OpenDialog, AddModifier, Rename, SelectRow, EditCommand, EditService,
       ToggleKind, ToggleConditional, Rules, nwamd
  <2>4. CASE Ok \/ Cancel \/ Configure \/ Flip
    BY <1>1, <2>4 DEF Ok, Cancel, Configure, Flip, nwamd
  <2>5. CASE EventAdd \/ EventRefresh \/ EventDestroy \/ EventState \/ UNCHANGED vars
    BY <1>1, <2>5 DEF EventAdd, EventRefresh, EventDestroy, EventState, EventKeeps, vars
  <2> QED BY <1>1, <2>1, <2>2, <2>3, <2>4, <2>5, Zenon DEF Next
<1>2. SafeInv /\ ConvInv /\ [Next]_vars => [Saves]_vars
  BY <1>1
<1> QED BY <1>2, InitConv, StepConv, Safe, PTL DEF Spec, StartsWhatIsSaved

=============================================================================
