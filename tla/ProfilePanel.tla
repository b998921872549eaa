----------------------------- MODULE ProfilePanel -----------------------------
(* The page of the preferences window that lists the network profiles (NCPs): *)
(* src/capplet/nwam_profile_panel.c, the buttons of its list                  *)
(* (src/capplet/nwam_tree_view.c), the NCP object (src/common/nwamui_ncp.c),  *)
(* the library's list of NCPs and the events of nwamd that change that list   *)
(* (src/common/nwamui_daemon.c).  The rows of the page and the library's list *)
(* are kept apart: creating, copying, renaming or removing a profile changes  *)
(* nwamd, the list and the rows one after the other, an event changes only    *)
(* the list, and nwamd may refuse any request.                                *)
(* An event is <<"add" or "remove", name>>.  What is in a profile, and which  *)
(* one is active, is left out.                                                *)
EXTENDS Integers, FiniteSets, SequencesExt

CONSTANTS
    Names,      \* the names of NCPs
    Automatic,  \* the one that cannot be changed
    Ids,        \* the NCP objects that may exist at a time
    MaxEdits,   \* bound: what the user does to the rows
    MaxAdmin    \* bound: NCPs added or removed by others

PanelAssumption ==
    Automatic \in Names /\ 1 .. 2 \subseteq Ids /\ Ids \subseteq Nat /\ 0 \notin Names

VARIABLES
    stored,     \* the names of the NCPs in nwamd
    events,     \* its events on their way
    objs,       \* the NCP objects: their name, and whether they have a handle
    listed,     \* the objects the library lists, the latest first
    rows,       \* the objects on the rows of the page
    toggled,    \* the row the user chose to activate, or 0
    choice,     \* <<the NCP object the user chose>>, or nothing
    asked,      \* the NCP apply() asked to activate last, or 0
    page,       \* whether the page is shown
    edits, admin,
    outcome     \* "open", "ok", or "aborted" by a failed assertion

vars == <<stored, events, objs, listed, rows, toggled, choice, asked,
          page, edits, admin, outcome>>

-----------------------------------------------------------------------------
Ncp(n, h) == [name |-> n, handle |-> h]
Nothing == Ncp(0, FALSE)
Used(l, r) == ToSet(l) \cup ToSet(r)
NamesOn(l) == {objs[l[i]].name : i \in DOMAIN l}
New == {o \in Ids : /\ o \notin Used(listed, rows)
                    /\ \A p \in Ids \ Used(listed, rows) : o <= p}

\* An object neither listed nor on a row is gone.
Kept(os, l, r) == [o \in Ids |-> IF o \in Used(l, r) THEN os[o] ELSE Nothing]

WithRow(l, r, os) ==
    /\ listed' = l /\ rows' = r
    /\ objs' = Kept(os, l, r)

\* The library lists an object once.
Added(o, l) == IF o \in ToSet(l) THEN l ELSE <<o>> \o l
Named(l, n) == {i \in DOMAIN l : objs[l[i]].name = n}
Least(S) == CHOOSE i \in S : \A j \in S : i <= j
\* Not listing it takes the first away.
Unlisted(l, o) == IF o \in ToSet(l) THEN RemoveAt(l, Least({i \in DOMAIN l : l[i] = o})) ELSE l

-----------------------------------------------------------------------------
Init ==
    /\ stored \in {S \in SUBSET Names : Automatic \in S /\ IsFiniteSet(S) /\ Cardinality(S) <= 2}
    /\ \E l \in SetToSeqs(1 .. Cardinality(stored)), f \in SetToSeqs(stored) :
          /\ listed = l /\ rows = l
          /\ objs = [o \in Ids |-> IF o \in DOMAIN f THEN Ncp(f[o], TRUE) ELSE Nothing]
          /\ \A i, j \in DOMAIN l : i < j => f[l[i]] < f[l[j]] /\ l[i] < l[j]
    /\ events = <<>> /\ toggled = 0 /\ choice = <<>> /\ asked = 0
    /\ page = TRUE /\ edits = 0 /\ admin = 0 /\ outcome = "open"

Edit ==
    /\ page /\ outcome = "open"
    /\ edits < MaxEdits /\ edits' = edits + 1
    /\ UNCHANGED <<asked, page, admin>>

\* nwamd creates the NCP and announces it.
Creates(n) ==
    /\ n \notin stored
    /\ stored' = stored \cup {n}
    /\ events' = Append(events, <<"add", n>>)

\* Add: an object of a name no row has takes an NCP of that name, or creates
\* one.  It is listed if that succeeds, and gets a row in either case.
Create ==
    /\ Edit
    /\ \E n \in Names \ NamesOn(rows), o \in New :
          \/ /\ WithRow(Added(o, listed), Append(rows, o), [objs EXCEPT ![o] = Ncp(n, TRUE)])
             /\ IF n \in stored THEN UNCHANGED <<stored, events>> ELSE Creates(n)
          \/ /\ n \notin stored     \* nwamd refuses
             /\ WithRow(listed, Append(rows, o), [objs EXCEPT ![o] = Ncp(n, FALSE)])
             /\ UNCHANGED <<stored, events>>
    /\ UNCHANGED <<toggled, choice, outcome>>

\* Mutant of Copies: the copy overwrites an NCP of that name.
CopiesOver(o, n) == objs[o].handle /\ objs[o].name \in stored

\* nwamd copies an NCP without an event, unless the name is in use.
Copies(o, n) == objs[o].handle /\ objs[o].name \in stored /\ n \notin stored

\* Duplicate: no row if the copy fails.
Dup ==
    /\ Edit
    /\ \E i \in DOMAIN rows, n \in Names \ NamesOn(rows), o \in New :
          /\ Copies(rows[i], n)
          /\ WithRow(Added(o, listed), Append(rows, o), [objs EXCEPT ![o] = Ncp(n, TRUE)])
          /\ stored' = stored \cup {n}
    /\ UNCHANGED <<events, toggled, choice, outcome>>

\* nwamd destroys the NCP of a handle and announces it, or refuses, which is
\* ignored.
Destroys(o, s, e) ==
    \/ /\ objs[o].handle /\ objs[o].name \in s
       /\ stored' = s \ {objs[o].name}
       /\ events' = Append(e, <<"remove", objs[o].name>>)
    \/ stored' = s /\ events' = e

\* The library stops listing an object; that it does is an assertion.
Delists(o) == outcome' = IF o \in ToSet(listed) THEN "open" ELSE "aborted"

\* Mutant of RowAfter: the row chosen is remembered by its place.
RowAfterPlace(i) == IF toggled = i THEN 0 ELSE toggled

\* A reference to a row follows the row when one above it goes; the choice is
\* cleared with its own row.
RowAfter(i) ==
    CASE toggled = i -> 0
      [] toggled > i -> toggled - 1
      [] OTHER       -> toggled

Changeable(o) == objs[o].name # Automatic

RemoveRow ==
    /\ Edit
    /\ \E i \in DOMAIN rows :
          /\ Changeable(rows[i])
          /\ Destroys(rows[i], stored, events)
          /\ Delists(rows[i])
          /\ WithRow(Unlisted(listed, rows[i]), RemoveAt(rows, i), objs)
          /\ toggled' = RowAfter(i)
          /\ choice' = IF choice = <<rows[i]>> THEN <<>> ELSE choice

\* The library's list after a renaming: the copy, and not the NCP copied.
Replaced(old, o) == Unlisted(Added(o, listed), old)

\* An NCP is renamed by copying it, putting the copy on its row and in the
\* list, and destroying the NCP.  If the copy fails, nothing happens.
Rename ==
    /\ Edit
    /\ \E i \in DOMAIN rows, n \in Names, o \in New :
          LET old == rows[i]
          IN  /\ objs[old].handle /\ Changeable(old)
              /\ Copies(old, n)
              /\ WithRow(Replaced(old, o), [rows EXCEPT ![i] = o],
                         [objs EXCEPT ![o] = Ncp(n, TRUE)])
              /\ Destroys(old, stored \cup {n}, events)
              /\ Delists(old)
              /\ choice' = IF choice = <<old>> THEN <<o>> ELSE choice
    /\ UNCHANGED toggled

\* An object without an NCP takes the name, unless an NCP has it, and is then
\* created and listed, unless nwamd refuses.
RenameUncreated ==
    /\ Edit
    /\ \E i \in DOMAIN rows, n \in Names :
          LET m == IF n \in stored THEN objs[rows[i]].name ELSE n
          IN  /\ ~objs[rows[i]].handle /\ n # objs[rows[i]].name
              /\ \/ /\ Creates(m)
                    /\ WithRow(Added(rows[i], listed), rows, [objs EXCEPT ![rows[i]] = Ncp(m, TRUE)])
                 \/ /\ WithRow(listed, rows, [objs EXCEPT ![rows[i]] = Ncp(m, FALSE)])
                    /\ UNCHANGED <<stored, events>>
    /\ UNCHANGED <<toggled, choice, outcome>>

\* Edit creates and lists an object without an NCP, and reads it again, which
\* finds an NCP of that name whoever created it.
EditUncreated ==
    /\ Edit
    /\ \E i \in DOMAIN rows :
          LET n == objs[rows[i]].name
          IN  /\ ~objs[rows[i]].handle
              /\ \/ /\ Creates(n)
                    /\ WithRow(Added(rows[i], listed), rows, [objs EXCEPT ![rows[i]] = Ncp(n, TRUE)])
                 \/ /\ WithRow(listed, rows, [objs EXCEPT ![rows[i]] = Ncp(n, n \in stored)])
                    /\ UNCHANGED <<stored, events>>
    /\ UNCHANGED <<toggled, choice, outcome>>

\* The user chooses the profile to activate.
Toggle ==
    /\ Edit
    /\ toggled' \in DOMAIN rows \ {toggled}
    /\ choice' = <<rows[toggled']>>
    /\ UNCHANGED <<stored, events, objs, listed, rows, outcome>>

-----------------------------------------------------------------------------
\* Refresh fills the rows from the library's list and forgets the choice.
Refresh ==
    /\ page /\ outcome = "open"
    /\ rows' = listed
    /\ objs' = Kept(objs, listed, listed)
    /\ toggled' = 0 /\ choice' = <<>>
    /\ UNCHANGED <<stored, events, listed, asked, page, edits, admin, outcome>>

\* Going to another page and back keeps the rows and the choice.
Turn ==
    /\ outcome = "open"
    /\ page' \in BOOLEAN \ {page}
    /\ UNCHANGED <<stored, events, objs, listed, rows, toggled, choice, asked,
                   edits, admin, outcome>>

\* The rows apply() creates: those without an NCP, up to one nwamd refuses or
\* one whose connections it refuses.
Uncreated == {i \in DOMAIN rows : ~objs[rows[i]].handle}
CreatedUpTo(k) == {i \in Uncreated : i <= k}
NamesOf(S) == {objs[rows[i]].name : i \in S}
Creatable(S) == NamesOf(S) \cap stored = {} /\ Cardinality(NamesOf(S)) = Cardinality(S)

\* apply() goes on to activate the chosen row.
Activates == IF toggled \notin DOMAIN rows THEN asked ELSE objs[rows[toggled]].name

\* OK applies the page that is shown; the window stays if that, or the commit
\* of the connections, fails.
Ok ==
    /\ page /\ outcome = "open"
    /\ \E k \in 0 .. Len(rows) :
          LET S == CreatedUpTo(k)
          IN  /\ Creatable(S)
              /\ objs' = [o \in Ids |-> IF \E i \in S : rows[i] = o
                                        THEN [objs[o] EXCEPT !.handle = TRUE] ELSE objs[o]]
              /\ stored' = stored \cup NamesOf(S)
              /\ events' = events \o SetToSeq({<<"add", n>> : n \in NamesOf(S)})
              /\ outcome' \in (IF k = Len(rows) THEN {"ok", "open"} ELSE {"open"})
    /\ asked' = Activates
    /\ UNCHANGED <<listed, rows, toggled, choice, page, edits, admin>>

OkElsewhere ==
    /\ ~page /\ outcome = "open"
    /\ outcome' = "ok"
    /\ UNCHANGED <<stored, events, objs, listed, rows, toggled, choice, asked, page,
                   edits, admin>>

-----------------------------------------------------------------------------
\* Others add and remove NCPs.
Admin ==
    /\ outcome = "open" /\ admin < MaxAdmin /\ admin' = admin + 1
    /\ \/ \E n \in Names : Creates(n)
       \/ \E n \in stored \ {Automatic} :
             stored' = stored \ {n} /\ events' = Append(events, <<"remove", n>>)
    /\ UNCHANGED <<objs, listed, rows, toggled, choice, asked, page, edits, outcome>>

\* The library lists an NCP announced, unless it lists one of that name, and
\* stops listing one removed.  The page does not follow.
HandleAdd(n) ==
    \/ /\ Named(listed, n) = {}
       /\ \E o \in New :
             WithRow(Added(o, listed), rows, [objs EXCEPT ![o] = Ncp(n, n \in stored)])
    \/ Named(listed, n) # {} /\ UNCHANGED <<objs, listed, rows>>

HandleRemove(n) ==
    IF Named(listed, n) = {} THEN UNCHANGED <<objs, listed, rows>>
    ELSE WithRow(RemoveAt(listed, Least(Named(listed, n))), rows, objs)

Handle ==
    /\ outcome = "open" /\ events # <<>>
    /\ events' = Tail(events)
    /\ LET n == Head(events)[2]
       IN  IF Head(events)[1] = "add" THEN HandleAdd(n) ELSE HandleRemove(n)
    /\ UNCHANGED <<stored, toggled, choice, asked, page, edits, admin, outcome>>

Next ==
    \/ Create \/ Dup \/ RemoveRow \/ Rename \/ RenameUncreated \/ EditUncreated \/ Toggle
    \/ Refresh \/ Turn \/ Ok \/ OkElsewhere
    \/ Admin \/ Handle

Spec == Init /\ [][Next]_vars

-----------------------------------------------------------------------------
\* apply() asks to activate only the profile the user chose last, under the
\* name it was given since, whatever was removed or renamed around it.
AsksForTheChoice == asked' # asked => choice # <<>> /\ asked' = objs'[choice[1]].name
ActivatesTheChoice == [][AsksForTheChoice]_vars

\* Whatever nwamd refuses, renaming never leaves fewer profiles than before.
KeepsAsMany == Rename => Cardinality(stored') >= Cardinality(stored)
RenameLosesNone == [][KeepsAsMany]_vars

===============================================================================
