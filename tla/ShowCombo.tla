------------------------------ MODULE ShowCombo ------------------------------
(* The preferences window of the capplet (src/capplet/nwam_pref_dialog.c):    *)
(* the combo box that lists the status and profile pages and, for every       *)
(* network profile (NCP) the library lists, a section with its connections    *)
(* (NCUs); the page the selected row brings up; and the OK, Refresh and       *)
(* Cancel buttons.  The combo box follows the "add" and "remove" signals of   *)
(* the library while the user edits a connection on the third page.           *)
(* A connection is <<profile, device>>; devices are numbers in the order      *)
(* nwamui_object_sort gives them (priority group, then name).                 *)
EXTENDS Integers, FiniteSets, SequencesExt

CONSTANTS
    Ncps,       \* the NCP objects
    NameOf,     \* the place of each one's name in the alphabet
    Devs,       \* the devices
    MaxNcus,    \* bound: connections at a time
    None        \* no connection

ComboAssumption ==
    NameOf \in [Ncps -> Nat] /\ Devs \subseteq Nat /\ IsFiniteSet(Devs)

Connections == Ncps \X Devs
VARIABLES
    list,       \* the NCPs the library lists, by name
    kids,       \* for each NCP the devices it has a connection for
    combo,      \* the rows of the combo box
    sel,        \* the selected row, or None when it was removed
    selNcu,     \* selected_ncu, the connection selected last, or None
    page,       \* the page that is shown
    panelNcu,   \* the connection the third page shows, None while it is hidden
    typed,      \* what was typed there: nothing, good, or refused values
    pending,    \* the listed connections with typed values not yet stored
    edited,     \* the listed connections with values not yet committed
    result      \* "open", or how the window was closed

vars == <<list, kids, combo, sel, selNcu, page, panelNcu, typed, pending, edited, result>>

\* The connections of listed NCPs.
Existing == {c \in Connections : c[2] \in kids[c[1]]}

Few(k) == Cardinality({c \in Connections : c[2] \in k[c[1]]}) <= MaxNcus

-----------------------------------------------------------------------------
\* The rows: a record of one shape for all kinds.
Row(k, n, d) == [kind |-> k, ncp |-> n, dev |-> d]
StatusRow  == Row("status", None, 0)
ProfileRow == Row("profile", None, 0)
Separator  == Row("separator", None, 0)
NcpRow(n)  == Row("ncp", n, 0)
NcuRow(c)  == Row("ncu", c[1], c[2])
NcuOf(r)   == <<r.ncp, r.dev>>

Places(rows, P(_)) == {i \in DOMAIN rows : P(rows[i])}
Has(rows, r) == \E i \in DOMAIN rows : rows[i] = r
Least(S) == CHOOSE i \in S : \A j \in S : i <= j
Greatest(S) == CHOOSE i \in S : \A j \in S : j <= i
Sorted(S) == SetToSortSeq(S, LAMBDA a, b : a < b)

\* A connection goes before the first one of its section that sorts after it,
\* or before the separator that ends the section.
WithNcu(rows, c) ==
    LET top  == Least(Places(rows, LAMBDA r : r = NcpRow(c[1])))
        stop == {i \in DOMAIN rows : /\ i > top
                                  /\ \/ rows[i] = Separator
                                     \/ rows[i].kind = "ncu" /\ rows[i].dev > c[2]}
    IN  IF stop = {} THEN Append(rows, NcuRow(c))
        ELSE InsertAt(rows, Least(stop), NcuRow(c))

WithoutNcu(rows, c) == SelectSeq(rows, LAMBDA r : r # NcuRow(c))

\* Mutant of WithSection: the new section goes right before the next NCP.
WithSectionLate(rows, n, devs) ==
    LET later == Places(rows, LAMBDA r : r.kind = "ncp" /\ NameOf[r.ncp] > NameOf[n])
        at    == IF later = {} THEN Len(rows) + 1 ELSE Least(later)
        head  == SubSeq(rows, 1, at - 1) \o <<Separator, NcpRow(n)>> \o SubSeq(rows, at, Len(rows))
    IN  FoldLeft(LAMBDA rs, d : WithNcu(rs, <<n, d>>), head, Sorted(devs))

\* A section, with a separator of its own, goes before the last separator
\* above the first NCP that sorts after it, or at the end.
WithSection(rows, n, devs) ==
    LET later == Places(rows, LAMBDA r : r.kind = "ncp" /\ NameOf[r.ncp] > NameOf[n])
        at    == IF later = {} THEN Len(rows) + 1
                 ELSE Greatest({i \in 1 .. Least(later) : rows[i] = Separator})
        head  == SubSeq(rows, 1, at - 1) \o <<Separator, NcpRow(n)>> \o SubSeq(rows, at, Len(rows))
    IN  FoldLeft(LAMBDA rs, d : WithNcu(rs, <<n, d>>), head, Sorted(devs))

\* The row above the NCP goes, the NCP, and all rows below up to a separator.
WithoutSection(rows, n) ==
    IF ~Has(rows, NcpRow(n)) THEN rows
    ELSE LET top  == Least(Places(rows, LAMBDA r : r = NcpRow(n)))
             seps == {i \in DOMAIN rows : i > top /\ rows[i] = Separator}
             next == IF seps = {} THEN Len(rows) + 1 ELSE Least(seps)
         IN  SubSeq(rows, 1, top - 2) \o SubSeq(rows, next, Len(rows))

\* g_list_insert_sorted puts an NCP before one of the same name.
Listed(l, n) ==
    LET later == {i \in DOMAIN l : NameOf[l[i]] >= NameOf[n]}
    IN  IF later = {} THEN Append(l, n) ELSE InsertAt(l, Least(later), n)

\* Every section is taken out and put back.
Rebuilt(rows) ==
    FoldLeft(LAMBDA rs, n : WithSection(WithoutSection(rs, n), n, kids[n]), rows, list)

\* GtkComboBox forgets the selection when its row is removed.
StillSelected(rows) == IF sel # None /\ Has(rows, sel) THEN sel ELSE None

-----------------------------------------------------------------------------
\* The window comes up on the status page with a section for each NCP.
Init ==
    /\ \E S \in SUBSET Ncps :
          /\ list = FoldLeft(LAMBDA l, n : Listed(l, n), <<>>, SetToSeq(S))
          /\ kids \in [Ncps -> SUBSET Devs]
          /\ \A n \in Ncps \ S : kids[n] = {}
          /\ Few(kids)
    /\ combo = Rebuilt(<<StatusRow, ProfileRow>>)
    /\ sel = StatusRow /\ selNcu = None
    /\ page = "status" /\ panelNcu = None
    /\ typed = "nothing" /\ pending = {} /\ edited = {}
    /\ result = "open"

Window == <<sel, selNcu, page, panelNcu, typed, pending, edited, result>>

\* A new NCP or connection is another object than a removed one of that name
\* the window still holds.
Fresh(n) == selNcu # None => selNcu[1] # n

\* The library lists an NCP, from an event of nwamd or from the profile page.
NcpAdd ==
    /\ result = "open"
    /\ \E n \in Ncps \ ToSet(list), S \in SUBSET Devs :
          /\ Fresh(n)
          /\ list' = Listed(list, n)
          /\ kids' = [kids EXCEPT ![n] = S] /\ Few(kids')
          /\ combo' = WithSection(combo, n, S)
    /\ UNCHANGED Window

NcpRemove ==
    /\ result = "open"
    /\ \E n \in ToSet(list) :
          /\ list' = SelectSeq(list, LAMBDA m : m # n)
          /\ kids' = [kids EXCEPT ![n] = {}]
          /\ combo' = WithoutSection(combo, n)
          /\ edited' = {c \in edited : c[1] # n}
          /\ pending' = {c \in pending : c[1] # n}
    /\ sel' = StillSelected(combo')
    /\ UNCHANGED <<selNcu, page, panelNcu, typed, result>>

\* A listed NCP gets or loses a connection.
NcuAdd ==
    /\ result = "open"
    /\ \E n \in ToSet(list) : \E d \in Devs \ kids[n] :
          /\ selNcu # <<n, d>>
          /\ kids' = [kids EXCEPT ![n] = @ \cup {d}] /\ Few(kids')
          /\ combo' = WithNcu(combo, <<n, d>>)
    /\ UNCHANGED <<list, Window>>

NcuRemove ==
    /\ result = "open"
    /\ \E n \in ToSet(list) : \E d \in kids[n] :
          /\ kids' = [kids EXCEPT ![n] = @ \ {d}]
          /\ combo' = WithoutNcu(combo, <<n, d>>)
          /\ edited' = edited \ {<<n, d>>}
          /\ pending' = pending \ {<<n, d>>}
    /\ sel' = StillSelected(combo')
    /\ UNCHANGED <<list, selNcu, page, panelNcu, typed, result>>

-----------------------------------------------------------------------------
\* The user types on the third page; some values its apply() refuses.
Type ==
    /\ result = "open" /\ page = "ip"
    /\ typed' \in {"good", "refused"}
    /\ pending' = pending \cup ({panelNcu} \cap Existing)
    /\ UNCHANGED <<list, kids, combo, sel, selNcu, page, panelNcu, edited, result>>

\* apply() of the third page stores what was typed in the connection, unless
\* it refuses it.
Applies ==
    IF typed = "refused" THEN UNCHANGED <<typed, pending, edited>>
    ELSE /\ typed' = "nothing"
         /\ pending' = pending \ {panelNcu}
         /\ edited' = IF typed = "good" THEN edited \cup ({panelNcu} \cap Existing) ELSE edited

\* Bringing up a connection fills the third page from it.
ShowsNcu(c) ==
    /\ page' = "ip"
    /\ panelNcu' = c

ShowsPage(r) ==
    IF r.kind = "ncu" THEN ShowsNcu(NcuOf(r))
    ELSE page' = r.kind /\ panelNcu' = None

Chosen(r) == IF r.kind = "ncu" THEN NcuOf(r) ELSE None

\* The user may select any row but a separator and the heading of a profile.
Selectable == {r \in ToSet(combo) : r.kind \in {"status", "profile", "ncu"} /\ r # sel}

\* Mutant of Leaving: only leaving for another page does.
LeavingPage(r) == selNcu # None /\ Chosen(r) = None

\* Leaving a connection for another row stores what was typed for it first.
Leaving(r) == selNcu # None /\ Chosen(r) # selNcu

SelectRow ==
    /\ result = "open"
    /\ \E r \in Selectable :
          /\ Leaving(r) => typed # "refused"
          /\ sel' = r
          /\ selNcu' = Chosen(r)
          /\ ShowsPage(r)
          /\ IF Leaving(r) THEN Applies
             ELSE typed' = "nothing" /\ UNCHANGED <<pending, edited>>
    /\ UNCHANGED <<list, kids, combo, result>>

\* The row of the connection whose values were refused, if it is still there.
Reselected(r) == IF Has(combo, NcuRow(selNcu)) THEN NcuRow(selNcu) ELSE r

\* Refused values: the connection is selected again.
SelectRefused ==
    /\ result = "open" /\ typed = "refused"
    /\ \E r \in Selectable : Leaving(r) /\ sel' = Reselected(r)
    /\ UNCHANGED <<list, kids, combo, selNcu, page, panelNcu, typed, pending, edited, result>>

\* Refresh rebuilds every section, reloads the selected page, which forgets
\* what was typed, and selects the row again.  With no row selected it fails an
\* assertion (not modelled).
Refresh ==
    /\ result = "open" /\ sel # None
    /\ combo' = Rebuilt(combo)
    /\ IF sel.kind = "ncu"
         THEN /\ ShowsNcu(NcuOf(sel))
              /\ selNcu' = NcuOf(sel)
              /\ typed' = "nothing"
              /\ pending' = pending \ {NcuOf(sel)}
         ELSE UNCHANGED <<selNcu, page, panelNcu, typed, pending>>
    /\ UNCHANGED <<list, kids, sel, edited, result>>

\* OK stores what was typed on the page that is shown and commits every listed
\* NCP with its connections; a commit may fail, with some of them committed.
Ok ==
    /\ result = "open"
    /\ page = "ip" => typed # "refused"
    /\ IF page = "ip" THEN typed' = "nothing" /\ pending' = pending \ {panelNcu}
       ELSE UNCHANGED <<typed, pending>>
    /\ LET now == IF typed = "good" THEN edited \cup ({panelNcu} \cap Existing) ELSE edited
       IN  \/ result' = "ok" /\ edited' = {}
           \/ result' = "open" /\ edited' \in SUBSET now \ {{}}
    /\ UNCHANGED <<list, kids, combo, sel, selNcu, page, panelNcu>>

\* Cancel closes the window; it commits nothing.
Cancel ==
    /\ result = "open"
    /\ result' = "cancel"
    /\ UNCHANGED <<list, kids, combo, sel, selNcu, page, panelNcu, typed, pending, edited>>

Next ==
    \/ NcpAdd \/ NcpRemove \/ NcuAdd \/ NcuRemove
    \/ Type \/ SelectRow \/ SelectRefused \/ Refresh \/ Ok \/ Cancel

Spec == Init /\ [][Next]_vars

-----------------------------------------------------------------------------
\* The combo box holds the two pages and then, in the order of their names,
\* one section for each listed NCP: a separator, the NCP and exactly its
\* connections in their order.
SectionOf(n) == <<Separator, NcpRow(n)>>
                \o [i \in 1 .. Cardinality(kids[n]) |-> NcuRow(<<n, Sorted(kids[n])[i]>>)]

ComboMatchesLists ==
    \E order \in SetToSeqs(ToSet(list)) :
       /\ \A i \in 1 .. Len(order) - 1 : NameOf[order[i]] <= NameOf[order[i + 1]]
       /\ combo = FoldLeft(LAMBDA rs, n : rs \o SectionOf(n), <<StatusRow, ProfileRow>>, order)

\* A window closed with OK leaves nothing behind: all values typed for any
\* connection, whichever row is selected at the end, were stored in it, and
\* every connection that still exists was committed.
OkLosesNothing ==
    result = "ok" => pending = {} /\ edited = {}
=============================================================================
