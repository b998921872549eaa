----------------------------- MODULE RulesDialog -----------------------------
(***************************************************************************)
(* The dialog in which the conditions of a location or of an external      *)
(* network modifier are edited: two radio buttons and a box of rows        *)
(* (nwam_rules_dialog.c, nwam_condition_vbox.c), over conditions that      *)
(* libnwam keeps as strings (nwamui_cond.c).                               *)
(*                                                                         *)
(* A row has a combo of fields, a combo of operators filtered by the field,*)
(* and one of several widgets for the value.  It is loaded by setting the  *)
(* combos one after the other, while the callbacks of each reset the others*)
(* and the condition behind the row; OK reads the widgets.  The list of    *)
(* connections is that of the active profile and changes while the dialog  *)
(* is open; the lists of the other objects are copies.                     *)
(***************************************************************************)
EXTENDS Naturals, Sequences, FiniteSets, SequencesExt

CONSTANTS
    Names,          \* of objects, by field: a sequence for each object field
    Subjects,       \* the fields the user chooses among
    Texts,          \* what the user types into an entry
    Stored,         \* the conditions an object may have at first
    IsLocation,     \* the object is a location, or else an ENM
    None,           \* nothing is selected in a combo
    MaxRows, MaxEdits, MaxAdmin

ObjectFields == {"ncp", "ncu", "enm", "loc"}
TextFields   == {"ip", "adv", "sys", "essid", "bssid"}
Fields       == ObjectFields \cup TextFields \cup {"none"}

RulesAssumption ==
    /\ DOMAIN Names = ObjectFields /\ Subjects \subseteq Fields
    /\ \A f \in ObjectFields : None \notin ToSet(Names[f])
    /\ MaxRows \in Nat /\ MaxEdits \in Nat /\ MaxAdmin \in Nat

VARIABLES
    obj,            \* activation mode, conditions, whether enabled
    ncus,           \* the list store of the active NCP
    open, all, rows,
    edits, admin    \* what the user and the administrator may still do
vars == <<obj, ncus, open, all, rows, edits, admin>>

-----------------------------------------------------------------------------
(* Operators, fields and conditions.                                       *)

Ranges == {"in-range", "not-in-range"}

\* The operators the filter leaves visible for a field; the first of them is
\* chosen when the field changes.
Visible(f) ==
    CASE f \in {"ncu", "enm"}          -> <<"include", "not-include">>
      [] f = "ip"                      -> <<"is", "is-not", "in-range", "not-in-range">>
      [] f \in {"adv", "sys", "essid"} -> <<"is", "is-not", "contains", "not-contains">>
      [] OTHER                         -> <<"is", "is-not">>

\* map_condition_to_op and map_op_to_condition.
OpOf(c, f) ==
    CASE c = "is" /\ f \in ObjectFields     -> "include"
      [] c = "is-not" /\ f \in ObjectFields -> "not-include"
      [] OTHER -> c
ConditionOf(o) ==
    CASE o = "include"     -> "is"
      [] o = "not-include" -> "is-not"
      [] OTHER -> o

List(f) == IF f = "ncu" THEN ncus ELSE Names[f]
First(f) == IF List(f) = <<>> THEN None ELSE List(f)[1]

\* How libnwam writes an object: NCUs with their type.
Qualified(f, n) == IF f = "ncu" THEN "interface:" \o n ELSE n

\* select_item_with_value finds an object by what libnwam calls it, an NCU
\* also if it is of the other type; else the first one is selected.
Matches(f, v) ==
    {n \in ToSet(List(f)) :
        \/ v = Qualified(f, n)
        \/ f = "ncu" /\ v = "link:" \o n}
Selected(f, v) == IF Matches(f, v) = {} THEN First(f) ELSE CHOOSE n \in Matches(f, v) : TRUE

\* What the entry's insert-text handler lets through.
Typeable(f, o, v) ==
    CASE f = "ip"    -> v \in {"", "address", "mac"} \/ (v = "network" /\ o \in Ranges)
      [] f = "bssid" -> v \in {"", "mac"}
      [] OTHER       -> TRUE

\* What OK accepts.
Valid(f, o, v) ==
    CASE f \in ObjectFields -> v # None
      [] f = "ip"    -> v = "address" \/ (v = "network" /\ o \in Ranges)
      [] f = "bssid" -> v = "mac"
      [] OTHER       -> v # ""

-----------------------------------------------------------------------------
(* A row: field, operator and value it shows, and the value of the         *)
(* condition behind it, which the next widget is loaded from.              *)

\* Mutant of Rows: the value is read when the combos have reset it.
RowsLate(f, o, v) ==
    {[field |-> f, op |-> IF o \in ToSet(Visible(f)) THEN o ELSE Visible(f)[1],
      val   |-> IF f \in ObjectFields THEN Selected(f, v)
                ELSE IF Typeable(f, "is", v) THEN v ELSE "",
      value |-> v]}

\* The row as the widgets show it when its field, operator and value are set:
\* an operator the filter hides is not selected.  The callback of an object's
\* combo writes the plain name to the condition, if the combo was elsewhere.
Rows(f, o, v) ==
    LET op == IF o \in ToSet(Visible(f)) THEN o ELSE Visible(f)[1]
    IN  IF f \in ObjectFields
        THEN {[field |-> f, op |-> op, val |-> Selected(f, v), value |-> w] :
                  w \in {v, Selected(f, v)} \ {None}}
        ELSE LET t == IF f # "none" /\ Typeable(f, op, v) THEN v ELSE ""
             IN  {[field |-> f, op |-> op, val |-> t,
                   value |-> IF f = "none" THEN v ELSE t]}

\* A condition of the object, loaded; nwamui_cond_new() and "no conditions".
Loaded(c) == Rows(c.field, OpOf(c.cond, c.field), c.value)
Fresh     == Rows("ncp", "include", "")
NoRules   == Rows("none", "include", "")

\* table_lines_init.
LoadRows(cs) ==
    IF cs = <<>> THEN {<<r>> : r \in NoRules}
    ELSE {rs \in [DOMAIN cs -> UNION {Loaded(c) : c \in ToSet(cs)}] :
             \A i \in DOMAIN cs : rs[i] \in Loaded(cs[i])}

-----------------------------------------------------------------------------
(* The dialog.                                                             *)

Init ==
    /\ obj \in [mode : {"manual", "any", "all"}, conds : Stored, enabled : BOOLEAN]
    /\ ncus = Names["ncu"]
    /\ open = FALSE /\ all = FALSE /\ rows = <<>>
    /\ edits = MaxEdits /\ admin = MaxAdmin

Shown ==
    /\ open' = TRUE
    /\ all' = (obj.mode = "all")
    /\ rows' \in LoadRows(obj.conds)
    /\ UNCHANGED <<obj, ncus, admin>>

\* nwam_rules_dialog_new() and refresh(); the Revert button.
Open   == ~open /\ edits > 0 /\ edits' = edits - 1 /\ Shown
Revert == open /\ UNCHANGED edits /\ Shown

Edit ==
    /\ open /\ edits > 0 /\ edits' = edits - 1
    /\ UNCHANGED <<obj, ncus, open, admin>>

\* Only a single row may say "no conditions"; locations have no rules about
\* locations.
ChooseField ==
    /\ Edit
    /\ \E i \in DOMAIN rows : \E f \in Subjects \ {rows[i].field} :
          /\ f = "none" => Len(rows) = 1
          /\ f = "loc" => ~IsLocation
          /\ \E r \in Rows(f, "", rows[i].value) : rows' = [rows EXCEPT ![i] = r]
    /\ UNCHANGED all

ChooseOperator ==
    /\ Edit
    /\ \E i \in DOMAIN rows : \E o \in ToSet(Visible(rows[i].field)) \ {rows[i].op} :
          rows[i].field # "none" /\ rows' = [rows EXCEPT ![i].op = o]
    /\ UNCHANGED all

ChooseValue ==
    /\ Edit
    /\ \E i \in DOMAIN rows :
         \E v \in (IF rows[i].field \in ObjectFields THEN ToSet(List(rows[i].field)) ELSE Texts)
                    \ {rows[i].val} :
            /\ rows[i].field # "none" /\ Typeable(rows[i].field, rows[i].op, v)
            /\ rows' = [rows EXCEPT ![i].val = v, ![i].value = v]
    /\ UNCHANGED all

ChooseMatch ==
    /\ Edit /\ Len(rows) > 1
    /\ all' = (all = FALSE)
    /\ UNCHANGED rows

AddRule ==
    /\ Edit /\ Len(rows) < MaxRows
    /\ \E i \in DOMAIN rows, r \in Fresh :
          rows[i].field # "none" /\ rows' = InsertAt(rows, i + 1, r)
    /\ UNCHANGED all

RemoveRule ==
    /\ Edit /\ Len(rows) > 1
    /\ \E i \in DOMAIN rows : rows' = RemoveAt(rows, i)
    /\ UNCHANGED all

\* Connections come and go in the model of the rows' combos: what is selected
\* there is selected no more.
NcusChange ==
    /\ admin > 0 /\ admin' = admin - 1
    /\ \/ \E n \in ToSet(Names["ncu"]) \ ToSet(ncus) : ncus' = Append(ncus, n)
       \/ \E n \in ToSet(ncus) : ncus' = SelectSeq(ncus, LAMBDA x : x # n)
    /\ rows' = [i \in DOMAIN rows |->
                   IF rows[i].field = "ncu" /\ rows[i].val \notin ToSet(ncus')
                   THEN [rows[i] EXCEPT !.val = None] ELSE rows[i]]
    /\ UNCHANGED <<obj, open, all, edits>>

-----------------------------------------------------------------------------
(* OK and Cancel.                                                          *)

AcceptedRow(r) == r.field = "none" \/ Valid(r.field, r.op, r.val)
CondOf(r) ==
    [field |-> r.field, cond |-> ConditionOf(r.op), value |-> Qualified(r.field, r.val)]

Rules(rs) ==
    LET kept == SelectSeq(rs, LAMBDA r : r.field # "none")
    IN  [i \in DOMAIN kept |-> CondOf(kept[i])]

\* set_conditions of an object: without any it becomes manual, an ENM also
\* disabled, and libnwam keeps the conditions there were.
WithRules(o, cs) ==
    IF cs # <<>> THEN [o EXCEPT !.conds = cs]
    ELSE [o EXCEPT !.mode = "manual", !.enabled = @ /\ IsLocation]

\* apply(): the mode is set before the rows are looked at, and stays set when
\* one of them is refused and the dialog stays open.
MatchMode == IF all THEN "all" ELSE "any"

Ok ==
    /\ open /\ \A i \in DOMAIN rows : AcceptedRow(rows[i])
    /\ obj' = WithRules([obj EXCEPT !.mode = MatchMode], Rules(rows))
    /\ open' = FALSE /\ rows' = <<>>
    /\ UNCHANGED <<ncus, all, edits, admin>>

OkRefused ==
    /\ open /\ \E i \in DOMAIN rows : ~AcceptedRow(rows[i])
    /\ obj' = [obj EXCEPT !.mode = MatchMode]
    /\ UNCHANGED <<ncus, open, all, rows, edits, admin>>

Cancel ==
    /\ open
    /\ open' = FALSE /\ rows' = <<>>
    /\ UNCHANGED <<obj, ncus, all, edits, admin>>

Next ==
    \/ Open \/ Revert \/ ChooseField \/ ChooseOperator \/ ChooseValue
    \/ ChooseMatch \/ AddRule \/ RemoveRule \/ NcusChange
    \/ Ok \/ OkRefused \/ Cancel

Spec == Init /\ [][Next]_vars

-----------------------------------------------------------------------------

TypeOK ==
    /\ obj.mode \in {"manual", "any", "all"} /\ {open, all} \subseteq BOOLEAN
    /\ ToSet(ncus) \subseteq ToSet(Names["ncu"])
    /\ Len(rows) <= MaxRows /\ (rows = <<>> <=> ~open)
    /\ edits \in 0 .. MaxEdits /\ admin \in 0 .. MaxAdmin

\* A condition names an object that is listed, and not a negated profile or
\* location, whose operator the filter hides.
Representable(c) ==
    c.field \in ObjectFields =>
        /\ Matches(c.field, c.value) # {}
        /\ c.field \in {"ncp", "loc"} => c.cond = "is"

\* What is saved is what is shown when the dialog is opened again, and OK of rows
\* as they were loaded keeps the conditions, in order, up to the type of a
\* connection.
\* (update_cond_from_row, table_condition_insert, populate_fields_from_string)
RoundTrip ==
    Ok =>
        /\ \A i \in DOMAIN Rules(rows) : Representable(obj'.conds[i]) =>
              \A r \in Loaded(obj'.conds[i]) :
                  r.field = rows[i].field /\ r.op = rows[i].op /\ r.val = rows[i].val
        /\ rows \in LoadRows(obj.conds) /\ (\A i \in DOMAIN obj.conds : Representable(obj.conds[i])) =>
              /\ Len(obj'.conds) = Len(obj.conds)
              /\ \A i \in DOMAIN obj.conds :
                    /\ obj'.conds[i].field = obj.conds[i].field
                    /\ obj'.conds[i].cond = obj.conds[i].cond
                    /\ obj.conds[i].field \in ObjectFields =>
                          Matches(obj.conds[i].field, obj'.conds[i].value)
                            = Matches(obj.conds[i].field, obj.conds[i].value)
                    /\ obj.conds[i].field \in TextFields =>
                          obj'.conds[i].value = obj.conds[i].value
RulesRoundTrip == [][RoundTrip]_vars

=============================================================================
