------------------------------ MODULE EditStore ------------------------------
(* What a preferences dialog of nwam-manager promises its user, whatever the  *)
(* kind of object it edits: the objects it shows are drafts of entries of a   *)
(* persistent store; the store changes only when drafts are saved, when an    *)
(* entry is deleted, or when somebody else changes it; closing the dialog     *)
(* with OK leaves no shown draft unsaved, and closing it with Cancel turns    *)
(* every shown draft that has an entry back into that entry.  A draft whose   *)
(* entry cannot be read then is left without a text, which is never saved:    *)
(* nothing of what was edited survives Cancel, and nothing reaches the store. *)
(* VpnDialog and LocationDialog are shown to implement this module.           *)

CONSTANTS
    Drafts,     \* the objects in memory
    Absent,     \* no entry in the store
    Unread,     \* the text of a draft whose entry could not be read
    None        \* no such object

VARIABLES
    stored,     \* the persistent store: for each name an entry, or Absent
    draft,      \* the objects in memory: a record [name, text], or None
    dirty,      \* the objects with edits that have not been saved
    shown,      \* the objects the dialog lists
    open        \* the dialog is on the screen

vars == <<stored, draft, dirty, shown, open>>

\* Nothing is edited and the dialog is not open.
Init == dirty = {} /\ ~open

-----------------------------------------------------------------------------
\* Exactly the entries of the drafts in S change, each to the text of its draft.
Written(S) ==
    /\ DOMAIN stored' = DOMAIN stored
    /\ \A d \in S : draft'[d] # None
    /\ \A n \in DOMAIN stored :
          LET of == {d \in S : draft'[d].name = n}
          IN  IF of = {} THEN stored'[n] = stored[n]
              ELSE \E d \in of : stored'[n] = draft'[d].text /\ draft'[d].text # Unread

\* The drafts, what is shown, and whether there are edits may change, the
\* store does not, and the dialog neither opens nor closes.
Edit == UNCHANGED <<stored, open>>

\* The dialog opens.
Open == ~open /\ open' /\ UNCHANGED stored

\* Some shown drafts are saved, and the dialog stays.
SaveSome ==
    /\ open /\ open'
    /\ \E S \in SUBSET shown : Written(S)

\* OK: the drafts that were edited are saved and none is left unsaved.
SaveAll ==
    /\ open /\ ~open'
    /\ \E S \in SUBSET shown : Written(S)
    /\ dirty' \cap shown' = {}

\* Cancel: nothing is saved, and every shown draft shows its entry again, or
\* nothing at all.
Revert ==
    /\ open /\ ~open'
    /\ UNCHANGED stored
    /\ \A d \in shown' : stored[draft'[d].name] # Absent =>
                            draft'[d].text \in {stored[draft'[d].name], Unread}

\* One entry is deleted from the dialog.
Delete ==
    /\ open /\ open'
    /\ \E n \in DOMAIN stored : stored' = [stored EXCEPT ![n] = Absent]

\* Somebody else, the administrator with nwamcfg(1M), changes one entry.
Outside ==
    /\ \E n \in DOMAIN stored : \A m \in DOMAIN stored \ {n} : stored'[m] = stored[m]
    /\ DOMAIN stored' = DOMAIN stored
    /\ UNCHANGED <<draft, dirty, shown, open>>

Next == Edit \/ Open \/ SaveSome \/ SaveAll \/ Revert \/ Delete \/ Outside

Spec == Init /\ [][Next]_vars
=============================================================================
