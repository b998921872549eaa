-------------------------- MODULE MCLocationDialog --------------------------
EXTENDS LocationDialog

\* A manual location and a conditional one, besides one of the system.
ByHand  == [text |-> 0, mode |-> "manual", conds |-> FALSE]
ByRules == [text |-> 1, mode |-> "any", conds |-> TRUE]
Fixed   == [text |-> 0, mode |-> "system", conds |-> FALSE]
MCSamples == {ByRules}

\* One location is stored at first.
MCStores == {[n \in Names |-> IF n = m THEN c ELSE Absent] : m \in {CHOOSE n \in Names : TRUE}, c \in {ByHand, Fixed}}
=============================================================================
