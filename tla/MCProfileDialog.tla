-------------------------- MODULE MCProfileDialog --------------------------
EXTENDS ProfileDialog

\* The automatic profile has two groups.
MCAutomatic == [n \in Ncus |-> [at |-> IF n = 1 THEN 1 ELSE 2, mode |-> 0]]

\* A connection of a later group, and one that is always off.
MCSamples == {[at |-> 3, mode |-> 1], [at |-> Off, mode |-> 0]}

\* Two connections of one group, which is not numbered from one, and one that is
\* always off.
MCStores == {[n \in Ncus |-> IF n = 3 THEN [at |-> Off, mode |-> 0] ELSE [at |-> 2, mode |-> 1]]}
=============================================================================
