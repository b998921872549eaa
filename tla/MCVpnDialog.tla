---------------------------- MODULE MCVpnDialog ----------------------------
EXTENDS VpnDialog

\* A manual modifier with a command, and a conditional one with a service.
Manual  == [cmd |-> 2, fmri |-> 0, mode |-> "manual", conds |-> FALSE]
ByRules == [cmd |-> 0, fmri |-> 1, mode |-> "any", conds |-> TRUE]
MCSamples == {Manual, ByRules}

\* No modifier is stored at first: the user and the administrator create them.
MCStores == {[n \in Names |-> Absent]}
=============================================================================
