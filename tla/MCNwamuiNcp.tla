----------------------------- MODULE MCNwamuiNcp -----------------------------
(* The policies of the NCUs: enabled by hand, or in a priority group all of  *)
(* whose NCUs are to be online.                                              *)
EXTENDS NwamuiNcp

CONSTANT g2      \* one of the groups

MCPolicies ==
    {[mode |-> "manual"], [mode |-> "prioritized", group |-> g2, share |-> "all"]}

\* With a wired NCU of either kind, the wireless ones in the group: they do not
\* count while the other group is active.
MCInit == Init /\ \A d \in Wireless : policy[d].mode = "prioritized"

MCSpec == MCInit /\ [][Next]_vars
=============================================================================
