-------------------------- MODULE MCEnvPrefDialog --------------------------
EXTENDS EnvPrefDialog, TLC

Dhcp   == [s \in Sourced |-> "dhcp"]
Manual == [s \in Sourced |-> "manual"]
Texts(F) == [f \in Fields |-> IF f \in F THEN 1 ELSE 0]

\* As libnwam creates a location, and two that need most of what there is.
Plain   == [ns |-> {"dns"}, src |-> Dhcp, text |-> Texts({}), file |-> "dns", sec |-> 0]
Full    == [ns |-> {"dns", "ldap"}, src |-> Manual,
            text |-> Texts({"dns", "ldap", "search", "default"}), file |-> Own, sec |-> 1]
MCSamples == {Plain, Full}

\* One of each at first.
MCInit == PrefInit /\ \E e, f \in Envs : persisted[e] # persisted[f]

MCSpec == MCInit /\ [][PrefNext]_prefVars

\* The locations are interchangeable.
Sym == Permutations(Envs)
=============================================================================
