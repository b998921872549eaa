-------------------------- MODULE MCWirelessDialog --------------------------
EXTENDS WirelessDialog

\* What nwam-manager has seen: an open network and one with a key.
MCAir == [e \in {"e1", "e2"} |-> IF e = "e1" THEN "none" ELSE "wpa"]

MCStored(s, p) == [sec |-> s, bss |-> {}, prio |-> p]
\* Nothing is stored; or one favourite with a key and one without, in the order
\* of their priorities or with equal ones.
MCFavourites ==
    {[e \in Essids |-> Absent],
     [e \in Essids |-> IF e = "e1" THEN MCStored("wpa", 0) ELSE Absent],
     [e \in Essids |-> IF e = "e1" THEN MCStored("none", 2) ELSE MCStored("wep", 1)]}
=============================================================================
