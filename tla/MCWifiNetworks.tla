---------------------------- MODULE MCWifiNetworks ----------------------------
(* Model-checking instances of WifiNetworks: NCUs and networks are alike.     *)
EXTENDS WifiNetworks, TLC

MCSymmetry == Permutations(Ncus) \cup Permutations(Essids)
=============================================================================
