--------------------------- MODULE MCNwamuiDaemon ---------------------------
(* Two locations, an NCP and an ENM; nwamd never removes what it calls      *)
(* system objects.                                                          *)
EXTENDS NwamuiDaemon

\* nwamd has all objects at first, whether the daemon object read them or not;
\* the ENM is online and so is the NCP's NCU, which is in the active priority
\* group.
MCInit ==
    /\ Init
    /\ exists = Objs
    /\ \A o \in Enms : st[o] = "online"
    /\ \A p \in Ncps : ncuUp[p] = "online"
    /\ prio = NcuGroup

MCSpec == MCInit /\ [][Next]_vars
=============================================================================
