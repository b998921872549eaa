-------------------------- MODULE MCNwamEventThread --------------------------
(* Model-checking instances of NwamEventThread. *)
EXTENDS NwamEventThread
=============================================================================
