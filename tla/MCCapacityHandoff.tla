------------------------- MODULE MCCapacityHandoff -------------------------
(* Model values for TLC are given in the configuration files. *)
EXTENDS CapacityHandoff
=============================================================================
