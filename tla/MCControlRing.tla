--------------------------- MODULE MCControlRing ---------------------------
(* Instances of ControlRing for TLC.  Clients are interchangeable. *)
EXTENDS ControlRing, TLC

ClientSymmetry == Permutations(DeviceClients) \cup Permutations(HostClients)
=============================================================================
