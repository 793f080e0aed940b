--------------------------- MODULE MCLaunchGate ---------------------------
(* Small instances of LaunchGate: the context addresses are reused, so a   *)
(* new owner may have the address of a retired one.                        *)
EXTENDS LaunchGate, TLC

CONSTANTS d1, d2, m1, m2, o1, o2, l1, l2

MCHome == m1 :> d1 @@ m2 :> d1
MCHome1 == m1 :> d1
MCHomeApart == m1 :> d1 @@ m2 :> d2

Symmetric == Permutations({o1, o2}) \cup Permutations({l1, l2})
=============================================================================
