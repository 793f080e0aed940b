---------------------- MODULE MCCapacityPageService ----------------------
(* CapacityPageService for TLC: pages are interchangeable.                 *)
EXTENDS CapacityPageService, TLC

PageSymmetry == Permutations(Pages)
=============================================================================
