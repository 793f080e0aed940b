-------------------------- MODULE MCStreamingLink --------------------------
(* Narrow: room for one message and a few granules over, so that a second  *)
(* one waits for grants.  Wide: room for four returns, of which a flit     *)
(* takes three and a part of the fourth.                                   *)
EXTENDS StreamingLink, TLC

CONSTANTS m1, m2, m3, m4

Narrow == [d \in Dirs |-> IF d = "Request" THEN 4 ELSE 17]
Wide   == [d \in Dirs |-> IF d = "Request" THEN 6 ELSE 56]

BothWays == [d \in Dirs |-> Ids]
OnlyReturns == [d \in Dirs |-> IF d = "Return" THEN Ids ELSE {}]

Symmetric == Permutations(Ids)
=============================================================================
