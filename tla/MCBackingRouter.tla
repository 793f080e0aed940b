-------------------------- MODULE MCBackingRouter --------------------------
(* Two slots and overlapping spans, so that a mapping can be staged while  *)
(* another one that it collides with is on its way out.                    *)
EXTENDS BackingRouter, TLC

CONSTANTS c1, c2, a1, a2

MCSpans == {{1}, {1, 2}, {2}}
MCDisjoint == {{1}, {2}}

Symmetric == Permutations({c1, c2}) \cup Permutations({a1, a2})
=============================================================================
