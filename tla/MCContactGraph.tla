--------------------------- MODULE MCContactGraph ---------------------------
(* Instances of ContactGraph for TLC: two users with one persona each. *)
EXTENDS ContactGraph, TLC

CONSTANTS alice, bob, a1, b1

OneEach == (a1 :> alice) @@ (b1 :> bob)

Symmetry == Permutations(RequestIds) \cup Permutations(Handlers)
=============================================================================
