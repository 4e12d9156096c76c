------------------------ MODULE MCRelationshipAccess ------------------------
(* One relationship row under its owner's calls and scans. *)
EXTENDS RelationshipAccess, TLC

Symmetry == Permutations(Handlers)
=============================================================================
