-------------------------- MODULE MCQuickConnectQr --------------------------
(* Instances of QuickConnectQr for TLC. *)
EXTENDS QuickConnectQr, TLC

Symmetry == Permutations(Handlers) \cup Permutations(Scanners)
=============================================================================
