----------------------------- MODULE MCListener -----------------------------
(* Instances of Listener for TLC. *)
EXTENDS Listener, TLC

Symmetry == Permutations(Dispatchers)
=============================================================================
