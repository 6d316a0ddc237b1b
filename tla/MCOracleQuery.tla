--------------------------- MODULE MCOracleQuery ---------------------------
(* Instances of OracleQuery for TLC. *)
EXTENDS OracleQuery, TLC

Symmetry == Permutations(Workers) \cup Permutations(Conns)
=============================================================================
