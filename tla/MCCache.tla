------------------------------ MODULE MCCache ------------------------------
(* Instances of Cache for TLC: a clock of five seconds. *)
EXTENDS Cache

ShortTtls == {-1, 0, 1, 2}
=============================================================================
