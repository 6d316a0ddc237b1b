-------------------------- MODULE MCQueryDocument --------------------------
(* Instances of QueryDocument for TLC. *)
EXTENDS QueryDocument
=============================================================================
