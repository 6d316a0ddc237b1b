-------------------------- MODULE MCCoAExchange --------------------------
(* Instances of CoAExchange for TLC. *)
EXTENDS CoAExchange
=============================================================================
