----------------------------- MODULE MCMappings -----------------------------
(* Mappings for TLC. *)
EXTENDS Mappings
=============================================================================
