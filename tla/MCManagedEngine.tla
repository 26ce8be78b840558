--------------------------- MODULE MCManagedEngine ---------------------------
(* Instance of ManagedEngine for TLC. *)
EXTENDS ManagedEngine
==============================================================================
