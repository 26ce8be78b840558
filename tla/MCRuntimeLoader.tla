--------------------------- MODULE MCRuntimeLoader ---------------------------
(* Instance of RuntimeLoader for TLC. *)
EXTENDS RuntimeLoader, TLC

Symmetry == Permutations(Threads) \cup Permutations(Engines)
==============================================================================
