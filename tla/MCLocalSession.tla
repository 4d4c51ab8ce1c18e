--------------------------- MODULE MCLocalSession ---------------------------
(* A session for TLC. *)
EXTENDS LocalSession, TLC

Symmetry == Permutations(Exports) \cup Permutations(Profiles)
=============================================================================
