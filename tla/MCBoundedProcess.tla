-------------------------- MODULE MCBoundedProcess --------------------------
(* One call with a child and a helper for TLC. *)
EXTENDS BoundedProcess, TLC
=============================================================================
