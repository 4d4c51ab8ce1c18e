--------------------------- MODULE MCJobService ---------------------------
(* Instances of JobService and of its inductive invariant for TLC. *)
EXTENDS JobServiceInv, TLC

\* Job ids are interchangeable, and so are the workers.
Symmetry == Permutations(Jobs) \cup Permutations(Workers)
=============================================================================
