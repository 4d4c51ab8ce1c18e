------------------------------- MODULE ListOps -------------------------------
(***************************************************************************)
(* Lists and dictionaries as Python programs use them, in the forms that   *)
(* the proofs can reason about.                                            *)
(***************************************************************************)
EXTENDS Integers, Sequences, FiniteSets, SequencesExt

\* A sequence, of whatever is in it.
IsList(s) == s \in Seq(Range(s))

\* The elements of s for which Test holds, in their order.
Where(s, Test(_)) == FoldLeft(LAMBDA a, x : IF Test(x) THEN Append(a, x) ELSE a, <<>>, s)

\* f with x at k.
With(f, k, x) == [i \in DOMAIN f \cup {k} |-> IF i = k THEN x ELSE f[i]]
=============================================================================
