------------------------------- MODULE Lists -------------------------------
(***************************************************************************)
(* The list comprehension [x for x in s if x in K], as a fold: the provers  *)
(* do not know what SelectSeq computes.                                     *)
(***************************************************************************)
EXTENDS Sequences, SequencesExt

Keep(s, K) == FoldLeft(LAMBDA kept, x : IF x \in K THEN Append(kept, x) ELSE kept, << >>, s)
=============================================================================
