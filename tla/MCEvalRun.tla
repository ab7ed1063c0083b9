----------------------------- MODULE MCEvalRun -----------------------------
(* EvalRun for TLC: three items, answers that cost 0 or 1, a cap of 2. *)
EXTENDS EvalRun

MCItems == << "i1", "i2", "i3" >>
=============================================================================
