------------------------------ MODULE MCBench ------------------------------
(* Bench for TLC: three models, as in the scripts. *)
EXTENDS Bench

MCModels == << "gemma-4-e4b", "qwen3.5-9b", "gemma-4-12b" >>
=============================================================================
