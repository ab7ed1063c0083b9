------------------------------- MODULE MCGate -------------------------------
(* Gate for TLC: a clean version, one with each single defect, and one that
   only the static engines would let through. *)
EXTENDS Gate

MCVersions == {{}} \cup { {d} : d \in Defect } \cup {{"asan", "tests", "valgrind"}}
=============================================================================
