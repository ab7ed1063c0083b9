----------------------------- MODULE ScanOutcome -----------------------------
(***************************************************************************)
(* What a scan leaves behind, as its callers see it: the exit code, the     *)
(* SARIF reports with something in them, and the binary of its last build.  *)
(* The interface between Gate, which produces outcomes, and Collector,      *)
(* which takes one as the data of a single step.                            *)
(***************************************************************************)
EXTENDS Integers

Engine == {"flawfinder", "semgrep"}
Mode   == {"none", "asan", "plain"}

(* The gate exits 0 or 1 with both reports, 1 from a helper command before any
   report, or 2 anywhere. *)
GateOutcome ==
    { o \in [code: {0, 1, 2}, reports: SUBSET Engine, binary: Mode] :
        /\ o.code = 0 => o.reports = Engine /\ o.binary = "plain"
        /\ o.code = 1 => o.reports = {} \/ (o.reports = Engine /\ o.binary = "plain") }
=============================================================================
