-------------------------------- MODULE Gate --------------------------------
(***************************************************************************)
(* The security gate: src/scripts/scan.sh, the Makefile it builds with, the *)
(* pre-commit hook that calls it and the developer who edits, stages and    *)
(* builds in the same tree.  The passes read the working tree; a commit     *)
(* takes the index.                                                         *)
(*                                                                          *)
(* A version of the source is the set of its defects, one kind for each     *)
(* pass that can see it; "compile" is code that does not build.  make goes  *)
(* by timestamps: a binary is rebuilt when the source changed since, never  *)
(* because a build variable did.                                            *)
(***************************************************************************)
EXTENDS Naturals

CONSTANTS
    Versions,   \* the versions of the source an edit may leave
    MaxEdits    \* bound: edits of the source

Pass   == {"asan", "tests", "valgrind", "flawfinder", "semgrep"}
Defect == Pass \cup {"compile"}
Report == {"asan.log", "valgrind.log", "flawfinder.sarif", "semgrep.sarif"}
NoBinary == [mode |-> "none", from |-> {}, current |-> FALSE]

ASSUME VersionsAssumption == Versions \subseteq SUBSET Defect /\ MaxEdits \in Nat

VARIABLES
    source,    \* the version in the working tree
    index,     \* the version staged for the next commit
    edits,     \* how often it was edited
    binary,    \* bin/c-secure-shell: its build mode, its source, still current or not
    hasTests,  \* the tree has the test scripts (old tags do not)
    reports,   \* .security/: absent, old (an earlier scan's), empty or new
    step,      \* the next command of scan.sh, "idle" when it does not run
    blocked,   \* its variable blocked
    code,      \* the exit code of the last scan, NoCode while there is none
    hook,      \* the pre-commit hook
    seen,      \* ghost: the versions the tree had since the scan began
    positive   \* ghost: the passes that returned a finding

gateVars == << source, index, edits, binary, hasTests, reports, step, blocked, code, hook, seen, positive >>

tree == << source, index, edits, binary, hasTests >>
scan == << blocked, seen, positive >>

NoCode == 99

Init ==
    /\ source \in Versions /\ index = source /\ edits = 0
    /\ binary = NoBinary /\ hasTests \in BOOLEAN
    /\ reports = [r \in Report |-> "absent"]
    /\ step = "idle" /\ blocked = 0 /\ code = NoCode /\ hook = "none"
    /\ seen = {} /\ positive = {}

-----------------------------------------------------------------------------
(* The Makefile                                                             *)

(* make, with or without ASAN=0 or VALGRIND=1 (both mean "plain"). *)
MakeBinary(mode) ==
    IF binary.current THEN binary ELSE [mode |-> mode, from |-> source, current |-> TRUE]

MakeFails == ~binary.current /\ "compile" \in source

MakeCleanKeepsBinary  == reports' = [r \in Report |-> "absent"] /\ UNCHANGED binary

(* A clean target that forgets bin, above; make clean removes obj, bin and .security. *)
MakeClean == binary' = NoBinary /\ reports' = [r \in Report |-> "absent"]

-----------------------------------------------------------------------------
(* The developer                                                            *)

Edit ==
    /\ edits < MaxEdits
    /\ edits' = edits + 1
    /\ source' \in Versions \ {source}
    /\ binary' = [binary EXCEPT !.current = FALSE]
    /\ seen' = IF step = "idle" THEN seen ELSE seen \cup {source'}
    /\ UNCHANGED << index, hasTests, reports, step, blocked, code, hook, positive >>

(* git add, at any time. *)
Stage ==
    /\ index' = source
    /\ UNCHANGED << source, edits, binary, hasTests, reports, step, code, hook, scan >>

BuildByHand(mode) ==
    /\ step = "idle"
    /\ ~MakeFails
    /\ binary' = MakeBinary(mode)
    /\ UNCHANGED << source, index, edits, hasTests, reports, step, blocked, code, hook, scan >>

(* make clean; and make test, which cleans and builds with sanitizers first. *)
CleanByHand ==
    /\ step = "idle"
    /\ MakeClean
    /\ UNCHANGED << source, index, edits, hasTests, step, blocked, code, hook, seen, positive >>

TestByHand ==
    /\ step = "idle" /\ hasTests
    /\ reports' = [r \in Report |-> "absent"]
    /\ binary' = IF "compile" \in source THEN NoBinary
                 ELSE [mode |-> "asan", from |-> source, current |-> TRUE]
    /\ UNCHANGED << source, index, edits, hasTests, step, blocked, code, hook, seen, positive >>

StartScan(by) ==
    /\ step = "idle"
    /\ step' = "tools"
    /\ hook' = by
    /\ blocked' = 0 /\ code' = NoCode /\ seen' = {source} /\ positive' = {}
    /\ reports' = [r \in Report |-> IF reports[r] = "new" THEN "old" ELSE reports[r]]

ScanByHand == StartScan("none") /\ UNCHANGED tree

(* The hook builds first, and gives up when that fails. *)
Commit ==
    \/ /\ ~MakeFails
       /\ StartScan("running")
       /\ binary' = MakeBinary("asan")
       /\ UNCHANGED << source, index, edits, hasTests >>
    \/ /\ step = "idle" /\ MakeFails
       /\ hook' = "rejected" /\ code' = NoCode
       /\ UNCHANGED << tree, reports, step, scan >>

-----------------------------------------------------------------------------
(* scan.sh                                                                  *)

(* The hook's case statement on the exit code of scan.sh. *)
HookVerdict(c) ==
    hook' = IF hook = "running" THEN (IF c = 0 THEN "accepted" ELSE "rejected") ELSE hook

Exit(c) ==
    /\ step' = "idle" /\ code' = c
    /\ HookVerdict(c)

Continue(next) == step' = next /\ UNCHANGED << code, hook >>

(* broken(): exit 2, with "Nothing was scanned. This is not a finding." *)
Broken == Exit(2)

CheckTools ==
    /\ step = "tools"
    /\ Continue("clean1") \/ Broken
    /\ UNCHANGED << tree, reports, scan >>

Clean(at, next) ==
    /\ step = at
    /\ \/ MakeClean /\ Continue(next)
       \/ Broken /\ UNCHANGED << binary, reports >>
    /\ UNCHANGED << source, index, edits, hasTests, scan >>

Build(at, mode, next) ==
    /\ step = at
    /\ \/ ~MakeFails /\ binary' = MakeBinary(mode) /\ Continue(next)
       \/ Broken /\ UNCHANGED binary
    /\ UNCHANGED << source, index, edits, hasTests, reports, scan >>

(* A pass that found something, or crashed: the two look the same. *)
Finding(p) == blocked' = 1 /\ positive' = positive \cup {p}
NoFinding  == UNCHANGED << blocked, positive >>

(* The sanitizers are in the binary only when it was built with them. *)
RunAsan ==
    /\ step = "asan"
    /\ \/ Finding("asan")
       \/ ~(binary.mode = "asan" /\ "asan" \in binary.from) /\ NoFinding
    /\ Continue("tests")
    /\ UNCHANGED << tree, reports, seen >>

RunTests ==
    /\ step = "tests"
    /\ \/ hasTests /\ Finding("tests")
       \/ ~(hasTests /\ "tests" \in binary.from) /\ NoFinding
    /\ Continue("clean2")
    /\ UNCHANGED << tree, reports, seen >>

(* Valgrind cannot run a sanitizer binary: that too is a non-zero exit. *)
RunValgrind ==
    /\ step = "valgrind"
    /\ \/ Finding("valgrind")
       \/ binary.mode = "plain" /\ "valgrind" \notin binary.from /\ NoFinding
    /\ Continue("collect")
    /\ UNCHANGED << tree, reports, seen >>

(* mkdir .security, and the two logs moved there. *)
CollectLogs ==
    /\ step = "collect"
    /\ reports' = [reports EXCEPT !["asan.log"] = "new", !["valgrind.log"] = "new"]
    /\ Continue("ffReport")
    /\ UNCHANGED << tree, scan >>

(* mktemp, mkdir or mv fails: set -e ends the script with that command's 1, and
   one of the logs may have been moved by then. *)
HelperFails ==
    /\ step \in {"asan", "valgrind", "collect"}
    /\ \/ UNCHANGED reports
       \/ step = "collect" /\ reports' = [reports EXCEPT !["valgrind.log"] = "new"]
    /\ Exit(1)
    /\ UNCHANGED << tree, scan >>

(* A report pass whose output nobody looks at. *)
WriteReportUnchecked(at, r, next) ==
    /\ step = at
    /\ \/ \E state \in {"new", "empty"} : reports' = [reports EXCEPT ![r] = state]
          /\ Continue(next)
       \/ Broken /\ UNCHANGED reports
    /\ UNCHANGED << tree, scan >>

(* A static engine writes its report; a failure, or an empty report, breaks
   the scan. *)
WriteReport(at, r, next) ==
    /\ step = at
    /\ \/ reports' = [reports EXCEPT ![r] = "new"] /\ Continue(next)
       \/ \E left \in {reports[r], "empty"} :
             reports' = [reports EXCEPT ![r] = left] /\ Broken
    /\ UNCHANGED << tree, scan >>

(* A static engine's block pass and verdict(): 0, 1 or a crash. *)
BlockPass(at, p, next) ==
    /\ step = at
    /\ \/ p \in source /\ Finding(p) /\ Continue(next)
       \/ p \notin source /\ NoFinding /\ Continue(next)
       \/ Broken /\ NoFinding
    /\ UNCHANGED << tree, reports, seen >>

Verdict ==
    /\ step = "verdict"
    /\ Exit(IF blocked # 0 THEN 1 ELSE 0)
    /\ UNCHANGED << tree, reports, scan >>

ScanStep ==
    \/ CheckTools
    \/ Clean("clean1", "build1") \/ Build("build1", "asan", "asan")
    \/ RunAsan \/ RunTests
    \/ Clean("clean2", "build2") \/ Build("build2", "plain", "valgrind")
    \/ RunValgrind \/ CollectLogs \/ HelperFails
    \/ WriteReport("ffReport", "flawfinder.sarif", "sgReport")
    \/ WriteReport("sgReport", "semgrep.sarif", "ffBlock")
    \/ BlockPass("ffBlock", "flawfinder", "sgBlock")
    \/ BlockPass("sgBlock", "semgrep", "verdict")
    \/ Verdict

Next ==
    \/ Edit \/ Stage \/ CleanByHand \/ TestByHand \/ ScanByHand \/ Commit
    \/ \E m \in {"asan", "plain"} : BuildByHand(m)
    \/ ScanStep

Spec == Init /\ [][Next]_gateVars

-----------------------------------------------------------------------------

(* Type correctness. *)
TypeOK ==
    /\ {source, index} \subseteq SUBSET Defect /\ edits \in Nat
    /\ binary \in [mode: {"none", "asan", "plain"}, from: SUBSET Defect, current: BOOLEAN]
    /\ hasTests \in BOOLEAN
    /\ reports \in [Report -> {"absent", "old", "empty", "new"}]
    /\ step \in {"idle", "tools", "clean1", "build1", "asan", "tests", "clean2", "build2",
                 "valgrind", "collect", "ffReport", "sgReport", "ffBlock", "sgBlock", "verdict"}
    /\ blocked \in {0, 1} /\ code \in {0, 1, 2, NoCode}
    /\ hook \in {"none", "running", "accepted", "rejected"}
    /\ seen \subseteq SUBSET Defect /\ positive \subseteq Pass

(* What each pass looks for on this tree. *)
Checked == IF hasTests THEN Pass ELSE Pass \ {"tests"}

(* Exit 0, and a commit the hook lets through, vouch for the working tree as it
   was during the scan, never for the index: for each kind of defect the tree had,
   since the scan began, a version without it.  A binary left by an earlier build,
   in the other mode or of older source, must never stand in for it.  So a commit
   is of checked content only when what is staged is the one version that was in
   the tree all the while. *)
CleanMeansChecked ==
    LET looked == Checked \cup {"compile"}
    IN  step = "idle" /\ (code = 0 \/ hook = "accepted") =>
          /\ \A p \in looked : \E v \in seen : p \notin v
          /\ seen = {index} => index \cap looked = {}

AllReported == (\A r \in Report : reports[r] = "new") /\ binary.mode = "plain"
NoSarif == \A r \in {"flawfinder.sarif", "semgrep.sarif"} : reports[r] = "absent"

(* An exit code read together with the reports, as the evidence collector reads
   it (ScanOutcome).  Exit 0: no pass found anything, the four reports are of
   this scan, the binary left behind is the plain one.  Exit 1 with the SARIF
   reports: a pass did find something, with the same reports; without them a helper
   command failed.  Exit 2 after the first clean: no report of an earlier scan is
   left to be taken for this one's. *)
ExitMatchesReports ==
    [][step # "idle" /\ step' = "idle" =>
         /\ code' = 0 => positive = {} /\ AllReported'
         /\ code' = 1 => (positive # {} /\ AllReported') \/ NoSarif'
         /\ code' = 2 /\ step \notin {"tools", "clean1"} => \A r \in Report : reports'[r] # "old"]_gateVars

(* README.md:74: "Exit 2 means nothing was scanned".  Refuted: a later engine can
   fail after a pass has found something, and the finding is not told. *)
ExitTwoIsNoScan == step = "idle" /\ code = 2 => positive = {}
=============================================================================
