----------------------------- MODULE GateProofs -----------------------------
(***************************************************************************)
(* What an exit code of the gate vouches for, for every set of versions of  *)
(* the source and any number of edits.                                      *)
(***************************************************************************)
EXTENDS Gate, ScanOutcome, TLAPS

(* Where the scan is, by what is behind it. *)
AtEnd       == {"verdict"}
FromSgBlock == AtEnd \cup {"sgBlock"}
FromFfBlock == FromSgBlock \cup {"ffBlock"}
FromSg      == FromFfBlock \cup {"sgReport"}
FromFf      == FromSg \cup {"ffReport"}
FromCollect == FromFf \cup {"collect"}
OnPlain     == FromCollect \cup {"valgrind"}
FromClean2  == OnPlain \cup {"clean2", "build2"}
FromTests   == FromClean2 \cup {"tests"}
FromAsan    == FromTests \cup {"asan"}
FromBuild1  == FromAsan \cup {"build1"}
OnAsan      == {"asan", "tests", "clean2"}

(* Some version the tree had since the scan began is free of this defect. *)
Vouched(p) == \E v \in seen : p \notin v

(* The scan has no verdict yet, and knows the tree as it is now. *)
ScanUnderway ==
    step # "idle" => source \in seen /\ code = NoCode /\ hook \in {"none", "running"}

BlockedInv == blocked = 0 <=> positive = {}

(* The binary a dynamic pass runs: built in this scan, in the right mode. *)
BinaryInv ==
    /\ step \in {"build1", "build2"} => binary = NoBinary
    /\ step \in OnAsan => binary.mode = "asan"
    /\ step \in OnPlain => binary.mode = "plain"
    /\ step \in OnAsan \cup OnPlain => binary.from \in seen /\ "compile" \notin binary.from

(* The reports: after the first clean none is old, and each is new from the
   step after the one that writes it. *)
ReportsInv ==
    /\ step \in FromBuild1 => \A r \in Report : reports[r] # "old"
    /\ step \in (FromBuild1 \ FromSg) => NoSarif
    /\ step \in FromFf => reports["asan.log"] = "new" /\ reports["valgrind.log"] = "new"
    /\ step \in FromSg => reports["flawfinder.sarif"] = "new"
    /\ step \in FromFfBlock => reports["semgrep.sarif"] = "new"

(* While nothing was found, every pass behind the scan vouches for its kind of
   defect; a build that succeeded does so in any case. *)
VouchedInv ==
    /\ step \in FromAsan => Vouched("compile")
    /\ blocked = 0 =>
          /\ step \in FromTests => Vouched("asan")
          /\ step \in FromClean2 => (hasTests => Vouched("tests"))
          /\ step \in FromCollect => Vouched("valgrind")
          /\ step \in FromSgBlock => Vouched("flawfinder")
          /\ step \in AtEnd => Vouched("semgrep")

(* The inductive invariant.  CleanMeansChecked alone does not survive the
   verdict: VouchedInv says what blocked = 0 is worth there, and needs BinaryInv
   for the passes that run the binary. *)
GateInv == /\ TypeOK
           /\ ScanUnderway
           /\ BlockedInv
           /\ BinaryInv
           /\ ReportsInv
           /\ VouchedInv
           /\ CleanMeansChecked

(* What a binary and the reports may be. *)
Binaries == [mode: {"none", "asan", "plain"}, from: SUBSET Defect, current: BOOLEAN]
Reports  == [Report -> {"absent", "old", "empty", "new"}]

LEMMA BinaryTypes ==
    /\ NoBinary \in Binaries
    /\ [NoBinary EXCEPT !.current = FALSE] = NoBinary
    /\ [r \in Report |-> "absent"] \in Reports
<1>1. NoBinary \in Binaries
  BY DEF Binaries, NoBinary
<1>2. [NoBinary EXCEPT !.current = FALSE] = NoBinary
  <2>1. \A b \in Binaries : b.current = FALSE => [b EXCEPT !.current = FALSE] = b
    BY DEF Binaries
  <2> QED BY <1>1, <2>1 DEF NoBinary
<1>3. [r \in Report |-> "absent"] \in Reports
  BY DEF Reports
<1> QED BY <1>1, <1>2, <1>3

(* make leaves a binary; a new one is of the source as it is. *)
LEMMA MakeBinaryTypes ==
    ASSUME binary \in Binaries, source \in SUBSET Defect, NEW m \in {"asan", "plain"}
    PROVE  /\ MakeBinary(m) \in Binaries
           /\ ~binary.current => MakeBinary(m) = [mode |-> m, from |-> source, current |-> TRUE]
<1>1. binary.current \in BOOLEAN /\ [mode |-> m, from |-> source, current |-> TRUE] \in Binaries
  BY DEF Binaries
<1> QED BY <1>1 DEF MakeBinary

(* Types are preserved. *)
LEMMA GateTypeNext == TypeOK /\ [Next]_gateVars => TypeOK'
<1> SUFFICES ASSUME TypeOK, [Next]_gateVars PROVE TypeOK'
  OBVIOUS
<1>a. /\ binary \in Binaries /\ reports \in Reports /\ source \in SUBSET Defect
      /\ NoBinary \in Binaries /\ [r \in Report |-> "absent"] \in Reports
      /\ MakeBinary("asan") \in Binaries /\ MakeBinary("plain") \in Binaries
      /\ index \in SUBSET Defect
  BY BinaryTypes, MakeBinaryTypes DEF TypeOK, Binaries, Reports
<1>b. SUFFICES /\ binary' \in Binaries /\ reports' \in Reports
               /\ source' \in SUBSET Defect /\ index' \in SUBSET Defect /\ edits' \in Nat
               /\ step' = step \/ step' \in {"idle", "tools"} \cup FromBuild1 \cup {"clean1"}
               /\ hasTests' \in BOOLEAN /\ blocked' \in {0, 1} /\ code' \in {0, 1, 2, NoCode}
               /\ hook' \in {"none", "running", "accepted", "rejected"}
               /\ seen' \subseteq SUBSET Defect /\ positive' \subseteq Pass
  BY DEF TypeOK, Binaries, Reports, AtEnd, FromSgBlock, FromFfBlock, FromSg, FromFf, FromCollect,
         OnPlain, FromClean2, FromTests, FromAsan, FromBuild1
<1> USE <1>a, VersionsAssumption
    DEF TypeOK, NoCode, AtEnd, FromSgBlock, FromFfBlock, FromSg, FromFf, FromCollect,
        OnPlain, FromClean2, FromTests, FromAsan, FromBuild1
<1>1. CASE Edit
  <2>1. binary' \in Binaries
    <3>1. \A b \in Binaries : [b EXCEPT !.current = FALSE] \in Binaries
      BY DEF Binaries
    <3> QED BY <1>1, <3>1 DEF Edit
  <2>2. source' \in SUBSET Defect /\ seen' \subseteq SUBSET Defect
    BY <1>1 DEF Edit
  <2> QED BY <1>1, <2>1, <2>2 DEF Edit
<1>2. CASE CleanByHand
  BY <1>2 DEF CleanByHand, MakeClean
<1>3. CASE TestByHand
  BY <1>3 DEF TestByHand, Binaries
<1>4. CASE ScanByHand
  BY <1>4 DEF ScanByHand, StartScan, tree, Reports, Report
<1>5. CASE Commit
  BY <1>5 DEF Commit, StartScan, MakeFails, tree, scan, Reports, Report
<1>6. CASE \E m \in {"asan", "plain"} : BuildByHand(m)
  BY <1>6 DEF BuildByHand, MakeFails, scan
<1>7. CASE CheckTools
  BY <1>7 DEF CheckTools, tree, scan, Continue, Broken, Exit, HookVerdict
<1>8. CASE Clean("clean1", "build1")
  BY <1>8 DEF Clean, MakeClean, scan, Continue, Broken, Exit, HookVerdict
<1>9. CASE Build("build1", "asan", "asan")
  BY <1>9 DEF Build, MakeFails, scan, Continue, Broken, Exit, HookVerdict
<1>10. CASE RunAsan
  BY <1>10 DEF RunAsan, Finding, NoFinding, tree, Continue, Broken, Exit, HookVerdict, Pass
<1>11. CASE RunTests
  BY <1>11 DEF RunTests, Finding, NoFinding, tree, Continue, Broken, Exit, HookVerdict, Pass
<1>12. CASE Clean("clean2", "build2")
  BY <1>12 DEF Clean, MakeClean, scan, Continue, Broken, Exit, HookVerdict
<1>13. CASE Build("build2", "plain", "valgrind")
  BY <1>13 DEF Build, MakeFails, scan, Continue, Broken, Exit, HookVerdict
<1>14. CASE RunValgrind
  BY <1>14 DEF RunValgrind, Finding, NoFinding, tree, Continue, Broken, Exit, HookVerdict, Pass
<1>15. CASE CollectLogs
  BY <1>15 DEF CollectLogs, tree, scan, Continue, Broken, Exit, HookVerdict, Reports, Report
<1>16. CASE HelperFails
  BY <1>16 DEF HelperFails, tree, scan, Continue, Broken, Exit, HookVerdict, Reports, Report
<1>17. CASE WriteReport("ffReport", "flawfinder.sarif", "sgReport")
  BY <1>17 DEF WriteReport, tree, scan, Continue, Broken, Exit, HookVerdict, Reports, Report
<1>18. CASE WriteReport("sgReport", "semgrep.sarif", "ffBlock")
  BY <1>18 DEF WriteReport, tree, scan, Continue, Broken, Exit, HookVerdict, Reports, Report
<1>19. CASE BlockPass("ffBlock", "flawfinder", "sgBlock")
  BY <1>19 DEF BlockPass, Finding, NoFinding, tree, Continue, Broken, Exit, HookVerdict, Pass
<1>20. CASE BlockPass("sgBlock", "semgrep", "verdict")
  BY <1>20 DEF BlockPass, Finding, NoFinding, tree, Continue, Broken, Exit, HookVerdict, Pass
<1>21. CASE Verdict
  BY <1>21 DEF Verdict, tree, scan, Continue, Broken, Exit, HookVerdict
<1>22. CASE Stage
  BY <1>22 DEF Stage, scan
<1>23. CASE UNCHANGED gateVars
  BY <1>23 DEF gateVars
<1> QED BY <1>1, <1>2, <1>3, <1>4, <1>5, <1>6, <1>7, <1>8, <1>9, <1>10, <1>11, <1>12, <1>13,
           <1>14, <1>15, <1>16, <1>17, <1>18, <1>19, <1>20, <1>21, <1>22, <1>23 DEF Next, ScanStep

(* The invariant holds before the first scan. *)
LEMMA GateInitInv == Init => GateInv
BY VersionsAssumption
   DEF Init, GateInv, TypeOK, ScanUnderway, BlockedInv, BinaryInv, ReportsInv, VouchedInv,
       CleanMeansChecked, NoBinary, Defect, Pass, Report, NoCode, AtEnd, FromSgBlock, FromFfBlock,
       FromSg, FromFf, FromCollect, OnPlain, FromClean2, FromTests, FromAsan, FromBuild1, OnAsan

(* Every step preserves it: the developer's first, then the script's. *)
LEMMA GateNextInv == GateInv /\ [Next]_gateVars => GateInv'
<1> SUFFICES ASSUME GateInv, [Next]_gateVars PROVE GateInv'
  OBVIOUS
<1>a. TypeOK'
  BY GateTypeNext DEF GateInv
<1>b. /\ \A m \in {"asan", "plain"} :
            ~binary.current => MakeBinary(m) = [mode |-> m, from |-> source, current |-> TRUE]
      /\ [NoBinary EXCEPT !.current = FALSE] = NoBinary
  BY BinaryTypes, MakeBinaryTypes DEF GateInv, TypeOK, Binaries
<1> USE <1>a, <1>b
    DEF GateInv, NoCode, AtEnd, FromSgBlock, FromFfBlock, FromSg, FromFf, FromCollect, OnPlain,
        FromClean2, FromTests, FromAsan, FromBuild1, OnAsan
<1>1. CASE Edit
  <2> USE <1>1 DEF Edit
  <2>1. ScanUnderway' /\ BlockedInv'
    BY DEF TypeOK, ScanUnderway, BlockedInv
  <2>2. BinaryInv'
    BY DEF TypeOK, ScanUnderway, BinaryInv
  <2>3. ReportsInv'
    BY DEF TypeOK, ReportsInv, NoSarif, Report
  <2>4. VouchedInv'
    BY DEF TypeOK, ScanUnderway, BinaryInv, VouchedInv, Vouched
  <2>5. CleanMeansChecked'
    BY DEF TypeOK, ScanUnderway, CleanMeansChecked, Checked
  <2> QED BY <2>1, <2>2, <2>3, <2>4, <2>5
<1>2. CASE CleanByHand
  BY <1>2
     DEF CleanByHand, MakeClean, TypeOK, ScanUnderway, BlockedInv, BinaryInv, ReportsInv,
         VouchedInv, Vouched, CleanMeansChecked, Checked, Report, NoBinary, NoSarif
<1>3. CASE TestByHand
  BY <1>3
     DEF TestByHand, TypeOK, ScanUnderway, BlockedInv, BinaryInv, ReportsInv,
         VouchedInv, Vouched, CleanMeansChecked, Checked, Report, NoBinary, NoSarif
<1>4. CASE ScanByHand
  BY <1>4
     DEF ScanByHand, StartScan, tree, TypeOK, ScanUnderway, BlockedInv, BinaryInv, ReportsInv,
         VouchedInv, Vouched, CleanMeansChecked, Checked, Report, NoBinary, NoSarif
<1>5. CASE Commit
  <2> USE <1>5 DEF Commit, StartScan, MakeFails, tree, scan
  <2>1. ScanUnderway' /\ BlockedInv'
    BY DEF TypeOK, ScanUnderway, BlockedInv
  <2>2. BinaryInv'
    BY DEF TypeOK, ScanUnderway, BinaryInv, NoBinary
  <2>3. ReportsInv'
    BY DEF TypeOK, ReportsInv, NoSarif, Report
  <2>4. VouchedInv'
    BY DEF TypeOK, ScanUnderway, BinaryInv, VouchedInv, Vouched
  <2>5. CleanMeansChecked'
    BY DEF TypeOK, ScanUnderway, CleanMeansChecked, Checked
  <2> QED BY <2>1, <2>2, <2>3, <2>4, <2>5
<1>6. CASE \E m \in {"asan", "plain"} : BuildByHand(m)
  BY <1>6
     DEF BuildByHand, MakeFails, scan, TypeOK, ScanUnderway, BlockedInv, BinaryInv, ReportsInv,
         VouchedInv, Vouched, CleanMeansChecked, Checked, Report, NoBinary, NoSarif
<1>7. CASE CheckTools
  BY <1>7
     DEF CheckTools, tree, scan, Continue, Broken, Exit, HookVerdict, TypeOK, ScanUnderway, BlockedInv, BinaryInv, ReportsInv,
         VouchedInv, Vouched, CleanMeansChecked, Checked, Report, NoBinary, NoSarif
<1>8. CASE Clean("clean1", "build1")
  <2> USE <1>8 DEF Clean, MakeClean, scan, Continue, Broken, Exit, HookVerdict
  <2>1. ScanUnderway' /\ BlockedInv'
    BY DEF TypeOK, ScanUnderway, BlockedInv
  <2>2. BinaryInv'
    BY DEF TypeOK, ScanUnderway, BinaryInv, NoBinary
  <2>3. ReportsInv'
    BY DEF TypeOK, ReportsInv, NoSarif, Report
  <2>4. VouchedInv'
    BY DEF TypeOK, ScanUnderway, BinaryInv, VouchedInv, Vouched
  <2>5. CleanMeansChecked'
    BY DEF TypeOK, ScanUnderway, CleanMeansChecked, Checked
  <2> QED BY <2>1, <2>2, <2>3, <2>4, <2>5
<1>9. CASE Build("build1", "asan", "asan")
  <2> USE <1>9 DEF Build, MakeFails, scan, Continue, Broken, Exit, HookVerdict
  <2>1. ScanUnderway' /\ BlockedInv'
    BY DEF TypeOK, ScanUnderway, BlockedInv
  <2>2. BinaryInv'
    BY DEF TypeOK, ScanUnderway, BinaryInv, NoBinary
  <2>3. ReportsInv'
    BY DEF TypeOK, ReportsInv, NoSarif, Report
  <2>4. VouchedInv'
    BY DEF TypeOK, ScanUnderway, BinaryInv, VouchedInv, Vouched
  <2>5. CleanMeansChecked'
    BY DEF TypeOK, ScanUnderway, CleanMeansChecked, Checked
  <2> QED BY <2>1, <2>2, <2>3, <2>4, <2>5
<1>10. CASE RunAsan
  <2> USE <1>10 DEF RunAsan, Finding, NoFinding, tree, Continue, Broken, Exit, HookVerdict
  <2>1. ScanUnderway' /\ BlockedInv'
    BY DEF TypeOK, ScanUnderway, BlockedInv
  <2>2. BinaryInv'
    BY DEF TypeOK, ScanUnderway, BinaryInv, NoBinary
  <2>3. ReportsInv'
    BY DEF TypeOK, ReportsInv, NoSarif, Report
  <2>4. VouchedInv'
    BY DEF TypeOK, ScanUnderway, BinaryInv, VouchedInv, Vouched
  <2>5. CleanMeansChecked'
    BY DEF TypeOK, ScanUnderway, CleanMeansChecked, Checked
  <2> QED BY <2>1, <2>2, <2>3, <2>4, <2>5
<1>11. CASE RunTests
  <2> USE <1>11 DEF RunTests, Finding, NoFinding, tree, Continue, Broken, Exit, HookVerdict
  <2>1. ScanUnderway' /\ BlockedInv'
    BY DEF TypeOK, ScanUnderway, BlockedInv
  <2>2. BinaryInv'
    BY DEF TypeOK, ScanUnderway, BinaryInv, NoBinary
  <2>3. ReportsInv'
    BY DEF TypeOK, ReportsInv, NoSarif, Report
  <2>4. VouchedInv'
    BY DEF TypeOK, ScanUnderway, BinaryInv, VouchedInv, Vouched
  <2>5. CleanMeansChecked'
    BY DEF TypeOK, ScanUnderway, CleanMeansChecked, Checked
  <2> QED BY <2>1, <2>2, <2>3, <2>4, <2>5
<1>12. CASE Clean("clean2", "build2")
  <2> USE <1>12 DEF Clean, MakeClean, scan, Continue, Broken, Exit, HookVerdict
  <2>1. ScanUnderway' /\ BlockedInv'
    BY DEF TypeOK, ScanUnderway, BlockedInv
  <2>2. BinaryInv'
    BY DEF TypeOK, ScanUnderway, BinaryInv, NoBinary
  <2>3. ReportsInv'
    BY DEF TypeOK, ReportsInv, NoSarif, Report
  <2>4. VouchedInv'
    BY DEF TypeOK, ScanUnderway, BinaryInv, VouchedInv, Vouched
  <2>5. CleanMeansChecked'
    BY DEF TypeOK, ScanUnderway, CleanMeansChecked, Checked
  <2> QED BY <2>1, <2>2, <2>3, <2>4, <2>5
<1>13. CASE Build("build2", "plain", "valgrind")
  <2> USE <1>13 DEF Build, MakeFails, scan, Continue, Broken, Exit, HookVerdict
  <2>1. ScanUnderway' /\ BlockedInv'
    BY DEF TypeOK, ScanUnderway, BlockedInv
  <2>2. BinaryInv'
    BY DEF TypeOK, ScanUnderway, BinaryInv, NoBinary
  <2>3. ReportsInv'
    BY DEF TypeOK, ReportsInv, NoSarif, Report
  <2>4. VouchedInv'
    BY DEF TypeOK, ScanUnderway, BinaryInv, VouchedInv, Vouched
  <2>5. CleanMeansChecked'
    BY DEF TypeOK, ScanUnderway, CleanMeansChecked, Checked
  <2> QED BY <2>1, <2>2, <2>3, <2>4, <2>5
<1>14. CASE RunValgrind
  <2> USE <1>14 DEF RunValgrind, Finding, NoFinding, tree, Continue, Broken, Exit, HookVerdict
  <2>1. ScanUnderway' /\ BlockedInv'
    BY DEF TypeOK, ScanUnderway, BlockedInv
  <2>2. BinaryInv'
    BY DEF TypeOK, ScanUnderway, BinaryInv, NoBinary
  <2>3. ReportsInv'
    BY DEF TypeOK, ReportsInv, NoSarif, Report
  <2>4. VouchedInv'
    BY DEF TypeOK, ScanUnderway, BinaryInv, VouchedInv, Vouched
  <2>5. CleanMeansChecked'
    BY DEF TypeOK, ScanUnderway, CleanMeansChecked, Checked
  <2> QED BY <2>1, <2>2, <2>3, <2>4, <2>5
<1>15. CASE CollectLogs
  BY <1>15
     DEF CollectLogs, tree, scan, Continue, Broken, Exit, HookVerdict, TypeOK, ScanUnderway, BlockedInv, BinaryInv, ReportsInv,
         VouchedInv, Vouched, CleanMeansChecked, Checked, Report, NoBinary, NoSarif
<1>16. CASE HelperFails
  BY <1>16
     DEF HelperFails, tree, scan, Continue, Broken, Exit, HookVerdict, TypeOK, ScanUnderway, BlockedInv, BinaryInv, ReportsInv,
         VouchedInv, Vouched, CleanMeansChecked, Checked, Report, NoBinary, NoSarif
<1>17. CASE WriteReport("ffReport", "flawfinder.sarif", "sgReport")
  BY <1>17
     DEF WriteReport, tree, scan, Continue, Broken, Exit, HookVerdict, TypeOK, ScanUnderway, BlockedInv, BinaryInv, ReportsInv,
         VouchedInv, Vouched, CleanMeansChecked, Checked, Report, NoBinary, NoSarif
<1>18. CASE WriteReport("sgReport", "semgrep.sarif", "ffBlock")
  BY <1>18
     DEF WriteReport, tree, scan, Continue, Broken, Exit, HookVerdict, TypeOK, ScanUnderway, BlockedInv, BinaryInv, ReportsInv,
         VouchedInv, Vouched, CleanMeansChecked, Checked, Report, NoBinary, NoSarif
<1>19. CASE BlockPass("ffBlock", "flawfinder", "sgBlock")
  <2> USE <1>19 DEF BlockPass, Finding, NoFinding, tree, Continue, Broken, Exit, HookVerdict
  <2>1. ScanUnderway' /\ BlockedInv'
    BY DEF TypeOK, ScanUnderway, BlockedInv
  <2>2. BinaryInv'
    BY DEF TypeOK, ScanUnderway, BinaryInv, NoBinary
  <2>3. ReportsInv'
    BY DEF TypeOK, ReportsInv, NoSarif, Report
  <2>4. VouchedInv'
    BY DEF TypeOK, ScanUnderway, BinaryInv, VouchedInv, Vouched
  <2>5. CleanMeansChecked'
    BY DEF TypeOK, ScanUnderway, CleanMeansChecked, Checked
  <2> QED BY <2>1, <2>2, <2>3, <2>4, <2>5
<1>20. CASE BlockPass("sgBlock", "semgrep", "verdict")
  <2> USE <1>20 DEF BlockPass, Finding, NoFinding, tree, Continue, Broken, Exit, HookVerdict
  <2>1. ScanUnderway' /\ BlockedInv'
    BY DEF TypeOK, ScanUnderway, BlockedInv
  <2>2. BinaryInv'
    BY DEF TypeOK, ScanUnderway, BinaryInv, NoBinary
  <2>3. ReportsInv'
    BY DEF TypeOK, ReportsInv, NoSarif, Report
  <2>4. VouchedInv'
    BY DEF TypeOK, ScanUnderway, BinaryInv, VouchedInv, Vouched
  <2>5. CleanMeansChecked'
    BY DEF TypeOK, ScanUnderway, CleanMeansChecked, Checked
  <2> QED BY <2>1, <2>2, <2>3, <2>4, <2>5
<1>21. CASE Verdict
  <2> USE <1>21 DEF Verdict, tree, scan, Continue, Broken, Exit, HookVerdict
  <2>1. ScanUnderway' /\ BlockedInv'
    BY DEF TypeOK, ScanUnderway, BlockedInv
  <2>2. BinaryInv'
    BY DEF TypeOK, ScanUnderway, BinaryInv, NoBinary
  <2>3. ReportsInv'
    BY DEF TypeOK, ReportsInv, NoSarif, Report
  <2>4. VouchedInv'
    BY DEF TypeOK, ScanUnderway, BinaryInv, VouchedInv, Vouched
  <2>5. CleanMeansChecked'
    BY DEF TypeOK, ScanUnderway, CleanMeansChecked, Checked, VouchedInv, Vouched, Pass
  <2> QED BY <2>1, <2>2, <2>3, <2>4, <2>5
<1>22. CASE Stage
  BY <1>22
     DEF Stage, scan, TypeOK, ScanUnderway, BlockedInv, BinaryInv, ReportsInv, VouchedInv, Vouched,
         CleanMeansChecked, Checked, NoSarif
<1>23. CASE UNCHANGED gateVars
  BY <1>23
     DEF gateVars, TypeOK, ScanUnderway, BlockedInv, BinaryInv, ReportsInv, VouchedInv, Vouched,
         CleanMeansChecked, Checked, NoSarif
<1> QED BY <1>1, <1>2, <1>3, <1>4, <1>5, <1>6, <1>7, <1>8, <1>9, <1>10, <1>11, <1>12, <1>13,
           <1>14, <1>15, <1>16, <1>17, <1>18, <1>19, <1>20, <1>21, <1>22, <1>23 DEF Next, ScanStep

(* The invariant holds in every reachable state. *)
LEMMA GateInvariant == Spec => []GateInv
BY GateInitInv, GateNextInv, PTL DEF Spec

(* Type correctness, for every set of versions. *)
THEOREM GateTypeCorrect == Spec => []TypeOK
<1>1. GateInv => TypeOK
  BY DEF GateInv
<1> QED BY GateInvariant, <1>1, PTL

(* Exit 0, and a commit the hook accepts, vouch for the versions of the working
   tree during the scan, whatever the versions and however often it is edited and
   staged; for the staged content only when it is the one version that was there. *)
THEOREM GateCleanMeansChecked == Spec => []CleanMeansChecked
<1>1. GateInv => CleanMeansChecked
  BY DEF GateInv
<1> QED BY GateInvariant, <1>1, PTL

(* What the exit codes 0, 1 and 2 say, read together with the reports. *)
THEOREM GateExitMatchesReports == Spec => ExitMatchesReports
<1> DEFINE Earned ==
      step # "idle" /\ step' = "idle" =>
         /\ code' = 0 => positive = {} /\ AllReported'
         /\ code' = 1 => (positive # {} /\ AllReported') \/ NoSarif'
         /\ code' = 2 /\ step \notin {"tools", "clean1"} => \A r \in Report : reports'[r] # "old"
<1>1. GateInv /\ [Next]_gateVars => [Earned]_gateVars
  <2> SUFFICES ASSUME GateInv, Next, step # "idle", step' = "idle" PROVE Earned
    BY DEF GateInv
  <2> USE DEF GateInv, TypeOK, NoCode, AtEnd, FromSgBlock, FromFfBlock, FromSg, FromFf, FromCollect,
          OnPlain, FromClean2, FromTests, FromAsan, FromBuild1, OnAsan
  <2>1. CASE Verdict
    BY <2>1 DEF Verdict, Exit, BlockedInv, BinaryInv, ReportsInv, AllReported, Report, tree
  <2>2. CASE HelperFails
    BY <2>2 DEF HelperFails, Exit, ReportsInv, NoSarif, Report, tree
  <2>3. CASE ScanStep /\ ~Verdict /\ ~HelperFails
    <3>1. code' = 2
      BY <2>3 DEF ScanStep, CheckTools, Clean, Build, RunAsan, RunTests, RunValgrind, CollectLogs,
                  WriteReport, BlockPass, Continue, Broken, Exit
    <3>2. step \notin {"tools", "clean1"} => \A r \in Report : reports'[r] # "old"
      BY <2>3 DEF ScanStep, CheckTools, Clean, Build, RunAsan, RunTests, RunValgrind, CollectLogs,
                  WriteReport, BlockPass, Continue, Broken, Exit, MakeClean, ReportsInv, Report, tree
    <3> QED BY <3>1, <3>2
  <2>4. CASE ~ScanStep
    BY <2>4 DEF Next, Edit, Stage, CleanByHand, TestByHand, ScanByHand, StartScan, Commit, BuildByHand
  <2> QED BY <2>1, <2>2, <2>3, <2>4
<1> QED BY GateInvariant, <1>1, PTL DEF Spec, ExitMatchesReports

(* What a caller sees of the scan. *)
SarifOf(e) == IF e = "flawfinder" THEN "flawfinder.sarif" ELSE "semgrep.sarif"
Outcome    == [code |-> code, reports |-> { e \in Engine : reports[SarifOf(e)] \in {"new", "old"} },
               binary |-> binary.mode]

(* A scan ends in one of the outcomes the evidence collector reckons with: a scan
   is one step of Collector, with GateOutcome for its result.  Whatever versions
   the tree goes through and wherever a command fails. *)
THEOREM GateEndsInAnOutcome == Spec => [][step # "idle" /\ step' = "idle" => Outcome' \in GateOutcome]_gateVars
<1> DEFINE Earned ==
      step # "idle" /\ step' = "idle" =>
         /\ code' = 0 => positive = {} /\ AllReported'
         /\ code' = 1 => (positive # {} /\ AllReported') \/ NoSarif'
         /\ code' = 2 /\ step \notin {"tools", "clean1"} => \A r \in Report : reports'[r] # "old"
<1>1. GateInv /\ Next /\ Earned => (step # "idle" /\ step' = "idle" => Outcome' \in GateOutcome)
  <2> SUFFICES ASSUME GateInv, Next, Earned, step # "idle", step' = "idle"
               PROVE  Outcome' \in GateOutcome
    OBVIOUS
  <2>1. TypeOK'
    BY GateTypeNext DEF GateInv
  <2>2. code' \in {0, 1, 2}
    BY DEF GateInv, TypeOK, Next, ScanStep, Edit, Stage, CleanByHand, TestByHand, ScanByHand, StartScan, Commit,
           BuildByHand, CheckTools, Clean, Build, RunAsan, RunTests, RunValgrind, CollectLogs, HelperFails,
           WriteReport, BlockPass, Verdict, Continue, Broken, Exit
  <2>3. Outcome' \in [code: {0, 1, 2}, reports: SUBSET Engine, binary: Mode]
    BY <2>1, <2>2 DEF Outcome, TypeOK, Mode
  <2>4. AllReported' => Outcome'.reports = Engine /\ Outcome'.binary = "plain"
    BY DEF AllReported, Outcome, SarifOf, Report, Engine
  <2>5. NoSarif' => Outcome'.reports = {}
    BY DEF NoSarif, Outcome, SarifOf, Engine
  <2>6. Outcome'.code = code'
    BY DEF Outcome
  <2> QED BY <2>3, <2>4, <2>5, <2>6 DEF GateOutcome
<1>2. [Earned]_gateVars /\ GateInv /\ [Next]_gateVars
      => [step # "idle" /\ step' = "idle" => Outcome' \in GateOutcome]_gateVars
  BY <1>1
<1>3. Spec => [][Earned]_gateVars
  BY GateExitMatchesReports DEF ExitMatchesReports
<1> QED BY <1>2, <1>3, GateInvariant, PTL DEF Spec
=============================================================================
