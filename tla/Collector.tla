------------------------------ MODULE Collector ------------------------------
(***************************************************************************)
(* src/scripts/collect_security_data.sh: for each ref it checks out a       *)
(* worktree, runs the gate there, and writes a directory of evidence.       *)
(*                                                                          *)
(* What the gate (module Gate) leaves behind is an outcome here.            *)
(***************************************************************************)
EXTENDS Naturals, Sequences, SequencesExt, ScanOutcome

CONSTANTS
    RefLists,   \* the lists of refs the script may be given
    Slug,       \* a ref's directory name: tr '/' '-'
    MaxRuns     \* bound: runs of the script

Refs  == UNION { { L[n] : n \in DOMAIN L } : L \in RefLists }
Slugs == { Slug[r] : r \in Refs }

ASSUME RefsAssumption ==
    /\ \A L \in RefLists : L \in Seq(Refs) /\ L # << >>
    /\ Refs \subseteq DOMAIN Slug /\ MaxRuns \in Nat

(* Beside sarif/, whose reports are counted apart. *)
File == {"commit.txt", "gate.txt", "gate-probes.txt", "findings.tsv",
         "valgrind.log", "asan.log", "versions.txt"}

VARIABLES
    refs, pos,   \* REFS, and where the loop is in it
    step,        \* the next part of the loop's body
    worktree,    \* what is at $WORKTREE: nothing, a directory, or a checkout
    left,        \* worktrees nobody will remove: the run and the position of the ref
    tree,        \* in the worktree: its reports and its binary
    data,        \* the directories under DATA_ROOT
    readme,      \* the run that wrote README.txt
    run,         \* runs so far
    code         \* exit code of the last run, 1 also for a death by a signal

colVars == << refs, pos, step, worktree, left, tree, data, readme, run, code >>

Running == 9

(* An empty directory.  Beside its files: the ref and the run it is of, the
   exit codes recorded in gate.txt and gate-probes.txt, the reports copied, and
   the binary each log is of. *)
NewDir(r, n) == [of |-> r, run |-> n, files |-> {}, gate |-> Running, probes |-> {},
                 reports |-> {}, valgrind |-> "none", asan |-> "none"]
NoDir == NewDir("none", 0)

Init ==
    /\ refs = << >> /\ pos = 1 /\ step = "idle"
    /\ worktree = "none" /\ left = {} /\ tree = [reports |-> {}, binary |-> "none"]
    /\ data = [s \in Slugs |-> NoDir]
    /\ readme = 0 /\ run = 0 /\ code = Running

Ref == refs[pos]
Dir == Slug[Ref]

-----------------------------------------------------------------------------

StartRun ==
    /\ step = "idle" /\ run < MaxRuns
    /\ refs' \in RefLists
    /\ pos' = 1 /\ step' = "open" /\ run' = run + 1 /\ code' = Running
    /\ UNCHANGED << worktree, left, tree, data, readme >>

Abandoned == left \cup {<< run, pos >>}

(* exit, and the trap that removes the worktree: git worktree remove, or rm -rf
   when git cannot.  That may fail, be interrupted, or never run (SIGKILL). *)
Exit(c) ==
    /\ step' = "idle" /\ worktree' = "none"
    /\ \/ code' = c /\ UNCHANGED left
       \/ worktree # "none" /\ code' = 1 /\ left' = Abandoned

GoOn(at, next) ==
    /\ step = at
    /\ step' = next
    /\ UNCHANGED << refs, pos, readme, run, code >>

(* rm -rf, mkdir, mktemp: a worktree the variable still named is forgotten. *)
OpenDir ==
    /\ GoOn("open", "checkout")
    /\ data' = [data EXCEPT ![Dir] = NewDir(Ref, run)]
    /\ worktree' = "directory"
    /\ left' = IF worktree = "none" THEN left ELSE Abandoned
    /\ UNCHANGED tree

(* One of the three fails or is interrupted.  rm -rf has removed any part of the
   old directory; mktemp may have made one that WORKTREE does not name yet. *)
OpenFails ==
    /\ step = "open"
    /\ \E kept \in SUBSET data[Dir].files, reports \in SUBSET data[Dir].reports :
          data' = [data EXCEPT ![Dir].files = kept, ![Dir].reports = reports]
    /\ step' = "idle" /\ code' = 1 /\ worktree' = "none"
    /\ left' \in {left, Abandoned}
    /\ UNCHANGED << refs, pos, tree, readme, run >>

(* The files a part of the loop creates, before the command that fills each. *)
Creates ==
    CASE step = "checkout" -> {"commit.txt"}
      [] step = "gate"     -> {"gate.txt"}
      [] step = "probes"   -> {"gate-probes.txt"}
      [] step = "sarif"    -> {"findings.tsv"}
      [] step = "valgrind" -> {"valgrind.log"}
      [] step = "asan"     -> {"asan.log"}
      [] step = "close"    -> {"versions.txt"}
      [] OTHER             -> {}

(* The directory in hand with some files more; a log is of the binary it is taken of. *)
With(some) ==
    [data[Dir] EXCEPT !.files = @ \cup some,
                      !.valgrind = IF step = "valgrind" THEN tree.binary ELSE @,
                      !.asan = IF step = "asan" THEN tree.binary ELSE @]

(* Any command may fail under set -e, remove_worktree too, and the user may
   interrupt, with the files of this part written or not. *)
Fails ==
    /\ step \notin {"idle", "open"}
    /\ \E some \in SUBSET Creates : data' = [data EXCEPT ![Dir] = With(some)]
    /\ readme' \in IF step = "write" THEN {readme, run} ELSE {readme}
    /\ Exit(1)
    /\ UNCHANGED << refs, pos, tree, run >>

(* git worktree add, commit.txt, today's gate and rules. *)
Checkout ==
    /\ GoOn("checkout", "gate")
    /\ worktree' = "checkout"
    /\ tree' = [reports |-> {}, binary |-> "none"]
    /\ data' = [data EXCEPT ![Dir].files = @ \cup {"commit.txt"}]
    /\ UNCHANGED left

(* An exit code above 1 is no verdict: the script ends (exit 1). *)
RunGate ==
    /\ step = "gate"
    /\ \E o \in GateOutcome :
          /\ tree' = [reports |-> o.reports, binary |-> o.binary]
          /\ data' = [data EXCEPT ![Dir].files = @ \cup {"gate.txt"}, ![Dir].gate = o.code]
          /\ IF o.code > 1 THEN Exit(1)
                           ELSE step' = "probes" /\ UNCHANGED << worktree, left, code >>
    /\ UNCHANGED << refs, pos, readme, run >>

(* Probes whose exit codes are recorded as they come. *)
ProbesUnchecked(ff, sg) == step' = "sarif" /\ UNCHANGED << worktree, left, code >>

ProbesChecked(ff, sg) ==
    IF ff > 1 \/ sg > 1 THEN Exit(1) ELSE step' = "sarif" /\ UNCHANGED << worktree, left, code >>

(* The block pass of each engine once more; semgrep's exit 2 is tried again,
   and what the second try says counts. *)
RunProbes ==
    /\ step = "probes"
    /\ \E ff, first, second \in {0, 1, 2} :
          LET sg == IF first = 2 THEN second ELSE first
          IN  /\ data' = [data EXCEPT ![Dir].files = @ \cup {"gate-probes.txt"},
                                      ![Dir].probes = {ff, sg}]
              /\ ProbesChecked(ff, sg)
    /\ UNCHANGED << refs, pos, tree, readme, run >>

(* cp, the two reports not empty, findings.tsv; a report that is missing or
   empty ends the script. *)
CopySarif ==
    /\ step = "sarif"
    /\ IF tree.reports = Engine
       THEN /\ step' = "vclean"
            /\ data' = [data EXCEPT ![Dir].files = @ \cup {"findings.tsv"},
                                    ![Dir].reports = tree.reports]
            /\ UNCHANGED << worktree, left, code >>
       ELSE /\ data' = [data EXCEPT ![Dir].reports = tree.reports]
            /\ Exit(1)
    /\ UNCHANGED << refs, pos, tree, readme, run >>

(* A clean target that forgets bin. *)
MakeCleanKeepsBinary(at, next) ==
    /\ GoOn(at, next)
    /\ tree' = [tree EXCEPT !.reports = {}]
    /\ UNCHANGED << worktree, left, data >>

MakeClean(at, next) ==
    /\ GoOn(at, next)
    /\ tree' = [reports |-> {}, binary |-> "none"]
    /\ UNCHANGED << worktree, left, data >>

(* make goes by timestamps: it keeps the binary that is there, in any mode. *)
Make(at, mode, next) ==
    /\ GoOn(at, next)
    /\ tree' = [tree EXCEPT !.binary = IF @ = "none" THEN mode ELSE @]
    /\ UNCHANGED << worktree, left, data >>

(* A raw run of the binary, whatever it exits with. *)
RawRun(at, log, next) ==
    /\ GoOn(at, next)
    /\ data' = [data EXCEPT ![Dir] = With({log})]
    /\ UNCHANGED << worktree, left, tree >>

RemoveWorktreeNot == UNCHANGED worktree

(* Its failure is a case of Fails. *)
RemoveWorktree == worktree' = "none"

(* versions.txt, remove_worktree, and the next ref. *)
CloseRef ==
    /\ step = "close"
    /\ data' = [data EXCEPT ![Dir].files = @ \cup {"versions.txt"}]
    /\ RemoveWorktree
    /\ IF pos = Len(refs) THEN step' = "write" /\ UNCHANGED pos
                          ELSE step' = "open" /\ pos' = pos + 1
    /\ UNCHANGED << refs, left, tree, readme, run, code >>

(* The patch between two refs, README.txt, "dataset written". *)
WriteReadme ==
    /\ step = "write"
    /\ readme' = run
    /\ Exit(0)
    /\ UNCHANGED << refs, pos, tree, data, run >>

Next == \/ StartRun \/ Fails
        \/ OpenDir \/ OpenFails \/ Checkout \/ RunGate \/ RunProbes \/ CopySarif
        \/ MakeClean("vclean", "vmake") \/ Make("vmake", "plain", "valgrind")
        \/ RawRun("valgrind", "valgrind.log", "aclean")
        \/ MakeClean("aclean", "amake") \/ Make("amake", "asan", "asan")
        \/ RawRun("asan", "asan.log", "close")
        \/ CloseRef \/ WriteReadme

Spec == Init /\ [][Next]_colVars

-----------------------------------------------------------------------------

(* Type correctness. *)
TypeOK ==
    /\ refs \in RefLists \cup {<< >>} /\ pos \in Nat \ {0}
    /\ step \in {"idle", "open", "checkout", "gate", "probes", "sarif", "vclean", "vmake",
                 "valgrind", "aclean", "amake", "asan", "close", "write"}
    /\ worktree \in {"none", "directory", "checkout"} /\ left \subseteq Nat \X Nat
    /\ tree \in [reports: SUBSET Engine, binary: Mode]
    /\ data \in [Slugs -> [of: Refs \cup {"none"}, run: 0 .. MaxRuns, files: SUBSET File,
                           gate: {0, 1, 2, Running}, probes: SUBSET (0 .. 2),
                           reports: SUBSET Engine, valgrind: Mode, asan: Mode]]
    /\ readme \in 0 .. MaxRuns /\ run \in 0 .. MaxRuns /\ code \in {0, 1, Running}

(* A directory that could be published: every file, all from this run, both
   reports, and exit codes that are verdicts and no sign of a tool that did not
   run. *)
Publishable(d) ==
    /\ d.run = run /\ d.files = File
    /\ d.reports = Engine /\ d.gate \in {0, 1} /\ d.probes \subseteq {0, 1}

(* When the script says the dataset is written, each ref's directory can be
   published and holds that ref, or the last one of the same slug ("a/b" and
   "a-b" share one directory).  The same holds when README.txt is of the last
   run, also of one that was killed before it could say so: it is written last. *)
WrittenMeansComplete ==
    step = "idle" /\ run > 0 /\ (code = 0 \/ readme = run) =>
       /\ readme = run
       /\ \A n \in DOMAIN refs :
             LET d == data[Slug[refs[n]]]
                 same == { m \in DOMAIN refs : Slug[refs[m]] = Slug[refs[n]] }
             IN  Publishable(d) /\ \E m \in same : d.of = refs[m] /\ \A l \in same : l <= m

(* valgrind.log is of a plain binary and asan.log of a sanitizer one, also a log
   that was cut short, whatever binary the gate left in the worktree and wherever
   an earlier run of the same directory ended. *)
LogsFromTheirBuild ==
    \A s \in Slugs :
       /\ "valgrind.log" \in data[s].files => data[s].valgrind = "plain"
       /\ "asan.log" \in data[s].files => data[s].asan = "asan"

(* A run that announces its dataset has removed every worktree it made; one that
   ends in any other way leaves at most the one it was at. *)
LeftoversAreOfFailedRuns ==
    /\ \A a, b \in left : a[1] = b[1] => a = b
    /\ step = "idle" /\ code = 0 => \A a \in left : a[1] # run
=============================================================================
