--------------------------- MODULE CollectorProofs ---------------------------
(***************************************************************************)
(* What the evidence collector leaves behind, for every list of refs, every *)
(* Slug and any number of runs.                                             *)
(***************************************************************************)
EXTENDS Collector, TLAPS

(* The types of a directory. *)
EvidenceDirs ==
    [of: Refs \cup {"none"}, run: 0 .. MaxRuns, files: SUBSET File,
     gate: {0, 1, 2, Running}, probes: SUBSET (0 .. 2),
     reports: SUBSET Engine, valgrind: Mode, asan: Mode]

AfterSarif == {"vclean", "vmake", "valgrind", "aclean", "amake", "asan", "close"}
AfterProbe == AfterSarif \cup {"sarif"}
AfterGate  == AfterProbe \cup {"probes"}
Working    == AfterGate \cup {"checkout", "gate"}

(* The files a ref's directory has before each part of the loop. *)
BeforeLogs == {"commit.txt", "gate.txt", "gate-probes.txt", "findings.tsv"}

FilesAt ==
    [checkout |-> {},
     gate     |-> {"commit.txt"},
     probes   |-> {"commit.txt", "gate.txt"},
     sarif    |-> {"commit.txt", "gate.txt", "gate-probes.txt"},
     vclean   |-> BeforeLogs,
     vmake    |-> BeforeLogs,
     valgrind |-> BeforeLogs,
     aclean   |-> BeforeLogs \cup {"valgrind.log"},
     amake    |-> BeforeLogs \cup {"valgrind.log"},
     asan     |-> BeforeLogs \cup {"valgrind.log"},
     close    |-> File \ {"versions.txt"}]

(* A run is at one of its refs, and README.txt is of an earlier run until the
   script's last command. *)
RunInv ==
    /\ step # "idle" => /\ refs \in RefLists /\ pos \in DOMAIN refs
                        /\ readme < run /\ code = Running
    /\ step = "write" => pos = Len(refs)
    /\ readme <= run

(* The binary in the worktree: none after make clean, and then the one make was
   asked for. *)
TreeInv ==
    /\ step \in {"vmake", "amake"} => tree.binary = "none"
    /\ step = "valgrind" => tree.binary = "plain"
    /\ step = "asan" => tree.binary = "asan"

(* A run that has not ended has left nothing, and holds no worktree between two
   refs. *)
LeftInv ==
    /\ \A a \in left : a[1] <= run
    /\ step # "idle" => \A a \in left : a[1] # run
    /\ step \in {"idle", "open", "write"} => worktree = "none"

(* The directory of the ref the loop is at. *)
DirInv ==
    step \in Working =>
       LET d == data[Dir]
       IN  /\ d.of = Ref /\ d.run = run /\ d.files = FilesAt[step]
           /\ step \in AfterGate => d.gate \in {0, 1}
           /\ step \in AfterProbe => d.probes \subseteq {0, 1}
           /\ step \in AfterSarif => d.reports = Engine

(* The refs the loop is through with: each one's directory can be published and
   holds the last of them that shares it, unless the ref the loop is at has it. *)
Closed == IF step = "write" THEN Len(refs) ELSE pos - 1

HoldsLast(s, k) ==
    /\ Publishable(data[s])
    /\ \E m \in 1 .. k : /\ Slug[refs[m]] = s /\ data[s].of = refs[m]
                         /\ \A l \in 1 .. k : Slug[refs[l]] = s => l <= m

ClosedInv ==
    step # "idle" =>
       \A n \in 1 .. Closed :
          (step \in Working /\ Slug[refs[n]] = Dir) \/ HoldsLast(Slug[refs[n]], Closed)

(* The inductive invariant.  WrittenMeansComplete speaks of the end of a run;
   ClosedInv is what is true of it on the way, DirInv of the ref in hand. *)
ColInv == /\ TypeOK
          /\ RunInv
          /\ DirInv
          /\ ClosedInv
          /\ LogsFromTheirBuild
          /\ TreeInv
          /\ LeftInv
          /\ LeftoversAreOfFailedRuns
          /\ WrittenMeansComplete

(* The refs and the directory of a run under way. *)
LEMMA RunTypes ==
    ASSUME RunInv, step # "idle"
    PROVE  /\ refs \in Seq(Refs) /\ DOMAIN refs = 1 .. Len(refs) /\ Len(refs) \in Nat
           /\ pos \in 1 .. Len(refs) /\ Ref \in Refs /\ Dir \in Slugs
           /\ \A n \in 1 .. Len(refs) : refs[n] \in Refs /\ Slug[refs[n]] \in Slugs
<1>1. refs \in Seq(Refs) /\ pos \in DOMAIN refs
  BY RefsAssumption DEF RunInv
<1> QED BY <1>1 DEF Ref, Dir, Slugs

(* One directory changes. *)
LEMMA DirUpdate ==
    ASSUME data \in [Slugs -> EvidenceDirs], Dir \in Slugs, NEW e \in EvidenceDirs,
           data' = [data EXCEPT ![Dir] = e]
    PROVE  /\ data' \in [Slugs -> EvidenceDirs]
           /\ data'[Dir] = e
           /\ \A s \in Slugs : s # Dir => data'[s] = data[s]
OBVIOUS

(* Work on a ref's directory leaves those of the refs before it alone. *)
LEMMA ClosedKept ==
    ASSUME RunInv, ClosedInv, step # "idle", step # "write", step' \in Working,
           UNCHANGED << refs, pos, run >>,
           \A s \in Slugs : s # Dir => data'[s] = data[s]
    PROVE  ClosedInv'
<1>1. Dir' = Dir /\ Closed' = pos - 1 /\ Closed = pos - 1
  BY DEF Dir, Ref, Closed, Working, AfterGate, AfterProbe, AfterSarif
<1>2. SUFFICES ASSUME NEW n \in 1 .. pos - 1, Slug[refs[n]] # Dir
               PROVE  HoldsLast(Slug[refs[n]], pos - 1)'
  BY <1>1 DEF ClosedInv
<1>3. Slug[refs[n]] \in Slugs
  BY RunTypes
<1>4. HoldsLast(Slug[refs[n]], pos - 1)
  BY <1>1, <1>2 DEF ClosedInv
<1> QED BY <1>2, <1>3, <1>4 DEF HoldsLast, Publishable

(* A run may leave the worktree it is at, once, when it ends. *)
LEMMA LeftKept ==
    ASSUME ColInv, step # "idle", run' = run,
           \/ left' = left
           \/ step' = "idle" /\ code' = 1 /\ left' = Abandoned
    PROVE  /\ left' \subseteq Nat \X Nat
           /\ \A a \in left' : a[1] <= run
           /\ step' # "idle" => \A a \in left' : a[1] # run
           /\ LeftoversAreOfFailedRuns'
<1>1. /\ run \in Nat /\ pos \in Nat /\ left \subseteq Nat \X Nat
      /\ \A a \in left : a[1] <= run /\ a[1] # run
      /\ \A a, b \in left : a[1] = b[1] => a = b
  BY RefsAssumption DEF ColInv, TypeOK, LeftInv, LeftoversAreOfFailedRuns
<1>2. CASE left' = left
  BY <1>1, <1>2 DEF LeftoversAreOfFailedRuns
<1>3. CASE step' = "idle" /\ code' = 1 /\ left' = Abandoned
  <2>1. \A a \in left' : a \in left \/ (a = << run, pos >> /\ a[1] = run)
    BY <1>3 DEF Abandoned
  <2>2. \A a, b \in left' : a[1] = b[1] => a = b
    BY <1>1, <2>1
  <2> QED BY <1>1, <1>3, <2>1, <2>2 DEF Abandoned, LeftoversAreOfFailedRuns
<1> QED BY <1>2, <1>3

(* A part of the loop's body: it writes to the directory of its ref, and goes
   on to the next part or ends the run. *)
LEMMA WorkStep ==
    ASSUME ColInv, step \in Working \cup {"open"}, NEW e \in EvidenceDirs,
           data' = [data EXCEPT ![Dir] = e],
           UNCHANGED << refs, pos, readme, run >>,
           tree' \in [reports: SUBSET Engine, binary: Mode],
           worktree' \in {"none", "directory", "checkout"},
           "valgrind.log" \in e.files => e.valgrind = "plain",
           "asan.log" \in e.files => e.asan = "asan",
           \/ step' = "idle" /\ worktree' = "none" /\ code' = 1 /\ left' \in {left, Abandoned}
           \/ /\ step' \in Working /\ code' = code /\ left' = left /\ TreeInv'
              /\ e.of = Ref /\ e.run = run /\ e.files = FilesAt[step']
              /\ step' \in AfterGate => e.gate \in {0, 1}
              /\ step' \in AfterProbe => e.probes \subseteq {0, 1}
              /\ step' \in AfterSarif => e.reports = Engine
    PROVE  ColInv'
<1> USE DEF Working, AfterGate, AfterProbe, AfterSarif
<1>1. /\ data \in [Slugs -> EvidenceDirs] /\ Dir \in Slugs
      /\ step # "idle" /\ step # "write" /\ Dir' = Dir /\ Ref' = Ref
  BY RunTypes DEF ColInv, TypeOK, EvidenceDirs, Dir, Ref
<1>2. /\ data' \in [Slugs -> EvidenceDirs] /\ data'[Dir] = e
      /\ \A s \in Slugs : s # Dir => data'[s] = data[s]
  BY <1>1, DirUpdate
<1>3. /\ left' \subseteq Nat \X Nat
      /\ \A a \in left' : a[1] <= run
      /\ step' # "idle" => \A a \in left' : a[1] # run
      /\ LeftoversAreOfFailedRuns'
  BY <1>1, LeftKept
<1>4. TypeOK'
  BY <1>2, <1>3 DEF ColInv, TypeOK, EvidenceDirs
<1>5. RunInv'
  BY <1>1 DEF ColInv, RunInv, TypeOK, Running
<1>6. DirInv'
  BY <1>1, <1>2 DEF DirInv
<1>7. ClosedInv'
  <2>1. CASE step' = "idle"
    BY <2>1 DEF ClosedInv
  <2>2. CASE step' \in Working
    BY <1>1, <1>2, <2>2, ClosedKept DEF ColInv
  <2> QED BY <2>1, <2>2
<1>8. LogsFromTheirBuild'
  BY <1>1, <1>2 DEF ColInv, LogsFromTheirBuild
<1>9. TreeInv' /\ LeftInv'
  BY <1>3 DEF TreeInv, LeftInv
<1>10. WrittenMeansComplete'
  <2>1. readme # run
    BY <1>1 DEF ColInv, TypeOK, RunInv
  <2>2. step' = "idle" => code' # 0 /\ readme' # run'
    BY <2>1
  <2> QED BY <2>2 DEF WrittenMeansComplete
<1> QED BY <1>3, <1>4, <1>5, <1>6, <1>7, <1>8, <1>9, <1>10 DEF ColInv

(* The end of the last part: every ref's directory stays as it was. *)
LEMMA EndStep ==
    ASSUME ColInv, step = "write", UNCHANGED << refs, pos, tree, data, run >>,
           readme' \in {readme, run}, step' = "idle", worktree' = "none", left' = left,
           code' = 1 \/ (code' = 0 /\ readme' = run)
    PROVE  ColInv'
<1>1. TypeOK' /\ RunInv'
  BY RefsAssumption DEF ColInv, TypeOK, RunInv
<1>2. DirInv' /\ ClosedInv' /\ TreeInv' /\ LogsFromTheirBuild'
  BY DEF ColInv, DirInv, ClosedInv, TreeInv, LogsFromTheirBuild, Working, AfterGate, AfterProbe, AfterSarif
<1>3. LeftInv' /\ LeftoversAreOfFailedRuns'
  BY DEF ColInv, LeftInv, LeftoversAreOfFailedRuns
<1>4. WrittenMeansComplete'
  <2>1. DOMAIN refs = 1 .. Len(refs) /\ \A n \in 1 .. Len(refs) : HoldsLast(Slug[refs[n]], Len(refs))
    BY RunTypes DEF ColInv, ClosedInv, Closed, Working, AfterGate, AfterProbe, AfterSarif
  <2>2. readme # run
    BY DEF ColInv, RunInv, TypeOK
  <2> DEFINE Held ==
        \A n \in DOMAIN refs :
             LET d == data[Slug[refs[n]]]
                 same == { m \in DOMAIN refs : Slug[refs[m]] = Slug[refs[n]] }
             IN  Publishable(d) /\ \E m \in same : d.of = refs[m] /\ \A l \in same : l <= m
  <2>3. Held
    BY <2>1 DEF HoldsLast
  <2>4. Held'
    BY <2>3 DEF Publishable
  <2>5. code' = 0 \/ readme' = run' => readme' = run'
    OBVIOUS
  <2> QED BY <2>4, <2>5 DEF WrittenMeansComplete
<1> QED BY <1>1, <1>2, <1>3, <1>4 DEF ColInv

(* The invariant holds before the first run. *)
LEMMA ColInitInv == Init => ColInv
<1> SUFFICES ASSUME Init PROVE ColInv
  OBVIOUS
<1>1. NoDir \in EvidenceDirs
  BY RefsAssumption DEF NoDir, NewDir, EvidenceDirs, Mode, Running
<1>2. TypeOK
  BY <1>1, RefsAssumption DEF Init, TypeOK, EvidenceDirs, Mode, Running
<1>3. LogsFromTheirBuild
  BY DEF Init, LogsFromTheirBuild, NoDir, NewDir
<1>4. RunInv /\ DirInv /\ ClosedInv /\ TreeInv /\ LeftInv /\ LeftoversAreOfFailedRuns /\ WrittenMeansComplete
  BY DEF Init, RunInv, DirInv, ClosedInv, TreeInv, LeftInv, LeftoversAreOfFailedRuns,
         WrittenMeansComplete, Working, AfterGate, AfterProbe, AfterSarif
<1> QED BY <1>2, <1>3, <1>4 DEF ColInv

(* What a part of the loop adds to its directory. *)
LEMMA WithTypes ==
    ASSUME data[Dir] \in EvidenceDirs, tree.binary \in Mode, NEW some \in SUBSET File
    PROVE  /\ With(some) \in EvidenceDirs
           /\ With(some).files = data[Dir].files \cup some
           /\ With(some).of = data[Dir].of /\ With(some).run = data[Dir].run
           /\ With(some).gate = data[Dir].gate /\ With(some).probes = data[Dir].probes
           /\ With(some).reports = data[Dir].reports
           /\ With(some).valgrind = IF step = "valgrind" THEN tree.binary ELSE data[Dir].valgrind
           /\ With(some).asan = IF step = "asan" THEN tree.binary ELSE data[Dir].asan
BY DEF With, EvidenceDirs

(* Every step preserves it. *)
LEMMA ColNextInv == ColInv /\ [Next]_colVars => ColInv'
<1> SUFFICES ASSUME ColInv, [Next]_colVars PROVE ColInv'
  OBVIOUS
<1>a. step # "idle" => /\ data[Dir] \in EvidenceDirs /\ data \in [Slugs -> EvidenceDirs]
                       /\ Ref \in Refs /\ Dir \in Slugs
  BY RunTypes DEF ColInv, TypeOK, EvidenceDirs
<1>b. /\ worktree \in {"none", "directory", "checkout"}
      /\ tree \in [reports: SUBSET Engine, binary: Mode] /\ tree.binary \in Mode
  BY DEF ColInv, TypeOK
<1>c. step # "idle" => /\ "valgrind.log" \in data[Dir].files => data[Dir].valgrind = "plain"
                       /\ "asan.log" \in data[Dir].files => data[Dir].asan = "asan"
  BY <1>a DEF ColInv, LogsFromTheirBuild
<1> USE <1>a, <1>b, <1>c DEF Working, AfterGate, AfterProbe, AfterSarif
<1>1. CASE StartRun
  <2>1. TypeOK'
    BY <1>1, RefsAssumption DEF StartRun, ColInv, TypeOK, Running
  <2>2. RunInv' /\ DirInv' /\ TreeInv'
    BY <1>1, RefsAssumption DEF StartRun, ColInv, TypeOK, RunInv, DirInv, TreeInv, Running
  <2>3. ClosedInv' /\ WrittenMeansComplete'
    BY <1>1 DEF StartRun, ClosedInv, Closed, WrittenMeansComplete
  <2>4. LeftInv' /\ LeftoversAreOfFailedRuns' /\ LogsFromTheirBuild'
    <3>1. run \in Nat /\ \A a \in left : a[1] \in Nat
      BY RefsAssumption DEF ColInv, TypeOK
    <3> QED BY <1>1, <3>1 DEF StartRun, ColInv, LeftInv, LeftoversAreOfFailedRuns, LogsFromTheirBuild
  <2> QED BY <2>1, <2>2, <2>3, <2>4 DEF ColInv
<1>2. CASE Fails
  <2>1. PICK some \in SUBSET Creates : data' = [data EXCEPT ![Dir] = With(some)]
    BY <1>2 DEF Fails
  <2>2. CASE step = "write"
    <3>1. some = {}
      BY <2>1, <2>2 DEF Creates
    <3>2. data' = data
      <4>1. With({}) = data[Dir]
        BY <2>2 DEF EvidenceDirs, With
      <4> QED BY <2>1, <2>2, <3>1, <4>1
    <3>3. worktree = "none"
      BY <2>2 DEF ColInv, LeftInv
    <3> QED BY <1>2, <2>2, <3>2, <3>3, EndStep DEF Fails, Exit
  <2>3. CASE step # "write"
    <3> DEFINE e == With(some)
    <3>1. step \in Working /\ some \subseteq File
      BY <1>2, <2>1, <2>3 DEF Fails, ColInv, TypeOK, Creates, File
    <3>2. /\ e \in EvidenceDirs /\ e.files = data[Dir].files \cup some
          /\ e.valgrind = (IF step = "valgrind" THEN tree.binary ELSE data[Dir].valgrind)
          /\ e.asan = (IF step = "asan" THEN tree.binary ELSE data[Dir].asan)
      BY <3>1, WithTypes
    <3>3. data' = [data EXCEPT ![Dir] = e]
      BY <2>1
    <3> HIDE DEF e
    <3>4. /\ "valgrind.log" \in e.files => e.valgrind = "plain"
          /\ "asan.log" \in e.files => e.asan = "asan"
      BY <3>1, <3>2 DEF Creates, ColInv, TreeInv
    <3> QED BY <1>2, <2>3, <3>1, <3>2, <3>3, <3>4, WorkStep DEF Fails, Exit
  <2> QED BY <2>2, <2>3
<1>3. CASE OpenDir
  <2>1. NewDir(Ref, run) \in EvidenceDirs
    BY <1>3 DEF OpenDir, GoOn, NewDir, EvidenceDirs, Mode, Running, ColInv, TypeOK
  <2>2. NewDir(Ref, run).files = {} /\ NewDir(Ref, run).of = Ref /\ NewDir(Ref, run).run = run
    BY DEF NewDir
  <2>3. left' = left /\ TreeInv'
    BY <1>3 DEF OpenDir, GoOn, ColInv, LeftInv, TreeInv
  <2> QED BY <1>3, <2>1, <2>2, <2>3, WorkStep DEF OpenDir, GoOn, FilesAt
<1>4. CASE OpenFails
  <2>1. PICK kept \in SUBSET data[Dir].files, reports \in SUBSET data[Dir].reports :
             data' = [data EXCEPT ![Dir].files = kept, ![Dir].reports = reports]
    BY <1>4 DEF OpenFails
  <2> DEFINE e == [data[Dir] EXCEPT !.files = kept, !.reports = reports]
  <2>2. e \in EvidenceDirs /\ data' = [data EXCEPT ![Dir] = e]
    BY <1>4, <2>1 DEF OpenFails, EvidenceDirs
  <2>3. e.files = kept /\ e.valgrind = data[Dir].valgrind /\ e.asan = data[Dir].asan
    BY <1>4 DEF OpenFails, EvidenceDirs
  <2> HIDE DEF e
  <2> QED BY <1>4, <2>1, <2>2, <2>3, WorkStep DEF OpenFails
<1>5. CASE Checkout
  <2> DEFINE e == [data[Dir] EXCEPT !.files = @ \cup {"commit.txt"}]
  <2>1. e \in EvidenceDirs /\ data' = [data EXCEPT ![Dir] = e]
    BY <1>5 DEF Checkout, GoOn, EvidenceDirs, File
  <2>2. e.of = Ref /\ e.run = run /\ e.files = FilesAt["gate"]
    BY <1>5 DEF Checkout, GoOn, ColInv, DirInv, EvidenceDirs, FilesAt
  <2>3. "valgrind.log" \notin e.files /\ "asan.log" \notin e.files /\ TreeInv'
    BY <1>5, <2>2 DEF FilesAt, Checkout, GoOn, TreeInv
  <2> HIDE DEF e
  <2> QED BY <1>5, <2>1, <2>2, <2>3, WorkStep DEF Checkout, GoOn, Mode
<1>6. CASE RunGate
  <2>1. PICK o \in GateOutcome :
             /\ tree' = [reports |-> o.reports, binary |-> o.binary]
             /\ data' = [data EXCEPT ![Dir].files = @ \cup {"gate.txt"}, ![Dir].gate = o.code]
             /\ IF o.code > 1 THEN Exit(1)
                               ELSE step' = "probes" /\ UNCHANGED << worktree, left, code >>
    BY <1>6 DEF RunGate
  <2> DEFINE e == [data[Dir] EXCEPT !.files = @ \cup {"gate.txt"}, !.gate = o.code]
  <2>2. e \in EvidenceDirs /\ data' = [data EXCEPT ![Dir] = e] /\ o.code \in {0, 1, 2}
    BY <1>6, <2>1 DEF RunGate, EvidenceDirs, GateOutcome, File
  <2>3. tree' \in [reports: SUBSET Engine, binary: Mode]
    BY <2>1 DEF GateOutcome
  <2>4. e.of = Ref /\ e.run = run /\ e.files = FilesAt["probes"] /\ e.gate = o.code
    BY <1>6 DEF RunGate, ColInv, DirInv, EvidenceDirs, FilesAt
  <2>5. "valgrind.log" \notin e.files /\ "asan.log" \notin e.files
    BY <2>4 DEF FilesAt
  <2> HIDE DEF e
  <2>6. CASE o.code > 1
    BY <1>6, <2>1, <2>2, <2>3, <2>5, <2>6, WorkStep DEF RunGate, Exit
  <2>7. CASE ~(o.code > 1)
    <3>1. e.gate \in {0, 1} /\ TreeInv'
      BY <2>1, <2>2, <2>4, <2>7 DEF TreeInv
    <3> QED BY <1>6, <2>1, <2>2, <2>3, <2>4, <2>5, <2>7, <3>1, WorkStep DEF RunGate
  <2> QED BY <2>6, <2>7
<1>7. CASE RunProbes
  <2>1. PICK ff \in {0, 1, 2}, sg \in {0, 1, 2} :
             /\ data' = [data EXCEPT ![Dir].files = @ \cup {"gate-probes.txt"},
                                      ![Dir].probes = {ff, sg}]
             /\ ProbesChecked(ff, sg)
    BY <1>7 DEF RunProbes
  <2> DEFINE e == [data[Dir] EXCEPT !.files = @ \cup {"gate-probes.txt"}, !.probes = {ff, sg}]
  <2>2. {ff, sg} \in SUBSET (0 .. 2)
    OBVIOUS
  <2>3. e \in EvidenceDirs
    BY <1>7, <2>2 DEF RunProbes, EvidenceDirs, File
  <2>4. data' = [data EXCEPT ![Dir] = e]
    BY <1>7, <2>1 DEF RunProbes, EvidenceDirs
  <2>5. /\ e.of = Ref /\ e.run = run /\ e.files = FilesAt["sarif"]
        /\ e.gate \in {0, 1} /\ e.probes = {ff, sg}
    BY <1>7 DEF RunProbes, ColInv, DirInv, EvidenceDirs, FilesAt
  <2>6. "valgrind.log" \notin e.files /\ "asan.log" \notin e.files
    BY <2>5 DEF FilesAt
  <2> HIDE DEF e
  <2>7. CASE ff > 1 \/ sg > 1
    BY <1>7, <2>1, <2>3, <2>4, <2>6, <2>7, WorkStep DEF RunProbes, ProbesChecked, Exit
  <2>8. CASE ~(ff > 1 \/ sg > 1)
    <3>1. e.probes \subseteq {0, 1} /\ TreeInv'
      BY <2>1, <2>5, <2>8 DEF TreeInv, ProbesChecked
    <3> QED BY <1>7, <2>1, <2>3, <2>4, <2>5, <2>6, <2>8, <3>1, WorkStep
            DEF RunProbes, ProbesChecked
  <2> QED BY <2>7, <2>8
<1>8. CASE CopySarif
  <2>1. CASE tree.reports = Engine
    <3> DEFINE e == [data[Dir] EXCEPT !.files = @ \cup {"findings.tsv"},
                                      !.reports = tree.reports]
    <3>1. e \in EvidenceDirs /\ data' = [data EXCEPT ![Dir] = e]
      BY <1>8, <2>1 DEF CopySarif, EvidenceDirs, File
    <3>2. /\ e.of = Ref /\ e.run = run /\ e.files = FilesAt["vclean"]
          /\ e.gate \in {0, 1} /\ e.probes \subseteq {0, 1} /\ e.reports = Engine
      BY <1>8, <2>1 DEF CopySarif, ColInv, DirInv, EvidenceDirs, FilesAt, BeforeLogs
    <3>3. "valgrind.log" \notin e.files /\ "asan.log" \notin e.files /\ TreeInv'
      BY <1>8, <2>1, <3>2 DEF FilesAt, BeforeLogs, CopySarif, TreeInv
    <3> HIDE DEF e
    <3> QED BY <1>8, <2>1, <3>1, <3>2, <3>3, WorkStep DEF CopySarif
  <2>2. CASE tree.reports # Engine
    <3> DEFINE e == [data[Dir] EXCEPT !.reports = tree.reports]
    <3>1. /\ e \in EvidenceDirs /\ data' = [data EXCEPT ![Dir] = e]
          /\ e.files = data[Dir].files /\ e.valgrind = data[Dir].valgrind /\ e.asan = data[Dir].asan
      BY <1>8, <2>2 DEF CopySarif, EvidenceDirs
    <3> HIDE DEF e
    <3> QED BY <1>8, <2>2, <3>1, WorkStep DEF CopySarif, Exit
  <2> QED BY <2>1, <2>2
<1>9. ASSUME NEW at, NEW next, MakeClean(at, next), << at, next >> \in {<<"vclean", "vmake">>, <<"aclean", "amake">>}
      PROVE  ColInv'
  <2>1. /\ step = at /\ step' = next /\ FilesAt[next] = data[Dir].files
        /\ data' = [data EXCEPT ![Dir] = data[Dir]]
        /\ data[Dir].of = Ref /\ data[Dir].run = run /\ data[Dir].gate \in {0, 1}
        /\ data[Dir].probes \subseteq {0, 1} /\ data[Dir].reports = Engine
    <3>1. (at = "vclean" /\ next = "vmake") \/ (at = "aclean" /\ next = "amake")
      BY <1>9
    <3>2. /\ step = at /\ step' = next /\ step # "idle" /\ data' = data
          /\ FilesAt[next] = FilesAt[at] /\ at \in AfterSarif
      BY <1>9, <3>1 DEF MakeClean, GoOn, FilesAt
    <3> QED BY <3>2 DEF ColInv, DirInv
  <2>2. TreeInv' /\ tree' \in [reports: SUBSET Engine, binary: Mode]
    BY <1>9, <2>1 DEF MakeClean, TreeInv, Mode
  <2> QED BY <1>9, <2>1, <2>2, WorkStep DEF MakeClean, GoOn
<1>10. ASSUME NEW at, NEW mode, NEW next, Make(at, mode, next),
              << at, mode, next >> \in {<<"vmake", "plain", "valgrind">>, <<"amake", "asan", "asan">>}
       PROVE  ColInv'
  <2>1. /\ step = at /\ step' = next /\ FilesAt[next] = data[Dir].files
        /\ data' = [data EXCEPT ![Dir] = data[Dir]]
        /\ data[Dir].of = Ref /\ data[Dir].run = run /\ data[Dir].gate \in {0, 1}
        /\ data[Dir].probes \subseteq {0, 1} /\ data[Dir].reports = Engine
    BY <1>10 DEF Make, GoOn, ColInv, DirInv, FilesAt
  <2>2. tree' = [tree EXCEPT !.binary = mode]
    BY <1>10, <2>1 DEF Make, ColInv, TreeInv
  <2>3. tree' \in [reports: SUBSET Engine, binary: Mode] /\ tree'.binary = mode
    BY <1>10, <2>2 DEF Mode
  <2>4. TreeInv'
    BY <1>10, <2>1, <2>3 DEF TreeInv
  <2> QED BY <1>10, <2>1, <2>3, <2>4, WorkStep DEF Make, GoOn
<1>11. ASSUME NEW at, NEW log, NEW next, RawRun(at, log, next),
              << at, log, next >> \in {<<"valgrind", "valgrind.log", "aclean">>, <<"asan", "asan.log", "close">>}
       PROVE  ColInv'
  <2> DEFINE e == With({log})
  <2>1. /\ step = at /\ step' = next /\ data' = [data EXCEPT ![Dir] = e]
        /\ log \in {"valgrind.log", "asan.log"} /\ {log} \in SUBSET File
    BY <1>11 DEF RawRun, GoOn, File
  <2>2. /\ e \in EvidenceDirs /\ e.files = data[Dir].files \cup {log}
        /\ e.of = data[Dir].of /\ e.run = data[Dir].run /\ e.gate = data[Dir].gate
        /\ e.probes = data[Dir].probes /\ e.reports = data[Dir].reports
        /\ e.valgrind = (IF at = "valgrind" THEN tree.binary ELSE data[Dir].valgrind)
        /\ e.asan = (IF at = "asan" THEN tree.binary ELSE data[Dir].asan)
    BY <1>11, <2>1, WithTypes
  <2> HIDE DEF e
  <2>3. /\ e.of = Ref /\ e.run = run /\ e.gate \in {0, 1}
        /\ e.probes \subseteq {0, 1} /\ e.reports = Engine
    BY <1>11, <2>1, <2>2 DEF ColInv, DirInv
  <2>4. e.files = FilesAt[next]
    BY <1>11, <2>1, <2>2 DEF ColInv, DirInv, FilesAt, BeforeLogs, File
  <2>5. /\ "valgrind.log" \in e.files => e.valgrind = "plain"
        /\ "asan.log" \in e.files => e.asan = "asan"
    BY <1>11, <2>1, <2>2 DEF ColInv, TreeInv
  <2>6. TreeInv'
    BY <1>11, <2>1 DEF TreeInv
  <2> QED BY <1>11, <2>1, <2>2, <2>3, <2>4, <2>5, <2>6, WorkStep DEF RawRun, GoOn
<1>12. CASE CloseRef
  <2> DEFINE e == [data[Dir] EXCEPT !.files = @ \cup {"versions.txt"}]
  <2>1. e \in EvidenceDirs /\ data' = [data EXCEPT ![Dir] = e]
    BY <1>12 DEF CloseRef, EvidenceDirs, File
  <2>2. /\ data' \in [Slugs -> EvidenceDirs] /\ data'[Dir] = e
        /\ \A s \in Slugs : s # Dir => data'[s] = data[s]
    BY <1>12, <2>1, DirUpdate DEF CloseRef
  <2>3. refs \in RefLists /\ pos \in 1 .. Len(refs) /\ Len(refs) \in Nat /\ DOMAIN refs = 1 .. Len(refs)
    BY <1>12, RunTypes DEF CloseRef, ColInv, RunInv
  <2>4. TypeOK'
    <3>1. step' \in {"open", "write"} /\ pos' \in Nat \ {0} /\ worktree' = "none"
      BY <1>12, <2>3 DEF CloseRef, RemoveWorktree, ColInv, TypeOK
    <3> QED BY <1>12, <2>2, <3>1 DEF CloseRef, ColInv, TypeOK, EvidenceDirs
  <2>5. RunInv' /\ DirInv' /\ TreeInv' /\ WrittenMeansComplete'
    BY <1>12, <2>3 DEF CloseRef, ColInv, RunInv, DirInv, TreeInv, WrittenMeansComplete
  <2>6. LogsFromTheirBuild'
    BY <1>12, <2>2 DEF CloseRef, ColInv, LogsFromTheirBuild, EvidenceDirs
  <2>7. LeftInv' /\ LeftoversAreOfFailedRuns'
    BY <1>12 DEF CloseRef, RemoveWorktree, ColInv, LeftInv, LeftoversAreOfFailedRuns
  <2>8. ClosedInv'
    <3>1. Closed = pos - 1 /\ Closed' = pos /\ refs' = refs /\ run' = run /\ step' \notin Working
      BY <1>12, <2>3 DEF CloseRef, Closed
    <3>2. SUFFICES ASSUME NEW n \in 1 .. pos, NEW s, s = Slug[refs[n]], NEW k, k = pos
                   PROVE  HoldsLast(s, k)'
      BY <3>1 DEF ClosedInv
    <3>3. CASE s = Dir
      <4>1. Publishable(e) /\ e.of = Ref
        BY <1>12 DEF CloseRef, ColInv, DirInv, Publishable, EvidenceDirs, FilesAt, File
      <4>2. Publishable(data[s])'
        BY <2>2, <3>1, <3>3, <4>1 DEF Publishable
      <4>3. /\ pos \in 1 .. k /\ Slug[refs'[pos]] = s /\ data'[s].of = refs'[pos]
            /\ \A l \in 1 .. k : l <= pos
        <5>1. data'[s] = e /\ refs' = refs /\ e.of = refs[pos] /\ Slug[refs[pos]] = s
          BY <2>2, <3>1, <3>3, <4>1 DEF Dir, Ref
        <5>2. pos \in 1 .. k /\ \A l \in 1 .. k : l <= pos
          BY <2>3, <3>2
        <5> HIDE DEF e
        <5> QED BY <5>1, <5>2
      <4> QED BY <4>2, <4>3 DEF HoldsLast
    <3>4. CASE s # Dir
      <4>1. n \in 1 .. pos - 1 /\ HoldsLast(s, pos - 1)
        BY <1>12, <2>3, <3>1, <3>2, <3>4 DEF ColInv, CloseRef, ClosedInv, Dir, Ref
      <4>2. s \in Slugs
        BY <1>12, <2>3, <3>2, RunTypes DEF CloseRef, ColInv
      <4>3. data'[s] = data[s] /\ Slug[refs[pos]] # s
        BY <2>2, <3>4, <4>2 DEF Dir, Ref
      <4>4. Publishable(data[s])'
        BY <3>1, <4>1, <4>3 DEF HoldsLast, Publishable
      <4>5. PICK m \in 1 .. pos - 1 : /\ Slug[refs[m]] = s /\ data[s].of = refs[m]
                                      /\ \A l \in 1 .. pos - 1 : Slug[refs[l]] = s => l <= m
        BY <4>1 DEF HoldsLast
      <4>6. m \in 1 .. k /\ \A l \in 1 .. k : Slug[refs[l]] = s => l <= m
        BY <2>3, <3>2, <4>3, <4>5
      <4> QED BY <3>1, <4>3, <4>4, <4>5, <4>6 DEF HoldsLast
    <3> QED BY <3>3, <3>4
  <2> QED BY <2>4, <2>5, <2>6, <2>7, <2>8 DEF ColInv
<1>13. CASE WriteReadme
  <2>1. worktree = "none"
    BY <1>13 DEF WriteReadme, ColInv, LeftInv
  <2> QED BY <1>13, <2>1, EndStep DEF WriteReadme, Exit
<1>14. CASE UNCHANGED colVars
  <2>1. TypeOK' /\ RunInv' /\ LogsFromTheirBuild' /\ TreeInv' /\ LeftInv' /\ LeftoversAreOfFailedRuns'
    BY <1>14 DEF colVars, ColInv, TypeOK, RunInv, LogsFromTheirBuild, TreeInv, LeftInv, LeftoversAreOfFailedRuns
  <2>2. DirInv'
    BY <1>14 DEF colVars, ColInv, DirInv, Dir, Ref
  <2>3. ClosedInv'
    BY <1>14 DEF colVars, ColInv, ClosedInv, Closed, HoldsLast, Publishable, Dir, Ref
  <2>4. WrittenMeansComplete'
    BY <1>14 DEF colVars, ColInv, WrittenMeansComplete, Publishable
  <2> QED BY <2>1, <2>2, <2>3, <2>4 DEF ColInv
<1> QED BY <1>1, <1>2, <1>3, <1>4, <1>5, <1>6, <1>7, <1>8, <1>9, <1>10, <1>11, <1>12, <1>13, <1>14 DEF Next

(* The invariant holds in every reachable state. *)
LEMMA ColInvariant == Spec => []ColInv
BY ColInitInv, ColNextInv, PTL DEF Spec

(* Type correctness, for every list of refs. *)
THEOREM ColTypeCorrect == Spec => []TypeOK
<1>1. ColInv => TypeOK
  BY DEF ColInv
<1> QED BY ColInvariant, <1>1, PTL

(* "dataset written", and a README.txt of the last run, mean a dataset that can
   be published. *)
THEOREM ColWrittenMeansComplete == Spec => []WrittenMeansComplete
<1>1. ColInv => WrittenMeansComplete
  BY DEF ColInv
<1> QED BY ColInvariant, <1>1, PTL

(* Each log, also one cut short, is of a binary built for it. *)
THEOREM ColLogsFromTheirBuild == Spec => []LogsFromTheirBuild
<1>1. ColInv => LogsFromTheirBuild
  BY DEF ColInv
<1> QED BY ColInvariant, <1>1, PTL

(* A run leaves at most one worktree, and none when it announces its dataset. *)
THEOREM ColLeftoversAreOfFailedRuns == Spec => []LeftoversAreOfFailedRuns
<1>1. ColInv => LeftoversAreOfFailedRuns
  BY DEF ColInv
<1> QED BY ColInvariant, <1>1, PTL
-----------------------------------------------------------------------------
(* What a reader may take from a directory alone                            *)

(* A directory that tells the whole of one run's work on its ref. *)
Whole(s, d) ==
    /\ d.files = File /\ d.reports = Engine /\ d.gate \in {0, 1} /\ d.probes \subseteq {0, 1}
    /\ d.run = run /\ d.of \in Refs /\ Slug[d.of] = s

(* versions.txt is written last: a step that creates it, one that is cut short
   too, leaves the directory whole. *)
VersionsComeLast ==
    \A s \in Slugs :
       "versions.txt" \in data'[s].files /\ "versions.txt" \notin data[s].files => Whole(s, data'[s])

(* A directory that has it is not written to again before a run comes to a ref of
   that name and removes it.  Only if that rm -rf is cut short can a versions.txt
   outlive files it was written after, and then nothing is added to what is left. *)
RemovedNotMixed ==
    \A s \in Slugs :
       "versions.txt" \in data[s].files /\ data'[s] # data[s] =>
          /\ step = "open" /\ s = Dir
          /\ \/ data'[s] = NewDir(Ref, run)
             \/ /\ step' = "idle" /\ code' = 1 /\ data'[s].files \subseteq data[s].files
                /\ data'[s].reports \subseteq data[s].reports
                /\ data'[s].run = data[s].run /\ data'[s].of = data[s].of

(* For any number of runs over any lists of refs, and wherever each one ends. *)
THEOREM ColVersionsComeLast == Spec => [][VersionsComeLast /\ RemovedNotMixed]_colVars
<1>1. ColInv /\ Next => VersionsComeLast /\ RemovedNotMixed
  <2> SUFFICES ASSUME ColInv, Next PROVE VersionsComeLast /\ RemovedNotMixed
    OBVIOUS
  <2>1. CASE StartRun \/ WriteReadme
    BY <2>1 DEF StartRun, WriteReadme, VersionsComeLast, RemovedNotMixed
  <2>2. CASE step # "idle" /\ ~WriteReadme
    <3>1. /\ data[Dir] \in EvidenceDirs /\ data \in [Slugs -> EvidenceDirs]
          /\ Ref \in Refs /\ Dir \in Slugs /\ tree.binary \in Mode
      BY <2>2, RunTypes DEF ColInv, TypeOK, EvidenceDirs
    <3>2. step # "open" /\ step # "write" =>
             /\ step \in Working /\ "versions.txt" \notin data[Dir].files
             /\ data[Dir].of = Ref /\ data[Dir].run = run
             /\ step = "close" => /\ data[Dir].files = File \ {"versions.txt"}
                                  /\ data[Dir].gate \in {0, 1} /\ data[Dir].probes \subseteq {0, 1}
                                  /\ data[Dir].reports = Engine
      BY <2>2 DEF ColInv, TypeOK, DirInv, FilesAt, BeforeLogs, File, Working, AfterGate, AfterProbe, AfterSarif
    <3>3. \A s \in Slugs : s # Dir => data'[s] = data[s]
      BY <2>2, <3>1 DEF Next, StartRun, Fails, OpenDir, OpenFails, Checkout, RunGate, RunProbes, CopySarif,
                  MakeClean, Make, RawRun, CloseRef
    <3>4. CASE OpenDir
      <4>1. data'[Dir] = NewDir(Ref, run) /\ NewDir(Ref, run).files = {} /\ step = "open"
        BY <3>1, <3>4 DEF OpenDir, GoOn, NewDir
      <4> QED BY <3>3, <4>1 DEF VersionsComeLast, RemovedNotMixed
    <3>5. CASE OpenFails
      <4>1. /\ data'[Dir].files \subseteq data[Dir].files /\ data'[Dir].reports \subseteq data[Dir].reports
            /\ data'[Dir].run = data[Dir].run /\ data'[Dir].of = data[Dir].of
            /\ step = "open" /\ step' = "idle" /\ code' = 1
        BY <3>1, <3>5 DEF OpenFails, EvidenceDirs
      <4> QED BY <3>3, <4>1 DEF VersionsComeLast, RemovedNotMixed
    <3>6. CASE Fails
      <4>1. PICK some \in SUBSET Creates : data' = [data EXCEPT ![Dir] = With(some)]
        BY <3>6 DEF Fails
      <4>2. some \subseteq File /\ ("versions.txt" \in some => step = "close")
        BY DEF Creates, File
      <4>3. /\ data'[Dir].files = data[Dir].files \cup some
            /\ data'[Dir].of = data[Dir].of /\ data'[Dir].run = data[Dir].run
            /\ data'[Dir].gate = data[Dir].gate /\ data'[Dir].probes = data[Dir].probes
            /\ data'[Dir].reports = data[Dir].reports
        BY <3>1, <4>1, <4>2, WithTypes
      <4>4. CASE step = "write"
        <5>1. With({}) = data[Dir] /\ some = {}
          BY <3>1, <4>1, <4>4 DEF EvidenceDirs, With, Creates
        <5>2. data' = data
          BY <3>1, <4>1, <5>1
        <5> QED BY <5>2 DEF VersionsComeLast, RemovedNotMixed
      <4>5. CASE step # "write"
        <5>1. step # "open" /\ "versions.txt" \notin data[Dir].files
          BY <3>2, <3>6, <4>5 DEF Fails
        <5>2. "versions.txt" \in data'[Dir].files => Whole(Dir, data'[Dir])
          BY <3>1, <3>2, <4>2, <4>3, <4>5, <5>1 DEF Whole, Dir, File
        <5> QED BY <3>3, <5>1, <5>2 DEF VersionsComeLast, RemovedNotMixed
      <4> QED BY <4>4, <4>5
    <3>7. CASE CloseRef
      <4>1. /\ data'[Dir].files = data[Dir].files \cup {"versions.txt"} /\ step = "close"
            /\ data'[Dir].of = data[Dir].of /\ data'[Dir].run = data[Dir].run
            /\ data'[Dir].gate = data[Dir].gate /\ data'[Dir].probes = data[Dir].probes
            /\ data'[Dir].reports = data[Dir].reports
        BY <3>1, <3>7 DEF CloseRef, EvidenceDirs
      <4>2. "versions.txt" \notin data[Dir].files /\ Whole(Dir, data'[Dir])
        BY <3>1, <3>2, <4>1 DEF Whole, Dir, File
      <4> QED BY <3>3, <4>2 DEF VersionsComeLast, RemovedNotMixed
    <3>8. CASE \/ Checkout \/ RunGate \/ RunProbes \/ CopySarif
               \/ MakeClean("vclean", "vmake") \/ Make("vmake", "plain", "valgrind")
               \/ RawRun("valgrind", "valgrind.log", "aclean")
               \/ MakeClean("aclean", "amake") \/ Make("amake", "asan", "asan")
               \/ RawRun("asan", "asan.log", "close")
      <4>1. step # "open" /\ step # "write"
        BY <3>8 DEF Checkout, RunGate, RunProbes, CopySarif, MakeClean, Make, RawRun, GoOn
      <4>2. "versions.txt" \notin data'[Dir].files
        <5>1. CASE \/ Checkout \/ RunGate \/ RunProbes \/ CopySarif
                   \/ MakeClean("vclean", "vmake") \/ Make("vmake", "plain", "valgrind")
                   \/ MakeClean("aclean", "amake") \/ Make("amake", "asan", "asan")
          <6>1. /\ data'[Dir].files \subseteq data[Dir].files \cup (File \ {"versions.txt"})
            BY <3>1, <4>1, <5>1
               DEF Checkout, RunGate, RunProbes, CopySarif, MakeClean, Make, GoOn, EvidenceDirs, File
          <6> QED BY <3>2, <4>1, <6>1
        <5>2. ASSUME NEW at, NEW log \in {"valgrind.log", "asan.log"}, NEW next, RawRun(at, log, next)
              PROVE  "versions.txt" \notin data'[Dir].files
          <6>1. {log} \in SUBSET File
            BY DEF File
          <6>2. data'[Dir].files = data[Dir].files \cup {log}
            BY <3>1, <5>2, <6>1, WithTypes DEF RawRun
          <6> QED BY <3>2, <4>1, <6>2
        <5> QED BY <3>8, <5>1, <5>2
      <4> QED BY <3>2, <3>3, <4>1, <4>2 DEF VersionsComeLast, RemovedNotMixed
    <3> QED BY <2>2, <3>4, <3>5, <3>6, <3>7, <3>8 DEF Next, StartRun
  <2> QED BY <2>1, <2>2 DEF Next, Fails, OpenDir, OpenFails, Checkout, RunGate, RunProbes, CopySarif,
                  MakeClean, Make, RawRun, CloseRef, GoOn
<1>2. ColInv /\ [Next]_colVars => [VersionsComeLast /\ RemovedNotMixed]_colVars
  BY <1>1
<1> QED BY <1>2, ColInvariant, PTL DEF Spec
=============================================================================
