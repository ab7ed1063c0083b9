# A specification of c-secure-build

This directory specifies the repository in TLA+: the hardened shell and its
vulnerable twin, the security gate around them, the script that collects evidence,
the scripts that build and run the language-model benchmark, and the programs the
vendored analyzer rules are tested on. TLC checks the modules on small instances;
TLAPS proves the properties of the shells, the gate, the collector, the evaluation, the
test set and the drivers for every value of the constants.

Run a check with `tlc -config MCShell.cfg MCShell`, a proof with
`tlapm ShellProofs.tla`. `PROJECT.json` maps each definition to the lines it models,
and lists every run, hazard and theorem.

## 1. Inventory

| Component | Source | State it keeps | Operations | Module |
|---|---|---|---|---|
| Command history | `src/hardened_shell.c:16-125` | ring of heap strings, flags, next slot, `last_command` | `history_init`, `record_history`, `show_history`, `recall_slot`, the end of `main` | `HistoryRing`, `SessionHistory`, `CommandLine` |
| Main loop and child | `src/hardened_shell.c:66-215` | line buffer, `parsed_args`, status, stdio's read-ahead, the child, the shared file offset | `main`, `parse_input`, `dispatch_builtin`, `execute_command` | `Shell` |
| Security gate | `scripts/scan.sh`, `Makefile`, `.githooks/pre-commit` | the working tree, the index, the binary, `.security/`, `blocked`, the exit code | make, clean, test, scan, stage, commit | `Gate` |
| Evidence collector | `scripts/collect_security_data.sh` | the worktree, worktrees left over, `data/<slug>/`, `README.txt` | one pass per ref | `Collector` |
| Evaluation run | `llm-eval/harness/run_eval.py` | the answers file, `spent`, the items left | run, ask, record, stop, rerun | `EvalRun` |
| Test set builder v2 | `llm-eval/harness/build_v2.py` | pools, groups, counts of rules and families | label, deduplicate, select | `EvalSet` |
| Benchmark drivers | `serve.sh`, `run_v2.sh`, `run_all.sh`, `run_nothink.sh` | llama-server processes, pid files, logs, the port | serve, check, evaluate, kill | `Bench` |
| Vulnerable mirror | `docs/vuln_shell_annotated.c`, `src/vuln_shell.c.bak` | ring of pointers never freed, flags from `malloc`, stdio's buffer, the shared offset | every function of the program | `VulnShell`, `CommandLine` |
| Rule fixtures | `.semgrep/rules/*.c`, `*.cpp` | pointers and objects; sizes; files and names; user and group ids | the functions the rules are tested on, each with the label of its lines | `FixtureObjects`, `FixtureSizes`, `FixtureRaces`, `FixtureIds`, `RulePack` |
| Test set builder v1, scores, charts, training, CVSS, CI, test scripts | see `PROJECT.json` | files | pure or declarative | not modelled, section 7 |

Paths are below `src/` of the checkout; the shell itself is `src/src/hardened_shell.c`.

How they interact. The shell and its children share one stdin offset. `scan.sh` and the
hook share the working tree, its binary and `.security/` with a developer who edits and
builds. The collector runs the gate in a worktree, so `Collector` takes an outcome of
`Gate` as the data of one step (`ScanOutcome`, proved of `Gate`). `run_v2.sh` starts
servers through `serve.sh` and then calls `run_eval.py`, so `Bench` takes a run of
`EvalRun` as one step that ends, stops or fails. `build_v2.py` writes the items
`run_eval.py` reads. The gate is tested on the vulnerable mirror with
`tests/vuln_shell_commands.txt` as stdin, and the documents say which engine sees which
of its four defects (C1 to C4); `semgrep --test` runs the rules over their fixtures.

What is hard here, and what makes each part right:

- **History.** A slot's block is freed and may come back at once from the next
  `strdup`, which may also fail. Right: no leak, no dangling pointer, no text in freed
  memory, and the answers a user was promised.
- **Shell.** The shell, its read-ahead and its children consume one stdin, in blocks
  that may end inside a line; signals interrupt `waitpid`; `SIGCHLD` may be inherited as
  ignored. Right: no text is replayed, lost or read twice; one command at a time; a
  truthful status; what `main` owns is wiped whatever grew in between.
- **Gate.** make goes by timestamps and cannot see a build variable; `make clean`
  removes the reports; source may change, and be staged, during a scan. Right: a clean
  verdict is about the working tree, not about a binary that happened to be there; the
  exit code and the reports together tell what was found.
- **Collector.** Dozens of commands under `set -e`, any of which may fail or be
  interrupted, the removals too. Right: what is announced is complete and of this run;
  what is left behind is of a run that failed, one worktree at most.
- **Evaluation.** A kill can tear a line; the next record is glued to it. Right: one
  record per item, cost never undercounted, completion in the end.
- **Test set.** Labels follow from comments found by counting braces; three caps bind
  at once and the loop ends on a progress flag. Right: each label is that of the
  statement's own block, the caps hold together and a shortfall is real.
- **Drivers.** A health check asks the port, not the process, and a server may outlive
  its `kill`, or its driver. Right: answers are filed under the model that gave them,
  unless a killed driver's server takes the port late.
- **Vulnerable mirror.** Its defects show only in some sessions: a block is lost only
  after the ring wraps, an unwritten flag is read only before. Right: the gate's own
  input reaches what the documents say it reaches, and no more.
- **Fixtures.** `semgrep --test` compares labels with patterns and never runs the code.
  Right: the labels are true of what the functions do; where they are not, the source
  says so beside the call.

`PROJECT.json` lists each hazard at its line with the properties that would catch it.

## 2. The modules

**CommandLine** holds the text functions. A line is an abstract value known by its
`strlen` and the words the tokenizer finds in it; a word by its name and what `strtol`
makes of it. `StrToL`, `IntCast` and `ParseInt` keep the widths of `long` and `int`, so
a numeral that fits one and not the other is a case of its own. `ParseInput` gives the
words or refuses, `Snprintf` cuts.

**SessionHistory** is the abstract specification: a log of commands, *history* answers
the one before the latest, *recall n* answers the latest one whose turn went to slot
n. It has no ring, pointer or heap.

**HistoryRing** is the code: `heap`, `history`, `slot_used`, `history_next`,
`last_command`, and a ghost `log`. `RecordHistory` is the whole of `record_history`:
copy the previous command out, wipe and free the slot, `strdup` (any block that is not
live, or failure), store, advance. Its refinement mapping to `SessionHistory` is only
the life of the process; log, answers and the words that asked for them (a ghost, so
that an answer right for another question does not count) are the same variables.

**Shell** extends `HistoryRing` with `main` and the child. `pc` names the places in
`main` at which something else can happen in between. stdin is pieces of text, any of
which may end with a newline, so a line is one piece or several; `offset` is the file
offset all processes share, `bufpos + 1 .. bufend` are the pieces stdio has read ahead,
and `taken` what `getline` has stored of a line it has not returned. A block of stdio
and what a command reads may both end inside a line. `buffer_size` and `dirty` say how
large `getline`'s buffer is and how far typed text ever reached into it; `outgrown` that
`realloc` released a smaller one. stdio's own buffer is no residue here: it is the C
library's, and the program cannot wipe it. A child is forked, running or a zombie; between
fork and exec it runs the shell's own code and can end only through `_exit`. What a user's
program does is to read from stdin, or not, and to end, or not.

**Gate** has one step per command of `scan.sh`. A version of the source is the set of
its defects, one kind per pass. `binary` remembers its mode, its source and whether
make believes it current; each report is absent, empty, of this scan or of an older
one. The passes read the working tree and a commit takes `index` (`README.md:168`). Edits
and `git add` (`Stage`) may come between any two commands; other builds only between
scans. `positive` is what the passes returned, so that an exit code can be compared with
what was found.

**Collector** has one step per part of the loop's body, `Fails` (any command fails, or
the user interrupts, with the files of that part written or not) anywhere, and repeated
runs over the same directories. `OpenFails` is the `rm -rf` of an old directory cut short,
with any part of it left; the trap's removal of the worktree may fail too, and what nobody
will remove is in `left`. `GateOutcome`, in **ScanOutcome**, is what `Gate` allows a
scan to leave: exit 0 or a finding with all reports, exit 1 from a helper command before
any SARIF report, or exit 2 (`ExitMatchesReports`, `GateEndsInAnOutcome`).

**EvalRun** keeps the answers file as whole lines plus a `tail` that lacks its newline.
A kill during a write leaves nothing, a fragment, or all but the newline; the next
record is glued to what is there. `todo` is the ids still to ask, in the items' order.

**EvalSet** reads findings one by one (`ReadFinding`: look for the marker, classify,
deduplicate, drop what leaks) and then selects each stratum: `VisitCwe` and one pop per
step. A finding carries the lines of its function above it, each known by its marker
and its braces; `MarkerAbove` folds over them from below, as `marker_above` walks, one
`Up` per line. The shuffle makes each group a set from which a pop takes any member.
The list comprehensions that filter are `Keep` of **Lists**, a fold.

**Bench** has `llama-server` processes, each of which binds the port or gives up, logs its
offload line, gets ready, and takes its time to end; and a driver that runs `serve.sh`
command by command. When a driver is killed, or `serve.sh` fails after its tries, the
server it started may live on, also one that has not the port yet (`late`), and bind it
after a later `serve.sh` found it free. `evaluated` is the models whose evaluation came to
its end under any driver: `run_v2.sh` and `run_all.sh` have item sets of their own, which
the model does not tell apart. `llama-server` is external, modelled from what `serve.sh`
asks of it.

**VulnShell** is the shell with its four planted defects. A heap block is named by the
turn of the `strdup` that made it, since none is ever freed, so a lost block is one no
slot points to. `malloc` leaves any of `Garbage` in the flags. stdin is a fixed list of
lines in a file or a pipe, each line `PIECES` pieces, read in blocks of `BlockSize`
pieces; a file gives a full block, a pipe any part of one, and a command what it likes. A
part of a line, or parts of several glued together, read as any of `Fragments`. A child
whose `execvp` fails calls `exit()`, and its stdio moves the shared offset of a file back
over the text it had inherited. A line too long for `last_command`, and a `history` format
with any other directive than `%s` or `%p` (`%n`, a second `%s`), lead to `undefined`,
where nothing more is said. There is no `EINTR`: the program installs no handler and is
not stopped.

**FixtureObjects**, **FixtureSizes**, **FixtureRaces** and **FixtureIds** hold the
fixtures of the vendored rules as data for four small machines. In *Objects* a fixture
is a list of steps over pointers (make, set, use, free, return) with the label of its
comment, run under each value of its conditions; each rule's pattern is an operator over
the steps (`RulesMatchLabels` compares its reports with the labels). In *Sizes* it is
one call, with the label the source gives it (`none` where there is none), and the
inputs for which a size is misused there, on machines with `size_t` as wide as `int` or
twice as wide. Six calls go wrong without being reported, and the source says so beside
them (four loops whose label is only a comment, a `todoruleid`, a constant overflow
called `ok`); they are marked `Admitted`. In *Races* another process may replace a file
between any two steps; every call may fail, and the function leaves or, where the source
ignores the failure, goes on. In *Ids* real, effective and saved ids change as Linux
changes them, any call may also fail for want of resources, and the conditional drops
are called with both ids and with one. **RulePack** runs one fixture of one machine per
behaviour.

**MC\*** modules give the constants their values. **Lemmas** and the modules named
**...Proofs** hold the proofs (`ShellProofs` those of `HistoryRing` and `Shell`, in this
order, `TargetProofs` those of the programs the gate and its rules are tested on:
`VulnShell`, then the fixtures). Definitions marked as variants in their comments
(`FreeOnly`, `GiveUpWait`, `MarkerAnywhere`, ...) are plausible slips of the code; no
specification uses them, and each property is shown to fail when one replaces the right
definition.

## 3. The runs

| Run | Question | Properties | Answer |
|---|---|---|---|
| `history_ring` | Does the ring own its blocks, wipe them, and answer as the abstract session does? | `Ownership`, `NoResidue`, `RingHoldsLatest`, `SessionSpec` | yes (236,171 states) |
| `shell_session` | Over any interleaving of shell, child and signals, with blocks and reads that end inside a line: is text read once, are commands run alone and as typed, failures told, what `main` owns wiped, and does the session end? | `InputPartition`, `CommandAlone`, `RunsWhatWasTyped`, `RecordsWhatWasTyped`, `StatusTellsFailure`, `NothingLeft`, `RingSpec`, `EndsOrCommandRuns` | yes (177,794) |
| `gate` | Does exit 0 or an accepted commit vouch for the working tree? Do exit code and reports together tell what was found? | `CleanMeansChecked`, `ExitMatchesReports` | yes (3,038,068) |
| `gate_exit_two` | Does exit 2 mean that nothing was scanned (`README.md:74`)? | `ExitTwoIsNoScan` | no |
| `collector` | Is an announced dataset complete and of this run, each log of its own build, and what is left behind of failed runs only? | `WrittenMeansComplete`, `LogsFromTheirBuild`, `LeftoversAreOfFailedRuns` | yes (5,069,465) |
| `eval_run` | Over kills and reruns: one record per item, cost covered, a readable file, completion? | `OneRecordPerItem`, `SpentCoversFile`, `CleanEndIsComplete`, `EventuallyComplete` | yes (93,098) |
| `eval_failed_request` | Is a failed request never recorded (`llm-eval/README.md:50`)? | `FailedRequestNotRecorded` | no |
| `eval_set` | Does each label come from the statement's own block and function? Do all caps hold together, is a shortfall real, do CWEs take turns? | `SelectionWithinCaps`, `ShortfallIsReal`, `CwesTakeTurns`, `LabelsFollowBlocks`, `SelectionEnds` | yes (87,604) |
| `bench` | Do answers come from the model they are filed under, fully on the GPU, and is every model evaluated? | `AnswersFromNamedModel`, `AnswersFromGpu`, `EvaluatedOrLeftBehind` | yes, but for servers left behind (3,703,681) |
| `bench_rerun` | Does rerunning `run_v2.sh` resume (`run_v2.sh:3`)? | `RerunResumes` | no, after exit 3 or 4 |
| `vuln_shell` | Which blocks are lost, when is an unwritten flag read, what does the gate's input reach, when is text handled twice? | `LostIffOverwritten`, `RecallIgnoresGarbage`, `GarbageReadOnlyEarly`, `EngineMatrix`, `ReplayOnlyAfterRewind`, `EndsUnlessRewound` | as the documents say (788,539) |
| `rule_fixtures` | Are the fixtures' labels true of what the functions do? | `LabelsMissNothing`, `ReportsAreReal`, `ObjectRulesMatchLabels`, `OpenFileIsTheOneLookedAt`, `OrderDecidesRoot` | yes, as far as the properties say (62,747) |

### What the three negative answers say

1. **`gate_exit_two`**. The dynamic passes run before the second build and the static
   engines. When one of these fails after a pass has found something, `broken()` prints
   "Nothing was scanned. This is not a finding." and exits 2, and the finding is not told.
2. **`eval_failed_request`**. Only errors that start with "request failed" stop the
   run. `post()` words an HTTP status differently, so a 503 becomes the item's record
   and no rerun asks again.
3. **`bench_rerun`**. `serve.sh` exits 3 (no offload line yet) or 4 (a spill) with the
   server it started still running, and `run_v2.sh` skips its `kill` with `continue`. The
   port stays taken, so the remaining models fail in this run and in each rerun. The trace
   is of exit 3.

### What the models also show

- **Gate**. Exit 1 is not always a finding, as `README.md:74` has it: `mktemp`, `mkdir` or
  `mv` failing under `set -e` (`scan.sh:46`, `64`, `70-72`) ends the script with its own 1.
  `ExitMatchesReports` says how to tell: without the SARIF reports nothing was found that
  was told. An accepted commit is not vouched for as such: the passes saw the
  working tree, and `CleanMeansChecked` speaks of the index only when what is staged is the
  one version the tree had during the scan.
- **Shell**. A block of stdio may end inside a line, and a command then reads the rest:
  the line is shared, and what the shell makes of its parts is another line. No text comes
  twice. After a normal end nothing typed is in what `main` owns; buffers `getline` outgrew
  are not wiped (`src/README.md:158`), and `NothingLeft` says there are such only when a
  line did not fit the first.
- **Collector**. A worktree nobody removes is left when the trap's removal fails
  or never runs, or when the script dies before `WORKTREE` names the directory `mktemp`
  made: one at most for each run that failed. An `rm -rf` of an old directory that is cut
  short can leave its `versions.txt` beside part of its files.
- **EvalRun**. The cost cap is compared after each answer and not before the first
  request of a rerun, so every rerun over a full budget pays for one more answer.
- **EvalSet**. `llm-eval/README.md:60` has false positives in `good*()` functions only. A
  finding outside the test case's family becomes `fp_offtarget` before its function is
  looked at (`build_v2.py:141`), so a `bad()` function can supply one;
  `eval_v2/test.jsonl` has one such item. `LabelsFollowBlocks` states what holds of
  the other labels. `COMMENT` needs the end of a comment on the same line, so a marker
  that continues on the next line is not seen (`eval/items.jsonl` holds five such comments
  of Juliet). `LabelsFollowBlocks` takes markers as the code does: such a line is one
  of the inputs, and governs nothing. What is under it is dropped, or counted as
  `fp_other` where `fp_paired` was meant.
- **Bench**. "One model at a time" (`run_all.sh:2`, `llm-eval/README.md:43`) has an exception:
  `serve.sh` starts the server in the background (line 24) after it looked at the port
  (line 13), and asks the port for health (line 31). A server whose driver is killed before
  it has the port can take it later, when the next model's server is gone, and its answers
  are filed under that model. `AnswersFromNamedModel` says that this is the only way.
  `EvaluatedOrLeftBehind` is the positive side of `bench_rerun`: a server left behind is
  the only way for repeated runs never to evaluate a model.
- **VulnShell**. The blocks C3 loses are exactly those whose slot came round again, so
  an input of at most `HISTORY_SLOTS` lines shows no leak; C4 is the reverse: an
  unwritten flag can be read only before the ring has filled, and no answer shows it.
  The gate's input has both, and this is what `EngineMatrix` states. Only the `exit()` of a
  failed child brings text back; that a block's end shares a line with a command needs no
  such rewind.
- **Fixtures**. Of the size rules several reports are of calls no input makes go wrong, so
  `ReportsAreReal` speaks of the object rules only. Six calls go wrong unreported, each
  admitted beside it. The drops of privileges called ok keep root when an ignored call
  fails for want of resources, and `OrderDecidesRoot` excepts that; one-id calls of
  the reported conditional drop have no order to get wrong.

## 4. Bounds

| Module | Bound | Why it is enough |
|---|---|---|
| HistoryRing | 2 slots, 3 blocks, `MaxCommands` 4, buffer of 4, `int` of 4 bits, `long` of 6 | the ring wraps twice; one block more than slots, so a block is reused and another is not; one line longer than the buffer; numerals in `int`, in `long` only, and in neither. The proofs need none of these |
| Shell | 2 blocks, `MaxCommands` 4 pieces of stdin, `FirstSize` 1, `MAX_ARGS` 3 | read-ahead, a child's read and a second command fit in 4 pieces, and so does a line of several that a block cuts; a line of two pieces outgrows the first buffer; one line has exactly one word too many, one exactly fills `parsed_args`. The proofs need none of these |
| Gate | `MaxEdits` 2 (1 in `gate_exit_two`) | one edit before and one during a scan, or two during, with anything staged in between; any number of scans and builds. Each single defect, and one version that only the static engines would let through |
| Collector | `MaxRuns` 2 | a failed run over a good one and the reverse; two refs, and two refs with the same directory |
| EvalRun | 3 items, `MaxCrashes` 2, `MaxGone` 1, cap 2 | torn, glued, and torn again; an item before, at and after the one that fails |
| EvalSet | every kind of finding alone, and under every function of 2 to 4 lines of six kinds; all 2^11 parts of a list of 11 | a marker in a block that ended before the statement, in one still open, and above both; rules shared by CWEs, families by rules, keys by findings; quotas 5 and 1, so that the rule share cuts before and after the quota |
| Bench | 3 models as in the scripts, 2 processes, `MaxFailures` 1 (deaths, requests that time out, ends slower than the `sleep`), `MaxInterrupts` 1; none of either in `bench_rerun` | a server left by the first model is met by the second and the third; a failure and a killed driver in the same run; one server left behind and one of the turn. The proofs need none of these |
| VulnShell | `HISTORY_SLOTS` 4 and `HISTORY_SIZE` 32 as in the code, `MAX_ARGS` 3, `PIECES` 2, `BlockSize` 3, one `Fragments`, `MaxTyped` 5 (after a rewind only), two fillings of the flags | blocks of one line and a half, so that each second one ends inside a line; the gate's own input of 7 lines as a file, every input of at most 2 lines of eight kinds as file and as pipe, and two longer ones in which the ring wraps or an empty line stands between. Lines read again after a rewind may come for ever, which is why their number is bounded. The proofs need none of these |
| RulePack | `int` of 4 bits and `size_t` of 4 or 8, `BUFSIZE` 4, `MaxReplaced` 2, two users (500, 501) | every pair of `int`s is tried, so each sum and product that wraps does; a file replaced between two checks, and again before the use. The proofs about races and ids need neither `MaxReplaced` nor the two ids |

Deadlock is checked in the two gate runs, the two EvalRun runs and the two Bench runs. The
shells end with their sessions, the history with its process, the collector after
`MaxRuns`, `build_v2.py` when it has written and a fixture when it returns, so those runs
allow the end.

Symmetry is used in `history_ring` only, over heap blocks, which are interchangeable
and appear in no property that distinguishes them. The run's one temporal property is
a safety property (a refinement without fairness).

## 5. Fairness

- **Shell.** Weak fairness of `main` (the kernel schedules it); of the child between
  fork and exec (it runs the shell's own code); strong fairness of the `waitpid` that
  could return, because signals may interrupt it, but not for ever. Nothing is assumed
  of users' programs: the session ends *or a command runs for ever*.
- **VulnShell.** Weak fairness of `main` and of the child between fork and exec; no
  signal interrupts `wait`, so nothing stronger is needed. Nothing is assumed of
  commands. Only a rewind can keep a session from ending (`EndsUnlessRewound`).
- **EvalRun.** A run goes on, and somebody runs it again until it is complete, which is
  how `llm-eval/README.md` describes its use. Kills and absences of the server are
  finite.
- **EvalSet.** One sequential program: weak fairness of `Next`.
- **Bench.** Drivers and servers go on, and drivers are started again. A server that
  was sent a signal ends, though perhaps not within the `sleep 5`. Slow ends, deaths,
  timeouts and interrupts are bounded: if every `kill` were slow, every next
  `serve.sh` would find the port taken, and nothing in the scripts would help.
- **Gate, Collector, RulePack.** Safety only, no fairness.

## 6. Proofs

All leaves are checked by TLAPS; nothing is assumed beyond the named `ASSUME`s of the
modules: sizes are at least 1 slot, 2 words and 2 characters (`SizesAssumption`);
`getline`'s first buffer holds something (`FirstSizeAssumption`); each line has a length
and words, an empty line has none (`LineAssumption`); `int` and `long` are
two's-complement ranges, `int` not wider, wide enough for a slot number
(`WidthAssumption`); the empty string and the null pointer are values of their own
(`NoTextAssumption`, `AddrAssumption`); versions are sets of defects
(`VersionsAssumption`); refs have slugs (`RefsAssumption`); ids and models occur once in
their lists, and there is a process id (`ItemsAssumption`, `ModelsAssumption`); a
finding has a CWE, a rule and a family that are known (`FindingsAssumption`), the sorted
list of CWEs has none twice (`KeysAssumption`), quotas and limits are numbers, the share
a percentage, and a family is in one set (`QuotaAssumption`); a line has a piece and a
block too, and the gate's input, as a file, is one of the inputs (`InputsAssumption`);
it is longer than the ring, of lines that are neither empty nor too long, tries no
format but `%s`, `%p` and plain text, and one line before the last asks for a slot not
yet taken (`TestInputAssumption`: what `tests/vuln_shell_commands.txt` was written to
be); files are replaced some number of times (`MaxReplacedAssumption`); the two users of
the id fixtures are not root and not the same (`UsersAssumption`). Any number of lines,
blocks, slots, refs, items, findings and models is allowed, and so is any value of the
bounds of section 4.

Type invariants and `UsedIffHeld` are proved rather than run, as parts of the inductive
invariants.

**The ring.** `RingInv` is the conjunction of the history's checked invariants, of
`UsedIffHeld`, `LastCommandIsPrevious` and `StartsEmpty`. None of the parts is
inductive alone. Ownership across a wrap needs `NoResidue` and `UsedIffHeld`;
`LastCommandIsPrevious` needs `RingHoldsLatest`, because the command that is copied is
found through the slot before `history_next`; and `RingHoldsLatest` needs `Ownership`,
because a block that two slots shared would be overwritten. The arithmetic is in
`Lemmas`: the slot before a turn's slot is the previous turn's; turns closer than
the ring's size have different slots.

**The refinement.** `RingImplementsSession`: every step of the ring is a step of
`SessionHistory` or a stutter. The step that matters is *recall*: the slot's string is
the log's entry at the last turn of that slot (`RingHoldsLatest`), and `ParseInt`
accepts exactly the numerals that fit an `int`, where `IntCast` changes nothing.

**Folds and filters.** A fold is a recursive function, and no induction theorem can be
used here, so `Lemmas` shows by hand that one exists, with a value for every set of
places (`FoldFromTheLast`, `FoldFromTheFirst`); what it makes of a sequence then follows
from its equation. An induction over a sequence is a least counterexample (`UpTo`). On
these rest `KeepAppend` and `KeepItems` (what a filter keeps); `PlacesAppend` says how
counts grow. The provers know nothing of `SelectSeq`, which is why the modules filter
with `Keep`.

**The shell.** `ShellInv` strengthens the checked invariants by `InputBounds` (what
`getline` has stored lies behind stdio's buffer, that behind the offset, and each line
typed took a piece at least), `BufferInv` (typed text stays within the size `getline`
reports, and a buffer was outgrown only by a larger one), `LineInHand` (what `main` holds
is what was typed last, at each `pc`), `LogBehindTyped` (when the history has what),
`StatusInv` and `WipedAtEnd`. `InputPartition` needs the bounds, for pieces of any line
and blocks and reads of any size; `RunsWhatWasTyped` needs the line in hand;
`StatusTellsFailure` and `NothingLeft` need what holds before the last step. For
`NothingLeft` that is `BufferInv`: wiping up to the terminator of the last line would not
do, since earlier lines reached further.
`RecordsWhatWasTypedAlways` (the log is a filter of what was typed) goes by cases on `pc`:
`RecordedInv` says whether the line in hand is in the log already.
`ShellImplementsRing` shows that the shell calls the history only as `RingNext` allows;
with the theorems of the ring, its invariants and its refinement hold in the shell:
`ShellSpec` implies `RingSpec` implies `SessionSpec` (`ShellKeepsHistory`).
`SessionCannotGoOn` is the safety half of `EndsOrCommandRuns`: input to take and to make
lines of (`InputLeft`), the way of a line through `main`, the child's life and the input a
command could still read form a
lexicographic measure, which every step lowers but those of a `waitpid` that a signal
interrupts.

**The vulnerable mirror.** `VulnLostIffOverwritten` and the others rest on `BlockInv`:
each of the last `HISTORY_SLOTS` blocks is where its turn put it and a slot points to no
other, so a stored block is unreachable exactly when its slot came round again. The
step that matters is a record, where `ModWrap` says that the slot overwritten is that
of one ring earlier. `FlagInv` (the flags of recorded slots are set, whatever `malloc`
left in the others) gives with it that garbage is read only before the ring has filled
and never shows in an answer. `OrderInv` says that without a
rewind the text of typed lines, the text in hand, stdio's buffer and the shared offset
stay in this order, and that no command reads what the shell handled, so only a
rewind replays; undisturbed, the text in hand begins where the last line ended, and from
this the lines typed are those of the file, one by one (`ReplayOnlyAfterRewind`), wherever
the blocks end: `EndsFacts` says what the newlines cut.
`VulnEngineMatrix` follows one input. `TestRunInv` says, while nothing was rewound and no
command has read, that the n-th line handled is line n of the input and is recorded before
it is parsed, that no format leads to `undefined`, and that `main`, once past a line that
asks for an unwritten flag, has read one (`InStep`). The end then says that as many lines
were recorded as the input has, and `VulnLostIffOverwritten` which of their blocks are lost.
`VulnCannotGoOnUnlessRewound` is the counterpart of `SessionCannotGoOn`: the same measure
falls with every step, there being no interrupted waits, but only while no child has moved
the shared offset back.

**The fixtures.** The pack runs one machine, so each of these is an invariant of that
machine alone. `PackOpenFileIsTheOneLookedAt`: the function the rule does not report opens
its file once and then asks the handle, and `AsksHandle` says that what it looked at and
what it used are behind that handle, however often the name is replaced and whichever call
fails. `PackOrderDecidesRoot`: `Misled` speaks of the end. `IdsInv` gives, for each program
of the fixtures, the ids it has at each of its steps (root's real id is the user's, as in a
setuid program), as far as no permitted call has failed (`short`). What decides is whether
the effective id is still 0 at a call: then `setuid` and `setgid` change all three ids, and
otherwise the effective one only, so that the saved 0 of whatever was to be dropped later
stays and can be taken back.

**The gate.** `CleanMeansChecked` speaks of the verdict alone. `VouchedInv` says for
each step what `blocked = 0` is worth there: each pass behind the scan has run on a
version, of those the tree had since the scan began (`ScanUnderway`), that lacks its kind
of defect. It needs `BinaryInv`: the binary a dynamic pass runs was built in this scan and
in the right mode, because `make clean` precedes both builds. What is staged follows: if
the tree had one version all the while and it is the index, that version was checked.
`GateExitMatchesReports` needs `BlockedInv`, that `blocked` is what the passes returned, and
`ReportsInv`: after the first clean no report is an old one, and each is new from the
step after the one that writes it. `GateEndsInAnOutcome` joins the gate to the collector:
the end of a scan, seen as code, reports and binary, is in the set `Collector` draws from.

**The collector.** `WrittenMeansComplete` speaks of the end of a run. `DirInv` says
which files the directory of the ref in hand has at each step, `ClosedInv` that each
directory the loop is through with can be published and holds the last of the refs that
share it (unless the ref in hand shares it too), and `RunInv` that `README.txt` is of an
earlier run until the last command. `LogsFromTheirBuild` needs `TreeInv`: the binary is the
one the make before a raw run was asked for, because a `make clean` came before it,
though the gate left another one. `LeftoversAreOfFailedRuns` needs `LeftInv`: a run under
way has left nothing yet, and no worktree is held between two refs. `ColVersionsComeLast`
is for a reader who has the directories and not the script's exit code: the step that
creates `versions.txt` leaves the directory whole and of one run, also when it is cut
short, and no step but the removal of a later run touches a directory that has it; only an
`rm -rf` cut short can leave it beside fewer files, and then nothing of another run is
among them (`RemovedNotMixed`).

**The evaluation.** `EvalOneRecordPerItem` needs `FileInv` and `TailInv`, which speak
of the whole lines and of the one without a newline apart, since the next write glues
to it and loses both; and `TodoInv`: what is to do is in neither. `WholeInv` gives
`EvalCleanEndIsComplete`: unless a write was torn, every item is in the file or still to
do. That the loop is at a definite item is the least number principle, from
`WellFoundedInduction`. `EvalSpentCoversFile` compares `spent` with a sum over the file
(`CostOfAppend`): a write adds the same to both, unless it is glued to a torn line, which
takes from the file only. `EvalOneBadLinePerCrash` counts the damage of kills: the
unreadable lines, and the tail the next write may spoil, are together no more than the
kills (`DamageInv`). `EvalResumes` is the safety half of `EventuallyComplete`: no request
goes out for an item that has a record, and each answer written adds one to the items
done, unless a kill left a line that it is glued to; `DamageInv` bounds how often.

**The test set.** `SelectionInv` has five parts. `CapsInv`: the counters are the numbers
of items picked, and within the caps. `VisitInv`: a visit looks at exactly the rules
that have an item and are below their cap, so a pop always finds one
(`NeverPopsEmptyAlways`) and passes no cap. `ShortfallInv`: an item of the pool is left,
picked or of a full family, and in a round without progress all CWEs behind the visit
are exhausted; the end of such a round makes the shortfall real. `TurnsInv`: there is a
round number R such that a CWE has R items, or R + 1 once it was visited, or fewer and
is exhausted; `CwesTakeTurns` alone is not inductive, because it does not say where in
its round the loop is. `LabelsFollowBlocksAlways` is about `marker_above`: from the
flagged line up, the depth is the largest number of blocks that were closed below and
not opened (`WalkKnows`), so a marker met at depth 0 governs, and the first one met is
the nearest; what a label asks of the function is `LabelNeeds`. `TestSetIsApartAlways`
needs `KeysInv` (a key is in one pool, on the side of its family) and `DrawnInv` (an
item is left or picked, and picked once). `SelectionCannotGoOn` is the safety half of
`SelectionEnds`: findings and strata to go, items left, whether the round had progress,
CWEs to go and whether a visit begins form a lexicographic measure that each step
lowers. `SelectionInvariant` and the three properties without a run (`TestSetIsApart`,
`WorkFalls`, `NeverPopsEmpty`) are stated in `EvalSetProofs`.

**The drivers.** `BenchAnswersFromNamedModel` needs `AloneInv`: in a model's turn the
pid file names its server, and any other process that runs was left behind before it had
the port. This needs `StartingInv`, that a server which has not tried the port yet is
the one being waited for or such a one, because it could bind after `serve.sh` found the
port free. `LineInv` says that an offload line is of this turn's model, for
`BenchAnswersFromGpu`. `BenchEndEvaluatesAll` is the other direction: while no server
has died, timed out or ended late, nobody has interrupted and no model was turned away
with its server running, a driver that ends has evaluated every model. It needs
`TurnsInv`: between two turns there is no server at all, so each `serve.sh` finds the
port free, and the models behind the loop are in. Its property, `EndEvaluatesAll`, is
stated in `BenchProofs`.

**Model-checked only.** `LabelsMissNothing`, `ReportsAreReal` and
`ObjectRulesMatchLabels`: the object fixtures are fixed programs of which TLC tries
every run, so that a proof would say no more, and the sizes depend on powers of 2 of
which the provers know no facts. Liveness (`EndsOrCommandRuns`, `EventuallyComplete`,
`SelectionEnds`, `EvaluatedOrLeftBehind`, `EndsUnlessRewound`) is out of the prover's
reach, as is `ENABLED`; the part that needs neither is proved: measures that fall for
`SelectionEnds`, `EndsOrCommandRuns` and `EndsUnlessRewound`, what a rerun gains for
`EventuallyComplete`, and for `EvaluatedOrLeftBehind` that a driver which ends
undisturbed leaves no model out.

## 7. Not modelled

- Test set builder v1: superseded; `select()` of v2 is the harder variant. The text
  functions both use (function spans, Juliet labels, SARIF) are pure.
- Scores, charts, CVSS, training: sequential arithmetic and formatting, floating
  point, unit tests of their own. Whether `stats.load` can read a file is part of
  `CleanEndIsComplete`.
- CI and the toolchain image: declarative calls of what `Gate` models.
- `use-of-source-size-in-copy.c`: whole programs of other projects around fifteen
  labelled copies, and a rule that compares the text of an argument with that of
  another.
- Fixtures about the mere presence of a call or the shape of the text
  (`interesting-api-calls`, `typos`, `insecure-api-*` but for access/stat, `missing-*`,
  `regex-dos`, ...): nothing happens when their functions run that the label is about.
  The local rules and their fixture are of this kind; the assertions of the test scripts
  are examples of what `StatusTellsFailure`, `SessionSpec` and `InputPartition` state in
  general.
- Inside modelled parts: the characters of a line, the wording of messages, prompts and
  request parameters, the layout of reports; `cmd_sample` (a shuffle and file copies)
  and `prompt_code` (regular expressions) of `build_v2.py`; the `--source` filter of
  `run_eval.py`; an overflow of `history_count`, which needs 2^31 lines.
- Of memory: stdio's own buffer, the kernel's copies and the blocks `getline` outgrew
  (their existence is modelled, `outgrown`, their content is not).
- Of the size rules: that a report is of a call that can go wrong. Several are not.
- A hazard without a property: make by hand in a second terminal during a scan, which
  nothing in the scripts prevents. Builds by hand come between scans only.

## 8. Plan

Order: what the repository is for first (the shell's memory and input), then the gate
that vouches for it, then the scripts whose results are published, then the programs
the gate and its rules are tested on.

Done: the modules of section 2, the runs of section 3, the theorems of section 6.

Next, to model:

1. The CI jobs over `Gate`: plant a defect, expect exit 1 and not 2, restore.
2. `cmd_items` of the v1 builder against that of v2, for the sets already published.
3. `prompt_code`: that no marker survives it, over short lines.

Next, to prove:

1. `Bench`: a measure for one run of a driver and the servers it starts.
2. `FixtureSizes` for any width of `int`, which needs facts about powers of 2 first.
