---------------------------- MODULE FixtureRaces ----------------------------
(***************************************************************************)
(* The fixtures of insecure-api-access-stat.c: a function looks at a file   *)
(* and uses it, while another process may put a different file under the    *)
(* same name between any two of its steps.                                  *)
(***************************************************************************)
EXTENDS Integers, Sequences

CONSTANT MaxReplaced   \* bound: how often the other process replaces a file

ASSUME MaxReplacedAssumption == MaxReplaced \in Nat

(* Look: access, stat, lstat.  LookFd: fstat of the open file.  Open: open,
   fopen.  ByName: what a command or a system call does to the name again.
   Every call may fail, and the function then leaves, except where bad3 only
   prints the error of its open and test_001 does not look at copy_file's. *)
Look(f)   == [op |-> "look",   file |-> f, leaves |-> TRUE]
LookFd(f) == [op |-> "lookfd", file |-> f, leaves |-> TRUE]
Open(f)   == [op |-> "open",   file |-> f, leaves |-> TRUE]
ByName(f) == [op |-> "byname", file |-> f, leaves |-> TRUE]
GoOn(s)   == [s EXCEPT !.leaves = FALSE]

LookThenOpen ==
    [bad1 |-> << Look("userfile"), Open("userfile") >>,
     bad2 |-> << Look("file"), Open("file") >>]

OpenThenLook ==
    [bad3 |-> << GoOn(Open("fname")), Look("fname") >>]

CopyThenUnlink ==    \* the copy and the unlink go by the names
    [test_001 |-> << Look("original"), Look("mirror"), GoOn(ByName("original")),
                   GoOn(ByName("mirror")), ByName("original") >>]

LookThenFopen ==
    [test_002 |-> << Look("key"), Open("key") >>,
     test_001_stack_overflow |-> << Look("file"), Open("file") >>]

OpenThenFstat ==
    [ok |-> << Open("file.txt"), LookFd("file.txt") >>]

RaceNames ==
    DOMAIN LookThenOpen \cup DOMAIN OpenThenLook \cup DOMAIN CopyThenUnlink
    \cup DOMAIN LookThenFopen \cup DOMAIN OpenThenFstat

Races(n) ==
    CASE n \in DOMAIN LookThenOpen   -> LookThenOpen[n]
      [] n \in DOMAIN OpenThenLook   -> OpenThenLook[n]
      [] n \in DOMAIN CopyThenUnlink -> CopyThenUnlink[n]
      [] n \in DOMAIN LookThenFopen  -> LookThenFopen[n]
      [] n \in DOMAIN OpenThenFstat  -> OpenThenFstat[n]

Files(n)  == { Races(n)[i].file : i \in DOMAIN Races(n) }

(* pattern-either over access, faccessat, stat, lstat, ...: any call counts. *)
ReportedRace(n) == \E i \in DOMAIN Races(n) : Races(n)[i].op = "look"

VARIABLES
    race,       \* the function that runs
    step,       \* its next step
    current,    \* name -> which file is there now
    handle,     \* name -> the file behind the descriptor, 0 when not open
    looked,     \* name -> the file last looked at, 0 when none
    used        \* name -> the files opened or acted upon

raceVars == << race, step, current, handle, looked, used >>

RacesInit ==
    /\ race \in RaceNames
    /\ step = 1
    /\ current = [f \in Files(race) |-> 1]
    /\ handle = [f \in Files(race) |-> 0]
    /\ looked = [f \in Files(race) |-> 0]
    /\ used = [f \in Files(race) |-> {}]

Now == Races(race)[step]
Active(op) == step \in DOMAIN Races(race) /\ Now.op = op
Done       == Len(Races(race)) + 1

LookAtName ==
    /\ Active("look")
    /\ looked' = [looked EXCEPT ![Now.file] = current[Now.file]]
    /\ step' = step + 1
    /\ UNCHANGED << race, current, handle, used >>

(* fstat in place of which the name is asked. *)
LookAtHandleByName ==
    /\ Active("lookfd")
    /\ looked' = [looked EXCEPT ![Now.file] = current[Now.file]]
    /\ step' = step + 1
    /\ UNCHANGED << race, current, handle, used >>

LookAtHandle ==
    /\ Active("lookfd")
    /\ looked' = [looked EXCEPT ![Now.file] = handle[Now.file]]
    /\ step' = step + 1
    /\ UNCHANGED << race, current, handle, used >>

OpenName ==
    /\ Active("open")
    /\ handle' = [handle EXCEPT ![Now.file] = current[Now.file]]
    /\ used' = [used EXCEPT ![Now.file] = @ \cup {current[Now.file]}]
    /\ step' = step + 1
    /\ UNCHANGED << race, current, looked >>

UseName ==
    /\ Active("byname")
    /\ used' = [used EXCEPT ![Now.file] = @ \cup {current[Now.file]}]
    /\ step' = step + 1
    /\ UNCHANGED << race, current, handle, looked >>

(* A call fails: the function leaves, or prints the error and goes on. *)
CallFails ==
    /\ step \in DOMAIN Races(race)
    /\ step' = IF Now.leaves THEN Done ELSE step + 1
    /\ UNCHANGED << race, current, handle, looked, used >>

(* The other process renames a file of its own over the name. *)
Replace ==
    /\ step \in DOMAIN Races(race)
    /\ \E f \in Files(race) :
          /\ current[f] <= MaxReplaced
          /\ current' = [current EXCEPT ![f] = @ + 1]
    /\ UNCHANGED << race, step, handle, looked, used >>

RacesNext == LookAtName \/ LookAtHandle \/ OpenName \/ UseName \/ CallFails \/ Replace

RacesSpec == RacesInit /\ [][RacesNext]_raceVars

-----------------------------------------------------------------------------

(* A function the rule does not report is right about the file it uses, however
   often the other process puts another one under its name: what it looked at is
   what it opened. *)
UnreportedLooksAtItsFile ==
    ~ReportedRace(race) =>
       \A f \in Files(race) : looked[f] # 0 /\ used[f] # {} => used[f] = {looked[f]}
=============================================================================
