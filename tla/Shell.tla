------------------------------- MODULE Shell -------------------------------
(***************************************************************************)
(* The main loop of src/src/hardened_shell.c, its child process and the     *)
(* standard input the two share.                                            *)
(*                                                                          *)
(* Standard input is pieces of text, numbered from 1; a newline may end any *)
(* of them, so a line is one piece or several.  The kernel keeps one offset *)
(* for the shell and for every child, because fork shares the open file;    *)
(* stdio reads ahead, so the shell holds the pieces bufpos+1..bufend in     *)
(* memory while the shared offset is already behind them.  A block of stdio *)
(* and what a command reads may both end in the middle of a line.           *)
(***************************************************************************)
EXTENDS HistoryRing, Lists, FiniteSets

CONSTANT FirstSize   \* pieces that fit the buffer getline starts with (120 bytes in glibc)

ASSUME FirstSizeAssumption == FirstSize \in Nat \ {0}

VARIABLES
    pc,              \* where main is
    input_buffer,    \* the line getline left in input_buffer
    buffer_size,     \* size_t buffer_size, in pieces: 0 while input_buffer is NULL
    dirty,           \* how far into input_buffer typed text was ever written
    outgrown,        \* ghost: a buffer with typed text was left for a larger one
    args,            \* parsed_args up to its NULL terminator
    status,          \* the exit status
    offset,          \* pieces of stdin behind the shared file offset
    bufpos, bufend,  \* stdio's buffer: the pieces bufpos+1 .. bufend
    taken,           \* pieces getline has stored of a line it has not returned
    child,           \* the command started by execute_command
    sigchldIgnored,  \* SIGCHLD was inherited as ignored: children reap themselves
    typed,           \* ghost: the lines getline returned, with their pieces
    childRead,       \* ghost: the pieces commands read from stdin
    readFailed       \* ghost: getline failed for a reason other than end of file

inputVars  == << offset, bufpos, bufend, taken, typed, childRead >>
bufferVars == << buffer_size, dirty, outgrown >>
childVars  == << child, sigchldIgnored >>
mainVars   == << input_buffer, args, status, readFailed >>

shellVars == << ringVars, pc, inputVars, bufferVars, childVars, mainVars >>

ShellInit ==
    /\ RingInit
    /\ pc = "start"
    /\ input_buffer = NoText /\ args = << >> /\ status = 0 /\ readFailed = FALSE
    /\ buffer_size = 0 /\ dirty = 0 /\ outgrown = FALSE
    /\ offset = 0 /\ bufpos = 0 /\ bufend = 0 /\ taken = {}
    /\ typed = << >> /\ childRead = {}
    /\ child = "none" /\ sigchldIgnored \in BOOLEAN

Goto(from, to) == pc = from /\ pc' = to

-----------------------------------------------------------------------------
(* main: reading a line                                                     *)

Start ==
    /\ pc = "start"
    /\ HistoryInit
    /\ pc' = IF phase' = "running" THEN "prompt" ELSE "done"
    /\ status' = IF phase' = "running" THEN status ELSE 1
    /\ UNCHANGED << inputVars, bufferVars, childVars, input_buffer, args, readFailed >>

Larger(m, n) == IF m > n THEN m ELSE n

(* The buffer getline needs for a line of n pieces: at least twice the old one. *)
Grown(n) ==
    LET size == IF buffer_size = 0 THEN FirstSize ELSE buffer_size
    IN  IF n <= size THEN size ELSE Larger(n, 2 * size)

(* getline copies stdio's buffer up to piece number to.  A larger block may be a
   different one: realloc then frees the old one with the text in it. *)
StoreUpTo(to) ==
    LET n == Cardinality(taken \cup (bufpos + 1 .. to))
    IN  /\ bufpos' = to
        /\ buffer_size' = Grown(n)
        /\ dirty' = Larger(dirty, n)
        /\ \E moves \in BOOLEAN :
              outgrown' = (outgrown \/ (moves /\ n > buffer_size /\ dirty > 0))

(* A loop that handles empty lines like any other. *)
ReturnLineKeepsEmpty(pieces, l) ==
    /\ input_buffer' = l
    /\ typed' = Append(typed, [pieces |-> pieces, line |-> l])
    /\ taken' = {}
    /\ pc' = "record"
    /\ UNCHANGED << ringVars, offset, bufend, childVars, childRead, args, status, readFailed >>

(* getline returns the line l made of these pieces; an empty line is dropped. *)
ReturnLine(pieces, l) ==
    /\ input_buffer' = l
    /\ typed' = Append(typed, [pieces |-> pieces, line |-> l])
    /\ taken' = {}
    /\ pc' = IF StrLen[l] = 0 THEN "prompt" ELSE "record"
    /\ UNCHANGED << ringVars, offset, bufend, childVars, childRead, args, status, readFailed >>

(* There is a newline in stdio's buffer. *)
GetlineLine(l) ==
    /\ pc = "prompt"
    /\ \E to \in bufpos + 1 .. bufend :
          StoreUpTo(to) /\ ReturnLine(taken \cup (bufpos + 1 .. to), l)

(* There is none: the buffer is taken as it is. *)
GetlineTakes ==
    /\ pc = "prompt"
    /\ bufpos < bufend
    /\ StoreUpTo(bufend)
    /\ taken' = taken \cup (bufpos + 1 .. bufend)
    /\ UNCHANGED << ringVars, pc, offset, bufend, typed, childRead, childVars, mainVars >>

(* stdio reads a block of k pieces at the shared offset.  Bound: stdin has at
   most MaxCommands pieces. *)
GetlineRefill ==
    /\ pc = "prompt"
    /\ bufpos = bufend
    /\ \E k \in 1 .. MaxCommands - offset : offset' = offset + k /\ bufend' = offset + k
    /\ bufpos' = offset
    /\ UNCHANGED << ringVars, pc, bufferVars, taken, typed, childRead, childVars, mainVars >>

(* The input ends, or a read fails, after text without a newline. *)
GetlineRest(l) ==
    /\ pc = "prompt"
    /\ bufpos = bufend
    /\ taken # {}
    /\ ReturnLine(taken, l)
    /\ UNCHANGED << bufpos, bufferVars >>

(* A -1 from getline always taken for a failure. *)
GetlineEofAsFailure ==
    /\ Goto("prompt", "cleanup")
    /\ bufpos = bufend /\ taken = {}
    /\ status' = 1
    /\ UNCHANGED << ringVars, inputVars, bufferVars, childVars, input_buffer, args, readFailed >>

GetlineEof ==
    /\ Goto("prompt", "cleanup")
    /\ bufpos = bufend /\ taken = {}
    /\ UNCHANGED << ringVars, inputVars, bufferVars, childVars, mainVars >>

(* A read error, or no memory for the line: getline is -1 without feof, and what
   it had stored of the line stays in input_buffer. *)
GetlineFails ==
    /\ Goto("prompt", "cleanup")
    /\ status' = 1 /\ readFailed' = TRUE
    /\ UNCHANGED << ringVars, inputVars, bufferVars, childVars, input_buffer, args >>

-----------------------------------------------------------------------------
(* main: handling the line                                                  *)

(* Recording only what parse_input accepts. *)
RecordParsed ==
    /\ pc = "record"
    /\ IF ParseInput(input_buffer).ok
       THEN RecordHistory(input_buffer) ELSE UNCHANGED ringVars
    /\ pc' = IF phase' = "running" THEN "parse" ELSE "done"
    /\ status' = IF phase' = "running" THEN status ELSE 1
    /\ UNCHANGED << inputVars, bufferVars, childVars, input_buffer, args, readFailed >>

Record ==
    /\ pc = "record"
    /\ RecordHistory(input_buffer)
    /\ pc' = IF phase' = "running" THEN "parse" ELSE "done"
    /\ status' = IF phase' = "running" THEN status ELSE 1
    /\ UNCHANGED << inputVars, bufferVars, childVars, input_buffer, args, readFailed >>

(* parse_input, and "too many arguments" when it fails. *)
Parse ==
    LET parsed == ParseInput(input_buffer)
    IN  /\ pc = "parse"
        /\ args' = IF parsed.ok THEN parsed.args ELSE << >>
        /\ pc' = IF parsed.ok THEN "dispatch" ELSE "prompt"
        /\ UNCHANGED << ringVars, inputVars, bufferVars, childVars, input_buffer, status, readFailed >>

BuiltinExit ==
    /\ Goto("dispatch", "cleanup")
    /\ IsCommand(args, "exit")
    /\ UNCHANGED << ringVars, inputVars, bufferVars, childVars, mainVars >>

BuiltinHistory ==
    /\ Goto("dispatch", "prompt")
    /\ IsCommand(args, "history")
    /\ ShowHistory
    /\ UNCHANGED << inputVars, bufferVars, childVars, mainVars >>

BuiltinRecall ==
    /\ Goto("dispatch", "prompt")
    /\ Recall(args)
    /\ UNCHANGED << inputVars, bufferVars, childVars, mainVars >>

IsBuiltin(a) == \E b \in {"exit", "history", "recall"} : IsCommand(a, b)

(* BUILTIN_NONE: execute_command returns at once for a blank line. *)
BuiltinNone ==
    /\ pc = "dispatch"
    /\ ~IsBuiltin(args)
    /\ pc' = IF args = << >> THEN "prompt" ELSE "execute"
    /\ UNCHANGED << ringVars, inputVars, bufferVars, childVars, mainVars >>

-----------------------------------------------------------------------------
(* execute_command, in the shell                                            *)

Fork ==
    /\ Goto("execute", "wait")
    /\ child' = "forked"
    /\ UNCHANGED << ringVars, inputVars, bufferVars, mainVars, sigchldIgnored >>

ForkFails ==
    /\ Goto("execute", "prompt")
    /\ UNCHANGED << ringVars, inputVars, bufferVars, childVars, mainVars >>

(* waitpid blocks until the child has ended, and reaps it. *)
WaitReturns ==
    /\ Goto("wait", "prompt")
    /\ child = "zombie"
    /\ child' = "none"
    /\ UNCHANGED << ringVars, inputVars, bufferVars, mainVars, sigchldIgnored >>

(* A loop that repeats waitpid whatever the error. *)
WaitNoChildLoops ==
    /\ Goto("wait", "wait")
    /\ child = "none"
    /\ UNCHANGED << ringVars, inputVars, bufferVars, childVars, mainVars >>

(* With SIGCHLD ignored there is no status to collect: waitpid blocks until
   the child is gone, then fails with ECHILD, and the loop breaks. *)
WaitNoChild ==
    /\ Goto("wait", "prompt")
    /\ child = "none"
    /\ UNCHANGED << ringVars, inputVars, bufferVars, childVars, mainVars >>

(* A signal arrives first: waitpid is -1 with EINTR ... *)
WaitInterrupted ==
    /\ Goto("wait", "eintr")
    /\ child # "none"
    /\ UNCHANGED << ringVars, inputVars, bufferVars, childVars, mainVars >>

(* An interrupted wait taken for the end of the command. *)
GiveUpWait ==
    /\ Goto("eintr", "prompt")
    /\ UNCHANGED << ringVars, inputVars, bufferVars, childVars, mainVars >>

(* ... and the loop calls it again. *)
RetryWait ==
    /\ Goto("eintr", "wait")
    /\ UNCHANGED << ringVars, inputVars, bufferVars, childVars, mainVars >>

-----------------------------------------------------------------------------
(* execute_command, in the child, and the program it becomes                *)

Ended == IF sigchldIgnored THEN "none" ELSE "zombie"

ChildExec ==
    /\ child = "forked"
    /\ child' = "running"
    /\ UNCHANGED << ringVars, pc, inputVars, bufferVars, mainVars, sigchldIgnored >>

(* The child ends with exit(): its copy of stdio gives what it had read ahead
   back to the shared offset. *)
ChildExitsThroughStdio ==
    /\ child = "forked"
    /\ child' = Ended
    /\ offset' = offset - (bufend - bufpos)
    /\ UNCHANGED << ringVars, pc, bufferVars, bufpos, bufend, taken, typed, childRead, mainVars, sigchldIgnored >>

(* execvp fails: _exit(127) leaves the shared offset alone. *)
ChildExecFails ==
    /\ child = "forked"
    /\ child' = Ended
    /\ UNCHANGED << ringVars, pc, inputVars, bufferVars, mainVars, sigchldIgnored >>

(* The program reads some of the stdin it inherited, whole lines or not. *)
ChildReads ==
    /\ child = "running"
    /\ \E k \in 1 .. MaxCommands - offset :
          /\ offset' = offset + k
          /\ childRead' = childRead \cup (offset + 1 .. offset + k)
    /\ UNCHANGED << ringVars, pc, bufferVars, bufpos, bufend, taken, typed, childVars, mainVars >>

ChildExits ==
    /\ child = "running"
    /\ child' = Ended
    /\ UNCHANGED << ringVars, pc, inputVars, bufferVars, mainVars, sigchldIgnored >>

-----------------------------------------------------------------------------

(* An end that wipes input_buffer up to its terminator, as wipe_and_free does. *)
CleanupToTerminator ==
    /\ Goto("cleanup", "done")
    /\ ReleaseAll
    /\ dirty' = LET n == IF typed = << >> THEN 0 ELSE Cardinality(typed[Len(typed)].pieces)
                IN  IF dirty > n THEN dirty ELSE 0
    /\ UNCHANGED << inputVars, buffer_size, outgrown, childVars, mainVars >>

(* The end of main: input_buffer is wiped over its whole size. *)
Cleanup ==
    /\ Goto("cleanup", "done")
    /\ ReleaseAll
    /\ dirty' = IF dirty > buffer_size THEN dirty ELSE 0
    /\ UNCHANGED << inputVars, buffer_size, outgrown, childVars, mainVars >>

Getline == \/ \E l \in Line : GetlineLine(l) \/ GetlineRest(l)
           \/ GetlineTakes \/ GetlineRefill
           \/ GetlineEof
           \/ GetlineFails

Dispatch == BuiltinExit \/ BuiltinHistory \/ BuiltinRecall \/ BuiltinNone

MainStep ==
    \/ Start \/ Getline \/ Record \/ Parse \/ Dispatch
    \/ Fork \/ ForkFails \/ WaitReturns \/ WaitNoChild \/ WaitInterrupted \/ RetryWait
    \/ Cleanup

ChildStep == ChildExec \/ ChildExecFails \/ ChildReads \/ ChildExits

ShellNext == MainStep \/ ChildStep

ShellSpec == ShellInit /\ [][ShellNext]_shellVars

(* The shell and the code it runs between fork and exec are scheduled; a
   waitpid that could return is not interrupted by signals for ever.  Nothing
   is assumed of the programs users run. *)
ShellFairness ==
    /\ WF_shellVars(MainStep)
    /\ SF_shellVars(WaitReturns \/ WaitNoChild)
    /\ WF_shellVars(ChildExec \/ ChildExecFails)

FairShellSpec == ShellSpec /\ ShellFairness

-----------------------------------------------------------------------------

(* Type correctness of the variables the shell adds. *)
ShellTypeOK ==
    /\ pc \in {"start", "prompt", "record", "parse", "dispatch", "execute", "wait",
               "eintr", "cleanup", "done"}
    /\ input_buffer \in Line \cup {NoText}
    /\ args \in Seq(Word)
    /\ status \in {0, 1}
    /\ buffer_size \in Nat /\ dirty \in Nat /\ outgrown \in BOOLEAN
    /\ offset \in Nat /\ bufpos \in Nat /\ bufend \in Nat /\ taken \subseteq Nat
    /\ child \in {"none", "forked", "running", "zombie"}
    /\ sigchldIgnored \in BOOLEAN
    /\ typed \in Seq([pieces: SUBSET Nat, line: Line])
    /\ childRead \subseteq Nat
    /\ readFailed \in BOOLEAN

ReadByShell == taken \cup UNION { typed[i].pieces : i \in DOMAIN typed }
ReadAhead   == bufpos + 1 .. bufend

(* Every piece of text behind the shared offset has exactly one owner: the shell
   has taken it for a line, a command has read it, or it waits in stdio's buffer;
   and the shell takes its own in order.  So nothing is replayed, nothing is lost,
   and a line that getline returns lacks only what a command took out of its
   middle: that a line may be shared like this is what stdio's blocks allow, that
   none of it comes twice is what execute_command's _exit(127) keeps. *)
InputPartition ==
    /\ ReadByShell \cup childRead \cup ReadAhead = 1 .. offset
    /\ ReadByShell \cap childRead = {}
    /\ ReadByShell \cap ReadAhead = {}
    /\ childRead \cap ReadAhead = {}
    /\ \A i \in DOMAIN typed : \A p \in typed[i].pieces :
          /\ \A q \in taken : p < q
          /\ \A j \in DOMAIN typed : i < j => \A q \in typed[j].pieces : p < q

(* A command never overlaps the prompt: while it lives, or its status waits to
   be collected, the shell is inside the waitpid loop of execute_command. *)
CommandAlone == child # "none" => pc \in {"wait", "eintr"}

(* The words handed to execvp are all the words of the line returned last, they
   fit in parsed_args with their NULL, and no builtin reaches fork. *)
RunsWhatWasTyped ==
    pc \in {"execute", "wait", "eintr"} =>
       /\ args = Words[typed[Len(typed)].line]
       /\ Len(args) \in 1 .. MAX_ARGS - 1
       /\ ~IsBuiltin(args)

(* The history records every non-empty line as getline returned it, in order,
   also the lines that are then refused for too many arguments. *)
RecordsWhatWasTyped ==
    LET Lines    == [i \in DOMAIN typed |-> typed[i].line]
        Nonempty == Keep(Lines, {l \in Line : StrLen[l] > 0})
        Pending  == pc = "record" \/ (phase = "failed" /\ typed # << >>)
    IN  Nonempty = IF Pending THEN Append(log, input_buffer) ELSE log

(* The shell reports failure exactly when input could not be read or memory
   could not be had; end of file, "exit", and commands that fail do not count
   (shell_test.sh asserts status 1 on an unreadable stdin). *)
StatusTellsFailure ==
    pc = "done" => (status = 1 <=> readFailed \/ phase = "failed")

(* After a normal end no child is left, and no typed text in what main owns: not
   in the ring, not in last_command, and not in input_buffer, though earlier lines
   reach further into it than the last one and strtok_r cut that one short.  Two
   things nothing wipes: stdio's own buffer, and the buffers getline released while
   growing (README.md:158), which there are only when a line did not fit the first. *)
NothingLeft ==
    pc = "done" /\ phase = "exited" =>
       /\ dirty = 0 /\ last_command = NoText
       /\ \A a \in Addr : heap[a] = [live |-> FALSE, holds |-> NoText]
       /\ child = "none"
       /\ outgrown => buffer_size > FirstSize

(* The session ends when its input does, unless a command runs for ever. *)
EndsOrCommandRuns == <>(pc = "done") \/ <>[](child = "running")
=============================================================================
