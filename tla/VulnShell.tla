------------------------------ MODULE VulnShell ------------------------------
(***************************************************************************)
(* The vulnerable version of the shell, docs/vuln_shell_annotated.c, with   *)
(* its four planted defects: the copy of src/vuln_shell.c.bak that the gate *)
(* is tested on.  Standard input is a fixed list of lines, as in the gate's *)
(* dynamic runs (< tests/vuln_shell_commands.txt); each is cut into pieces, *)
(* because a block of stdio, or what a command reads, may end inside it.    *)
(* Heap blocks are named by the turn of the strdup that returned them,      *)
(* since none is ever freed.                                                *)
(***************************************************************************)
EXTENDS CommandLine

CONSTANTS
    Inputs,      \* the files and pipes that may stand behind stdin
    TestInput,   \* tests/vuln_shell_commands.txt
    Directive,   \* word name -> what printf makes of it as a format
    Garbage,     \* what malloc may leave in the flags
    PIECES,      \* bound: pieces of one line, the last with its newline
    BlockSize,   \* pieces in a block of stdio
    Fragments,   \* bound: what a part of a line, or parts of several, may read
    MaxTyped     \* bound: lines handled in a session with a rewind

ASSUME InputsAssumption ==
    /\ PIECES \in Nat \ {0} /\ BlockSize \in Nat \ {0}
    /\ Fragments \subseteq Line
    /\ Inputs \subseteq [lines: Seq(Line), seekable: BOOLEAN]
    /\ [lines |-> TestInput, seekable |-> TRUE] \in Inputs
    /\ Garbage \subseteq [Slot -> {0, 1}]

VARIABLES
    stdin,           \* the lines of standard input
    seekable,        \* stdin is a file, not a pipe
    offset,          \* pieces behind the file offset shared with children
    bufpos, bufend,  \* stdio's buffer: pieces bufpos+1 .. bufend
    taken,           \* pieces getline has stored of a line it has not returned
    spliced,         \* they are not neighbours in the file
    typed,           \* the lines getline returned, with their pieces
    childRead,       \* ghost: the pieces commands read
    pc,              \* where main is
    args,            \* parsed_args up to its NULL
    child,           \* the command execute_command waits for
    slot_used,       \* int* slot_used
    history,         \* char* history[]: turn of the block, 0 for NULL
    blocks,          \* turn -> the text strdup copied, NoText when it failed
    last_command,    \* char last_command[HISTORY_SIZE]
    out,             \* the last answer of a builtin
    asked,           \* ghost: the words of the recall it answers
    branched,        \* ghost: recalls that tested a flag nothing had written
    rewound          \* ghost: a child gave buffered text back

inputVars == << stdin, seekable, offset, bufpos, bufend, taken, spliced, typed, childRead, rewound >>
tableVars == << slot_used, history, blocks, last_command >>
replyVars == << out, asked, branched >>
vulnVars  == << inputVars, pc, args, child, tableVars, replyVars >>

Input == typed[Len(typed)].line         \* input_buffer
history_count == Len(blocks)

Ends(n)  == PIECES * n                  \* the newline of line n
Newlines == { Ends(n) : n \in DOMAIN stdin }
Total    == Ends(Len(stdin))

Goto(from, to) == pc = from /\ pc' = to

VulnInit ==
    /\ \E f \in Inputs : stdin = f.lines /\ seekable = f.seekable
    /\ offset = 0 /\ bufpos = 0 /\ bufend = 0 /\ taken = {} /\ spliced = FALSE
    /\ typed = << >> /\ childRead = {} /\ rewound = FALSE
    /\ pc = "start" /\ args = << >> /\ child = "none"
    /\ slot_used = NULL /\ history = [s \in Slot |-> 0] /\ blocks = << >>
    /\ last_command = NoText
    /\ out = Say("none") /\ asked = << >> /\ branched = {}

-----------------------------------------------------------------------------
(* history_init: the flags hold whatever malloc found in memory (C4); exit
   when there is none. *)
HistoryInit ==
    /\ pc = "start"
    /\ \/ slot_used' \in Garbage /\ pc' = "prompt"
       \/ slot_used' = NULL /\ pc' = "done"
    /\ UNCHANGED << inputVars, args, child, history, blocks, last_command, replyVars >>

(* A main that records a line after it is answered. *)
AfterLineUnrecorded(l) == IF StrLen[l] = 0 THEN "prompt" ELSE "parse"

(* An empty line goes back to the prompt, any other is recorded first. *)
AfterLine(l) == IF StrLen[l] = 0 THEN "prompt" ELSE "record"

(* What these pieces read: a whole line of the file is itself, a part of one, or
   parts of several, another line. *)
MayRead(pieces, l) ==
    LET Whole == { n \in DOMAIN stdin : ~spliced /\ pieces = Ends(n - 1) + 1 .. Ends(n) }
    IN  IF Whole = {} THEN l \in Fragments ELSE \A n \in Whole : l = stdin[n]

ReturnLine(pieces, l) ==
    /\ MayRead(pieces, l)
    /\ typed' = Append(typed, [pieces |-> pieces, line |-> l])
    /\ taken' = {} /\ spliced' = FALSE
    /\ pc' = AfterLine(l)
    /\ UNCHANGED << stdin, seekable, offset, bufend, childRead, rewound, args, child, tableVars, replyVars >>

(* getline: stdio's buffer up to its first newline. *)
GetlineLine(l) ==
    /\ pc = "prompt"
    /\ \E to \in Newlines \cap (bufpos + 1 .. bufend) :
          /\ Newlines \cap (bufpos + 1 .. to - 1) = {}
          /\ bufpos' = to
          /\ ReturnLine(taken \cup (bufpos + 1 .. to), l)

(* There is none: the buffer is taken as it is. *)
GetlineTakes ==
    /\ pc = "prompt"
    /\ bufpos < bufend
    /\ Newlines \cap (bufpos + 1 .. bufend) = {}
    /\ bufpos' = bufend
    /\ taken' = taken \cup (bufpos + 1 .. bufend)
    /\ UNCHANGED << stdin, seekable, offset, bufend, spliced, typed, childRead, rewound, pc, args, child,
                    tableVars, replyVars >>

(* What a read of n pieces or less may give: a file gives what it has, a pipe any
   part of it. *)
Block(n) == { k \in 1 .. n : k <= BlockSize /\ (seekable => k \in {n, BlockSize}) }

(* stdio reads a block at the shared offset, which a command may have moved away
   from the text in hand. *)
GetlineRefill ==
    /\ pc = "prompt"
    /\ bufpos = bufend
    /\ \E k \in Block(Total - offset) : offset' = offset + k /\ bufend' = offset + k
    /\ bufpos' = offset
    /\ spliced' = (spliced \/ (taken # {} /\ offset # bufpos))
    /\ UNCHANGED << stdin, seekable, taken, typed, childRead, rewound, pc, args, child, tableVars, replyVars >>

(* The input ends, or a read fails, after text without a newline. *)
GetlineRest(l) ==
    /\ pc = "prompt"
    /\ bufpos = bufend
    /\ taken # {}
    /\ ReturnLine(taken, l)
    /\ UNCHANGED bufpos

(* A failed getline that is tried again. *)
GetlineFailsRetried == Goto("prompt", "prompt") /\ UNCHANGED vulnVars

(* getline is -1 at the end of the input, or on an error: the loop is left,
   and the status is 0 either way. *)
GetlineFails ==
    /\ Goto("prompt", "cleanup")
    /\ UNCHANGED << inputVars, args, child, tableVars, replyVars >>

(* A strdup that stores nothing when the slot is taken. *)
StoreFirst(turn) == [history EXCEPT ![(turn - 1) % HISTORY_SLOTS] = IF @ = 0 THEN turn ELSE @]

(* history[slot] = strdup(input): what the slot held before is forgotten (C3). *)
Store(turn) == [history EXCEPT ![(turn - 1) % HISTORY_SLOTS] = turn]

(* record_history: strcpy has no bound, so nothing is known of the process
   once a line and its terminator do not fit in last_command (C1); a strdup
   that fails leaves NULL in the slot, and the flag says it is used. *)
RecordHistory ==
    LET turn == history_count + 1
        slot == history_count % HISTORY_SLOTS
    IN  /\ pc = "record"
        /\ IF StrLen[Input] >= HISTORY_SIZE
           THEN pc' = "undefined" /\ UNCHANGED tableVars
           ELSE /\ pc' = "parse"
                /\ last_command' = FullText(Input)
                /\ slot_used' = [slot_used EXCEPT ![slot] = 1]
                /\ \/ blocks' = Append(blocks, Input) /\ history' = Store(turn)
                   \/ blocks' = Append(blocks, NoText) /\ history' = [history EXCEPT ![slot] = 0]
        /\ asked' = << >>
        /\ UNCHANGED << inputVars, args, child, out, branched >>

(* parse_input keeps the first MAX_ARGS - 1 words and drops the others. *)
Parse ==
    /\ Goto("parse", "dispatch")
    /\ args' = ParseInputTruncating(Input).args
    /\ UNCHANGED << inputVars, child, tableVars, replyVars >>

BuiltinExit ==
    /\ Goto("dispatch", "cleanup")
    /\ IsCommand(args, "exit")
    /\ UNCHANGED << inputVars, args, child, tableVars, replyVars >>

(* show_history: the first argument is the format (C2), and last_command the one
   argument it has: %s prints the command, %p where it is, a format without a
   directive itself, and nothing is known of the process after any other. *)
ShowHistory ==
    LET format == IF Len(args) < 2 THEN "command" ELSE Directive[args[2].name]
    IN  /\ pc = "dispatch"
        /\ IsCommand(args, "history")
        /\ pc' = IF format = "other" THEN "undefined" ELSE "prompt"
        /\ out' = CASE format = "command" -> SayText(last_command)
                    [] format = "plain"   -> Say("literal")
                    [] format = "address" -> Say("memory")
                    [] OTHER              -> out
        /\ UNCHANGED << inputVars, args, child, tableVars, asked, branched >>

(* A recall that trusts the flag alone: there is no string to print. *)
SlotTextTrusting(n) ==
    IF slot_used[n] = 0 THEN Say("empty")
    ELSE IF history[n] = 0 THEN Say("memory") ELSE SayText(FullText(blocks[history[n]]))

(* The flag is tested first, then the pointer, which static storage zeroed. *)
SlotText(n) ==
    IF slot_used[n] = 0 \/ history[n] = 0 THEN Say("empty")
    ELSE SayText(FullText(blocks[history[n]]))

(* atoi: strtol cut to int. *)
Atoi(w) == IntCast(StrToL(w).value)

(* A recall that looks at the pointer first: the flag is then never read early. *)
RecallPointerFirst ==
    LET n == IF Len(args) < 2 THEN 0 ELSE Atoi(args[2])
    IN  /\ Goto("dispatch", "prompt")
        /\ IsCommand(args, "recall")
        /\ out' = IF n \in Slot THEN SlotText(n) ELSE Say("range")
        /\ asked' = args
        /\ UNCHANGED << inputVars, args, child, tableVars, branched >>

RecallSlot ==
    LET n == IF Len(args) < 2 THEN 0 ELSE Atoi(args[2])
    IN  /\ Goto("dispatch", "prompt")
        /\ IsCommand(args, "recall")
        /\ out' = IF n \in Slot THEN SlotText(n) ELSE Say("range")
        /\ branched' = IF n \in Slot /\ n >= history_count
                       THEN branched \cup {[slot |-> n, after |-> history_count]} ELSE branched
        /\ asked' = args
        /\ UNCHANGED << inputVars, args, child, tableVars >>

IsBuiltin == \E b \in {"exit", "history", "recall"} : IsCommand(args, b)

(* execute_command: a blank line is no command; fork, or exit(EXIT_FAILURE). *)
Execute ==
    /\ pc = "dispatch" /\ ~IsBuiltin
    /\ \/ args = << >> /\ pc' = "prompt" /\ UNCHANGED child
       \/ args # << >> /\ pc' = "wait" /\ child' = "forked"
       \/ args # << >> /\ pc' = "done" /\ UNCHANGED child
    /\ UNCHANGED << inputVars, args, tableVars, replyVars >>

(* waitpid(pid, NULL, 0), its result ignored: with no signal handler it comes
   back only when the child is gone. *)
WaitReturns ==
    /\ Goto("wait", "prompt")
    /\ child = "ended" /\ child' = "none"
    /\ UNCHANGED << inputVars, args, tableVars, replyVars >>

ChildExec ==
    /\ child = "forked" /\ child' = "running"
    /\ UNCHANGED << inputVars, pc, args, tableVars, replyVars >>

(* execvp fails and the child calls exit(): its stdio moves the shared offset
   back over what it had buffered, when the file allows it. *)
ChildExecFails ==
    LET back == offset - (bufend - bufpos)
    IN  /\ child = "forked" /\ child' = "ended"
        /\ offset' = IF seekable /\ back >= 0 THEN back ELSE offset
        /\ rewound' = (rewound \/ offset' # offset)
        /\ UNCHANGED << stdin, seekable, bufpos, bufend, taken, spliced, typed, childRead, pc, args, tableVars,
                        replyVars >>

(* A command with an offset of its own, as after opening the file again. *)
ChildReadsReopened ==
    /\ child = "running"
    /\ \E k \in 1 .. Total - offset : childRead' = childRead \cup (offset + 1 .. offset + k)
    /\ UNCHANGED << stdin, seekable, offset, bufpos, bufend, taken, spliced, typed, rewound, pc, args, child,
                    tableVars, replyVars >>

(* The command reads some of the input, whole lines or not. *)
ChildReads ==
    /\ child = "running"
    /\ \E k \in 1 .. Total - offset :
          /\ offset' = offset + k
          /\ childRead' = childRead \cup (offset + 1 .. offset + k)
    /\ UNCHANGED << stdin, seekable, bufpos, bufend, taken, spliced, typed, rewound, pc, args, child,
                    tableVars, replyVars >>

ChildExits ==
    /\ child = "running" /\ child' = "ended"
    /\ UNCHANGED << inputVars, pc, args, tableVars, replyVars >>

(* The end of main frees input_buffer and slot_used, and no history string. *)
Cleanup ==
    /\ Goto("cleanup", "done")
    /\ slot_used' = NULL
    /\ UNCHANGED << inputVars, args, child, history, blocks, last_command, replyVars >>

Getline == \/ \E l \in Line : GetlineLine(l) \/ GetlineRest(l)
           \/ GetlineTakes \/ GetlineRefill

MainStep == \/ HistoryInit \/ Getline \/ GetlineFails \/ RecordHistory \/ Parse
            \/ BuiltinExit \/ ShowHistory \/ RecallSlot \/ Execute \/ WaitReturns \/ Cleanup

(* Bound: after a rewind the same lines may come again and again; behaviours
   are followed up to MaxTyped of them. *)
VulnNext ==
    /\ rewound => Len(typed) <= MaxTyped
    /\ MainStep \/ ChildExec \/ ChildExecFails \/ ChildReads \/ ChildExits

VulnSpec == VulnInit /\ [][VulnNext]_vulnVars

(* As for Shell: the shell and the code between fork and exec are scheduled. *)
FairVulnSpec ==
    VulnSpec /\ WF_vulnVars(VulnNext /\ MainStep) /\ WF_vulnVars(VulnNext /\ (ChildExec \/ ChildExecFails))

-----------------------------------------------------------------------------

(* Line n of the test input asks for a slot that no line up to it has taken. *)
ReadsFlag(n) ==
    LET words == ParseInputTruncating(TestInput[n]).args
    IN  IsCommand(words, "recall") /\ Len(words) >= 2 /\ Atoi(words[2]) \in n .. HISTORY_SLOTS - 1

(* What tests/vuln_shell_commands.txt is written for: no line is empty or too
   long, no format but %s, %p and plain text is tried, one early recall reads a
   flag, and the ring comes round. *)
ASSUME TestInputAssumption ==
    /\ Len(TestInput) > HISTORY_SLOTS
    /\ \A n \in DOMAIN TestInput : StrLen[TestInput[n]] \in 1 .. HISTORY_SIZE - 1
    /\ \A n \in DOMAIN TestInput :
          LET words == ParseInputTruncating(TestInput[n]).args
          IN  IsCommand(words, "history") /\ Len(words) >= 2 => Directive[words[2].name] # "other"
    /\ \E n \in 1 .. Len(TestInput) - 1 : ReadsFlag(n)

(* The blocks no pointer reaches: what both leak checkers call lost. *)
Lost == { k \in 1 .. history_count : blocks[k] # NoText /\ \A s \in Slot : history[s] # k }

(* C3: a block is lost exactly when its slot came round again, so nothing is
   lost in a session of HISTORY_SLOTS lines, and a block still in the ring at
   the end is reachable, which is why the test input has to wrap the ring. *)
LostIffOverwritten ==
    Lost = { k \in 1 .. history_count : blocks[k] # NoText /\ k + HISTORY_SLOTS <= history_count }

(* C4 shows to no test of the answers: whatever malloc left in the flags, recall
   says what the last strdup of that turn stored, and "empty" for a slot that
   no command reached. *)
RecallIgnoresGarbage ==
    asked # << >> =>
      LET n     == IF Len(asked) < 2 THEN 0 ELSE Atoi(asked[2])
          Turns == { k \in 1 .. history_count : (k - 1) % HISTORY_SLOTS = n }
      IN  n \in Slot => \/ out = Say("empty") /\ \A k \in Turns : k + HISTORY_SLOTS > history_count => blocks[k] = NoText
                        \/ \E k \in Turns : /\ k + HISTORY_SLOTS > history_count
                                            /\ blocks[k] # NoText
                                            /\ out = SayText(FullText(blocks[k]))

(* C4 can be seen only early: the recall is recorded before it is answered, so
   the flag read is an unwritten one only while the ring has not filled, and
   never that of slot 0, which a recall with no argument asks for. *)
GarbageReadOnlyEarly ==
    \A b \in branched : b.after \in 1 .. b.slot /\ b.slot # 0

(* No command has taken any of the input, none gave any back, and no failed read
   cut a line short. *)
Undisturbed ==
    /\ childRead = {} /\ ~rewound
    /\ \A i \in DOMAIN typed : typed[i].pieces \cap Newlines # {}

(* The engine matrix of docs/security-report-v2-vulnerable.md, on the gate's own
   input: C1 is not triggered, C3 loses the first blocks, C4 is read, and the
   last lines stay reachable.  Runs where memory, fork, the read or the command
   fails, or the command eats the input, are not what the matrix describes. *)
EngineMatrix ==
    stdin = TestInput /\ Undisturbed =>
      /\ pc # "undefined"
      /\ pc = "done" /\ Len(typed) = Len(TestInput)
           /\ (\A k \in DOMAIN blocks : blocks[k] # NoText)
           /\ IsCommand(args, "exit")
         => /\ Lost = 1 .. Len(TestInput) - HISTORY_SLOTS
            /\ branched # {}

(* No text is handled twice, nor what a command read, unless a command that could
   not be run gave buffered text back (exit() where the hardened shell has
   _exit()).  A line may then still be shared: a block that ends inside it leaves
   its tail to the command.  Undisturbed, the lines handled are the file's own,
   one by one, wherever the blocks end. *)
ReplayOnlyAfterRewind ==
    /\ ~rewound =>
         /\ \A i, j \in DOMAIN typed : i < j =>
               \A p \in typed[i].pieces : \A q \in typed[j].pieces : p < q
         /\ \A i \in DOMAIN typed : typed[i].pieces \cap childRead = {}
    /\ Undisturbed => \A i \in DOMAIN typed : i \in DOMAIN stdin /\ typed[i].line = stdin[i]

(* The session ends unless a command runs for ever, nothing is known of the
   process any more, or text was given back: that may come again for ever. *)
EndsUnlessRewound == <>(pc \in {"done", "undefined"} \/ rewound) \/ <>[](child = "running")
=============================================================================
