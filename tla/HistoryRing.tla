----------------------------- MODULE HistoryRing -----------------------------
(***************************************************************************)
(* The command history of src/src/hardened_shell.c: a ring of               *)
(* HISTORY_SLOTS heap strings, the slot_used flags, the next slot and the   *)
(* copy of the previous command that the "history" builtin prints.          *)
(*                                                                          *)
(* The heap is a set of blocks; a block is live between the strdup that     *)
(* returns it and the free, and keeps what was last stored in it until it   *)
(* is wiped.  malloc may return any block that is not live, in particular   *)
(* one just freed, and may fail at any call.                                *)
(***************************************************************************)
EXTENDS CommandLine

CONSTANTS
    Addr,         \* the heap blocks strdup may return
    MaxCommands   \* bound: lines recorded in one session

ASSUME AddrAssumption == NULL \notin Addr

ASSUME MaxCommandsAssumption == MaxCommands \in Nat

VARIABLES
    heap,          \* block -> whether it is live, and the text it holds
    history,       \* char* history[HISTORY_SLOTS]
    slot_used,     \* int* slot_used: NULL while it owns no array
    history_next,  \* int history_next
    last_command,  \* char last_command[HISTORY_SIZE]
    out,           \* the last answer printed by a builtin
    asked,         \* ghost: the words of the recall it answers, none for history
    phase,         \* the life of the process
    log            \* ghost: the lines recorded, oldest first

ringVars == << heap, history, slot_used, history_next, last_command, out, asked, phase, log >>

-----------------------------------------------------------------------------

RingInit ==
    /\ heap = [a \in Addr |-> [live |-> FALSE, holds |-> NoText]]
    /\ history = [s \in Slot |-> NULL]
    /\ slot_used = NULL
    /\ history_next = 0
    /\ last_command = NoText
    /\ out = Say("none") /\ asked = << >>
    /\ phase = "start"
    /\ log = << >>

(* history_init: calloc gives an array of zeros, or the process exits. *)
HistoryInit ==
    /\ phase = "start"
    /\ \/ slot_used' = [s \in Slot |-> 0] /\ phase' = "running"
       \/ slot_used' = NULL /\ phase' = "failed"
    /\ UNCHANGED << heap, history, history_next, last_command, out, asked, log >>

(* A free that leaves the text behind. *)
FreeOnly(h, p) == [a \in Addr |-> IF a = p THEN [h[a] EXCEPT !.live = FALSE] ELSE h[a]]

(* wipe_and_free(text); nothing for a null pointer. *)
WipeAndFree(h, p) ==
    [a \in Addr |-> IF a = p THEN [live |-> FALSE, holds |-> NoText] ELSE h[a]]

(* The slot written by the previous call of record_history. *)
PreviousSlot == (history_next + HISTORY_SLOTS - 1) % HISTORY_SLOTS

(* A ring that wraps a slot early, and the slot after history_next. *)
NextSlotEarly     == (history_next + 1) % (IF HISTORY_SLOTS = 1 THEN 1 ELSE HISTORY_SLOTS - 1)
NextSlot          == (history_next + 1) % HISTORY_SLOTS

(* The previous command is copied out before its slot can be reused: with a
   ring of one slot it is the very string freed below. *)
CopyPrevious ==
    LET previous == history[PreviousSlot]
    IN  last_command' = IF previous # NULL
                        THEN Snprintf(HISTORY_SIZE, FullText(heap[previous].holds))
                        ELSE last_command

(* record_history that stores the new string without freeing the old one. *)
RecordHistoryLeaking(l) ==
    /\ phase = "running"
    /\ CopyPrevious
    /\ \E a \in Addr :
          /\ ~heap[a].live
          /\ heap' = [heap EXCEPT ![a] = [live |-> TRUE, holds |-> l]]
          /\ history' = [history EXCEPT ![history_next] = a]
          /\ slot_used' = [slot_used EXCEPT ![history_next] = 1]
          /\ history_next' = NextSlot
          /\ log' = Append(log, l)
          /\ UNCHANGED << phase, out, asked >>

(* record_history(input) *)
RecordHistory(l) ==
    LET freed == WipeAndFree(heap, history[history_next])
    IN  /\ phase = "running"
        /\ CopyPrevious
        /\ UNCHANGED << out, asked >>
        /\ \/ \E a \in Addr :
                 /\ ~freed[a].live
                 /\ heap' = [freed EXCEPT ![a] = [live |-> TRUE, holds |-> l]]
                 /\ history' = [history EXCEPT ![history_next] = a]
                 /\ slot_used' = [slot_used EXCEPT ![history_next] = 1]
                 /\ history_next' = NextSlot
                 /\ log' = Append(log, l)
                 /\ UNCHANGED phase
           \/ /\ heap' = freed                       \* strdup failed: exit
              /\ history' = [history EXCEPT ![history_next] = NULL]
              /\ phase' = "failed"
              /\ UNCHANGED << slot_used, history_next, log >>

(* show_history *)
ShowHistory ==
    /\ phase = "running"
    /\ out' = SayText(last_command) /\ asked' = << >>
    /\ UNCHANGED << heap, history, slot_used, history_next, last_command, phase, log >>

(* recall_slot(slot) *)
RecallSlot(n) ==
    IF n < 0 \/ n >= HISTORY_SLOTS THEN Say("range")
    ELSE IF slot_used[n] = 0 \/ history[n] = NULL THEN Say("empty")
    ELSE SayText(FullText(heap[history[n]].holds))

(* The "recall" branch of dispatch_builtin: slot 0 unless an argument says. *)
Recall(args) ==
    /\ phase = "running"
    /\ IsCommand(args, "recall")
    /\ out' = IF Len(args) < 2 THEN RecallSlot(0)
              ELSE IF ParseInt(args[2]).ok THEN RecallSlot(ParseInt(args[2]).out)
              ELSE Say("number")
    /\ asked' = args
    /\ UNCHANGED << heap, history, slot_used, history_next, last_command, phase, log >>

(* The end of main, from the loop that frees the ring: the pointers stay in
   the array, but nothing reads them again. *)
ReleaseAll ==
    /\ phase = "running"
    /\ heap' = [a \in Addr |-> IF \E s \in Slot : history[s] = a
                               THEN WipeAndFree(heap, a)[a] ELSE heap[a]]
    /\ last_command' = NoText
    /\ slot_used' = NULL
    /\ phase' = "exited"
    /\ UNCHANGED << history, history_next, out, asked, log >>

RingNext ==
    \/ HistoryInit
    \/ \E l \in Line :
          \/ StrLen[l] > 0 /\ Len(log) < MaxCommands /\ RecordHistory(l)
          \/ Recall(Words[l])
    \/ ShowHistory
    \/ ReleaseAll

RingSpec == RingInit /\ [][RingNext]_ringVars

-----------------------------------------------------------------------------

(* Type correctness. *)
RingTypeOK ==
    /\ heap \in [Addr -> [live: BOOLEAN, holds: Line \cup {NoText}]]
    /\ history \in [Slot -> Addr \cup {NULL}]
    /\ slot_used \in [Slot -> {0, 1}] \cup {NULL}
    /\ history_next \in Slot
    /\ last_command \in Text \cup {NoText}
    /\ out \in Answer /\ asked \in Seq(Word)
    /\ phase \in {"start", "running", "exited", "failed"}
    /\ log \in Seq(Line)

Held == { s \in Slot : history[s] # NULL }

(* While the shell runs, the slots own the live heap blocks, one each: nothing
   leaks when the ring wraps over a slot, no slot points to a freed block and
   no two slots share one (record_history frees before it stores; the planted
   defect C3 of the vulnerable version forgot to).  When strdup fails the exit
   leaves only owned blocks, and a normal end leaves no block at all. *)
Ownership ==
    /\ phase \in {"start", "running", "failed"} =>
          /\ \A s \in Held : heap[history[s]].live
          /\ \A s, t \in Held : history[s] = history[t] => s = t
          /\ \A a \in Addr : heap[a].live => \E s \in Held : history[s] = a
    /\ phase = "exited" => \A a \in Addr : ~heap[a].live

(* No command survives in the freed blocks of the ring (what getline frees of its
   own while the line grows is Shell's matter): the heap keeps a command only while
   a slot owns it, and after the normal end last_command is empty too
   (wipe_and_free and the explicit_bzero calls at the end of main). *)
NoResidue ==
    /\ \A a \in Addr : heap[a].live <=> heap[a].holds # NoText
    /\ phase = "exited" => last_command = NoText

(* The flag of a slot is set exactly when the slot owns a string, and the array
   of flags exists exactly while builtins may read it (history_init's zeroing
   is what makes reading a slot never written legal). *)
UsedIffHeld ==
    /\ phase = "running" => slot_used \in [Slot -> {0, 1}]
    /\ phase = "running" => \A s \in Slot : slot_used[s] = 1 <=> history[s] # NULL

(* The ring holds exactly the last HISTORY_SLOTS commands of the session, each
   in the slot its turn gave it, however often the ring wrapped. *)
RingHoldsLatest ==
    phase \in {"start", "running"} =>
      /\ history_next = Len(log) % HISTORY_SLOTS
      /\ \A k \in 1 .. Len(log) : k > Len(log) - HISTORY_SLOTS =>
            /\ history[(k - 1) % HISTORY_SLOTS] # NULL
            /\ heap[history[(k - 1) % HISTORY_SLOTS]].holds = log[k]
      /\ \A s \in Slot : s >= Len(log) => history[s] = NULL

(* last_command is the command before the latest one, cut to its buffer: it is
   copied by record_history before the slot that holds it can be freed. *)
LastCommandIsPrevious ==
    phase \in {"start", "running"} =>
      last_command = IF Len(log) < 2 THEN NoText
                     ELSE Snprintf(HISTORY_SIZE, FullText(log[Len(log) - 1]))

(* The detailed history implements the promise of SessionHistory. *)
Session == INSTANCE SessionHistory WITH
    session <- CASE phase = "start"   -> "new"
                 [] phase = "running" -> "open"
                 [] OTHER             -> "closed"

SessionSpec == Session!SSpec
=============================================================================
