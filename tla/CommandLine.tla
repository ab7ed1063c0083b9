----------------------------- MODULE CommandLine -----------------------------
(***************************************************************************)
(* The text functions of src/src/hardened_shell.c: C strings, the          *)
(* tokenizer's result and parse_int.  A line is an abstract value known by  *)
(* its length and by the words the tokenizer finds in it; a word is known   *)
(* by its name and by what strtol makes of it.                              *)
(***************************************************************************)
EXTENDS Integers, Sequences

CONSTANTS
    Line,           \* the lines a user may type, the final newline stripped
    StrLen,         \* strlen of each line
    Words,          \* the tokens strtok_r finds in each line
    NULL,           \* the null pointer
    NoText,         \* an empty C string
    MAX_ARGS,       \* capacity of parsed_args, the NULL terminator included
    HISTORY_SIZE,   \* sizeof(last_command)
    HISTORY_SLOTS,  \* length of the history ring
    INT_MIN, INT_MAX, LONG_MIN, LONG_MAX

(* What strtol can tell about a word: whether it starts with a number, whether
   something follows that number, and the number (of any magnitude). *)
Word == [name: STRING, digits: BOOLEAN, junk: BOOLEAN, value: Int]

ASSUME SizesAssumption ==
    /\ MAX_ARGS \in Nat /\ MAX_ARGS >= 2
    /\ HISTORY_SIZE \in Nat /\ HISTORY_SIZE >= 2
    /\ HISTORY_SLOTS \in Nat /\ HISTORY_SLOTS >= 1

ASSUME LineAssumption ==
    /\ StrLen \in [Line -> Nat]
    /\ Words \in [Line -> Seq(Word)]
    /\ \A l \in Line : StrLen[l] = 0 => Words[l] = << >>

(* int and long are two's-complement ranges, int no wider than long, and int
   holds every slot number. *)
ASSUME WidthAssumption ==
    /\ INT_MIN \in Int /\ INT_MAX \in Int /\ LONG_MIN \in Int /\ LONG_MAX \in Int
    /\ INT_MIN = -INT_MAX - 1 /\ LONG_MIN = -LONG_MAX - 1
    /\ INT_MAX <= LONG_MAX /\ HISTORY_SLOTS <= INT_MAX

Slot == 0 .. HISTORY_SLOTS - 1

(* A C string made from a line: the line and how many of its characters are
   there. *)
Text == [line: Line, len: Nat]

FullText(l) == [line |-> l, len |-> StrLen[l]]

ASSUME NoTextAssumption == NoText \notin Text /\ NoText \notin Line

(* snprintf(last_command, sizeof(last_command), "%s", text): at most size - 1
   characters are kept, and the terminator always fits. *)
Snprintf(size, t) == [t EXCEPT !.len = IF @ > size - 1 THEN size - 1 ELSE @]

(* strtol(text, &end, 10): the value clamped to long, with ERANGE when clamped;
   end = text when there is no number. *)
StrToL(w) ==
    [value  |-> CASE ~w.digits          -> 0
                  [] w.digits /\ w.value < LONG_MIN -> LONG_MIN
                  [] w.digits /\ w.value > LONG_MAX -> LONG_MAX
                  [] OTHER              -> w.value,
     erange |-> w.digits /\ (w.value < LONG_MIN \/ w.value > LONG_MAX),
     none   |-> ~w.digits,
     rest   |-> ~w.digits \/ w.junk]

(* The conversion (int)value keeps the low bits. *)
IntCast(v) == ((v - INT_MIN) % (INT_MAX - INT_MIN + 1)) + INT_MIN

(* A parse_int without its range test: a long that does not fit is cut to int. *)
ParseIntUnranged(w) ==
    LET r == StrToL(w)
    IN  [ok |-> ~(r.none \/ r.rest), out |-> IntCast(r.value)]

ParseInt(w) ==
    LET r == StrToL(w)
    IN  [ok  |-> ~(r.none \/ r.rest \/ r.erange \/ r.value < INT_MIN \/ r.value > INT_MAX),
         out |-> IntCast(r.value)]

(* A parse_input that keeps the first MAX_ARGS - 1 words and says nothing. *)
ParseInputTruncating(l) ==
    [ok |-> TRUE,
     args |-> IF Len(Words[l]) > MAX_ARGS - 1
              THEN SubSeq(Words[l], 1, MAX_ARGS - 1) ELSE Words[l]]

(* parse_input: the words and the NULL that ends them must fit in parsed_args. *)
ParseInput(l) ==
    [ok |-> Len(Words[l]) <= MAX_ARGS - 1, args |-> Words[l]]

IsCommand(args, name) == args # << >> /\ args[1].name = name

(* What the shell prints in answer to a builtin. *)
Answer == [kind: {"none", "text", "range", "empty", "number"}, text: Text \cup {NoText}]
Say(kind)   == [kind |-> kind, text |-> NoText]
SayText(t)  == [kind |-> "text", text |-> t]
=============================================================================
