---------------------------- MODULE SessionHistory ----------------------------
(***************************************************************************)
(* What the shell's history promises a user, with no ring, pointer or heap: *)
(* the commands typed so far are a log; "history" answers the command       *)
(* before the current one, cut to the size of last_command; "recall n"      *)
(* answers the most recent command whose turn it was to go to slot n.  An   *)
(* answer stands beside the words that asked for it.                        *)
(***************************************************************************)
EXTENDS CommandLine

VARIABLES log, asked, out, session

sessionVars == << log, asked, out, session >>

SInit == log = << >> /\ out = Say("none") /\ asked = << >> /\ session = "new"

(* The session opens, or the shell cannot start. *)
SOpen == /\ session = "new"
         /\ session' \in {"open", "closed"}
         /\ UNCHANGED << log, asked, out >>

SRecord(l) == /\ session = "open"
              /\ log' = Append(log, l)
              /\ UNCHANGED << asked, out, session >>

(* The command typed before the current one. *)
PreviousCommand ==
    IF Len(log) < 2 THEN NoText
    ELSE Snprintf(HISTORY_SIZE, FullText(log[Len(log) - 1]))

SShow == /\ session = "open"
         /\ asked' = << >> /\ out' = SayText(PreviousCommand)
         /\ UNCHANGED << log, session >>

(* The turns at which commands went to slot n. *)
Turns(n) == { k \in 1 .. Len(log) : (k - 1) % HISTORY_SLOTS = n }

(* A recall argument is a number when it is a numeral that fits an int. *)
Numeral(w) == w.digits /\ ~w.junk /\ w.value \in INT_MIN .. INT_MAX

SlotAnswer(n) ==
    IF n \notin Slot THEN Say("range")
    ELSE IF Turns(n) = {} THEN Say("empty")
    ELSE SayText(FullText(log[CHOOSE k \in Turns(n) : \A j \in Turns(n) : j <= k]))

RecallAnswer(args) ==
    IF Len(args) < 2 THEN SlotAnswer(0)
    ELSE IF Numeral(args[2]) THEN SlotAnswer(args[2].value)
    ELSE Say("number")

SRecall(args) == /\ session = "open"
                 /\ IsCommand(args, "recall")
                 /\ asked' = args /\ out' = RecallAnswer(args)
                 /\ UNCHANGED << log, session >>

(* The session ends, in the normal way or because memory ran out. *)
SClose == /\ session = "open"
          /\ session' = "closed"
          /\ UNCHANGED << log, asked, out >>

SNext == \/ SOpen
         \/ \E l \in Line : SRecord(l) \/ SRecall(Words[l])
         \/ SShow
         \/ SClose

SSpec == SInit /\ [][SNext]_sessionVars
=============================================================================
