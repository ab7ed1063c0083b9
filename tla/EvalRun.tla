------------------------------ MODULE EvalRun ------------------------------
(***************************************************************************)
(* cmd_run of src/llm-eval/harness/run_eval.py: one request per item, one   *)
(* JSON line per answer, appended and flushed; a rerun reads the output     *)
(* file and skips the items it finds there.  The process may be killed at   *)
(* any point, also in the middle of a write.                                *)
(***************************************************************************)
EXTENDS Naturals, Sequences, SequencesExt

CONSTANTS
    Items,       \* the ids of the items file, in its order
    Cost,        \* what one answer may cost
    MaxCostUsd,  \* --max-cost-usd
    MaxCrashes,  \* bound: times the process is killed
    MaxGone      \* bound: times the server cannot be reached

Ids == { Items[n] : n \in DOMAIN Items }

ASSUME ItemsAssumption ==
    /\ Items \in Seq(Ids) /\ \A m, n \in DOMAIN Items : Items[m] = Items[n] => m = n
    /\ Cost \subseteq Nat /\ 0 \in Cost /\ MaxCostUsd \in Nat
    /\ MaxCrashes \in Nat /\ MaxGone \in Nat

(* A line of the output file.  "answer": the model's verdict; "error": the
   answer was no valid verdict; "http": the server answered with an HTTP error;
   "leak": the prompt was refused by scrub and nothing was sent. *)
Rec == [id: Ids, kind: {"answer", "error", "http", "leak"}, cost: Cost]

(* A line that is not JSON, and what may follow the last newline. *)
Junk == [kind |-> "junk"]
NoTail == [kind |-> "none"]

VARIABLES
    file,     \* the lines of the output file that end in a newline
    tail,     \* what follows the last newline
    pc,       \* "down", "next", "asking", "answered"
    todo,     \* the items this run has left; it goes through them in order
    spent,    \* its variable spent
    rec,      \* the record in hand
    code,     \* exit code of the last run
    crashes, gone,
    torn      \* ghost: a crash left a write unfinished

evalVars == << file, tail, pc, todo, spent, rec, code, crashes, gone, torn >>

Running == 9

Init ==
    /\ file = << >> /\ tail = NoTail
    /\ pc = "down" /\ todo = {} /\ spent = 0 /\ rec = NoTail /\ code = Running
    /\ crashes = 0 /\ gone = 0 /\ torn = FALSE

-----------------------------------------------------------------------------

IsRec(l) == l.kind \notin {"junk", "none"}

(* splitlines(): an unterminated last line is a line too. *)
Lines == file \o (IF tail = NoTail THEN << >> ELSE << tail >>)

(* The item the loop is at: the first of Items that is still to do. *)
Item == Items[CHOOSE n \in DOMAIN Items :
                 Items[n] \in todo /\ \A m \in 1 .. n - 1 : Items[m] \notin todo]

(* A run that starts over. *)
DoneIgnored == {}

(* done: the ids of the lines that can be read. *)
Done == { Lines[n].id : n \in { m \in DOMAIN Lines : IsRec(Lines[m]) } }

(* The cost of the lines that can be read. *)
CostOf(ls)   == FoldLeft(LAMBDA sum, l : IF IsRec(l) THEN sum + l.cost ELSE sum, 0, ls)
RecordedCost == CostOf(Lines)

(* Starts that stop at a line they cannot read, or forget what was spent. *)
StartRefusingJunk ==
    /\ pc = "down"
    /\ \A n \in DOMAIN Lines : IsRec(Lines[n])
    /\ spent' = RecordedCost
    /\ todo' = Ids \ Done
    /\ pc' = "next" /\ code' = Running
    /\ UNCHANGED << file, tail, rec, crashes, gone, torn >>

StartForgettingCost ==
    /\ pc = "down"
    /\ spent' = 0
    /\ todo' = Ids \ Done
    /\ pc' = "next" /\ code' = Running
    /\ UNCHANGED << file, tail, rec, crashes, gone, torn >>

(* A run starts: it reads the file, warning about lines it cannot read. *)
Start ==
    /\ pc = "down"
    /\ spent' = RecordedCost
    /\ todo' = Ids \ Done
    /\ pc' = "next" /\ code' = Running
    /\ UNCHANGED << file, tail, rec, crashes, gone, torn >>

Exit(c) == pc' = "down" /\ code' = c

(* The loop ends when nothing is left to do. *)
Finish ==
    /\ pc = "next" /\ todo = {}
    /\ Exit(0)
    /\ UNCHANGED << file, tail, todo, spent, rec, crashes, gone, torn >>

(* triage_one: the prompt is refused before anything is sent ... *)
Leak ==
    /\ pc = "next" /\ todo # {}
    /\ rec' = [id |-> Item, kind |-> "leak", cost |-> 0]
    /\ pc' = "answered"
    /\ UNCHANGED << file, tail, todo, spent, code, crashes, gone, torn >>

(* ... or the request goes out. *)
Ask ==
    /\ pc = "next" /\ todo # {}
    /\ pc' = "asking"
    /\ UNCHANGED << file, tail, todo, spent, rec, code, crashes, gone, torn >>

Receive ==
    /\ pc = "asking"
    /\ \E kind \in {"answer", "error", "http"}, c \in Cost :
          /\ kind = "http" => c = 0
          /\ rec' = [id |-> Item, kind |-> kind, cost |-> c]
    /\ pc' = "answered"
    /\ UNCHANGED << file, tail, todo, spent, code, crashes, gone, torn >>

(* A loop that goes on to the next item when the server is gone. *)
ServerGoneSkipped ==
    /\ pc = "asking" /\ gone < MaxGone
    /\ gone' = gone + 1
    /\ pc' = "next" /\ todo' = todo \ {Item}
    /\ UNCHANGED << file, tail, spent, rec, code, crashes, torn >>

(* "request failed": stop without recording. *)
ServerGone ==
    /\ pc = "asking" /\ gone < MaxGone
    /\ gone' = gone + 1
    /\ Exit(2)
    /\ UNCHANGED << file, tail, todo, spent, rec, crashes, torn >>

(* Append the record and flush.  After an unterminated last line it is
   glued to that line, and neither can be read again.  Then the cost cap. *)
Write ==
    /\ pc = "answered"
    /\ file' = Append(file, IF tail = NoTail THEN rec ELSE Junk)
    /\ tail' = NoTail
    /\ spent' = spent + rec.cost
    /\ todo' = todo \ {Item}
    /\ rec' = NoTail
    /\ IF spent' >= MaxCostUsd THEN Exit(3) ELSE pc' = "next" /\ UNCHANGED code
    /\ UNCHANGED << crashes, gone, torn >>

(* The process is killed.  While it writes, any part of the line may have
   reached the file: nothing, a fragment, or all but the newline. *)
Crash ==
    /\ pc # "down" /\ crashes < MaxCrashes
    /\ crashes' = crashes + 1
    /\ \/ tail' = tail /\ torn' = torn
       \/ pc = "answered" /\ tail' = Junk /\ torn' = TRUE
       \/ pc = "answered" /\ tail = NoTail /\ tail' = rec /\ torn' = TRUE
    /\ rec' = NoTail /\ todo' = {}
    /\ Exit(1)
    /\ UNCHANGED << file, spent, gone >>

Step == Finish \/ Leak \/ Ask \/ Receive \/ ServerGone \/ Write

Next == Start \/ Step \/ Crash

Spec == Init /\ [][Next]_evalVars

(* A run that was started goes on, and whoever runs the evaluation starts it
   again until nothing is left. *)
FairSpec == Spec /\ WF_evalVars(Start) /\ WF_evalVars(Step)

-----------------------------------------------------------------------------

(* Type correctness; SpentCoversFile says what spent is. *)
TypeOK ==
    /\ file \in Seq(Rec \cup {Junk})
    /\ tail \in Rec \cup {Junk, NoTail} /\ rec \in Rec \cup {NoTail}
    /\ pc \in {"down", "next", "asking", "answered"}
    /\ todo \subseteq Ids
    /\ code \in {0, 1, 2, 3, Running}
    /\ crashes \in 0 .. MaxCrashes /\ gone \in 0 .. MaxGone /\ torn \in BOOLEAN

(* No item has two lines that can be read, over any sequence of runs, stops and
   crashes: stats.py keeps one record per id and would drop one silently. *)
OneRecordPerItem ==
    \A m, n \in DOMAIN Lines :
       IsRec(Lines[m]) /\ IsRec(Lines[n]) /\ Lines[m].id = Lines[n].id => m = n

(* What a run counts as spent covers at least what the file says, so the cap is
   never reached later than the records show; they differ only by records glued
   to a torn line. *)
SpentCoversFile ==
    pc # "down" => spent >= RecordedCost /\ (~torn => spent = RecordedCost)

(* stats.load: json.loads raises on a line that is not JSON, where cmd_run only
   warns.  The file keeps such a line for good. *)
StatsLoads == \A n \in DOMAIN Lines : IsRec(Lines[n])

(* Unless a crash tore a write, stats.py can read the file whenever it is
   started, and a run that ends with exit 0 leaves it a record for every item: a
   run that stopped on a failed request left that item to be asked. *)
CleanEndIsComplete == ~torn => StatsLoads /\ (code = 0 => Done = Ids)

(* Reruns get there in the end: whatever was lost to crashes is asked again,
   and neither unreadable lines nor the cost cap stops that for good. *)
EventuallyComplete == <>[](Done = Ids)

(* llm-eval/README.md: "stops on a failed request instead of recording it, so
   rerunning resumes where it stopped". *)
FailedRequestNotRecorded ==
    \A n \in DOMAIN Lines : IsRec(Lines[n]) => Lines[n].kind # "http"
=============================================================================
