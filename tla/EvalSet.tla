------------------------------ MODULE EvalSet ------------------------------
(***************************************************************************)
(* cmd_items of src/llm-eval/harness/build_v2.py: the analyzers' findings   *)
(* are labelled and sorted into pools, and select() draws the test set from *)
(* them, stratum by stratum.                                                *)
(*                                                                          *)
(* select() shuffles each group and pops from it, so a group is a set and a *)
(* pop takes any member.  One visit of a CWE and one pop are a step each.   *)
(***************************************************************************)
EXTENDS Integers, Sequences, SequencesExt, FiniteSets, Lists

CONSTANTS
    Inputs,          \* the findings of the SARIF files: a set of possible sequences
    Cwes, Rules,     \* in sorted order
    Split,           \* split.json: family -> "test" or "train"
    Quota,           \* TEST_QUOTA
    MAX_PER_FAMILY,
    RuleShare        \* MAX_RULE_SHARE, in percent

Strata == << "tp", "fp_paired", "fp_other", "fp_offtarget" >>
StratumName == { Strata[k] : k \in 1 .. 4 }

(* Where a finding lies: in no file or function that counts, in a function that
   is neither bad nor good, in a split flow, or in a bad() or good() function. *)
Place  == {"missing", "outside", "neither", "split", "bad", "good"}
Marker == {"none", "FLAW", "POTENTIAL FLAW", "FIX", "INCIDENTAL"}

(* A line of a Juliet function: the marker it shows, whether anything is left
   of it without its comments, and the braces in what is left. *)
SourceLine ==
    { l \in [marker: Marker, code: BOOLEAN, opens: {0, 1}, closes: {0, 1}] :
        ~l.code => l.opens = 0 /\ l.closes = 0 }

Comment(m)    == [marker |-> m, code |-> FALSE, opens |-> 0, closes |-> 0]
Code(o, c)    == [marker |-> "none", code |-> TRUE, opens |-> o, closes |-> c]

(* A marker whose comment ends on a later line: COMMENT does not match it. *)
CommentBegins(m) == [Comment(m) EXCEPT !.code = TRUE]

(* The findings, numbered so that two with the same key stay apart. *)
Findings == UNION { { s[n] : n \in DOMAIN s } : s \in Inputs }

ASSUME FindingsAssumption ==
    /\ \A s \in Inputs : s \in Seq(Findings)
    /\ \A f \in Findings :
          /\ f.cwe \in ToSet(Cwes) /\ f.rule \in ToSet(Rules) /\ f.family \in DOMAIN Split
          /\ f.place \in Place /\ f.above \in Seq(SourceLine)
          /\ f.inFamily \in BOOLEAN /\ f.arrayDecl \in BOOLEAN /\ f.leaky \in BOOLEAN

(* A sorted list of dictionary keys has no key twice. *)
ASSUME KeysAssumption ==
    /\ Cwes \in Seq(ToSet(Cwes)) /\ Rules \in Seq(ToSet(Rules))
    /\ \A m, n \in DOMAIN Cwes : Cwes[m] = Cwes[n] => m = n

ASSUME QuotaAssumption ==
    /\ Quota \in [StratumName -> Nat] /\ MAX_PER_FAMILY \in Nat /\ RuleShare \in 0 .. 100
    /\ \A fam \in DOMAIN Split : Split[fam] \in {"test", "train"}

VARIABLES
    input,      \* the findings not read yet
    seen,       \* the keys met so far
    pools,      \* side -> stratum -> its items
    k,          \* the stratum being selected
    left,       \* groups: its items not popped yet
    picked,     \* the items taken, in order
    per_rule, per_family, turn,
    visit,      \* the CWE the for loop is at
    rules,      \* the rules that visit may still draw from
    progress,
    chosen,     \* the result of select() for the strata done
    pc

reading   == << input, seen, pools >>
selecting == << left, picked, per_rule, per_family, turn, visit, rules, progress >>
setVars   == << reading, selecting, k, chosen, pc >>

Families == DOMAIN Split
Zero(S)  == [x \in S |-> 0]

Init ==
    /\ input \in Inputs
    /\ seen = {}
    /\ pools = [side \in {"test", "train"} |-> [s \in StratumName |-> {}]]
    /\ k = 0 /\ left = {} /\ picked = << >>
    /\ per_rule = Zero(ToSet(Rules)) /\ per_family = Zero(Families)
    /\ turn = Zero(ToSet(Cwes))
    /\ visit = 1 /\ rules = << >> /\ progress = FALSE
    /\ chosen = [s \in StratumName |-> << >>]
    /\ pc = "read"

-----------------------------------------------------------------------------
(* Reading the findings                                                     *)

(* A walk that takes the last marker, whatever block it stands in. *)
MarkerAnywhere(above) ==
    FoldRight(LAMBDA l, found : IF found = "none" /\ ~l.code THEN l.marker ELSE found, above, "none")

(* One line further up, until a marker is found: inside a block that was closed
   below nothing counts, and a brace that opens at depth 0 is that of the
   enclosing block. *)
Up(l, walk) ==
    IF walk.marker # "none" THEN walk
    ELSE IF ~l.code /\ walk.depth = 0 THEN [walk EXCEPT !.marker = l.marker]
    ELSE LET d == walk.depth + l.closes - l.opens
         IN  [walk EXCEPT !.depth = IF d < 0 THEN 0 ELSE d]

(* marker_above: up from the flagged line to the first marker that is not inside
   a block that was closed in between. *)
MarkerAbove(above) == FoldRight(Up, above, [marker |-> "none", depth |-> 0]).marker

(* classify: "none" when the finding is ambiguous. *)
Classify(f, marker) ==
    LET flaw == marker \in {"FLAW", "POTENTIAL FLAW"}
        tp   == f.place = "bad"
    IN  CASE marker = "INCIDENTAL" \/ (tp /\ f.arrayDecl) -> "none"
          [] OTHER ->
             IF ~f.inFamily THEN IF flaw /\ tp THEN "none" ELSE "fp_offtarget"
             ELSE IF tp THEN IF flaw THEN "tp" ELSE "none"
             ELSE IF marker \in {"POTENTIAL FLAW", "FIX"} THEN "fp_paired" ELSE "fp_other"

StratumOf(f) == Classify(f, MarkerAbove(f.above))

(* The checks before the label decides. *)
Labelled(f) == f.place \in {"bad", "good"} /\ StratumOf(f) # "none"

(* A key counts as seen even when its message then drops the finding. *)
ReadFinding ==
    /\ pc = "read" /\ input # << >>
    /\ LET f == Head(input)
       IN  IF Labelled(f) /\ f.key \notin seen
           THEN /\ seen' = seen \cup {f.key}
                /\ pools' = IF f.leaky THEN pools
                            ELSE [pools EXCEPT ![Split[f.family]][StratumOf(f)] = @ \cup {f}]
           ELSE UNCHANGED << seen, pools >>
    /\ input' = Tail(input)
    /\ UNCHANGED << selecting, k, chosen, pc >>

-----------------------------------------------------------------------------
(* select(pool, quota)                                                      *)

Stratum == Strata[k]

RuleCap(s) == LET n == (Quota[s] * RuleShare) \div 100 IN IF n < 1 THEN 1 ELSE n

Group(cwe, r) == { i \in left : i.cwe = cwe /\ i.rule = r }

(* The calls of select, one stratum after the other, each with its own
   counters; after the last, the files are written. *)
BeginSelect(next) ==
    /\ k' = next
    /\ pc' = IF next > Len(Strata) THEN "done" ELSE "round"
    /\ left' = IF next > Len(Strata) THEN {} ELSE pools["test"][Strata[next]]
    /\ picked' = << >> /\ progress' = FALSE /\ visit' = 1 /\ rules' = << >>
    /\ per_rule' = Zero(ToSet(Rules)) /\ per_family' = Zero(Families)
    /\ turn' = Zero(ToSet(Cwes))

FindingsRead ==
    /\ pc = "read" /\ input = << >>
    /\ BeginSelect(1)
    /\ UNCHANGED << reading, chosen >>

QuotaMet == Len(picked) >= Quota[Stratum]

(* Rules whose cap is not looked at. *)
CandidatesUncapped(cwe) == Keep(Rules, { r \in ToSet(Rules) : Group(cwe, r) # {} })

Candidates(cwe) ==
    Keep(Rules, { r \in ToSet(Rules) : Group(cwe, r) # {} /\ per_rule[r] < RuleCap(Stratum) })

(* The for loop comes to a CWE. *)
VisitCwe ==
    LET cands == Candidates(Cwes[visit])
    IN  /\ pc = "round" /\ visit <= Len(Cwes) /\ ~QuotaMet
        /\ rules' = cands
        /\ IF cands = << >> THEN visit' = visit + 1 /\ UNCHANGED pc
                            ELSE pc' = "pop" /\ UNCHANGED visit
        /\ UNCHANGED << reading, left, picked, per_rule, per_family, turn, progress, k, chosen >>

(* A draw that stays with its CWE while it has candidates. *)
TakeGreedy(it) ==
    /\ picked' = Append(picked, it)
    /\ per_rule' = [per_rule EXCEPT ![it.rule] = @ + 1]
    /\ per_family' = [per_family EXCEPT ![it.family] = @ + 1]
    /\ progress' = TRUE
    /\ pc' = "round" /\ rules' = << >> /\ UNCHANGED visit

Take(it) ==
    /\ picked' = Append(picked, it)
    /\ per_rule' = [per_rule EXCEPT ![it.rule] = @ + 1]
    /\ per_family' = [per_family EXCEPT ![it.family] = @ + 1]
    /\ progress' = TRUE
    /\ pc' = "round" /\ visit' = visit + 1 /\ rules' = << >>

(* The family is full: the visit ends although other rules remain. *)
SkipAndLeave(it) ==
    /\ pc' = "round" /\ visit' = visit + 1 /\ rules' = << >>
    /\ UNCHANGED << picked, per_rule, per_family, progress >>

(* The family is full: the item is gone, the visit goes on. *)
Skip(it) ==
    LET rest == Keep(rules, { r \in ToSet(rules) : Group(Cwes[visit], r) \ {it} # {} })
    IN  /\ rules' = rest
        /\ IF rest = << >> THEN pc' = "round" /\ visit' = visit + 1
                           ELSE UNCHANGED << pc, visit >>
        /\ UNCHANGED << picked, per_rule, per_family, progress >>

Pop ==
    LET cwe  == Cwes[visit]
        rule == rules[(turn[cwe] % Len(rules)) + 1]
    IN  /\ pc = "pop"
        /\ turn' = [turn EXCEPT ![cwe] = @ + 1]
        /\ \E it \in Group(cwe, rule) :
              /\ left' = left \ {it}
              /\ IF per_family[it.family] < MAX_PER_FAMILY THEN Take(it) ELSE Skip(it)
        /\ UNCHANGED << reading, k, chosen >>

RoundOver == pc = "round" /\ (visit > Len(Cwes) \/ QuotaMet)

(* A progress flag that is never reset. *)
NewRoundStale ==
    /\ RoundOver /\ progress /\ ~QuotaMet
    /\ visit' = 1
    /\ UNCHANGED << reading, left, picked, per_rule, per_family, turn, rules, progress, k, chosen, pc >>

NewRound ==
    /\ RoundOver /\ progress /\ ~QuotaMet
    /\ visit' = 1 /\ progress' = FALSE
    /\ UNCHANGED << reading, left, picked, per_rule, per_family, turn, rules, k, chosen, pc >>

EndSelect ==
    /\ RoundOver /\ (~progress \/ QuotaMet)
    /\ chosen' = [chosen EXCEPT ![Stratum] = picked]
    /\ BeginSelect(k + 1)
    /\ UNCHANGED reading

Next == ReadFinding \/ FindingsRead \/ VisitCwe \/ Pop \/ NewRound \/ EndSelect

(* A single program: it runs until it ends. *)
Spec == Init /\ [][Next]_setVars /\ WF_setVars(Next)

-----------------------------------------------------------------------------

(* How many items of a sequence satisfy a test. *)
Count(s, Test(_)) == Cardinality({ n \in DOMAIN s : Test(s[n]) })

CapsHold(s, items) ==
    /\ Len(items) <= Quota[s]
    /\ \A r \in ToSet(Rules) : Count(items, LAMBDA i : i.rule = r) <= RuleCap(s)
    /\ \A fam \in Families : Count(items, LAMBDA i : i.family = fam) <= MAX_PER_FAMILY

(* No stratum ever exceeds its quota, a rule's share of it or a family's two
   items, although a rule is drawn from several CWEs in turn and a family
   through several rules (select's docstring). *)
SelectionWithinCaps ==
    /\ \A s \in StratumName : CapsHold(s, chosen[s])
    /\ pc \in {"round", "pop"} => CapsHold(Stratum, picked)

(* A stratum that stays below its quota ("WARN: only ...") had no more to give:
   each item it leaves out has its rule or its family at the cap. *)
ShortfallIsReal ==
    \A n \in 1 .. 4 :
       LET s == Strata[n] IN
       n < k /\ Len(chosen[s]) < Quota[s] =>
          \A i \in pools["test"][s] \ ToSet(chosen[s]) :
             \/ Count(chosen[s], LAMBDA j : j.rule = i.rule) >= RuleCap(s)
             \/ Count(chosen[s], LAMBDA j : j.family = i.family) >= MAX_PER_FAMILY

(* Round-robin over CWEs: one falls more than one item behind another only when
   it has nothing left to draw. *)
CwesTakeTurns ==
    pc = "round" =>
       \A c, d \in ToSet(Cwes) :
          Count(picked, LAMBDA i : i.cwe = c) + 1 < Count(picked, LAMBDA i : i.cwe = d) =>
             \A i \in left : i.cwe = c => per_rule[i.rule] >= RuleCap(Stratum)

(* The lines whose markers govern the flagged one: their block is still open
   there. *)
Governing(above) ==
    { j \in DOMAIN above :
        \A p \in j .. Len(above) :
           Cardinality({ q \in j .. p : above[q].closes = 1 })
              <= Cardinality({ q \in j .. p : above[q].opens = 1 }) }

(* "The nearest marker governing line idx": an item is in the stratum that the
   nearest marker comment in an open block calls for, wherever braces are in
   between.  A comment that ends on a later line is no marker to the code.
   Of "TP only when the flagged line is under a FLAW ... in bad(), array
   declarations excluded.  FP in good*() functions" (llm-eval/README.md:60), the
   first half holds, and the second except for the off-target ones. *)
LabelsFollowBlocks ==
    \A side \in {"test", "train"}, s \in StratumName :
       \A i \in pools[side][s] :
          LET marks == { j \in Governing(i.above) : ~i.above[j].code /\ i.above[j].marker # "none" }
          IN  /\ IF marks = {} THEN Classify(i, "none") = s
                 ELSE \E j \in marks : Classify(i, i.above[j].marker) = s /\ \A l \in marks : l <= j
              /\ s = "tp" => /\ i.place = "bad" /\ ~i.arrayDecl
                             /\ \E j \in marks : i.above[j].marker \in {"FLAW", "POTENTIAL FLAW"}
              /\ s \in {"fp_paired", "fp_other"} => i.place = "good"

(* The selection ends, for every pool and order of draws. *)
SelectionEnds == <>(pc = "done")
=============================================================================
