---------------------------- MODULE EvalSetProofs ----------------------------
(***************************************************************************)
(* The labels and the selection of the test set, for every list of          *)
(* findings, every quota and every order of draws.                          *)
(***************************************************************************)
EXTENDS EvalSet, Lemmas

Selecting == pc \in {"round", "pop"}

(* The types of what is read and selected, and which stratum it is. *)
SetTypes ==
    /\ input \in Seq(Findings)
    /\ pools \in [{"test", "train"} -> [StratumName -> SUBSET Findings]]
    /\ k \in 0 .. 5 /\ pc \in {"read", "round", "pop", "done"}
    /\ (pc = "read" <=> k = 0) /\ (pc = "done" <=> k = 5)
    /\ left \in SUBSET Findings
    /\ picked \in Seq(Findings)
    /\ per_rule \in [ToSet(Rules) -> Nat] /\ per_family \in [Families -> Nat]
    /\ turn \in [ToSet(Cwes) -> Nat]
    /\ visit \in 1 .. Len(Cwes) + 1 /\ (pc = "pop" => visit <= Len(Cwes))
    /\ rules \in Seq(ToSet(Rules)) /\ (pc = "pop" => rules # << >>)
    /\ progress \in BOOLEAN
    /\ chosen \in [StratumName -> Seq(Findings)]

OfRule(r)     == { i \in Findings : i.rule = r }
OfFamily(fam) == { i \in Findings : i.family = fam }
OfCwe(c)      == { i \in Findings : i.cwe = c }
Number(s, T)  == Cardinality(Places(s, T))

(* The counters count the items picked, and none is over its cap. *)
CapsInv ==
    /\ \A s \in StratumName : CapsHold(s, chosen[s])
    /\ Selecting =>
          /\ Len(picked) <= Quota[Stratum]
          /\ \A r \in ToSet(Rules) : per_rule[r] = Number(picked, OfRule(r)) /\ per_rule[r] <= RuleCap(Stratum)
          /\ \A fam \in Families : per_family[fam] = Number(picked, OfFamily(fam)) /\ per_family[fam] <= MAX_PER_FAMILY
    /\ pc = "pop" => Len(picked) < Quota[Stratum]

(* A visit looks at the rules of its CWE that have an item left and are below
   their cap, and only at those. *)
VisitInv ==
    pc = "pop" =>
       /\ \A r \in ToSet(rules) : Group(Cwes[visit], r) # {} /\ per_rule[r] < RuleCap(Stratum)
       /\ \A i \in left : i.cwe = Cwes[visit] /\ per_rule[i.rule] < RuleCap(Stratum) => i.rule \in ToSet(rules)

(* Nothing that is left of this CWE may still be drawn. *)
Exhausted(c) == \A i \in left : i.cwe = c => per_rule[i.rule] >= RuleCap(Stratum)

(* Where the items of the pool are, what a round without a draw has seen, and
   what follows for the strata that are done. *)
Excused(items, s, i) ==
    \/ Number(items, OfRule(i.rule)) >= RuleCap(s)
    \/ Number(items, OfFamily(i.family)) >= MAX_PER_FAMILY

ShortfallInv ==
    /\ Selecting =>
          /\ \A i \in pools["test"][Stratum] :
                i \in left \/ i \in ToSet(picked) \/ per_family[i.family] >= MAX_PER_FAMILY
          /\ ~progress => \A n \in 1 .. visit - 1 : Exhausted(Cwes[n])
    /\ \A n \in 1 .. 4 :
          n < k /\ Len(chosen[Strata[n]]) < Quota[Strata[n]] =>
             \A i \in pools["test"][Strata[n]] \ ToSet(chosen[Strata[n]]) : Excused(chosen[Strata[n]], Strata[n], i)

(* In round number R + 1 a CWE has R items, and one more once it was visited, or
   as many as it had to give. *)
TurnsAre(R) ==
    \A n \in 1 .. Len(Cwes) :
       LET due == IF n < visit THEN R + 1 ELSE R
           has == Number(picked, OfCwe(Cwes[n]))
       IN  has <= due /\ (has = due \/ Exhausted(Cwes[n]))

TurnsInv == Selecting => \E R \in Nat : TurnsAre(R)

(* The inductive invariant of the selection. *)
SelectionInv == SetTypes /\ CapsInv /\ VisitInv /\ ShortfallInv /\ TurnsInv

(* The pools hold findings of bad() and good*() functions, under the stratum the
   code computed for them. *)
PoolsInv ==
    \A side \in {"test", "train"}, s \in StratumName :
       \A i \in pools[side][s] : StratumOf(i) = s /\ i.place \in {"bad", "good"}

-----------------------------------------------------------------------------
(* The constants                                                            *)

LEMMA StrataFacts ==
    /\ Len(Strata) = 4
    /\ \A n \in 1 .. 4 : Strata[n] \in StratumName
    /\ \A m, n \in 1 .. 4 : Strata[m] = Strata[n] => m = n
    /\ \A s \in StratumName : \E n \in 1 .. 4 : Strata[n] = s
    /\ {"tp", "fp_paired", "fp_other", "fp_offtarget"} \subseteq StratumName
<1>1. Strata[1] = "tp" /\ Strata[2] = "fp_paired" /\ Strata[3] = "fp_other" /\ Strata[4] = "fp_offtarget"
  BY DEF Strata
<1>2. Len(Strata) = 4
  BY DEF Strata
<1>3. \A n \in 1 .. 4 : n = 1 \/ n = 2 \/ n = 3 \/ n = 4
  OBVIOUS
<1>4. \A m, n \in 1 .. 4 : Strata[m] = Strata[n] => m = n
  BY <1>1, <1>3
<1>5. 1 \in 1 .. 4 /\ 2 \in 1 .. 4 /\ 3 \in 1 .. 4 /\ 4 \in 1 .. 4
  OBVIOUS
<1> QED BY <1>1, <1>2, <1>4, <1>5 DEF StratumName

LEMMA RuleCapType == \A s \in StratumName : RuleCap(s) \in Nat /\ RuleCap(s) >= 1 /\ Quota[s] \in Nat
<1> SUFFICES ASSUME NEW s \in StratumName PROVE RuleCap(s) \in Nat /\ RuleCap(s) >= 1 /\ Quota[s] \in Nat
  OBVIOUS
<1>1. Quota[s] \in Nat /\ RuleShare \in Nat
  BY QuotaAssumption
<1>2. Quota[s] * RuleShare \in Nat
  BY <1>1
<1> DEFINE n == (Quota[s] * RuleShare) \div 100
<1>3. n \in Int
  BY <1>2
<1>4. RuleCap(s) = IF n < 1 THEN 1 ELSE n
  BY DEF RuleCap
<1> HIDE DEF n
<1> QED BY <1>1, <1>3, <1>4

LEMMA FindingFacts ==
    ASSUME NEW f \in Findings
    PROVE  /\ f.cwe \in ToSet(Cwes) /\ f.rule \in ToSet(Rules) /\ f.family \in Families
           /\ Split[f.family] \in {"test", "train"} /\ f.above \in Seq(SourceLine)
  BY FindingsAssumption, QuotaAssumption DEF Families

(* A finding that is labelled has one of the four strata. *)
LEMMA LabelType == \A f \in Findings : Labelled(f) => StratumOf(f) \in StratumName
<1> SUFFICES ASSUME NEW f \in Findings, NEW m PROVE Classify(f, m) \in StratumName \cup {"none"}
  BY DEF Labelled, StratumOf
<1> QED BY StrataFacts DEF Classify

(* Counting the items of a rule or of a family. *)
LEMMA CapsAre ==
    ASSUME NEW items \in Seq(Findings), NEW s
    PROVE  /\ \A r : Count(items, LAMBDA i : i.rule = r) = Number(items, OfRule(r))
           /\ \A fam : Count(items, LAMBDA i : i.family = fam) = Number(items, OfFamily(fam))
           /\ \A c : Count(items, LAMBDA i : i.cwe = c) = Number(items, OfCwe(c))
<1>1. \A n \in DOMAIN items : items[n] \in Findings
  OBVIOUS
<1>2. ASSUME NEW r PROVE Count(items, LAMBDA i : i.rule = r) = Number(items, OfRule(r))
  BY <1>1 DEF Count, Number, Places, OfRule
<1>3. ASSUME NEW fam PROVE Count(items, LAMBDA i : i.family = fam) = Number(items, OfFamily(fam))
  BY <1>1 DEF Count, Number, Places, OfFamily
<1>4. ASSUME NEW c PROVE Count(items, LAMBDA i : i.cwe = c) = Number(items, OfCwe(c))
  BY <1>1 DEF Count, Number, Places, OfCwe
<1> QED BY <1>2, <1>3, <1>4

LEMMA CapsHoldIs ==
    ASSUME NEW items \in Seq(Findings), NEW s
    PROVE  CapsHold(s, items) <=>
             /\ Len(items) <= Quota[s]
             /\ \A r \in ToSet(Rules) : Number(items, OfRule(r)) <= RuleCap(s)
             /\ \A fam \in Families : Number(items, OfFamily(fam)) <= MAX_PER_FAMILY
  BY CapsAre DEF CapsHold

(* Nothing is counted of an empty list. *)
LEMMA NumberNone == \A T : Number(<< >>, T) = 0
<1>1. \A T : Places(<< >>, T) = {}
  BY DEF Places
<1> QED BY <1>1, FS_EmptySet DEF Number

LEMMA NumberAppend ==
    ASSUME NEW items \in Seq(Findings), NEW it \in Findings, NEW T
    PROVE  /\ Number(items, T) \in Nat
           /\ Number(Append(items, it), T) = Number(items, T) + (IF it \in T THEN 1 ELSE 0)
  BY PlacesFinite, PlacesAppend DEF Number

-----------------------------------------------------------------------------
(* The selection                                                            *)

LEMMA SelectionInitInv == Init => SelectionInv
<1> SUFFICES ASSUME Init PROVE SelectionInv
  OBVIOUS
<1> USE DEF Init
<1>1. input \in Seq(Findings)
  BY FindingsAssumption
<1>2. Len(Cwes) \in Nat
  BY KeysAssumption
<1>3. SetTypes
  <2>1. /\ pools \in [{"test", "train"} -> [StratumName -> SUBSET Findings]]
        /\ chosen \in [StratumName -> Seq(Findings)]
        /\ per_rule \in [ToSet(Rules) -> Nat] /\ per_family \in [Families -> Nat]
        /\ turn \in [ToSet(Cwes) -> Nat]
    BY DEF Zero
  <2>2. << >> \in Seq(Findings) /\ << >> \in Seq(ToSet(Rules)) /\ visit \in 1 .. Len(Cwes) + 1
    BY <1>2
  <2>3. /\ k = 0 /\ pc = "read" /\ left = {} /\ progress = FALSE /\ picked = << >> /\ rules = << >>
        /\ 0 \in 0 .. 5
    OBVIOUS
  <2>4. k \in 0 .. 5 /\ pc \in {"read", "round", "pop", "done"} /\ (pc = "read" <=> k = 0) /\ (pc = "done" <=> k = 5)
    BY <2>3
  <2> QED BY <1>1, <2>1, <2>2, <2>3, <2>4 DEF SetTypes
<1>4. CapsInv
  <2>1. \A s \in StratumName : chosen[s] = << >> /\ << >> \in Seq(Findings)
    OBVIOUS
  <2>2. MAX_PER_FAMILY \in Nat
    BY QuotaAssumption
  <2>3. ASSUME NEW s \in StratumName PROVE CapsHold(s, chosen[s])
    <3>1. RuleCap(s) >= 0 /\ Quota[s] >= 0 /\ MAX_PER_FAMILY >= 0 /\ Len(<< >>) = 0
      BY <2>2, RuleCapType
    <3> QED BY <2>1, <3>1, NumberNone, CapsHoldIs
  <2> QED BY <2>3 DEF CapsInv, Selecting
<1> QED BY <1>3, <1>4 DEF SelectionInv, VisitInv, ShortfallInv, TurnsInv, Selecting

(* A selection that begins has counted nothing and excludes nothing. *)
LEMMA BeginSelectInv ==
    ASSUME SetTypes, NEW n \in 1 .. 5, BeginSelect(n), UNCHANGED reading,
           chosen' \in [StratumName -> Seq(Findings)],
           \A s \in StratumName : CapsHold(s, chosen'[s]),
           \A m \in 1 .. 4 :
              m < n /\ Len(chosen'[Strata[m]]) < Quota[Strata[m]] =>
                 \A i \in pools["test"][Strata[m]] \ ToSet(chosen'[Strata[m]]) :
                    Excused(chosen'[Strata[m]], Strata[m], i)
    PROVE  SelectionInv'
<1>1. /\ k' = n /\ picked' = << >> /\ progress' = FALSE /\ visit' = 1 /\ rules' = << >>
      /\ per_rule' = Zero(ToSet(Rules)) /\ per_family' = Zero(Families) /\ turn' = Zero(ToSet(Cwes))
      /\ input' = input /\ pools' = pools
      /\ pc' = IF n > 4 THEN "done" ELSE "round"
      /\ left' = IF n > 4 THEN {} ELSE pools["test"][Strata[n]]
  BY StrataFacts DEF BeginSelect, reading
<1>2. Len(Cwes) \in Nat /\ MAX_PER_FAMILY \in Nat
  BY KeysAssumption, QuotaAssumption
<1>3. n <= 4 => n \in 1 .. 4 /\ Strata[n] \in StratumName /\ Stratum' = Strata[n]
  BY <1>1, StrataFacts DEF Stratum
<1>4. SetTypes'
  <2>1. per_rule' \in [ToSet(Rules) -> Nat] /\ per_family' \in [Families -> Nat] /\ turn' \in [ToSet(Cwes) -> Nat]
    BY <1>1 DEF Zero
  <2>2. left' \in SUBSET Findings
    BY <1>1, <1>3 DEF SetTypes
  <2>3. << >> \in Seq(Findings) /\ << >> \in Seq(ToSet(Rules)) /\ visit' \in 1 .. Len(Cwes) + 1
    BY <1>1, <1>2
  <2>4. k' \in 0 .. 5 /\ pc' \in {"round", "done"} /\ k' # 0 /\ (pc' = "done" <=> k' = 5)
    BY <1>1
  <2> QED BY <1>1, <2>1, <2>2, <2>3, <2>4 DEF SetTypes
<1>5. CapsInv'
  <2>1. ASSUME n <= 4
        PROVE  /\ Len(picked') <= Quota[Stratum']
               /\ \A r \in ToSet(Rules) : per_rule'[r] = Number(picked', OfRule(r)) /\ per_rule'[r] <= RuleCap(Stratum')
               /\ \A fam \in Families : per_family'[fam] = Number(picked', OfFamily(fam)) /\ per_family'[fam] <= MAX_PER_FAMILY
    <3>1. RuleCap(Stratum') >= 0 /\ Quota[Stratum'] >= 0 /\ MAX_PER_FAMILY >= 0 /\ Len(<< >>) = 0
      BY <1>2, <1>3, <2>1, RuleCapType
    <3> QED BY <1>1, <3>1, NumberNone DEF Zero
  <2>2. Selecting' => n <= 4
    BY <1>1 DEF Selecting
  <2> QED BY <1>1, <2>1, <2>2 DEF CapsInv, OfRule, OfFamily
<1>6. VisitInv'
  BY <1>1 DEF VisitInv
<1>7. ShortfallInv'
  <2>1. 1 .. visit' - 1 = {}
    BY <1>1
  <2>2. Selecting' => left' = pools'["test"][Stratum']
    BY <1>1, <1>3 DEF Selecting
  <2> QED BY <1>1, <2>1, <2>2 DEF ShortfallInv, Excused
<1>8. TurnsInv'
  <2>1. \A m \in 1 .. Len(Cwes) : ~(m < 1)
    BY <1>2
  <2>2. (TurnsAre(0))'
    BY <1>1, <2>1, NumberNone DEF TurnsAre, OfCwe
  <2> QED BY <2>2 DEF TurnsInv
<1> QED BY <1>4, <1>5, <1>6, <1>7, <1>8 DEF SelectionInv

(* Reading does not touch the selection. *)
LEMMA ReadFindingInv == SelectionInv /\ ReadFinding => SelectionInv'
<1> SUFFICES ASSUME SelectionInv, ReadFinding PROVE SelectionInv'
  OBVIOUS
<1> DEFINE f == Head(input)
<1>1. /\ pc = "read" /\ input # << >> /\ k = 0 /\ pc' = "read" /\ k' = 0
      /\ UNCHANGED << left, picked, per_rule, per_family, turn, visit, rules, progress, chosen >>
  BY DEF ReadFinding, SelectionInv, SetTypes, selecting
<1>2. input' \in Seq(Findings) /\ f \in Findings
  <2>1. input \in Seq(Findings)
    BY DEF SelectionInv, SetTypes
  <2> QED BY <1>1, <2>1 DEF ReadFinding
<1>3. pools' \in [{"test", "train"} -> [StratumName -> SUBSET Findings]]
  <2>1. \/ pools' = pools
        \/ /\ Labelled(f)
           /\ pools' = [pools EXCEPT ![Split[f.family]][StratumOf(f)] = @ \cup {f}]
    BY DEF ReadFinding
  <2>2. pools \in [{"test", "train"} -> [StratumName -> SUBSET Findings]]
    BY DEF SelectionInv, SetTypes
  <2> HIDE DEF f
  <2>3. Labelled(f) => StratumOf(f) \in StratumName /\ Split[f.family] \in {"test", "train"}
    BY <1>2, LabelType, FindingFacts
  <2> QED BY <1>2, <2>1, <2>2, <2>3
<1>4. SetTypes'
  BY <1>1, <1>2, <1>3 DEF SelectionInv, SetTypes
<1>5. CapsInv' /\ VisitInv' /\ TurnsInv'
  <2>1. \A s \in StratumName : CapsHold(s, chosen[s])
    BY DEF SelectionInv, CapsInv
  <2>2. \A s \in StratumName : CapsHold(s, chosen'[s])
    BY <1>1, <2>1
  <2>3. CapsInv'
    BY <1>1, <2>2 DEF CapsInv, Selecting
  <2> QED BY <1>1, <2>3 DEF VisitInv, TurnsInv, Selecting
<1>6. ShortfallInv'
  <2>1. \A n \in 1 .. 4 : ~(n < 0)
    OBVIOUS
  <2> QED BY <1>1, <2>1 DEF ShortfallInv, Selecting
<1> QED BY <1>4, <1>5, <1>6 DEF SelectionInv

LEMMA FindingsReadInv == SelectionInv /\ FindingsRead => SelectionInv'
<1> SUFFICES ASSUME SelectionInv, FindingsRead PROVE SelectionInv'
  OBVIOUS
<1>1. SetTypes /\ BeginSelect(1) /\ UNCHANGED reading /\ chosen' = chosen
  BY DEF FindingsRead, SelectionInv
<1>2. chosen \in [StratumName -> Seq(Findings)] /\ \A s \in StratumName : CapsHold(s, chosen[s])
  BY DEF SelectionInv, SetTypes, CapsInv
<1>3. 1 \in 1 .. 5 /\ \A m \in 1 .. 4 : ~(m < 1)
  OBVIOUS
<1> QED BY <1>1, <1>2, <1>3, BeginSelectInv

(* What is exhausted stays so while items leave and counters grow. *)
LEMMA ExhaustedStays ==
    ASSUME SetTypes, NEW c, Exhausted(c), k' = k, k \in 1 .. 4, left' \subseteq left,
           per_rule' \in [ToSet(Rules) -> Nat],
           \A r \in ToSet(Rules) : per_rule[r] <= per_rule'[r]
    PROVE  Exhausted(c)'
<1>1. Stratum' = Stratum /\ Stratum \in StratumName
  BY StrataFacts DEF Stratum
<1>2. RuleCap(Stratum) \in Nat /\ RuleCap(Stratum)' = RuleCap(Stratum)
  BY <1>1, RuleCapType DEF RuleCap
<1>3. ASSUME NEW i \in left', i.cwe = c PROVE per_rule'[i.rule] >= RuleCap(Stratum)
  <2>1. i \in left /\ i \in Findings
    BY DEF SetTypes
  <2>2. per_rule[i.rule] >= RuleCap(Stratum) /\ i.rule \in ToSet(Rules)
    BY <1>3, <2>1, FindingFacts DEF Exhausted
  <2>3. per_rule[i.rule] \in Nat /\ per_rule'[i.rule] \in Nat
    BY <2>2 DEF SetTypes
  <2> QED BY <1>2, <2>2, <2>3
<1> QED BY <1>1, <1>2, <1>3 DEF Exhausted

(* The stratum being selected. *)
LEMMA SelectingFacts ==
    ASSUME SetTypes, Selecting
    PROVE  /\ k \in 1 .. 4 /\ Stratum \in StratumName
           /\ RuleCap(Stratum) \in Nat /\ Quota[Stratum] \in Nat /\ MAX_PER_FAMILY \in Nat
           /\ Len(Cwes) \in Nat /\ DOMAIN Cwes = 1 .. Len(Cwes)
           /\ \A n \in 1 .. Len(Cwes) : Cwes[n] \in ToSet(Cwes)
<1>1. k \in 1 .. 4
  BY DEF SetTypes, Selecting
<1>2. Stratum \in StratumName
  BY <1>1, StrataFacts DEF Stratum
<1> QED BY <1>1, <1>2, RuleCapType, QuotaAssumption, KeysAssumption DEF ToSet

(* The rules a visit starts with. *)
LEMMA CandidatesAre ==
    /\ Candidates(Cwes[visit]) \in Seq(ToSet(Rules))
    /\ ToSet(Candidates(Cwes[visit])) =
         { r \in ToSet(Rules) : Group(Cwes[visit], r) # {} /\ per_rule[r] < RuleCap(Stratum) }
<1> DEFINE K == { r \in ToSet(Rules) : Group(Cwes[visit], r) # {} /\ per_rule[r] < RuleCap(Stratum) }
<1>1. Rules \in Seq(ToSet(Rules)) /\ Candidates(Cwes[visit]) = Keep(Rules, K)
  BY KeysAssumption DEF Candidates
<1>2. K \subseteq ToSet(Rules)
  OBVIOUS
<1> HIDE DEF K
<1>3. Keep(Rules, K) \in Seq(ToSet(Rules)) /\ ToSet(Keep(Rules, K)) = ToSet(Rules) \cap K
  BY <1>1, KeepItems
<1> QED BY <1>1, <1>2, <1>3 DEF K

LEMMA VisitCweInv == SelectionInv /\ VisitCwe => SelectionInv'
<1> SUFFICES ASSUME SelectionInv, VisitCwe PROVE SelectionInv'
  OBVIOUS
<1> DEFINE cwe == Cwes[visit]
           cands == Candidates(cwe)
<1>1. /\ pc = "round" /\ visit <= Len(Cwes) /\ ~QuotaMet
      /\ rules' = cands
      /\ UNCHANGED << input, pools, left, picked, per_rule, per_family, turn, progress, k, chosen >>
      /\ IF cands = << >> THEN visit' = visit + 1 /\ pc' = pc
                          ELSE pc' = "pop" /\ visit' = visit
  BY DEF VisitCwe, reading
<1>2. SetTypes /\ CapsInv /\ ShortfallInv /\ TurnsInv /\ Selecting /\ Selecting'
  BY <1>1 DEF SelectionInv, Selecting
<1>3. /\ k \in 1 .. 4 /\ Stratum \in StratumName /\ Stratum' = Stratum
      /\ RuleCap(Stratum) \in Nat /\ Quota[Stratum] \in Nat /\ MAX_PER_FAMILY \in Nat
      /\ Len(Cwes) \in Nat /\ visit \in 1 .. Len(Cwes) /\ picked \in Seq(Findings)
      /\ cwe \in ToSet(Cwes)
  BY <1>1, <1>2, SelectingFacts DEF SetTypes, Stratum
<1>4. /\ cands \in Seq(ToSet(Rules))
      /\ ToSet(cands) = { r \in ToSet(Rules) : Group(cwe, r) # {} /\ per_rule[r] < RuleCap(Stratum) }
  BY CandidatesAre
<1> HIDE DEF cands
<1>5. cands = << >> => Exhausted(cwe)
  <2> SUFFICES ASSUME cands = << >>, NEW i \in left, i.cwe = cwe PROVE per_rule[i.rule] >= RuleCap(Stratum)
    BY DEF Exhausted
  <2>1. i.rule \in ToSet(Rules) /\ per_rule[i.rule] \in Nat
    BY <1>2, FindingFacts DEF SetTypes
  <2>2. i \in Group(cwe, i.rule)
    BY DEF Group
  <2>3. ToSet(cands) = {}
    BY DEF ToSet
  <2> QED BY <1>3, <1>4, <2>1, <2>2, <2>3
<1>6. SetTypes'
  BY <1>1, <1>2, <1>3, <1>4 DEF SetTypes
<1>7. CapsInv'
  <2>1. Len(picked) < Quota[Stratum]
    BY <1>1, <1>3 DEF QuotaMet
  <2>2. \A s \in StratumName : CapsHold(s, chosen'[s])
    BY <1>1, <1>2 DEF CapsInv
  <2> QED BY <1>1, <1>2, <1>3, <2>1, <2>2 DEF CapsInv, OfRule, OfFamily, RuleCap
<1>8. VisitInv'
  <2> SUFFICES ASSUME pc' = "pop"
               PROVE  /\ \A r \in ToSet(cands) : Group(cwe, r) # {} /\ per_rule[r] < RuleCap(Stratum)
                      /\ \A i \in left : i.cwe = cwe /\ per_rule[i.rule] < RuleCap(Stratum) => i.rule \in ToSet(cands)
    BY <1>1, <1>3 DEF VisitInv, Group, RuleCap
  <2>1. ASSUME NEW i \in left, i.cwe = cwe, per_rule[i.rule] < RuleCap(Stratum)
        PROVE  i.rule \in ToSet(cands)
    <3>1. i.rule \in ToSet(Rules)
      BY <1>2, FindingFacts DEF SetTypes
    <3>2. i \in Group(cwe, i.rule)
      BY <2>1 DEF Group
    <3> QED BY <1>4, <2>1, <3>1, <3>2
  <2> QED BY <1>4, <2>1
<1>9. \A c : Exhausted(c)' <=> Exhausted(c)
  BY <1>1, <1>3 DEF Exhausted, RuleCap
<1>10. ShortfallInv'
  <2>1. ~progress' => \A n \in 1 .. visit' - 1 : Exhausted(Cwes[n])'
    <3> SUFFICES ASSUME ~progress, NEW n \in 1 .. visit' - 1 PROVE Exhausted(Cwes[n])
      BY <1>1, <1>9
    <3>1. CASE n \in 1 .. visit - 1
      BY <1>2, <3>1 DEF ShortfallInv
    <3>2. CASE n \notin 1 .. visit - 1
      <4>1. n = visit /\ cands = << >>
        BY <1>1, <1>3, <3>2
      <4> QED BY <1>5, <4>1
    <3> QED BY <3>1, <3>2
  <2> QED BY <1>1, <1>2, <1>3, <2>1 DEF ShortfallInv, Excused
<1>11. TurnsInv'
  <2>1. PICK R \in Nat : TurnsAre(R)
    BY <1>2 DEF TurnsInv
  <2>2. (TurnsAre(R))'
    <3> SUFFICES ASSUME NEW n \in 1 .. Len(Cwes)
                 PROVE  LET due == IF n < visit' THEN R + 1 ELSE R
                            has == Number(picked, OfCwe(Cwes[n]))
                        IN  has <= due /\ (has = due \/ Exhausted(Cwes[n]))
      BY <1>1, <1>9 DEF TurnsAre, OfCwe
    <3>1. Number(picked, OfCwe(Cwes[n])) \in Nat
      BY <1>3, PlacesFinite DEF Number
    <3>2. CASE n = visit /\ cands = << >>
      <4>1. Number(picked, OfCwe(Cwes[n])) <= R
        BY <1>3, <2>1, <3>2 DEF TurnsAre
      <4> QED BY <1>1, <1>5, <3>1, <3>2, <4>1
    <3>3. CASE ~(n = visit /\ cands = << >>)
      <4>1. n < visit' <=> n < visit
        BY <1>1, <1>3, <3>3
      <4> QED BY <2>1, <4>1 DEF TurnsAre
    <3> QED BY <3>2, <3>3
  <2> QED BY <2>1, <2>2 DEF TurnsInv
<1> QED BY <1>6, <1>7, <1>8, <1>10, <1>11 DEF SelectionInv

(* The item a pop takes is of the CWE visited and of a rule below its cap. *)
LEMMA PopFacts ==
    ASSUME SelectionInv, Pop
    PROVE  /\ pc = "pop" /\ Selecting /\ k \in 1 .. 4 /\ Stratum \in StratumName /\ Stratum' = Stratum
           /\ RuleCap(Stratum) \in Nat /\ Quota[Stratum] \in Nat /\ MAX_PER_FAMILY \in Nat
           /\ Len(Cwes) \in Nat /\ visit \in 1 .. Len(Cwes)
           /\ UNCHANGED << input, pools, k, chosen >>
           /\ turn' \in [ToSet(Cwes) -> Nat]
           /\ \E it \in left :
                /\ it \in Findings /\ it.cwe = Cwes[visit] /\ it.rule \in ToSet(rules)
                /\ it.rule \in ToSet(Rules) /\ it.family \in Families
                /\ per_rule[it.rule] < RuleCap(Stratum)
                /\ left' = left \ {it}
                /\ IF per_family[it.family] < MAX_PER_FAMILY THEN Take(it) ELSE Skip(it)
<1> DEFINE cwe  == Cwes[visit]
           rule == rules[(turn[cwe] % Len(rules)) + 1]
<1>1. pc = "pop" /\ Selecting
  BY DEF Pop, Selecting
<1>2. /\ SetTypes /\ visit \in 1 .. Len(Cwes) /\ rules # << >> /\ rules \in Seq(ToSet(Rules))
      /\ turn \in [ToSet(Cwes) -> Nat]
  BY <1>1, SelectingFacts DEF SelectionInv, SetTypes
<1>3. /\ k \in 1 .. 4 /\ Stratum \in StratumName /\ RuleCap(Stratum) \in Nat /\ Quota[Stratum] \in Nat
      /\ MAX_PER_FAMILY \in Nat /\ Len(Cwes) \in Nat /\ cwe \in ToSet(Cwes)
  BY <1>1, <1>2, SelectingFacts
<1>4. UNCHANGED << input, pools, k, chosen >> /\ turn' = [turn EXCEPT ![cwe] = @ + 1]
  BY DEF Pop, reading
<1>5. turn' \in [ToSet(Cwes) -> Nat]
  BY <1>2, <1>3, <1>4
<1>6. rule \in ToSet(rules)
  <2>1. Len(rules) \in Nat \ {0} /\ turn[cwe] \in Nat /\ DOMAIN rules = 1 .. Len(rules)
    BY <1>2, <1>3
  <2> DEFINE m == turn[cwe] % Len(rules)
  <2>2. m \in Nat /\ m < Len(rules)
    BY <2>1
  <2> HIDE DEF m
  <2>3. m + 1 \in DOMAIN rules
    BY <2>1, <2>2
  <2> QED BY <2>3 DEF ToSet, m
<1>7. PICK it \in Group(cwe, rule) :
         /\ left' = left \ {it}
         /\ IF per_family[it.family] < MAX_PER_FAMILY THEN Take(it) ELSE Skip(it)
  BY DEF Pop
<1>8. it \in left /\ it.cwe = cwe /\ it.rule = rule
  BY <1>7 DEF Group
<1>9. it \in Findings
  BY <1>2, <1>8 DEF SetTypes
<1>10. per_rule[it.rule] < RuleCap(Stratum)
  BY <1>1, <1>6, <1>8 DEF SelectionInv, VisitInv
<1>11. Stratum' = Stratum
  BY <1>4 DEF Stratum
<1> HIDE DEF rule
<1> QED BY <1>1, <1>2, <1>3, <1>4, <1>5, <1>6, <1>7, <1>8, <1>9, <1>10, <1>11, FindingFacts

(* An item is picked: its rule, its family and its CWE have one more. *)
LEMMA TakeInv ==
    ASSUME SelectionInv, NEW it \in left, it \in Findings, it.cwe = Cwes[visit],
           it.rule \in ToSet(Rules), it.family \in Families,
           per_rule[it.rule] < RuleCap(Stratum), per_family[it.family] < MAX_PER_FAMILY,
           pc = "pop", Stratum' = Stratum, left' = left \ {it}, UNCHANGED << input, pools, k, chosen >>,
           turn' \in [ToSet(Cwes) -> Nat], Take(it)
    PROVE  SelectionInv'
<1>1. /\ picked' = Append(picked, it)
      /\ per_rule' = [per_rule EXCEPT ![it.rule] = @ + 1]
      /\ per_family' = [per_family EXCEPT ![it.family] = @ + 1]
      /\ progress' = TRUE /\ pc' = "round" /\ visit' = visit + 1 /\ rules' = << >>
  BY DEF Take
<1>2. /\ SetTypes /\ CapsInv /\ ShortfallInv /\ TurnsInv /\ Selecting /\ Selecting'
      /\ picked \in Seq(Findings) /\ per_rule \in [ToSet(Rules) -> Nat] /\ per_family \in [Families -> Nat]
      /\ visit \in 1 .. Len(Cwes) /\ left \in SUBSET Findings
  <2>1. SetTypes /\ Selecting /\ Selecting'
    BY <1>1 DEF SelectionInv, Selecting
  <2>2. Len(Cwes) \in Nat /\ visit \in 1 .. Len(Cwes) + 1 /\ visit <= Len(Cwes)
    BY <2>1, SelectingFacts DEF SetTypes
  <2> QED BY <2>1, <2>2 DEF SelectionInv, SetTypes
<1>3. /\ k \in 1 .. 4 /\ Stratum \in StratumName /\ RuleCap(Stratum) \in Nat /\ Quota[Stratum] \in Nat
      /\ MAX_PER_FAMILY \in Nat /\ Len(Cwes) \in Nat
  BY <1>2, SelectingFacts
<1>4. /\ picked' \in Seq(Findings) /\ Len(picked') = Len(picked) + 1
      /\ per_rule' \in [ToSet(Rules) -> Nat] /\ per_family' \in [Families -> Nat]
  BY <1>1, <1>2
<1>5. \A T : /\ Number(picked, T) \in Nat
             /\ Number(picked', T) = Number(picked, T) + (IF it \in T THEN 1 ELSE 0)
  BY <1>1, <1>2, NumberAppend
<1>6. SetTypes'
  <2>1. visit' \in 1 .. Len(Cwes) + 1 /\ << >> \in Seq(ToSet(Rules)) /\ left' \in SUBSET Findings
    BY <1>1, <1>2, <1>3
  <2>2. pc' = "round" /\ pc = "pop" /\ k' = k
    BY <1>1
  <2> QED BY <1>1, <1>2, <1>4, <2>1, <2>2 DEF SetTypes
<1>7. CapsInv'
  <2>1. Len(picked') <= Quota[Stratum]
    <3>1. Len(picked) < Quota[Stratum] /\ Len(picked) \in Nat
      BY <1>2 DEF CapsInv
    <3> QED BY <1>3, <1>4, <3>1
  <2>2. ASSUME NEW r \in ToSet(Rules)
        PROVE  per_rule'[r] = Number(picked', OfRule(r)) /\ per_rule'[r] <= RuleCap(Stratum)
    <3>1. per_rule[r] = Number(picked, OfRule(r)) /\ per_rule[r] <= RuleCap(Stratum) /\ per_rule[r] \in Nat
      BY <1>2 DEF CapsInv
    <3>2. it \in OfRule(r) <=> it.rule = r
      BY DEF OfRule
    <3>3. per_rule'[r] = IF it.rule = r THEN per_rule[r] + 1 ELSE per_rule[r]
      BY <1>1, <1>2
    <3>4. Number(picked', OfRule(r)) = Number(picked, OfRule(r)) + (IF it \in OfRule(r) THEN 1 ELSE 0)
      BY <1>5
    <3> QED BY <1>3, <3>1, <3>2, <3>3, <3>4
  <2>3. ASSUME NEW fam \in Families
        PROVE  per_family'[fam] = Number(picked', OfFamily(fam)) /\ per_family'[fam] <= MAX_PER_FAMILY
    <3>1. per_family[fam] = Number(picked, OfFamily(fam)) /\ per_family[fam] <= MAX_PER_FAMILY /\ per_family[fam] \in Nat
      BY <1>2 DEF CapsInv
    <3>2. it \in OfFamily(fam) <=> it.family = fam
      BY DEF OfFamily
    <3>3. per_family'[fam] = IF it.family = fam THEN per_family[fam] + 1 ELSE per_family[fam]
      BY <1>1, <1>2
    <3>4. Number(picked', OfFamily(fam)) = Number(picked, OfFamily(fam)) + (IF it \in OfFamily(fam) THEN 1 ELSE 0)
      BY <1>5
    <3> QED BY <1>3, <3>1, <3>2, <3>3, <3>4
  <2>4. \A s \in StratumName : CapsHold(s, chosen'[s])
    BY <1>2 DEF CapsInv
  <2> QED BY <1>1, <2>1, <2>2, <2>3, <2>4 DEF CapsInv, OfRule, OfFamily, RuleCap
<1>8. VisitInv'
  BY <1>1 DEF VisitInv
<1>9. ShortfallInv'
  <2>1. ASSUME NEW i \in pools["test"][Stratum]
        PROVE  i \in left' \/ i \in ToSet(picked') \/ per_family'[i.family] >= MAX_PER_FAMILY
    <3>1. ToSet(picked') = ToSet(picked) \cup {it}
      BY <1>1, <1>2, AppendItems
    <3>2. i \in left \/ i \in ToSet(picked) \/ per_family[i.family] >= MAX_PER_FAMILY
      BY <1>2 DEF ShortfallInv
    <3>3. i \in Findings
      BY <1>2, <1>3 DEF SetTypes
    <3>4. i.family \in Families
      BY <3>3, FindingFacts
    <3>5. per_family[i.family] \in Nat /\ per_family'[i.family] >= per_family[i.family]
      BY <1>1, <1>2, <3>4
    <3>6. per_family'[i.family] \in Nat
      BY <1>4, <3>4
    <3> QED BY <1>3, <3>1, <3>2, <3>5, <3>6
  <2> QED BY <1>1, <1>2, <2>1 DEF ShortfallInv, Excused
<1>10. TurnsInv'
  <2>1. PICK R \in Nat : TurnsAre(R)
    BY <1>2 DEF TurnsInv
  <2>2. \A r \in ToSet(Rules) : per_rule[r] <= per_rule'[r]
    BY <1>1, <1>2
  <2>3. ~Exhausted(Cwes[visit])
    <3>1. per_rule[it.rule] \in Nat
      BY <1>2
    <3> QED BY <1>3, <3>1 DEF Exhausted
  <2>4. ASSUME NEW n \in 1 .. Len(Cwes)
        PROVE  LET due == IF n < visit' THEN R + 1 ELSE R
                   has == Number(picked', OfCwe(Cwes[n]))
               IN  has <= due /\ (has = due \/ Exhausted(Cwes[n])')
    <3>1. LET due == IF n < visit THEN R + 1 ELSE R
              has == Number(picked, OfCwe(Cwes[n]))
          IN  has <= due /\ (has = due \/ Exhausted(Cwes[n]))
      BY <2>1 DEF TurnsAre
    <3>2. it \in OfCwe(Cwes[n]) <=> n = visit
      <4>1. it \in OfCwe(Cwes[n]) <=> Cwes[visit] = Cwes[n]
        BY DEF OfCwe
      <4>2. n \in DOMAIN Cwes /\ visit \in DOMAIN Cwes
        BY <1>2, SelectingFacts
      <4> QED BY <4>1, <4>2, KeysAssumption
    <3>3. /\ Number(picked, OfCwe(Cwes[n])) \in Nat
          /\ Number(picked', OfCwe(Cwes[n])) = Number(picked, OfCwe(Cwes[n])) + (IF n = visit THEN 1 ELSE 0)
      BY <1>5, <3>2
    <3>4. Exhausted(Cwes[n]) => Exhausted(Cwes[n])'
      BY <1>2, <1>3, <1>4, <2>2, ExhaustedStays
    <3>5. CASE n = visit
      <4>1. Number(picked, OfCwe(Cwes[n])) = R
        BY <2>3, <3>1, <3>5
      <4> QED BY <1>1, <1>2, <3>3, <3>5, <4>1
    <3>6. CASE n # visit
      <4>1. n < visit' <=> n < visit
        BY <1>1, <1>2, <3>6
      <4> QED BY <3>1, <3>3, <3>4, <3>6, <4>1
    <3> QED BY <3>5, <3>6
  <2>5. (TurnsAre(R))'
    BY <2>4 DEF TurnsAre, OfCwe
  <2> QED BY <2>1, <2>5 DEF TurnsInv
<1> QED BY <1>6, <1>7, <1>8, <1>9, <1>10 DEF SelectionInv

(* An item is dropped because its family is full: the visit goes on with the
   rules that have another one. *)
LEMMA SkipInv ==
    ASSUME SelectionInv, NEW it \in left, it \in Findings, it.cwe = Cwes[visit],
           it.rule \in ToSet(Rules), it.family \in Families,
           ~(per_family[it.family] < MAX_PER_FAMILY),
           pc = "pop", Stratum' = Stratum, left' = left \ {it}, UNCHANGED << input, pools, k, chosen >>,
           turn' \in [ToSet(Cwes) -> Nat], Skip(it)
    PROVE  SelectionInv'
<1>0. PICK cwe : cwe = Cwes[visit]
  OBVIOUS
<1> DEFINE K    == { r \in ToSet(rules) : Group(cwe, r) \ {it} # {} }
           rest == Keep(rules, K)
<1>1. /\ rules' = rest /\ UNCHANGED << picked, per_rule, per_family, progress >>
      /\ IF rest = << >> THEN pc' = "round" /\ visit' = visit + 1 ELSE pc' = pc /\ visit' = visit
  BY <1>0 DEF Skip
<1>2. /\ SetTypes /\ CapsInv /\ VisitInv /\ ShortfallInv /\ TurnsInv /\ Selecting /\ Selecting'
      /\ picked \in Seq(Findings) /\ per_rule \in [ToSet(Rules) -> Nat] /\ per_family \in [Families -> Nat]
      /\ visit \in 1 .. Len(Cwes) /\ left \in SUBSET Findings /\ rules \in Seq(ToSet(Rules))
  <2>1. SetTypes /\ Selecting /\ Selecting'
    BY <1>1 DEF SelectionInv, Selecting
  <2>2. Len(Cwes) \in Nat /\ visit \in 1 .. Len(Cwes) + 1 /\ visit <= Len(Cwes)
    BY <2>1, SelectingFacts DEF SetTypes
  <2> QED BY <2>1, <2>2 DEF SelectionInv, SetTypes
<1>3. /\ k \in 1 .. 4 /\ Stratum \in StratumName /\ RuleCap(Stratum) \in Nat /\ Quota[Stratum] \in Nat
      /\ MAX_PER_FAMILY \in Nat /\ Len(Cwes) \in Nat
  BY <1>2, SelectingFacts
<1>4. rest \in Seq(ToSet(Rules)) /\ ToSet(rest) = K
  <2>1. K \subseteq ToSet(rules)
    OBVIOUS
  <2> HIDE DEF K
  <2>2. Keep(rules, K) \in Seq(ToSet(Rules)) /\ ToSet(Keep(rules, K)) = ToSet(rules) \cap K
    BY <1>2, KeepItems
  <2> QED BY <2>1, <2>2
<1> HIDE DEF rest
<1>5. \A r : Group(cwe, r)' = Group(cwe, r) \ {it}
  BY DEF Group
<1>6. \A i \in left' : i.cwe = cwe /\ per_rule[i.rule] < RuleCap(Stratum) => i.rule \in ToSet(rest)
  <2> SUFFICES ASSUME NEW i \in left', i.cwe = cwe, per_rule[i.rule] < RuleCap(Stratum)
               PROVE  i.rule \in K
    BY <1>4
  <2>1. i \in left /\ i # it
    OBVIOUS
  <2>2. i.rule \in ToSet(rules)
    BY <1>0, <1>2, <2>1 DEF VisitInv
  <2>3. i \in Group(cwe, i.rule) \ {it}
    BY <2>1 DEF Group
  <2> QED BY <2>2, <2>3
<1>7. rest = << >> => Exhausted(cwe)'
  <2> SUFFICES ASSUME rest = << >>, NEW i \in left', i.cwe = cwe PROVE per_rule[i.rule] >= RuleCap(Stratum)
    BY <1>1 DEF Exhausted, RuleCap
  <2>1. ToSet(rest) = {}
    BY DEF ToSet
  <2>2. i.rule \in ToSet(Rules)
    BY <1>2, FindingFacts
  <2>3. per_rule[i.rule] \in Nat
    BY <1>2, <2>2
  <2> QED BY <1>3, <1>6, <2>1, <2>3
<1>8. \A c : Exhausted(c) => Exhausted(c)'
  BY <1>1 DEF Exhausted, RuleCap
<1>9. SetTypes'
  <2>1. visit' \in 1 .. Len(Cwes) + 1 /\ left' \in SUBSET Findings /\ (pc' = "pop" => visit' <= Len(Cwes))
    BY <1>1, <1>2, <1>3
  <2>2. rest \in Seq(ToSet(Rules)) /\ pc' \in {"round", "pop"} /\ (pc' = "pop" => rest # << >>)
    BY <1>1, <1>4
  <2> QED BY <1>1, <1>2, <2>1, <2>2 DEF SetTypes
<1>10. CapsInv'
  <2>1. \A s \in StratumName : CapsHold(s, chosen'[s])
    BY <1>2 DEF CapsInv
  <2> QED BY <1>1, <1>2, <2>1 DEF CapsInv, OfRule, OfFamily, RuleCap
<1>11. VisitInv'
  <2> SUFFICES ASSUME pc' = "pop"
               PROVE  /\ \A r \in ToSet(rest) : Group(cwe, r)' # {} /\ per_rule[r] < RuleCap(Stratum)
                      /\ \A i \in left' : i.cwe = cwe /\ per_rule[i.rule] < RuleCap(Stratum) => i.rule \in ToSet(rest)
    BY <1>0, <1>1 DEF VisitInv, RuleCap, Group
  <2> QED BY <1>0, <1>2, <1>4, <1>5, <1>6 DEF VisitInv
<1>12. ShortfallInv'
  <2>1. ASSUME NEW i \in pools["test"][Stratum]
        PROVE  i \in left' \/ i \in ToSet(picked) \/ per_family[i.family] >= MAX_PER_FAMILY
    <3>1. i \in left \/ i \in ToSet(picked) \/ per_family[i.family] >= MAX_PER_FAMILY
      BY <1>2 DEF ShortfallInv
    <3>2. per_family[it.family] \in Nat
      BY <1>2
    <3> QED BY <1>3, <3>1, <3>2
  <2>2. ~progress => \A n \in 1 .. visit' - 1 : Exhausted(Cwes[n])'
    <3> SUFFICES ASSUME ~progress, NEW n \in 1 .. visit' - 1 PROVE Exhausted(Cwes[n])'
      OBVIOUS
    <3>1. CASE n \in 1 .. visit - 1
      BY <1>2, <1>8, <3>1 DEF ShortfallInv
    <3>2. CASE n \notin 1 .. visit - 1
      <4>1. n = visit /\ rest = << >>
        BY <1>1, <1>2, <3>2
      <4> QED BY <1>0, <1>7, <4>1
    <3> QED BY <3>1, <3>2
  <2> QED BY <1>1, <1>2, <2>1, <2>2 DEF ShortfallInv, Excused
<1>13. TurnsInv'
  <2>1. PICK R \in Nat : TurnsAre(R)
    BY <1>2 DEF TurnsInv
  <2>2. ASSUME NEW n \in 1 .. Len(Cwes)
        PROVE  LET due == IF n < visit' THEN R + 1 ELSE R
                   has == Number(picked, OfCwe(Cwes[n]))
               IN  has <= due /\ (has = due \/ Exhausted(Cwes[n])')
    <3>1. LET due == IF n < visit THEN R + 1 ELSE R
              has == Number(picked, OfCwe(Cwes[n]))
          IN  has <= due /\ (has = due \/ Exhausted(Cwes[n])')
      BY <1>8, <2>1 DEF TurnsAre
    <3>2. Number(picked, OfCwe(Cwes[n])) \in Nat
      BY <1>2, PlacesFinite DEF Number
    <3>3. CASE n = visit /\ rest = << >>
      <4>1. Number(picked, OfCwe(Cwes[n])) <= R
        BY <1>2, <3>1, <3>3
      <4> QED BY <1>0, <1>1, <1>7, <3>2, <3>3, <4>1
    <3>4. CASE ~(n = visit /\ rest = << >>)
      <4>1. n < visit' <=> n < visit
        BY <1>1, <1>2, <3>4
      <4> QED BY <3>1, <4>1
    <3> QED BY <3>3, <3>4
  <2>3. (TurnsAre(R))'
    BY <1>1, <2>2 DEF TurnsAre, OfCwe
  <2> QED BY <2>1, <2>3 DEF TurnsInv
<1> QED BY <1>9, <1>10, <1>11, <1>12, <1>13 DEF SelectionInv

LEMMA PopInv == SelectionInv /\ Pop => SelectionInv'
<1> SUFFICES ASSUME SelectionInv, Pop PROVE SelectionInv'
  OBVIOUS
<1>1. PICK it \in left :
         /\ it \in Findings /\ it.cwe = Cwes[visit] /\ it.rule \in ToSet(rules)
         /\ it.rule \in ToSet(Rules) /\ it.family \in Families
         /\ per_rule[it.rule] < RuleCap(Stratum)
         /\ left' = left \ {it}
         /\ IF per_family[it.family] < MAX_PER_FAMILY THEN Take(it) ELSE Skip(it)
  BY PopFacts
<1>2. /\ pc = "pop" /\ Stratum' = Stratum /\ UNCHANGED << input, pools, k, chosen >>
      /\ turn' \in [ToSet(Cwes) -> Nat]
  BY PopFacts
<1>3. CASE per_family[it.family] < MAX_PER_FAMILY
  BY <1>1, <1>2, <1>3, TakeInv
<1>4. CASE ~(per_family[it.family] < MAX_PER_FAMILY)
  BY <1>1, <1>2, <1>4, SkipInv
<1> QED BY <1>3, <1>4

(* A round is over with every CWE visited: the next begins one higher. *)
LEMMA NewRoundInv == SelectionInv /\ NewRound => SelectionInv'
<1> SUFFICES ASSUME SelectionInv, NewRound PROVE SelectionInv'
  OBVIOUS
<1>1. /\ pc = "round" /\ pc' = "round" /\ visit > Len(Cwes) /\ progress /\ visit' = 1 /\ progress' = FALSE
      /\ UNCHANGED << input, pools, left, picked, per_rule, per_family, turn, rules, k, chosen >>
  BY DEF NewRound, RoundOver, reading
<1>2. /\ SetTypes /\ CapsInv /\ ShortfallInv /\ TurnsInv /\ Selecting /\ Selecting' /\ Stratum' = Stratum
      /\ picked \in Seq(Findings)
  BY <1>1 DEF SelectionInv, Selecting, SetTypes, Stratum
<1>3. Len(Cwes) \in Nat /\ visit \in Nat
  BY <1>2, SelectingFacts DEF SetTypes
<1>4. SetTypes'
  <2>1. visit' \in 1 .. Len(Cwes) + 1
    <3>1. visit' = 1
      BY <1>1
    <3> QED BY <1>3, <3>1
  <2>2. pc' # "pop"
    BY <1>1
  <2> QED BY <1>1, <1>2, <2>1, <2>2 DEF SetTypes
<1>5. CapsInv'
  <2>1. \A s \in StratumName : CapsHold(s, chosen'[s])
    BY <1>1, <1>2 DEF CapsInv
  <2> QED BY <1>1, <1>2, <2>1 DEF CapsInv, OfRule, OfFamily, RuleCap
<1>6. VisitInv'
  BY <1>1 DEF VisitInv
<1>7. ShortfallInv'
  <2>1. 1 .. visit' - 1 = {}
    BY <1>1
  <2> QED BY <1>1, <1>2, <2>1 DEF ShortfallInv, Excused
<1>8. TurnsInv'
  <2>1. PICK R \in Nat : TurnsAre(R)
    BY <1>2 DEF TurnsInv
  <2>2. ASSUME NEW n \in 1 .. Len(Cwes)
        PROVE  LET due == IF n < visit' THEN (R + 1) + 1 ELSE R + 1
                   has == Number(picked, OfCwe(Cwes[n]))
               IN  has <= due /\ (has = due \/ Exhausted(Cwes[n])')
    <3>1. n < visit /\ ~(n < visit')
      BY <1>1, <1>3
    <3>2. Exhausted(Cwes[n]) => Exhausted(Cwes[n])'
      BY <1>1, <1>2 DEF Exhausted, RuleCap
    <3> QED BY <2>1, <3>1, <3>2 DEF TurnsAre
  <2>3. (TurnsAre(R + 1))'
    BY <1>1, <2>2 DEF TurnsAre, OfCwe
  <2> QED BY <2>1, <2>3 DEF TurnsInv
<1> QED BY <1>4, <1>5, <1>6, <1>7, <1>8 DEF SelectionInv

(* A stratum is done: below its quota only after a round without a draw. *)
LEMMA EndSelectInv == SelectionInv /\ EndSelect => SelectionInv'
<1> SUFFICES ASSUME SelectionInv, EndSelect PROVE SelectionInv'
  OBVIOUS
<1>1. /\ pc = "round" /\ Selecting /\ SetTypes /\ CapsInv /\ ShortfallInv /\ BeginSelect(k + 1) /\ UNCHANGED reading
      /\ chosen' = [chosen EXCEPT ![Stratum] = picked]
      /\ QuotaMet \/ (visit > Len(Cwes) /\ ~progress)
  BY DEF EndSelect, RoundOver, SelectionInv, Selecting
<1>2. /\ k \in 1 .. 4 /\ Stratum \in StratumName /\ RuleCap(Stratum) \in Nat /\ Quota[Stratum] \in Nat
      /\ MAX_PER_FAMILY \in Nat /\ Len(Cwes) \in Nat /\ DOMAIN Cwes = 1 .. Len(Cwes)
      /\ picked \in Seq(Findings) /\ visit \in Nat
      /\ chosen \in [StratumName -> Seq(Findings)]
  BY <1>1, SelectingFacts DEF SetTypes
<1>3. /\ chosen' \in [StratumName -> Seq(Findings)] /\ chosen'[Stratum] = picked
      /\ \A s \in StratumName : s # Stratum => chosen'[s] = chosen[s]
  BY <1>1, <1>2
<1>4. \A s \in StratumName : CapsHold(s, chosen'[s])
  <2>1. CapsHold(Stratum, picked)
    <3>1. /\ Len(picked) <= Quota[Stratum]
          /\ \A r \in ToSet(Rules) : Number(picked, OfRule(r)) <= RuleCap(Stratum)
          /\ \A fam \in Families : Number(picked, OfFamily(fam)) <= MAX_PER_FAMILY
      BY <1>1 DEF CapsInv
    <3> QED BY <1>2, <3>1, CapsHoldIs
  <2>2. \A s \in StratumName : CapsHold(s, chosen[s])
    BY <1>1 DEF CapsInv
  <2> QED BY <1>3, <2>1, <2>2
<1>5. ASSUME NEW m \in 1 .. 4, m < k + 1, Len(chosen'[Strata[m]]) < Quota[Strata[m]],
             NEW i \in pools["test"][Strata[m]] \ ToSet(chosen'[Strata[m]])
      PROVE  Excused(chosen'[Strata[m]], Strata[m], i)
  <2>1. CASE m = k
    <3>1. Strata[m] = Stratum
      BY <2>1 DEF Stratum
    <3>2. visit > Len(Cwes) /\ ~progress
      BY <1>1, <1>2, <1>3, <1>5, <3>1 DEF QuotaMet
    <3>3. i \in left \/ per_family[i.family] >= MAX_PER_FAMILY
      BY <1>1, <1>3, <3>1 DEF ShortfallInv
    <3>4. i \in Findings
      BY <1>1, <1>2, <3>1 DEF SetTypes
    <3>5. i.cwe \in ToSet(Cwes) /\ i.rule \in ToSet(Rules) /\ i.family \in Families
      BY <3>4, FindingFacts
    <3>6. PICK n \in 1 .. Len(Cwes) : i.cwe = Cwes[n]
      BY <1>2, <3>5 DEF ToSet
    <3>7. n \in 1 .. visit - 1
      BY <1>2, <3>2
    <3>8. i \in left => per_rule[i.rule] >= RuleCap(Stratum)
      BY <1>1, <3>2, <3>6, <3>7 DEF ShortfallInv, Exhausted
    <3>9. per_rule[i.rule] = Number(picked, OfRule(i.rule)) /\ per_family[i.family] = Number(picked, OfFamily(i.family))
      BY <1>1, <3>5 DEF CapsInv
    <3> QED BY <1>3, <3>1, <3>3, <3>8, <3>9 DEF Excused
  <2>2. CASE m # k
    <3>1. m < k
      BY <1>2, <1>5, <2>2
    <3>2. Strata[m] # Stratum /\ Strata[m] \in StratumName
      BY <1>2, <2>2, StrataFacts DEF Stratum
    <3>3. chosen'[Strata[m]] = chosen[Strata[m]]
      BY <1>3, <3>2
    <3> QED BY <1>1, <1>5, <3>1, <3>3 DEF ShortfallInv
  <2> QED BY <2>1, <2>2
<1>6. k + 1 \in 1 .. 5
  BY <1>2
<1> QED BY <1>1, <1>3, <1>4, <1>5, <1>6, BeginSelectInv

LEMMA SelectionNextInv == SelectionInv /\ [Next]_setVars => SelectionInv'
<1> SUFFICES ASSUME SelectionInv, [Next]_setVars PROVE SelectionInv'
  OBVIOUS
<1>1. CASE UNCHANGED setVars
  <2>1. UNCHANGED << input, pools, k, pc, left, picked, per_rule, per_family, turn, visit, rules, progress, chosen >>
    BY <1>1 DEF setVars, reading, selecting
  <2>2. SetTypes'
    BY <2>1 DEF SelectionInv, SetTypes
  <2>3. \A s \in StratumName : CapsHold(s, chosen'[s])
    BY <2>1 DEF SelectionInv, CapsInv
  <2>4. CapsInv'
    BY <2>1, <2>3 DEF SelectionInv, CapsInv, Selecting, Stratum, OfRule, OfFamily, RuleCap
  <2>5. VisitInv'
    BY <2>1 DEF SelectionInv, VisitInv, Stratum, Group, RuleCap
  <2>6. ShortfallInv' /\ TurnsInv'
    BY <2>1 DEF SelectionInv, ShortfallInv, TurnsInv, TurnsAre, Exhausted, Excused, Selecting, Stratum,
                OfCwe, RuleCap
  <2> QED BY <2>2, <2>4, <2>5, <2>6 DEF SelectionInv
<1> QED BY <1>1, ReadFindingInv, FindingsReadInv, VisitCweInv, PopInv, NewRoundInv, EndSelectInv DEF Next

(* The inductive invariant holds in every state of the test set's builder, its
   types with it. *)
THEOREM SelectionInvariant == Spec => []SelectionInv
  BY SelectionInitInv, SelectionNextInv, PTL DEF Spec

(* No stratum, finished or being drawn, is over its quota, over a rule's share
   or over a family's limit: for all findings, quotas and draws. *)
THEOREM SelectionWithinCapsAlways == Spec => []SelectionWithinCaps
<1>1. SelectionInv => SelectionWithinCaps
  <2> SUFFICES ASSUME SelectionInv PROVE SelectionWithinCaps
    OBVIOUS
  <2>1. \A s \in StratumName : CapsHold(s, chosen[s])
    BY DEF SelectionInv, CapsInv
  <2>2. ASSUME pc \in {"round", "pop"} PROVE CapsHold(Stratum, picked)
    <3>1. /\ Len(picked) <= Quota[Stratum]
          /\ \A r \in ToSet(Rules) : Number(picked, OfRule(r)) <= RuleCap(Stratum)
          /\ \A fam \in Families : Number(picked, OfFamily(fam)) <= MAX_PER_FAMILY
      BY <2>2 DEF SelectionInv, CapsInv, Selecting
    <3>2. picked \in Seq(Findings)
      BY DEF SelectionInv, SetTypes
    <3> QED BY <3>1, <3>2, CapsHoldIs
  <2> QED BY <2>1, <2>2 DEF SelectionWithinCaps
<1> QED BY <1>1, SelectionInvariant, PTL

(* A stratum that ends below its quota could not have had one item more: none
   that it leaves out is of a rule and of a family with room. *)
THEOREM ShortfallIsRealAlways == Spec => []ShortfallIsReal
<1>1. SelectionInv => ShortfallIsReal
  <2> SUFFICES ASSUME SelectionInv PROVE ShortfallIsReal
    OBVIOUS
  <2>1. ASSUME NEW n \in 1 .. 4, n < k, Len(chosen[Strata[n]]) < Quota[Strata[n]],
               NEW i \in pools["test"][Strata[n]] \ ToSet(chosen[Strata[n]])
        PROVE  \/ Count(chosen[Strata[n]], LAMBDA j : j.rule = i.rule) >= RuleCap(Strata[n])
               \/ Count(chosen[Strata[n]], LAMBDA j : j.family = i.family) >= MAX_PER_FAMILY
    <3>1. Excused(chosen[Strata[n]], Strata[n], i)
      BY <2>1 DEF SelectionInv, ShortfallInv
    <3>2. chosen[Strata[n]] \in Seq(Findings)
      BY StrataFacts DEF SelectionInv, SetTypes
    <3> QED BY <3>1, <3>2, CapsAre DEF Excused
  <2> QED BY <2>1 DEF ShortfallIsReal
<1> QED BY <1>1, SelectionInvariant, PTL

(* The CWEs are served in turns: one gets ahead of another by more than an item
   only when the other has no item left that may be drawn. *)
THEOREM CwesTakeTurnsAlways == Spec => []CwesTakeTurns
<1>1. SelectionInv => CwesTakeTurns
  <2> SUFFICES ASSUME SelectionInv, pc = "round", NEW c \in ToSet(Cwes), NEW d \in ToSet(Cwes),
                      Count(picked, LAMBDA i : i.cwe = c) + 1 < Count(picked, LAMBDA i : i.cwe = d)
               PROVE  Exhausted(c)
    BY DEF CwesTakeTurns, Exhausted
  <2>1. SetTypes /\ Selecting /\ picked \in Seq(Findings)
    BY DEF SelectionInv, SetTypes, Selecting
  <2>2. /\ Number(picked, OfCwe(c)) + 1 < Number(picked, OfCwe(d))
        /\ Number(picked, OfCwe(c)) \in Nat /\ Number(picked, OfCwe(d)) \in Nat
    BY <2>1, CapsAre, PlacesFinite DEF Number
  <2>3. PICK R \in Nat : TurnsAre(R)
    BY <2>1 DEF SelectionInv, TurnsInv
  <2>4. PICK m \in 1 .. Len(Cwes), n \in 1 .. Len(Cwes) : c = Cwes[m] /\ d = Cwes[n]
    BY <2>1, SelectingFacts DEF ToSet
  <2>5. Number(picked, OfCwe(d)) <= R + 1
    BY <2>2, <2>3, <2>4 DEF TurnsAre
  <2>6. Number(picked, OfCwe(c)) # R /\ Number(picked, OfCwe(c)) # R + 1
    BY <2>2, <2>5
  <2> QED BY <2>3, <2>4, <2>6 DEF TurnsAre
<1> QED BY <1>1, SelectionInvariant, PTL

-----------------------------------------------------------------------------
(* The labels                                                               *)

Walk == [marker: Marker, depth: Nat]

(* The lines m .. p that open a block, and those that close one. *)
Opens(a, m, p)  == Cardinality({ q \in m .. p : a[q].opens = 1 })
Closes(a, m, p) == Cardinality({ q \in m .. p : a[q].closes = 1 })

(* The marker of line m governs the flagged line. *)
Governs(a, m) == \A p \in m .. Len(a) : Closes(a, m, p) <= Opens(a, m, p)
IsMark(a, m)  == Governs(a, m) /\ ~a[m].code /\ a[m].marker # "none"

(* What the walk knows when it has come up to line m: it found the lowest mark,
   or there is none, and the depth is the largest number of blocks closed and
   not opened between m and a line below. *)
NoMarkYet(a, m, d) ==
    /\ \A p \in m .. Len(a) : Closes(a, m, p) <= Opens(a, m, p) + d
    /\ d = 0 \/ \E p \in m .. Len(a) : Closes(a, m, p) = Opens(a, m, p) + d
    /\ \A j \in m .. Len(a) : ~IsMark(a, j)

LowestMark(a, m, marker) ==
    \E j \in m .. Len(a) :
       IsMark(a, j) /\ marker = a[j].marker /\ \A l \in m .. Len(a) : IsMark(a, l) => l <= j

WalkKnows(a, m, w) ==
    IF w.marker = "none" THEN NoMarkYet(a, m, w.depth) ELSE LowestMark(a, m, w.marker)

(* A line's braces are counted with those below. *)
LEMMA CountBraces ==
    ASSUME NEW a \in Seq(SourceLine), NEW m \in 1 .. Len(a), NEW p \in m .. Len(a)
    PROVE  /\ Opens(a, m, p) \in Nat /\ Closes(a, m, p) \in Nat
           /\ Opens(a, m + 1, p) \in Nat /\ Closes(a, m + 1, p) \in Nat
           /\ Opens(a, m, p) = Opens(a, m + 1, p) + a[m].opens
           /\ Closes(a, m, p) = Closes(a, m + 1, p) + a[m].closes
           /\ p = m => Opens(a, m + 1, p) = 0 /\ Closes(a, m + 1, p) = 0
<1>1. Len(a) \in Nat /\ m \in Int /\ p \in Int /\ m <= p /\ m + 1 \in Int
  OBVIOUS
<1>2. m .. p = (m + 1 .. p) \cup {m} /\ m \notin m + 1 .. p
  BY <1>1
<1>3. a[m].opens \in {0, 1} /\ a[m].closes \in {0, 1}
  <2>1. a[m] \in SourceLine
    OBVIOUS
  <2> QED BY <2>1 DEF SourceLine
<1>4. \A T \in SUBSET (m + 1 .. p) : IsFiniteSet(T) /\ Cardinality(T) \in Nat
  <2>1. IsFiniteSet(m + 1 .. p)
    BY <1>1, FS_Interval
  <2> QED BY <2>1, FS_Subset, FS_CardinalityType
<1>5. \A T \in SUBSET (m + 1 .. p) : Cardinality(T \cup {m}) = Cardinality(T) + 1
  BY <1>2, <1>4, FS_AddElement
<1> DEFINE Op == { q \in m + 1 .. p : a[q].opens = 1 }
           Cl == { q \in m + 1 .. p : a[q].closes = 1 }
<1>6. /\ { q \in m .. p : a[q].opens = 1 } = IF a[m].opens = 1 THEN Op \cup {m} ELSE Op
      /\ { q \in m .. p : a[q].closes = 1 } = IF a[m].closes = 1 THEN Cl \cup {m} ELSE Cl
  BY <1>2
<1>7. Op \in SUBSET (m + 1 .. p) /\ Cl \in SUBSET (m + 1 .. p)
  OBVIOUS
<1>8. Opens(a, m + 1, p) = Cardinality(Op) /\ Closes(a, m + 1, p) = Cardinality(Cl)
  BY DEF Opens, Closes
<1>9. p = m => Op = {} /\ Cl = {}
  BY <1>1
<1> HIDE DEF Op, Cl
<1>12. Cardinality(Op) \in Nat /\ Cardinality(Cl) \in Nat
  BY <1>4, <1>7
<1>10. Opens(a, m, p) = Cardinality(Op) + a[m].opens
  <2>1. CASE a[m].opens = 1
    BY <1>5, <1>6, <1>7, <2>1 DEF Opens
  <2>2. CASE a[m].opens # 1
    <3>1. Opens(a, m, p) = Cardinality(Op)
      BY <1>6, <2>2 DEF Opens
    <3>2. a[m].opens = 0
      BY <1>3, <2>2
    <3> QED BY <1>12, <3>1, <3>2
  <2> QED BY <1>3, <2>1, <2>2
<1>11. Closes(a, m, p) = Cardinality(Cl) + a[m].closes
  <2>1. CASE a[m].closes = 1
    BY <1>5, <1>6, <1>7, <2>1 DEF Closes
  <2>2. CASE a[m].closes # 1
    <3>1. Closes(a, m, p) = Cardinality(Cl)
      BY <1>6, <2>2 DEF Closes
    <3>2. a[m].closes = 0
      BY <1>3, <2>2
    <3> QED BY <1>12, <3>1, <3>2
  <2> QED BY <1>3, <2>1, <2>2
<1>13. p = m => Cardinality(Op) = 0 /\ Cardinality(Cl) = 0
  <2>1. Cardinality({}) = 0
    BY FS_EmptySet
  <2> QED BY <1>9, <2>1
<1> QED BY <1>3, <1>8, <1>10, <1>11, <1>12, <1>13

LEMMA UpType == \A l \in SourceLine, w \in Walk : Up(l, w) \in Walk
<1> SUFFICES ASSUME NEW l \in SourceLine, NEW w \in Walk PROVE Up(l, w) \in Walk
  OBVIOUS
<1>1. l.marker \in Marker /\ l.opens \in Int /\ l.closes \in Int
  BY DEF SourceLine
<1>2. w.marker \in Marker /\ w.depth \in Nat
  BY DEF Walk
<1> DEFINE d == w.depth + l.closes - l.opens
<1>4. (IF d < 0 THEN 0 ELSE d) \in Nat
  <2>1. d \in Int
    BY <1>1, <1>2
  <2> HIDE DEF d
  <2> QED BY <2>1
<1>3. Up(l, w) = w \/ Up(l, w) = [w EXCEPT !.marker = l.marker]
      \/ Up(l, w) = [w EXCEPT !.depth = IF d < 0 THEN 0 ELSE d]
  BY DEF Up
<1> HIDE DEF d
<1> QED BY <1>1, <1>2, <1>3, <1>4 DEF Walk

(* One line further up the walk still knows. *)
LEMMA UpKnows ==
    ASSUME NEW a \in Seq(SourceLine), NEW m \in 1 .. Len(a), NEW w \in Walk, WalkKnows(a, m + 1, w)
    PROVE  WalkKnows(a, m, Up(a[m], w))
<1>1. Len(a) \in Nat /\ m \in Nat /\ w.depth \in Nat
  BY DEF Walk
<1>2. /\ a[m].opens \in {0, 1} /\ a[m].closes \in {0, 1}
      /\ ~a[m].code => a[m].opens = 0 /\ a[m].closes = 0
  <2>1. a[m] \in SourceLine
    OBVIOUS
  <2> QED BY <2>1 DEF SourceLine
<1>3. m .. Len(a) = (m + 1 .. Len(a)) \cup {m}
  BY <1>1
<1>4. CASE w.marker # "none"
  <2>1. Up(a[m], w) = w
    BY <1>4 DEF Up
  <2>2. PICK j \in m + 1 .. Len(a) :
           IsMark(a, j) /\ w.marker = a[j].marker /\ \A l \in m + 1 .. Len(a) : IsMark(a, l) => l <= j
    BY <1>4 DEF WalkKnows, LowestMark
  <2>3. m <= j /\ j \in m .. Len(a)
    BY <1>1
  <2>4. \A l \in m .. Len(a) : IsMark(a, l) => l <= j
    BY <1>3, <2>2, <2>3
  <2> QED BY <1>4, <2>1, <2>2, <2>3, <2>4 DEF WalkKnows, LowestMark
<1>5. CASE w.marker = "none"
  <2> DEFINE d == w.depth
             e == d + a[m].closes - a[m].opens
             f == IF e < 0 THEN 0 ELSE e
  <2>1. NoMarkYet(a, m + 1, d)
    BY <1>5 DEF WalkKnows
  <2>2. ASSUME NEW p \in m + 1 .. Len(a)
        PROVE  /\ Opens(a, m, p) = Opens(a, m + 1, p) + a[m].opens
               /\ Closes(a, m, p) = Closes(a, m + 1, p) + a[m].closes
               /\ Opens(a, m + 1, p) \in Nat /\ Closes(a, m + 1, p) \in Nat
               /\ Closes(a, m + 1, p) <= Opens(a, m + 1, p) + d
    <3>1. p \in m .. Len(a)
      BY <1>3
    <3> QED BY <2>1, <3>1, CountBraces DEF NoMarkYet
  <2>3. Opens(a, m, m) = a[m].opens /\ Closes(a, m, m) = a[m].closes /\ m \in m .. Len(a)
    <3>1. m \in m .. Len(a)
      BY <1>1
    <3> QED BY <1>2, <3>1, CountBraces
  <2>4. /\ f \in Nat /\ f >= e /\ (f = 0 \/ f = e) /\ d \in Nat
        /\ e \in Int /\ e = d + a[m].closes - a[m].opens
    <3>1. d \in Nat /\ e \in Int
      BY <1>1, <1>2
    <3> HIDE DEF d
    <3>2. e = d + a[m].closes - a[m].opens
      OBVIOUS
    <3> HIDE DEF e
    <3> QED BY <3>1, <3>2
  <2>9. Up(a[m], w) = IF ~a[m].code /\ d = 0 THEN [w EXCEPT !.marker = a[m].marker] ELSE [w EXCEPT !.depth = f]
    BY <1>5 DEF Up
  <2> HIDE DEF d, e, f
  <2>5. \A p \in m .. Len(a) : Closes(a, m, p) <= Opens(a, m, p) + f
    <3>1. Closes(a, m, m) <= Opens(a, m, m) + f
      BY <1>2, <2>3, <2>4
    <3>2. ASSUME NEW p \in m + 1 .. Len(a) PROVE Closes(a, m, p) <= Opens(a, m, p) + f
      <4>1. /\ Opens(a, m, p) = Opens(a, m + 1, p) + a[m].opens
            /\ Closes(a, m, p) = Closes(a, m + 1, p) + a[m].closes
            /\ Opens(a, m + 1, p) \in Nat /\ Closes(a, m + 1, p) \in Nat
            /\ Closes(a, m + 1, p) <= Opens(a, m + 1, p) + d
        BY <2>2
      <4>2. a[m].opens \in Int /\ a[m].closes \in Int
        BY <1>2
      <4> QED BY <2>4, <4>1, <4>2
    <3> QED BY <1>3, <3>1, <3>2
  <2>6. f = 0 \/ \E p \in m .. Len(a) : Closes(a, m, p) = Opens(a, m, p) + f
    <3>1. CASE d = 0 /\ f # 0
      BY <1>2, <2>3, <2>4, <3>1
    <3>2. CASE d # 0 /\ f # 0
      <4>1. PICK p \in m + 1 .. Len(a) : Closes(a, m + 1, p) = Opens(a, m + 1, p) + d
        BY <2>1, <3>2 DEF NoMarkYet
      <4>2. p \in m .. Len(a) /\ f = e
        BY <1>3, <2>4, <3>2
      <4>3. Closes(a, m, p) = Opens(a, m, p) + f
        <5>1. /\ Opens(a, m, p) = Opens(a, m + 1, p) + a[m].opens
              /\ Closes(a, m, p) = Closes(a, m + 1, p) + a[m].closes
              /\ Opens(a, m + 1, p) \in Nat
          BY <2>2
        <5>2. a[m].opens \in Int /\ a[m].closes \in Int
          BY <1>2
        <5> QED BY <2>4, <4>1, <4>2, <5>1, <5>2
      <4> QED BY <4>2, <4>3
    <3> QED BY <3>1, <3>2
  <2>7. CASE ~a[m].code /\ d = 0
    <3>1. Up(a[m], w) = [w EXCEPT !.marker = a[m].marker]
      BY <2>7, <2>9
    <3>2. Up(a[m], w).marker = a[m].marker /\ Up(a[m], w).depth = 0
      BY <2>7, <3>1 DEF Walk, d
    <3>3. f = 0
      BY <1>2, <2>4, <2>7
    <3>4. Governs(a, m)
      <4>1. ASSUME NEW p \in m .. Len(a) PROVE Closes(a, m, p) <= Opens(a, m, p)
        <5>1. Opens(a, m, p) \in Nat
          BY CountBraces
        <5> QED BY <2>5, <3>3, <5>1
      <4> QED BY <4>1 DEF Governs
    <3>5. CASE a[m].marker = "none"
      <4>1. \A j \in m .. Len(a) : ~IsMark(a, j)
        BY <1>3, <2>1, <3>5 DEF NoMarkYet, IsMark
      <4>2. NoMarkYet(a, m, 0)
        BY <2>5, <3>3, <4>1 DEF NoMarkYet
      <4> QED BY <3>2, <3>5, <4>2 DEF WalkKnows
    <3>6. CASE a[m].marker # "none"
      <4>1. IsMark(a, m)
        BY <2>7, <3>4, <3>6 DEF IsMark
      <4>2. \A l \in m .. Len(a) : IsMark(a, l) => l <= m
        BY <1>1, <1>3, <2>1 DEF NoMarkYet
      <4> QED BY <2>3, <3>2, <3>6, <4>1, <4>2 DEF WalkKnows, LowestMark
    <3> QED BY <3>5, <3>6
  <2>8. CASE ~(~a[m].code /\ d = 0)
    <3>1. Up(a[m], w) = [w EXCEPT !.depth = f]
      BY <2>8, <2>9
    <3>2. Up(a[m], w).marker = "none" /\ Up(a[m], w).depth = f
      BY <1>5, <3>1 DEF Walk
    <3>3. ~IsMark(a, m)
      <4> SUFFICES ASSUME ~a[m].code, d # 0 PROVE ~Governs(a, m)
        BY <2>8 DEF IsMark
      <4>1. PICK p \in m + 1 .. Len(a) : Closes(a, m + 1, p) = Opens(a, m + 1, p) + d
        BY <2>1 DEF NoMarkYet
      <4>2. p \in m .. Len(a)
        BY <1>3
      <4>3. ~(Closes(a, m, p) <= Opens(a, m, p))
        BY <1>2, <2>2, <2>4, <4>1
      <4> QED BY <4>2, <4>3 DEF Governs
    <3>4. \A j \in m .. Len(a) : ~IsMark(a, j)
      BY <1>3, <2>1, <3>3 DEF NoMarkYet
    <3>5. NoMarkYet(a, m, f)
      BY <2>5, <2>6, <3>4 DEF NoMarkYet
    <3> QED BY <3>2, <3>5 DEF WalkKnows
  <2> QED BY <2>7, <2>8
<1> QED BY <1>4, <1>5

Below == [marker |-> "none", depth |-> 0]

(* w[m] is what the walk knows when it has come up to line m. *)
WalksUp(w, a) ==
    /\ w[Len(a) + 1] = Below /\ MarkerAbove(a) = w[1].marker
    /\ \A m \in 1 .. Len(a) : w[m] = Up(a[m], w[m + 1])

LEMMA WalkSteps ==
    ASSUME NEW a \in Seq(SourceLine)
    PROVE  \E w \in [1 .. Len(a) + 1 -> Walk] : WalksUp(w, a)
<1> DEFINE N == Len(a)
           D == 1 .. N
           Body(f) == [t \in SUBSET D |-> IF t = {} THEN Below ELSE Up(a[Min(t)], f[t \ {Min(t)}])]
           F == CHOOSE f : f = Body(f)
<1>1. DOMAIN a = D /\ N \in Nat /\ \A n \in D : a[n] \in SourceLine
  OBVIOUS
<1>2. MarkerAbove(a) = F[D].marker
  BY <1>1 DEF MarkerAbove, FoldRight, MapThenFoldSet, Below
<1>3. Below \in Walk
  BY DEF Below, Walk, Marker
<1>4. PICK f \in [SUBSET D -> Walk] :
         \A t \in SUBSET D : f[t] = IF t = {} THEN Below ELSE Up(a[Min(t)], f[t \ {Min(t)}])
  <2> DEFINE g == [p \in D \X Walk |-> Up(a[p[1]], p[2])]
  <2>1. \A n \in D, v \in Walk : g[<< n, v >>] = Up(a[n], v) /\ Up(a[n], v) \in Walk
    BY <1>1, UpType
  <2>2. g \in [D \X Walk -> Walk]
    BY <1>1, UpType
  <2> HIDE DEF g, Body, F
  <2>3. PICK f \in [SUBSET D -> Walk] : FoldsSmallest(f, N, Below, g)
    BY <1>1, <1>3, <2>2, FoldFromTheFirst
  <2>4. ASSUME NEW t \in SUBSET D, t # {}
        PROVE  f[t] = Up(a[Min(t)], f[t \ {Min(t)}])
    <3>1. Min(t) \in D
      BY <1>1, <2>4, MinOfNumbers
    <3>2. f[t \ {Min(t)}] \in Walk
      OBVIOUS
    <3> QED BY <2>1, <2>3, <2>4, <3>1, <3>2 DEF FoldsSmallest
  <2> QED BY <2>3, <2>4 DEF FoldsSmallest
<1>5. F = Body(F)
  <2>1. f = Body(f)
    BY <1>4
  <2> HIDE DEF Body
  <2> QED BY <2>1
<1> HIDE DEF F
<1>6. \A t \in SUBSET D : F[t] = IF t = {} THEN Below ELSE Up(a[Min(t)], F[t \ {Min(t)}])
  BY <1>5
<1> DEFINE w == [m \in 1 .. N + 1 |-> F[m .. N]]
<1>7. w[N + 1] = Below /\ w[1] = F[D]
  <2>1. N + 1 .. N = {} /\ N + 1 \in 1 .. N + 1 /\ 1 \in 1 .. N + 1 /\ {} \in SUBSET D
    BY <1>1
  <2>2. F[{}] = Below
    BY <1>6
  <2>3. w[N + 1] = F[N + 1 .. N] /\ w[1] = F[1 .. N]
    BY <2>1
  <2> HIDE DEF w
  <2> QED BY <2>1, <2>2, <2>3
<1>8. ASSUME NEW m \in D
      PROVE  w[m] = Up(a[m], w[m + 1])
  <2>1. m \in Nat /\ m \in m .. N /\ m .. N \in SUBSET D /\ m .. N # {} /\ m \in 1 .. N + 1 /\ m + 1 \in 1 .. N + 1
    BY <1>1
  <2>2. Min(m .. N) = m
    BY <1>1, <2>1, MinIs
  <2>3. (m .. N) \ {m} = m + 1 .. N
    BY <1>1, <2>1
  <2>4. F[m .. N] = Up(a[m], F[m + 1 .. N])
    BY <1>6, <2>1, <2>2, <2>3
  <2> QED BY <2>1, <2>4
<1> HIDE DEF w
<1>9. w \in [1 .. N + 1 -> Walk]
  <2> DEFINE Good == { n \in 0 .. N : w[N + 1 - n] \in Walk }
  <2>1. 0 \in Good
    BY <1>1, <1>3, <1>7
  <2>2. ASSUME NEW n \in 0 .. N - 1, n \in Good
        PROVE  n + 1 \in Good
    <3>0. N \in Nat /\ n \in Int /\ 0 <= n /\ n <= N - 1
      BY <1>1
    <3>1. N - n \in 1 .. N /\ (N - n) + 1 = N + 1 - n /\ N + 1 - (n + 1) = N - n /\ n + 1 \in 0 .. N
      <4> HIDE DEF N, Good
      <4> QED BY <3>0
    <3>2. w[N - n] = Up(a[N - n], w[N + 1 - n])
      BY <1>8, <3>1
    <3>3. w[N - n] \in Walk
      BY <1>1, <2>2, <3>1, <3>2, UpType
    <3> QED BY <3>1, <3>3
  <2> HIDE DEF Good
  <2>3. \A n \in 0 .. N : n \in Good
    BY <1>1, <2>1, <2>2, UpTo
  <2>4. ASSUME NEW m \in 1 .. N + 1 PROVE w[m] \in Walk
    <3>1. N + 1 - m \in 0 .. N /\ N + 1 - (N + 1 - m) = m
      BY <1>1
    <3> QED BY <2>3, <3>1 DEF Good
  <2>5. DOMAIN w = 1 .. N + 1 /\ w = [m \in 1 .. N + 1 |-> w[m]]
    BY DEF w
  <2> QED BY <2>4, <2>5
<1> QED BY <1>1, <1>2, <1>7, <1>8, <1>9 DEF WalksUp

(* marker_above finds the lowest mark, if there is one. *)
LEMMA MarkerIs ==
    ASSUME NEW a \in Seq(SourceLine)
    PROVE  IF MarkerAbove(a) = "none" THEN \A j \in 1 .. Len(a) : ~IsMark(a, j)
           ELSE LowestMark(a, 1, MarkerAbove(a))
<1> DEFINE N == Len(a)
<1>1. N \in Nat
  OBVIOUS
<1>2. PICK w \in [1 .. N + 1 -> Walk] : WalksUp(w, a)
  BY WalkSteps
<1> DEFINE Good == { n \in 0 .. N : WalkKnows(a, N + 1 - n, w[N + 1 - n]) }
<1>3. N \in Good
  <2>1. 0 \in Good
    <3>1. N + 1 .. N = {} /\ N + 1 - 0 = N + 1 /\ 0 \in 0 .. N
      BY <1>1
    <3>2. w[N + 1].marker = "none" /\ w[N + 1].depth = 0
      BY <1>2 DEF WalksUp, Below
    <3>3. WalkKnows(a, N + 1, w[N + 1])
      BY <3>1, <3>2 DEF WalkKnows, NoMarkYet
    <3> QED BY <3>1, <3>3
  <2>2. ASSUME NEW n \in 0 .. N - 1, n \in Good
        PROVE  n + 1 \in Good
    <3>1. N - n \in 1 .. N /\ (N - n) + 1 = N + 1 - n /\ N + 1 - (n + 1) = N - n /\ n + 1 \in 0 .. N
          /\ N + 1 - n \in 1 .. N + 1
      BY <1>1
    <3>2. w[N - n] = Up(a[N - n], w[(N - n) + 1])
      BY <1>2, <3>1 DEF WalksUp
    <3>3. WalkKnows(a, (N - n) + 1, w[(N - n) + 1])
      BY <2>2, <3>1
    <3>4. w[(N - n) + 1] \in Walk
      BY <1>2, <3>1
    <3>5. WalkKnows(a, N - n, w[N - n])
      BY <3>1, <3>2, <3>3, <3>4, UpKnows
    <3> QED BY <3>1, <3>5
  <2> HIDE DEF Good
  <2>3. \A n \in 0 .. N : n \in Good
    BY <1>1, <2>1, <2>2, UpTo
  <2> QED BY <1>1, <2>3
<1>4. N + 1 - N = 1
  BY <1>1
<1>5. WalkKnows(a, 1, w[1])
  BY <1>3, <1>4
<1> QED BY <1>2, <1>5 DEF WalkKnows, NoMarkYet, WalksUp

(* A finding has the label its lowest mark calls for. *)
LEMMA LabelFollows ==
    ASSUME NEW i, i.above \in Seq(SourceLine)
    PROVE  LET marks == { j \in Governing(i.above) : ~i.above[j].code /\ i.above[j].marker # "none" }
           IN  IF marks = {} THEN Classify(i, "none") = StratumOf(i)
               ELSE \E j \in marks : Classify(i, i.above[j].marker) = StratumOf(i) /\ \A l \in marks : l <= j
<1> DEFINE a     == i.above
           marks == { j \in Governing(a) : ~a[j].code /\ a[j].marker # "none" }
<1>1. marks = { j \in 1 .. Len(a) : IsMark(a, j) }
  BY DEF Governing, IsMark, Governs, Opens, Closes
<1>2. StratumOf(i) = Classify(i, MarkerAbove(a))
  BY DEF StratumOf
<1>3. CASE MarkerAbove(a) = "none"
  <2>1. marks = {}
    BY <1>1, <1>3, MarkerIs
  <2> QED BY <1>2, <1>3, <2>1
<1>4. CASE MarkerAbove(a) # "none"
  <2>1. PICK j \in 1 .. Len(a) :
           IsMark(a, j) /\ MarkerAbove(a) = a[j].marker /\ \A l \in 1 .. Len(a) : IsMark(a, l) => l <= j
    BY <1>4, MarkerIs DEF LowestMark
  <2> HIDE DEF marks
  <2>2. j \in marks /\ \A l \in marks : l <= j
    BY <1>1, <2>1
  <2>3. Classify(i, a[j].marker) = StratumOf(i)
    BY <1>2, <2>1
  <2>4. marks # {} /\ \E n \in marks : Classify(i, a[n].marker) = StratumOf(i) /\ \A l \in marks : l <= n
    BY <2>2, <2>3
  <2> QED BY <2>4 DEF marks
<1> QED BY <1>3, <1>4

(* What a marker and a function must be for each label. *)
LEMMA LabelNeeds ==
    ASSUME NEW i, NEW m
    PROVE  /\ Classify(i, m) = "tp" => i.place = "bad" /\ ~i.arrayDecl /\ m \in {"FLAW", "POTENTIAL FLAW"}
           /\ Classify(i, m) \in {"fp_paired", "fp_other"} => i.place # "bad"
BY DEF Classify

LEMMA PoolsNextInv == SelectionInv /\ PoolsInv /\ [Next]_setVars => PoolsInv'
<1> SUFFICES ASSUME SelectionInv, PoolsInv, [Next]_setVars PROVE PoolsInv'
  OBVIOUS
<1>1. pools \in [{"test", "train"} -> [StratumName -> SUBSET Findings]]
  BY DEF SelectionInv, SetTypes
<1>2. CASE pools' = pools
  BY <1>2 DEF PoolsInv
<1>3. CASE ReadFinding /\ pools' # pools
  <2> DEFINE f == Head(input)
  <2>1. pools' = [pools EXCEPT ![Split[f.family]][StratumOf(f)] = @ \cup {f}]
    BY <1>3 DEF ReadFinding
  <2> HIDE DEF f
  <2>2. ASSUME NEW side \in {"test", "train"}, NEW s \in StratumName, NEW i \in pools'[side][s]
        PROVE  StratumOf(i) = s /\ i.place \in {"bad", "good"}
    <3>1. i \in pools[side][s] \/ (i = f /\ s = StratumOf(f))
      BY <1>1, <2>1, <2>2
    <3>2. f.place \in {"bad", "good"}
      BY <1>3 DEF ReadFinding, Labelled, f
    <3> QED BY <3>1, <3>2 DEF PoolsInv
  <2> QED BY <2>2 DEF PoolsInv
<1>4. CASE ~ReadFinding
  BY <1>2, <1>4 DEF Next, FindingsRead, VisitCwe, Pop, NewRound, EndSelect, setVars, reading
<1> QED BY <1>2, <1>3, <1>4

(* Every item of a pool is in the stratum its nearest governing marker calls
   for, whatever blocks open and close above it: for functions of any length.  A
   true positive is under a flaw marker in a bad() function, and the paired and
   other false positives are in good functions. *)
THEOREM LabelsFollowBlocksAlways == Spec => []LabelsFollowBlocks
<1>1. Init => PoolsInv
  BY DEF Init, PoolsInv
<1>2. SelectionInv /\ PoolsInv => LabelsFollowBlocks
  <2> SUFFICES ASSUME SelectionInv, PoolsInv, NEW side \in {"test", "train"}, NEW s \in StratumName,
                      NEW i \in pools[side][s]
               PROVE  LET marks == { j \in Governing(i.above) : ~i.above[j].code /\ i.above[j].marker # "none" }
                      IN  /\ IF marks = {} THEN Classify(i, "none") = s
                             ELSE \E j \in marks : Classify(i, i.above[j].marker) = s /\ \A l \in marks : l <= j
                          /\ s = "tp" => /\ i.place = "bad" /\ ~i.arrayDecl
                                         /\ \E j \in marks : i.above[j].marker \in {"FLAW", "POTENTIAL FLAW"}
                          /\ s \in {"fp_paired", "fp_other"} => i.place = "good"
    BY DEF LabelsFollowBlocks
  <2> DEFINE marks == { j \in Governing(i.above) : ~i.above[j].code /\ i.above[j].marker # "none" }
  <2>1. i \in Findings
    BY DEF SelectionInv, SetTypes
  <2>2. i.above \in Seq(SourceLine)
    BY <2>1, FindingFacts
  <2>3. StratumOf(i) = s /\ i.place \in {"bad", "good"}
    BY DEF PoolsInv
  <2>4. IF marks = {} THEN Classify(i, "none") = s
        ELSE \E j \in marks : Classify(i, i.above[j].marker) = s /\ \A l \in marks : l <= j
    BY <2>2, <2>3, LabelFollows
  <2> HIDE DEF marks
  <2>5. s = "tp" => /\ i.place = "bad" /\ ~i.arrayDecl
                    /\ \E j \in marks : i.above[j].marker \in {"FLAW", "POTENTIAL FLAW"}
    <3> SUFFICES ASSUME s = "tp"
                 PROVE  /\ i.place = "bad" /\ ~i.arrayDecl
                        /\ \E j \in marks : i.above[j].marker \in {"FLAW", "POTENTIAL FLAW"}
      OBVIOUS
    <3>1. Classify(i, "none") # "tp"
      BY DEF Classify
    <3>2. PICK j \in marks : Classify(i, i.above[j].marker) = "tp"
      BY <2>4, <3>1
    <3> QED BY <3>2, LabelNeeds
  <2>6. s \in {"fp_paired", "fp_other"} => i.place = "good"
    <3>1. s = Classify(i, MarkerAbove(i.above))
      BY <2>3 DEF StratumOf
    <3> QED BY <2>3, <3>1, LabelNeeds
  <2> QED BY <2>4, <2>5, <2>6 DEF marks
<1> QED BY <1>1, <1>2, SelectionInvariant, PoolsNextInv, PTL DEF Spec

-----------------------------------------------------------------------------
(* The test set and the training set                                        *)

(* A key is in one pool, once, and on the side its family was assigned to. *)
KeysInv ==
    /\ \A side \in {"test", "train"}, s \in StratumName :
          \A i \in pools[side][s] : i.key \in seen /\ Split[i.family] = side /\ StratumOf(i) = s
    /\ \A side1, side2 \in {"test", "train"}, s, t \in StratumName :
          \A i \in pools[side1][s], j \in pools[side2][t] : i.key = j.key => i = j

(* An item of the stratum's pool is left, or picked once, or neither. *)
DrawnInv ==
    /\ Selecting => /\ left \subseteq pools["test"][Stratum]
                    /\ ToSet(picked) \subseteq pools["test"][Stratum] \ left
                    /\ IsInjective(picked)
    /\ \A n \in 1 .. 4 : IF n < k THEN /\ ToSet(chosen[Strata[n]]) \subseteq pools["test"][Strata[n]]
                                       /\ IsInjective(chosen[Strata[n]])
                                  ELSE chosen[Strata[n]] = << >>

(* No finding is in the test set twice, in one stratum or in two, and none is of
   a family the training set has items of. *)
TestSetIsApart ==
    \A s, t \in StratumName : \A m \in DOMAIN chosen[s] :
       /\ \A n \in DOMAIN chosen[t] : chosen[s][m].key = chosen[t][n].key => s = t /\ m = n
       /\ \A i \in pools["train"][t] : i.key # chosen[s][m].key /\ i.family # chosen[s][m].family

LEMMA KeysNextInv == SelectionInv /\ KeysInv /\ [Next]_setVars => KeysInv'
<1> SUFFICES ASSUME SelectionInv, KeysInv, [Next]_setVars PROVE KeysInv'
  OBVIOUS
<1>1. pools \in [{"test", "train"} -> [StratumName -> SUBSET Findings]]
  BY DEF SelectionInv, SetTypes
<1>2. CASE pools' = pools /\ seen \subseteq seen'
  BY <1>2 DEF KeysInv
<1>3. CASE ReadFinding /\ pools' # pools
  <2> DEFINE f == Head(input)
  <2>1. /\ pools' = [pools EXCEPT ![Split[f.family]][StratumOf(f)] = @ \cup {f}]
        /\ f.key \notin seen /\ seen' = seen \cup {f.key}
    BY <1>3 DEF ReadFinding
  <2> HIDE DEF f
  <2>2. ASSUME NEW side \in {"test", "train"}, NEW s \in StratumName, NEW i \in pools'[side][s]
        PROVE  i \in pools[side][s] \/ (i = f /\ s = StratumOf(f) /\ side = Split[f.family])
    BY <1>1, <2>1, <2>2
  <2>3. ASSUME NEW side \in {"test", "train"}, NEW s \in StratumName, NEW i \in pools'[side][s]
        PROVE  i.key \in seen' /\ Split[i.family] = side /\ StratumOf(i) = s
    BY <2>1, <2>2, <2>3 DEF KeysInv
  <2>4. ASSUME NEW side1 \in {"test", "train"}, NEW side2 \in {"test", "train"},
               NEW s \in StratumName, NEW t \in StratumName,
               NEW i \in pools'[side1][s], NEW j \in pools'[side2][t], i.key = j.key
        PROVE  i = j
    <3>1. i \in pools[side1][s] \/ i = f
      BY <2>2
    <3>2. j \in pools[side2][t] \/ j = f
      BY <2>2
    <3>3. (i \in pools[side1][s] => i.key \in seen) /\ (j \in pools[side2][t] => j.key \in seen)
      BY DEF KeysInv
    <3> QED BY <2>1, <2>4, <3>1, <3>2, <3>3 DEF KeysInv
  <2> QED BY <2>3, <2>4 DEF KeysInv
<1>4. CASE ReadFinding /\ pools' = pools
  BY <1>2, <1>4 DEF ReadFinding
<1>5. CASE ~ReadFinding
  BY <1>2, <1>5 DEF Next, FindingsRead, VisitCwe, Pop, NewRound, EndSelect, setVars, reading
<1> QED BY <1>3, <1>4, <1>5

(* A list without doubles has none after an item it does not have. *)
LEMMA InjectiveAppend ==
    ASSUME NEW s \in Seq(Findings), NEW x \in Findings, IsInjective(s), x \notin ToSet(s)
    PROVE  IsInjective(Append(s, x))
<1>1. /\ DOMAIN s = 1 .. Len(s) /\ DOMAIN Append(s, x) = 1 .. Len(s) + 1 /\ Len(s) \in Nat
      /\ Append(s, x)[Len(s) + 1] = x /\ \A n \in 1 .. Len(s) : Append(s, x)[n] = s[n] /\ s[n] # x
  BY DEF ToSet
<1>2. \A n \in 1 .. Len(s) + 1 : n \in 1 .. Len(s) \/ n = Len(s) + 1
  BY <1>1
<1> QED BY <1>1, <1>2 DEF IsInjective

LEMMA InjectiveNone == IsInjective(<< >>) /\ ToSet(<< >>) = {}
  BY DEF IsInjective, ToSet

LEMMA DrawnNextInv == SelectionInv /\ DrawnInv /\ [Next]_setVars => DrawnInv'
<1> SUFFICES ASSUME SelectionInv, DrawnInv, [Next]_setVars PROVE DrawnInv'
  OBVIOUS
<1>0. SetTypes
  BY DEF SelectionInv
<1>1. ASSUME NEW n \in 1 .. 5, BeginSelect(n), pools' = pools,
             \A m \in 1 .. 4 : IF m < n THEN /\ ToSet(chosen'[Strata[m]]) \subseteq pools["test"][Strata[m]]
                                             /\ IsInjective(chosen'[Strata[m]])
                                        ELSE chosen'[Strata[m]] = << >>
      PROVE  DrawnInv'
  <2>1. /\ k' = n /\ picked' = << >> /\ pc' = IF n > 4 THEN "done" ELSE "round"
        /\ left' = IF n > 4 THEN {} ELSE pools["test"][Strata[n]]
    BY <1>1, StrataFacts DEF BeginSelect
  <2>2. Selecting' => left' = pools["test"][Stratum'] /\ picked' = << >>
    BY <2>1 DEF Selecting, Stratum
  <2> QED BY <1>1, <2>1, <2>2, InjectiveNone DEF DrawnInv
<1>2. CASE UNCHANGED << pools, k, picked, left, chosen >> /\ (Selecting' => Selecting)
  BY <1>2 DEF DrawnInv, Stratum
<1>3. CASE ReadFinding
  <2>1. k' = k /\ chosen' = chosen /\ k = 0 /\ pc' = "read"
    BY <1>0, <1>3 DEF ReadFinding, SetTypes
  <2>2. \A n \in 1 .. 4 : ~(n < 0)
    OBVIOUS
  <2> QED BY <2>1, <2>2 DEF DrawnInv, Selecting
<1>4. CASE FindingsRead
  <2>1. BeginSelect(1) /\ pools' = pools /\ chosen' = chosen /\ k = 0 /\ 1 \in 1 .. 5
    BY <1>0, <1>4 DEF FindingsRead, SetTypes, reading
  <2>2. \A n \in 1 .. 4 : ~(n < 0) /\ ~(n < 1)
    OBVIOUS
  <2> QED BY <1>1, <2>1, <2>2 DEF DrawnInv
<1>5. CASE VisitCwe \/ NewRound \/ UNCHANGED setVars
  BY <1>2, <1>5 DEF VisitCwe, NewRound, RoundOver, setVars, reading, selecting, Selecting
<1>6. CASE Pop
  <2>1. PICK it \in left :
           /\ it \in Findings /\ left' = left \ {it}
           /\ IF per_family[it.family] < MAX_PER_FAMILY THEN Take(it) ELSE Skip(it)
    BY <1>6, PopFacts
  <2>2. UNCHANGED << pools, k, chosen >> /\ Selecting /\ Stratum' = Stratum
    BY <1>6, PopFacts
  <2>3. picked' = picked \/ picked' = Append(picked, it)
    BY <2>1 DEF Take, Skip
  <2>4. picked \in Seq(Findings) /\ IsInjective(picked) /\ it \notin ToSet(picked)
    BY <1>0, <2>1, <2>2 DEF SetTypes, DrawnInv
  <2>5. IsInjective(picked') /\ ToSet(picked') \subseteq ToSet(picked) \cup {it}
    <3>1. CASE picked' = picked
      BY <2>4, <3>1
    <3>2. CASE picked' = Append(picked, it)
      <4>1. IsInjective(Append(picked, it))
        BY <2>1, <2>4, InjectiveAppend
      <4>2. ToSet(Append(picked, it)) = ToSet(picked) \cup {it}
        BY <2>1, <2>4, AppendItems
      <4> QED BY <3>2, <4>1, <4>2
    <3> QED BY <2>3, <3>1, <3>2
  <2>6. ToSet(picked') \subseteq pools["test"][Stratum] \ left' /\ left' \subseteq pools["test"][Stratum]
    BY <2>1, <2>2, <2>5 DEF DrawnInv
  <2> QED BY <2>2, <2>5, <2>6 DEF DrawnInv
<1>7. CASE EndSelect
  <2>1. /\ BeginSelect(k + 1) /\ pools' = pools /\ chosen' = [chosen EXCEPT ![Stratum] = picked] /\ Selecting
    BY <1>7 DEF EndSelect, RoundOver, Selecting, reading
  <2>2. k \in 1 .. 4 /\ Stratum \in StratumName /\ k + 1 \in 1 .. 5
    BY <1>0, <2>1, SelectingFacts
  <2>3. /\ chosen'[Stratum] = picked /\ \A s \in StratumName : s # Stratum => chosen'[s] = chosen[s]
    BY <1>0, <2>1, <2>2 DEF SetTypes
  <2>4. ASSUME NEW m \in 1 .. 4
        PROVE  IF m < k + 1 THEN /\ ToSet(chosen'[Strata[m]]) \subseteq pools["test"][Strata[m]]
                                 /\ IsInjective(chosen'[Strata[m]])
                            ELSE chosen'[Strata[m]] = << >>
    <3>1. CASE m = k
      BY <2>1, <2>2, <2>3, <3>1 DEF DrawnInv, Stratum
    <3>2. CASE m # k
      <4>1. Strata[m] # Stratum /\ Strata[m] \in StratumName /\ (m < k + 1 <=> m < k)
        BY <2>2, <3>2, StrataFacts DEF Stratum
      <4> QED BY <2>3, <4>1 DEF DrawnInv
    <3> QED BY <3>1, <3>2
  <2> QED BY <1>1, <2>1, <2>2, <2>4
<1> QED BY <1>3, <1>4, <1>5, <1>6, <1>7 DEF Next

(* The test set has each finding once and shares no finding and no family with
   the training set, although the two analyzers report a line twice, and the
   strata are drawn from pools filled by one reader: for all findings. *)
THEOREM TestSetIsApartAlways == Spec => []TestSetIsApart
<1>1. Init => KeysInv /\ DrawnInv
  <2> SUFFICES ASSUME Init PROVE KeysInv /\ DrawnInv
    OBVIOUS
  <2>1. KeysInv
    BY DEF Init, KeysInv
  <2>2. k = 0 /\ pc = "read" /\ \A s \in StratumName : chosen[s] = << >>
    BY DEF Init
  <2>3. \A n \in 1 .. 4 : ~(n < 0) /\ Strata[n] \in StratumName
    BY StrataFacts
  <2> QED BY <2>1, <2>2, <2>3 DEF DrawnInv, Selecting
<1>2. SelectionInv /\ KeysInv /\ DrawnInv => TestSetIsApart
  <2> SUFFICES ASSUME SelectionInv, KeysInv, DrawnInv, NEW s \in StratumName, NEW t \in StratumName,
                      NEW m \in DOMAIN chosen[s]
               PROVE  /\ \A n \in DOMAIN chosen[t] : chosen[s][m].key = chosen[t][n].key => s = t /\ m = n
                      /\ \A i \in pools["train"][t] : i.key # chosen[s][m].key /\ i.family # chosen[s][m].family
    BY DEF TestSetIsApart
  <2>1. ASSUME NEW u \in StratumName
        PROVE  ToSet(chosen[u]) \subseteq pools["test"][u] /\ IsInjective(chosen[u])
    <3>1. PICK n \in 1 .. 4 : u = Strata[n]
      BY StrataFacts
    <3>2. CASE n < k
      BY <3>1, <3>2 DEF DrawnInv
    <3>3. CASE ~(n < k)
      BY <3>1, <3>3, InjectiveNone DEF DrawnInv
    <3> QED BY <3>2, <3>3
  <2>2. chosen[s][m] \in pools["test"][s]
    BY <2>1 DEF ToSet
  <2>3. ASSUME NEW n \in DOMAIN chosen[t], chosen[s][m].key = chosen[t][n].key
        PROVE  s = t /\ m = n
    <3>1. chosen[t][n] \in pools["test"][t]
      BY <2>1 DEF ToSet
    <3>2. chosen[s][m] = chosen[t][n]
      BY <2>2, <2>3, <3>1 DEF KeysInv
    <3>3. StratumOf(chosen[s][m]) = s /\ StratumOf(chosen[t][n]) = t
      BY <2>2, <3>1 DEF KeysInv
    <3>4. s = t
      BY <3>2, <3>3
    <3> QED BY <2>1, <3>2, <3>4 DEF IsInjective
  <2>4. ASSUME NEW i \in pools["train"][t]
        PROVE  i.key # chosen[s][m].key /\ i.family # chosen[s][m].family
    <3>1. Split[i.family] = "train" /\ Split[chosen[s][m].family] = "test"
      BY <2>2 DEF KeysInv
    <3>2. i.key = chosen[s][m].key => i = chosen[s][m]
      BY <2>2 DEF KeysInv
    <3> QED BY <3>1, <3>2
  <2> QED BY <2>3, <2>4
<1> QED BY <1>1, <1>2, SelectionInvariant, KeysNextInv, DrawnNextInv, PTL DEF Spec

-----------------------------------------------------------------------------
(* The selection cannot go on for ever, and never pops from an empty group   *)

FinitePools ==
    /\ \A side \in {"test", "train"}, s \in StratumName : IsFiniteSet(pools[side][s])
    /\ IsFiniteSet(left)

(* What is still to do: findings and strata, items, a round after this one, CWEs
   of this round, and the visit of this CWE. *)
Strands  == Len(input) + 5 - k
Items    == Cardinality(left)
Round    == IF progress THEN 1 ELSE 0
Visits   == Len(Cwes) + 1 - visit
Entering == IF pc = "round" THEN 1 ELSE 0

(* The first of the five that a step changes becomes less. *)
WorkFalls ==
    \/ Strands' < Strands
    \/ /\ Strands' = Strands
       /\ \/ Items' < Items
          \/ /\ Items' = Items
             /\ \/ Round' < Round
                \/ /\ Round' = Round
                   /\ \/ Visits' < Visits
                      \/ Visits' = Visits /\ Entering' < Entering

WorkIsLeft ==
    Strands \in Nat /\ Items \in Nat /\ Round \in Nat /\ Visits \in Nat /\ Entering \in Nat

(* rules[turn % len(rules)] and the pop after it: there is a rule, and it has
   an item. *)
NeverPopsEmpty ==
    pc = "pop" => /\ Len(rules) > 0
                  /\ Group(Cwes[visit], rules[(turn[Cwes[visit]] % Len(rules)) + 1]) # {}

LEMMA FinitePoolsNext == SelectionInv /\ FinitePools /\ [Next]_setVars => FinitePools'
<1> SUFFICES ASSUME SelectionInv, FinitePools, [Next]_setVars PROVE FinitePools'
  OBVIOUS
<1>0. SetTypes
  BY DEF SelectionInv
<1>1. ASSUME NEW n \in 1 .. 5, BeginSelect(n), pools' = pools
      PROVE  FinitePools'
  <2>1. left' = IF n > 4 THEN {} ELSE pools["test"][Strata[n]]
    BY <1>1, StrataFacts DEF BeginSelect
  <2>2. IsFiniteSet(left')
    <3>1. CASE n > 4
      BY <2>1, <3>1, FS_EmptySet
    <3>2. CASE ~(n > 4)
      <4>1. Strata[n] \in StratumName
        BY <3>2, StrataFacts
      <4> QED BY <2>1, <3>2, <4>1 DEF FinitePools
    <3> QED BY <3>1, <3>2
  <2> QED BY <1>1, <2>2 DEF FinitePools
<1>2. CASE UNCHANGED << pools, left >>
  BY <1>2 DEF FinitePools
<1>3. CASE ReadFinding
  <2> DEFINE f == Head(input)
  <2>1. left' = left
    BY <1>3 DEF ReadFinding, selecting
  <2>2. CASE pools' = pools
    BY <1>2, <2>1, <2>2
  <2>3. CASE pools' # pools
    <3>1. pools' = [pools EXCEPT ![Split[f.family]][StratumOf(f)] = @ \cup {f}]
      BY <1>3, <2>3 DEF ReadFinding
    <3> HIDE DEF f
    <3>2. ASSUME NEW side \in {"test", "train"}, NEW s \in StratumName
          PROVE  IsFiniteSet(pools'[side][s])
      <4>1. IsFiniteSet(pools[side][s])
        BY DEF FinitePools
      <4>2. IsFiniteSet(pools[side][s] \cup {f})
        BY <4>1, FS_AddElement
      <4>3. pools'[side][s] = pools[side][s] \/ pools'[side][s] = pools[side][s] \cup {f}
        BY <1>0, <3>1 DEF SetTypes
      <4> QED BY <4>1, <4>2, <4>3
    <3> QED BY <2>1, <3>2 DEF FinitePools
  <2> QED BY <2>2, <2>3
<1>4. CASE FindingsRead
  <2>1. BeginSelect(1) /\ pools' = pools /\ 1 \in 1 .. 5
    BY <1>4 DEF FindingsRead, reading
  <2> QED BY <1>1, <2>1
<1>5. CASE VisitCwe \/ NewRound \/ UNCHANGED setVars
  BY <1>2, <1>5 DEF VisitCwe, NewRound, setVars, reading, selecting
<1>6. CASE Pop
  <2>1. PICK it \in left : left' = left \ {it}
    BY <1>6, PopFacts
  <2>2. IsFiniteSet(left')
    BY <2>1, FS_RemoveElement DEF FinitePools
  <2>3. pools' = pools
    BY <1>6, PopFacts
  <2> QED BY <2>2, <2>3 DEF FinitePools
<1>7. CASE EndSelect
  <2>1. BeginSelect(k + 1) /\ pools' = pools /\ k + 1 \in 1 .. 5
    BY <1>0, <1>7, SelectingFacts DEF EndSelect, RoundOver, Selecting, reading
  <2> QED BY <1>1, <2>1
<1> QED BY <1>3, <1>4, <1>5, <1>6, <1>7 DEF Next

LEMMA WorkIsANumber == SelectionInv /\ FinitePools => WorkIsLeft
<1> SUFFICES ASSUME SelectionInv, FinitePools PROVE WorkIsLeft
  OBVIOUS
<1>1. Items \in Nat
  BY FS_CardinalityType DEF FinitePools, Items
<1>2. Len(input) \in Nat /\ k \in 0 .. 5 /\ visit \in 1 .. Len(Cwes) + 1 /\ Len(Cwes) \in Nat
  BY KeysAssumption DEF SelectionInv, SetTypes
<1>3. Strands \in Nat
  BY <1>2 DEF Strands
<1>4. Visits \in Nat
  BY <1>2 DEF Visits
<1> QED BY <1>1, <1>3, <1>4 DEF WorkIsLeft, Round, Entering

LEMMA WorkFallsInAStep == SelectionInv /\ FinitePools /\ Next => WorkFalls
<1> SUFFICES ASSUME SelectionInv, FinitePools, Next PROVE WorkFalls
  OBVIOUS
<1>0. /\ SetTypes /\ WorkIsLeft /\ Len(input) \in Nat /\ k \in 0 .. 5
      /\ visit \in 1 .. Len(Cwes) + 1 /\ Len(Cwes) \in Nat
  BY WorkIsANumber, KeysAssumption DEF SelectionInv, SetTypes
<1>1. CASE ReadFinding
  <2>1. input # << >> /\ input' = Tail(input) /\ k' = k
    BY <1>1 DEF ReadFinding
  <2>2. Len(input') = Len(input) - 1
    BY <1>0, <2>1 DEF SetTypes
  <2> QED BY <1>0, <2>1, <2>2 DEF WorkFalls, Strands
<1>2. CASE FindingsRead
  <2>1. k = 0 /\ k' = 1 /\ input' = input
    BY <1>0, <1>2 DEF FindingsRead, BeginSelect, SetTypes, reading
  <2> QED BY <1>0, <2>1 DEF WorkFalls, Strands
<1>3. CASE VisitCwe
  <2>1. /\ UNCHANGED << input, k, left, progress >> /\ pc = "round"
        /\ \/ visit' = visit + 1
           \/ visit' = visit /\ pc' = "pop"
    BY <1>3 DEF VisitCwe, reading
  <2>2. Strands' = Strands /\ Items' = Items /\ Round' = Round
    BY <2>1 DEF Strands, Items, Round
  <2>3. CASE visit' = visit + 1
    BY <1>0, <2>2, <2>3 DEF WorkFalls, Visits
  <2>4. CASE visit' = visit /\ pc' = "pop"
    <3>1. Visits' = Visits /\ Entering' = 0 /\ Entering = 1
      BY <2>1, <2>4 DEF Visits, Entering
    <3> QED BY <2>2, <3>1 DEF WorkFalls
  <2> QED BY <2>1, <2>3, <2>4
<1>4. CASE Pop
  <2>1. UNCHANGED << input, k >>
    BY <1>4, PopFacts
  <2>2. PICK it \in left : left' = left \ {it}
    BY <1>4, PopFacts
  <2>3. Items' = Items - 1
    BY <2>2, FS_RemoveElement DEF FinitePools, Items
  <2>4. Items' < Items
    BY <1>0, <2>3 DEF WorkIsLeft
  <2> QED BY <2>1, <2>4 DEF WorkFalls, Strands
<1>5. CASE NewRound
  <2>1. UNCHANGED << input, k, left >> /\ progress /\ ~progress'
    BY <1>5 DEF NewRound, reading
  <2>2. Round' = 0 /\ Round = 1
    BY <2>1 DEF Round
  <2> QED BY <2>1, <2>2 DEF WorkFalls, Strands, Items
<1>6. CASE EndSelect
  <2>1. input' = input /\ k' = k + 1
    BY <1>6 DEF EndSelect, BeginSelect, reading
  <2> QED BY <1>0, <2>1 DEF WorkFalls, Strands
<1> QED BY <1>1, <1>2, <1>3, <1>4, <1>5, <1>6 DEF Next

(* The loops of select() end: every step lowers a number of five, in which an
   earlier one counts for more, and none of them ever falls below zero.  The
   round without progress, the item lost to a full family and the stratum below
   its quota are all steps of this kind: for all findings, quotas and draws. *)
THEOREM SelectionCannotGoOn == Spec => [](WorkIsLeft) /\ [][WorkFalls]_setVars
<1>1. Init => FinitePools
  BY FS_EmptySet DEF Init, FinitePools
<1>2. SelectionInv /\ FinitePools /\ [Next]_setVars => [WorkFalls]_setVars
  BY WorkFallsInAStep
<1> QED BY <1>1, <1>2, SelectionInvariant, FinitePoolsNext, WorkIsANumber, PTL DEF Spec

(* A visit never divides by the length of an empty list of rules, and never pops
   from a group that the earlier draws of the visit have emptied. *)
THEOREM NeverPopsEmptyAlways == Spec => []NeverPopsEmpty
<1>1. SelectionInv => NeverPopsEmpty
  <2> SUFFICES ASSUME SelectionInv, pc = "pop"
               PROVE  /\ Len(rules) > 0
                      /\ Group(Cwes[visit], rules[(turn[Cwes[visit]] % Len(rules)) + 1]) # {}
    BY DEF NeverPopsEmpty
  <2>1. /\ rules # << >> /\ rules \in Seq(ToSet(Rules)) /\ visit \in 1 .. Len(Cwes)
        /\ turn \in [ToSet(Cwes) -> Nat]
    BY SelectingFacts DEF SelectionInv, SetTypes, Selecting
  <2>2. Len(rules) \in Nat \ {0} /\ DOMAIN rules = 1 .. Len(rules)
    BY <2>1
  <2>3. turn[Cwes[visit]] \in Nat
    BY <2>1, SelectingFacts DEF SelectionInv, Selecting
  <2> DEFINE m == turn[Cwes[visit]] % Len(rules)
  <2>4. m \in Nat /\ m < Len(rules)
    BY <2>2, <2>3
  <2> HIDE DEF m
  <2>5. rules[m + 1] \in ToSet(rules)
    <3>1. m + 1 \in DOMAIN rules
      BY <2>2, <2>4
    <3> QED BY <3>1 DEF ToSet
  <2>6. Group(Cwes[visit], rules[m + 1]) # {}
    BY <2>5 DEF SelectionInv, VisitInv
  <2> QED BY <2>2, <2>6 DEF m
<1> QED BY <1>1, SelectionInvariant, PTL
=============================================================================
