----------------------------- MODULE MCEvalSet -----------------------------
(***************************************************************************)
(* EvalSet for TLC: every kind of finding alone, one in every short         *)
(* function, and every part of a list of findings in which rules are shared *)
(* by CWEs, families by rules and keys by findings.                         *)
(***************************************************************************)
EXTENDS EvalSet

At(nr, key, cwe, rule, family) ==
    [nr |-> nr, key |-> key, cwe |-> cwe, rule |-> rule, family |-> family, place |-> "bad",
     above |-> << Comment("FLAW") >>, inFamily |-> TRUE, arrayDecl |-> FALSE, leaky |-> FALSE]

Kinds == { [At(0, 0, "c1", "r1", "f1") EXCEPT
              !.place = p, !.above = m, !.inFamily = b, !.arrayDecl = d, !.leaky = l] :
           p \in {"missing", "outside", "neither", "split", "bad", "good"},
           m \in {<< >>} \cup { << Comment(x) >> : x \in {"FLAW", "POTENTIAL FLAW", "FIX", "INCIDENTAL"} },
           b \in BOOLEAN, d \in BOOLEAN, l \in BOOLEAN }

(* Functions of two to four lines above the flagged one: two markers, one of them
   also on two lines, a block that opens, one that ends, and a block on one line. *)
Opened(a) ==
    \A p \in DOMAIN a :
       Cardinality({ q \in 1 .. p : a[q].closes = 1 }) <= Cardinality({ q \in 1 .. p : a[q].opens = 1 })

Bodies ==
    { a \in UNION { [1 .. n ->
            {Comment("POTENTIAL FLAW"), Comment("FIX"), CommentBegins("FIX"), Code(1, 0), Code(0, 1), Code(1, 1)}] :
            n \in 2 .. 4 } : Opened(a) }

Placed == { [At(0, 0, "c1", "r1", "f1") EXCEPT !.place = p, !.above = a] : p \in {"bad", "good"}, a \in Bodies }

Long == << At(1, 1, "c1", "r1", "f1"), At(2, 2, "c1", "r1", "f1"), At(3, 3, "c1", "r1", "f2"),
           [At(4, 4, "c1", "r2", "f1") EXCEPT !.leaky = TRUE], At(5, 4, "c1", "r2", "f1"),
           At(6, 6, "c1", "r2", "f3"), At(7, 7, "c2", "r1", "f4"), At(8, 8, "c2", "r3", "f4"),
           At(9, 9, "c2", "r3", "f5"), At(10, 9, "c2", "r3", "f5"),
           At(11, 11, "c2", "r3", "f6") >>

Parts == { SelectSeq(Long, LAMBDA f : f.nr \in S) : S \in SUBSET (1 .. 11) }

MCInputs == { << f >> : f \in Kinds \cup Placed } \cup Parts

MCCwes  == << "c1", "c2" >>
MCRules == << "r1", "r2", "r3" >>
MCSplit == [f \in {"f1", "f2", "f3", "f4", "f5", "f6"} |-> IF f = "f6" THEN "train" ELSE "test"]
MCQuota == [s \in {"tp", "fp_paired", "fp_other", "fp_offtarget"} |-> IF s = "tp" THEN 5 ELSE 1]
=============================================================================
