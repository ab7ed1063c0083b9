---------------------------- MODULE MCHistoryRing ----------------------------
(***************************************************************************)
(* HistoryRing for TLC.  int has 4 bits and long has 6, so that a number    *)
(* can miss int yet fit long (16, which cuts to slot 0) or miss both (99).  *)
(***************************************************************************)
EXTENDS HistoryRing, TLC

w(name)  == [name |-> name, digits |-> FALSE, junk |-> FALSE, value |-> 0]
n(v, j)  == [name |-> "number", digits |-> TRUE, junk |-> j, value |-> v]

MCWords ==
    [l \in {"short", "long", "recall", "recall 1", "recall -1", "recall 1x", "recall x",
            "recall 16", "recall 99"} |->
       CASE l = "short"     -> << w("ls") >>
         [] l = "long"      -> << w("ls"), w("a") >>
         [] l = "recall"    -> << w("recall") >>
         [] l = "recall 1"  -> << w("recall"), n(1, FALSE) >>
         [] l = "recall -1" -> << w("recall"), n(-1, FALSE) >>
         [] l = "recall 1x" -> << w("recall"), n(1, TRUE) >>
         [] l = "recall x"  -> << w("recall"), w("x") >>
         [] l = "recall 16" -> << w("recall"), n(16, FALSE) >>
         [] l = "recall 99" -> << w("recall"), n(99, FALSE) >>]

MCLine == DOMAIN MCWords

(* One line is longer than last_command (4 characters here). *)
MCStrLen == [l \in MCLine |-> IF l = "long" THEN 5 ELSE 2]

MCIntMin == -8
MCLongMin == -32

AddrSymmetry == Permutations(Addr)
=============================================================================
