---------------------------- MODULE MCCollector ----------------------------
(* Collector for TLC: two refs with a directory each, and two that share one,
   so that a second run comes to an old directory first or last. *)
EXTENDS Collector

MCRefLists == { << "HEAD", "a/b" >>, << "a/b", "a-b" >> }
MCSlug == [r \in {"HEAD", "a/b", "a-b"} |-> IF r = "a/b" THEN "a-b" ELSE r]
=============================================================================
