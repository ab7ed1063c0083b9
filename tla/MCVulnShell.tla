----------------------------- MODULE MCVulnShell -----------------------------
(***************************************************************************)
(* VulnShell for TLC: the commands of tests/vuln_shell_commands.txt, and    *)
(* short inputs with an empty line, a blank one, an index out of range, an  *)
(* index the ring reaches late, a line too long for last_command and a line *)
(* with one word more than parsed_args holds.                               *)
(***************************************************************************)
EXTENDS VulnShell

Plain(name) == [name |-> name, digits |-> FALSE, junk |-> FALSE, value |-> 0]
Number(v)   == [name |-> "number", digits |-> TRUE, junk |-> FALSE, value |-> v]

MCWords ==
    [l \in {"", "  ", "pwd", "recall 3", "recall 0", "recall 9", "recall", "history %p",
            "history %n", "history a", "history", "exit", "long", "pwd a b"} |->
       CASE l \in {"", "  "}  -> << >>
         [] l = "recall 3"    -> << Plain("recall"), Number(3) >>
         [] l = "recall 0"    -> << Plain("recall"), Number(0) >>
         [] l = "recall 9"    -> << Plain("recall"), Number(9) >>
         [] l = "history %p"  -> << Plain("history"), Plain("%p") >>
         [] l = "history %n"  -> << Plain("history"), Plain("%n") >>
         [] l = "history a"   -> << Plain("history"), Plain("a") >>
         [] l = "pwd a b"     -> << Plain("pwd"), Plain("a"), Plain("b") >>
         [] OTHER             -> << Plain(l) >>]

MCLine == DOMAIN MCWords

MCStrLen == [l \in MCLine |-> CASE l = "" -> 0 [] l = "  " -> 2 [] l = "long" -> 32 [] OTHER -> 10]

MCDirective == [w \in {"%p", "a", "%n"} |->
                  CASE w = "%p" -> "address" [] w = "a" -> "plain" [] OTHER -> "other"]

MCTestInput ==
    << "pwd", "recall 3", "history %p", "recall 0", "recall 0", "recall 0", "exit" >>

MCShort == UNION { [1 .. n -> {"", "  ", "recall 9", "history %n", "history a", "exit", "long", "pwd a b"}]
                   : n \in 0 .. 2 }
           \cup { << "pwd", "pwd", "recall 3" >>, << "recall 3", "pwd", "", "pwd" >> }

MCInputs == {[lines |-> MCTestInput, seekable |-> TRUE]}
            \cup { [lines |-> f, seekable |-> b] : f \in MCShort, b \in BOOLEAN }

MCFragments == {"pwd"}

MCGarbage == { [s \in 0 .. 3 |-> 0], [s \in 0 .. 3 |-> 1] }

MCIntMin == -8
MCLongMin == -32
=============================================================================
