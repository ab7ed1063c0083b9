------------------------------- MODULE MCShell -------------------------------
(***************************************************************************)
(* Shell for TLC: the empty line, a blank one, the builtins, a command, and *)
(* a line with one word more than parsed_args can hold.                     *)
(***************************************************************************)
EXTENDS Shell

Plain(name) == [name |-> name, digits |-> FALSE, junk |-> FALSE, value |-> 0]

MCWords ==
    [l \in {"", "  ", "exit", "history", "recall", "ls a", "ls a b"} |->
       CASE l \in {"", "  "} -> << >>
         [] l = "ls a"       -> << Plain("ls"), Plain("a") >>
         [] l = "ls a b"     -> << Plain("ls"), Plain("a"), Plain("b") >>
         [] OTHER            -> << Plain(l) >>]

MCLine == DOMAIN MCWords

MCStrLen == [l \in MCLine |-> CASE l = "" -> 0 [] l = "  " -> 2 [] OTHER -> 5]

MCIntMin == -8
MCLongMin == -32
=============================================================================
