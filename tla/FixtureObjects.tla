--------------------------- MODULE FixtureObjects ---------------------------
(***************************************************************************)
(* The fixtures of the vendored Semgrep rules about the life of objects:    *)
(* use after free, double free, free of what malloc did not return, the     *)
(* address of a local that outlives its frame, and a malloc never tested.   *)
(* Each fixture is a list of steps over named pointers, with the label its  *)
(* comments give each step; one machine runs them all.                      *)
(*                                                                          *)
(* A pointer expression is <<variable, number of -> steps>>.  An object is  *)
(* named by the step that made it; 0 is NULL and -1 an unset pointer.       *)
(***************************************************************************)
EXTENDS Integers, Sequences, FiniteSets

(* Steps.  "when" is the condition the step is under, "label" what the comment
   above it says: ruleid (the rule reports it), ok, todo (todoruleid: it should,
   and does not). *)
Do(op, p, q)  == [op |-> op, p |-> p, q |-> q, when |-> << >>, label |-> "none", unless |-> "none"]
V(v)          == << v, 0 >>
Fld(v)        == << v, 1 >>
None          == << "none", 0 >>
Make(kind, p) == Do(kind, p, None)      \* malloc, realloc, new, new[], local, static, given
Malloc(v)     == Make("malloc", V(v))
Set(p, q)     == Do("set", p, q)
NullForgotten(v) == Set(V(v), V(v))     \* the pointer keeps its value
Null(v)       == Do("set", V(v), None)
Use(p)        == Do("use", p, None)     \* the pointer's value is passed or printed
Deref(p)      == Do("deref", p, None)   \* what it points to is read or written
Free(p)       == Do("free", p, None)
Release(f, v) == Do(f, V(v), None)      \* delete, delete[]
Return(v)     == Do("return", V(v), None)
Putenv(v)     == Do("putenv", V(v), None)
Test(v)       == Do("test", V(v), None) \* return when it is NULL
Stop          == Do("stop", None, None)

When(f, s)   == [s EXCEPT !.when = << f, TRUE >>]
Unless(f, s) == [s EXCEPT !.when = << f, FALSE >>]
Ruleid(s)    == [s EXCEPT !.label = "ruleid"]
Ok(s)        == [s EXCEPT !.label = "ok"]
Todo(s)      == [s EXCEPT !.label = "todo"]
Except(f, s) == [s EXCEPT !.unless = f]  \* a report that is wrong when f holds

(* known: the conditions the function itself has made true. *)
Fixture(rule, known, progs) == { [rule |-> rule, known |-> known, prog |-> p] : p \in progs }

-----------------------------------------------------------------------------
(* use-after-free.c                                                         *)

FreedOnTheWay ==    \* alloc_and_free1
    Fixture("uaf", {"err", "bailout"}, {
      << Malloc("ptr"), When("err", Free(V("ptr"))), When("bailout", Todo(Use(V("ptr")))),
         Free(V("ptr")), Ruleid(Use(V("ptr"))) >> })

UsedAfterFree ==    \* alloc_and_free2, uaf, heap_use_after_free, test
    Fixture("uaf", {}, {
      << Malloc("ptr"), Free(V("ptr")), Malloc("ptr"), Ok(Use(V("ptr"))) >>,
      << Malloc("buf1R1"), Malloc("buf2R1"), Free(V("buf2R1")), Malloc("buf2R2"), Malloc("buf3R2"),
         Ruleid(Deref(V("buf2R1"))), Free(V("buf1R1")), Free(V("buf2R2")), Free(V("buf3R2")) >>,
      << Malloc("x"), Free(V("x")), Ruleid(Deref(V("x"))) >> })

StructUsedAfterFree ==    \* bad_code1, bad_code2, okay_code1, okay_code2
    Fixture("uaf", {}, {
      << Malloc("var"), Free(V("var")), Ruleid(Use(V("var"))), Ruleid(Deref(V("var"))),
         Ruleid(Deref(V("var"))), Ruleid(Deref(V("var"))) >>,
      << Malloc("var"), Free(V("var")), Ruleid(Deref(V("var"))), Ruleid(Use(V("var"))),
         Ruleid(Deref(V("var"))) >>,
      << Malloc("var"), Free(V("var")), Null("var"), Ok(Use(V("var"))), Deref(V("var")), Deref(V("var")) >>,
      << Malloc("var"), Free(V("var")), Null("var"), Malloc("var"), Ok(Use(V("var"))),
         Deref(V("var")), Deref(V("var")) >> })

CalledAfterFree ==    \* the second bad_code1 .. okay_code2, bad_code3, ok_code3
    Fixture("uaf", {}, {
      << Malloc("var"), Free(V("var")), Ruleid(Deref(V("var"))) >>,
      << Malloc("var"), Free(V("var")), Null("var"), Ok(Deref(V("var"))) >> })

FieldFreedAfterOwner ==    \* bad_code4, ok_code4, bad_code5, ok_code5
    LET Lv  == << Malloc("lv"), Make("malloc", Fld("lv")) >>
        Lv2 == Lv \o << Malloc("lv2"), Set(Fld("lv2"), V("lv")) >>
    IN  Fixture("uaf", {}, {
          Lv \o << Free(V("lv")), Ruleid(Free(Fld("lv"))) >>,
          Lv \o << Ok(Free(Fld("lv"))), Ok(Free(V("lv"))) >>,
          Lv2 \o << Ok(Free(Fld("lv2"))), Ruleid(Free(<< "lv2", 2 >>)), Ok(Free(V("lv2"))) >>,
          Lv2 \o << Ok(Free(<< "lv2", 2 >>)), Ok(Free(Fld("lv2"))), Ok(Free(V("lv2"))) >> })

ReallocatedOrNot ==    \* bad_code6, ok_code6, bad_code7
    Fixture("uaf", {}, {
      << Malloc("var"), Free(V("var")), Ruleid(Deref(V("var"))) >>,
      << Malloc("var"), Free(V("var")), Malloc("var"), Ok(Deref(V("var"))) >>,
      << Malloc("var"), Free(V("var")), Ruleid(Deref(V("var"))), Ruleid(Deref(V("var"))) >> })

(* double-free.c *)
FreedTwice ==    \* alloc_and_free1 .. alloc_and_free3, double_free
    Fixture("df", {"bailout"}, {
      << Malloc("ptr"), When("bailout", Free(V("ptr"))), Todo(Free(V("ptr"))), Ruleid(Free(V("ptr"))) >>,
      << Malloc("ptr"), Free(V("ptr")), Null("ptr"), Ok(Free(V("ptr"))) >>,
      << Malloc("ptr"), Free(V("ptr")), Malloc("ptr"), Ok(Free(V("ptr"))) >>,
      << Malloc("buf1R1"), Malloc("buf2R1"), Free(V("buf1R1")), Free(V("buf2R1")), Malloc("buf1R2"),
         Deref(V("buf1R2")), Ruleid(Free(V("buf2R1"))), Free(V("buf1R2")) >> })

FreedAroundCall ==    \* getNextPacket, bad: y is returned only when a packet came
    Fixture("df", {}, {
      << Make("given", V("logData")), Free(V("logData")), Malloc("y"), Use(V("y")),
         When("OK", Set(V("pkt"), V("y"))), Unless("OK", Null("pkt")), Test("pkt"),
         Use(V("pkt")), Ruleid(Free(V("logData"))), Use(V("pkt")) >> })

(* A label that stayed when the array became a block. *)
FreedLocalOfHeap == Fixture("stackfree", {}, { << Malloc("bar"), Ruleid(Free(V("bar"))) >> })

(* incorrect-use-of-free.c: check_auth returns early for an unknown user. *)
FreedLocal ==
    Fixture("stackfree", {}, {
      << Make("local", V("bar")), Ruleid(Free(V("bar"))) >>,
      << Malloc("bar"), Ok(Free(V("bar"))) >>,
      << Make("local", V("&message")), When("unknown", Stop), When("blocked", Stop),
         Ruleid(Free(V("&message"))) >> })

(* mismatched-memory-management.c and -cpp.cpp *)
FreedOtherKind ==
    Fixture("mismatch", {}, {
      << Make("local", V("localArray")), Set(V("p"), V("localArray")), Ruleid(Free(V("p"))) >>,
      << Malloc("ptr"), Ok(Free(V("ptr"))) >> })

DeletedOtherKind ==
    LET LocalArray == << Make("local", V("localArray")), Set(V("p"), V("localArray")) >>
    IN  Fixture("mismatch", {}, {
          << Make("new", V("ptr")), Ruleid(Free(V("ptr"))) >>,
          << Make("new", V("ptr")), Ok(Release("delete", "ptr")) >>,
          << Malloc("ptr"), Ruleid(Release("delete", "ptr")) >>,
          LocalArray \o << When("heap", Make("new[]", V("p"))), Except("heap", Ruleid(Release("delete[]", "p"))) >>,
          LocalArray \o << Make("new[]", V("p")), Ok(Release("delete[]", "p")) >> })

(* ret-stack-address.c: the getName functions, findF as recvStr calls it, f *)
ReturnedLocal ==
    Fixture("escape", {}, {
      << Make("local", V("name")), Deref(V("name")), Ruleid(Return("name")) >>,
      << Malloc("name"), Deref(V("name")), Ok(Return("name")) >>,
      << Make("static", V("name")), Deref(V("name")), Ok(Return("name")) >>,
      << Make("local", V("tmpbuf")), Set(V("p"), V("tmpbuf")), Deref(V("tmpbuf")),
         When("F", Ruleid(Return("p"))), Null("p"), Return("p") >>,
      << Make("local", V("&local_auto")), Ruleid(Return("&local_auto")) >> })

(* putenv-stack-var.c *)
ExportedLocal ==
    Fixture("escape", {}, {
      << Make("local", V("name")), Deref(V("name")), Ruleid(Putenv("name")) >>,
      << Malloc("name"), Deref(V("name")), Ok(Putenv("name")) >>,
      << Make("static", V("name")), Deref(V("name")), Ok(Putenv("name")) >> })

(* unchecked-ret-malloc.c *)
UncheckedMalloc ==    \* alloc_memory .. test_func2
    Fixture("unchecked", {}, {
      << Ruleid(Malloc("ptr")) >>,
      << Ok(Malloc("ptr")), Test("ptr") >>,
      << Ruleid(Malloc("buf")), Deref(V("buf")) >> })

UncheckedRealloc ==    \* append_data
    Fixture("unchecked", {}, {
      << Make("given", V("buf")), Make("given", Fld("buf")), When("wraps", Stop),
         When("grows", Ruleid(Make("realloc", Fld("buf")))), Deref(Fld("buf")) >> })

Fixtures ==
    FreedOnTheWay \cup UsedAfterFree \cup StructUsedAfterFree \cup CalledAfterFree
    \cup FieldFreedAfterOwner \cup ReallocatedOrNot \cup FreedTwice \cup FreedAroundCall
    \cup FreedLocal \cup FreedOtherKind \cup DeletedOtherKind \cup ReturnedLocal
    \cup ExportedLocal \cup UncheckedMalloc \cup UncheckedRealloc

-----------------------------------------------------------------------------
(* What the rules report                                                    *)

Makers   == {"malloc", "realloc", "new", "new[]", "local", "static", "given"}
Releases == {"free", "delete", "delete[]"}
Heap     == {"malloc", "realloc"}

Assigns(s, p) == s.p = p /\ s.op \in Makers \cup {"set"}

(* Pattern "free(P); ..." without the pattern-not on an assignment. *)
AfterFreeAny(prog, i, p) ==
    \E j \in 1 .. i - 1 : prog[j].op = "free" /\ prog[j].p = p /\ prog[j].when = << >>

(* Pattern "free(P); ... use of P" for the step i of a program: nothing may
   assign P in between, and a free in a nested block does not reach out of it. *)
AfterFree(prog, i, p) ==
    \E j \in 1 .. i - 1 :
       /\ prog[j].op = "free" /\ prog[j].p = p /\ prog[j].when = << >>
       /\ \A k \in j + 1 .. i - 1 : ~Assigns(prog[k], p)

(* The pointers whose target the step reads, in the rule's patterns. *)
Through(s) == { << s.p[1], d >> : d \in 0 .. s.p[2] - (IF s.op \in {"deref", "use"} THEN 0 ELSE 1) }

Earlier(prog, i, Q(_)) == \E j \in 1 .. i - 1 : Q(prog[j])

(* p is a local, or a variable set to one. *)
PointsToLocal(prog, i, p) ==
    \/ Earlier(prog, i, LAMBDA s : s.op = "local" /\ s.p = p)
    \/ Earlier(prog, i, LAMBDA s : /\ s.op = "set" /\ s.p = p
                                   /\ \E t \in 1 .. i - 1 : prog[t].op = "local" /\ prog[t].p = s.q)

MatchingMake(op) ==
    CASE op = "free" -> Heap [] op = "delete" -> {"new"} [] op = "delete[]" -> {"new[]"}

ReportsUse(prog, i)    == prog[i].op \notin Makers \cup {"set", "stop"}
                          /\ \E p \in Through(prog[i]) : AfterFree(prog, i, p)
ReportsTwice(prog, i)  == prog[i].op = "free" /\ AfterFree(prog, i, prog[i].p)
ReportsStack(prog, i)  == prog[i].op = "free" /\ PointsToLocal(prog, i, prog[i].p)
ReportsEscape(prog, i) ==
    /\ prog[i].op \in {"return", "putenv"} /\ PointsToLocal(prog, i, prog[i].p)
    /\ ~Earlier(prog, i, LAMBDA t : t.op = "set" /\ t.p = prog[i].p /\ t.q = None)
ReportsMismatch(prog, i) ==
    /\ prog[i].op \in Releases
    /\ ~Earlier(prog, i, LAMBDA t : /\ t.op \in MatchingMake(prog[i].op)
                                    /\ t.p = prog[i].p /\ t.when = << >>)
ReportsUnchecked(prog, i) ==
    prog[i].op \in Heap /\ \A t \in DOMAIN prog : prog[t].op = "test" => prog[t].p # prog[i].p

Reported(fx) ==
    { i \in DOMAIN fx.prog :
        \/ fx.rule = "uaf"       /\ ReportsUse(fx.prog, i)
        \/ fx.rule = "df"        /\ ReportsTwice(fx.prog, i)
        \/ fx.rule = "stackfree" /\ ReportsStack(fx.prog, i)
        \/ fx.rule = "mismatch"  /\ ReportsMismatch(fx.prog, i)
        \/ fx.rule = "escape"    /\ ReportsEscape(fx.prog, i)
        \/ fx.rule = "unchecked" /\ ReportsUnchecked(fx.prog, i) }

-----------------------------------------------------------------------------
(* What running them does                                                   *)

VARIABLES
    fixture,   \* the fixture that runs
    flags,     \* the conditions that hold in this run
    at,        \* the next step
    env,       \* variable -> object, 0 or -1
    obj,       \* object -> its kind, whether it lives, and the pointer it holds
    seen,      \* ghost: the steps executed
    untested,  \* ghost: allocations whose result no test has looked at
    escaped,   \* ghost: <<step, object>> handed to the caller or the environment
    bad,       \* ghost: <<step, rule>> of each misuse
    run        \* "ready", "running", "returned", "crashed", "over"

objectVars == << fixture, flags, at, env, obj, seen, untested, escaped, bad, run >>

prog  == fixture.prog
Names == { prog[i].p[1] : i \in DOMAIN prog } \cup { prog[i].q[1] : i \in DOMAIN prog }
Conditions(fx) == UNION { {fx.prog[i].when[1]} : i \in { j \in DOMAIN fx.prog : fx.prog[j].when # << >> } }

ObjectsInit ==
    /\ fixture \in Fixtures
    /\ flags \in { K \in SUBSET Conditions(fixture) : fixture.known \subseteq K }
    /\ at = 1
    /\ env = [v \in Names |-> IF v = "none" THEN 0 ELSE -1]
    /\ obj = [i \in DOMAIN prog |-> [kind |-> "none", live |-> FALSE, holds |-> -1]]
    /\ seen = {} /\ untested = {} /\ escaped = {} /\ bad = {}
    /\ run = "running"

(* The pointer after d steps from the variable of p. *)
Follow(p) ==
    LET val[d \in 0 .. p[2]] ==
          IF d = 0 THEN env[p[1]] ELSE IF val[d - 1] > 0 THEN obj[val[d - 1]].holds ELSE -1
    IN  val

Value(p) == Follow(p)[p[2]]

(* The pointers the step follows: those on the way, and its own when it reads
   or writes the target. *)
Followed(s) == { Follow(s.p)[d] : d \in 0 .. s.p[2] - (IF s.op = "deref" THEN 0 ELSE 1) }

Released(v) == v > 0 /\ obj[v].kind # "none" /\ ~obj[v].live

Assign(p, v) ==
    IF p[2] = 0 THEN env' = [env EXCEPT ![p[1]] = v] /\ UNCHANGED obj
    ELSE env' = env /\ obj' = [obj EXCEPT ![Follow(p)[p[2] - 1]].holds = v]

Holds(s) == IF s.when = << >> THEN TRUE ELSE (s.when[1] \in flags) = s.when[2]

(* The misuses of one step: a pointer into a released object is followed or its
   value used; a released object is released again; an object is released by
   the wrong function, or is not on the heap at all. *)
MisuseUse(s) ==
    \/ \E v \in Followed(s) : Released(v)
    \/ s.op \in {"use", "return"} /\ Released(Value(s.p))
MisuseTwice(s) == s.op \in Releases /\ Released(Value(s.p))
MisuseKind(s)  == /\ s.op \in Releases /\ Value(s.p) > 0
                  /\ obj[Value(s.p)].kind \notin MatchingMake(s.op) \cup {"given"}

Misuses(s) ==
    (IF MisuseUse(s) THEN {"uaf"} ELSE {}) \cup (IF MisuseTwice(s) THEN {"df"} ELSE {})
    \cup (IF MisuseKind(s) THEN {"stackfree", "mismatch"} ELSE {})

Advance(status) == at' = at + 1 /\ run' = status /\ UNCHANGED << fixture, flags >>

Current == prog[at]
Ready   == run = "running" /\ at \in DOMAIN prog /\ Holds(Current)
Note    == seen' = seen \cup {at} /\ bad' = bad \cup ({at} \X Misuses(Current))

Skip ==
    /\ run = "running" /\ at \in DOMAIN prog /\ ~Holds(Current)
    /\ Advance("running")
    /\ UNCHANGED << env, obj, seen, untested, escaped, bad >>

(* A step that follows NULL stops the program. *)
Crash ==
    /\ Ready /\ 0 \in Followed(Current)
    /\ Note /\ Advance("crashed")
    /\ UNCHANGED << env, obj, untested, escaped >>

Sound == Ready /\ 0 \notin Followed(Current)

(* A new object; realloc also releases the one its pointer named. *)
Create ==
    /\ Sound /\ Current.op \in Makers
    /\ Note /\ Advance("running")
    /\ LET old  == Value(Current.p)
           made == [obj EXCEPT ![at] = [kind |-> Current.op, live |-> TRUE, holds |-> -1]]
           kept == IF Current.op = "realloc" /\ old > 0 THEN [made EXCEPT ![old].live = FALSE] ELSE made
       IN  IF Current.p[2] = 0
           THEN env' = [env EXCEPT ![Current.p[1]] = at] /\ obj' = kept
           ELSE env' = env /\ obj' = [kept EXCEPT ![Follow(Current.p)[Current.p[2] - 1]].holds = at]
    /\ untested' = IF Current.op \in Heap THEN untested \cup {at} ELSE untested
    /\ UNCHANGED escaped

(* malloc, realloc and strdup may have no memory to give. *)
CreateFails ==
    /\ Sound /\ Current.op \in Heap
    /\ Note /\ Advance("running")
    /\ Assign(Current.p, 0)
    /\ untested' = untested \cup {at}
    /\ UNCHANGED escaped

SetPointer ==
    /\ Sound /\ Current.op = "set"
    /\ Note /\ Advance("running")
    /\ Assign(Current.p, Value(Current.q))
    /\ UNCHANGED << untested, escaped >>

(* use and deref change nothing. *)
UseObject ==
    /\ Sound /\ Current.op \in {"use", "deref"}
    /\ Note /\ Advance("running")
    /\ UNCHANGED << env, obj, untested, escaped >>

(* A release of NULL does nothing. *)
ReleaseObject ==
    /\ Sound /\ Current.op \in Releases
    /\ Note /\ Advance("running")
    /\ obj' = IF Value(Current.p) > 0 THEN [obj EXCEPT ![Value(Current.p)].live = FALSE] ELSE obj
    /\ UNCHANGED << env, untested, escaped >>

TestPointer ==
    /\ Sound /\ Current.op = "test"
    /\ Note /\ Advance(IF Value(Current.p) = 0 THEN "returned" ELSE "running")
    /\ untested' = { i \in untested : prog[i].p # Current.p }
    /\ UNCHANGED << env, obj, escaped >>

(* return p, putenv(p), and a return with nothing. *)
HandOut ==
    /\ Sound /\ Current.op \in {"return", "putenv", "stop"}
    /\ Note /\ Advance(IF Current.op = "putenv" THEN "running" ELSE "returned")
    /\ escaped' = IF Current.op = "stop" THEN escaped ELSE escaped \cup {<< at, Value(Current.p) >>}
    /\ UNCHANGED << env, obj, untested >>

(* The frame goes, and its locals with it; then the caller uses what it got. *)
Leave ==
    /\ run = "returned" \/ (run = "running" /\ at \notin DOMAIN prog)
    /\ obj' = [i \in DOMAIN obj |-> IF obj[i].kind = "local" THEN [obj[i] EXCEPT !.live = FALSE] ELSE obj[i]]
    /\ bad' = bad \cup { << e[1], "escape" >> : e \in { x \in escaped : x[2] > 0 /\ ~obj'[x[2]].live } }
                  \cup (untested \X {"unchecked"})
    /\ run' = "over"
    /\ UNCHANGED << fixture, flags, at, env, seen, untested, escaped >>

ObjectsNext ==
    \/ Skip \/ Crash \/ Create \/ CreateFails \/ SetPointer \/ UseObject
    \/ ReleaseObject \/ TestPointer \/ HandOut \/ Leave

ObjectsSpec == ObjectsInit /\ [][ObjectsNext]_objectVars

-----------------------------------------------------------------------------

(* A step that is not labelled never does what its own rule is about, on any path
   and whether or not memory runs out.  What another rule is about may go without
   a label: use-after-free.c:24 frees a second time. *)
MisuseIsLabelled ==
    \A m \in bad : m[2] = fixture.rule => prog[m[1]].label \in {"ruleid", "todo"}

(* A step the labels report does misuse its object in every run that reaches it
   with memory; in bad3 of mismatched-memory-management-cpp.cpp only when it is
   called without heap, as the label covers both paths. *)
ReportIsReal ==
    run = "over" /\ (\A i \in seen : prog[i].op \in Heap => obj[i].kind # "none") =>
       \A i \in seen : prog[i].label = "ruleid" /\ prog[i].unless \notin flags
                        => << i, fixture.rule >> \in bad

(* The rules, as patterns over the text of a function, report exactly the steps
   labelled ruleid: what semgrep --test .semgrep/rules/ asserts of them. *)
RulesMatchLabels ==
    Reported(fixture) = { i \in DOMAIN prog : prog[i].label = "ruleid" }
=============================================================================
