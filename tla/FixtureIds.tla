----------------------------- MODULE FixtureIds -----------------------------
(***************************************************************************)
(* The fixtures of incorrect-order-setuid-setgid.c and of                   *)
(* unchecked-ret-setuid-seteuid.c: programs that give up root.  The real,   *)
(* effective and saved ids change as Linux changes them, and a call that    *)
(* root would be allowed fails once the effective id is no longer 0.        *)
(***************************************************************************)
EXTENDS Integers, Sequences

CONSTANTS
    USER1, USER2   \* 500 and 501 where a program names its users; who runs the others

ASSUME UsersAssumption == USER1 \in Nat \ {0} /\ USER2 \in Nat \ {0} /\ USER1 # USER2

(* Steps.  Id: the value, or "real" for getuid() and getgid().  Tested: the
   function looks at the result and leaves when the call failed. *)
Uid(id)     == [op |-> "setuid",  id |-> id, tested |-> FALSE]
Euid(id)    == [op |-> "seteuid", id |-> id, tested |-> FALSE]
Gid(id)     == [op |-> "setgid",  id |-> id, tested |-> FALSE]
WorkAs(id)  == [op |-> "work",    id |-> id, tested |-> FALSE]
Tested(s)   == [s EXCEPT !.tested = TRUE]

REAL == -2   \* getuid(), getgid()

(* Start: the real id of the program, whose effective and saved ids are root's.
   Wants: the ids it has to end with, all three of a "uid" or a "gid", or the
   effective one only. *)
IdFixture(rule, label, start, wants, prog) ==
    [rule |-> rule, label |-> label, start |-> start, wants |-> wants, prog |-> prog]

DropOrder ==    \* drop_priv_bad, drop_priv_ok, bad1, good1
    { IdFixture("order", "ruleid", USER1, {"uid", "gid"}, << Uid(REAL), Gid(REAL) >>),
      IdFixture("order", "ok",     USER1, {"uid", "gid"}, << Gid(REAL), Uid(REAL) >>),
      IdFixture("order", "ruleid", USER1, {"uid"}, << Euid(REAL), Uid(REAL) >>),
      IdFixture("order", "ok",     USER1, {"uid"}, << Euid(REAL), Euid(0), Uid(REAL) >>) }

ActForUsers ==    \* bad2, good2
    { IdFixture("order", "ruleid", 0, {},
        << Euid(USER1), WorkAs(USER1), Euid(USER2), WorkAs(USER2), Euid(0) >>),
      IdFixture("order", "ok", 0, {},
        << Euid(USER1), WorkAs(USER1), Euid(0), Euid(USER2), WorkAs(USER2), Euid(0) >>) }

(* drop_priv_conditional_bad and _ok, called with both ids or with one: the step
   of an id that is -1 is not taken. *)
DropConditional ==
    { IdFixture("order", "ruleid", USER1, {"uid", "gid"}, << Uid(USER1), Gid(USER1) >>),
      IdFixture("order", "ruleid", USER1, {"uid"}, << Uid(USER1) >>),
      IdFixture("order", "ruleid", USER1, {"gid"}, << Gid(USER1) >>),
      IdFixture("order", "ok",     USER1, {"uid", "gid"}, << Gid(USER1), Uid(USER1) >>),
      IdFixture("order", "ok",     USER1, {"uid"}, << Uid(USER1) >>),
      IdFixture("order", "ok",     USER1, {"gid"}, << Gid(USER1) >>) }

UncheckedDrop ==    \* drop_priv_perm, drop_priv_perm2, drop_priv_temp, drop_priv_temp2
    { IdFixture("unchecked", "ruleid", USER1, {"uid"},  << Uid(REAL) >>),
      IdFixture("unchecked", "ok",     USER1, {"uid"},  << Tested(Uid(REAL)) >>),
      IdFixture("unchecked", "ruleid", USER1, {"euid"}, << Euid(REAL) >>),
      IdFixture("unchecked", "ok",     USER1, {"euid"}, << Tested(Euid(REAL)) >>) }

IdFixtures == DropOrder \cup ActForUsers \cup DropConditional \cup UncheckedDrop

-----------------------------------------------------------------------------

VARIABLES
    program,    \* the fixture that runs
    next,       \* its next step
    uid, gid,   \* the real, effective and saved ids
    short,      \* ghost: a permitted call failed and the function went on
    wrongWork,  \* ghost: work was done as another user than meant
    left        \* the function told its caller that it failed

idVars == << program, next, uid, gid, short, wrongWork, left >>

RootIds(real) == [r |-> real, e |-> 0, s |-> 0]

IdsInit ==
    /\ program \in IdFixtures
    /\ next = 1
    /\ uid = RootIds(program.start) /\ gid = RootIds(program.start)
    /\ short = FALSE /\ wrongWork = FALSE /\ left = FALSE

Step == program.prog[next]
At(op) == next \in DOMAIN program.prog /\ Step.op = op
Id(ids) == IF Step.id = REAL THEN ids.r ELSE Step.id
Forward == next' = next + 1 /\ UNCHANGED << program, left >>

(* setuid and setgid: root sets all three ids; anyone else only the effective
   one, to the real or the saved. *)
SetAll(ids, id) ==
    IF uid.e = 0 THEN [r |-> id, e |-> id, s |-> id] ELSE [ids EXCEPT !.e = id]

(* A kernel without saved ids, and Linux. *)
AllowedReal(ids, id) == uid.e = 0 \/ id = ids.r

Allowed(ids, id) == uid.e = 0 \/ id \in {ids.r, ids.s}

Permitted == IF Step.op = "setgid" THEN Allowed(gid, Id(gid)) ELSE Allowed(uid, Id(uid))

SetUid ==
    /\ At("setuid") /\ Allowed(uid, Id(uid))
    /\ uid' = SetAll(uid, Id(uid)) /\ Forward
    /\ UNCHANGED << gid, short, wrongWork >>

SetEuid ==
    /\ At("seteuid") /\ Allowed(uid, Id(uid))
    /\ uid' = [uid EXCEPT !.e = Id(uid)] /\ Forward
    /\ UNCHANGED << gid, short, wrongWork >>

SetGid ==
    /\ At("setgid") /\ Allowed(gid, Id(gid))
    /\ gid' = SetAll(gid, Id(gid)) /\ Forward
    /\ UNCHANGED << uid, short, wrongWork >>

(* EPERM for a call that is not permitted, EAGAIN or ENOMEM for any other. *)
Refused ==
    /\ At("setuid") \/ At("seteuid") \/ At("setgid")
    /\ next' = IF Step.tested THEN Len(program.prog) + 1 ELSE next + 1
    /\ left' = Step.tested
    /\ short' = (short \/ (~Step.tested /\ Permitted))
    /\ UNCHANGED << program, uid, gid, wrongWork >>

Work ==
    /\ At("work") /\ Forward
    /\ wrongWork' = (wrongWork \/ uid.e # Step.id)
    /\ UNCHANGED << uid, gid, short >>

IdsNext == SetUid \/ SetEuid \/ SetGid \/ Refused \/ Work

IdsSpec == IdsInit /\ [][IdsNext]_idVars

Finished == next > Len(program.prog)

(* The program is what it meant to be: no id it wanted to give up is root's,
   so that nothing it calls can take root back, and it worked as each user. *)
Kept0(ids) == 0 \in {ids.r, ids.e, ids.s}

Misled ==
    /\ ~left
    /\ \/ "uid" \in program.wants /\ Kept0(uid)
       \/ "gid" \in program.wants /\ Kept0(gid)
       \/ "euid" \in program.wants /\ uid.e = 0
       \/ wrongWork

(* A function labelled ok keeps root only when the kernel was short of something
   and it did not look at the result; never because of the order of its calls. *)
OkGivesUpRoot == Finished /\ program.label = "ok" /\ Misled => short

(* A reported order of several calls keeps root, or works as the wrong user, also
   when every permitted call succeeds; with one id to give up there is no order to
   get wrong.  A reported result that is not looked at keeps root exactly when
   the call fails. *)
ReportedKeepsRoot ==
    Finished /\ program.label = "ruleid" =>
       IF program.rule = "order" THEN Len(program.prog) = 1 \/ short \/ Misled
       ELSE Misled <=> short
=============================================================================
