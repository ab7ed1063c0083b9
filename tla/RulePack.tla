------------------------------ MODULE RulePack ------------------------------
(***************************************************************************)
(* The vendored Semgrep rules, as `semgrep --test .semgrep/rules/` checks   *)
(* them: each fixture's comments say which of its steps a rule reports.     *)
(* A behaviour runs one fixture on one of the four machines, FixtureObjects,*)
(* FixtureSizes, FixtureRaces and FixtureIds; the others rest.              *)
(***************************************************************************)
EXTENDS FixtureObjects, FixtureSizes, FixtureRaces, FixtureIds

VARIABLE machine   \* "objects", "sizes", "races" or "ids"

packVars == << machine, objectVars, sizeVars, raceVars, idVars >>

(* A machine that rests has no fixture. *)
Rest == "rest"

ObjectsRest ==
    /\ fixture = Rest /\ flags = Rest /\ at = Rest /\ env = Rest /\ obj = Rest
    /\ seen = Rest /\ untested = Rest /\ escaped = Rest /\ bad = Rest /\ run = Rest

SizesRest == rule = Rest /\ name = Rest /\ input = Rest /\ misused = Rest

RacesRest ==
    /\ race = Rest /\ step = Rest /\ current = Rest /\ handle = Rest
    /\ looked = Rest /\ used = Rest

IdsRest ==
    /\ program = Rest /\ next = Rest /\ uid = Rest /\ gid = Rest
    /\ short = Rest /\ wrongWork = Rest /\ left = Rest

PackInit ==
    \/ machine = "objects" /\ ObjectsInit /\ SizesRest /\ RacesRest /\ IdsRest
    \/ machine = "sizes" /\ SizesInit /\ ObjectsRest /\ RacesRest /\ IdsRest
    \/ machine = "races" /\ RacesInit /\ ObjectsRest /\ SizesRest /\ IdsRest
    \/ machine = "ids" /\ IdsInit /\ ObjectsRest /\ SizesRest /\ RacesRest

PackNext ==
    /\ UNCHANGED machine
    /\ \/ machine = "objects" /\ ObjectsNext /\ UNCHANGED << sizeVars, raceVars, idVars >>
       \/ machine = "sizes" /\ SizesNext /\ UNCHANGED << objectVars, raceVars, idVars >>
       \/ machine = "races" /\ RacesNext /\ UNCHANGED << objectVars, sizeVars, idVars >>
       \/ machine = "ids" /\ IdsNext /\ UNCHANGED << objectVars, sizeVars, raceVars >>

PackSpec == PackInit /\ [][PackNext]_packVars

-----------------------------------------------------------------------------

(* No rule misses what it is about without a comment that says so: running the
   functions, the misuses of an object or of a size are at labelled steps, or at
   one of six calls beside which the source admits them.  An edit of a fixture
   that moves a label, or changes the code above it, breaks this although semgrep
   --test, which compares labels with patterns only, still passes. *)
LabelsMissNothing ==
    /\ machine = "objects" => MisuseIsLabelled
    /\ machine = "sizes" => SizeMisuseIsLabelled

(* Every report of the object rules is a misuse in each run that gets there.  Of
   the size rules nothing like it is said: several of their reports are of calls
   that no input makes go wrong. *)
ReportsAreReal == machine = "objects" => ReportIsReal

(* The object rules' patterns over the text report exactly what is labelled. *)
ObjectRulesMatchLabels == machine = "objects" => RulesMatchLabels

(* The function that the access and stat rule does not report, as it asks the
   open file, is right about its file whatever another process does. *)
OpenFileIsTheOneLookedAt == machine = "races" => UnreportedLooksAtItsFile

(* The orders called ok give root up unless an ignored call fails for want of
   resources, those that are reported keep it, or work as the wrong user. *)
OrderDecidesRoot == machine = "ids" => OkGivesUpRoot /\ ReportedKeepsRoot
=============================================================================
