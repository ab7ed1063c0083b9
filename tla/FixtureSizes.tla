---------------------------- MODULE FixtureSizes ----------------------------
(***************************************************************************)
(* The fixtures of the vendored Semgrep rules about sizes: off-by-one,      *)
(* integer-wraparound, signed-unsigned-conversion and the return value of   *)
(* snprintf.  A fixture is the label its comments give one call and, for    *)
(* every input, whether the run reaches that call and misuses a size there. *)
(*                                                                          *)
(* An int has INT_BITS bits; size_t has as many on one kind of machine and  *)
(* twice as many on the other.  BUFSIZE stands for the length of every      *)
(* array (256, 1024, 128, 40, 32, 10, 3), the other lengths are scaled.     *)
(***************************************************************************)
EXTENDS Integers, TLC

CONSTANTS
    INT_BITS,
    BUFSIZE

ASSUME SizeConstantsAssumption ==
    /\ INT_BITS \in Nat /\ INT_BITS >= 3
    /\ BUFSIZE \in 2 .. 2^(INT_BITS - 1) - 2

INT_TOP == 2^(INT_BITS - 1) - 1
Int_    == -INT_TOP - 1 .. INT_TOP

(* What a fixture is given: two ints and the width of size_t. *)
SizeInputs == [n: Int_, m: Int_, bits: {INT_BITS, 2 * INT_BITS}]

(* Conversions: to int, to unsigned int, to size_t. *)
AsInt(v)     == ((v + INT_TOP + 1) % 2^INT_BITS) - INT_TOP - 1
AsUnsigned(v) == v % 2^INT_BITS
AsSize(i, v) == v % 2^i.bits

ELEM      == 4                            \* sizeof(img_t), sizeof(int), sizeof(DEFAULT_ATTRIBUTE)
PTR(i)    == 4 * (i.bits \div INT_BITS)   \* sizeof(char *)
Strlen(i) == AsUnsigned(i.n)    \* the length of a string given from outside
Least(a, b) == IF a <= b THEN a ELSE b
Most(a, b)  == IF a >= b THEN a ELSE b

(* The ways to misuse a size: an index outside the array, a value a conversion
   or an operation changed. *)
Outside(index)      == index < 0 \/ index >= BUFSIZE
Changed(got, exact) == got # exact

(* One call, with its label in the source: ruleid; ok; todook, which is reported
   and should not be; todoruleid; or none, where a comment says that the label was
   taken out.  Admitted: the comment beside the call says that it goes wrong
   although it is not reported. *)
Call(label, Misused(_)) ==
    [label |-> label, misused |-> [i \in SizeInputs |-> Misused(i)], admitted |-> FALSE]
Admitted(call) == [call EXCEPT !.admitted = TRUE]

(* A block of which nothing is read or written. *)
Untouched(i) == FALSE

-----------------------------------------------------------------------------
(* off-by-one.c                                                             *)

(* What firstname[20] can hold, beside fullname[40]. *)
FirstName(i) == Least(Strlen(i), BUFSIZE \div 2 - 1)

FixedIndex ==
    [bad1  |-> Call("ruleid", LAMBDA i : Outside(BUFSIZE)),
     good1 |-> Call("ok",     LAMBDA i : Outside(BUFSIZE - 1)),
     bad2  |-> Call("ruleid", LAMBDA i : Outside(Least(FirstName(i), BUFSIZE))),
     good2 |-> Call("ok",     LAMBDA i : Outside(Least(FirstName(i), BUFSIZE - 0 - 1))),
     bad3  |-> Admitted(Call("none", LAMBDA i : \E k \in 0 .. BUFSIZE : Outside(k))),
     good3 |-> Call("ok",     LAMBDA i : \E k \in 0 .. BUFSIZE - 1 : Outside(k))]

CheckedIndex ==
    [test_func      |-> Call("ruleid", LAMBDA i : Outside(BUFSIZE)),
     processRawStr  |-> Call("ruleid", LAMBDA i : Outside(BUFSIZE)),
     process_string |-> Admitted(Call("none", LAMBDA i :
                           \E k \in 0 .. BUFSIZE : k < Strlen(i) /\ Outside(k))),
     get_user       |-> Call("ruleid", LAMBDA i : ~(Strlen(i) > BUFSIZE) /\ Outside(Strlen(i))),
     get_mac        |-> Admitted(Call("none", LAMBDA i :
                           LET n == AsUnsigned(i.n)
                           IN  ~(n > BUFSIZE) /\ \E k \in 0 .. n : Outside(k))),
     variant1       |-> Call("ruleid", LAMBDA i : Outside(BUFSIZE)),
     variant2       |-> Admitted(Call("none", LAMBDA i : \E k \in 1 .. BUFSIZE : Outside(k)))]

LastCharacter ==    \* str[strlen(str) - 1]
    LET Before(i) == i.m > 0 /\ Strlen(i) - 1 < 0
    IN  [text_create |-> Call("ruleid", Before), text_create2 |-> Call("ruleid", Before)]

(* A block that cannot hold the string, its terminator forgotten or not. *)
TooSmall(i, bytes) == bytes < Strlen(i) + 1
Bare(i)    == TooSmall(i, Strlen(i))        \* malloc(strlen(s))
PlusOne(i) == TooSmall(i, Strlen(i) + 1)    \* malloc(strlen(s) + 1)

CopyInto ==
    [addLineAfter |-> Call("ruleid", Bare), addLineAfter_fixed |-> Call("ok", PlusOne),
     flawed_strdup  |-> Call("ruleid", Bare), ok_strdup  |-> Call("ok", PlusOne),
     flawed_strdup2 |-> Call("ruleid", Bare), ok_strdup2 |-> Call("ok", PlusOne)]

TwoDimensions ==    \* one row of BUFSIZE
    [row0_256 |-> Call("ruleid", LAMBDA i : Outside(0 * BUFSIZE + BUFSIZE)),
     row1_1   |-> Call("ruleid", LAMBDA i : Outside(1 * BUFSIZE + 1)),
     row0_255 |-> Call("ok",     LAMBDA i : Outside(0 * BUFSIZE + BUFSIZE - 1))]

AllocateLength ==    \* the functions f, in their order, which free the block at once
    [f1 |-> Call("ruleid", Untouched), f2 |-> Call("ok", Untouched), f3 |-> Call("ok", Untouched),
     f4 |-> Call("ruleid", Untouched), f5 |-> Call("ok", Untouched), f6 |-> Call("ruleid", Untouched),
     f7 |-> Call("todook", Untouched), f8 |-> Call("ruleid", Untouched), f9 |-> Call("ruleid", Untouched)]

OffByOne == FixedIndex @@ CheckedIndex @@ LastCharacter @@ CopyInto @@ TwoDimensions @@ AllocateLength

-----------------------------------------------------------------------------
(* integer-wraparound.c                                                     *)

(* The size that reaches the allocator is not the product or sum meant. *)
SizeChanged(i, exact)     == Changed(AsSize(i, exact), exact)
UnsignedChanged(exact) == Changed(AsUnsigned(exact), exact)

ImageTable ==    \* good1 tests with ckd_mul
    [bad1  |-> Call("ruleid", LAMBDA i : SizeChanged(i, ELEM * i.n)),
     good1 |-> Call("ok",     LAMBDA i : /\ ~(i.n <= 0)
                                         /\ ~SizeChanged(i, AsSize(i, i.n) * ELEM)
                                         /\ SizeChanged(i, i.n * ELEM)),
     good2 |-> Call("todook", LAMBDA i : /\ ~(i.n <= 0)
                                         /\ ~(AsSize(i, i.n) > (2^i.bits - 1) \div ELEM)
                                         /\ SizeChanged(i, i.n * ELEM))]

ResponseArray ==    \* m_groupSize doubles, then is multiplied
    [bad2         |-> Call("ruleid", LAMBDA i : i.n > 0 /\ SizeChanged(i, i.n * PTR(i))),
     bad3_group   |-> Call("ruleid", LAMBDA i : UnsignedChanged(AsUnsigned(i.n) * 2)),
     bad3_scaffold |-> Call("ruleid", LAMBDA i : SizeChanged(i, AsUnsigned(AsUnsigned(i.n) * 2) * ELEM)),
     bad3_n       |-> Call("ruleid", LAMBDA i : SizeChanged(i, AsInt(i.n * 2)))]

TableOfRows ==
    [make_table |-> Call("ruleid", LAMBDA i : UnsignedChanged(AsUnsigned(i.n) * AsUnsigned(i.m))),
     myfunction |-> Call("ruleid", LAMBDA i : SizeChanged(i, i.n * ELEM))]

CursorMap ==    \* set_cursor lets the pair through when index + count has wrapped
    LET Rejects(index, sum) == index >= 2 \/ sum > 2
    IN  [set_cursor |-> Call("ruleid", LAMBDA i :
            LET index == AsUnsigned(i.n)
                count == AsUnsigned(i.m)
            IN  ~Rejects(index, AsUnsigned(index + count)) /\ Rejects(index, index + count))]

CountedAllocations ==    \* num_keys + 1, 16 + xml_length, len * 2
    [ht_get_all   |-> Call("ruleid", LAMBDA i : UnsignedChanged(AsUnsigned(i.n) + 1)),
     dl_start     |-> Call("ruleid", LAMBDA i : UnsignedChanged(2 + AsUnsigned(i.n))),
     mk_nt_hash   |-> Call("ruleid", LAMBDA i : Strlen(i) # 0 /\ SizeChanged(i, Strlen(i) * 2))]

GrowingTables ==
    [defineAttribute  |-> Call("ruleid", LAMBDA i : LET count == AsInt(i.n * 2)
                                                    IN  Changed(count, i.n * 2) \/ SizeChanged(i, count * ELEM)),
     doProlog         |-> Call("ruleid", LAMBDA i : /\ AsUnsigned(i.m) >= AsUnsigned(i.n)
                                                    /\ AsUnsigned(i.n) # 0
                                                    /\ UnsignedChanged(AsUnsigned(i.n) * 2)),
     test_propagation |-> Call("ruleid", LAMBDA i : SizeChanged(i, AsUnsigned(i.n) * 2)),
     more_operands    |-> Call("ruleid", LAMBDA i : SizeChanged(i, AsUnsigned(i.n) * 3 + 1))]

(* The size doubles, is corrected when the double is too small (8 and 9 scaled
   to 2 and 3), and is reallocated: n is p->size, m what the buffer holds. *)
GrowBuffer ==
    [printbuf_memappend |-> Call("ruleid", LAMBDA i :
        /\ i.n >= 0 /\ i.n <= i.m
        /\ LET twice == AsInt(i.n * 2)
               bytes == IF twice <= AsInt(i.m + 2) THEN AsInt(i.m + 3) ELSE twice
           IN  bytes < i.m + 3)]

CaughtWrap ==    \* a size that wrapped to 0 is caught before the call
    LET Exact(i) == 2^(INT_BITS - 2) * PTR(i)
    IN  [windows_example |-> Call("ruleid", LAMBDA i : AsSize(i, Exact(i)) # 0 /\ SizeChanged(i, Exact(i)))]

IntegerWraparound ==
    ImageTable @@ ResponseArray @@ TableOfRows @@ CursorMap @@ CountedAllocations
    @@ GrowingTables @@ GrowBuffer @@ CaughtWrap

-----------------------------------------------------------------------------
(* signed-unsigned-conversion.c                                             *)

(* parse_dnssl: the comment at the calloc calls its report a false positive, and
   what could go wrong is a block smaller than the data.  Then one label of the
   name: n is data[pos], a signed char, m is what is left of datalen. *)
NameLabels ==
    [validate_domain |-> Call("ruleid", LAMBDA i : SizeChanged(i, i.n)),
     dnssl_calloc    |-> Call("ruleid", LAMBDA i : i.n \in 0 .. INT_TOP - 1 /\ AsSize(i, AsInt(i.n + 1)) < i.n),
     dnssl_memcpy    |-> Call("ruleid", LAMBDA i : /\ ~(i.n > BUFSIZE \/ i.n + 1 > i.m)
                                                   /\ i.n # 0
                                                   /\ SizeChanged(i, i.n))]

(* copy_something1 compares its int with sizeof, which makes it unsigned first:
   a negative length is refused.  copy_something2 takes a size_t. *)
CopySomething ==
    [copy_something1 |-> Call("ruleid", LAMBDA i : ~(AsSize(i, i.n) > BUFSIZE) /\ SizeChanged(i, i.n)),
     copy_something2 |-> Call("ok",    LAMBDA i : LET len == AsSize(i, i.n)
                                                  IN  /\ ~(i.m = 0 \/ len = 0 \/ len > BUFSIZE)
                                                      /\ SizeChanged(i, len))]

ReturnedAsUnsigned ==
    [readdata  |-> Call("ruleid", LAMBDA i : UnsignedChanged(IF i.m = 0 THEN -1 ELSE 0)),
     readdata2 |-> Call("ruleid", LAMBDA i : UnsignedChanged(i.n))]

ConstantLength == [copy_memory |-> Call("ruleid", LAMBDA i : SizeChanged(i, BUFSIZE))]

ConstantDifference ==    \* 5 - 6
    [blowup_stack |-> Call("ruleid", LAMBDA i : SizeChanged(i, 2 - 3))]

(* A length tested against its upper bound only. *)
BoundedAbove(i) == ~(i.n > BUFSIZE) /\ SizeChanged(i, i.n)

UpperBoundOnly ==    \* sz = i, and strncpy with i
    [test_func_sz      |-> Call("ruleid", LAMBDA i : ~(i.n > BUFSIZE) /\ UnsignedChanged(i.n)),
     test_func_strncpy |-> Call("ruleid", BoundedAbove)]

UpperBoundInclusive ==
    [TypeConvert |-> Call("ruleid", BoundedAbove), processNext |-> Call("ruleid", BoundedAbove)]

FieldLength ==    \* watch_dns_ptr loops while (count)
    [disaster      |-> Call("ruleid", LAMBDA i : SizeChanged(i, i.n)),
     watch_dns_ptr |-> Call("ruleid", LAMBDA i : i.n # 0 /\ SizeChanged(i, i.n))]

SignedUnsigned ==
    NameLabels @@ CopySomething @@ ReturnedAsUnsigned @@ ConstantLength @@ ConstantDifference
    @@ UpperBoundOnly @@ UpperBoundInclusive @@ FieldLength

-----------------------------------------------------------------------------
(* unsafe-ret-snprintf-vsnprintf.c: Strlen(i) is what snprintf returns, the
   length of the whole text; the buffer keeps BUFSIZE - 1 of it.            *)

Kept(i) == Least(Strlen(i), BUFSIZE - 1)

(* The result taken for a position in the buffer. *)
Position(i) == Outside(Strlen(i))

UsedAsPosition ==
    [copy_string |-> Call("ruleid", Position),
     bad_user    |-> Call("ruleid", Position),
     bad_pass    |-> Call("ruleid", LAMBDA i : Outside(Strlen(i) + AsUnsigned(i.m))),
     bad2        |-> Admitted(Call("todoruleid", Position))]

(* log only compares the result, cuts the buffer and appends to what is there. *)
CutAndAppended ==
    [log |-> Call("ruleid", LAMBDA i :
        Outside((IF Strlen(i) >= BUFSIZE - 2 THEN BUFSIZE - 2 ELSE Kept(i)) + 1))]

(* myname[5] is given ten bytes, the size and the text being constants; f copies
   len + 1 bytes; %u prints fewer than BUFSIZE digits. *)
AllocatedFromResult ==
    [test_myname |-> Admitted(Call("ok", LAMBDA i : Outside(2 * BUFSIZE - 1))),
     test_name2 |-> Call("ruleid", Bare),
     f1         |-> Call("ruleid", Position),
     non_string |-> Call("ok",     LAMBDA i : Strlen(i) < BUFSIZE /\ Position(i))]

LengthChecked ==    \* the functions that return NULL for a length out of range
    LET AsUnsignedTest(i) == ~(AsSize(i, i.n) >= BUFSIZE) /\ Outside(i.n)
    IN  [f2 |-> Call("todook", LAMBDA i : ~(i.n < 0 \/ i.n > BUFSIZE - 1) /\ Outside(i.n)),
         f3 |-> Call("todook", AsUnsignedTest), f5 |-> Call("todook", AsUnsignedTest)]

SpaceLeft ==    \* snprintf(buf, 128 - len, "foo")
    [f4 |-> Call("ruleid", LAMBDA i : SizeChanged(i, BUFSIZE - Strlen(i)))]

(* strnlen and strncasecmp stop at the terminator snprintf always writes. *)
StoppedByTerminator ==
    LET Stopped(i) == Outside(Least(Kept(i), Strlen(i)))
    IN  [f6 |-> Call("ruleid", Stopped), f7 |-> Call("ok", Stopped), f8 |-> Call("ruleid", Stopped)]

(* &buf[len] may be one past the end; gen_text fills up to sz - 1, then writes
   two characters more. *)
AddedToLength ==
    [f9           |-> Call("ruleid", LAMBDA i : Strlen(i) > BUFSIZE),
     wide_strings |-> Call("ruleid", LAMBDA i : Strlen(i) > BUFSIZE),
     gen_text     |-> Call("ruleid", LAMBDA i : Outside(Most(Strlen(i), BUFSIZE - 1) + 1))]

CountedDown ==    \* len, counted down over the characters that are there
    [int_to_roman |-> Call("ruleid", LAMBDA i : Strlen(i) - Kept(i) # 0)]

SnprintfResult ==
    UsedAsPosition @@ CutAndAppended @@ AllocatedFromResult @@ LengthChecked @@ SpaceLeft
    @@ StoppedByTerminator @@ AddedToLength @@ CountedDown

Rules == [off_by_one |-> OffByOne, integer_wraparound |-> IntegerWraparound,
          signed_unsigned |-> SignedUnsigned, snprintf_result |-> SnprintfResult]

-----------------------------------------------------------------------------

VARIABLES
    rule, name,   \* the labelled call
    input,        \* what its function is given
    misused       \* whether a size was misused there

sizeVars == << rule, name, input, misused >>

SizesInit ==
    /\ rule \in DOMAIN Rules
    /\ name \in DOMAIN Rules[rule]
    /\ input \in SizeInputs
    /\ misused = FALSE

RunCall == misused' = Rules[rule][name].misused[input] /\ UNCHANGED << rule, name, input >>

SizesNext == RunCall

SizesSpec == SizesInit /\ [][SizesNext]_sizeVars

(* A call that is not reported misuses no size, whatever the input and on both
   kinds of machine, unless the comment beside it says so: four loops whose label
   was taken out, one label still to do, and the constant overflow that is called
   ok.  So the checks in the other "ok" and "todook" functions suffice. *)
SizeMisuseIsLabelled ==
    misused => \/ Rules[rule][name].label = "ruleid"
               \/ Rules[rule][name].admitted
=============================================================================
