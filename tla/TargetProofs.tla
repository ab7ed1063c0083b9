---------------------------- MODULE TargetProofs ----------------------------
(***************************************************************************)
(* The programs that the analyzers are tested on.  The vulnerable shell:    *)
(* which blocks it loses, which flags it reads, which lines it repeats and   *)
(* what a run on the gate's input must show, for every input, ring size and *)
(* content of the flags.  The fixtures of the vendored rules: races however *)
(* often a file is replaced, and ids whoever the users are.                 *)
(***************************************************************************)
EXTENDS VulnShell, RulePack, Lemmas, TLAPS

(* Where main is when history_init has returned. *)
Running == {"prompt", "record", "parse", "dispatch", "wait", "cleanup"}

(* The input, and what of it has been read. *)
StdinInv ==
    /\ stdin \in Seq(Line) /\ seekable \in BOOLEAN /\ rewound \in BOOLEAN /\ spliced \in BOOLEAN
    /\ offset \in 0 .. Total /\ bufend \in 0 .. Total /\ bufpos \in 0 .. bufend
    /\ taken \subseteq Nat
    /\ typed \in Seq([pieces: SUBSET Nat, line: Line])
    /\ pc \in {"record", "parse", "dispatch"} => typed # << >>

(* Without a rewind the text handled comes before the text in hand, that before
   the buffered one and that before the shared offset, and commands read none of
   it.  Undisturbed, the text in hand begins where the last line handled ended. *)
OrderInv ==
    /\ ~rewound =>
         /\ bufend <= offset
         /\ \A i \in DOMAIN typed : \A p \in typed[i].pieces :
               p <= bufpos /\ \A q \in taken : p < q
         /\ \A q \in taken : q <= bufpos /\ q \notin childRead
         /\ \A n \in childRead : n \in Nat /\ n <= offset /\ n \notin bufpos + 1 .. bufend
    /\ Undisturbed =>
         /\ ~spliced /\ offset = bufend
         /\ Len(typed) <= Len(stdin) /\ Ends(Len(typed)) <= bufpos
         /\ taken = Ends(Len(typed)) + 1 .. bufpos
         /\ taken \cap Newlines = {}
         /\ \A i \in DOMAIN typed : typed[i].line = stdin[i]

(* A ring of pointers h after n turns that stored the blocks b: each of the
   last HISTORY_SLOTS blocks is where its turn put it, and a slot points to no
   other. *)
RingHolds(b, n, h) ==
    /\ \A k \in 1 .. n :
          b[k] # NoText /\ k + HISTORY_SLOTS > n => h[(k - 1) % HISTORY_SLOTS] = k
    /\ \A s \in Slot :
          h[s] # 0 => /\ h[s] \in 1 .. n
                      /\ b[h[s]] # NoText
                      /\ h[s] + HISTORY_SLOTS > n
                      /\ (h[s] - 1) % HISTORY_SLOTS = s

BlockInv ==
    /\ blocks \in Seq(Line \cup {NoText}) /\ history \in [Slot -> Nat]
    /\ RingHolds(blocks, history_count, history)

(* The flags of the slots that were recorded to are set, whatever the others
   hold. *)
FlagInv ==
    /\ pc = "start" => blocks = << >>
    /\ pc \in Running => /\ slot_used \in [Slot -> {0, 1}]
                         /\ \A k \in 1 .. history_count : slot_used[(k - 1) % HISTORY_SLOTS] = 1

(* A line is recorded before it is answered, and its answer is the last. *)
TurnInv == pc \in {"parse", "dispatch"} => history_count >= 1 /\ asked = << >>

(* The inductive invariant.  Lost and the answers of recall follow from
   BlockInv and FlagInv together: the flag says that a turn came by, the block
   what it left. *)
VulnInv == /\ StdinInv
           /\ OrderInv
           /\ BlockInv
           /\ FlagInv
           /\ TurnInv
           /\ RecallIgnoresGarbage
           /\ GarbageReadOnlyEarly
           /\ ReplayOnlyAfterRewind

(* Newlines come one after the other. *)
LEMMA EndsFacts ==
    /\ PIECES \in Nat \ {0} /\ Ends(0) = 0
    /\ \A n \in Nat : Ends(n) \in Nat
    /\ \A m, n \in Nat : m < n => Ends(m) < Ends(n)
<1>1. PIECES \in Nat \ {0}
  BY InputsAssumption
<1>2. ASSUME NEW m \in Nat, NEW n \in Nat, m < n PROVE PIECES * m < PIECES * n
  <2>1. n - m - 1 \in Nat /\ PIECES * (n - m - 1) >= 0
    BY <1>1, <1>2
  <2>2. PIECES * n = PIECES * m + PIECES + PIECES * (n - m - 1)
    BY <1>1, <1>2
  <2>3. PIECES * n \in Nat /\ PIECES * m \in Nat
    BY <1>1
  <2> QED BY <1>1, <2>1, <2>2, <2>3
<1>3. \A n \in Nat : PIECES * n \in Nat
  BY <1>1
<1>4. PIECES * 0 = 0
  BY <1>1
<1> QED BY <1>1, <1>2, <1>3, <1>4 DEF Ends

(* The slot of a turn is the slot of the turn one ring later. *)
LEMMA ModWrap ==
    ASSUME NEW S \in Nat \ {0}, NEW x \in Nat
    PROVE  (x + S) % S = x % S
<1> DEFINE p == x \div S
<1> DEFINE t == x % S
<1>1. p \in Int /\ t \in 0 .. S - 1 /\ x = S * p + t
  BY DivMod
<1> HIDE DEF p, t
<1>2. x + S = S * (p + 1) + t
  BY <1>1
<1>3. (x + S) % S = t
  BY <1>1, <1>2, ModUnique
<1> QED BY <1>3 DEF t

(* Slots and ring size. *)
LEMMA SlotOfTurn ==
    /\ HISTORY_SLOTS \in Nat \ {0}
    /\ \A x \in Nat : x % HISTORY_SLOTS \in Slot
<1>1. HISTORY_SLOTS \in Nat \ {0}
  BY SizesAssumption
<1> QED BY <1>1, DivMod DEF Slot

(* strdup stores a block, or fails: the ring of n turns becomes one of n + 1. *)
LEMMA StoreKeepsRing ==
    ASSUME NEW n \in Nat, NEW text, NEW b, NEW b2, NEW h \in [Slot -> Nat], NEW h2,
           RingHolds(b, n, h),
           b2[n + 1] = text,
           \A k \in 1 .. n : b2[k] = b[k],
           h2 \in [Slot -> Nat],
           h2[n % HISTORY_SLOTS] = IF text = NoText THEN 0 ELSE n + 1,
           \A s \in Slot : s # n % HISTORY_SLOTS => h2[s] = h[s]
    PROVE  RingHolds(b2, n + 1, h2)
<1> DEFINE S == HISTORY_SLOTS
<1>0. S \in Nat \ {0} /\ \A x \in Nat : x % S \in Slot
  BY SlotOfTurn
<1>6. /\ \A k \in 1 .. n : b[k] # NoText /\ k + S > n => h[(k - 1) % S] = k
      /\ \A s \in Slot : h[s] # 0 => /\ h[s] \in 1 .. n /\ b[h[s]] # NoText
                                     /\ h[s] + S > n /\ (h[s] - 1) % S = s
  BY DEF RingHolds
<1>7. /\ h2 \in [Slot -> Nat] /\ h2[n % S] = IF text = NoText THEN 0 ELSE n + 1
      /\ \A s \in Slot : s # n % S => h2[s] = h[s]
  OBVIOUS
<1> DEFINE slot == n % S
<1>1. slot \in Slot
  BY <1>0
<1>2. /\ h2 \in [Slot -> Nat]
      /\ h2[slot] = IF text = NoText THEN 0 ELSE n + 1
      /\ \A s \in Slot : s # slot => h2[s] = h[s]
  BY <1>1, <1>7
<1>3. slot = n % S
  OBVIOUS
<1> HIDE DEF slot, S
<1>4. ASSUME NEW k \in 1 .. n + 1, b2[k] # NoText, k + S > n + 1
      PROVE  h2[(k - 1) % S] = k
  <2>1. CASE k = n + 1
    <3>1. k - 1 = n /\ text # NoText
      BY <1>4, <2>1
    <3> QED BY <1>2, <1>3, <2>1, <3>1
  <2>2. CASE k # n + 1
    <3>1. k \in 1 .. n /\ k - 1 \in Nat /\ k - 1 < n /\ n < (k - 1) + S /\ k + S > n
      BY <1>0, <1>4, <2>2
    <3>2. (k - 1) % S # slot
      BY <1>0, <1>3, <3>1, ModApart
    <3>3. (k - 1) % S \in Slot
      BY <1>0, <3>1
    <3>4. b[k] # NoText
      BY <1>4, <3>1
    <3>5. h[(k - 1) % S] = k
      BY <1>6, <3>1, <3>4
    <3> QED BY <1>2, <3>2, <3>3, <3>5
  <2> QED BY <2>1, <2>2
<1>5. ASSUME NEW s \in Slot, h2[s] # 0
      PROVE  /\ h2[s] \in 1 .. n + 1 /\ b2[h2[s]] # NoText
             /\ h2[s] + S > n + 1 /\ (h2[s] - 1) % S = s
  <2>1. CASE s = slot
    <3>1. h2[s] = n + 1 /\ text # NoText
      BY <1>2, <1>5, <2>1
    <3>2. (n + 1) - 1 = n /\ n + 1 \in 1 .. n + 1 /\ n + 1 + S > n + 1
      BY <1>0
    <3> QED BY <1>3, <2>1, <3>1, <3>2
  <2>2. CASE s # slot
    <3> DEFINE k == h[s]
    <3>1. h2[s] = k /\ k # 0
      BY <1>2, <1>5, <2>2
    <3>2. k \in 1 .. n /\ b[k] # NoText /\ k + S > n /\ (k - 1) % S = s
      BY <1>6, <3>1
    <3> HIDE DEF k
    <3>3. k + S # n + 1
      <4>1. SUFFICES ASSUME k + S = n + 1 PROVE FALSE
        OBVIOUS
      <4>2. k - 1 \in Nat /\ (k - 1) + S = n
        BY <1>0, <3>2, <4>1
      <4>3. slot = (k - 1) % S
        BY <1>0, <1>3, <4>2, ModWrap
      <4> QED BY <2>2, <3>2, <4>3
    <3>4. k \in 1 .. n + 1 /\ k + S > n + 1
      BY <1>0, <3>2, <3>3
    <3>5. b2[k] # NoText
      BY <3>2
    <3> QED BY <3>1, <3>2, <3>4, <3>5
  <2> QED BY <2>1, <2>2
<1>8. HISTORY_SLOTS = S
  BY DEF S
<1> QED BY <1>2, <1>4, <1>5, <1>8 DEF RingHolds

(* A step that leaves the table and the answers alone keeps what is said of
   them, wherever main goes among the places where a line is recorded. *)
LEMMA TableFrame ==
    ASSUME VulnInv, UNCHANGED << slot_used, history, blocks, replyVars >>,
           pc' = "start" => pc = "start", pc' \in Running => pc \in Running,
           pc' \in {"parse", "dispatch"} => pc \in {"parse", "dispatch"}
    PROVE  BlockInv' /\ FlagInv' /\ TurnInv' /\ RecallIgnoresGarbage' /\ GarbageReadOnlyEarly'
<1>1. slot_used' = slot_used /\ history' = history /\ blocks' = blocks
  OBVIOUS
<1>2. out' = out /\ asked' = asked /\ branched' = branched
  BY DEF replyVars
<1>3. history_count' = history_count
  BY <1>1 DEF history_count
<1>4. BlockInv'
  BY <1>1, <1>3 DEF VulnInv, BlockInv
<1>5. FlagInv'
  BY <1>1, <1>3 DEF VulnInv, FlagInv
<1>6. TurnInv'
  BY <1>2, <1>3 DEF VulnInv, TurnInv
<1>7. RecallIgnoresGarbage'
  BY <1>1, <1>2, <1>3 DEF VulnInv, RecallIgnoresGarbage
<1>8. GarbageReadOnlyEarly'
  BY <1>2 DEF VulnInv, GarbageReadOnlyEarly
<1> QED BY <1>4, <1>5, <1>6, <1>7, <1>8

(* The same for the input. *)
LEMMA InputFrame ==
    ASSUME VulnInv, UNCHANGED inputVars,
           pc' \in {"record", "parse", "dispatch"} => pc \in {"record", "parse", "dispatch"}
    PROVE  StdinInv' /\ OrderInv' /\ ReplayOnlyAfterRewind'
<1>1. /\ stdin' = stdin /\ seekable' = seekable /\ offset' = offset /\ bufpos' = bufpos
      /\ bufend' = bufend /\ taken' = taken /\ spliced' = spliced
      /\ typed' = typed /\ childRead' = childRead /\ rewound' = rewound
  BY DEF inputVars
<1>2. Total' = Total /\ Newlines' = Newlines /\ (Undisturbed' <=> Undisturbed)
  BY <1>1 DEF Total, Newlines, Ends, Undisturbed
<1>3. StdinInv'
  BY <1>1, <1>2 DEF VulnInv, StdinInv
<1>4. OrderInv'
  BY <1>1, <1>2 DEF VulnInv, OrderInv, Ends
<1>5. ReplayOnlyAfterRewind'
  BY <1>1, <1>2 DEF VulnInv, ReplayOnlyAfterRewind
<1> QED BY <1>3, <1>4, <1>5

(* The line that is being handled is a line. *)
LEMMA InputIsLine ==
    ASSUME StdinInv, pc \in {"record", "parse", "dispatch"}
    PROVE  Input \in Line
<1> DEFINE T == [pieces: SUBSET Nat, line: Line]
<1>1. typed # << >> /\ typed \in Seq(T)
  BY DEF StdinInv
<1>2. \A t \in T : t.line \in Line
  OBVIOUS
<1> HIDE DEF T
<1>3. typed[Len(typed)] \in T
  BY <1>1
<1> QED BY <1>2, <1>3 DEF Input

(* A session starts with nothing read and nothing recorded. *)
LEMMA VulnInitInv == VulnInit => VulnInv
<1> SUFFICES ASSUME VulnInit PROVE VulnInv
  OBVIOUS
<1> USE DEF VulnInit
<1>0. stdin \in Seq(Line) /\ seekable \in BOOLEAN /\ Len(stdin) \in Nat
  <2>1. PICK f \in Inputs : stdin = f.lines /\ seekable = f.seekable
    OBVIOUS
  <2>2. f \in [lines: Seq(Line), seekable: BOOLEAN]
    BY InputsAssumption
  <2> QED BY <2>1, <2>2
<1>1. StdinInv
  <2>1. Total \in Nat
    BY <1>0, EndsFacts DEF Total
  <2>2. offset \in 0 .. Total /\ bufend \in 0 .. Total /\ bufpos \in 0 .. bufend
    BY <2>1
  <2>3. \A T : << >> \in Seq(T)
    OBVIOUS
  <2>4. typed \in Seq([pieces: SUBSET Nat, line: Line])
    BY <2>3
  <2>5. pc \notin {"record", "parse", "dispatch"}
    OBVIOUS
  <2>6. taken \subseteq Nat /\ spliced \in BOOLEAN /\ rewound \in BOOLEAN
    OBVIOUS
  <2> QED BY <1>0, <2>2, <2>4, <2>5, <2>6 DEF StdinInv
<1>e. DOMAIN typed = {} /\ Len(typed) = 0
  OBVIOUS
<1>2. OrderInv
  <2>1. Ends(Len(typed)) = 0 /\ 0 + 1 .. 0 = {}
    BY <1>e, EndsFacts
  <2>2. taken = Ends(Len(typed)) + 1 .. bufpos /\ Ends(Len(typed)) <= bufpos
    BY <2>1
  <2> QED BY <1>0, <1>e, <2>2 DEF OrderInv
<1>3. BlockInv
  BY DEF BlockInv, RingHolds, history_count
<1>4. FlagInv
  BY DEF FlagInv, Running
<1>5. TurnInv /\ RecallIgnoresGarbage /\ GarbageReadOnlyEarly
  BY DEF TurnInv, RecallIgnoresGarbage, GarbageReadOnlyEarly
<1>6. ReplayOnlyAfterRewind
  BY <1>e DEF ReplayOnlyAfterRewind
<1> QED BY <1>1, <1>2, <1>3, <1>4, <1>5, <1>6 DEF VulnInv

(* One more line is returned: what getline had of it, and what it takes now. *)
LEMMA ReturnKeeps ==
    ASSUME VulnInv, NEW l \in Line, NEW pieces, pc = "prompt", ReturnLine(pieces, l),
           bufpos' \in bufpos .. bufend, pieces = taken \cup (bufpos + 1 .. bufpos'),
           Undisturbed /\ pieces \cap Newlines # {} =>
              /\ Len(typed) < Len(stdin)
              /\ bufpos' = Ends(Len(typed) + 1) /\ l = stdin[Len(typed) + 1]
    PROVE  VulnInv'
<1> DEFINE n == Len(typed)
<1>1. /\ stdin' = stdin /\ seekable' = seekable /\ offset' = offset /\ bufend' = bufend
      /\ childRead' = childRead /\ rewound' = rewound /\ taken' = {} /\ spliced' = FALSE
      /\ typed' = Append(typed, [pieces |-> pieces, line |-> l])
      /\ pc' \in {"prompt", "record"}
  BY DEF ReturnLine, AfterLine
<1>2. /\ typed \in Seq([pieces: SUBSET Nat, line: Line]) /\ stdin \in Seq(Line) /\ Len(stdin) \in Nat
      /\ Total \in Nat /\ Total' = Total /\ Newlines' = Newlines
      /\ offset \in 0 .. Total /\ bufend \in 0 .. Total /\ bufpos \in 0 .. bufend
      /\ taken \subseteq Nat
  <2>1. /\ typed \in Seq([pieces: SUBSET Nat, line: Line]) /\ stdin \in Seq(Line) /\ Len(stdin) \in Nat
        /\ offset \in 0 .. Total /\ bufend \in 0 .. Total /\ bufpos \in 0 .. bufend
        /\ taken \subseteq Nat
    BY DEF VulnInv, StdinInv
  <2>2. Total \in Nat
    BY <2>1, EndsFacts DEF Total
  <2>3. Total' = Total /\ Newlines' = Newlines
    BY <1>1 DEF Total, Newlines, Ends
  <2> QED BY <2>1, <2>2, <2>3
<1>3. bufpos' \in 0 .. bufend /\ pieces \subseteq Nat /\ bufpos' \in Nat
  BY <1>2
<1>4. /\ n \in Nat /\ typed'[n + 1].pieces = pieces /\ typed'[n + 1].line = l
      /\ DOMAIN typed = 1 .. n /\ DOMAIN typed' = 1 .. n + 1 /\ Len(typed') = n + 1
      /\ \A i \in 1 .. n : typed'[i] = typed[i]
      /\ typed' \in Seq([pieces: SUBSET Nat, line: Line]) /\ typed' # << >>
  BY <1>1, <1>2, <1>3
<1>a. \A i \in 1 .. n + 1 : i = n + 1 \/ i \in 1 .. n
  BY <1>4
<1>5. StdinInv'
  BY <1>1, <1>2, <1>3, <1>4 DEF VulnInv, StdinInv
<1>p. \A i \in 1 .. n : \A p \in typed[i].pieces : p \in Nat
  <2> DEFINE T == [pieces: SUBSET Nat, line: Line]
  <2>1. typed \in Seq(T) /\ \A t \in T : \A p \in t.pieces : p \in Nat
    BY <1>2
  <2> HIDE DEF T
  <2>2. \A i \in 1 .. n : typed[i] \in T
    BY <1>4, <2>1
  <2> QED BY <2>1, <2>2
<1> HIDE DEF n
<1>6. ASSUME ~rewound
      PROVE  /\ bufend <= offset
             /\ \A i \in 1 .. n : \A p \in typed[i].pieces : p <= bufpos' /\ \A q \in pieces : p < q
             /\ \A q \in pieces : q <= bufpos' /\ q \notin childRead
             /\ \A m \in childRead : m \in Nat /\ m <= offset /\ m \notin bufpos' + 1 .. bufend
  <2>1. /\ bufend <= offset
        /\ \A i \in 1 .. n : \A p \in typed[i].pieces : p <= bufpos /\ \A q \in taken : p < q
        /\ \A q \in taken : q <= bufpos /\ q \notin childRead
        /\ \A m \in childRead : m \in Nat /\ m <= offset /\ m \notin bufpos + 1 .. bufend
    BY <1>4, <1>6 DEF VulnInv, OrderInv
  <2>2. ASSUME NEW q \in pieces PROVE q <= bufpos' /\ q \notin childRead
    <3>1. CASE q \in taken
      BY <1>2, <1>3, <2>1, <3>1
    <3>2. CASE q \in bufpos + 1 .. bufpos'
      BY <1>2, <1>3, <2>1, <3>2
    <3> QED BY <3>1, <3>2
  <2>3. ASSUME NEW i \in 1 .. n, NEW p \in typed[i].pieces
        PROVE  p <= bufpos' /\ \A q \in pieces : p < q
    <3>1. p \in Nat /\ p <= bufpos /\ \A q \in taken : p < q
      BY <1>p, <2>1
    <3>2. \A q \in bufpos + 1 .. bufpos' : p < q
      BY <1>2, <1>3, <3>1
    <3> QED BY <1>2, <1>3, <3>1, <3>2
  <2>4. \A m \in childRead : m \notin bufpos' + 1 .. bufend
    BY <1>2, <1>3, <2>1
  <2> QED BY <2>1, <2>2, <2>3, <2>4
<1>7. ASSUME Undisturbed'
      PROVE  /\ ~spliced' /\ offset' = bufend'
             /\ Len(typed') <= Len(stdin') /\ Ends(Len(typed')) <= bufpos'
             /\ taken' = Ends(Len(typed')) + 1 .. bufpos'
             /\ taken' \cap Newlines' = {}
             /\ \A i \in 1 .. n + 1 : typed'[i].line = stdin'[i]
  <2>1. Undisturbed /\ pieces \cap Newlines # {}
    <3>1. /\ childRead' = {} /\ ~rewound'
          /\ \A i \in 1 .. n + 1 : typed'[i].pieces \cap Newlines' # {}
      BY <1>4, <1>7 DEF Undisturbed
    <3>2. \A i \in 1 .. n : i \in 1 .. n + 1 /\ typed'[i].pieces = typed[i].pieces
      BY <1>4
    <3>3. n + 1 \in 1 .. n + 1
      BY <1>4
    <3> QED BY <1>1, <1>2, <1>4, <3>1, <3>2, <3>3 DEF Undisturbed
  <2>2. n < Len(stdin) /\ bufpos' = Ends(n + 1) /\ l = stdin[n + 1]
    BY <2>1 DEF n
  <2>3. offset = bufend /\ \A i \in 1 .. n : typed[i].line = stdin[i]
    BY <1>4, <2>1 DEF VulnInv, OrderInv
  <2>4. \A i \in 1 .. n + 1 : typed'[i].line = stdin'[i]
    BY <1>1, <1>4, <1>a, <2>2, <2>3
  <2>5. \A b \in Nat : b + 1 .. b = {} /\ b <= b
    OBVIOUS
  <2> QED BY <1>1, <1>2, <1>3, <1>4, <2>2, <2>3, <2>4, <2>5
<1>8. OrderInv'
  <2>1. ASSUME ~rewound'
        PROVE  /\ bufend' <= offset'
               /\ \A i \in DOMAIN typed' : \A p \in typed'[i].pieces :
                     p <= bufpos' /\ \A q \in taken' : p < q
               /\ \A q \in taken' : q <= bufpos' /\ q \notin childRead'
               /\ \A m \in childRead' : m \in Nat /\ m <= offset' /\ m \notin bufpos' + 1 .. bufend'
    BY <1>1, <1>4, <1>6, <1>a, <2>1
  <2> QED BY <1>4, <1>7, <2>1 DEF OrderInv, Ends
<1>9. ReplayOnlyAfterRewind'
  <2>1. ASSUME ~rewound, NEW i \in 1 .. n + 1, NEW j \in 1 .. n + 1, i < j,
               NEW p \in typed'[i].pieces, NEW q \in typed'[j].pieces
        PROVE  p < q
    <3>1. i \in 1 .. n /\ p \in typed[i].pieces
      BY <1>4, <2>1
    <3>2. CASE j = n + 1
      BY <1>4, <1>6, <2>1, <3>1, <3>2
    <3>3. CASE j \in 1 .. n
      BY <1>4, <2>1, <3>1, <3>3 DEF VulnInv, ReplayOnlyAfterRewind
    <3> QED BY <1>a, <3>2, <3>3
  <2>2. ASSUME ~rewound, NEW i \in 1 .. n + 1 PROVE typed'[i].pieces \cap childRead = {}
    <3>1. CASE i = n + 1
      BY <1>4, <1>6, <2>2, <3>1
    <3>2. CASE i \in 1 .. n
      BY <1>4, <2>2, <3>2 DEF VulnInv, ReplayOnlyAfterRewind
    <3> QED BY <1>a, <3>1, <3>2
  <2>3. Undisturbed' => \A i \in 1 .. n + 1 : i \in DOMAIN stdin' /\ typed'[i].line = stdin'[i]
    <3>1. Undisturbed' => n + 1 <= Len(stdin) /\ \A i \in 1 .. n + 1 : typed'[i].line = stdin'[i]
      BY <1>1, <1>4, <1>7
    <3> QED BY <1>1, <1>2, <1>4, <3>1
  <2> QED BY <1>1, <1>4, <2>1, <2>2, <2>3 DEF ReplayOnlyAfterRewind
<1>10. BlockInv' /\ FlagInv' /\ TurnInv' /\ RecallIgnoresGarbage' /\ GarbageReadOnlyEarly'
  <2>1. UNCHANGED << slot_used, history, blocks, replyVars >>
    BY DEF ReturnLine, tableVars
  <2> QED BY <1>1, <2>1, TableFrame DEF Running
<1> QED BY <1>5, <1>8, <1>9, <1>10 DEF VulnInv

(* The first newline after what is in hand is that of the line in hand. *)
LEMMA NextNewline ==
    ASSUME VulnInv, Undisturbed, NEW to \in Newlines, bufpos < to,
           Newlines \cap (bufpos + 1 .. to - 1) = {}
    PROVE  /\ Len(typed) < Len(stdin) /\ to = Ends(Len(typed) + 1)
           /\ taken \cup (bufpos + 1 .. to) = Ends(Len(typed)) + 1 .. Ends(Len(typed) + 1)
<1> DEFINE n == Len(typed)
<1>1. /\ n \in Nat /\ Len(stdin) \in Nat /\ DOMAIN stdin = 1 .. Len(stdin) /\ bufpos \in Nat
      /\ Ends(n) <= bufpos /\ taken = Ends(n) + 1 .. bufpos /\ taken \cap Newlines = {}
  <2>1. /\ typed \in Seq([pieces: SUBSET Nat, line: Line]) /\ stdin \in Seq(Line)
        /\ Total \in Nat /\ bufend \in 0 .. Total /\ bufpos \in 0 .. bufend
    BY EndsFacts DEF VulnInv, StdinInv, Total
  <2> QED BY <2>1 DEF VulnInv, OrderInv
<1> HIDE DEF n
<1>2. PICK m \in 1 .. Len(stdin) : to = Ends(m)
  BY <1>1 DEF Newlines
<1>3. n < m
  <2>1. Ends(n) \in Nat /\ Ends(m) \in Nat /\ m \in Nat
    BY <1>1, <1>2, EndsFacts
  <2>2. m < n => Ends(m) < Ends(n)
    BY <1>1, <2>1, EndsFacts
  <2>3. CASE m = n
    BY <1>1, <1>2, <2>1, <2>3
  <2> QED BY <1>1, <1>2, <2>1, <2>2, <2>3
<1>4. n + 1 \in 1 .. Len(stdin) /\ Ends(n) < Ends(n + 1) /\ Ends(n + 1) \in Nat /\ Ends(n) \in Nat
  <2>1. n + 1 \in 1 .. Len(stdin) /\ n + 1 \in Nat /\ n < n + 1
    BY <1>1, <1>2, <1>3
  <2> QED BY <1>1, <2>1, EndsFacts
<1>5. Ends(n + 1) \in Newlines
  BY <1>1, <1>4 DEF Newlines
<1>6. bufpos < Ends(n + 1)
  BY <1>1, <1>4, <1>5
<1>7. m = n + 1
  <2>1. SUFFICES ASSUME n + 1 < m PROVE FALSE
    BY <1>1, <1>2, <1>3
  <2>2. Ends(n + 1) < Ends(m) /\ Ends(m) \in Nat
    BY <1>1, <1>2, <2>1, EndsFacts
  <2>3. Ends(n + 1) \in bufpos + 1 .. to - 1
    BY <1>1, <1>2, <1>4, <1>6, <2>2
  <2> QED BY <1>5, <2>3
<1>8. n < Len(stdin) /\ to = Ends(n + 1) /\ taken \cup (bufpos + 1 .. to) = Ends(n) + 1 .. Ends(n + 1)
  BY <1>1, <1>2, <1>4, <1>6, <1>7
<1> QED BY <1>8 DEF n

(* getline takes text that nobody has read, and returns the file's next line when
   nothing disturbed it. *)
LEMMA GetlineKeeps ==
    ASSUME VulnInv, Getline PROVE VulnInv'
<1>1. /\ typed \in Seq([pieces: SUBSET Nat, line: Line]) /\ stdin \in Seq(Line) /\ Len(stdin) \in Nat
      /\ Total \in Nat /\ offset \in 0 .. Total /\ bufend \in 0 .. Total /\ bufpos \in 0 .. bufend
      /\ taken \subseteq Nat /\ spliced \in BOOLEAN
  <2>1. /\ typed \in Seq([pieces: SUBSET Nat, line: Line]) /\ stdin \in Seq(Line) /\ Len(stdin) \in Nat
        /\ offset \in 0 .. Total /\ bufend \in 0 .. Total /\ bufpos \in 0 .. bufend
        /\ taken \subseteq Nat /\ spliced \in BOOLEAN
    BY DEF VulnInv, StdinInv
  <2>2. Total \in Nat
    BY <2>1, EndsFacts DEF Total
  <2> QED BY <2>1, <2>2
<1>2. ASSUME NEW l \in Line, GetlineLine(l) PROVE VulnInv'
  <2>1. pc = "prompt"
    BY <1>2 DEF GetlineLine
  <2>2. PICK to \in Newlines \cap (bufpos + 1 .. bufend) :
           /\ Newlines \cap (bufpos + 1 .. to - 1) = {}
           /\ bufpos' = to
           /\ ReturnLine(taken \cup (bufpos + 1 .. to), l)
    BY <1>2 DEF GetlineLine
  <2> DEFINE pieces == taken \cup (bufpos + 1 .. to)
  <2>3. bufpos < to /\ bufpos' \in bufpos .. bufend /\ pieces = taken \cup (bufpos + 1 .. bufpos')
    BY <1>1, <2>2
  <2>4. ASSUME Undisturbed
        PROVE  /\ Len(typed) < Len(stdin)
               /\ bufpos' = Ends(Len(typed) + 1) /\ l = stdin[Len(typed) + 1]
    <3>1. /\ Len(typed) < Len(stdin) /\ to = Ends(Len(typed) + 1)
          /\ pieces = Ends(Len(typed)) + 1 .. Ends(Len(typed) + 1)
      BY <2>2, <2>3, <2>4, NextNewline
    <3>2. ~spliced
      BY <2>4 DEF VulnInv, OrderInv
    <3>3. Len(typed) + 1 \in DOMAIN stdin /\ (Len(typed) + 1) - 1 = Len(typed)
      BY <1>1, <3>1
    <3>4. MayRead(pieces, l)
      BY <2>2 DEF ReturnLine
    <3> HIDE DEF pieces
    <3> DEFINE Whole == { k \in DOMAIN stdin : ~spliced /\ pieces = Ends(k - 1) + 1 .. Ends(k) }
    <3>5. Len(typed) + 1 \in Whole
      BY <3>1, <3>2, <3>3
    <3>6. \A k \in Whole : l = stdin[k]
      BY <3>4, <3>5 DEF MayRead
    <3> QED BY <2>2, <3>1, <3>5, <3>6
  <2>5. ReturnLine(pieces, l)
    BY <2>2
  <2> HIDE DEF pieces
  <2> QED BY <2>1, <2>3, <2>4, <2>5, ReturnKeeps
<1>3. ASSUME NEW l \in Line, GetlineRest(l) PROVE VulnInv'
  <2>1. pc = "prompt" /\ ReturnLine(taken, l) /\ bufpos' = bufpos
    BY <1>3 DEF GetlineRest
  <2>2. bufpos' \in bufpos .. bufend /\ taken = taken \cup (bufpos + 1 .. bufpos')
    BY <1>1, <2>1
  <2>3. Undisturbed => taken \cap Newlines = {}
    BY DEF VulnInv, OrderInv
  <2> QED BY <2>1, <2>2, <2>3, ReturnKeeps
<1>4. CASE GetlineTakes \/ GetlineRefill
  <2>1. /\ stdin' = stdin /\ seekable' = seekable /\ typed' = typed /\ childRead' = childRead
        /\ rewound' = rewound /\ pc' = pc /\ pc = "prompt"
        /\ UNCHANGED << slot_used, history, blocks, replyVars >>
    BY <1>4 DEF GetlineTakes, GetlineRefill, tableVars
  <2>2. Total' = Total /\ Newlines' = Newlines /\ (Undisturbed' <=> Undisturbed)
    BY <2>1 DEF Total, Newlines, Ends, Undisturbed
  <2>3. ReplayOnlyAfterRewind'
    BY <2>1, <2>2 DEF VulnInv, ReplayOnlyAfterRewind
  <2>4. BlockInv' /\ FlagInv' /\ TurnInv' /\ RecallIgnoresGarbage' /\ GarbageReadOnlyEarly'
    BY <2>1, TableFrame
  <2>p. \A i \in DOMAIN typed : \A p \in typed[i].pieces : p \in Nat
    <3> DEFINE T == [pieces: SUBSET Nat, line: Line]
    <3>1. typed \in Seq(T) /\ \A t \in T : \A p \in t.pieces : p \in Nat
      BY <1>1
    <3> HIDE DEF T
    <3> QED BY <3>1
  <2>o. /\ ~rewound => /\ bufend <= offset
                       /\ \A i \in DOMAIN typed : \A p \in typed[i].pieces :
                             p <= bufpos /\ \A q \in taken : p < q
                       /\ \A q \in taken : q <= bufpos /\ q \notin childRead
                       /\ \A n \in childRead : n \in Nat /\ n <= offset /\ n \notin bufpos + 1 .. bufend
        /\ Undisturbed => /\ ~spliced /\ offset = bufend
                          /\ Len(typed) <= Len(stdin) /\ Ends(Len(typed)) <= bufpos
                          /\ taken = Ends(Len(typed)) + 1 .. bufpos
                          /\ taken \cap Newlines = {}
                          /\ \A i \in DOMAIN typed : typed[i].line = stdin[i]
    BY DEF VulnInv, OrderInv
  <2>5. CASE GetlineTakes
    <3>1. /\ bufpos < bufend /\ bufpos' = bufend /\ taken' = taken \cup (bufpos + 1 .. bufend)
          /\ Newlines \cap (bufpos + 1 .. bufend) = {}
          /\ offset' = offset /\ bufend' = bufend /\ spliced' = spliced
      BY <2>5 DEF GetlineTakes
    <3>2. StdinInv'
      <4>1. taken' \subseteq Nat /\ bufpos' \in 0 .. bufend'
        BY <1>1, <3>1
      <4> QED BY <2>1, <2>2, <3>1, <4>1 DEF VulnInv, StdinInv
    <3>3. ASSUME ~rewound
          PROVE  /\ \A i \in DOMAIN typed : \A p \in typed[i].pieces :
                       p <= bufend /\ \A q \in taken' : p < q
                 /\ \A q \in taken' : q <= bufend /\ q \notin childRead
                 /\ bufend + 1 .. bufend = {}
      <4>1. ASSUME NEW i \in DOMAIN typed, NEW p \in typed[i].pieces
            PROVE  p <= bufend /\ \A q \in taken' : p < q
        <5>1. p \in Nat /\ p <= bufpos /\ \A q \in taken : p < q
          BY <2>o, <2>p, <3>3
        <5>2. \A q \in bufpos + 1 .. bufend : p < q
          BY <1>1, <5>1
        <5> QED BY <1>1, <3>1, <5>1, <5>2
      <4>2. ASSUME NEW q \in taken' PROVE q <= bufend /\ q \notin childRead
        <5>1. CASE q \in taken
          BY <1>1, <2>o, <3>3, <5>1
        <5>2. CASE q \in bufpos + 1 .. bufend
          BY <1>1, <2>o, <3>3, <5>2
        <5> QED BY <3>1, <4>2, <5>1, <5>2
      <4> QED BY <1>1, <4>1, <4>2
    <3>4. ASSUME Undisturbed
          PROVE  /\ Ends(Len(typed)) <= bufend /\ taken' = Ends(Len(typed)) + 1 .. bufend
                 /\ taken' \cap Newlines = {}
      <4>1. Ends(Len(typed)) \in Nat
        BY <1>1, EndsFacts
      <4> QED BY <1>1, <2>o, <3>1, <3>4, <4>1
    <3>5. OrderInv'
      BY <2>1, <2>2, <2>o, <3>1, <3>3, <3>4 DEF OrderInv, Ends
    <3> QED BY <2>3, <2>4, <3>2, <3>5 DEF VulnInv
  <2>6. CASE GetlineRefill
    <3>1. PICK k \in Block(Total - offset) : offset' = offset + k /\ bufend' = offset + k
      BY <2>6 DEF GetlineRefill
    <3>2. /\ bufpos = bufend /\ bufpos' = offset /\ taken' = taken
          /\ spliced' = (spliced \/ (taken # {} /\ offset # bufpos))
      BY <2>6 DEF GetlineRefill
    <3>3. k \in 1 .. Total - offset
      BY <3>1 DEF Block
    <3>4. offset' \in 0 .. Total /\ bufend' = offset' /\ offset < offset' /\ bufpos' \in 0 .. bufend'
      BY <1>1, <3>1, <3>2, <3>3
    <3>5. StdinInv'
      <4>1. spliced' \in BOOLEAN
        BY <3>2
      <4> QED BY <1>1, <2>1, <2>2, <3>2, <3>4, <4>1 DEF VulnInv, StdinInv
    <3>6. ASSUME ~rewound
          PROVE  /\ \A i \in DOMAIN typed : \A p \in typed[i].pieces : p <= offset
                 /\ \A q \in taken : q <= offset
                 /\ \A n \in childRead : n <= offset' /\ n \notin offset + 1 .. offset'
      <4>1. bufpos <= offset
        BY <2>o, <3>2, <3>6
      <4>2. ASSUME NEW i \in DOMAIN typed, NEW p \in typed[i].pieces PROVE p <= offset
        <5>1. p \in Nat /\ p <= bufpos
          BY <2>o, <2>p, <3>6
        <5> QED BY <1>1, <4>1, <5>1
      <4>3. \A q \in taken : q <= offset
        BY <1>1, <2>o, <3>6, <4>1
      <4>4. \A n \in childRead : n <= offset' /\ n \notin offset + 1 .. offset'
        BY <1>1, <2>o, <3>4, <3>6
      <4> QED BY <4>2, <4>3, <4>4
    <3>7. Undisturbed => ~spliced' /\ offset = bufpos
      BY <2>o, <3>2
    <3>8. OrderInv'
      <4>1. ~rewound' =>
              /\ bufend' <= offset'
              /\ \A i \in DOMAIN typed' : \A p \in typed'[i].pieces :
                    p <= bufpos' /\ \A q \in taken' : p < q
              /\ \A q \in taken' : q <= bufpos' /\ q \notin childRead'
              /\ \A n \in childRead' : n \in Nat /\ n <= offset' /\ n \notin bufpos' + 1 .. bufend'
        BY <1>1, <2>1, <2>o, <3>2, <3>4, <3>6
      <4>2. Undisturbed' =>
              /\ ~spliced' /\ offset' = bufend'
              /\ Len(typed') <= Len(stdin') /\ Ends(Len(typed')) <= bufpos'
              /\ taken' = Ends(Len(typed')) + 1 .. bufpos'
              /\ taken' \cap Newlines' = {}
              /\ \A i \in DOMAIN typed' : typed'[i].line = stdin'[i]
        BY <2>1, <2>2, <2>o, <3>2, <3>4, <3>7
      <4> QED BY <4>1, <4>2 DEF OrderInv, Ends
    <3> QED BY <2>3, <2>4, <3>5, <3>8 DEF VulnInv
  <2> QED BY <1>4, <2>5, <2>6
<1> QED BY <1>2, <1>3, <1>4 DEF Getline

(* A child that cannot run its command moves the shared offset back, and then
   says so. *)
LEMMA ChildExecFailsKeeps ==
    ASSUME VulnInv, ChildExecFails PROVE VulnInv'
<1>1. /\ stdin' = stdin /\ seekable' = seekable /\ bufpos' = bufpos /\ bufend' = bufend
      /\ taken' = taken /\ spliced' = spliced
      /\ typed' = typed /\ childRead' = childRead /\ pc' = pc
      /\ rewound' = (rewound \/ offset' # offset)
  BY DEF ChildExecFails
<1>2. Total' = Total /\ Newlines' = Newlines /\ Total \in Nat
  BY <1>1, EndsFacts DEF Total, Newlines, Ends, VulnInv, StdinInv
<1>3. offset' \in 0 .. Total /\ rewound' \in BOOLEAN
  BY <1>1, <1>2 DEF VulnInv, StdinInv, ChildExecFails
<1>4. StdinInv'
  BY <1>1, <1>2, <1>3 DEF VulnInv, StdinInv
<1>5. ~rewound' => ~rewound /\ offset' = offset
  BY <1>1
<1>6. Undisturbed' => Undisturbed /\ offset' = offset
  BY <1>1, <1>2, <1>5 DEF Undisturbed
<1>7. OrderInv'
  BY <1>1, <1>2, <1>5, <1>6 DEF VulnInv, OrderInv, Ends
<1>8. ReplayOnlyAfterRewind'
  BY <1>1, <1>5, <1>6 DEF VulnInv, ReplayOnlyAfterRewind
<1>9. BlockInv' /\ FlagInv' /\ TurnInv' /\ RecallIgnoresGarbage' /\ GarbageReadOnlyEarly'
  <2>1. UNCHANGED << slot_used, history, blocks, replyVars >>
    BY DEF ChildExecFails, tableVars
  <2> QED BY <1>1, <2>1, TableFrame
<1> QED BY <1>4, <1>7, <1>8, <1>9 DEF VulnInv

(* A command reads behind the shared offset, where the shell has not been. *)
LEMMA ChildReadsKeeps ==
    ASSUME VulnInv, ChildReads PROVE VulnInv' /\ ~Undisturbed'
<1>1. /\ stdin' = stdin /\ seekable' = seekable /\ bufpos' = bufpos /\ bufend' = bufend
      /\ taken' = taken /\ spliced' = spliced /\ typed' = typed /\ rewound' = rewound /\ pc' = pc
  BY DEF ChildReads
<1>2. PICK k \in 1 .. Total - offset :
         offset' = offset + k /\ childRead' = childRead \cup (offset + 1 .. offset + k)
  BY DEF ChildReads
<1>3. /\ stdin \in Seq(Line) /\ Len(stdin) \in Nat /\ Total \in Nat /\ Total' = Total
      /\ offset \in 0 .. Total /\ bufend \in 0 .. Total /\ bufpos \in 0 .. bufend
      /\ typed \in Seq([pieces: SUBSET Nat, line: Line]) /\ taken \subseteq Nat
  BY <1>1, EndsFacts DEF VulnInv, StdinInv, Total, Ends
<1>4. offset' \in 0 .. Total /\ offset <= offset'
  BY <1>2, <1>3
<1>5. StdinInv'
  BY <1>1, <1>3, <1>4 DEF VulnInv, StdinInv
<1>6. ~Undisturbed'
  <2>1. offset + 1 \in childRead'
    BY <1>2, <1>3
  <2> QED BY <2>1 DEF Undisturbed
<1>p. \A i \in DOMAIN typed : \A p \in typed[i].pieces : p \in Nat
  <2> DEFINE T == [pieces: SUBSET Nat, line: Line]
  <2>1. typed \in Seq(T) /\ \A t \in T : \A p \in t.pieces : p \in Nat
    BY <1>3
  <2> HIDE DEF T
  <2> QED BY <2>1
<1>7. ASSUME ~rewound
      PROVE  /\ bufend <= offset
             /\ \A i \in DOMAIN typed : \A p \in typed[i].pieces :
                   p <= bufpos /\ \A q \in taken : p < q
             /\ \A q \in taken : q <= bufpos /\ q \notin childRead
             /\ \A n \in childRead : n \in Nat /\ n <= offset /\ n \notin bufpos + 1 .. bufend
  BY <1>7 DEF VulnInv, OrderInv
<1>8. OrderInv'
  <2>1. ASSUME ~rewound, NEW n \in childRead'
        PROVE  n \in Nat /\ n <= offset' /\ n \notin bufpos + 1 .. bufend
    <3>1. CASE n \in childRead
      BY <1>3, <1>4, <1>7, <2>1, <3>1
    <3>2. CASE n \in offset + 1 .. offset + k
      BY <1>2, <1>3, <1>7, <2>1, <3>2
    <3> QED BY <1>2, <2>1, <3>1, <3>2
  <2>2. ASSUME ~rewound, NEW q \in taken PROVE q \notin childRead'
    <3>1. q \notin childRead /\ q <= bufpos /\ q \in Nat
      BY <1>3, <1>7, <2>2
    <3>2. q \notin offset + 1 .. offset + k
      BY <1>3, <1>7, <2>2, <3>1
    <3> QED BY <1>2, <3>1, <3>2
  <2>3. ~rewound => bufend <= offset'
    BY <1>3, <1>4, <1>7
  <2> QED BY <1>1, <1>6, <1>7, <2>1, <2>2, <2>3 DEF OrderInv
<1>9. ReplayOnlyAfterRewind'
  <2>1. ASSUME ~rewound, NEW i \in DOMAIN typed, NEW p \in typed[i].pieces PROVE p \notin childRead'
    <3>1. p \notin childRead
      BY <2>1 DEF VulnInv, ReplayOnlyAfterRewind
    <3>2. p \in Nat /\ p <= bufpos
      BY <1>p, <1>7, <2>1
    <3>3. p \notin offset + 1 .. offset + k
      BY <1>3, <1>7, <2>1, <3>2
    <3> QED BY <1>2, <3>1, <3>3
  <2> QED BY <1>1, <1>6, <2>1 DEF VulnInv, ReplayOnlyAfterRewind
<1>10. BlockInv' /\ FlagInv' /\ TurnInv' /\ RecallIgnoresGarbage' /\ GarbageReadOnlyEarly'
  <2>1. UNCHANGED << slot_used, history, blocks, replyVars >>
    BY DEF ChildReads, tableVars
  <2> QED BY <1>1, <2>1, TableFrame
<1> QED BY <1>5, <1>6, <1>8, <1>9, <1>10 DEF VulnInv

(* A line is recorded: its turn takes the slot, sets the flag and ends what was
   said of the last recall. *)
LEMMA RecordKeeps ==
    ASSUME VulnInv, RecordHistory PROVE VulnInv'
<1> DEFINE n == history_count
<1> DEFINE slot == n % HISTORY_SLOTS
<1>1. pc = "record" /\ asked' = << >> /\ UNCHANGED << inputVars, branched >>
  BY DEF RecordHistory
<1>2. StdinInv' /\ OrderInv' /\ ReplayOnlyAfterRewind'
  <2>1. pc \in {"record", "parse", "dispatch"}
    BY <1>1
  <2> QED BY <1>1, <2>1, InputFrame
<1>3. RecallIgnoresGarbage' /\ GarbageReadOnlyEarly'
  BY <1>1 DEF VulnInv, RecallIgnoresGarbage, GarbageReadOnlyEarly
<1>4. CASE StrLen[Input] >= HISTORY_SIZE
  <2>1. pc' = "undefined" /\ slot_used' = slot_used /\ history' = history /\ blocks' = blocks
    BY <1>4 DEF RecordHistory, tableVars
  <2>2. BlockInv' /\ FlagInv' /\ TurnInv'
    BY <2>1 DEF VulnInv, BlockInv, FlagInv, TurnInv, Running, history_count
  <2> QED BY <1>2, <1>3, <2>2 DEF VulnInv
<1>5. CASE ~(StrLen[Input] >= HISTORY_SIZE)
  <2>1. pc' = "parse" /\ slot_used' = [slot_used EXCEPT ![slot] = 1]
    BY <1>5 DEF RecordHistory
  <2>2. PICK text \in Line \cup {NoText} :
           /\ blocks' = Append(blocks, text)
           /\ history' = [history EXCEPT ![slot] = IF text = NoText THEN 0 ELSE n + 1]
    <3>1. CASE blocks' = Append(blocks, Input) /\ history' = Store(n + 1)
      <4>1. Input \in Line /\ Input # NoText
        BY <1>1, InputIsLine, NoTextAssumption DEF VulnInv
      <4>2. n \in Nat /\ (n + 1) - 1 = n
        BY DEF VulnInv, BlockInv, history_count
      <4>3. history' = [history EXCEPT ![slot] = n + 1]
        BY <3>1, <4>2 DEF Store
      <4> QED BY <3>1, <4>1, <4>3
    <3>2. CASE blocks' = Append(blocks, NoText) /\ history' = [history EXCEPT ![slot] = 0]
      BY <3>2
    <3> QED BY <1>5, <3>1, <3>2 DEF RecordHistory
  <2>3. /\ n \in Nat /\ blocks' \in Seq(Line \cup {NoText}) /\ history_count' = n + 1
        /\ blocks'[n + 1] = text /\ \A k \in 1 .. n : blocks'[k] = blocks[k]
    BY <2>2 DEF VulnInv, BlockInv, history_count
  <2>4. /\ HISTORY_SLOTS \in Nat \ {0} /\ Slot = 0 .. HISTORY_SLOTS - 1
        /\ \A x \in Nat : x % HISTORY_SLOTS \in Slot
    BY SlotOfTurn DEF Slot
  <2>5. slot = n % HISTORY_SLOTS /\ slot \in Slot
    BY <2>3, <2>4
  <2>6. history \in [Slot -> Nat] /\ RingHolds(blocks, n, history)
    BY DEF VulnInv, BlockInv
  <2>7. \A k \in 1 .. n : slot_used[(k - 1) % HISTORY_SLOTS] = 1
    BY <1>1 DEF VulnInv, FlagInv, Running
  <2>8. slot_used \in [Slot -> {0, 1}]
    BY <1>1 DEF VulnInv, FlagInv, Running
  <2> HIDE DEF n
  <2>9. BlockInv'
    <3>1. /\ history' \in [Slot -> Nat]
          /\ history'[n % HISTORY_SLOTS] = IF text = NoText THEN 0 ELSE n + 1
          /\ \A s \in Slot : s # n % HISTORY_SLOTS => history'[s] = history[s]
      <4> DEFINE v == IF text = NoText THEN 0 ELSE n + 1
      <4>1. v \in Nat /\ n % HISTORY_SLOTS \in Slot
        <5>1. n \in Nat /\ n + 1 \in Nat
          BY <2>3
        <5>2. v \in Nat
          BY <5>1
        <5>3. n % HISTORY_SLOTS \in Slot
          BY <2>4, <5>1
        <5> QED BY <5>2, <5>3
      <4>2. history' = [history EXCEPT ![n % HISTORY_SLOTS] = v]
        BY <2>2
      <4> HIDE DEF v
      <4>3. /\ history' \in [Slot -> Nat] /\ history'[n % HISTORY_SLOTS] = v
            /\ \A s \in Slot : s # n % HISTORY_SLOTS => history'[s] = history[s]
        BY <2>6, <4>1, <4>2
      <4> QED BY <4>3 DEF v
    <3> DEFINE h2 == history'
    <3> DEFINE b2 == blocks'
    <3>2. b2[n + 1] = text /\ \A k \in 1 .. n : b2[k] = blocks[k]
      BY <2>3
    <3>3. /\ h2 \in [Slot -> Nat]
          /\ h2[n % HISTORY_SLOTS] = IF text = NoText THEN 0 ELSE n + 1
          /\ \A s \in Slot : s # n % HISTORY_SLOTS => h2[s] = history[s]
      BY <3>1
    <3> HIDE DEF h2, b2
    <3>4. RingHolds(b2, n + 1, h2)
      BY <2>3, <2>6, <3>2, <3>3, StoreKeepsRing
    <3>5. RingHolds(blocks', history_count', history')
      BY <2>3, <3>4 DEF b2, h2
    <3> QED BY <2>3, <3>1, <3>5 DEF BlockInv
  <2>10. FlagInv'
    <3>1. slot_used' \in [Slot -> {0, 1}] /\ slot_used'[slot] = 1
      BY <2>1, <2>5, <2>8
    <3>2. ASSUME NEW k \in 1 .. n + 1 PROVE slot_used'[(k - 1) % HISTORY_SLOTS] = 1
      <4>1. CASE k = n + 1
        <5>1. k - 1 = n
          BY <2>3, <4>1
        <5> QED BY <2>5, <3>1, <5>1
      <4>2. CASE k \in 1 .. n
        <5>1. k - 1 \in Nat
          BY <2>3, <4>2
        <5>2. (k - 1) % HISTORY_SLOTS \in Slot
          BY <2>4, <5>1
        <5> QED BY <2>1, <2>7, <2>8, <3>1, <4>2, <5>2
      <4> QED BY <2>3, <3>2, <4>1, <4>2
    <3> QED BY <2>1, <2>3, <3>1, <3>2 DEF FlagInv
  <2>11. TurnInv'
    BY <1>1, <2>3 DEF TurnInv
  <2> QED BY <1>2, <1>3, <2>9, <2>10, <2>11 DEF VulnInv
<1> QED BY <1>4, <1>5

(* Whatever malloc left in the flags, nothing has been recorded yet. *)
LEMMA HistoryInitKeeps ==
    ASSUME VulnInv, HistoryInit PROVE VulnInv'
<1>1. /\ pc = "start" /\ UNCHANGED << inputVars, history, blocks, replyVars >>
      /\ \/ slot_used' \in Garbage /\ pc' = "prompt"
         \/ pc' = "done"
  BY DEF HistoryInit
<1>2. StdinInv' /\ OrderInv' /\ ReplayOnlyAfterRewind'
  BY <1>1, InputFrame
<1>3. /\ history' = history /\ blocks' = blocks /\ history_count' = history_count
      /\ out' = out /\ asked' = asked /\ branched' = branched
  BY <1>1 DEF history_count, replyVars
<1>4. blocks = << >> /\ history_count = 0
  BY <1>1 DEF VulnInv, FlagInv, history_count
<1>5. BlockInv' /\ RecallIgnoresGarbage' /\ GarbageReadOnlyEarly'
  BY <1>3 DEF VulnInv, BlockInv, RingHolds, RecallIgnoresGarbage, GarbageReadOnlyEarly
<1>6. FlagInv'
  BY <1>1, <1>3, <1>4, InputsAssumption DEF FlagInv, Running
<1>7. TurnInv'
  BY <1>1 DEF TurnInv
<1> QED BY <1>2, <1>5, <1>6, <1>7 DEF VulnInv

(* The answer of recall: the flag tells that a turn came by, the pointer what
   the turn left, and a turn that came by always set the flag. *)
LEMMA RecallKeeps ==
    ASSUME VulnInv, RecallSlot PROVE VulnInv'
<1> DEFINE n == IF Len(args) < 2 THEN 0 ELSE Atoi(args[2])
<1>1. /\ pc = "dispatch" /\ pc' = "prompt" /\ asked' = args
      /\ UNCHANGED << inputVars, slot_used, history, blocks >>
  BY DEF RecallSlot, Goto, tableVars
<1>2. out' = IF n \in Slot THEN SlotText(n) ELSE Say("range")
  BY DEF RecallSlot
<1>3. branched' = IF n \in Slot /\ n >= history_count
                  THEN branched \cup {[slot |-> n, after |-> history_count]} ELSE branched
  BY DEF RecallSlot
<1>4. StdinInv' /\ OrderInv' /\ ReplayOnlyAfterRewind'
  BY <1>1, InputFrame
<1>5. slot_used' = slot_used /\ history' = history /\ blocks' = blocks /\ history_count' = history_count
  BY <1>1 DEF history_count
<1>6. BlockInv' /\ FlagInv' /\ TurnInv'
  BY <1>1, <1>5 DEF VulnInv, BlockInv, FlagInv, TurnInv, Running
<1>7. history_count \in Nat /\ history_count >= 1
  BY <1>1 DEF VulnInv, TurnInv, BlockInv, history_count
<1>8. \A k \in 1 .. history_count : slot_used[(k - 1) % HISTORY_SLOTS] = 1
  BY <1>1 DEF VulnInv, FlagInv, Running
<1>9. /\ \A k \in 1 .. history_count :
            blocks[k] # NoText /\ k + HISTORY_SLOTS > history_count
               => history[(k - 1) % HISTORY_SLOTS] = k
      /\ \A s \in Slot :
            history[s] # 0 => /\ history[s] \in 1 .. history_count
                              /\ blocks[history[s]] # NoText
                              /\ history[s] + HISTORY_SLOTS > history_count
                              /\ (history[s] - 1) % HISTORY_SLOTS = s
  BY DEF VulnInv, BlockInv, RingHolds
<1>10. ASSUME n \in Slot
       PROVE  LET Turns == { k \in 1 .. history_count : (k - 1) % HISTORY_SLOTS = n }
              IN  \/ out' = Say("empty") /\ \A k \in Turns : k + HISTORY_SLOTS > history_count => blocks[k] = NoText
                  \/ \E k \in Turns : /\ k + HISTORY_SLOTS > history_count
                                      /\ blocks[k] # NoText
                                      /\ out' = SayText(FullText(blocks[k]))
  <2> HIDE DEF n
  <2>1. CASE slot_used[n] = 0
    BY <1>2, <1>8, <1>10, <2>1 DEF SlotText
  <2>2. CASE history[n] = 0
    <3>1. \A k \in 1 .. history_count :
             (k - 1) % HISTORY_SLOTS = n /\ k + HISTORY_SLOTS > history_count => blocks[k] = NoText
      BY <1>7, <1>9, <2>2
    <3> QED BY <1>2, <1>10, <2>2, <3>1 DEF SlotText
  <2>3. CASE slot_used[n] # 0 /\ history[n] # 0
    <3>1. out' = SayText(FullText(blocks[history[n]]))
      BY <1>2, <1>10, <2>3 DEF SlotText
    <3> QED BY <1>9, <1>10, <2>3, <3>1
  <2> QED BY <2>1, <2>2, <2>3
<1>11. RecallIgnoresGarbage'
  BY <1>1, <1>5, <1>10 DEF RecallIgnoresGarbage
<1>12. GarbageReadOnlyEarly'
  <2>1. SUFFICES ASSUME NEW r \in branched' PROVE r.after \in 1 .. r.slot /\ r.slot # 0
    BY DEF GarbageReadOnlyEarly
  <2>2. CASE r \in branched
    BY <2>2 DEF VulnInv, GarbageReadOnlyEarly
  <2>3. CASE n \in Slot /\ n >= history_count /\ r = [slot |-> n, after |-> history_count]
    <3> HIDE DEF n
    <3> QED BY <1>7, <2>3 DEF Slot
  <2> QED BY <1>3, <2>1, <2>2, <2>3
<1> QED BY <1>4, <1>6, <1>11, <1>12 DEF VulnInv

(* Every step keeps the invariant. *)
LEMMA VulnNextInv == VulnInv /\ [VulnNext]_vulnVars => VulnInv'
<1> SUFFICES ASSUME VulnInv, [VulnNext]_vulnVars PROVE VulnInv'
  OBVIOUS
<1>1. CASE HistoryInit
  BY <1>1, HistoryInitKeeps
<1>2. CASE Getline
  BY <1>2, GetlineKeeps
<1>3. CASE RecordHistory
  BY <1>3, RecordKeeps
<1>4. CASE RecallSlot
  BY <1>4, RecallKeeps
<1>5. CASE ChildExecFails
  BY <1>5, ChildExecFailsKeeps
<1>6. CASE ChildReads
  BY <1>6, ChildReadsKeeps
<1>7. ASSUME UNCHANGED << inputVars, slot_used, history, blocks, replyVars >>,
             \/ pc' = pc
             \/ pc = "parse" /\ pc' = "dispatch"
             \/ pc \in Running /\ pc' \in {"prompt", "wait", "cleanup", "done"}
      PROVE  VulnInv'
  <2>1. StdinInv' /\ OrderInv' /\ ReplayOnlyAfterRewind'
    BY <1>7, InputFrame
  <2>2. BlockInv' /\ FlagInv' /\ TurnInv' /\ RecallIgnoresGarbage' /\ GarbageReadOnlyEarly'
    BY <1>7, TableFrame DEF Running
  <2> QED BY <2>1, <2>2 DEF VulnInv
<1>8. CASE GetlineFails
  BY <1>7, <1>8 DEF GetlineFails, Goto, tableVars, Running
<1>9. CASE Parse
  BY <1>7, <1>9 DEF Parse, Goto, tableVars
<1>10. CASE BuiltinExit
  BY <1>7, <1>10 DEF BuiltinExit, Goto, tableVars, Running
<1>11. CASE Execute
  BY <1>7, <1>11 DEF Execute, tableVars, Running
<1>12. CASE WaitReturns
  BY <1>7, <1>12 DEF WaitReturns, Goto, tableVars, Running
<1>13. CASE ChildExec
  BY <1>7, <1>13 DEF ChildExec, tableVars
<1>14. CASE ChildExits
  BY <1>7, <1>14 DEF ChildExits, tableVars
<1>15. CASE UNCHANGED vulnVars
  BY <1>7, <1>15 DEF vulnVars, tableVars
<1>16. CASE ShowHistory
  <2>1. /\ pc = "dispatch" /\ pc' \in {"prompt", "undefined"}
        /\ UNCHANGED << inputVars, slot_used, history, blocks, asked, branched >>
    BY <1>16 DEF ShowHistory, tableVars
  <2>2. StdinInv' /\ OrderInv' /\ ReplayOnlyAfterRewind'
    BY <2>1, InputFrame
  <2>3. history_count' = history_count
    BY <2>1 DEF history_count
  <2>4. BlockInv' /\ FlagInv' /\ TurnInv'
    BY <2>1, <2>3 DEF VulnInv, BlockInv, FlagInv, TurnInv, Running
  <2>5. asked' = << >>
    BY <2>1 DEF VulnInv, TurnInv
  <2>6. RecallIgnoresGarbage' /\ GarbageReadOnlyEarly'
    BY <2>1, <2>5 DEF VulnInv, RecallIgnoresGarbage, GarbageReadOnlyEarly
  <2> QED BY <2>2, <2>4, <2>6 DEF VulnInv
<1>17. CASE Cleanup
  <2>1. pc' = "done" /\ UNCHANGED << inputVars, history, blocks, replyVars >>
    BY <1>17 DEF Cleanup, Goto
  <2>2. StdinInv' /\ OrderInv' /\ ReplayOnlyAfterRewind'
    BY <2>1, InputFrame
  <2>3. history_count' = history_count /\ out' = out /\ asked' = asked /\ branched' = branched
    BY <2>1 DEF history_count, replyVars
  <2>4. BlockInv' /\ FlagInv' /\ TurnInv'
    BY <2>1, <2>3 DEF VulnInv, BlockInv, FlagInv, TurnInv, Running
  <2>5. RecallIgnoresGarbage' /\ GarbageReadOnlyEarly'
    BY <2>1, <2>3 DEF VulnInv, RecallIgnoresGarbage, GarbageReadOnlyEarly
  <2> QED BY <2>2, <2>4, <2>5 DEF VulnInv
<1> QED BY <1>1, <1>2, <1>3, <1>4, <1>5, <1>6, <1>8, <1>9, <1>10, <1>11, <1>12, <1>13, <1>14,
           <1>15, <1>16, <1>17 DEF VulnNext, MainStep

(* The invariant holds of every session. *)
LEMMA VulnInvHolds == VulnSpec => []VulnInv
<1> QED BY VulnInitInv, VulnNextInv, PTL DEF VulnSpec

(* A block no slot points to is one that was followed by a whole ring. *)
LEMMA LostFromRing == BlockInv => LostIffOverwritten
<1> SUFFICES ASSUME BlockInv,
                    NEW k \in 1 .. history_count, blocks[k] # NoText
             PROVE  (\A s \in Slot : history[s] # k) <=> k + HISTORY_SLOTS <= history_count
  BY DEF LostIffOverwritten, Lost
<1>1. history_count \in Nat /\ HISTORY_SLOTS \in Nat \ {0} /\ \A x \in Nat : x % HISTORY_SLOTS \in Slot
  BY SlotOfTurn DEF BlockInv, history_count
<1>2. k - 1 \in Nat
  BY <1>1
<1>3. CASE k + HISTORY_SLOTS > history_count
  <2>1. history[(k - 1) % HISTORY_SLOTS] = k
    BY <1>3 DEF BlockInv, RingHolds
  <2>2. (k - 1) % HISTORY_SLOTS \in Slot
    BY <1>1, <1>2
  <2> QED BY <1>1, <1>3, <2>1, <2>2
<1>4. CASE k + HISTORY_SLOTS <= history_count
  <2>1. ASSUME NEW s \in Slot, history[s] = k PROVE FALSE
    <3>1. history[s] # 0
      BY <1>1, <2>1
    <3>2. history[s] + HISTORY_SLOTS > history_count
      BY <2>1, <3>1 DEF BlockInv, RingHolds
    <3> QED BY <1>1, <1>4, <2>1, <3>2
  <2> QED BY <1>4, <2>1
<1> QED BY <1>1, <1>3, <1>4

(* C3, for every ring size and session: a block is lost exactly when its slot
   came round again. *)
THEOREM VulnLostIffOverwritten == VulnSpec => []LostIffOverwritten
<1>1. VulnInv => LostIffOverwritten
  BY LostFromRing DEF VulnInv
<1> QED BY <1>1, VulnInvHolds, PTL

(* C4, for every content of the flags: no answer of recall depends on it. *)
THEOREM VulnRecallIgnoresGarbage == VulnSpec => []RecallIgnoresGarbage
<1>1. VulnInv => RecallIgnoresGarbage
  BY DEF VulnInv
<1> QED BY <1>1, VulnInvHolds, PTL

(* C4 again: a flag nothing wrote is read only before the ring has filled, and
   never that of slot 0. *)
THEOREM VulnGarbageReadOnlyEarly == VulnSpec => []GarbageReadOnlyEarly
<1>1. VulnInv => GarbageReadOnlyEarly
  BY DEF VulnInv
<1> QED BY <1>1, VulnInvHolds, PTL

(* No text is handled twice, or read by a command as well, while no child has moved
   the shared offset back, wherever blocks and commands stop; and the lines handled
   are the file's own while nothing else has touched it. *)
THEOREM VulnReplayOnlyAfterRewind == VulnSpec => []ReplayOnlyAfterRewind
<1>1. VulnInv => ReplayOnlyAfterRewind
  BY DEF VulnInv
<1> QED BY <1>1, VulnInvHolds, PTL

(* An undisturbed session on the test input: each line is recorded, and main has been
   through the recall that reads a flag. *)
InStep ==
    /\ history_count = IF pc = "record" THEN Len(typed) - 1 ELSE Len(typed)
    /\ \A n \in 1 .. Len(typed) :
          ReadsFlag(n) /\ (n < Len(typed) \/ pc \in {"prompt", "wait"}) => branched # {}

(* What is true of the test input alone: nothing on it is undefined, the words being
   answered are those of the last line, and the session is in step with the file. *)
TestRunInv ==
    stdin = TestInput /\ Undisturbed =>
       /\ pc # "undefined"
       /\ pc = "dispatch" => args = ParseInputTruncating(Input).args
       /\ InStep

(* The line being handled is line Len(typed) of the test input, and it fits. *)
LEMMA TestLine ==
    ASSUME VulnInv, stdin = TestInput, Undisturbed, pc \in {"record", "parse", "dispatch"}
    PROVE  /\ Len(typed) \in 1 .. Len(typed) /\ Len(typed) \in DOMAIN TestInput
           /\ Input = TestInput[Len(typed)]
           /\ StrLen[Input] \in 1 .. HISTORY_SIZE - 1
<1>1. typed # << >> /\ typed \in Seq([pieces: SUBSET Nat, line: Line]) /\ stdin \in Seq(Line)
  BY DEF VulnInv, StdinInv
<1>2. Len(typed) \in 1 .. Len(typed) /\ Len(typed) \in DOMAIN typed
  BY <1>1
<1>3. Len(typed) \in DOMAIN stdin /\ typed[Len(typed)].line = stdin[Len(typed)]
  BY <1>2 DEF VulnInv, ReplayOnlyAfterRewind
<1> QED BY <1>2, <1>3, TestInputAssumption DEF Input

(* A session on the test input starts in step with the file. *)
LEMMA TestRunInit == VulnInit => TestRunInv
<1> SUFFICES ASSUME VulnInit PROVE TestRunInv
  OBVIOUS
<1> USE DEF VulnInit
<1>1. InStep
  <2>1. Len(typed) = 0 /\ history_count = 0
    BY DEF history_count
  <2> QED BY <2>1 DEF InStep
<1> QED BY <1>1 DEF TestRunInv

(* A step that records nothing, answers nothing and returns no line stays in step. *)
LEMMA InStepFrame ==
    ASSUME InStep, UNCHANGED << typed, blocks, branched >>,
           pc # "record", pc' # "record",
           pc' \in {"prompt", "wait"} =>
              pc \in {"prompt", "wait"} \/ typed = << >> \/ ~ReadsFlag(Len(typed)),
           Len(typed) \in Nat
    PROVE  InStep'
<1>1. typed' = typed /\ branched' = branched /\ history_count' = history_count
  BY DEF history_count
<1>2. ASSUME NEW n \in 1 .. Len(typed), ReadsFlag(n), n < Len(typed) \/ pc' \in {"prompt", "wait"}
      PROVE  branched # {}
  <2>1. CASE n < Len(typed)
    BY <1>2, <2>1 DEF InStep
  <2>2. CASE n = Len(typed)
    <3>1. pc' \in {"prompt", "wait"} /\ typed # << >> /\ ReadsFlag(Len(typed))
      BY <1>2, <2>2
    <3> QED BY <1>2, <3>1 DEF InStep
  <2> QED BY <1>2, <2>1, <2>2
<1>3. history_count' = IF pc' = "record" THEN Len(typed') - 1 ELSE Len(typed')
  BY <1>1 DEF InStep
<1>4. \A n \in 1 .. Len(typed') :
         ReadsFlag(n) /\ (n < Len(typed') \/ pc' \in {"prompt", "wait"}) => branched' # {}
  BY <1>1, <1>2
<1> QED BY <1>3, <1>4 DEF InStep

(* getline returns the next line, and by then the last one is answered. *)
LEMMA ReturnInStep ==
    ASSUME VulnInv, VulnInv', InStep, stdin = TestInput, Undisturbed', pc = "prompt",
           NEW l \in Line, NEW pieces \in SUBSET Nat, ReturnLine(pieces, l)
    PROVE  InStep' /\ pc' = "record"
<1>1. /\ typed' = Append(typed, [pieces |-> pieces, line |-> l]) /\ pc' = AfterLine(l)
      /\ blocks' = blocks /\ branched' = branched /\ stdin' = stdin
  BY DEF ReturnLine, tableVars, replyVars
<1>2. typed \in Seq([pieces: SUBSET Nat, line: Line]) /\ Len(typed) \in Nat
  BY DEF VulnInv, StdinInv
<1>3. /\ Len(typed') = Len(typed) + 1 /\ Len(typed') \in DOMAIN typed'
      /\ typed'[Len(typed')].line = l
  BY <1>1, <1>2
<1>4. pc' = "record"
  <2>1. Len(typed') \in DOMAIN TestInput /\ l = TestInput[Len(typed')]
    BY <1>1, <1>3 DEF VulnInv, ReplayOnlyAfterRewind
  <2>2. StrLen[l] # 0
    BY <2>1, TestInputAssumption, SizesAssumption
  <2> QED BY <1>1, <2>2 DEF AfterLine
<1>5. history_count' = Len(typed') - 1
  <2>1. history_count = Len(typed)
    BY DEF InStep
  <2> QED BY <1>1, <1>2, <1>3, <2>1 DEF history_count
<1>6. ASSUME NEW n \in 1 .. Len(typed'), ReadsFlag(n), n < Len(typed') PROVE branched' # {}
  <2>1. n \in 1 .. Len(typed)
    BY <1>2, <1>3, <1>6
  <2> QED BY <1>1, <1>6, <2>1 DEF InStep
<1> QED BY <1>4, <1>5, <1>6 DEF InStep

(* A recorded line is the turn of its number. *)
LEMMA RecordInStep ==
    ASSUME VulnInv, InStep, stdin = TestInput, Undisturbed, RecordHistory PROVE InStep' /\ pc' = "parse"
<1>1. pc = "record" /\ UNCHANGED << inputVars, branched >>
  BY DEF RecordHistory
<1>2. StrLen[Input] < HISTORY_SIZE /\ HISTORY_SIZE \in Nat /\ StrLen[Input] \in Nat
  BY <1>1, TestLine, SizesAssumption
<1>3. pc' = "parse" /\ (blocks' = Append(blocks, Input) \/ blocks' = Append(blocks, NoText))
  BY <1>2 DEF RecordHistory
<1>4. blocks \in Seq(Line \cup {NoText}) /\ Len(typed) \in Nat
  BY DEF VulnInv, BlockInv, StdinInv
<1>5. Input \in Line
  BY <1>1, InputIsLine DEF VulnInv
<1>6. history_count' = history_count + 1
  BY <1>3, <1>4, <1>5 DEF history_count
<1>7. typed' = typed
  BY <1>1 DEF inputVars
<1>8. history_count' = Len(typed')
  <2>1. history_count = Len(typed) - 1
    BY <1>1 DEF InStep
  <2> QED BY <1>4, <1>6, <1>7, <2>1
<1>9. ASSUME NEW n \in 1 .. Len(typed'), ReadsFlag(n), n < Len(typed') \/ pc' \in {"prompt", "wait"}
      PROVE  branched' # {}
  BY <1>1, <1>3, <1>7, <1>9 DEF InStep
<1> QED BY <1>3, <1>8, <1>9 DEF InStep

(* A recall asked by a line that reads a flag finds its slot unwritten. *)
LEMMA RecallInStep ==
    ASSUME VulnInv, InStep, stdin = TestInput, Undisturbed,
           args = ParseInputTruncating(Input).args, RecallSlot
    PROVE  InStep' /\ pc' = "prompt"
<1> DEFINE m == Len(typed)
<1>1. pc = "dispatch" /\ pc' = "prompt" /\ UNCHANGED << inputVars, blocks >>
  BY DEF RecallSlot, Goto, tableVars
<1>2. m \in 1 .. m /\ Input = TestInput[m] /\ m \in Nat
  BY <1>1, TestLine DEF VulnInv, StdinInv
<1>3. history_count = m
  BY <1>1 DEF InStep
<1>4. branched \subseteq branched'
  BY DEF RecallSlot
<1>5. ASSUME ReadsFlag(m) PROVE branched' # {}
  <2> DEFINE q == Atoi(args[2])
  <2>1. args = ParseInputTruncating(TestInput[m]).args
    BY <1>2
  <2>2. Len(args) >= 2 /\ q \in m .. HISTORY_SLOTS - 1
    BY <1>5, <2>1 DEF ReadsFlag
  <2>3. ~(Len(args) < 2)
    <3>1. ParseInputTruncating(TestInput[m]).args \in Seq(Word)
      <4>1. TestInput[m] \in Line
        BY <1>1, <1>2, InputIsLine DEF VulnInv
      <4>2. Words[TestInput[m]] \in Seq(Word) /\ MAX_ARGS \in Nat /\ MAX_ARGS >= 2
        BY <4>1, LineAssumption, SizesAssumption
      <4> QED BY <4>2 DEF ParseInputTruncating
    <3>2. Len(args) \in Nat
      BY <2>1, <3>1
    <3> QED BY <2>2, <3>2
  <2> HIDE DEF q
  <2>4. q \in Slot /\ q >= history_count
    BY <1>2, <1>3, <2>2, SizesAssumption DEF Slot
  <2>5. [slot |-> q, after |-> history_count] \in branched'
    BY <2>3, <2>4 DEF RecallSlot, q
  <2> QED BY <2>5
<1>6. typed' = typed /\ history_count' = history_count
  BY <1>1 DEF inputVars, history_count
<1>7. ASSUME NEW n \in 1 .. m, ReadsFlag(n) PROVE branched' # {}
  <2>1. CASE n = m
    BY <1>5, <1>7, <2>1
  <2>2. CASE n < m
    BY <1>4, <1>7, <2>2 DEF InStep
  <2> QED BY <1>2, <1>7, <2>1, <2>2
<1> QED BY <1>1, <1>3, <1>6, <1>7 DEF InStep

(* No format of the test input is one after which nothing is known. *)
LEMMA FormatsAreKnown ==
    ASSUME VulnInv, stdin = TestInput, Undisturbed,
           args = ParseInputTruncating(Input).args, ShowHistory
    PROVE  pc' = "prompt"
<1>1. pc = "dispatch" /\ IsCommand(args, "history")
  BY DEF ShowHistory
<1>2. Len(typed) \in DOMAIN TestInput /\ Input = TestInput[Len(typed)] /\ Input \in Line
  BY <1>1, TestLine, InputIsLine DEF VulnInv
<1>3. Words[Input] \in Seq(Word) /\ MAX_ARGS \in Nat /\ MAX_ARGS >= 2
  BY <1>2, LineAssumption, SizesAssumption
<1>4. args \in Seq(Word)
  BY <1>3 DEF ParseInputTruncating
<1>5. Len(args) < 2 \/ Len(args) >= 2
  BY <1>4
<1>6. Len(args) >= 2 => Directive[args[2].name] # "other"
  BY <1>1, <1>2, TestInputAssumption
<1>7. (IF Len(args) < 2 THEN "command" ELSE Directive[args[2].name]) # "other"
  BY <1>5, <1>6
<1> QED BY <1>7 DEF ShowHistory

(* Every step of a session on the test input keeps TestRunInv: before the words
   are dispatched they are those of the line, and only recall answers a recall. *)
LEMMA TestRunNext == VulnInv /\ VulnInv' /\ TestRunInv /\ [VulnNext]_vulnVars => TestRunInv'
<1> SUFFICES ASSUME VulnInv, VulnInv', TestRunInv, [VulnNext]_vulnVars, stdin' = TestInput, Undisturbed'
             PROVE  /\ pc' # "undefined"
                    /\ pc' = "dispatch" => args' = ParseInputTruncating(Input').args
                    /\ InStep'
  BY DEF TestRunInv
<1> USE DEF Goto
<1>1. /\ stdin = TestInput /\ Newlines' = Newlines
      /\ typed \in Seq([pieces: SUBSET Nat, line: Line]) /\ Len(typed) \in Nat
  <2>1. stdin' = stdin
    BY DEF VulnNext, MainStep, HistoryInit, Getline, GetlineLine, GetlineTakes, GetlineRefill,
           GetlineRest, ReturnLine, GetlineFails, RecordHistory, Parse, BuiltinExit, ShowHistory,
           RecallSlot, Execute, WaitReturns, Cleanup, ChildExec, ChildExecFails, ChildReads,
           ChildExits, inputVars, vulnVars
  <2> QED BY <2>1 DEF Newlines, Ends, VulnInv, StdinInv
<1>2. ASSUME Undisturbed
      PROVE  /\ pc # "undefined"
             /\ pc = "dispatch" => args = ParseInputTruncating(Input).args
             /\ InStep
  BY <1>1, <1>2 DEF TestRunInv
<1>u. ASSUME UNCHANGED << typed, childRead >>, ~rewound' => ~rewound PROVE Undisturbed
  BY <1>1, <1>u DEF Undisturbed
<1>3. ASSUME UNCHANGED << typed, childRead, blocks, branched >>, ~rewound' => ~rewound,
             pc # "record", pc' \notin {"record", "undefined"},
             pc' = "dispatch" => args' = ParseInputTruncating(Input).args,
             Undisturbed /\ pc' \in {"prompt", "wait"} =>
                pc \in {"prompt", "wait"} \/ typed = << >> \/ ~ReadsFlag(Len(typed))
      PROVE  /\ pc' # "undefined"
             /\ pc' = "dispatch" => args' = ParseInputTruncating(Input').args
             /\ InStep'
  <2>1. Undisturbed /\ Input' = Input
    BY <1>3, <1>u DEF Input
  <2>2. InStep
    BY <1>2, <2>1
  <2>3. UNCHANGED << typed, blocks, branched >>
    BY <1>3
  <2>4. InStep'
    BY <1>1, <1>3, <2>1, <2>2, <2>3, InStepFrame
  <2> QED BY <1>3, <2>1, <2>4
<1>4. ASSUME pc = "dispatch", Undisturbed, ReadsFlag(Len(typed))
      PROVE  IsCommand(args, "recall")
  <2>1. Input = TestInput[Len(typed)]
    BY <1>1, <1>4, TestLine
  <2> QED BY <1>2, <1>4, <2>1 DEF ReadsFlag
<1>5. CASE HistoryInit
  <2>1. ASSUME Undisturbed PROVE typed = << >>
    <3>1. history_count = 0
      BY <1>5 DEF HistoryInit, VulnInv, FlagInv, history_count
    <3>2. Len(typed) = 0
      BY <1>1, <1>2, <1>5, <2>1, <3>1 DEF HistoryInit, InStep
    <3> QED BY <1>1, <3>2
  <2> QED BY <1>3, <1>5, <2>1 DEF HistoryInit, replyVars, inputVars
<1>r. ASSUME NEW l \in Line, NEW pieces \in SUBSET Nat, ReturnLine(pieces, l), pc = "prompt"
      PROVE  InStep' /\ pc' = "record"
  <2>1. /\ childRead' = childRead /\ rewound' = rewound
        /\ typed' = Append(typed, [pieces |-> pieces, line |-> l])
    BY <1>r DEF ReturnLine
  <2>2. \A i \in DOMAIN typed : i \in DOMAIN typed' /\ typed'[i] = typed[i]
    BY <1>1, <2>1
  <2>3. Undisturbed
    BY <1>1, <2>1, <2>2 DEF Undisturbed
  <2> QED BY <1>1, <1>2, <1>r, <2>3, ReturnInStep
<1>6. CASE Getline
  <2>1. ASSUME NEW l \in Line, GetlineLine(l) PROVE InStep' /\ pc' = "record"
    <3>1. PICK to \in Newlines \cap (bufpos + 1 .. bufend) : ReturnLine(taken \cup (bufpos + 1 .. to), l)
      BY <2>1 DEF GetlineLine
    <3>2. taken \cup (bufpos + 1 .. to) \in SUBSET Nat
      <4>1. bufend \in 0 .. Total /\ bufpos \in 0 .. bufend /\ taken \subseteq Nat
        BY DEF VulnInv, StdinInv
      <4>2. Total \in Nat
        BY <1>1, EndsFacts DEF Total, VulnInv, StdinInv
      <4>3. bufend \in Nat
        BY <4>1, <4>2
      <4>4. bufpos \in Nat
        BY <4>1, <4>3
      <4>5. to \in Nat
        BY <3>1, <4>3, <4>4
      <4>6. bufpos + 1 .. to \subseteq Nat
        BY <4>4, <4>5
      <4> QED BY <4>1, <4>6
    <3> QED BY <1>r, <2>1, <3>1, <3>2 DEF GetlineLine
  <2>2. ASSUME NEW l \in Line, GetlineRest(l) PROVE InStep' /\ pc' = "record"
    <3>1. taken \in SUBSET Nat /\ ReturnLine(taken, l) /\ pc = "prompt"
      BY <2>2 DEF GetlineRest, VulnInv, StdinInv
    <3> QED BY <1>r, <3>1
  <2>3. CASE GetlineTakes
    BY <1>3, <2>3 DEF GetlineTakes, tableVars, replyVars
  <2>4. CASE GetlineRefill
    BY <1>3, <2>4 DEF GetlineRefill, tableVars, replyVars
  <2> QED BY <1>6, <2>1, <2>2, <2>3, <2>4 DEF Getline
<1>7. CASE GetlineFails
  BY <1>3, <1>7 DEF GetlineFails, tableVars, replyVars, inputVars
<1>8. CASE RecordHistory
  <2>1. Undisturbed
    BY <1>8, <1>u DEF RecordHistory, inputVars
  <2>2. InStep' /\ pc' = "parse"
    BY <1>1, <1>2, <1>8, <2>1, RecordInStep
  <2> QED BY <2>2
<1>9. CASE Parse
  BY <1>3, <1>9 DEF Parse, tableVars, replyVars, inputVars
<1>10. CASE BuiltinExit
  BY <1>3, <1>10 DEF BuiltinExit, tableVars, replyVars, inputVars
<1>11. CASE ShowHistory
  <2>1. pc = "dispatch" /\ ~IsCommand(args, "recall")
    BY <1>11 DEF ShowHistory, IsCommand
  <2>2. UNCHANGED << typed, childRead, rewound, blocks, branched, stdin >>
    BY <1>11 DEF ShowHistory, tableVars, inputVars
  <2>3. Undisturbed
    BY <1>u, <2>2
  <2>4. pc' = "prompt"
    BY <1>1, <1>2, <1>11, <2>1, <2>3, FormatsAreKnown
  <2> QED BY <1>3, <1>4, <2>1, <2>2, <2>4
<1>12. CASE RecallSlot
  <2>1. Undisturbed /\ pc = "dispatch"
    BY <1>12, <1>u DEF RecallSlot, inputVars
  <2>2. InStep' /\ pc' = "prompt"
    BY <1>1, <1>2, <1>12, <2>1, RecallInStep
  <2> QED BY <2>2
<1>13. CASE Execute
  <2>1. pc = "dispatch" /\ ~IsCommand(args, "recall")
    BY <1>13 DEF Execute, IsBuiltin
  <2> QED BY <1>3, <1>4, <1>13, <2>1 DEF Execute, tableVars, replyVars, inputVars
<1>14. CASE WaitReturns
  BY <1>3, <1>14 DEF WaitReturns, tableVars, replyVars, inputVars
<1>15. CASE Cleanup
  BY <1>3, <1>15 DEF Cleanup, replyVars, inputVars
<1>16. ASSUME UNCHANGED << typed, childRead, pc, args, tableVars, replyVars >>, ~rewound' => ~rewound
       PROVE  /\ pc' # "undefined"
              /\ pc' = "dispatch" => args' = ParseInputTruncating(Input').args
              /\ InStep'
  <2>1. /\ pc' = pc /\ args' = args /\ Input' = Input
        /\ typed' = typed /\ history_count' = history_count /\ branched' = branched
    BY <1>16 DEF Input, tableVars, replyVars, history_count
  <2>2. Undisturbed
    BY <1>16, <1>u
  <2> QED BY <1>2, <2>1, <2>2 DEF InStep
<1>17. CASE ChildExec
  BY <1>16, <1>17 DEF ChildExec, inputVars
<1>18. CASE ChildExecFails
  BY <1>16, <1>18 DEF ChildExecFails
<1>19. CASE ChildReads
  BY <1>19, ChildReadsKeeps
<1>20. CASE ChildExits
  BY <1>16, <1>20 DEF ChildExits, inputVars
<1>21. CASE UNCHANGED vulnVars
  BY <1>16, <1>21 DEF vulnVars, inputVars
<1> QED BY <1>5, <1>6, <1>7, <1>8, <1>9, <1>10, <1>11, <1>12, <1>13, <1>14, <1>15, <1>17, <1>18,
           <1>19, <1>20, <1>21 DEF VulnNext, MainStep

(* The engine matrix, for every ring size, every content of the flags and every
   input of the shape the gate's has: C1 never happens on it, and a run to its
   exit has read a flag that nothing wrote and lost the blocks the ring went
   over, the rest being reachable. *)
THEOREM VulnEngineMatrix == VulnSpec => []EngineMatrix
<1>1. VulnInv /\ TestRunInv => EngineMatrix
  <2> SUFFICES ASSUME VulnInv, TestRunInv, stdin = TestInput, pc = "done", Len(typed) = Len(TestInput),
                      Undisturbed, \A k \in DOMAIN blocks : blocks[k] # NoText
               PROVE  Lost = 1 .. Len(TestInput) - HISTORY_SLOTS /\ branched # {}
    BY DEF EngineMatrix, TestRunInv
  <2>1. InStep
    BY DEF TestRunInv
  <2>2. history_count = Len(TestInput) /\ Len(TestInput) \in Nat /\ HISTORY_SLOTS \in Nat
    BY <2>1, SizesAssumption DEF InStep, VulnInv, StdinInv
  <2>3. Lost = 1 .. Len(TestInput) - HISTORY_SLOTS
    <3>1. Lost = { k \in 1 .. history_count : blocks[k] # NoText /\ k + HISTORY_SLOTS <= history_count }
      BY LostFromRing DEF VulnInv, LostIffOverwritten
    <3>2. \A k \in 1 .. history_count : blocks[k] # NoText
      BY DEF history_count, VulnInv, BlockInv
    <3> QED BY <2>2, <3>1, <3>2
  <2>4. PICK n \in 1 .. Len(TestInput) - 1 : ReadsFlag(n)
    BY TestInputAssumption
  <2>5. n \in 1 .. Len(typed) /\ n < Len(typed)
    BY <2>2
  <2>6. branched # {}
    BY <2>1, <2>4, <2>5 DEF InStep
  <2> QED BY <2>3, <2>6
<1>2. VulnSpec => []TestRunInv
  BY TestRunInit, TestRunNext, VulnInvHolds, PTL DEF VulnSpec
<1> QED BY <1>1, <1>2, VulnInvHolds, PTL

(* What a session has left: input to take and to make lines of, the way of the line
   in hand through main, the child's life, and input a command could still read. *)
InputLeft == 2 * (Total - bufpos) + (IF taken = {} THEN 0 ELSE 1)
Stage     == [start |-> 6, record |-> 5, parse |-> 4, dispatch |-> 3, wait |-> 2, prompt |-> 1,
              cleanup |-> 0, done |-> -1, undefined |-> -1][pc]
Life      == [forked |-> 2, running |-> 1, ended |-> 0, none |-> 0][child]
Unread    == Total - offset

SessionIsBounded == InputLeft \in Nat /\ Stage >= -1 /\ Life >= 0 /\ Unread \in Nat

(* Without a rewind the first of the four that a step changes becomes less, and
   every step changes one: only a child that could not be run, and its exit(), can
   make main handle lines for ever. *)
SessionAdvances ==
    ~rewound' =>
       \/ InputLeft' < InputLeft
       \/ /\ InputLeft' = InputLeft
          /\ \/ Stage' < Stage
             \/ /\ Stage' = Stage
                /\ \/ Life' < Life
                   \/ Life' = Life /\ Unread' < Unread

(* The places of main, and the child it waits for. *)
PlacesInv ==
    /\ pc \in Running \cup {"start", "done", "undefined"}
    /\ child \in {"none", "forked", "running", "ended"}

(* They stay what they are. *)
LEMMA PlacesNext == VulnInv /\ PlacesInv /\ [VulnNext]_vulnVars => PlacesInv'
<1> SUFFICES ASSUME VulnInv, PlacesInv, [VulnNext]_vulnVars PROVE PlacesInv'
  OBVIOUS
<1> USE DEF PlacesInv, Running
<1>1. CASE HistoryInit \/ GetlineFails \/ Cleanup
  BY <1>1 DEF HistoryInit, GetlineFails, Cleanup, Goto
<1>6. CASE Getline
  BY <1>6 DEF Getline, GetlineLine, GetlineTakes, GetlineRefill, GetlineRest, ReturnLine, AfterLine
<1>2. CASE RecordHistory \/ Parse \/ BuiltinExit \/ ShowHistory \/ RecallSlot
  BY <1>2 DEF RecordHistory, Parse, BuiltinExit, ShowHistory, RecallSlot, Goto
<1>3. CASE Execute \/ WaitReturns
  BY <1>3 DEF Execute, WaitReturns, Goto
<1>4. CASE ChildExec \/ ChildExecFails \/ ChildReads \/ ChildExits
  BY <1>4 DEF ChildExec, ChildExecFails, ChildReads, ChildExits
<1>5. CASE UNCHANGED vulnVars
  BY <1>5 DEF vulnVars
<1> QED BY <1>1, <1>2, <1>3, <1>4, <1>5, <1>6 DEF VulnNext, MainStep

(* Everything that is left is a number that cannot fall for ever. *)
LEMMA SessionCounts == VulnInv /\ PlacesInv => SessionIsBounded
<1> SUFFICES ASSUME VulnInv, PlacesInv PROVE SessionIsBounded
  OBVIOUS
<1>1. InputLeft \in Nat /\ Unread \in Nat
  <2>1. /\ Total \in Nat /\ offset \in 0 .. Total /\ bufend \in 0 .. Total /\ bufpos \in 0 .. bufend
    BY EndsFacts DEF VulnInv, StdinInv, Total
  <2> QED BY <2>1 DEF InputLeft, Unread
<1>2. Stage >= -1
  BY DEF PlacesInv, Running, Stage
<1>3. Life >= 0
  BY DEF PlacesInv, Life
<1> QED BY <1>1, <1>2, <1>3 DEF SessionIsBounded

(* A step of main either takes a line or brings main further with the one it has. *)
LEMMA SessionStep == VulnInv /\ VulnNext => SessionAdvances
<1> SUFFICES ASSUME VulnInv, VulnNext, ~rewound' PROVE SessionAdvances
  BY DEF SessionAdvances
<1>1. /\ Total \in Nat /\ offset \in 0 .. Total /\ bufend \in 0 .. Total /\ bufpos \in 0 .. bufend
  BY EndsFacts DEF VulnInv, StdinInv, Total
<1>0. \A m, a, b \in Nat : \A x, y \in {0, 1} : a < b => 2 * (m - b) + x < 2 * (m - a) + y
  OBVIOUS
<1>f. ASSUME stdin' = stdin, bufpos' \in Nat, bufpos < bufpos' PROVE SessionAdvances
  <2>1. /\ (IF taken = {} THEN 0 ELSE 1) \in {0, 1}
        /\ (IF taken' = {} THEN 0 ELSE 1) \in {0, 1}
    OBVIOUS
  <2>2. Total' = Total /\ bufpos \in Nat
    BY <1>1, <1>f DEF Total, Ends
  <2>3. InputLeft' < InputLeft
    BY <1>0, <1>1, <1>f, <2>1, <2>2 DEF InputLeft
  <2> QED BY <2>3 DEF SessionAdvances
<1>2. ASSUME UNCHANGED << stdin, bufpos, taken >>, Stage' < Stage PROVE SessionAdvances
  BY <1>2 DEF SessionAdvances, InputLeft, Total, Ends
<1>3. CASE Getline
  <2>1. ASSUME NEW l \in Line, GetlineLine(l) PROVE SessionAdvances
    <3>1. stdin' = stdin /\ bufpos' \in bufpos + 1 .. bufend
      BY <2>1 DEF GetlineLine, ReturnLine
    <3> QED BY <1>1, <1>f, <3>1
  <2>2. CASE GetlineTakes
    <3>1. stdin' = stdin /\ bufpos' = bufend /\ bufpos < bufend
      BY <2>2 DEF GetlineTakes
    <3> QED BY <1>1, <1>f, <3>1
  <2>3. ASSUME NEW l \in Line, GetlineRest(l) PROVE SessionAdvances
    <3>1. bufpos' = bufpos /\ taken # {} /\ taken' = {} /\ stdin' = stdin
      BY <2>3 DEF GetlineRest, ReturnLine
    <3>2. InputLeft = 2 * (Total - bufpos) + 1 /\ InputLeft' = 2 * (Total - bufpos) + 0
      BY <3>1 DEF InputLeft, Total, Ends
    <3>3. InputLeft' < InputLeft
      BY <1>1, <3>2
    <3> QED BY <3>3 DEF SessionAdvances
  <2>4. CASE GetlineRefill
    <3>1. PICK k \in 1 .. Total - offset : offset' = offset + k
      BY <2>4 DEF GetlineRefill, Block
    <3>2. /\ bufpos' = offset /\ pc' = pc /\ child' = child /\ taken' = taken /\ stdin' = stdin
          /\ rewound' = rewound /\ bufpos = bufend
      BY <2>4 DEF GetlineRefill
    <3>3. bufend <= offset
      BY <3>2 DEF VulnInv, OrderInv
    <3>4. CASE offset = bufpos
      <4>1. InputLeft' = InputLeft /\ Stage' = Stage /\ Life' = Life
        BY <3>2, <3>4 DEF InputLeft, Stage, Life, Total, Ends
      <4>2. Total' = Total
        BY <3>2 DEF Total, Ends
      <4>3. Unread' < Unread
        BY <1>1, <3>1, <4>2 DEF Unread
      <4> QED BY <4>1, <4>3 DEF SessionAdvances
    <3>5. CASE bufpos < offset
      BY <1>1, <1>f, <3>2, <3>5
    <3> QED BY <1>1, <3>2, <3>3, <3>4, <3>5
  <2> QED BY <1>3, <2>1, <2>2, <2>3, <2>4 DEF Getline
<1>4. CASE HistoryInit \/ GetlineFails \/ Cleanup
  <2>1. /\ \/ pc = "start" /\ pc' \in {"prompt", "done"}
           \/ pc = "prompt" /\ pc' = "cleanup"
           \/ pc = "cleanup" /\ pc' = "done"
        /\ UNCHANGED << stdin, bufpos, taken >>
    BY <1>4 DEF HistoryInit, GetlineFails, Cleanup, Goto, inputVars
  <2> QED BY <1>2, <2>1 DEF Stage
<1>5. CASE RecordHistory \/ Parse \/ BuiltinExit \/ ShowHistory \/ RecallSlot
  <2>1. /\ \/ pc = "record" /\ pc' \in {"parse", "undefined"}
           \/ pc = "parse" /\ pc' = "dispatch"
           \/ pc = "dispatch" /\ pc' \in {"cleanup", "prompt", "undefined"}
        /\ UNCHANGED << stdin, bufpos, taken >>
    BY <1>5 DEF RecordHistory, Parse, BuiltinExit, ShowHistory, RecallSlot, Goto, inputVars
  <2> QED BY <1>2, <2>1 DEF Stage
<1>6. CASE Execute \/ WaitReturns
  <2>1. /\ \/ pc = "dispatch" /\ pc' \in {"prompt", "wait", "done"}
           \/ pc = "wait" /\ pc' = "prompt"
        /\ UNCHANGED << stdin, bufpos, taken >>
    BY <1>6 DEF Execute, WaitReturns, Goto, inputVars
  <2> QED BY <1>2, <2>1 DEF Stage
<1>7. CASE ChildExec \/ ChildExecFails \/ ChildExits
  <2>1. /\ \/ child = "forked" /\ child' \in {"running", "ended"}
           \/ child = "running" /\ child' = "ended"
        /\ UNCHANGED << stdin, bufpos, taken, pc >>
    BY <1>7 DEF ChildExec, ChildExecFails, ChildExits, inputVars
  <2>2. Life' < Life
    BY <2>1 DEF Life
  <2> QED BY <2>1, <2>2 DEF SessionAdvances, InputLeft, Stage, Total, Ends
<1>8. CASE ChildReads
  <2>1. PICK k \in 1 .. Total - offset : offset' = offset + k
    BY <1>8 DEF ChildReads
  <2>2. UNCHANGED << stdin, bufpos, taken, pc, child >>
    BY <1>8 DEF ChildReads
  <2>3. InputLeft' = InputLeft /\ Stage' = Stage /\ Life' = Life /\ Total' = Total
    BY <2>2 DEF InputLeft, Stage, Life, Total, Ends
  <2>4. Unread' < Unread
    BY <1>1, <2>1, <2>3 DEF Unread
  <2> QED BY <2>3, <2>4 DEF SessionAdvances
<1> QED BY <1>3, <1>4, <1>5, <1>6, <1>7, <1>8 DEF VulnNext, MainStep

(* For any input, blocks of stdio and content of the flags: a session in which nothing
   is given back takes finitely many steps. *)
THEOREM VulnCannotGoOnUnlessRewound == VulnSpec => []SessionIsBounded /\ [][SessionAdvances]_vulnVars
<1>1. VulnInit => PlacesInv
  BY DEF VulnInit, PlacesInv, Running
<1> QED BY <1>1, VulnInvHolds, PlacesNext, SessionCounts, SessionStep, PTL DEF VulnSpec

-----------------------------------------------------------------------------

(* The only function that looks at no name opens its file and asks the handle. *)
LEMMA OkIsNotReported ==
    ASSUME NEW n \in RaceNames, ~ReportedRace(n)
    PROVE  Races(n) = << Open("file.txt"), LookFd("file.txt") >>
<1>1. /\ DOMAIN LookThenOpen = {"bad1", "bad2"} /\ DOMAIN OpenThenLook = {"bad3"}
      /\ DOMAIN CopyThenUnlink = {"test_001"} /\ DOMAIN OpenThenFstat = {"ok"}
      /\ DOMAIN LookThenFopen = {"test_002", "test_001_stack_overflow"}
  BY DEF LookThenOpen, OpenThenLook, CopyThenUnlink, LookThenFopen, OpenThenFstat
<1>2. /\ RaceNames = {"bad1", "bad2", "bad3", "test_001", "test_002", "test_001_stack_overflow", "ok"}
      /\ \A x \in {"bad1", "bad2"} : Races(x) = LookThenOpen[x]
      /\ Races("bad3") = OpenThenLook["bad3"] /\ Races("test_001") = CopyThenUnlink["test_001"]
      /\ \A x \in {"test_002", "test_001_stack_overflow"} : Races(x) = LookThenFopen[x]
      /\ Races("ok") = OpenThenFstat["ok"]
  BY <1>1 DEF RaceNames, Races
<1>3. ASSUME n # "ok" PROVE FALSE
  <2>1. Look("userfile").op = "look" /\ Look("file").op = "look" /\ Look("fname").op = "look"
        /\ Look("original").op = "look" /\ Look("key").op = "look"
    BY DEF Look
  <2>2. CASE n \in {"bad1", "bad2"}
    <3>1. Races(n)[1].op = "look" /\ 1 \in DOMAIN Races(n)
      BY <1>2, <2>1, <2>2 DEF LookThenOpen
    <3> QED BY <3>1 DEF ReportedRace
  <2>3. CASE n = "bad3"
    <3>1. Races(n)[2].op = "look" /\ 2 \in DOMAIN Races(n)
      BY <1>2, <2>1, <2>3 DEF OpenThenLook
    <3> QED BY <3>1 DEF ReportedRace
  <2>4. CASE n = "test_001"
    <3>1. Races(n)[1].op = "look" /\ 1 \in DOMAIN Races(n)
      BY <1>2, <2>1, <2>4 DEF CopyThenUnlink
    <3> QED BY <3>1 DEF ReportedRace
  <2>5. CASE n \in {"test_002", "test_001_stack_overflow"}
    <3>1. Races(n)[1].op = "look" /\ 1 \in DOMAIN Races(n)
      BY <1>2, <2>1, <2>5 DEF LookThenFopen
    <3> QED BY <3>1 DEF ReportedRace
  <2> QED BY <1>2, <1>3, <2>2, <2>3, <2>4, <2>5
<1> QED BY <1>2, <1>3 DEF OpenThenFstat

(* The files of a function are changed one at a time. *)
RacesType ==
    /\ race \in RaceNames
    /\ current \in [Files(race) -> Nat \ {0}]
    /\ handle \in [Files(race) -> Nat] /\ looked \in [Files(race) -> Nat]
    /\ used \in [Files(race) -> SUBSET Nat]

(* The function that asks the handle used only what it opened, whatever has come
   under the name since. *)
AsksHandle ==
    ~ReportedRace(race) =>
       /\ step \in 1 .. 3
       /\ \A f \in Files(race) :
             /\ looked[f] \in {0, handle[f]} /\ used[f] \subseteq {handle[f]}
             /\ step = 1 => looked[f] = 0 /\ used[f] = {}

(* The inductive invariant of the races. *)
RacesInv == RacesType /\ AsksHandle

(* A race starts with every file in place and nothing looked at. *)
LEMMA RacesInitInv == RacesInit => RacesInv
BY DEF RacesInit, RacesInv, RacesType, AsksHandle

(* Every step of the function, and every replacement, keeps it. *)
LEMMA RacesNextInv ==
    ASSUME RacesInv, [RacesNext]_raceVars PROVE RacesInv'
<1>1. race' = race
  BY DEF RacesNext, LookAtName, LookAtHandle, OpenName, UseName, CallFails, Replace, raceVars
<1>2. /\ race \in RaceNames /\ current \in [Files(race) -> Nat \ {0}]
      /\ handle \in [Files(race) -> Nat] /\ looked \in [Files(race) -> Nat]
      /\ used \in [Files(race) -> SUBSET Nat]
  BY DEF RacesInv, RacesType
<1>4. ASSUME ~ReportedRace(race)
      PROVE  /\ step \in 1 .. 3 /\ DOMAIN Races(race) = 1 .. 2 /\ Len(Races(race)) = 2
             /\ Races(race)[1].op = "open" /\ Races(race)[2].op = "lookfd" /\ Races(race)[1].leaves
             /\ \A f \in Files(race) :
                   /\ looked[f] \in {0, handle[f]} /\ used[f] \subseteq {handle[f]}
                   /\ step = 1 => looked[f] = 0 /\ used[f] = {}
  <2>1. Races(race) = << Open("file.txt"), LookFd("file.txt") >>
    BY <1>2, <1>4, OkIsNotReported
  <2> QED BY <1>4, <2>1 DEF RacesInv, AsksHandle, Open, LookFd
<1>5. ASSUME step \in DOMAIN Races(race)
      PROVE  /\ Now.file \in Files(race)
             /\ ~ReportedRace(race) => \/ step = 1 /\ Now.op = "open"
                                       \/ step = 2 /\ Now.op = "lookfd"
  <2>1. Now.file \in Files(race)
    BY <1>5 DEF Files, Now
  <2> QED BY <1>4, <1>5, <2>1 DEF Now
<1>6. CASE LookAtName
  <2>1. /\ Now.file \in Files(race) /\ ReportedRace(race) /\ step' = step + 1
        /\ looked' = [looked EXCEPT ![Now.file] = current[Now.file]]
        /\ UNCHANGED << current, handle, used >>
    BY <1>5, <1>6 DEF LookAtName, Active
  <2>2. RacesType'
    BY <1>1, <1>2, <2>1 DEF RacesType
  <2> QED BY <1>1, <2>1, <2>2 DEF RacesInv, AsksHandle
<1>7. CASE LookAtHandle
  <2>1. /\ Now.file \in Files(race) /\ (~ReportedRace(race) => step = 2) /\ step' = step + 1
        /\ looked' = [looked EXCEPT ![Now.file] = handle[Now.file]]
        /\ UNCHANGED << current, handle, used >>
    BY <1>5, <1>7 DEF LookAtHandle, Active
  <2>2. RacesType'
    BY <1>1, <1>2, <2>1 DEF RacesType
  <2>4. AsksHandle'
    BY <1>1, <1>2, <1>4, <2>1 DEF AsksHandle
  <2> QED BY <2>2, <2>4 DEF RacesInv
<1>8. CASE OpenName
  <2>1. /\ Now.file \in Files(race) /\ (~ReportedRace(race) => step = 1) /\ step' = step + 1
        /\ handle' = [handle EXCEPT ![Now.file] = current[Now.file]]
        /\ used' = [used EXCEPT ![Now.file] = used[Now.file] \cup {current[Now.file]}]
        /\ UNCHANGED << current, looked >>
    BY <1>5, <1>8 DEF OpenName, Active
  <2>2. RacesType'
    BY <1>1, <1>2, <2>1 DEF RacesType
  <2>4. AsksHandle'
    BY <1>1, <1>2, <1>4, <2>1 DEF AsksHandle
  <2> QED BY <2>2, <2>4 DEF RacesInv
<1>9. CASE UseName
  <2>1. /\ Now.file \in Files(race) /\ ReportedRace(race) /\ step' = step + 1
        /\ used' = [used EXCEPT ![Now.file] = used[Now.file] \cup {current[Now.file]}]
        /\ UNCHANGED << current, handle, looked >>
    BY <1>5, <1>9 DEF UseName, Active
  <2>2. RacesType'
    BY <1>1, <1>2, <2>1 DEF RacesType
  <2> QED BY <1>1, <2>1, <2>2 DEF RacesInv, AsksHandle
<1>10. CASE CallFails
  <2>1. /\ step \in DOMAIN Races(race)
        /\ step' = IF Races(race)[step].leaves THEN Len(Races(race)) + 1 ELSE step + 1
        /\ UNCHANGED << current, handle, looked, used >>
    BY <1>10 DEF CallFails, Now, Done
  <2>2. RacesType'
    BY <1>1, <1>2, <2>1 DEF RacesType
  <2>3. ~ReportedRace(race) => step' \in {2, 3}
    <3>1. SUFFICES ASSUME ~ReportedRace(race) PROVE step' \in {2, 3}
      OBVIOUS
    <3>2. CASE step = 1
      <4>1. Races(race)[step].leaves
        BY <1>4, <3>1, <3>2
      <4>2. step' = Len(Races(race)) + 1
        BY <2>1, <4>1
      <4>3. Len(Races(race)) = 2
        BY <1>4, <3>1
      <4> QED BY <4>2, <4>3
    <3>3. CASE step = 2
      <4>1. step' = Len(Races(race)) + 1 \/ step' = step + 1
        BY <2>1
      <4>2. Len(Races(race)) = 2
        BY <1>4, <3>1
      <4> QED BY <3>3, <4>1, <4>2
    <3> QED BY <1>4, <2>1, <3>1, <3>2, <3>3
  <2>4. AsksHandle'
    BY <1>1, <1>4, <2>1, <2>3 DEF AsksHandle
  <2> QED BY <2>2, <2>4 DEF RacesInv
<1>11. CASE Replace
  <2>1. PICK g \in Files(race) :
           /\ current' = [current EXCEPT ![g] = current[g] + 1]
    BY <1>11 DEF Replace
  <2>2. UNCHANGED << step, handle, looked, used >>
    BY <1>11 DEF Replace
  <2>3. RacesType'
    <3>1. current[g] + 1 \in Nat \ {0}
      BY <1>2
    <3> QED BY <1>1, <1>2, <2>1, <2>2, <3>1 DEF RacesType
  <2>5. AsksHandle'
    BY <1>1, <2>2 DEF AsksHandle, RacesInv
  <2> QED BY <2>3, <2>5 DEF RacesInv
<1>12. CASE UNCHANGED raceVars
  BY <1>12 DEF raceVars, RacesInv, RacesType, AsksHandle
<1> QED BY <1>6, <1>7, <1>8, <1>9, <1>10, <1>11, <1>12 DEF RacesNext

(* However often the other process replaces files: the function that asks the
   handle is right about the file it uses. *)
THEOREM PackOpenFileIsTheOneLookedAt == PackSpec => []OpenFileIsTheOneLookedAt
<1> DEFINE Inv == machine = "races" => RacesInv
<1>1. PackInit => Inv
  BY RacesInitInv DEF PackInit
<1>2. Inv /\ [PackNext]_packVars => Inv'
  <2>1. SUFFICES ASSUME machine = "races", RacesInv, [PackNext]_packVars PROVE RacesInv'
    BY DEF PackNext, packVars
  <2>2. [RacesNext]_raceVars
    BY <2>1 DEF PackNext, packVars
  <2> QED BY <2>1, <2>2, RacesNextInv
<1>3. Inv => OpenFileIsTheOneLookedAt
  BY DEF OpenFileIsTheOneLookedAt, UnreportedLooksAtItsFile, RacesInv, RacesType, AsksHandle
<1> QED BY <1>1, <1>2, <1>3, PTL DEF PackSpec

(* The three ids after setuid as root, and after seteuid to the real id. *)
AllIds(u)    == [r |-> u, e |-> u, s |-> u]
Effective(u) == [r |-> u, e |-> u, s |-> 0]

(* A program with this label, these ids to give up and so many steps; it has
   never told its caller of a failure. *)
Runs(lab, wants, steps, progs) ==
    /\ program.rule = "order" /\ program.label = lab /\ program.wants = wants
    /\ program.prog \in progs /\ Len(program.prog) = steps
    /\ ~left /\ next \in 1 .. steps + 1

(* setuid before setgid: only a root can set the saved group id.  Nothing is said
   of a run in which a permitted call failed and the function went on. *)
DropsUidFirst ==
    /\ Runs("ruleid", {"uid", "gid"}, 2, {<< Uid(REAL), Gid(REAL) >>, << Uid(USER1), Gid(USER1) >>})
    /\ ~short => /\ uid = IF next = 1 THEN RootIds(USER1) ELSE AllIds(USER1)
                 /\ gid = IF next = 3 THEN Effective(USER1) ELSE RootIds(USER1)

DropsGidFirst ==
    /\ Runs("ok", {"uid", "gid"}, 2, {<< Gid(REAL), Uid(REAL) >>, << Gid(USER1), Uid(USER1) >>})
    /\ ~wrongWork
    /\ ~short => /\ uid = IF next = 3 THEN AllIds(USER1) ELSE RootIds(USER1)
                 /\ gid = IF next = 1 THEN RootIds(USER1) ELSE AllIds(USER1)

DropsUidOnly ==
    /\ \E lab \in {"ok", "ruleid"} : Runs(lab, {"uid"}, 1, {<< Uid(USER1) >>})
    /\ ~wrongWork
    /\ ~short => uid = IF next = 1 THEN RootIds(USER1) ELSE AllIds(USER1)

DropsGidOnly ==
    /\ \E lab \in {"ok", "ruleid"} : Runs(lab, {"gid"}, 1, {<< Gid(USER1) >>})
    /\ ~wrongWork
    /\ ~short => /\ uid = RootIds(USER1)
                 /\ gid = IF next = 1 THEN RootIds(USER1) ELSE AllIds(USER1)

(* seteuid before setuid: the saved id stays root's, unless root is taken back
   in between. *)
DropsEuidFirst ==
    /\ Runs("ruleid", {"uid"}, 2, {<< Euid(REAL), Uid(REAL) >>})
    /\ ~short => uid = IF next = 1 THEN RootIds(USER1) ELSE Effective(USER1)

TakesRootBack ==
    /\ Runs("ok", {"uid"}, 3, {<< Euid(REAL), Euid(0), Uid(REAL) >>})
    /\ ~wrongWork
    /\ ~short => uid = IF next = 2 THEN Effective(USER1)
                       ELSE IF next = 4 THEN AllIds(USER1) ELSE RootIds(USER1)

(* Work for two users: the second is not reached from the first. *)
ActsAsUser(u) == [r |-> 0, e |-> u, s |-> 0]

InTurn == << Euid(USER1), WorkAs(USER1), Euid(USER2), WorkAs(USER2), Euid(0) >>

FromRoot == << Euid(USER1), WorkAs(USER1), Euid(0), Euid(USER2), WorkAs(USER2), Euid(0) >>

ActsInTurn ==
    /\ Runs("ruleid", {}, 5, {InTurn})
    /\ ~short => /\ uid = ActsAsUser(IF next \in 2 .. 5 THEN USER1 ELSE 0)
                 /\ wrongWork <=> next >= 5

ActsFromRoot ==
    /\ Runs("ok", {}, 6, {FromRoot})
    /\ ~short => /\ uid = ActsAsUser(IF next \in 2 .. 3 THEN USER1
                                     ELSE IF next \in 5 .. 6 THEN USER2 ELSE 0)
                 /\ ~wrongWork

(* One call that may fail although root makes it. *)
Dropped(wants) == IF wants = {"uid"} THEN AllIds(USER1) ELSE Effective(USER1)

DropsUnchecked ==
    /\ program.rule = "unchecked" /\ ~wrongWork
    /\ Len(program.prog) = 1 /\ next \in 1 .. 2
    /\ \/ program.wants = {"uid"} /\ program.label = "ruleid" /\ program.prog = << Uid(REAL) >>
       \/ program.wants = {"uid"} /\ program.label = "ok" /\ program.prog = << Tested(Uid(REAL)) >>
       \/ program.wants = {"euid"} /\ program.label = "ruleid" /\ program.prog = << Euid(REAL) >>
       \/ program.wants = {"euid"} /\ program.label = "ok" /\ program.prog = << Tested(Euid(REAL)) >>
    /\ IF next = 1 THEN uid = RootIds(USER1) /\ ~short /\ ~left
       ELSE IF program.label = "ruleid" THEN
              /\ ~left
              /\ \/ uid = RootIds(USER1) /\ short
                 \/ uid = Dropped(program.wants) /\ ~short
       ELSE left \/ uid = Dropped(program.wants)

(* The inductive invariant: where each program's ids are, step by step. *)
IdsInv ==
    \/ DropsUidFirst \/ DropsGidFirst \/ DropsUidOnly \/ DropsGidOnly
    \/ DropsEuidFirst \/ TakesRootBack \/ ActsInTurn \/ ActsFromRoot \/ DropsUnchecked

(* Every program starts with root's effective and saved ids. *)
LEMMA IdsInitInv == IdsInit => IdsInv
<1> SUFFICES ASSUME IdsInit PROVE IdsInv
  OBVIOUS
<1> USE DEF IdsInit, IdFixture, Runs
<1>1. CASE program \in DropOrder
  BY <1>1 DEF DropOrder, IdsInv, DropsUidFirst, DropsGidFirst, DropsEuidFirst, TakesRootBack
<1>2. CASE program \in ActForUsers
  <2>1. ActsInTurn \/ ActsFromRoot
    BY <1>2 DEF ActForUsers, ActsInTurn, ActsFromRoot, InTurn, FromRoot, ActsAsUser, RootIds
  <2> QED BY <2>1 DEF IdsInv
<1>3. CASE program \in DropConditional
  BY <1>3 DEF DropConditional, IdsInv, DropsUidFirst, DropsGidFirst, DropsUidOnly, DropsGidOnly
<1>4. CASE program \in UncheckedDrop
  <2>1. DropsUnchecked
    BY <1>4 DEF UncheckedDrop, DropsUnchecked
  <2> QED BY <2>1 DEF IdsInv
<1> QED BY <1>1, <1>2, <1>3, <1>4 DEF IdFixtures

(* A program whose results are not looked at makes every step, whatever happens;
   while no permitted call has failed, a refused one was not permitted. *)
LEMMA IdsStep ==
    ASSUME IdsNext, program.prog[next].tested = FALSE, ~left
    PROVE  /\ next \in DOMAIN program.prog /\ next' = next + 1 /\ program' = program /\ ~left'
           /\ ~short' => ~short
           /\ At("work") => UNCHANGED << uid, gid >> /\ (wrongWork' <=> wrongWork \/ uid.e # Step.id)
           /\ ~At("work") => (wrongWork' <=> wrongWork)
           /\ At("work") \/ At("setuid") \/ At("seteuid") \/ At("setgid")
           /\ ~short' /\ At("setuid") =>
                 /\ uid' = IF Allowed(uid, Id(uid)) THEN SetAll(uid, Id(uid)) ELSE uid
                 /\ gid' = gid
           /\ ~short' /\ At("seteuid") =>
                 /\ uid' = IF Allowed(uid, Id(uid)) THEN [uid EXCEPT !.e = Id(uid)] ELSE uid
                 /\ gid' = gid
           /\ ~short' /\ At("setgid") =>
                 /\ gid' = IF Allowed(gid, Id(gid)) THEN SetAll(gid, Id(gid)) ELSE gid
                 /\ uid' = uid
<1>0. ~Step.tested
  BY DEF Step
<1>1. CASE SetUid
  BY <1>1 DEF SetUid, At, Forward
<1>2. CASE SetEuid
  BY <1>2 DEF SetEuid, At, Forward
<1>3. CASE SetGid
  BY <1>3 DEF SetGid, At, Forward
<1>4. CASE Work
  <2>1. wrongWork' <=> wrongWork \/ uid.e # Step.id
    BY <1>4, Zenon DEF Work
  <2> QED BY <1>4, <2>1 DEF Work, At, Forward
<1>5. CASE Refused
  <2>1. /\ short' <=> short \/ Permitted
        /\ left' <=> Step.tested
    BY <1>0, <1>5, Zenon DEF Refused
  <2> QED BY <1>0, <1>5, <2>1 DEF Refused, At, Permitted
<1> QED BY <1>1, <1>2, <1>3, <1>4, <1>5 DEF IdsNext

(* Each step follows from the ids before it. *)
LEMMA IdsNextInv ==
    ASSUME IdsInv, [IdsNext]_idVars PROVE IdsInv'
<1>0. IdsNext => next \in DOMAIN program.prog
  BY DEF IdsNext, SetUid, SetEuid, SetGid, Refused, Work, At
<1> USE UsersAssumption
    DEF At, Step, Id, Allowed, SetAll, RootIds, AllIds, Effective, REAL, Uid, Gid, Euid
<1>1. CASE DropsUidFirst /\ IdsNext
  <2>1. program.prog[next].tested = FALSE /\ ~left /\ next \in 1 .. 2
    BY <1>0, <1>1 DEF DropsUidFirst, Runs
  <2>2. next' = next + 1 /\ program' = program /\ ~left' /\ (~short' => ~short)
    BY <1>1, <2>1, IdsStep
  <2>3. ASSUME ~short', next = 1
        PROVE  uid' = AllIds(USER1) /\ gid' = RootIds(USER1)
    <3>1. Step.op = "setuid" /\ Step.id \in {REAL, USER1} /\ uid = RootIds(USER1) /\ gid = RootIds(USER1)
      BY <1>1, <2>1, <2>2, <2>3 DEF DropsUidFirst, Runs
    <3>2. At("setuid") /\ Id(uid) = USER1 /\ Allowed(uid, Id(uid))
      BY <1>0, <1>1, <3>1
    <3>3. uid' = SetAll(uid, Id(uid)) /\ gid' = gid
      BY <1>1, <2>1, <2>3, <3>1, <3>2, IdsStep
    <3> QED BY <3>1, <3>2, <3>3
  <2>4. ASSUME ~short', next = 2
        PROVE  uid' = AllIds(USER1) /\ gid' = Effective(USER1)
    <3>1. Step.op = "setgid" /\ Step.id \in {REAL, USER1} /\ uid = AllIds(USER1) /\ gid = RootIds(USER1)
      BY <1>1, <2>1, <2>2, <2>4 DEF DropsUidFirst, Runs
    <3>2. At("setgid") /\ Id(gid) = USER1 /\ Allowed(gid, Id(gid))
      BY <1>0, <1>1, <3>1
    <3>3. gid' = SetAll(gid, Id(gid)) /\ uid' = uid
      BY <1>1, <2>1, <2>4, <3>1, <3>2, IdsStep
    <3> QED BY <3>1, <3>2, <3>3
  <2>5. DropsUidFirst'
    BY <1>1, <2>1, <2>2, <2>3, <2>4 DEF DropsUidFirst, Runs
  <2> QED BY <2>5 DEF IdsInv
<1>2. CASE DropsGidFirst /\ IdsNext
  <2>1. program.prog[next].tested = FALSE /\ ~left /\ next \in 1 .. 2
    BY <1>0, <1>2 DEF DropsGidFirst, Runs
  <2>2. next' = next + 1 /\ program' = program /\ ~left' /\ (~short' => ~short)
    BY <1>2, <2>1, IdsStep
  <2>3. ASSUME ~short', next = 1
        PROVE  uid' = RootIds(USER1) /\ gid' = AllIds(USER1)
    <3>1. Step.op = "setgid" /\ Step.id \in {REAL, USER1} /\ uid = RootIds(USER1) /\ gid = RootIds(USER1)
      BY <1>2, <2>1, <2>2, <2>3 DEF DropsGidFirst, Runs
    <3>2. At("setgid") /\ Id(gid) = USER1 /\ Allowed(gid, Id(gid))
      BY <1>0, <1>2, <3>1
    <3>3. gid' = SetAll(gid, Id(gid)) /\ uid' = uid
      BY <1>2, <2>1, <2>3, <3>1, <3>2, IdsStep
    <3> QED BY <3>1, <3>2, <3>3
  <2>4. ASSUME ~short', next = 2
        PROVE  uid' = AllIds(USER1) /\ gid' = AllIds(USER1)
    <3>1. Step.op = "setuid" /\ Step.id \in {REAL, USER1} /\ uid = RootIds(USER1) /\ gid = AllIds(USER1)
      BY <1>2, <2>1, <2>2, <2>4 DEF DropsGidFirst, Runs
    <3>2. At("setuid") /\ Id(uid) = USER1 /\ Allowed(uid, Id(uid))
      BY <1>0, <1>2, <3>1
    <3>3. uid' = SetAll(uid, Id(uid)) /\ gid' = gid
      BY <1>2, <2>1, <2>4, <3>1, <3>2, IdsStep
    <3> QED BY <3>1, <3>2, <3>3
  <2>5. ~At("work")
    BY <1>2, <2>1 DEF DropsGidFirst, Runs
  <2>6. ~wrongWork'
    BY <1>2, <2>1, <2>5, IdsStep DEF DropsGidFirst
  <2>7. DropsGidFirst'
    BY <1>2, <2>1, <2>2, <2>3, <2>4, <2>6 DEF DropsGidFirst, Runs
  <2> QED BY <2>7 DEF IdsInv
<1>3. CASE DropsUidOnly /\ IdsNext
  <2>1. PICK lab \in {"ok", "ruleid"} : Runs(lab, {"uid"}, 1, {<< Uid(USER1) >>})
    BY <1>3 DEF DropsUidOnly
  <2>2. program.prog[next].tested = FALSE /\ ~left /\ next \in 1 .. 1
    BY <1>0, <1>3, <2>1 DEF DropsUidOnly, Runs
  <2>3. next' = next + 1 /\ program' = program /\ ~left' /\ (~short' => ~short)
    BY <1>3, <2>2, IdsStep
  <2>4. ASSUME ~short', next = 1
        PROVE  uid' = AllIds(USER1)
    <3>1. Step.op = "setuid" /\ Step.id = USER1 /\ uid = RootIds(USER1)
      BY <1>3, <2>1, <2>2, <2>3, <2>4 DEF DropsUidOnly, Runs
    <3>2. At("setuid") /\ Id(uid) = USER1 /\ Allowed(uid, Id(uid))
      BY <1>0, <1>3, <3>1
    <3>3. uid' = SetAll(uid, Id(uid)) /\ gid' = gid
      BY <1>3, <2>2, <2>4, <3>1, <3>2, IdsStep
    <3> QED BY <3>1, <3>2, <3>3
  <2>5. ~At("work")
    BY <1>3, <2>1, <2>2 DEF DropsUidOnly, Runs
  <2>6. ~wrongWork'
    BY <1>3, <2>2, <2>5, IdsStep DEF DropsUidOnly
  <2>7. DropsUidOnly'
    BY <1>3, <2>1, <2>2, <2>3, <2>4, <2>6 DEF DropsUidOnly, Runs
  <2> QED BY <2>7 DEF IdsInv
<1>4. CASE DropsGidOnly /\ IdsNext
  <2>1. PICK lab \in {"ok", "ruleid"} : Runs(lab, {"gid"}, 1, {<< Gid(USER1) >>})
    BY <1>4 DEF DropsGidOnly
  <2>2. program.prog[next].tested = FALSE /\ ~left /\ next \in 1 .. 1
    BY <1>0, <1>4, <2>1 DEF DropsGidOnly, Runs
  <2>3. next' = next + 1 /\ program' = program /\ ~left' /\ (~short' => ~short)
    BY <1>4, <2>2, IdsStep
  <2>4. ASSUME ~short', next = 1
        PROVE  uid' = RootIds(USER1) /\ gid' = AllIds(USER1)
    <3>1. Step.op = "setgid" /\ Step.id = USER1 /\ uid = RootIds(USER1) /\ gid = RootIds(USER1)
      BY <1>4, <2>1, <2>2, <2>3, <2>4 DEF DropsGidOnly, Runs
    <3>2. At("setgid") /\ Id(gid) = USER1 /\ Allowed(gid, Id(gid))
      BY <1>0, <1>4, <3>1
    <3>3. gid' = SetAll(gid, Id(gid)) /\ uid' = uid
      BY <1>4, <2>2, <2>4, <3>1, <3>2, IdsStep
    <3> QED BY <3>1, <3>2, <3>3
  <2>5. ~At("work")
    BY <1>4, <2>1, <2>2 DEF DropsGidOnly, Runs
  <2>6. ~wrongWork'
    BY <1>4, <2>2, <2>5, IdsStep DEF DropsGidOnly
  <2>7. DropsGidOnly'
    BY <1>4, <2>1, <2>2, <2>3, <2>4, <2>6 DEF DropsGidOnly, Runs
  <2> QED BY <2>7 DEF IdsInv
<1>5. CASE DropsEuidFirst /\ IdsNext
  <2>1. program.prog[next].tested = FALSE /\ ~left /\ next \in 1 .. 2
    BY <1>0, <1>5 DEF DropsEuidFirst, Runs
  <2>2. next' = next + 1 /\ program' = program /\ ~left' /\ (~short' => ~short)
    BY <1>5, <2>1, IdsStep
  <2>3. ASSUME ~short', next = 1
        PROVE  uid' = Effective(USER1)
    <3>1. Step.op = "seteuid" /\ Step.id = REAL /\ uid = RootIds(USER1)
      BY <1>5, <2>1, <2>2, <2>3 DEF DropsEuidFirst, Runs
    <3>2. At("seteuid") /\ Id(uid) = USER1 /\ Allowed(uid, Id(uid))
      BY <1>0, <1>5, <3>1
    <3>3. uid' = [uid EXCEPT !.e = Id(uid)] /\ gid' = gid
      BY <1>5, <2>1, <2>3, <3>1, <3>2, IdsStep
    <3> QED BY <3>1, <3>2, <3>3
  <2>4. ASSUME ~short', next = 2
        PROVE  uid' = Effective(USER1)
    <3>1. Step.op = "setuid" /\ Step.id = REAL /\ uid = Effective(USER1)
      BY <1>5, <2>1, <2>2, <2>4 DEF DropsEuidFirst, Runs
    <3>2. At("setuid") /\ Id(uid) = USER1 /\ Allowed(uid, Id(uid))
      BY <1>0, <1>5, <3>1
    <3>3. uid' = SetAll(uid, Id(uid)) /\ gid' = gid
      BY <1>5, <2>1, <2>4, <3>1, <3>2, IdsStep
    <3> QED BY <3>1, <3>2, <3>3
  <2>5. DropsEuidFirst'
    BY <1>5, <2>1, <2>2, <2>3, <2>4 DEF DropsEuidFirst, Runs
  <2> QED BY <2>5 DEF IdsInv
<1>6. CASE TakesRootBack /\ IdsNext
  <2>1. program.prog[next].tested = FALSE /\ ~left /\ next \in 1 .. 3
    BY <1>0, <1>6 DEF TakesRootBack, Runs
  <2>2. next' = next + 1 /\ program' = program /\ ~left' /\ (~short' => ~short)
    BY <1>6, <2>1, IdsStep
  <2>3. ASSUME ~short', next = 1
        PROVE  uid' = Effective(USER1)
    <3>1. Step.op = "seteuid" /\ Step.id = REAL /\ uid = RootIds(USER1)
      BY <1>6, <2>1, <2>2, <2>3 DEF TakesRootBack, Runs
    <3>2. At("seteuid") /\ Id(uid) = USER1 /\ Allowed(uid, Id(uid))
      BY <1>0, <1>6, <3>1
    <3>3. uid' = [uid EXCEPT !.e = Id(uid)] /\ gid' = gid
      BY <1>6, <2>1, <2>3, <3>1, <3>2, IdsStep
    <3> QED BY <3>1, <3>2, <3>3
  <2>4. ASSUME ~short', next = 2
        PROVE  uid' = RootIds(USER1)
    <3>1. Step.op = "seteuid" /\ Step.id = 0 /\ uid = Effective(USER1)
      BY <1>6, <2>1, <2>2, <2>4 DEF TakesRootBack, Runs
    <3>2. At("seteuid") /\ Id(uid) = 0 /\ Allowed(uid, Id(uid))
      BY <1>0, <1>6, <3>1
    <3>3. uid' = [uid EXCEPT !.e = Id(uid)] /\ gid' = gid
      BY <1>6, <2>1, <2>4, <3>1, <3>2, IdsStep
    <3> QED BY <3>1, <3>2, <3>3
  <2>5. ASSUME ~short', next = 3
        PROVE  uid' = AllIds(USER1)
    <3>1. Step.op = "setuid" /\ Step.id = REAL /\ uid = RootIds(USER1)
      BY <1>6, <2>1, <2>2, <2>5 DEF TakesRootBack, Runs
    <3>2. At("setuid") /\ Id(uid) = USER1 /\ Allowed(uid, Id(uid))
      BY <1>0, <1>6, <3>1
    <3>3. uid' = SetAll(uid, Id(uid)) /\ gid' = gid
      BY <1>6, <2>1, <2>5, <3>1, <3>2, IdsStep
    <3> QED BY <3>1, <3>2, <3>3
  <2>6. ~At("work")
    BY <1>6, <2>1 DEF TakesRootBack, Runs
  <2>7. ~wrongWork'
    BY <1>6, <2>1, <2>6, IdsStep DEF TakesRootBack
  <2>8. TakesRootBack'
    BY <1>6, <2>1, <2>2, <2>3, <2>4, <2>5, <2>7 DEF TakesRootBack, Runs
  <2> QED BY <2>8 DEF IdsInv
<1>9. CASE ActsInTurn /\ IdsNext
  <2> USE DEF ActsAsUser
  <2>1. program.prog[next].tested = FALSE /\ ~left /\ next \in 1 .. 5
    BY <1>0, <1>9 DEF ActsInTurn, Runs, InTurn, WorkAs
  <2>2. next' = next + 1 /\ program' = program /\ ~left' /\ (~short' => ~short)
    BY <1>9, <2>1, IdsStep
  <2>3. ASSUME ~short', next = 1
        PROVE  uid' = ActsAsUser(USER1) /\ ~wrongWork'
    <3>1. Step.op = "seteuid" /\ Step.id = USER1 /\ uid = ActsAsUser(0) /\ ~wrongWork
      BY <1>9, <2>1, <2>2, <2>3 DEF ActsInTurn, Runs, InTurn, WorkAs
    <3>2. At("seteuid") /\ Id(uid) = USER1 /\ Allowed(uid, Id(uid))
      BY <1>0, <1>9, <3>1
    <3>3. uid' = [uid EXCEPT !.e = Id(uid)] /\ gid' = gid /\ (wrongWork' <=> wrongWork)
      BY <1>9, <2>1, <2>3, <3>1, <3>2, IdsStep
    <3> QED BY <3>1, <3>2, <3>3
  <2>4. ASSUME ~short', next = 2
        PROVE  uid' = ActsAsUser(USER1) /\ ~wrongWork'
    <3>1. Step.op = "work" /\ Step.id = USER1 /\ uid = ActsAsUser(USER1) /\ ~wrongWork
      BY <1>9, <2>1, <2>2, <2>4 DEF ActsInTurn, Runs, InTurn, WorkAs
    <3>2. At("work")
      BY <1>0, <1>9, <3>1
    <3>3. uid' = uid /\ (wrongWork' <=> wrongWork \/ uid.e # Step.id)
      BY <1>9, <2>1, <2>4, <3>2, IdsStep
    <3> QED BY <3>1, <3>3
  <2>5. ASSUME ~short', next = 3
        PROVE  uid' = ActsAsUser(USER1) /\ ~wrongWork'
    <3>1. Step.op = "seteuid" /\ Step.id = USER2 /\ uid = ActsAsUser(USER1) /\ ~wrongWork
      BY <1>9, <2>1, <2>2, <2>5 DEF ActsInTurn, Runs, InTurn, WorkAs
    <3>2. At("seteuid") /\ Id(uid) = USER2 /\ ~Allowed(uid, Id(uid))
      BY <1>0, <1>9, <3>1
    <3>3. uid' = uid /\ gid' = gid /\ (wrongWork' <=> wrongWork)
      BY <1>9, <2>1, <2>5, <3>1, <3>2, IdsStep
    <3> QED BY <3>1, <3>2, <3>3
  <2>6. ASSUME ~short', next = 4
        PROVE  uid' = ActsAsUser(USER1) /\ wrongWork'
    <3>1. Step.op = "work" /\ Step.id = USER2 /\ uid = ActsAsUser(USER1) /\ ~wrongWork
      BY <1>9, <2>1, <2>2, <2>6 DEF ActsInTurn, Runs, InTurn, WorkAs
    <3>2. At("work")
      BY <1>0, <1>9, <3>1
    <3>3. uid' = uid /\ (wrongWork' <=> wrongWork \/ uid.e # Step.id)
      BY <1>9, <2>1, <2>6, <3>2, IdsStep
    <3> QED BY <3>1, <3>3
  <2>7. ASSUME ~short', next = 5
        PROVE  uid' = ActsAsUser(0) /\ wrongWork'
    <3>1. Step.op = "seteuid" /\ Step.id = 0 /\ uid = ActsAsUser(USER1) /\ wrongWork
      BY <1>9, <2>1, <2>2, <2>7 DEF ActsInTurn, Runs, InTurn, WorkAs
    <3>2. At("seteuid") /\ Id(uid) = 0 /\ Allowed(uid, Id(uid))
      BY <1>0, <1>9, <3>1
    <3>3. uid' = [uid EXCEPT !.e = Id(uid)] /\ gid' = gid /\ (wrongWork' <=> wrongWork)
      BY <1>9, <2>1, <2>7, <3>1, <3>2, IdsStep
    <3> QED BY <3>1, <3>2, <3>3
  <2>8. ActsInTurn'
    BY <1>9, <2>1, <2>2, <2>3, <2>4, <2>5, <2>6, <2>7 DEF ActsInTurn, Runs
  <2> QED BY <2>8 DEF IdsInv
<1>10. CASE ActsFromRoot /\ IdsNext
  <2> USE DEF ActsAsUser
  <2>1. program.prog[next].tested = FALSE /\ ~left /\ next \in 1 .. 6
    BY <1>0, <1>10 DEF ActsFromRoot, Runs, FromRoot, WorkAs
  <2>2. next' = next + 1 /\ program' = program /\ ~left' /\ (~short' => ~short)
    BY <1>10, <2>1, IdsStep
  <2>3. ASSUME ~short', next = 1
        PROVE  uid' = ActsAsUser(USER1) /\ ~wrongWork'
    <3>1. Step.op = "seteuid" /\ Step.id = USER1 /\ uid = ActsAsUser(0) /\ ~wrongWork
      BY <1>10, <2>1, <2>2, <2>3 DEF ActsFromRoot, Runs, FromRoot, WorkAs
    <3>2. At("seteuid") /\ Id(uid) = USER1 /\ Allowed(uid, Id(uid))
      BY <1>0, <1>10, <3>1
    <3>3. uid' = [uid EXCEPT !.e = Id(uid)] /\ gid' = gid /\ (wrongWork' <=> wrongWork)
      BY <1>10, <2>1, <2>3, <3>1, <3>2, IdsStep
    <3> QED BY <3>1, <3>2, <3>3
  <2>4. ASSUME ~short', next = 2
        PROVE  uid' = ActsAsUser(USER1) /\ ~wrongWork'
    <3>1. Step.op = "work" /\ Step.id = USER1 /\ uid = ActsAsUser(USER1) /\ ~wrongWork
      BY <1>10, <2>1, <2>2, <2>4 DEF ActsFromRoot, Runs, FromRoot, WorkAs
    <3>2. At("work")
      BY <1>0, <1>10, <3>1
    <3>3. uid' = uid /\ (wrongWork' <=> wrongWork \/ uid.e # Step.id)
      BY <1>10, <2>1, <2>4, <3>2, IdsStep
    <3> QED BY <3>1, <3>3
  <2>5. ASSUME ~short', next = 3
        PROVE  uid' = ActsAsUser(0) /\ ~wrongWork'
    <3>1. Step.op = "seteuid" /\ Step.id = 0 /\ uid = ActsAsUser(USER1) /\ ~wrongWork
      BY <1>10, <2>1, <2>2, <2>5 DEF ActsFromRoot, Runs, FromRoot, WorkAs
    <3>2. At("seteuid") /\ Id(uid) = 0 /\ Allowed(uid, Id(uid))
      BY <1>0, <1>10, <3>1
    <3>3. uid' = [uid EXCEPT !.e = Id(uid)] /\ gid' = gid /\ (wrongWork' <=> wrongWork)
      BY <1>10, <2>1, <2>5, <3>1, <3>2, IdsStep
    <3> QED BY <3>1, <3>2, <3>3
  <2>6. ASSUME ~short', next = 4
        PROVE  uid' = ActsAsUser(USER2) /\ ~wrongWork'
    <3>1. Step.op = "seteuid" /\ Step.id = USER2 /\ uid = ActsAsUser(0) /\ ~wrongWork
      BY <1>10, <2>1, <2>2, <2>6 DEF ActsFromRoot, Runs, FromRoot, WorkAs
    <3>2. At("seteuid") /\ Id(uid) = USER2 /\ Allowed(uid, Id(uid))
      BY <1>0, <1>10, <3>1
    <3>3. uid' = [uid EXCEPT !.e = Id(uid)] /\ gid' = gid /\ (wrongWork' <=> wrongWork)
      BY <1>10, <2>1, <2>6, <3>1, <3>2, IdsStep
    <3> QED BY <3>1, <3>2, <3>3
  <2>7. ASSUME ~short', next = 5
        PROVE  uid' = ActsAsUser(USER2) /\ ~wrongWork'
    <3>1. Step.op = "work" /\ Step.id = USER2 /\ uid = ActsAsUser(USER2) /\ ~wrongWork
      BY <1>10, <2>1, <2>2, <2>7 DEF ActsFromRoot, Runs, FromRoot, WorkAs
    <3>2. At("work")
      BY <1>0, <1>10, <3>1
    <3>3. uid' = uid /\ (wrongWork' <=> wrongWork \/ uid.e # Step.id)
      BY <1>10, <2>1, <2>7, <3>2, IdsStep
    <3> QED BY <3>1, <3>3
  <2>8. ASSUME ~short', next = 6
        PROVE  uid' = ActsAsUser(0) /\ ~wrongWork'
    <3>1. Step.op = "seteuid" /\ Step.id = 0 /\ uid = ActsAsUser(USER2) /\ ~wrongWork
      BY <1>10, <2>1, <2>2, <2>8 DEF ActsFromRoot, Runs, FromRoot, WorkAs
    <3>2. At("seteuid") /\ Id(uid) = 0 /\ Allowed(uid, Id(uid))
      BY <1>0, <1>10, <3>1
    <3>3. uid' = [uid EXCEPT !.e = Id(uid)] /\ gid' = gid /\ (wrongWork' <=> wrongWork)
      BY <1>10, <2>1, <2>8, <3>1, <3>2, IdsStep
    <3> QED BY <3>1, <3>2, <3>3
  <2>9. ActsFromRoot'
    BY <1>10, <2>1, <2>2, <2>3, <2>4, <2>5, <2>6, <2>7, <2>8 DEF ActsFromRoot, Runs
  <2> QED BY <2>9 DEF IdsInv
<1>7. CASE DropsUnchecked /\ IdsNext
  <2> USE DEF DropsUnchecked, Dropped, Tested, IdsNext, SetUid, SetEuid, SetGid, Refused, Work,
              Forward, Permitted
  <2>0. Refused => (short' <=> short \/ (~Step.tested /\ Permitted)) /\ (left' <=> Step.tested)
    BY Zenon DEF Refused
  <2>1. DropsUnchecked'
    <3>1. CASE program.prog = << Uid(REAL) >>
      <4>1. next = 1 /\ ~Step.tested /\ Step.op = Uid(REAL).op /\ Step.id = REAL /\ program.label = "ruleid"
        BY <1>7, <3>1
      <4>2. CASE Refused
        BY <1>7, <2>0, <4>1, <4>2
      <4>3. CASE ~Refused
        BY <1>7, <4>1, <4>3
      <4> QED BY <4>2, <4>3
    <3>2. CASE program.prog = << Tested(Uid(REAL)) >>
      BY <1>7, <2>0, <3>2
    <3>3. CASE program.prog = << Euid(REAL) >>
      <4>1. next = 1 /\ ~Step.tested /\ Step.op = Euid(REAL).op /\ Step.id = REAL /\ program.label = "ruleid"
        BY <1>7, <3>3
      <4>2. CASE Refused
        BY <1>7, <2>0, <4>1, <4>2
      <4>3. CASE ~Refused
        BY <1>7, <4>1, <4>3
      <4> QED BY <4>2, <4>3
    <3>4. CASE program.prog = << Tested(Euid(REAL)) >>
      BY <1>7, <2>0, <3>4
    <3> QED BY <1>7, <3>1, <3>2, <3>3, <3>4
  <2> QED BY <2>1 DEF IdsInv
<1>8. CASE UNCHANGED idVars
  BY <1>8 DEF idVars, IdsInv, DropsUidFirst, DropsGidFirst, DropsUidOnly, DropsGidOnly,
              DropsEuidFirst, TakesRootBack, ActsInTurn, ActsFromRoot, ActsAsUser, DropsUnchecked, Runs
<1> QED BY <1>1, <1>2, <1>3, <1>4, <1>5, <1>6, <1>7, <1>8, <1>9, <1>10 DEF IdsInv

(* Whoever runs the programs: the orders called ok keep root only after a call
   that was permitted failed unseen; the reported ones keep it, or work as the
   wrong user, also when no such call failed. *)
THEOREM PackOrderDecidesRoot == PackSpec => []OrderDecidesRoot
<1> DEFINE Inv == machine = "ids" => IdsInv
<1>1. PackInit => Inv
  BY IdsInitInv DEF PackInit
<1>2. Inv /\ [PackNext]_packVars => Inv'
  <2>1. SUFFICES ASSUME machine = "ids", IdsInv, [PackNext]_packVars PROVE IdsInv'
    BY DEF PackNext, packVars
  <2>2. [IdsNext]_idVars
    BY <2>1 DEF PackNext, packVars
  <2> QED BY <2>1, <2>2, IdsNextInv
<1>3. Inv => OrderDecidesRoot
  <2>1. SUFFICES ASSUME IdsInv, Finished PROVE OkGivesUpRoot /\ ReportedKeepsRoot
    BY DEF OrderDecidesRoot, OkGivesUpRoot, ReportedKeepsRoot
  <2> USE DEF Finished, RootIds, AllIds, Effective, Runs, OkGivesUpRoot, ReportedKeepsRoot, Misled, Kept0
  <2>2. CASE DropsUidFirst
    <3>1. /\ program.label = "ruleid" /\ program.rule = "order" /\ "gid" \in program.wants
          /\ (~short => gid.s = 0) /\ ~left
      BY <2>1, <2>2 DEF DropsUidFirst
    <3> QED BY <3>1
  <2>3. CASE DropsGidFirst
    <3>1. /\ program.label = "ok" /\ "euid" \notin program.wants /\ ~wrongWork
          /\ ~short => uid = AllIds(USER1) /\ gid = AllIds(USER1)
      BY <2>1, <2>3 DEF DropsGidFirst
    <3> QED BY <3>1, UsersAssumption
  <2>4. CASE DropsUidOnly
    <3>1. /\ program.rule = "order" /\ Len(program.prog) = 1 /\ program.wants = {"uid"}
          /\ program.label \in {"ok", "ruleid"} /\ ~wrongWork /\ (~short => uid = AllIds(USER1))
      BY <2>1, <2>4 DEF DropsUidOnly
    <3> QED BY <3>1, UsersAssumption
  <2>10. CASE DropsGidOnly
    <3>1. /\ program.rule = "order" /\ Len(program.prog) = 1 /\ program.wants = {"gid"}
          /\ program.label \in {"ok", "ruleid"} /\ ~wrongWork /\ (~short => gid = AllIds(USER1))
      BY <2>1, <2>10 DEF DropsGidOnly
    <3> QED BY <3>1, UsersAssumption
  <2>5. CASE DropsEuidFirst
    <3>1. /\ program.label = "ruleid" /\ program.rule = "order" /\ "uid" \in program.wants
          /\ (~short => uid.s = 0) /\ ~left
      BY <2>1, <2>5 DEF DropsEuidFirst
    <3> QED BY <3>1
  <2>6. CASE TakesRootBack
    <3>1. /\ program.label = "ok" /\ program.wants = {"uid"} /\ ~wrongWork
          /\ ~short => uid = AllIds(USER1)
      BY <2>1, <2>6 DEF TakesRootBack
    <3> QED BY <3>1, UsersAssumption
  <2>7. CASE ActsInTurn
    <3>1. program.rule = "order" /\ ~left /\ program.label = "ruleid" /\ (~short => wrongWork)
      BY <2>1, <2>7 DEF ActsInTurn
    <3> QED BY <3>1
  <2>9. CASE ActsFromRoot
    <3>1. program.wants = {} /\ program.label = "ok" /\ (~short => ~wrongWork)
      BY <2>1, <2>9 DEF ActsFromRoot
    <3> QED BY <3>1
  <2>8. CASE DropsUnchecked
    <3>1. /\ next = 2 /\ program.rule = "unchecked" /\ ~wrongWork
          /\ program.wants \in {{"uid"}, {"euid"}} /\ program.label \in {"ok", "ruleid"}
      BY <2>1, <2>8 DEF DropsUnchecked
    <3>2. CASE program.label = "ruleid"
      <4>1. /\ ~left
            /\ \/ uid = RootIds(USER1) /\ short
               \/ uid = Dropped(program.wants) /\ ~short
        BY <2>8, <3>1, <3>2 DEF DropsUnchecked
      <4> QED BY <3>1, <3>2, <4>1, UsersAssumption DEF Dropped
    <3>3. CASE program.label = "ok"
      <4>1. left \/ uid = Dropped(program.wants)
        BY <2>8, <3>1, <3>3 DEF DropsUnchecked
      <4> QED BY <3>1, <3>3, <4>1, UsersAssumption DEF Dropped
    <3> QED BY <3>1, <3>2, <3>3
  <2> QED BY <2>1, <2>2, <2>3, <2>4, <2>5, <2>6, <2>7, <2>8, <2>9, <2>10 DEF IdsInv
<1> QED BY <1>1, <1>2, <1>3, PTL DEF PackSpec
=============================================================================
