----------------------------- MODULE ShellProofs -----------------------------
(***************************************************************************)
(* The history keeps its invariants and its promise, the shell implements   *)
(* the history, and the shell's own safety properties, for every ring,      *)
(* buffer, line set, heap and input length.                                 *)
(***************************************************************************)
EXTENDS Shell, Lemmas, TLAPS

-----------------------------------------------------------------------------
(* The history: HistoryRing                                                 *)

(* Before history_init nothing has been recorded. *)
StartsEmpty == phase = "start" => log = << >>

(* The inductive invariant.  No part is inductive alone: that last_command is
   the previous command needs the ring's content, which needs that no two slots
   share a block, which needs that exactly the live blocks are owned. *)
RingInv == /\ RingTypeOK
           /\ StartsEmpty
           /\ Ownership
           /\ NoResidue
           /\ UsedIffHeld
           /\ RingHoldsLatest
           /\ LastCommandIsPrevious

(* The sizes, in the form the steps below use. *)
LEMMA SizesFacts ==
    /\ HISTORY_SLOTS \in Nat \ {0}
    /\ HISTORY_SIZE \in Nat /\ HISTORY_SIZE >= 2
    /\ Slot = 0 .. HISTORY_SLOTS - 1
    /\ 0 \in Slot
  BY SizesAssumption DEF Slot

(* The modular facts at the ring's size. *)
LEMMA RingMod ==
    /\ \A x \in Nat \ {0} :
          ((x % HISTORY_SLOTS) + HISTORY_SLOTS - 1) % HISTORY_SLOTS = (x - 1) % HISTORY_SLOTS
    /\ \A x \in Nat : ((x % HISTORY_SLOTS) + 1) % HISTORY_SLOTS = (x + 1) % HISTORY_SLOTS
    /\ \A x, y \in Nat : x < y /\ y < x + HISTORY_SLOTS
                          => x % HISTORY_SLOTS # y % HISTORY_SLOTS
    /\ \A x \in Nat : x % HISTORY_SLOTS \in Slot
    /\ \A x \in Slot : x % HISTORY_SLOTS = x
<1>1. HISTORY_SLOTS \in Nat \ {0}
  BY SizesFacts
<1>2. ASSUME NEW x \in Nat \ {0}
      PROVE  ((x % HISTORY_SLOTS) + HISTORY_SLOTS - 1) % HISTORY_SLOTS = (x - 1) % HISTORY_SLOTS
  BY <1>1, ModPrevious
<1>3. ASSUME NEW x \in Nat
      PROVE  ((x % HISTORY_SLOTS) + 1) % HISTORY_SLOTS = (x + 1) % HISTORY_SLOTS
  BY <1>1, ModNext
<1>4. ASSUME NEW x \in Nat, NEW y \in Nat, x < y, y < x + HISTORY_SLOTS
      PROVE  x % HISTORY_SLOTS # y % HISTORY_SLOTS
  BY <1>1, <1>4, ModApart
<1>5. ASSUME NEW x \in Nat PROVE x % HISTORY_SLOTS \in Slot
  BY <1>1, DivMod, SizesFacts
<1>6. ASSUME NEW x \in Slot PROVE x % HISTORY_SLOTS = x
  BY <1>1, ModSmall, SizesFacts
<1> QED BY <1>2, <1>3, <1>4, <1>5, <1>6

(* snprintf keeps a text a text, and FullText makes one of a line. *)
LEMMA SnprintfType ==
    ASSUME NEW l \in Line
    PROVE  /\ FullText(l) \in Text
           /\ Snprintf(HISTORY_SIZE, FullText(l)) \in Text
<1>1. StrLen[l] \in Nat
  BY LineAssumption
<1> QED BY <1>1, SizesFacts DEF FullText, Snprintf, Text

(* While the process runs, a slot that is not NULL holds a line. *)
LEMMA HeldIsLine ==
    ASSUME RingTypeOK, Ownership, NoResidue, phase \in {"start", "running", "failed"},
           NEW s \in Slot, history[s] # NULL
    PROVE  /\ history[s] \in Addr
           /\ heap[history[s]].live
           /\ heap[history[s]].holds \in Line
<1>1. history[s] \in Addr
  BY DEF RingTypeOK
<1>2. heap[history[s]].live
  BY DEF Ownership, Held
<1> QED BY <1>1, <1>2 DEF NoResidue, RingTypeOK

(* The static initial values satisfy the invariant. *)
LEMMA InitInv == RingInit => RingInv
<1> SUFFICES ASSUME RingInit PROVE RingInv
  OBVIOUS
<1> USE DEF RingInit
<1>1. RingTypeOK
  BY SizesFacts DEF RingTypeOK, Answer, Say
<1>2. Ownership
  BY DEF Ownership, Held
<1>3. StartsEmpty /\ NoResidue /\ UsedIffHeld /\ RingHoldsLatest /\ LastCommandIsPrevious
  BY SizesFacts, ModSmall DEF StartsEmpty, NoResidue, UsedIffHeld, RingHoldsLatest, LastCommandIsPrevious
<1> QED BY <1>1, <1>2, <1>3 DEF RingInv

(* history_init: the zeroed flags agree with the empty ring. *)
LEMMA HistoryInitInv == RingInv /\ HistoryInit => RingInv'
<1> SUFFICES ASSUME RingInv, HistoryInit PROVE RingInv'
  OBVIOUS
<1> USE DEF RingInv, HistoryInit
<1>1. RingTypeOK'
  BY DEF RingTypeOK
<1>2. StartsEmpty' /\ NoResidue' /\ RingHoldsLatest' /\ LastCommandIsPrevious'
  BY DEF StartsEmpty, NoResidue, RingHoldsLatest, LastCommandIsPrevious
<1>3. Ownership'
  BY DEF Ownership, Held
<1>4. \A s \in Slot : history[s] = NULL
  BY SizesFacts DEF StartsEmpty, RingHoldsLatest
<1>5. UsedIffHeld'
  BY <1>4, SizesFacts DEF UsedIffHeld, RingTypeOK
<1> QED BY <1>1, <1>2, <1>3, <1>5 DEF RingInv

(* record_history computes the slot of the previous command, and last_command
   becomes the latest command before the new one. *)
LEMMA CopyPreviousFacts ==
    ASSUME RingInv, phase = "running", CopyPrevious
    PROVE  last_command' = IF Len(log) < 1 THEN NoText
                           ELSE Snprintf(HISTORY_SIZE, FullText(log[Len(log)]))
<1> USE DEF RingInv
<1>1. Len(log) \in Nat
  BY DEF RingTypeOK
<1>2. history_next = Len(log) % HISTORY_SLOTS
  BY DEF RingHoldsLatest
<1>3. CASE Len(log) = 0
  <2>1. PreviousSlot \in Slot
    <3>1. history_next + HISTORY_SLOTS - 1 \in Nat
      BY SizesFacts DEF RingTypeOK
    <3> QED BY <3>1, RingMod DEF PreviousSlot
  <2>2. history[PreviousSlot] = NULL
    BY <1>3, <2>1, SizesFacts DEF RingHoldsLatest
  <2> QED BY <1>3, <2>2 DEF CopyPrevious, LastCommandIsPrevious
<1>4. CASE Len(log) > 0
  <2>1. PreviousSlot = (Len(log) - 1) % HISTORY_SLOTS
    BY <1>1, <1>2, <1>4, RingMod DEF PreviousSlot
  <2>2. history[PreviousSlot] # NULL /\ heap[history[PreviousSlot]].holds = log[Len(log)]
    BY <1>1, <1>4, <2>1, SizesFacts DEF RingHoldsLatest
  <2> QED BY <1>1, <1>4, <2>2 DEF CopyPrevious
<1> QED BY <1>1, <1>3, <1>4

(* What wipe_and_free does to the heap: the slot's old block, and no other, is
   free and empty. *)
LEMMA WipeFacts ==
    ASSUME RingInv, NEW p \in Addr \cup {NULL}
    PROVE  LET freed == WipeAndFree(heap, p)
           IN  /\ freed \in [Addr -> [live: BOOLEAN, holds: Line \cup {NoText}]]
               /\ \A a \in Addr : freed[a].live <=> freed[a].holds # NoText
               /\ \A a \in Addr : freed[a].live <=> heap[a].live /\ a # p
               /\ \A a \in Addr : a # p => freed[a] = heap[a]
  BY DEF RingInv, RingTypeOK, NoResidue, WipeAndFree

(* record_history preserves the invariant.  The ring part rests on the slot of
   the new command being none of those of the HISTORY_SLOTS - 1 commands before
   it; last_command on the slot before history_next being the latest one's. *)
LEMMA RecordHistoryInv ==
    ASSUME RingInv, NEW l \in Line, RecordHistory(l)
    PROVE  RingInv'
<1> DEFINE n == Len(log)
<1> DEFINE old == history[history_next]
<1> DEFINE freed == WipeAndFree(heap, old)
<1>0. /\ phase = "running" /\ CopyPrevious /\ UNCHANGED << out, asked >>
      /\ RingTypeOK /\ Ownership /\ NoResidue /\ UsedIffHeld /\ RingHoldsLatest
      /\ LastCommandIsPrevious
  BY DEF RecordHistory, RingInv
<1>1. /\ n \in Nat /\ log \in Seq(Line) /\ history_next \in Slot
      /\ old \in Addr \cup {NULL} /\ history \in [Slot -> Addr \cup {NULL}]
  BY <1>0 DEF RingTypeOK
<1>2. /\ freed \in [Addr -> [live: BOOLEAN, holds: Line \cup {NoText}]]
      /\ \A a \in Addr : freed[a].live <=> freed[a].holds # NoText
      /\ \A a \in Addr : freed[a].live <=> heap[a].live /\ a # old
      /\ \A a \in Addr : a # old => freed[a] = heap[a]
  BY <1>1, WipeFacts
<1>3. last_command' = IF n < 1 THEN NoText ELSE Snprintf(HISTORY_SIZE, FullText(log[n]))
  BY <1>0, CopyPreviousFacts
<1>4. last_command' \in Text \cup {NoText}
  BY <1>1, <1>3, SnprintfType
<1>5. /\ \A s \in Slot : history[s] # NULL => history[s] \in Addr /\ heap[history[s]].live
      /\ \A s, t \in Slot : history[s] # NULL /\ history[s] = history[t] => s = t
      /\ \A a \in Addr : heap[a].live => \E s \in Slot : history[s] = a
  BY <1>0, <1>1 DEF Ownership, Held
<1>6. CASE /\ heap' = freed
           /\ history' = [history EXCEPT ![history_next] = NULL]
           /\ phase' = "failed"
           /\ UNCHANGED << slot_used, history_next, log >>
  <2>1. RingTypeOK'
    BY <1>0, <1>1, <1>2, <1>4, <1>6 DEF RingTypeOK
  <2>2. Ownership'
    <3>1. \A s \in Slot : history'[s] = IF s = history_next THEN NULL ELSE history[s]
      BY <1>1, <1>6
    <3>2. \A s \in Slot : history'[s] # NULL => heap'[history'[s]].live
      BY <1>1, <1>2, <1>5, <1>6, <3>1
    <3>3. \A s, t \in Slot : history'[s] # NULL /\ history'[s] = history'[t] => s = t
      BY <1>5, <3>1
    <3>4. \A a \in Addr : heap'[a].live => \E s \in Slot : history'[s] = a
      BY <1>1, <1>2, <1>5, <1>6, <3>1
    <3>5. \A a \in Addr : a # NULL
      BY AddrAssumption
    <3> QED BY <1>6, <3>2, <3>3, <3>4, <3>5 DEF Ownership, Held
  <2>3. NoResidue' /\ StartsEmpty' /\ UsedIffHeld' /\ RingHoldsLatest' /\ LastCommandIsPrevious'
    BY <1>2, <1>6 DEF NoResidue, StartsEmpty, UsedIffHeld, RingHoldsLatest, LastCommandIsPrevious
  <2> QED BY <2>1, <2>2, <2>3 DEF RingInv
<1>7. ASSUME NEW a \in Addr, ~freed[a].live,
             heap' = [freed EXCEPT ![a] = [live |-> TRUE, holds |-> l]],
             history' = [history EXCEPT ![history_next] = a],
             slot_used' = [slot_used EXCEPT ![history_next] = 1],
             history_next' = (history_next + 1) % HISTORY_SLOTS,
             log' = Append(log, l),
             UNCHANGED phase
      PROVE  RingInv'
  <2>1. \A s \in Slot : history'[s] = IF s = history_next THEN a ELSE history[s]
    BY <1>1, <1>7
  <2>2. \A b \in Addr : heap'[b] = IF b = a THEN [live |-> TRUE, holds |-> l] ELSE freed[b]
    BY <1>2, <1>7
  <2>3. \A s \in Slot : s # history_next /\ history[s] # NULL =>
          history[s] \in Addr /\ history[s] # a /\ heap'[history[s]] = heap[history[s]]
    <3>1. \A s \in Slot : s # history_next /\ history[s] # NULL => history[s] # old
      BY <1>1, <1>5
    <3> QED BY <1>2, <1>5, <1>7, <2>2, <3>1
  <2>4. Len(log') = n + 1 /\ log'[n + 1] = l /\ \A k \in 1 .. n : log'[k] = log[k]
    BY <1>1, <1>7
  <2>5. history_next = n % HISTORY_SLOTS /\ history_next' = (n + 1) % HISTORY_SLOTS
    BY <1>0, <1>1, <1>7, RingMod DEF RingHoldsLatest
  <2>6. RingTypeOK'
    <3>1. heap' \in [Addr -> [live: BOOLEAN, holds: Line \cup {NoText}]]
      BY <1>2, <1>7
    <3>2. history' \in [Slot -> Addr \cup {NULL}] /\ log' \in Seq(Line)
      BY <1>1, <1>7
    <3>3. slot_used' \in [Slot -> {0, 1}]
      BY <1>0, <1>7 DEF UsedIffHeld
    <3>4. history_next' \in Slot
      BY <1>1, <2>5, RingMod
    <3> QED BY <1>0, <1>4, <1>7, <3>1, <3>2, <3>3, <3>4 DEF RingTypeOK
  <2>7. Ownership'
    <3>1. \A s \in Slot : history'[s] # NULL => heap'[history'[s]].live
      BY <1>5, <2>1, <2>2, <2>3
    <3>2. \A s, t \in Slot : history'[s] # NULL /\ history'[s] = history'[t] => s = t
      BY <1>5, <2>1, <2>3
    <3>3. \A b \in Addr : heap'[b].live => \E s \in Slot : history'[s] = b
      BY <1>1, <1>2, <1>5, <2>1, <2>2
    <3>4. \A b \in Addr : b # NULL
      BY AddrAssumption
    <3> QED BY <1>0, <1>7, <3>1, <3>2, <3>3, <3>4 DEF Ownership, Held
  <2>8. NoResidue'
    <3>1. l # NoText
      BY NoTextAssumption
    <3> QED BY <1>0, <1>2, <1>7, <2>2, <3>1 DEF NoResidue
  <2>9. UsedIffHeld'
    <3>1. a # NULL
      BY AddrAssumption
    <3> QED BY <1>0, <1>1, <1>7, <2>1, <3>1 DEF UsedIffHeld
  <2>10. RingHoldsLatest'
    <3>1. ASSUME NEW k \in 1 .. Len(log'), k > Len(log') - HISTORY_SLOTS
          PROVE  /\ history'[(k - 1) % HISTORY_SLOTS] # NULL
                 /\ heap'[history'[(k - 1) % HISTORY_SLOTS]].holds = log'[k]
      <4>0. k \in 1 .. n + 1 /\ k > n + 1 - HISTORY_SLOTS
        BY <1>1, <2>4, <3>1, SizesFacts
      <4>1. CASE k = n + 1
        <5>1. history'[(k - 1) % HISTORY_SLOTS] = a
          BY <1>1, <2>1, <2>5, <4>1
        <5> QED BY <2>2, <2>4, <4>1, <5>1, AddrAssumption
      <4>2. CASE k \in 1 .. n
        <5> DEFINE s == (k - 1) % HISTORY_SLOTS
        <5>1. s \in Slot
          BY <4>2, RingMod
        <5>2. s # history_next
          <6>1. k - 1 \in Nat /\ k - 1 < n /\ n < (k - 1) + HISTORY_SLOTS
            BY <1>1, <4>0, <4>2, SizesFacts
          <6> HIDE DEF n
          <6> QED BY <1>1, <2>5, <6>1, RingMod
        <5>3. history[s] # NULL /\ heap[history[s]].holds = log[k]
          BY <1>0, <1>1, <4>0, <4>2, SizesFacts DEF RingHoldsLatest
        <5> HIDE DEF s
        <5>4. history'[s] # NULL /\ heap'[history'[s]].holds = log'[k]
          BY <2>1, <2>3, <2>4, <4>2, <5>1, <5>2, <5>3
        <5> QED BY <5>4 DEF s
      <4> QED BY <1>1, <4>0, <4>1, <4>2
    <3>2. ASSUME NEW s \in Slot, s >= n + 1
          PROVE  history'[s] = NULL
      <4>1. n \in Slot
        BY <1>1, <3>2, SizesFacts
      <4>2. s # history_next
        BY <1>1, <2>5, <3>2, <4>1, RingMod, SizesFacts
      <4>3. history[s] = NULL
        BY <1>0, <1>1, <3>2, SizesFacts DEF RingHoldsLatest
      <4> QED BY <2>1, <4>2, <4>3
    <3>3. Len(log)' = n + 1 /\ history_next' = Len(log)' % HISTORY_SLOTS
      BY <2>4, <2>5
    <3>4. \A k \in 1 .. Len(log)' : k > Len(log)' - HISTORY_SLOTS =>
             /\ history'[(k - 1) % HISTORY_SLOTS] # NULL
             /\ heap'[history'[(k - 1) % HISTORY_SLOTS]].holds = log'[k]
      BY <3>1
    <3>5. \A s \in Slot : s >= Len(log)' => history'[s] = NULL
      BY <3>2, <3>3
    <3> QED BY <3>3, <3>4, <3>5, Zenon DEF RingHoldsLatest
  <2>11. LastCommandIsPrevious'
    BY <1>1, <1>3, <2>4 DEF LastCommandIsPrevious
  <2>12. StartsEmpty'
    BY <1>0, <1>7 DEF StartsEmpty
  <2> QED BY <2>6, <2>7, <2>8, <2>9, <2>10, <2>11, <2>12 DEF RingInv
<1> QED BY <1>6, <1>7 DEF RecordHistory, NextSlot

(* What recall_slot prints is an answer. *)
LEMMA RecallSlotType ==
    ASSUME RingInv, phase = "running", NEW n \in Int
    PROVE  RecallSlot(n) \in Answer
<1>1. CASE n < 0 \/ n >= HISTORY_SLOTS
  BY <1>1 DEF RecallSlot, Say, Answer
<1>2. CASE n \in Slot
  <2>1. CASE slot_used[n] = 0 \/ history[n] = NULL
    BY <1>2, <2>1, SizesFacts DEF RecallSlot, Say, Answer
  <2>2. CASE ~(slot_used[n] = 0 \/ history[n] = NULL)
    <3>1. heap[history[n]].holds \in Line
      BY <1>2, <2>2, HeldIsLine DEF RingInv
    <3>2. FullText(heap[history[n]].holds) \in Text
      BY <3>1, SnprintfType
    <3> QED BY <1>2, <2>2, <3>2, SizesFacts DEF RecallSlot, SayText, Answer
  <2> QED BY <2>1, <2>2
<1> QED BY <1>1, <1>2, SizesFacts

(* parse_int yields an integer. *)
LEMMA ParseIntType ==
    ASSUME NEW w \in Word
    PROVE  ParseInt(w).out \in Int
<1>1. StrToL(w).value \in Int
  BY WidthAssumption DEF StrToL, Word
<1>2. ASSUME NEW v \in Int PROVE IntCast(v) \in Int
  <2>1. INT_MAX - INT_MIN + 1 \in Nat \ {0}
    BY WidthAssumption, SizesFacts
  <2>2. v - INT_MIN \in Int /\ INT_MIN \in Int
    BY WidthAssumption
  <2>3. (v - INT_MIN) % (INT_MAX - INT_MIN + 1) \in Int
    BY <2>1, <2>2, DivMod
  <2> QED BY <2>2, <2>3 DEF IntCast
<1> QED BY <1>1, <1>2 DEF ParseInt

(* show_history only prints. *)
LEMMA ShowHistoryInv == RingInv /\ ShowHistory => RingInv'
<1> SUFFICES ASSUME RingInv, ShowHistory PROVE RingInv'
  OBVIOUS
<1>1. UNCHANGED << heap, history, slot_used, history_next, last_command, phase, log >>
      /\ out' \in Answer /\ asked' \in Seq(Word)
  BY DEF ShowHistory, SayText, Answer, RingInv, RingTypeOK
<1> QED BY <1>1 DEF RingInv, RingTypeOK, StartsEmpty, Ownership, Held, NoResidue, UsedIffHeld,
                    RingHoldsLatest, LastCommandIsPrevious

(* The recall builtin only prints. *)
LEMMA RecallInv ==
    ASSUME RingInv, NEW l \in Line, Recall(Words[l])
    PROVE  RingInv'
<1>1. Words[l] \in Seq(Word)
  BY LineAssumption
<1>2. out' \in Answer
  <2>1. CASE Len(Words[l]) < 2
    BY <2>1, RecallSlotType DEF Recall
  <2>2. CASE Len(Words[l]) >= 2
    <3>1. Words[l][2] \in Word
      BY <1>1, <2>2
    <3>2. RecallSlot(ParseInt(Words[l][2]).out) \in Answer /\ Say("number") \in Answer
      BY <3>1, ParseIntType, RecallSlotType DEF Recall, Say, Answer
    <3> QED BY <1>1, <2>2, <3>2 DEF Recall
  <2> QED BY <1>1, <2>1, <2>2
<1>3. /\ UNCHANGED << heap, history, slot_used, history_next, last_command, phase, log >>
      /\ asked' \in Seq(Word)
  BY <1>1 DEF Recall
<1> QED BY <1>2, <1>3 DEF RingInv, RingTypeOK, StartsEmpty, Ownership, Held, NoResidue, UsedIffHeld,
                    RingHoldsLatest, LastCommandIsPrevious

(* The end of main frees every block that is left, each once. *)
LEMMA ReleaseAllInv == RingInv /\ ReleaseAll => RingInv'
<1> SUFFICES ASSUME RingInv, ReleaseAll PROVE RingInv'
  OBVIOUS
<1>1. \A a \in Addr : heap'[a] = IF \E s \in Slot : history[s] = a
                                 THEN [live |-> FALSE, holds |-> NoText] ELSE heap[a]
  BY DEF ReleaseAll, WipeAndFree
<1>2. \A a \in Addr : heap'[a].live = FALSE /\ heap'[a].holds = NoText
  BY <1>1 DEF RingInv, RingTypeOK, Ownership, Held, NoResidue, ReleaseAll
<1>3. RingTypeOK'
  BY DEF ReleaseAll, WipeAndFree, RingInv, RingTypeOK
<1> QED BY <1>2, <1>3 DEF ReleaseAll, RingInv, StartsEmpty, Ownership, NoResidue, UsedIffHeld,
                          RingHoldsLatest, LastCommandIsPrevious

(* Every step of the history keeps the invariant. *)
LEMMA NextInv == RingInv /\ [RingNext]_ringVars => RingInv'
<1> SUFFICES ASSUME RingInv, [RingNext]_ringVars PROVE RingInv'
  OBVIOUS
<1>1. CASE UNCHANGED ringVars
  BY <1>1 DEF ringVars, RingInv, RingTypeOK, StartsEmpty, Ownership, Held, NoResidue, UsedIffHeld,
              RingHoldsLatest, LastCommandIsPrevious
<1>2. CASE RingNext
  BY <1>2, HistoryInitInv, RecordHistoryInv, ShowHistoryInv, RecallInv, ReleaseAllInv DEF RingNext
<1> QED BY <1>1, <1>2

(* The invariant holds in every state the history functions can reach. *)
THEOREM RingInvariant == RingSpec => []RingInv
  BY InitInv, NextInv, PTL DEF RingSpec

(* The variables of the history keep their types; in particular history_next
   always names a slot and every printed answer is one of the five. *)
THEOREM RingTypeCorrect == RingSpec => []RingTypeOK
  BY RingInvariant, PTL DEF RingInv

(* record_history and the end of main neither leak, nor free twice, nor leave a
   slot pointing to freed memory. *)
THEOREM OwnershipAlways == RingSpec => []Ownership
  BY RingInvariant, PTL DEF RingInv

(* wipe_and_free leaves no typed text in freed memory. *)
THEOREM NoResidueAlways == RingSpec => []NoResidue
  BY RingInvariant, PTL DEF RingInv

(* The flags recall_slot reads always agree with the pointers. *)
THEOREM UsedIffHeldAlways == RingSpec => []UsedIffHeld
  BY RingInvariant, PTL DEF RingInv

(* However often the ring wraps, it holds exactly the last HISTORY_SLOTS
   commands, each in the slot of its turn. *)
THEOREM RingHoldsLatestAlways == RingSpec => []RingHoldsLatest
  BY RingInvariant, PTL DEF RingInv

(* What "history" prints is the command before the current one, cut to the
   buffer. *)
THEOREM LastCommandAlways == RingSpec => []LastCommandIsPrevious
  BY RingInvariant, PTL DEF RingInv

(* parse_int accepts exactly the numerals that fit an int, and yields their
   value: the conversion to int never cuts one. *)
LEMMA ParseIntIsNumeral ==
    ASSUME NEW w \in Word
    PROVE  /\ ParseInt(w).ok <=> Session!Numeral(w)
           /\ ParseInt(w).ok => ParseInt(w).out = w.value /\ w.value \in Int
<1> USE WidthAssumption DEF Word
<1>1. ParseInt(w).ok <=> Session!Numeral(w)
  <2>1. CASE ~w.digits
    BY <2>1 DEF ParseInt, StrToL, Session!Numeral
  <2>2. CASE w.digits /\ (w.value < LONG_MIN \/ w.value > LONG_MAX)
    <3>1. StrToL(w).erange
      BY <2>2 DEF StrToL
    <3>2. ~ParseInt(w).ok
      BY <3>1 DEF ParseInt
    <3>3. w.value \notin INT_MIN .. INT_MAX
      BY <2>2
    <3> QED BY <3>2, <3>3 DEF Session!Numeral
  <2>3. CASE w.digits /\ ~(w.value < LONG_MIN \/ w.value > LONG_MAX)
    <3>1. /\ StrToL(w).value = w.value /\ ~StrToL(w).erange /\ ~StrToL(w).none
          /\ StrToL(w).rest <=> w.junk
      BY <2>3 DEF StrToL
    <3>2. ParseInt(w).ok <=> ~(w.junk \/ w.value < INT_MIN \/ w.value > INT_MAX)
      BY <3>1 DEF ParseInt
    <3>3. w.value \in Int
      OBVIOUS
    <3>4. w.value \in INT_MIN .. INT_MAX <=> ~(w.value < INT_MIN \/ w.value > INT_MAX)
      BY <3>3
    <3> QED BY <2>3, <3>2, <3>4 DEF Session!Numeral
  <2> QED BY <2>1, <2>2, <2>3
<1>2. ASSUME Session!Numeral(w) PROVE ParseInt(w).out = w.value
  <2>1. StrToL(w).value = w.value
    BY <1>2 DEF StrToL, Session!Numeral
  <2> DEFINE W == INT_MAX - INT_MIN + 1
  <2>2. W \in Nat \ {0} /\ w.value - INT_MIN \in 0 .. W - 1
    BY <1>2, SizesFacts DEF Session!Numeral
  <2> HIDE DEF W
  <2>3. (w.value - INT_MIN) % W = w.value - INT_MIN
    BY <2>2, ModSmall
  <2>4. IntCast(w.value) = w.value
    BY <2>3 DEF IntCast, W
  <2> QED BY <2>1, <2>4 DEF ParseInt
<1> QED BY <1>1, <1>2

(* Among the last HISTORY_SLOTS turns there is one for each slot already
   written. *)
LEMMA SlotHasTurn ==
    ASSUME NEW L \in Nat, NEW n \in Slot, n < L
    PROVE  \E k \in 1 .. L : k > L - HISTORY_SLOTS /\ (k - 1) % HISTORY_SLOTS = n
<1> DEFINE S == HISTORY_SLOTS
<1> DEFINE q == (L - 1 - n) \div S
<1> DEFINE r == (L - 1 - n) % S
<1>1. S \in Nat \ {0} /\ L - 1 - n \in Int /\ n \in 0 .. S - 1 /\ L - 1 - n >= 0
  BY SizesFacts
<1>2. q \in Int /\ r \in 0 .. S - 1 /\ L - 1 - n = S * q + r
  BY <1>1, DivMod
<1> HIDE DEF S, q, r
<1>3. q >= 0
  <2>1. SUFFICES ASSUME q <= -1 PROVE FALSE
    BY <1>2
  <2>2. S * (-q - 1) >= 0
    BY <1>1, <1>2, <2>1
  <2>3. S * q = -(S * (-q - 1)) - S
    BY <1>1, <1>2
  <2> QED BY <1>1, <1>2, <2>2, <2>3
<1>4. S * q \in Nat
  BY <1>1, <1>2, <1>3
<1>5. (S * q + n) % S = n
  BY <1>1, <1>2, <1>4, ModUnique
<1> DEFINE k == S * q + n + 1
<1>6. k \in 1 .. L /\ k > L - S /\ k - 1 = S * q + n
  BY <1>1, <1>2, <1>4
<1> HIDE DEF k
<1>7. (k - 1) % S = n
  BY <1>5, <1>6
<1> QED BY <1>6, <1>7 DEF S

(* recall_slot answers what the session promises for the slot. *)
LEMMA RecallSlotIsSlotAnswer ==
    ASSUME RingInv, phase = "running", NEW n \in Int
    PROVE  RecallSlot(n) = Session!SlotAnswer(n)
<1> USE DEF Say, SayText, Session!Say, Session!SayText, FullText, Session!FullText
<1>0. Session!Slot = Slot /\ Slot = 0 .. HISTORY_SLOTS - 1
  BY DEF Session!Slot, Slot
<1>1. CASE n \notin Slot
  BY <1>0, <1>1, SizesFacts DEF RecallSlot, Session!SlotAnswer
<1>2. CASE n \in Slot /\ n >= Len(log)
  <2>1. history[n] = NULL
    BY <1>2 DEF RingInv, RingHoldsLatest
  <2>2. RecallSlot(n) = Say("empty")
    BY <1>2, <2>1, SizesFacts DEF RecallSlot
  <2>3. Session!Turns(n) = {}
    <3> SUFFICES ASSUME NEW k \in 1 .. Len(log), (k - 1) % HISTORY_SLOTS = n PROVE FALSE
      BY DEF Session!Turns
    <3>1. k - 1 \in Slot /\ k - 1 < n
      BY <1>2, SizesFacts DEF RingInv, RingTypeOK
    <3>2. (k - 1) % HISTORY_SLOTS = k - 1
      BY <3>1, RingMod
    <3> QED BY <3>1, <3>2, SizesFacts
  <2> QED BY <1>0, <1>2, <2>2, <2>3 DEF Session!SlotAnswer
<1>3. CASE n \in Slot /\ n < Len(log)
  <2>0. Len(log) \in Nat
    BY DEF RingInv, RingTypeOK
  <2>1. PICK k \in 1 .. Len(log) : k > Len(log) - HISTORY_SLOTS /\ (k - 1) % HISTORY_SLOTS = n
    BY <1>3, <2>0, SlotHasTurn
  <2>2. history[n] # NULL /\ heap[history[n]].holds = log[k]
    BY <2>1 DEF RingInv, RingHoldsLatest
  <2>3. RecallSlot(n) = SayText(FullText(log[k]))
    <3>1. slot_used[n] = 1
      BY <1>3, <2>2 DEF RingInv, UsedIffHeld
    <3> QED BY <1>3, <2>2, <3>1, SizesFacts DEF RecallSlot
  <2>4. k \in Session!Turns(n)
    BY <2>1 DEF Session!Turns
  <2>5. ASSUME NEW j \in Session!Turns(n) PROVE j <= k
    <3>1. j \in 1 .. Len(log) /\ (j - 1) % HISTORY_SLOTS = n
      BY DEF Session!Turns
    <3>2. SUFFICES ASSUME j > k PROVE FALSE
      BY <3>1
    <3>3. k - 1 \in Nat /\ j - 1 \in Nat /\ k - 1 < j - 1 /\ j - 1 < (k - 1) + HISTORY_SLOTS
      BY <2>0, <2>1, <3>1, <3>2, SizesFacts
    <3> QED BY <2>1, <3>1, <3>3, RingMod
  <2>6. (CHOOSE m \in Session!Turns(n) : \A j \in Session!Turns(n) : j <= m) = k
    <3>1. Session!Turns(n) \subseteq Int
      BY DEF Session!Turns
    <3> DEFINE m == CHOOSE m \in Session!Turns(n) : \A j \in Session!Turns(n) : j <= m
    <3>2. m \in Session!Turns(n) /\ \A j \in Session!Turns(n) : j <= m
      BY <2>4, <2>5
    <3> HIDE DEF m
    <3>3. m = k
      BY <2>4, <2>5, <3>1, <3>2
    <3> QED BY <3>3 DEF m
  <2>7. Session!SlotAnswer(n) = SayText(FullText(log[k]))
    BY <1>0, <1>3, <2>4, <2>6 DEF Session!SlotAnswer
  <2> QED BY <2>3, <2>7
<1> QED BY <1>1, <1>2, <1>3 DEF RingInv, RingTypeOK

(* The "recall" builtin answers what the session promises. *)
LEMMA RecallIsSRecall ==
    ASSUME RingInv, NEW l \in Line, Recall(Words[l])
    PROVE  Session!SRecall(Words[l])
<1> DEFINE a == Words[l]
<1>1. phase = "running" /\ IsCommand(a, "recall") /\ UNCHANGED << log, phase >> /\ asked' = a
  BY DEF Recall
<1>2. a \in Seq(Word) /\ Len(a) \in Nat
  BY LineAssumption
<1>3. out' = Session!RecallAnswer(a)
  <2>1. CASE Len(a) < 2
    BY <1>1, <2>1, RecallSlotIsSlotAnswer DEF Recall, Session!RecallAnswer
  <2>2. CASE Len(a) >= 2
    <3>1. a[2] \in Word
      BY <1>2, <2>2
    <3>2. CASE ParseInt(a[2]).ok
      <4>1. /\ Session!Numeral(a[2]) /\ ParseInt(a[2]).out = a[2].value
            /\ a[2].value \in Int
        BY <3>1, <3>2, ParseIntIsNumeral
      <4>2. out' = RecallSlot(a[2].value)
        BY <1>2, <2>2, <3>2, <4>1 DEF Recall
      <4>3. RecallSlot(a[2].value) = Session!SlotAnswer(a[2].value)
        BY <1>1, <4>1, RecallSlotIsSlotAnswer
      <4> QED BY <1>2, <2>2, <4>1, <4>2, <4>3 DEF Session!RecallAnswer
    <3>3. CASE ~ParseInt(a[2]).ok
      <4>1. ~Session!Numeral(a[2])
        BY <3>1, <3>3, ParseIntIsNumeral
      <4> QED BY <1>2, <2>2, <3>3, <4>1 DEF Recall, Session!RecallAnswer, Say, Session!Say
    <3> QED BY <3>2, <3>3
  <2> QED BY <1>2, <2>1, <2>2
<1> QED BY <1>1, <1>3 DEF Session!SRecall, IsCommand, Session!IsCommand

(* The initial states are those of an unopened session. *)
LEMMA InitImplementsSession == RingInit => Session!SInit
  BY DEF RingInit, Session!SInit, Say, Session!Say

(* Every step of the ring is a step the session promises, or invisible to it. *)
LEMMA NextImplementsSession ==
    RingInv /\ [RingNext]_ringVars => [Session!SNext]_Session!sessionVars
<1> SUFFICES ASSUME RingInv, [RingNext]_ringVars
             PROVE  [Session!SNext]_Session!sessionVars
  OBVIOUS
<1>1. CASE UNCHANGED ringVars
  BY <1>1 DEF ringVars, Session!sessionVars
<1>2. CASE HistoryInit
  BY <1>2 DEF HistoryInit, Session!SNext, Session!SOpen
<1>3. ASSUME NEW l \in Line, RecordHistory(l)
      PROVE  [Session!SNext]_Session!sessionVars
  <2>1. CASE UNCHANGED phase /\ log' = Append(log, l)
    <3>1. Session!SRecord(l)
      BY <1>3, <2>1 DEF RecordHistory, Session!SRecord
    <3> QED BY <3>1 DEF Session!SNext
  <2>2. CASE phase' = "failed" /\ UNCHANGED log
    <3>1. Session!SClose
      BY <1>3, <2>2 DEF RecordHistory, Session!SClose
    <3> QED BY <3>1 DEF Session!SNext
  <2> QED BY <1>3, <2>1, <2>2 DEF RecordHistory
<1>4. ASSUME NEW l \in Line, Recall(Words[l])
      PROVE  [Session!SNext]_Session!sessionVars
  BY <1>4, RecallIsSRecall DEF Session!SNext
<1>5. CASE ShowHistory
  <2>1. last_command = Session!PreviousCommand
    BY <1>5 DEF ShowHistory, RingInv, LastCommandIsPrevious, Session!PreviousCommand,
                Snprintf, Session!Snprintf, FullText, Session!FullText
  <2>2. Session!SShow
    BY <1>5, <2>1 DEF ShowHistory, Session!SShow, SayText, Session!SayText
  <2> QED BY <2>2 DEF Session!SNext
<1>6. CASE ReleaseAll
  BY <1>6 DEF ReleaseAll, Session!SNext, Session!SClose
<1> QED BY <1>1, <1>2, <1>3, <1>4, <1>5, <1>6 DEF RingNext

(* The ring of heap strings implements the log a user is promised: every answer
   of "history" and "recall" is the one SessionHistory gives, for every line,
   ring size and integer width. *)
THEOREM RingImplementsSession == RingSpec => SessionSpec
  BY RingInvariant, InitImplementsSession, NextImplementsSession, PTL
     DEF RingSpec, SessionSpec, Session!SSpec

-----------------------------------------------------------------------------
(* The shell                                                                *)

(* Where the shell and stdio are in the input: what getline has stored lies behind
   bufpos, and each line before it took one piece at least. *)
InputBounds ==
    /\ bufpos <= bufend /\ bufend <= offset /\ offset <= MaxCommands
    /\ Len(typed) <= bufpos
    /\ \A p \in taken : Len(typed) < p /\ p <= bufpos
    /\ \A i \in DOMAIN typed :
          /\ typed[i].pieces # {}
          /\ \A p \in typed[i].pieces : i <= p /\ p <= bufpos
    /\ childRead \subseteq 1 .. offset

(* Typed text stays within the size getline reports, which is what main wipes. *)
BufferInv ==
    /\ dirty <= buffer_size
    /\ outgrown => buffer_size > FirstSize
    /\ buffer_size > 0 => buffer_size >= FirstSize

(* The line being handled, and what has been made of it. *)
LineInHand ==
    /\ pc \in {"record", "parse", "dispatch", "execute", "wait", "eintr"} =>
          /\ input_buffer \in Line
          /\ typed # << >> /\ input_buffer = typed[Len(typed)].line
    /\ pc = "record" => StrLen[input_buffer] > 0
    /\ pc \in {"dispatch", "execute", "wait", "eintr"} =>
          args = Words[input_buffer] /\ Len(args) <= MAX_ARGS - 1
    /\ pc \in {"execute", "wait", "eintr"} => args # << >> /\ ~IsBuiltin(args)

(* The history never holds more lines than getline returned. *)
LogBehindTyped ==
    Len(log) + (IF pc = "record" THEN 1 ELSE 0) <= Len(typed)

(* The exit status so far. *)
StatusInv == status = 1 <=> readFailed \/ phase = "failed"

(* Once the history is released main is over and its buffer wiped. *)
WipedAtEnd == phase = "exited" => pc = "done" /\ dirty = 0

(* The inductive invariant.  InputPartition needs InputBounds (the buffer lies
   behind the shared offset, and the shell's lines behind the buffer's start);
   that the log stays within MaxCommands needs both. *)
ShellInv == /\ ShellTypeOK
            /\ log \in Seq(Line)
            /\ InputBounds
            /\ InputPartition
            /\ BufferInv
            /\ CommandAlone
            /\ LineInHand
            /\ LogBehindTyped
            /\ StatusInv
            /\ WipedAtEnd

(* The invariant holds when main starts. *)
LEMMA ShellInitInv == ShellInit => ShellInv
<1> SUFFICES ASSUME ShellInit PROVE ShellInv
  OBVIOUS
<1> USE DEF ShellInit, RingInit
<1>1. ShellTypeOK /\ log \in Seq(Line)
  <2>1. \A T : << >> \in Seq(T)
    OBVIOUS
  <2>2. args \in Seq(Word) /\ typed \in Seq([pieces: SUBSET Nat, line: Line]) /\ log \in Seq(Line)
    BY <2>1
  <2> QED BY <2>2 DEF ShellTypeOK
<1>2. InputBounds /\ BufferInv
  <2>1. DOMAIN typed = {} /\ Len(typed) = 0
    OBVIOUS
  <2> QED BY <2>1, MaxCommandsAssumption, FirstSizeAssumption DEF InputBounds, BufferInv
<1>3. InputPartition
  <2>1. DOMAIN typed = {}
    OBVIOUS
  <2>2. ReadByShell = {} /\ ReadAhead = {} /\ 1 .. offset = {}
    BY <2>1 DEF ReadByShell, ReadAhead
  <2> QED BY <2>1, <2>2 DEF InputPartition
<1>4. CommandAlone /\ LineInHand /\ LogBehindTyped /\ StatusInv /\ WipedAtEnd
  BY DEF CommandAlone, LineInHand, LogBehindTyped, StatusInv, WipedAtEnd
<1> QED BY <1>1, <1>2, <1>3, <1>4 DEF ShellInv

(* A step that leaves the input alone keeps the two invariants about it. *)
LEMMA InputUnchanged ==
    InputBounds /\ InputPartition /\ UNCHANGED inputVars => InputBounds' /\ InputPartition'
  BY DEF inputVars, InputBounds, InputPartition, ReadByShell, ReadAhead

(* The pieces of a line are numbers. *)
LEMMA PiecesAreNumbers ==
    ASSUME typed \in Seq([pieces: SUBSET Nat, line: Line]), NEW i \in DOMAIN typed
    PROVE  typed[i].pieces \subseteq Nat
<1> DEFINE T == [pieces: SUBSET Nat, line: Line]
<1>1. typed \in Seq(T)
  OBVIOUS
<1>2. \A t \in T : t.pieces \subseteq Nat
  OBVIOUS
<1> HIDE DEF T
<1>3. typed[i] \in T
  BY <1>1
<1> QED BY <1>2, <1>3

(* What getline holds of the line it is building, up to piece number to. *)
LEMMA ChunkFacts ==
    ASSUME ShellInv, NEW to \in Nat, bufpos < to, to <= bufend
    PROVE  /\ taken \cup (bufpos + 1 .. to) \subseteq Nat
           /\ Cardinality(taken \cup (bufpos + 1 .. to)) \in Nat
           /\ to \in taken \cup (bufpos + 1 .. to)
           /\ \A p \in taken \cup (bufpos + 1 .. to) : Len(typed) < p /\ p <= to
<1>0. Len(typed) \in Nat
  <2>1. typed \in Seq([pieces: SUBSET Nat, line: Line])
    BY DEF ShellInv, ShellTypeOK
  <2> QED BY <2>1
<1>1. /\ bufpos \in Nat /\ bufend \in Nat /\ taken \subseteq Nat /\ Len(typed) \in Nat
      /\ Len(typed) <= bufpos /\ \A p \in taken : Len(typed) < p /\ p <= bufpos
  BY <1>0 DEF ShellInv, ShellTypeOK, InputBounds
<1>2. taken \cup (bufpos + 1 .. to) \subseteq 1 .. to
  BY <1>1
<1>3. IsFiniteSet(1 .. to)
  BY FS_Interval
<1>4. Cardinality(taken \cup (bufpos + 1 .. to)) \in Nat
  BY <1>2, <1>3, FS_Subset, FS_CardinalityType
<1> QED BY <1>1, <1>2, <1>4

(* The buffer grows before getline writes past its end. *)
LEMMA StoreInv ==
    ASSUME ShellInv, NEW to \in Nat, bufpos < to, to <= bufend, StoreUpTo(to)
    PROVE  /\ bufpos' = to /\ BufferInv' /\ buffer_size' \in Nat /\ dirty' \in Nat /\ outgrown' \in BOOLEAN
<1> DEFINE n == Cardinality(taken \cup (bufpos + 1 .. to))
<1>1. n \in Nat
  BY ChunkFacts
<1>2. /\ bufpos' = to /\ buffer_size' = Grown(n) /\ dirty' = Larger(dirty, n)
      /\ outgrown' \in BOOLEAN
      /\ outgrown' => outgrown \/ (n > buffer_size /\ dirty > 0)
  <2>1. PICK moves \in BOOLEAN : outgrown' = (outgrown \/ (moves /\ n > buffer_size /\ dirty > 0))
    BY DEF StoreUpTo
  <2>2. outgrown' <=> outgrown \/ (moves /\ n > buffer_size /\ dirty > 0)
    BY <2>1
  <2>3. outgrown' \in BOOLEAN
    BY <2>1
  <2>4. bufpos' = to /\ buffer_size' = Grown(n) /\ dirty' = Larger(dirty, n)
    BY DEF StoreUpTo
  <2> QED BY <2>2, <2>3, <2>4
<1> HIDE DEF n
<1>3. /\ buffer_size \in Nat /\ dirty \in Nat /\ FirstSize \in Nat /\ FirstSize >= 1
      /\ dirty <= buffer_size /\ (buffer_size > 0 => buffer_size >= FirstSize)
      /\ outgrown => buffer_size > FirstSize
  BY FirstSizeAssumption DEF ShellInv, ShellTypeOK, BufferInv
<1>4. /\ Grown(n) \in Nat /\ Grown(n) >= n /\ Grown(n) >= buffer_size /\ Grown(n) >= FirstSize
      /\ n > buffer_size /\ buffer_size > 0 => Grown(n) > buffer_size
  BY <1>1, <1>3 DEF Grown, Larger
<1>5. Larger(dirty, n) \in Nat /\ Larger(dirty, n) <= Grown(n)
  BY <1>1, <1>3, <1>4 DEF Larger
<1>6. outgrown' => Grown(n) > FirstSize
  <2>1. CASE outgrown
    BY <1>3, <1>4, <2>1
  <2>2. CASE n > buffer_size /\ dirty > 0
    BY <1>1, <1>3, <1>4, <2>2
  <2> QED BY <1>2, <2>1, <2>2
<1> QED BY <1>2, <1>4, <1>5, <1>6, <1>3 DEF BufferInv

(* Pieces leave stdio's buffer for the line being built, and no other owner
   changes. *)
LEMMA TakeOwners ==
    ASSUME ShellInv, NEW to \in Nat, bufpos < to, to <= bufend,
           ReadByShell' = ReadByShell \cup (bufpos + 1 .. to), bufpos' = to,
           UNCHANGED << offset, bufend, childRead >>
    PROVE  /\ ReadByShell' \cup childRead' \cup ReadAhead' = 1 .. offset'
           /\ ReadByShell' \cap childRead' = {}
           /\ ReadByShell' \cap ReadAhead' = {}
           /\ childRead' \cap ReadAhead' = {}
<1>1. bufpos \in Nat /\ bufend \in Nat /\ ReadAhead = bufpos + 1 .. bufend
  BY DEF ShellInv, ShellTypeOK, ReadAhead
<1>2. ReadAhead = (bufpos + 1 .. to) \cup ReadAhead' /\ (bufpos + 1 .. to) \cap ReadAhead' = {}
  BY <1>1 DEF ReadAhead
<1>3. /\ ReadByShell \cup childRead \cup ReadAhead = 1 .. offset
      /\ ReadByShell \cap childRead = {}
      /\ ReadByShell \cap ReadAhead = {}
      /\ childRead \cap ReadAhead = {}
  BY DEF ShellInv, InputPartition
<1> QED BY <1>2, <1>3

(* One more line is returned, made of these pieces. *)
LEMMA ReturnLineInput ==
    ASSUME ShellInv, NEW l \in Line, NEW pieces \in SUBSET Nat, ReturnLine(pieces, l),
           pieces # {}, taken \subseteq pieces, bufpos' \in Nat, bufpos <= bufpos', bufpos' <= bufend,
           \A p \in pieces : Len(typed) < p /\ p <= bufpos',
           \A p \in pieces : p \in taken \/ bufpos < p
    PROVE  /\ InputBounds' /\ ReadByShell' = ReadByShell \cup pieces
           /\ \A i \in DOMAIN typed' : \A p \in typed'[i].pieces :
                 /\ \A q \in taken' : p < q
                 /\ \A j \in DOMAIN typed' : i < j => \A q \in typed'[j].pieces : p < q
           /\ typed' \in Seq([pieces: SUBSET Nat, line: Line])
<1> DEFINE n == Len(typed)
<1>0. typed \in Seq([pieces: SUBSET Nat, line: Line])
  BY DEF ShellInv, ShellTypeOK
<1>1. n \in Nat /\ bufpos \in Nat /\ bufend \in Nat /\ offset \in Nat
  BY <1>0 DEF ShellInv, ShellTypeOK
<1>2. /\ typed' = Append(typed, [pieces |-> pieces, line |-> l]) /\ taken' = {}
      /\ childRead' = childRead /\ offset' = offset /\ bufend' = bufend
  BY DEF ReturnLine
<1>t. typed' \in Seq([pieces: SUBSET Nat, line: Line])
  BY <1>0, <1>2
<1>3. /\ typed'[n + 1] = [pieces |-> pieces, line |-> l]
      /\ \A i \in 1 .. n : typed'[i] = typed[i]
      /\ DOMAIN typed = 1 .. n /\ DOMAIN typed' = 1 .. n + 1 /\ Len(typed') = n + 1
  BY <1>0, <1>2
<1>4. /\ \A i \in 1 .. n : /\ typed[i].pieces # {} /\ typed[i].pieces \subseteq Nat
                           /\ \A p \in typed[i].pieces : i <= p /\ p <= bufpos
      /\ n <= bufpos /\ bufend <= offset /\ offset <= MaxCommands
  <2> DEFINE T == [pieces: SUBSET Nat, line: Line]
  <2>0. typed \in Seq(T)
    BY <1>0
  <2>e. \A t \in T : t.pieces \subseteq Nat
    OBVIOUS
  <2> HIDE DEF T
  <2>1. \A i \in 1 .. n : typed[i] \in T
    BY <2>0
  <2> QED BY <1>3, <2>1, <2>e DEF ShellInv, InputBounds
<1> HIDE DEF n
<1>a. \A i \in 1 .. n + 1 : i = n + 1 \/ i \in 1 .. n
  BY <1>1
<1>b. typed'[n + 1].pieces = pieces
  BY <1>3
<1>5. pieces \subseteq Nat /\ \A p \in pieces : n < p /\ p <= bufpos'
  BY DEF n
<1>6. InputBounds'
  <2>1. ASSUME NEW i \in 1 .. n + 1
        PROVE  /\ typed'[i].pieces # {}
               /\ \A p \in typed'[i].pieces : i <= p /\ p <= bufpos'
    <3>1. CASE i = n + 1
      <4>1. typed'[i].pieces = pieces
        BY <1>b, <3>1
      <4>2. \A p \in pieces : n + 1 <= p /\ p <= bufpos'
        BY <1>1, <1>5
      <4>3. typed'[i].pieces # {}
        BY <4>1
      <4>4. \A p \in typed'[i].pieces : i <= p /\ p <= bufpos'
        BY <3>1, <4>1, <4>2
      <4> QED BY <4>3, <4>4
    <3>2. CASE i \in 1 .. n
      <4>1. typed'[i].pieces = typed[i].pieces
        BY <1>3, <3>2
      <4> QED BY <1>1, <1>4, <3>2, <4>1
    <3> QED BY <1>a, <3>1, <3>2
  <2>2. n + 1 <= bufpos'
    <3>1. PICK p \in pieces : TRUE
      OBVIOUS
    <3>2. p \in Nat /\ n < p /\ p <= bufpos'
      BY <1>5
    <3> QED BY <1>1, <3>2
  <2> QED BY <1>2, <1>3, <1>4, <2>1, <2>2 DEF InputBounds, ShellInv
<1>7. ReadByShell' = ReadByShell \cup pieces
  <2>1. \A i \in 1 .. n : typed'[i].pieces = typed[i].pieces /\ i \in 1 .. n + 1
    BY <1>1, <1>3
  <2>2. n + 1 \in 1 .. n + 1
    BY <1>1
  <2>3. UNION { typed'[i].pieces : i \in 1 .. n + 1 } = pieces \cup UNION { typed[i].pieces : i \in 1 .. n }
    BY <1>a, <1>b, <2>1, <2>2
  <2>4. ReadByShell' = taken' \cup UNION { typed'[i].pieces : i \in 1 .. n + 1 }
    BY <1>3 DEF ReadByShell
  <2>5. ReadByShell = taken \cup UNION { typed[i].pieces : i \in 1 .. n }
    BY <1>3 DEF ReadByShell
  <2> QED BY <1>2, <2>3, <2>4, <2>5
<1>8. \A i \in DOMAIN typed' : \A p \in typed'[i].pieces :
         /\ \A q \in taken' : p < q
         /\ \A j \in DOMAIN typed' : i < j => \A q \in typed'[j].pieces : p < q
  <2> SUFFICES ASSUME NEW i \in 1 .. n + 1, NEW j \in 1 .. n + 1, i < j,
                      NEW p \in typed'[i].pieces, NEW q \in typed'[j].pieces
               PROVE  p < q
    BY <1>2, <1>3
  <2>0. \A k \in DOMAIN typed : \A x \in typed[k].pieces :
           /\ \A y \in taken : x < y
           /\ \A m \in DOMAIN typed : k < m => \A y \in typed[m].pieces : x < y
    BY DEF ShellInv, InputPartition
  <2>1. i \in 1 .. n
    BY <1>1
  <2>2. p \in typed[i].pieces /\ p \in Nat /\ p <= bufpos
    BY <1>3, <1>4, <2>1
  <2>3. CASE j = n + 1
    <3>1. q \in pieces /\ q \in Nat
      BY <1>5, <1>b, <2>3
    <3>2. CASE q \in taken
      BY <1>3, <2>0, <2>1, <2>2, <3>2
    <3>3. CASE bufpos < q
      BY <1>1, <2>2, <3>1, <3>3
    <3> QED BY <3>1, <3>2, <3>3
  <2>4. CASE j \in 1 .. n
    <3>1. q \in typed[j].pieces
      BY <1>3, <2>4
    <3> QED BY <1>3, <2>0, <2>1, <2>2, <2>4, <3>1
  <2> QED BY <1>a, <2>3, <2>4
<1> QED BY <1>6, <1>7, <1>8, <1>t

(* getline keeps the invariant, whatever line it returns or however it ends. *)
LEMMA GetlineInv == ShellInv /\ Getline => ShellInv'
<1> SUFFICES ASSUME ShellInv, Getline PROVE ShellInv'
  OBVIOUS
<1>0. /\ bufpos \in Nat /\ bufend \in Nat /\ offset \in Nat /\ MaxCommands \in Nat
      /\ bufpos <= bufend /\ bufend <= offset /\ offset <= MaxCommands
      /\ typed \in Seq([pieces: SUBSET Nat, line: Line]) /\ taken \subseteq Nat
      /\ childRead \subseteq 1 .. offset
  BY MaxCommandsAssumption DEF ShellInv, ShellTypeOK, InputBounds
<1>1. ASSUME NEW l \in Line, NEW pieces \in SUBSET Nat, ReturnLine(pieces, l), pc = "prompt"
      PROVE  log' \in Seq(Line) /\ CommandAlone' /\ LineInHand' /\ LogBehindTyped' /\ StatusInv' /\ WipedAtEnd'
  <2>1. /\ UNCHANGED << log, phase, child, status, readFailed >>
        /\ input_buffer' = l
        /\ pc' = IF StrLen[l] = 0 THEN "prompt" ELSE "record"
        /\ typed' = Append(typed, [pieces |-> pieces, line |-> l])
    BY <1>1 DEF ReturnLine, ringVars, childVars
  <2>2. /\ Len(typed') = Len(typed) + 1 /\ Len(typed) \in Nat
        /\ typed'[Len(typed')].line = l /\ typed' # << >>
    BY <1>0, <2>1
  <2>3. StrLen[l] \in Nat
    BY LineAssumption
  <2>4. LogBehindTyped'
    BY <1>1, <2>1, <2>2 DEF ShellInv, LogBehindTyped
  <2>5. LineInHand'
    BY <2>1, <2>2, <2>3 DEF LineInHand
  <2>6. phase # "exited"
    BY <1>1 DEF ShellInv, WipedAtEnd
  <2> QED BY <1>1, <2>1, <2>4, <2>5, <2>6 DEF ShellInv, CommandAlone, StatusInv, WipedAtEnd
<1>r. ASSUME NEW l \in Line, NEW pieces, ReturnLine(pieces, l),
             typed' \in Seq([pieces: SUBSET Nat, line: Line]), bufpos' \in Nat,
             buffer_size' \in Nat, dirty' \in Nat, outgrown' \in BOOLEAN
      PROVE  ShellTypeOK'
  BY <1>r DEF ShellInv, ShellTypeOK, ReturnLine, childVars
<1>2. ASSUME NEW l \in Line, GetlineLine(l) PROVE ShellInv'
  <2>1. PICK to \in bufpos + 1 .. bufend : StoreUpTo(to) /\ ReturnLine(taken \cup (bufpos + 1 .. to), l)
    BY <1>2 DEF GetlineLine
  <2>2. pc = "prompt" /\ to \in Nat /\ bufpos < to /\ to <= bufend
    BY <1>0, <1>2 DEF GetlineLine
  <2> DEFINE pieces == taken \cup (bufpos + 1 .. to)
  <2>3. /\ pieces \subseteq Nat /\ pieces # {} /\ taken \subseteq pieces
        /\ \A p \in pieces : Len(typed) < p /\ p <= to
        /\ \A p \in pieces : p \in taken \/ bufpos < p
    <3>1. /\ pieces \subseteq Nat /\ to \in pieces
          /\ \A p \in pieces : Len(typed) < p /\ p <= to
      BY <2>2, ChunkFacts
    <3>2. \A p \in pieces : p \in taken \/ bufpos < p
      BY <1>0, <2>2
    <3> QED BY <3>1, <3>2
  <2>4. bufpos' = to /\ BufferInv' /\ buffer_size' \in Nat /\ dirty' \in Nat /\ outgrown' \in BOOLEAN
    BY <2>1, <2>2, StoreInv
  <2>5. ReturnLine(pieces, l) /\ UNCHANGED << offset, bufend, childRead >>
    BY <2>1 DEF ReturnLine
  <2>r. ReadByShell \cup pieces = ReadByShell \cup (bufpos + 1 .. to)
    BY DEF ReadByShell
  <2> HIDE DEF pieces
  <2>6. /\ InputBounds' /\ ReadByShell' = ReadByShell \cup pieces
        /\ \A i \in DOMAIN typed' : \A p \in typed'[i].pieces :
              /\ \A q \in taken' : p < q
              /\ \A j \in DOMAIN typed' : i < j => \A q \in typed'[j].pieces : p < q
        /\ typed' \in Seq([pieces: SUBSET Nat, line: Line])
    <3>1. bufpos' \in Nat /\ bufpos <= bufpos' /\ bufpos' <= bufend /\ pieces \in SUBSET Nat
      BY <1>0, <2>2, <2>3, <2>4
    <3>2. \A p \in pieces : Len(typed) < p /\ p <= bufpos'
      BY <2>3, <2>4
    <3> QED BY <2>3, <2>5, <3>1, <3>2, ReturnLineInput
  <2>7. InputPartition'
    BY <2>2, <2>4, <2>5, <2>6, <2>r, TakeOwners DEF InputPartition
  <2>8. ShellTypeOK'
    BY <1>r, <2>2, <2>4, <2>5, <2>6
  <2>9. pieces \in SUBSET Nat
    BY <2>3
  <2> QED BY <1>1, <2>2, <2>4, <2>5, <2>6, <2>7, <2>8, <2>9 DEF ShellInv
<1>3. CASE GetlineTakes
  <2>1. /\ pc = "prompt" /\ bufpos < bufend /\ StoreUpTo(bufend)
        /\ taken' = taken \cup (bufpos + 1 .. bufend)
        /\ UNCHANGED << log, phase, pc, offset, bufend, typed, childRead, child, sigchldIgnored,
                        input_buffer, args, status, readFailed >>
    BY <1>3 DEF GetlineTakes, ringVars, childVars, mainVars
  <2>2. bufpos' = bufend /\ BufferInv' /\ buffer_size' \in Nat /\ dirty' \in Nat /\ outgrown' \in BOOLEAN
    BY <1>0, <2>1, StoreInv
  <2>3. taken' \subseteq Nat /\ \A p \in taken' : Len(typed) < p /\ p <= bufend
    <3>1. bufend \in Nat /\ bufpos < bufend /\ bufend <= bufend
      BY <1>0, <2>1
    <3> QED BY <2>1, <3>1, ChunkFacts
  <2>4. ShellTypeOK'
    BY <1>0, <2>1, <2>2, <2>3 DEF ShellInv, ShellTypeOK
  <2>5. InputBounds'
    <3>1. Len(typed) \in Nat /\ Len(typed) <= bufend /\ DOMAIN typed = 1 .. Len(typed)
      BY <1>0, <2>1 DEF ShellInv, InputBounds
    <3>2. \A i \in DOMAIN typed : \A p \in typed[i].pieces : p \in Nat
      BY <1>0, <3>1, PiecesAreNumbers
    <3> QED BY <1>0, <2>1, <2>2, <2>3, <3>1, <3>2 DEF ShellInv, InputBounds
  <2>6. ReadByShell' = ReadByShell \cup (bufpos + 1 .. bufend)
    BY <2>1 DEF ReadByShell
  <2>7. ASSUME NEW i \in DOMAIN typed, NEW p \in typed[i].pieces
        PROVE  /\ \A q \in taken' : p < q
               /\ \A j \in DOMAIN typed : i < j => \A q \in typed[j].pieces : p < q
    <3>1. p <= bufpos /\ p \in Nat
      BY <1>0, PiecesAreNumbers DEF ShellInv, InputBounds
    <3>2. \A q \in taken : p < q
      BY DEF ShellInv, InputPartition
    <3>3. \A q \in bufpos + 1 .. bufend : p < q
      BY <1>0, <3>1
    <3> QED BY <2>1, <3>2, <3>3 DEF ShellInv, InputPartition
  <2>8. InputPartition'
    BY <1>0, <2>1, <2>2, <2>6, <2>7, TakeOwners DEF InputPartition
  <2>9. log' \in Seq(Line) /\ CommandAlone' /\ LineInHand' /\ LogBehindTyped' /\ StatusInv' /\ WipedAtEnd'
    BY <2>1 DEF ShellInv, CommandAlone, LineInHand, LogBehindTyped, StatusInv, WipedAtEnd
  <2> QED BY <2>2, <2>4, <2>5, <2>8, <2>9 DEF ShellInv
<1>4. CASE GetlineRefill
  <2>1. PICK k \in 1 .. MaxCommands - offset : offset' = offset + k /\ bufend' = offset + k
    BY <1>4 DEF GetlineRefill
  <2>2. /\ pc = "prompt" /\ bufpos = bufend /\ bufpos' = offset
        /\ UNCHANGED << log, phase, pc, buffer_size, dirty, outgrown, taken, typed, childRead, child,
                        sigchldIgnored, input_buffer, args, status, readFailed >>
    BY <1>4 DEF GetlineRefill, ringVars, bufferVars, childVars, mainVars
  <2>3. offset' \in Nat /\ bufend' = offset' /\ offset' <= MaxCommands /\ bufpos' <= bufend' /\ offset <= offset'
    BY <1>0, <2>1, <2>2
  <2>4. ShellTypeOK' /\ BufferInv'
    BY <1>0, <2>2, <2>3 DEF ShellInv, ShellTypeOK, BufferInv
  <2>5. InputBounds'
    <3>1. Len(typed) \in Nat /\ Len(typed) <= bufpos /\ bufpos <= offset
      BY <1>0, <2>2 DEF ShellInv, InputBounds
    <3>2. \A i \in DOMAIN typed : \A p \in typed[i].pieces : p \in Nat
      BY <1>0, PiecesAreNumbers
    <3>3. childRead' \subseteq 1 .. offset'
      BY <1>0, <2>2, <2>3
    <3> QED BY <1>0, <2>2, <2>3, <3>1, <3>2, <3>3 DEF ShellInv, InputBounds
  <2>6. InputPartition'
    <3>1. ReadByShell' = ReadByShell /\ ReadAhead = {} /\ ReadAhead' = offset + 1 .. offset'
      BY <1>0, <2>2, <2>3 DEF ReadByShell, ReadAhead
    <3>2. /\ ReadByShell \cup childRead \cup ReadAhead = 1 .. offset
          /\ ReadByShell \cap childRead = {}
      BY DEF ShellInv, InputPartition
    <3>3. /\ (1 .. offset) \cup (offset + 1 .. offset') = 1 .. offset'
          /\ (1 .. offset) \cap (offset + 1 .. offset') = {}
      BY <1>0, <2>3
    <3>4. ReadByShell \cup childRead = 1 .. offset
      BY <3>1, <3>2
    <3>5. /\ ReadByShell' \cup childRead' \cup ReadAhead' = 1 .. offset'
          /\ ReadByShell' \cap childRead' = {} /\ ReadByShell' \cap ReadAhead' = {}
          /\ childRead' \cap ReadAhead' = {}
      BY <2>2, <3>1, <3>2, <3>3, <3>4
    <3> QED BY <2>2, <3>5 DEF ShellInv, InputPartition
  <2>7. log' \in Seq(Line) /\ CommandAlone' /\ LineInHand' /\ LogBehindTyped' /\ StatusInv' /\ WipedAtEnd'
    BY <2>2 DEF ShellInv, CommandAlone, LineInHand, LogBehindTyped, StatusInv, WipedAtEnd
  <2> QED BY <2>4, <2>5, <2>6, <2>7 DEF ShellInv
<1>5. ASSUME NEW l \in Line, GetlineRest(l) PROVE ShellInv'
  <2>1. /\ pc = "prompt" /\ taken # {} /\ ReturnLine(taken, l)
        /\ UNCHANGED << bufpos, buffer_size, dirty, outgrown, offset, bufend, childRead >>
    BY <1>5 DEF GetlineRest, bufferVars, ReturnLine
  <2>2. \A p \in taken : Len(typed) < p /\ p <= bufpos
    BY DEF ShellInv, InputBounds
  <2>3. /\ InputBounds' /\ ReadByShell' = ReadByShell \cup taken
        /\ \A i \in DOMAIN typed' : \A p \in typed'[i].pieces :
              /\ \A q \in taken' : p < q
              /\ \A j \in DOMAIN typed' : i < j => \A q \in typed'[j].pieces : p < q
        /\ typed' \in Seq([pieces: SUBSET Nat, line: Line])
    <3>1. bufpos' \in Nat /\ bufpos <= bufpos' /\ bufpos' <= bufend /\ taken \in SUBSET Nat
      BY <1>0, <2>1
    <3>2. /\ \A p \in taken : Len(typed) < p /\ p <= bufpos'
          /\ taken \subseteq taken /\ \A p \in taken : p \in taken \/ bufpos < p
      BY <2>1, <2>2
    <3> QED BY <2>1, <3>1, <3>2, ReturnLineInput
  <2>4. ReadByShell' = ReadByShell /\ ReadAhead' = ReadAhead
    BY <2>1, <2>3 DEF ReadByShell, ReadAhead
  <2>5. InputPartition'
    BY <2>1, <2>3, <2>4 DEF ShellInv, InputPartition
  <2>6. BufferInv' /\ buffer_size' \in Nat /\ dirty' \in Nat /\ outgrown' \in BOOLEAN /\ bufpos' \in Nat
    BY <1>0, <2>1 DEF ShellInv, ShellTypeOK, BufferInv
  <2>7. ShellTypeOK'
    BY <1>r, <2>1, <2>3, <2>6
  <2> QED BY <1>0, <1>1, <2>1, <2>3, <2>5, <2>6, <2>7 DEF ShellInv
<1>6. CASE GetlineEof \/ GetlineFails
  <2>1. /\ UNCHANGED inputVars /\ UNCHANGED << log, phase, child, typed, buffer_size, dirty, outgrown >>
        /\ pc' = "cleanup" /\ pc = "prompt"
    BY <1>6 DEF GetlineEof, GetlineFails, Goto, inputVars, ringVars, childVars, bufferVars
  <2>2. InputBounds' /\ InputPartition'
    BY <2>1, InputUnchanged DEF ShellInv
  <2>3. ShellTypeOK' /\ BufferInv'
    <3>1. /\ status' \in {status, 1} /\ readFailed' \in {readFailed, TRUE}
          /\ UNCHANGED << input_buffer, args, sigchldIgnored >>
      BY <1>6 DEF GetlineEof, GetlineFails, childVars, mainVars
    <3>2. UNCHANGED << offset, bufpos, bufend, taken, typed, childRead >>
      BY <2>1 DEF inputVars
    <3>3. ShellTypeOK'
      BY <2>1, <3>1, <3>2 DEF ShellInv, ShellTypeOK
    <3> QED BY <2>1, <3>3 DEF ShellInv, BufferInv
  <2>4. StatusInv' /\ WipedAtEnd'
    BY <1>6, <2>1 DEF WipedAtEnd, GetlineEof, GetlineFails, ringVars, mainVars, ShellInv, StatusInv
  <2>5. log' \in Seq(Line) /\ CommandAlone' /\ LineInHand' /\ LogBehindTyped'
    BY <2>1 DEF ShellInv, CommandAlone, LineInHand, LogBehindTyped
  <2> QED BY <2>2, <2>3, <2>4, <2>5 DEF ShellInv
<1> QED BY <1>2, <1>3, <1>4, <1>5, <1>6 DEF Getline

(* The steps of main that handle a line. *)
LEMMA HandleInv == ShellInv /\ (Start \/ Record \/ Parse \/ Dispatch \/ Cleanup) => ShellInv'
<1> SUFFICES ASSUME ShellInv, Start \/ Record \/ Parse \/ Dispatch \/ Cleanup PROVE ShellInv'
  OBVIOUS
<1>0. /\ UNCHANGED inputVars /\ UNCHANGED childVars
      /\ UNCHANGED << readFailed, buffer_size, outgrown >>
      /\ dirty' = dirty \/ (pc = "cleanup" /\ dirty' = 0)
  BY DEF BufferInv, ShellInv, ShellTypeOK, bufferVars, Goto, Start, Record, Parse, Dispatch, BuiltinExit, BuiltinHistory, BuiltinRecall, BuiltinNone,
         Cleanup, mainVars
<1>1. InputBounds' /\ InputPartition'
  BY <1>0, InputUnchanged DEF ShellInv
<1>2. UNCHANGED << typed, taken, child, offset, bufpos, bufend, childRead, sigchldIgnored, readFailed,
                   buffer_size, outgrown >>
  BY <1>0 DEF inputVars, childVars
<1>b. BufferInv' /\ dirty' \in Nat
  BY <1>0 DEF ShellInv, ShellTypeOK, BufferInv
<1>3. /\ ShellTypeOK /\ log \in Seq(Line) /\ CommandAlone /\ LineInHand /\ LogBehindTyped /\ StatusInv
      /\ WipedAtEnd /\ Len(log) \in Nat /\ Len(typed) \in Nat /\ child \in {"none", "forked", "running", "zombie"}
  BY DEF ShellInv, ShellTypeOK
<1>p. pc # "done" => phase # "exited"
  BY <1>3 DEF WipedAtEnd
<1>4. CASE Start
  <2>1. /\ pc = "start" /\ pc' \in {"prompt", "done"} /\ UNCHANGED << log, input_buffer, args >>
        /\ phase = "start" /\ phase' \in {"running", "failed"}
        /\ status' = IF phase' = "running" THEN status ELSE 1
    BY <1>4 DEF Start, HistoryInit
  <2>2. StatusInv' /\ WipedAtEnd'
    BY <1>2, <1>3, <2>1 DEF StatusInv, WipedAtEnd
  <2>3. ShellTypeOK'
    BY <1>2, <1>3, <1>b, <2>1 DEF ShellTypeOK
  <2>4. log' \in Seq(Line) /\ CommandAlone' /\ LineInHand' /\ LogBehindTyped'
    BY <1>2, <1>3, <2>1 DEF CommandAlone, LineInHand, LogBehindTyped
  <2> QED BY <1>1, <1>b, <2>2, <2>3, <2>4 DEF ShellInv
<1>5. CASE Record
  <2>0. input_buffer \in Line
    BY <1>3, <1>5 DEF Record, LineInHand
  <2>1. /\ pc = "record" /\ UNCHANGED << input_buffer, args >>
        /\ phase = "running" /\ phase' \in {"running", "failed"}
        /\ log' = log \/ log' = Append(log, input_buffer)
        /\ pc' = IF phase' = "running" THEN "parse" ELSE "done"
        /\ status' = IF phase' = "running" THEN status ELSE 1
    BY <1>5 DEF Record, RecordHistory
  <2>2. log' \in Seq(Line) /\ Len(log') <= Len(log) + 1 /\ Len(log') \in Nat
    BY <1>3, <2>0, <2>1
  <2>3. LogBehindTyped'
    BY <1>2, <1>3, <2>1, <2>2 DEF LogBehindTyped
  <2>4. StatusInv' /\ WipedAtEnd'
    BY <1>2, <1>3, <2>1 DEF StatusInv, WipedAtEnd
  <2>5. ShellTypeOK'
    BY <1>2, <1>3, <1>b, <2>1 DEF ShellTypeOK
  <2>6. CommandAlone' /\ LineInHand'
    BY <1>2, <1>3, <2>1 DEF CommandAlone, LineInHand
  <2> QED BY <1>1, <1>b, <2>2, <2>3, <2>4, <2>5, <2>6 DEF ShellInv
<1>6. CASE Parse
  <2>0. input_buffer \in Line /\ Words[input_buffer] \in Seq(Word)
    BY <1>3, <1>6, LineAssumption DEF Parse, LineInHand
  <2>1. /\ pc = "parse" /\ UNCHANGED << log, phase, input_buffer, status >>
        /\ \/ /\ args' = Words[input_buffer] /\ pc' = "dispatch"
              /\ Len(Words[input_buffer]) <= MAX_ARGS - 1
           \/ args' = << >> /\ pc' = "prompt"
    BY <1>6 DEF Parse, ParseInput, ringVars
  <2>2. args' \in Seq(Word)
    <3>1. << >> \in Seq(Word)
      OBVIOUS
    <3> QED BY <2>0, <2>1, <3>1, Zenon
  <2>3. ShellTypeOK'
    BY <1>2, <1>3, <2>1, <2>2, <1>b DEF ShellTypeOK
  <2>4. log' \in Seq(Line) /\ CommandAlone' /\ LineInHand' /\ LogBehindTyped' /\ StatusInv' /\ WipedAtEnd'
    BY <1>2, <1>3, <1>p, <2>1 DEF CommandAlone, LineInHand, LogBehindTyped, StatusInv, WipedAtEnd
  <2> QED BY <1>1, <1>b, <2>3, <2>4 DEF ShellInv
<1>7. CASE Dispatch
  <2>1. /\ pc = "dispatch" /\ UNCHANGED << log, phase, input_buffer, args, status >>
        /\ \/ pc' \in {"prompt", "cleanup"}
           \/ pc' = "execute" /\ args # << >> /\ ~IsBuiltin(args)
    BY <1>7 DEF Dispatch, BuiltinExit, BuiltinHistory, BuiltinRecall, BuiltinNone, Goto, mainVars,
                ringVars, ShowHistory, Recall
  <2>2. IsBuiltin(args)' <=> IsBuiltin(args)
    BY <2>1 DEF IsBuiltin, IsCommand
  <2>3. ShellTypeOK'
    BY <1>2, <1>3, <1>b, <2>1 DEF ShellTypeOK
  <2>4. log' \in Seq(Line) /\ CommandAlone' /\ LineInHand' /\ LogBehindTyped' /\ StatusInv' /\ WipedAtEnd'
    BY <1>2, <1>3, <1>p, <2>1, <2>2 DEF CommandAlone, LineInHand, LogBehindTyped, StatusInv, WipedAtEnd
  <2> QED BY <1>1, <1>b, <2>3, <2>4 DEF ShellInv
<1>8. CASE Cleanup
  <2>1. /\ pc = "cleanup" /\ pc' = "done" /\ UNCHANGED << log, args, status >>
        /\ phase = "running" /\ phase' = "exited" /\ dirty' = 0
        /\ input_buffer' = input_buffer
    BY <1>8, <1>3 DEF Cleanup, ReleaseAll, Goto, mainVars, BufferInv, ShellInv, ShellTypeOK
  <2>2. ShellTypeOK'
    BY <1>2, <1>3, <1>b, <2>1 DEF ShellTypeOK
  <2>3. log' \in Seq(Line) /\ CommandAlone' /\ LineInHand' /\ LogBehindTyped' /\ StatusInv' /\ WipedAtEnd'
    BY <1>2, <1>3, <1>p, <2>1 DEF CommandAlone, LineInHand, LogBehindTyped, StatusInv, WipedAtEnd
  <2> QED BY <1>1, <1>b, <2>2, <2>3 DEF ShellInv
<1> QED BY <1>4, <1>5, <1>6, <1>7, <1>8

(* The steps of execute_command in the shell: they move between "execute", the
   waitpid loop and the prompt, and only leave the loop without a child. *)
LEMMA ExecuteInv ==
    ShellInv /\ (Fork \/ ForkFails \/ WaitReturns \/ WaitNoChild \/ WaitInterrupted \/ RetryWait)
      => ShellInv'
<1> SUFFICES ASSUME ShellInv,
                    Fork \/ ForkFails \/ WaitReturns \/ WaitNoChild \/ WaitInterrupted \/ RetryWait
             PROVE  ShellInv'
  OBVIOUS
<1>1. /\ UNCHANGED inputVars
      /\ UNCHANGED << log, phase, input_buffer, args, status, readFailed, sigchldIgnored,
                      buffer_size, dirty, outgrown >>
      /\ pc \in {"execute", "wait", "eintr"}
      /\ \/ pc' \in {"wait", "eintr"} /\ child' \in {child, "forked"}
         \/ pc' = "prompt" /\ (child' = "none" \/ (pc = "execute" /\ child' = child))
  BY DEF Fork, ForkFails, WaitReturns, WaitNoChild, WaitInterrupted, RetryWait, Goto, ringVars,
         bufferVars, childVars, mainVars
<1>2. InputBounds' /\ InputPartition'
  BY <1>1, InputUnchanged DEF ShellInv
<1>3. typed' = typed /\ taken' = taken /\ offset' = offset /\ bufpos' = bufpos /\ bufend' = bufend /\ childRead' = childRead
  BY <1>1 DEF inputVars
<1>4. IsBuiltin(args)' <=> IsBuiltin(args)
  BY <1>1 DEF IsBuiltin, IsCommand
<1>5. ShellTypeOK' /\ BufferInv'
  BY <1>1, <1>3 DEF ShellInv, ShellTypeOK, BufferInv
<1>6. CommandAlone' /\ LineInHand' /\ LogBehindTyped' /\ StatusInv' /\ WipedAtEnd' /\ log' \in Seq(Line)
  BY <1>1, <1>3, <1>4 DEF ShellInv, CommandAlone, LineInHand, LogBehindTyped, StatusInv, WipedAtEnd
<1> QED BY <1>2, <1>5, <1>6 DEF ShellInv

(* The steps of the child; only its own reads move the shared offset. *)
LEMMA ChildInv == ShellInv /\ ChildStep => ShellInv'
<1> SUFFICES ASSUME ShellInv, ChildStep PROVE ShellInv'
  OBVIOUS
<1>1. /\ UNCHANGED << log, phase, pc, input_buffer, args, status, readFailed, sigchldIgnored,
                      typed, taken, bufpos, bufend, buffer_size, dirty, outgrown >>
      /\ child # "none" /\ child' \in {"none", "running", "zombie"}
  BY DEF ChildStep, ChildExec, ChildExecFails, ChildReads, ChildExits, Ended, ringVars, inputVars,
         bufferVars, childVars, mainVars
<1>2. CASE UNCHANGED inputVars
  <2>1. InputBounds' /\ InputPartition' /\ offset' = offset /\ childRead' = childRead
    BY <1>2, InputUnchanged DEF ShellInv, inputVars
  <2>2. ShellTypeOK' /\ BufferInv'
    BY <1>1, <2>1 DEF ShellInv, ShellTypeOK, BufferInv
  <2> QED BY <1>1, <2>1, <2>2 DEF ShellInv, CommandAlone, LineInHand, LogBehindTyped, StatusInv, WipedAtEnd,
                                  IsBuiltin, IsCommand
<1>3. CASE ChildReads
  <2>0. /\ bufpos \in Nat /\ bufend \in Nat /\ offset \in Nat /\ MaxCommands \in Nat
        /\ bufpos <= bufend /\ bufend <= offset /\ offset <= MaxCommands
        /\ childRead \subseteq 1 .. offset
    BY MaxCommandsAssumption DEF ShellInv, ShellTypeOK, InputBounds
  <2>1. PICK k \in 1 .. MaxCommands - offset :
           offset' = offset + k /\ childRead' = childRead \cup (offset + 1 .. offset + k)
    BY <1>3 DEF ChildReads
  <2>2. offset' \in Nat /\ offset' <= MaxCommands /\ offset <= offset' /\ childRead' \subseteq 1 .. offset'
    BY <2>0, <2>1
  <2>3. InputBounds'
    BY <1>1, <2>0, <2>2 DEF ShellInv, InputBounds
  <2>4. InputPartition'
    <3>1. ReadByShell' = ReadByShell /\ ReadAhead' = ReadAhead
      BY <1>1 DEF ReadByShell, ReadAhead
    <3>2. /\ ReadByShell \cup childRead \cup ReadAhead = 1 .. offset
          /\ ReadByShell \cap childRead = {}
          /\ ReadByShell \cap ReadAhead = {}
          /\ childRead \cap ReadAhead = {}
      BY DEF ShellInv, InputPartition
    <3>3. (1 .. offset) \cup (offset + 1 .. offset + k) = 1 .. offset + k
      BY <2>0, <2>1
    <3>4. (1 .. offset) \cap (offset + 1 .. offset + k) = {}
      BY <2>0, <2>1
    <3>5. ReadByShell \cup childRead' \cup ReadAhead = 1 .. offset'
      BY <2>1, <3>2, <3>3
    <3>6. ReadByShell \cap childRead' = {} /\ childRead' \cap ReadAhead = {}
      BY <2>1, <3>2, <3>4
    <3> QED BY <1>1, <3>1, <3>2, <3>5, <3>6 DEF ShellInv, InputPartition
  <2>5. ShellTypeOK' /\ BufferInv'
    BY <1>1, <2>0, <2>2 DEF ShellInv, ShellTypeOK, BufferInv
  <2> QED BY <1>1, <2>3, <2>4, <2>5 DEF ShellInv, CommandAlone, LineInHand, LogBehindTyped, StatusInv, WipedAtEnd,
                                        IsBuiltin, IsCommand
<1> QED BY <1>2, <1>3 DEF ChildStep, ChildExec, ChildExecFails, ChildExits

(* Every step of the shell and of its child keeps the invariant. *)
LEMMA ShellNextInv == ShellInv /\ [ShellNext]_shellVars => ShellInv'
<1> SUFFICES ASSUME ShellInv, [ShellNext]_shellVars PROVE ShellInv'
  OBVIOUS
<1>1. CASE UNCHANGED shellVars
  <2>1. UNCHANGED inputVars
        /\ UNCHANGED << log, phase, pc, input_buffer, args, status, readFailed, sigchldIgnored, child,
                        typed, taken, bufpos, bufend, offset, childRead, buffer_size, dirty, outgrown >>
    BY <1>1 DEF shellVars, ringVars, inputVars, bufferVars, childVars, mainVars
  <2>2. InputBounds' /\ InputPartition'
    BY <2>1, InputUnchanged DEF ShellInv
  <2> QED BY <2>1, <2>2 DEF ShellInv, ShellTypeOK, BufferInv, CommandAlone, LineInHand, LogBehindTyped, StatusInv, WipedAtEnd,
                            IsBuiltin, IsCommand
<1>2. CASE ShellNext
  BY <1>2, GetlineInv, HandleInv, ExecuteInv, ChildInv DEF ShellNext, MainStep
<1> QED BY <1>1, <1>2

(* The invariant holds in every reachable state of the shell. *)
THEOREM ShellInvariant == ShellSpec => []ShellInv
  BY ShellInitInv, ShellNextInv, PTL DEF ShellSpec

(* The command line in hand is the one typed last, in every state the
   invariant admits. *)
LEMMA RunsInv == ShellInv => RunsWhatWasTyped
<1> SUFFICES ASSUME ShellInv PROVE RunsWhatWasTyped
  OBVIOUS
<1>1. ASSUME pc \in {"execute", "wait", "eintr"}
      PROVE  Len(args) \in 1 .. MAX_ARGS - 1
  <2>1. args \in Seq(Word) /\ args # << >> /\ Len(args) <= MAX_ARGS - 1
    BY <1>1 DEF ShellInv, ShellTypeOK, LineInHand
  <2>2. Len(args) \in Nat /\ Len(args) # 0
    BY <2>1
  <2> QED BY <2>1, <2>2, SizesAssumption
<1> QED BY <1>1 DEF ShellInv, LineInHand, RunsWhatWasTyped

(* The shell's own variables keep their types: the status is 0 or 1, the words
   are a sequence of words, the offsets natural numbers. *)
THEOREM ShellTypeCorrect == ShellSpec => []ShellTypeOK
  BY ShellInvariant, PTL DEF ShellInv

(* Every piece of stdin behind the shared offset has one owner, for inputs of any
   length, whatever blocks stdio reads and wherever a command stops reading:
   nothing is replayed and nothing is lost between the shell and its commands. *)
THEOREM InputPartitionAlways == ShellSpec => []InputPartition
  BY ShellInvariant, PTL DEF ShellInv

(* execute_command returns only when its child is gone. *)
THEOREM CommandAloneAlways == ShellSpec => []CommandAlone
  BY ShellInvariant, PTL DEF ShellInv

(* execvp gets all the words of the last line, never more than fit. *)
THEOREM RunsWhatWasTypedAlways == ShellSpec => []RunsWhatWasTyped
  BY ShellInvariant, RunsInv, PTL

(* The exit status is 1 exactly after a failed read or allocation. *)
THEOREM StatusAlways == ShellSpec => []StatusTellsFailure
<1>1. ShellInv => StatusTellsFailure
  BY DEF ShellInv, StatusInv, StatusTellsFailure
<1> QED BY <1>1, ShellInvariant, PTL

(* Every step of the shell is a call of one history function, or leaves the history alone. *)
LEMMA ShellStepIsRingStep == ShellInv /\ [ShellNext]_shellVars => [RingNext]_ringVars
<1> SUFFICES ASSUME ShellInv, [ShellNext]_shellVars PROVE [RingNext]_ringVars
  OBVIOUS
<1>1. CASE Start
  BY <1>1 DEF Start, RingNext
<1>2. CASE Record
  <2>1. input_buffer \in Line /\ StrLen[input_buffer] > 0 /\ RecordHistory(input_buffer)
    BY <1>2 DEF Record, ShellInv, LineInHand
  <2>2. Len(log) < MaxCommands
    <3>1. /\ Len(log) + 1 <= Len(typed) /\ Len(log) \in Nat /\ Len(typed) \in Nat
          /\ typed # << >> /\ DOMAIN typed = 1 .. Len(typed)
      BY <1>2 DEF Record, ShellInv, LineInHand, LogBehindTyped, ShellTypeOK
    <3>2. Len(typed) <= bufpos
      BY DEF ShellInv, InputBounds
    <3> QED BY <3>1, <3>2, MaxCommandsAssumption DEF ShellInv, InputBounds, ShellTypeOK
  <2> QED BY <2>1, <2>2 DEF RingNext
<1>3. CASE BuiltinRecall
  <2>1. input_buffer \in Line /\ Recall(Words[input_buffer])
    BY <1>3 DEF BuiltinRecall, Goto, ShellInv, LineInHand
  <2> QED BY <2>1 DEF RingNext
<1>4. CASE BuiltinHistory \/ Cleanup
  BY <1>4 DEF BuiltinHistory, Cleanup, RingNext
<1>5. CASE UNCHANGED ringVars
  BY <1>5
<1>6. CASE UNCHANGED shellVars
  BY <1>6 DEF shellVars
<1>7. CASE Getline \/ Parse \/ BuiltinExit \/ BuiltinNone \/ Fork \/ ForkFails \/ WaitReturns
           \/ WaitNoChild \/ WaitInterrupted \/ RetryWait \/ ChildStep
  <2>1. UNCHANGED ringVars
    BY <1>7 DEF Getline, GetlineLine, GetlineRest, GetlineTakes, GetlineRefill, ReturnLine, GetlineEof, GetlineFails, Parse,
                BuiltinExit, BuiltinNone, Fork, ForkFails, WaitReturns, WaitNoChild, WaitInterrupted,
                RetryWait, ChildStep, ChildExec, ChildExecFails, ChildReads, ChildExits
  <2> QED BY <2>1
<1> QED BY <1>1, <1>2, <1>3, <1>4, <1>6, <1>7 DEF ShellNext, MainStep, Dispatch

(* What the shell does to the history is what its callers are assumed to do in
   HistoryRing: main calls record_history with non-empty lines only, after
   history_init and never after the cleanup. *)
THEOREM ShellImplementsRing == ShellSpec => RingSpec
<1>1. ShellInit => RingInit
  BY DEF ShellInit
<1> QED BY <1>1, ShellInvariant, ShellStepIsRingStep, PTL DEF ShellSpec, RingSpec

(* So all that is proved of the history holds in the shell, with child
   processes, signals and failing reads around it. *)
THEOREM ShellKeepsHistory == ShellSpec => [](Ownership /\ NoResidue /\ RingHoldsLatest) /\ SessionSpec
<1>1. RingInv => Ownership /\ NoResidue /\ RingHoldsLatest
  BY DEF RingInv
<1> QED BY <1>1, ShellImplementsRing, RingInvariant, RingImplementsSession, PTL

(* After a normal end of main no child is left, and no typed text in the ring, in
   last_command or anywhere in input_buffer, however its lines grew and shrank; a
   buffer that getline outgrew is left only by a line too long for the first. *)
THEOREM NothingLeftAlways == ShellSpec => []NothingLeft
<1>1. ShellInv /\ RingInv => NothingLeft
  <2> SUFFICES ASSUME ShellInv, RingInv, pc = "done", phase = "exited"
               PROVE  /\ dirty = 0 /\ last_command = NoText
                      /\ \A a \in Addr : heap[a] = [live |-> FALSE, holds |-> NoText]
                      /\ child = "none" /\ (outgrown => buffer_size > FirstSize)
    BY DEF NothingLeft
  <2>1. dirty = 0 /\ child = "none" /\ (outgrown => buffer_size > FirstSize)
    BY DEF ShellInv, WipedAtEnd, CommandAlone, BufferInv
  <2>2. last_command = NoText
    BY DEF RingInv, NoResidue
  <2>3. ASSUME NEW a \in Addr
        PROVE  heap[a] = [live |-> FALSE, holds |-> NoText]
    <3>1. heap[a].live = FALSE
      BY DEF RingInv, Ownership, RingTypeOK
    <3>2. heap[a].holds = NoText
      BY <3>1 DEF RingInv, NoResidue
    <3>3. heap[a] \in [live: BOOLEAN, holds: Line \cup {NoText}]
      BY DEF RingInv, RingTypeOK
    <3> QED BY <3>1, <3>2, <3>3
  <2> QED BY <2>1, <2>2, <2>3
<1> QED BY <1>1, ShellInvariant, ShellImplementsRing, RingInvariant, PTL

-----------------------------------------------------------------------------
(* What is recorded                                                         *)

TypedLines == [i \in DOMAIN typed |-> typed[i].line]
Nonblank   == { l \in Line : StrLen[l] > 0 }
Pending    == pc = "record" \/ (phase = "failed" /\ typed # << >>)

(* The inductive invariant: nothing is typed before history_init, and main ends
   with the failure of a strdup, so the line it was about to record stays the
   one in hand. *)
RecordedInv ==
    /\ phase = "failed" => pc = "done"
    /\ pc = "start" => phase = "start" /\ typed = << >>
    /\ Keep(TypedLines, Nonblank) = IF Pending THEN Append(log, input_buffer) ELSE log

LEMMA RecordedIs == RecordedInv => RecordsWhatWasTyped
  BY DEF RecordedInv, RecordsWhatWasTyped, TypedLines, Nonblank, Pending

LEMMA RecordedInitInv == ShellInit => RecordedInv
<1> SUFFICES ASSUME ShellInit PROVE RecordedInv
  OBVIOUS
<1>1. typed = << >> /\ log = << >> /\ pc = "start" /\ phase = "start"
  BY DEF ShellInit, RingInit
<1>2. TypedLines = << >>
  BY <1>1 DEF TypedLines
<1>3. Keep(TypedLines, Nonblank) = << >>
  BY <1>2, KeepNone
<1> QED BY <1>1, <1>3 DEF RecordedInv, Pending

(* One more line is typed: it is kept if it is not empty. *)
LEMMA ReturnLineRecorded ==
    ASSUME ShellInv, RecordedInv, NEW l \in Line, NEW pieces \in SUBSET Nat, ReturnLine(pieces, l),
           pc = "prompt"
    PROVE  RecordedInv'
<1> DEFINE T == [pieces: SUBSET Nat, line: Line]
<1>1. typed \in Seq(T) /\ [pieces |-> pieces, line |-> l] \in T
  BY DEF ShellInv, ShellTypeOK
<1>2. /\ typed' = Append(typed, [pieces |-> pieces, line |-> l]) /\ input_buffer' = l
      /\ pc' = IF StrLen[l] = 0 THEN "prompt" ELSE "record"
      /\ UNCHANGED << log, phase >>
  BY DEF ReturnLine, ringVars
<1>3. \A t \in T : t.line \in Line
  OBVIOUS
<1> HIDE DEF T
<1>4. /\ DOMAIN typed = 1 .. Len(typed) /\ Len(typed) \in Nat /\ DOMAIN typed' = 1 .. Len(typed) + 1
      /\ typed'[Len(typed) + 1].line = l
      /\ \A i \in 1 .. Len(typed) : typed[i] \in T /\ typed'[i] = typed[i]
  BY <1>1, <1>2
<1>5. TypedLines \in Seq(Line) /\ Len(TypedLines) = Len(typed)
  BY <1>3, <1>4 DEF TypedLines
<1>6. TypedLines' = Append(TypedLines, l)
  BY <1>4, <1>5 DEF TypedLines
<1>7. Keep(TypedLines', Nonblank) = IF l \in Nonblank THEN Append(Keep(TypedLines, Nonblank), l)
                                    ELSE Keep(TypedLines, Nonblank)
  BY <1>5, <1>6, KeepAppend
<1>8. Nonblank' = Nonblank /\ (l \in Nonblank <=> StrLen[l] # 0)
  BY LineAssumption DEF Nonblank
<1>9. phase # "failed" /\ Keep(TypedLines, Nonblank) = log
  BY DEF RecordedInv, Pending
<1> QED BY <1>2, <1>7, <1>8, <1>9 DEF RecordedInv, Pending

(* Every step keeps it. *)
LEMMA RecordedNextInv == ShellInv /\ RecordedInv /\ [ShellNext]_shellVars => RecordedInv'
<1> SUFFICES ASSUME ShellInv, RecordedInv, [ShellNext]_shellVars PROVE RecordedInv'
  OBVIOUS
<1>1. ASSUME NEW l \in Line, GetlineLine(l) \/ GetlineRest(l) PROVE RecordedInv'
  <2>1. bufpos \in Nat /\ bufend \in Nat /\ taken \subseteq Nat
    BY DEF ShellInv, ShellTypeOK
  <2>2. \E pieces \in SUBSET Nat : ReturnLine(pieces, l) /\ pc = "prompt"
    <3>1. \A to \in bufpos + 1 .. bufend : taken \cup (bufpos + 1 .. to) \in SUBSET Nat
      BY <2>1
    <3> QED BY <1>1, <2>1, <3>1 DEF GetlineLine, GetlineRest
  <2> QED BY <2>2, ReturnLineRecorded
<1>2. CASE UNCHANGED typed /\ UNCHANGED << log, phase, input_buffer >>
           /\ pc # "record" /\ pc' \notin {"record", "start"} /\ pc # "done"
  BY <1>2 DEF RecordedInv, Pending, TypedLines, Nonblank
<1>3. CASE Start
  <2>1. /\ pc = "start" /\ pc' \in {"prompt", "done"} /\ UNCHANGED << log, typed >>
        /\ phase' = "failed" => pc' = "done"
    BY <1>3 DEF Start, HistoryInit, inputVars
  <2>2. typed = << >> /\ Keep(TypedLines, Nonblank) = log
    BY <2>1 DEF RecordedInv, Pending
  <2> QED BY <2>1, <2>2 DEF RecordedInv, Pending, TypedLines, Nonblank
<1>4. CASE Record
  <2>1. /\ pc = "record" /\ UNCHANGED << input_buffer, typed >>
        /\ \/ pc' = "parse" /\ phase' = "running" /\ log' = Append(log, input_buffer)
           \/ pc' = "done" /\ phase' = "failed" /\ log' = log
    BY <1>4 DEF Record, RecordHistory, inputVars
  <2>2. Keep(TypedLines, Nonblank) = Append(log, input_buffer) /\ typed # << >>
    BY <2>1 DEF RecordedInv, Pending, ShellInv, LineInHand
  <2> QED BY <2>1, <2>2 DEF RecordedInv, Pending, TypedLines, Nonblank
<1>5. CASE Cleanup
  <2>1. /\ pc = "cleanup" /\ pc' = "done" /\ phase' = "exited" /\ UNCHANGED << typed, log >>
    BY <1>5 DEF Cleanup, Goto, ReleaseAll, inputVars
  <2> QED BY <2>1 DEF RecordedInv, Pending, TypedLines, Nonblank
<1>9. CASE GetlineTakes \/ GetlineRefill
  BY <1>2, <1>9 DEF GetlineTakes, GetlineRefill, ringVars, mainVars
<1>6. CASE GetlineEof \/ GetlineFails \/ Parse \/ Dispatch
  BY <1>2, <1>6 DEF GetlineEof, GetlineFails, Parse, Dispatch, BuiltinExit, BuiltinHistory, BuiltinRecall,
                    BuiltinNone, Goto, ringVars, inputVars, mainVars, ShowHistory, Recall
<1>7. CASE Fork \/ ForkFails \/ WaitReturns \/ WaitNoChild \/ WaitInterrupted \/ RetryWait
  BY <1>2, <1>7 DEF Fork, ForkFails, WaitReturns, WaitNoChild, WaitInterrupted, RetryWait, Goto,
                    ringVars, inputVars, mainVars
<1>8. CASE ChildStep \/ UNCHANGED shellVars
  <2>1. UNCHANGED << typed, log, phase, input_buffer, pc >>
    BY <1>8 DEF ChildStep, ChildExec, ChildExecFails, ChildReads, ChildExits, shellVars, ringVars,
                inputVars, mainVars
  <2> QED BY <2>1 DEF RecordedInv, Pending, TypedLines, Nonblank
<1> QED BY <1>1, <1>3, <1>4, <1>5, <1>6, <1>7, <1>8, <1>9 DEF ShellNext, MainStep, Getline

(* The history is the non-empty lines typed, in their order, also when a command
   reads from the same input, a line is refused or the memory is gone: for
   sessions of any length. *)
THEOREM RecordsWhatWasTypedAlways == ShellSpec => []RecordsWhatWasTyped
  BY ShellInvariant, RecordedInitInv, RecordedNextInv, RecordedIs, PTL DEF ShellSpec
-----------------------------------------------------------------------------
(* Why a session ends: the safety half of EndsOrCommandRuns                 *)

(* What a session has left: input to take and to make lines of, the way of the line
   in hand through main, the child's life, and input a command could still read. *)
InputLeft == 2 * (MaxCommands - bufpos) + (IF taken = {} THEN 0 ELSE 1)
Stage     == [start |-> 7, record |-> 7, parse |-> 6, dispatch |-> 5, execute |-> 4, wait |-> 3,
              eintr |-> 3, prompt |-> 2, cleanup |-> 1, done |-> 0][pc]
Life      == [forked |-> 2, running |-> 1, zombie |-> 0, none |-> 0][child]
Unread    == MaxCommands - offset

SessionIsBounded ==
    InputLeft \in Nat /\ Stage \in Nat /\ Life \in Nat /\ Unread \in Nat

(* The first of the four that a step changes becomes less, and every step changes
   one, except that a signal may send main round the waitpid loop: nothing else
   can keep main, the child and the stdin they share going on the same input. *)
SessionAdvances ==
    \/ InputLeft' < InputLeft
    \/ /\ InputLeft' = InputLeft
       /\ \/ Stage' < Stage
          \/ /\ Stage' = Stage
             /\ \/ Life' < Life
                \/ Life' = Life /\ Unread' < Unread
    \/ /\ << pc, pc' >> \in {<< "wait", "eintr" >>, << "eintr", "wait" >>}
       /\ UNCHANGED << inputVars, childVars >>

(* Everything that is left is a number. *)
LEMMA SessionCounts == ShellInv => SessionIsBounded
<1> SUFFICES ASSUME ShellInv PROVE SessionIsBounded
  OBVIOUS
<1>1. InputLeft \in Nat /\ Unread \in Nat
  BY MaxCommandsAssumption DEF ShellInv, ShellTypeOK, InputBounds, InputLeft, Unread
<1>2. Stage \in Nat
  BY DEF ShellInv, ShellTypeOK, Stage
<1>3. Life \in Nat
  BY DEF ShellInv, ShellTypeOK, Life
<1> QED BY <1>1, <1>2, <1>3 DEF SessionIsBounded

(* A step of main either takes some input or brings main further with the line it has. *)
LEMMA SessionStep == ShellInv /\ ShellNext => SessionAdvances
<1> SUFFICES ASSUME ShellInv, ShellNext PROVE SessionAdvances
  OBVIOUS
<1>1. /\ bufpos \in Nat /\ bufend \in Nat /\ offset \in Nat /\ MaxCommands \in Nat
      /\ bufpos <= bufend /\ bufend <= offset
  BY MaxCommandsAssumption DEF ShellInv, ShellTypeOK, InputBounds
<1>0. \A m, a, b \in Nat : \A x, y \in {0, 1} : a < b => 2 * (m - b) + x < 2 * (m - a) + y
  OBVIOUS
<1>f. ASSUME bufpos' \in Nat, bufpos < bufpos' PROVE SessionAdvances
  <2>1. /\ (IF taken = {} THEN 0 ELSE 1) \in {0, 1}
        /\ (IF taken' = {} THEN 0 ELSE 1) \in {0, 1}
    OBVIOUS
  <2>2. InputLeft' < InputLeft
    BY <1>0, <1>1, <1>f, <2>1 DEF InputLeft
  <2> QED BY <2>2 DEF SessionAdvances
<1>2. ASSUME NEW l \in Line, GetlineLine(l) PROVE SessionAdvances
  <2>1. PICK to \in bufpos + 1 .. bufend : StoreUpTo(to)
    BY <1>2 DEF GetlineLine
  <2>2. bufpos' = to
    BY <2>1 DEF StoreUpTo
  <2> QED BY <1>1, <1>f, <2>1, <2>2
<1>13. CASE GetlineTakes
  <2>1. bufpos < bufend /\ bufpos' = bufend
    BY <1>13 DEF GetlineTakes, StoreUpTo
  <2> QED BY <1>1, <1>f, <2>1
<1>11. ASSUME NEW l \in Line, GetlineRest(l) PROVE SessionAdvances
  <2>1. bufpos' = bufpos /\ taken # {} /\ taken' = {}
    BY <1>11 DEF GetlineRest, ReturnLine
  <2>2. InputLeft' < InputLeft
    BY <1>1, <2>1 DEF InputLeft
  <2> QED BY <2>2 DEF SessionAdvances
<1>12. CASE GetlineRefill
  <2>1. PICK k \in 1 .. MaxCommands - offset : offset' = offset + k
    BY <1>12 DEF GetlineRefill
  <2>2. bufpos' = offset /\ pc' = pc /\ child' = child /\ taken' = taken
    BY <1>12 DEF GetlineRefill, childVars
  <2>3. CASE offset = bufpos
    <3>1. InputLeft' = InputLeft /\ Stage' = Stage /\ Life' = Life
      BY <2>2, <2>3 DEF InputLeft, Stage, Life
    <3>2. Unread' < Unread
      BY <1>1, <2>1 DEF Unread
    <3> QED BY <3>1, <3>2 DEF SessionAdvances
  <2>4. CASE bufpos < offset
    BY <1>1, <1>f, <2>2, <2>4
  <2> QED BY <1>1, <2>3, <2>4
<1>3. ASSUME bufpos' = bufpos, taken' = taken, Stage' < Stage PROVE SessionAdvances
  BY <1>3 DEF SessionAdvances, InputLeft
<1>4. CASE Start \/ Record
  <2>1. /\ pc \in {"start", "record"} /\ pc' \in {"prompt", "parse", "done"}
        /\ bufpos' = bufpos /\ taken' = taken
    BY <1>4 DEF Start, Record, inputVars
  <2> QED BY <1>3, <2>1 DEF Stage
<1>5. CASE GetlineEof \/ GetlineFails \/ Cleanup
  <2>1. /\ << pc, pc' >> \in {<< "prompt", "cleanup" >>, << "cleanup", "done" >>}
        /\ bufpos' = bufpos /\ taken' = taken
    BY <1>5 DEF GetlineEof, GetlineFails, Cleanup, Goto, inputVars
  <2> QED BY <1>3, <2>1 DEF Stage
<1>6. CASE Parse \/ Dispatch
  <2>1. /\ \/ pc = "parse" /\ pc' \in {"dispatch", "prompt"}
           \/ pc = "dispatch" /\ pc' \in {"cleanup", "prompt", "execute"}
        /\ bufpos' = bufpos /\ taken' = taken
    BY <1>6 DEF Parse, Dispatch, BuiltinExit, BuiltinHistory, BuiltinRecall, BuiltinNone, Goto, inputVars
  <2> QED BY <1>3, <2>1 DEF Stage
<1>7. CASE Fork \/ ForkFails \/ WaitReturns \/ WaitNoChild
  <2>1. /\ \/ pc = "execute" /\ pc' \in {"wait", "prompt"}
           \/ pc = "wait" /\ pc' = "prompt"
        /\ bufpos' = bufpos /\ taken' = taken
    BY <1>7 DEF Fork, ForkFails, WaitReturns, WaitNoChild, Goto, inputVars
  <2> QED BY <1>3, <2>1 DEF Stage
<1>8. CASE WaitInterrupted \/ RetryWait
  BY <1>8 DEF WaitInterrupted, RetryWait, Goto, SessionAdvances
<1>9. CASE ChildExec \/ ChildExecFails \/ ChildExits
  <2>1. /\ \/ child = "forked" /\ child' \in {"running", "zombie", "none"}
           \/ child = "running" /\ child' \in {"zombie", "none"}
        /\ bufpos' = bufpos /\ taken' = taken /\ pc' = pc
    BY <1>9 DEF ChildExec, ChildExecFails, ChildExits, Ended, inputVars
  <2>2. Life' < Life
    BY <2>1 DEF Life
  <2> QED BY <2>1, <2>2 DEF SessionAdvances, InputLeft, Stage
<1>10. CASE ChildReads
  <2>1. PICK k \in 1 .. MaxCommands - offset : offset' = offset + k
    BY <1>10 DEF ChildReads
  <2>2. bufpos' = bufpos /\ taken' = taken /\ pc' = pc /\ child' = child
    BY <1>10 DEF ChildReads, childVars
  <2>3. Unread' < Unread
    BY <1>1, <2>1 DEF Unread
  <2>4. InputLeft' = InputLeft /\ Stage' = Stage /\ Life' = Life
    BY <2>2 DEF InputLeft, Stage, Life
  <2> QED BY <2>3, <2>4 DEF SessionAdvances
<1> QED BY <1>2, <1>4, <1>5, <1>6, <1>7, <1>8, <1>9, <1>10, <1>11, <1>12, <1>13 DEF ShellNext, MainStep, Getline, ChildStep

(* For any input, blocks of stdio and signals: but for waits that signals interrupt, a
   session takes finitely many steps. *)
THEOREM SessionCannotGoOn == ShellSpec => []SessionIsBounded /\ [][SessionAdvances]_shellVars
  BY ShellInvariant, SessionCounts, SessionStep, PTL DEF ShellSpec
=============================================================================
