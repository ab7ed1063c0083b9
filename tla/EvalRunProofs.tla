---------------------------- MODULE EvalRunProofs ----------------------------
(***************************************************************************)
(* What the output file of an evaluation holds after any number of runs,    *)
(* stops and kills, for every list of items.                                *)
(***************************************************************************)
EXTENDS EvalRun, Lemmas

(* The records that can be read, and the ids of those among the first lines. *)
Line    == Rec \cup {Junk}
FileIds == { file[n].id : n \in { m \in DOMAIN file : IsRec(file[m]) } }

(* The last line is a record nobody else has. *)
TailInv == IsRec(tail) => tail.id \notin FileIds

(* The file itself has no item twice. *)
FileInv ==
    \A m, n \in DOMAIN file :
       IsRec(file[m]) /\ IsRec(file[n]) /\ file[m].id = file[n].id => m = n

(* What is to do was not done, and the record in hand is of the item the loop
   is at. *)
TodoInv ==
    /\ \A i \in todo : i \notin FileIds /\ (IsRec(tail) => tail.id # i)
    /\ pc \in {"asking", "answered"} => todo # {}
    /\ pc = "answered" => rec \in Rec /\ rec.id = Item

(* Unless a write was torn every line is a record, and a run has each item in
   the file or still to do. *)
WholeInv ==
    ~torn =>
       /\ tail = NoTail /\ \A n \in DOMAIN file : IsRec(file[n])
       /\ pc # "down" => Ids \subseteq FileIds \cup todo
       /\ code = 0 => pc = "down" /\ Ids \subseteq FileIds

(* The inductive invariant.  It speaks of the file and the unterminated line
   apart, as a write after a torn line loses both. *)
EvalInv == /\ TypeOK
           /\ FileInv
           /\ TailInv
           /\ TodoInv
           /\ WholeInv

(* The lines are those of the file, and the unterminated one if there is one. *)
LEMMA LinesAre ==
    ASSUME TypeOK
    PROVE  /\ Lines \in Seq(Line)
           /\ tail = NoTail => Lines = file
           /\ tail # NoTail => /\ DOMAIN Lines = DOMAIN file \cup {Len(file) + 1}
                               /\ Lines[Len(file) + 1] = tail
           /\ \A n \in DOMAIN file : n \in DOMAIN Lines /\ Lines[n] = file[n]
<1>1. CASE tail = NoTail
  <2>1. Lines = file
    BY <1>1 DEF Lines, TypeOK
  <2> QED BY <1>1, <2>1 DEF TypeOK, Line
<1>2. CASE tail # NoTail
  <2>1. Lines = file \o << tail >> /\ << tail >> \in Seq(Line) /\ file \in Seq(Line)
    BY <1>2 DEF Lines, TypeOK, Line
  <2> QED BY <1>2, <2>1
<1> QED BY <1>1, <1>2

(* done is what FileIds and the last line hold. *)
LEMMA DoneIs ==
    ASSUME TypeOK
    PROVE  Done = FileIds \cup (IF IsRec(tail) THEN {tail.id} ELSE {})
<1>1. CASE tail = NoTail
  <2>1. Lines = file /\ ~IsRec(tail)
    BY <1>1, LinesAre DEF IsRec, NoTail
  <2> QED BY <2>1 DEF Done, FileIds
<1>2. CASE tail # NoTail
  <2>1. /\ DOMAIN Lines = DOMAIN file \cup {Len(file) + 1}
        /\ Lines[Len(file) + 1] = tail
        /\ \A n \in DOMAIN file : Lines[n] = file[n]
    BY <1>2, LinesAre
  <2> QED BY <2>1 DEF Done, FileIds
<1> QED BY <1>1, <1>2

(* The records of a file that grew by one line. *)
LEMMA FileGrows ==
    ASSUME file \in Seq(Line), NEW x \in Line, file' = Append(file, x)
    PROVE  /\ DOMAIN file' = DOMAIN file \cup {Len(file) + 1}
           /\ Len(file) + 1 \notin DOMAIN file
           /\ file'[Len(file) + 1] = x
           /\ \A n \in DOMAIN file : file'[n] = file[n]
           /\ FileIds' = FileIds \cup (IF IsRec(x) THEN {x.id} ELSE {})
<1>1. /\ DOMAIN file' = DOMAIN file \cup {Len(file) + 1}
      /\ Len(file) + 1 \notin DOMAIN file
      /\ file'[Len(file) + 1] = x
      /\ \A n \in DOMAIN file : file'[n] = file[n]
  OBVIOUS
<1> QED BY <1>1 DEF FileIds

(* What one line adds to the cost. *)
Adds(l) == IF IsRec(l) THEN l.cost ELSE 0

LEMMA AddsNat == \A l \in Line : Adds(l) \in Nat
<1>1. Cost \subseteq Nat
  BY ItemsAssumption
<1>2. ~IsRec(Junk)
  BY DEF IsRec, Junk
<1>3. \A l \in Rec : l.cost \in Nat
  BY <1>1 DEF Rec
<1> QED BY <1>2, <1>3 DEF Line, Adds

(* The cost is the last of the partial sums. *)
LEMMA PartialSums ==
    ASSUME NEW L \in Seq(Line)
    PROVE  \E c \in [0 .. Len(L) -> Nat] :
              /\ c[0] = 0 /\ CostOf(L) = c[Len(L)]
              /\ \A n \in 1 .. Len(L) : c[n] = c[n - 1] + Adds(L[n])
<1> DEFINE D == 1 .. Len(L)
           Body(f) == [s \in SUBSET D |->
                         IF s = {} THEN 0
                         ELSE IF IsRec(L[Max(s)]) THEN f[s \ {Max(s)}] + L[Max(s)].cost
                              ELSE f[s \ {Max(s)}]]
           F == CHOOSE f : f = Body(f)
<1>1. DOMAIN L = D /\ Len(L) \in Nat /\ \A n \in D : L[n] \in Line
  OBVIOUS
<1>2. \A l \in Line : Adds(l) \in Nat
  BY AddsNat
<1>3. CostOf(L) = F[D]
  BY <1>1 DEF CostOf, FoldLeft, MapThenFoldSet
<1>4. F = Body(F)
  <2> DEFINE g == [p \in D \X Nat |-> p[2] + Adds(L[p[1]])]
  <2>1. \A n \in D, v \in Nat : g[<< n, v >>] = v + Adds(L[n]) /\ v + Adds(L[n]) \in Nat
    BY <1>1, <1>2
  <2>2. g \in [D \X Nat -> Nat]
    BY <1>1, <1>2
  <2> HIDE DEF g, Body, F
  <2>3. PICK f \in [SUBSET D -> Nat] : FoldsLargest(f, Len(L), 0, g)
    BY <1>1, <2>2, FoldFromTheLast
  <2>4. ASSUME NEW s \in SUBSET D
        PROVE  f[s] = Body(f)[s]
    <3>1. CASE s = {}
      BY <3>1, <2>3 DEF FoldsLargest, Body
    <3>2. CASE s # {}
      <4>1. Max(s) \in D
        BY <3>2, <1>1, MaxOfNumbers
      <4>2. f[s \ {Max(s)}] \in Nat
        OBVIOUS
      <4>3. f[s] = f[s \ {Max(s)}] + Adds(L[Max(s)])
        BY <3>2, <2>1, <2>3, <4>1, <4>2 DEF FoldsLargest
      <4>4. Body(f)[s] = IF IsRec(L[Max(s)]) THEN f[s \ {Max(s)}] + L[Max(s)].cost
                        ELSE f[s \ {Max(s)}]
        BY <3>2 DEF Body
      <4> QED BY <4>2, <4>3, <4>4 DEF Adds
    <3> QED BY <3>1, <3>2
  <2>5. f = Body(f)
    BY <2>4 DEF Body
  <2> QED BY <2>5 DEF F
<1> HIDE DEF F
<1>5. F[{}] = 0
  BY <1>4
<1>6. ASSUME NEW n \in D
      PROVE  F[1 .. n] = IF IsRec(L[n]) THEN F[1 .. n - 1] + L[n].cost ELSE F[1 .. n - 1]
  <2>1. n \in Nat /\ n \in 1 .. n /\ 1 .. n \in SUBSET D
    BY <1>1
  <2>3. (1 .. n) \ {n} = 1 .. n - 1
    BY <2>1
  <2>2. Max(1 .. n) = n
    BY <2>1, MaxIs
  <2> QED BY <1>4, <2>1, <2>2, <2>3
<1> DEFINE c == [n \in 0 .. Len(L) |-> F[1 .. n]]
           Good == { n \in 0 .. Len(L) : c[n] \in Nat }
<1>7. c[0] = 0 /\ 0 \in 0 .. Len(L)
  <2>1. 1 .. 0 = {}
    OBVIOUS
  <2> QED BY <1>1, <1>5, <2>1
<1>8. ASSUME NEW n \in D, c[n - 1] \in Nat
      PROVE  c[n] = c[n - 1] + Adds(L[n]) /\ c[n] \in Nat
  <2>1. n - 1 \in 0 .. Len(L) /\ n \in 0 .. Len(L) /\ Adds(L[n]) \in Nat
    BY <1>1, <1>2
  <2>2. c[n - 1] = F[1 .. n - 1] /\ c[n] = F[1 .. n]
    BY <2>1
  <2> HIDE DEF c
  <2> QED BY <1>6, <1>8, <2>1, <2>2 DEF Adds
<1>9. CostOf(L) = c[Len(L)]
  BY <1>1, <1>3
<1> HIDE DEF c
<1>10. \A n \in 0 .. Len(L) : n \in Good
  <2>1. 0 \in Good
    BY <1>7
  <2>2. ASSUME NEW n \in 0 .. Len(L) - 1, n \in Good
        PROVE  n + 1 \in Good
    <3>1. n + 1 \in D /\ n + 1 \in 0 .. Len(L) /\ (n + 1) - 1 = n
      BY <1>1
    <3> QED BY <2>2, <3>1, <1>8
  <2> HIDE DEF Good
  <2> QED BY <1>1, <2>1, <2>2, UpTo
<1>11. c \in [0 .. Len(L) -> Nat]
  BY <1>10 DEF c
<1>12. \A n \in D : n - 1 \in 0 .. Len(L)
  BY <1>1
<1> QED BY <1>7, <1>8, <1>9, <1>11, <1>12

(* The cost of no line, and of one line more. *)
LEMMA CostOfNone == CostOf(<< >>) = 0
<1>1. << >> \in Seq(Line) /\ Len(<< >>) = 0
  OBVIOUS
<1> QED BY <1>1, PartialSums

LEMMA CostOfAppend ==
    ASSUME NEW L \in Seq(Line), NEW x \in Line
    PROVE  /\ CostOf(L) \in Nat /\ Adds(x) \in Nat
           /\ CostOf(Append(L, x)) = CostOf(L) + Adds(x)
<1> DEFINE M == Append(L, x)
           N == Len(L)
<1>1. M \in Seq(Line) /\ Len(M) = N + 1 /\ M[N + 1] = x /\ N \in Nat /\ \A n \in 1 .. N : M[n] = L[n]
  OBVIOUS
<1> HIDE DEF M
<1>2. PICK c \in [0 .. N -> Nat] : /\ c[0] = 0 /\ CostOf(L) = c[N]
                                  /\ \A n \in 1 .. N : c[n] = c[n - 1] + Adds(L[n])
  BY PartialSums
<1>3. PICK d \in [0 .. Len(M) -> Nat] :
        /\ d[0] = 0 /\ CostOf(M) = d[Len(M)]
        /\ \A n \in 1 .. Len(M) : d[n] = d[n - 1] + Adds(M[n])
  BY <1>1, PartialSums
<1> DEFINE Good == { n \in 0 .. N : c[n] = d[n] }
<1>4. N \in Good
  <2>1. 0 \in Good
    BY <1>1, <1>2, <1>3
  <2>2. ASSUME NEW n \in 0 .. N - 1, n \in Good
        PROVE  n + 1 \in Good
    <3>1. n + 1 \in 1 .. N /\ n + 1 \in 1 .. N + 1 /\ (n + 1) - 1 = n /\ n + 1 \in 0 .. N
      BY <1>1
    <3>2. c[n + 1] = c[n] + Adds(L[n + 1]) /\ d[n + 1] = d[n] + Adds(M[n + 1])
      <4>1. n + 1 \in 1 .. Len(M)
        BY <3>1, <1>1
      <4> QED BY <3>1, <4>1, <1>2, <1>3
    <3> QED BY <2>2, <3>1, <3>2, <1>1
  <2> HIDE DEF Good
  <2>3. \A n \in 0 .. N : n \in Good
    BY <1>1, <2>1, <2>2, UpTo
  <2> QED BY <1>1, <2>3
<1>5. N + 1 \in 1 .. N + 1 /\ (N + 1) - 1 = N /\ c[N] \in Nat
  BY <1>1
<1>6. CostOf(M) = CostOf(L) + Adds(x)
  BY <1>1, <1>2, <1>3, <1>4, <1>5
<1>7. Adds(x) \in Nat
  BY AddsNat
<1> QED BY <1>2, <1>5, <1>6, <1>7 DEF M

(* The recorded cost is that of the file and of the unterminated line. *)
LEMMA RecordedCostIs ==
    ASSUME TypeOK
    PROVE  /\ CostOf(file) \in Nat /\ Adds(tail) \in Nat
           /\ RecordedCost = CostOf(file) + Adds(tail)
<1>1. file \in Seq(Line) /\ Junk \in Line
  BY DEF TypeOK, Line
<1>2. CostOf(file) \in Nat
  BY <1>1, CostOfAppend
<1>3. CASE tail = NoTail
  <2>1. Lines = file /\ Adds(tail) = 0
    BY <1>3, LinesAre DEF Adds, IsRec, NoTail
  <2> QED BY <1>2, <2>1 DEF RecordedCost
<1>4. CASE tail # NoTail
  <2>1. tail \in Line /\ Lines = Append(file, tail)
    BY <1>1, <1>4 DEF Lines, TypeOK, Line
  <2> QED BY <1>1, <2>1, CostOfAppend DEF RecordedCost
<1> QED BY <1>3, <1>4

(* The loop is at an item it has to do. *)
LEMMA ItemToDo ==
    ASSUME todo \subseteq Ids, todo # {}
    PROVE  Item \in todo
<1> DEFINE Left == { n \in DOMAIN Items : Items[n] \in todo }
<1>1. Left \subseteq Nat /\ Left # {} /\ DOMAIN Items = 1 .. Len(Items) /\ Len(Items) \in Nat
  BY ItemsAssumption DEF Ids
<1>2. PICK n \in Left : \A m \in Left : ~(m < n)
  BY <1>1, LeastNumber
<1>3. \A m \in 1 .. n - 1 : m \in DOMAIN Items /\ m < n
  BY <1>1, <1>2
<1>4. Items[n] \in todo /\ \A m \in 1 .. n - 1 : Items[m] \notin todo
  BY <1>2, <1>3
<1> QED BY <1>2, <1>4 DEF Item

(* The invariant holds before the first run. *)
LEMMA EvalInitInv == Init => EvalInv
<1> SUFFICES ASSUME Init PROVE EvalInv
  OBVIOUS
<1>1. TypeOK
  <2>1. \A S : << >> \in Seq(S)
    OBVIOUS
  <2>2. file \in Seq(Rec \cup {Junk}) /\ tail \in Rec \cup {Junk, NoTail} /\ rec \in Rec \cup {NoTail}
    BY <2>1 DEF Init
  <2>3. crashes \in 0 .. MaxCrashes /\ gone \in 0 .. MaxGone
    BY ItemsAssumption DEF Init
  <2>4. code \in {0, 1, 2, 3, Running} /\ torn \in BOOLEAN /\ todo \subseteq Ids
    BY DEF Init
  <2> QED BY <2>2, <2>3, <2>4 DEF Init, TypeOK
<1>2. FileInv /\ TailInv
  BY DEF Init, FileInv, TailInv, IsRec, NoTail
<1>3. TodoInv /\ WholeInv
  BY DEF Init, TodoInv, WholeInv, Running
<1> QED BY <1>1, <1>2, <1>3 DEF EvalInv

(* Every step preserves it. *)
LEMMA EvalNextInv == EvalInv /\ [Next]_evalVars => EvalInv'
<1> SUFFICES ASSUME EvalInv, [Next]_evalVars PROVE EvalInv'
  OBVIOUS
<1>a. todo # {} => Item \in todo /\ Item \in Ids
  BY ItemToDo DEF EvalInv, TypeOK
<1>b. file' = file => FileIds' = FileIds
  BY DEF FileIds
<1>c. todo' = todo => Item' = Item
  BY DEF Item
<1>d. FileIds \subseteq Ids
  BY DEF EvalInv, TypeOK, FileIds, Rec, Junk, IsRec
<1> USE <1>a, <1>b, <1>c, ItemsAssumption DEF EvalInv, Running
<1>1. CASE Start
  <2>1. Done = FileIds \cup (IF IsRec(tail) THEN {tail.id} ELSE {})
    BY DoneIs
  <2> QED BY <1>1, <2>1 DEF Start, TypeOK, FileInv, TailInv, TodoInv, WholeInv, IsRec, NoTail
<1>2. CASE Finish
  BY <1>2 DEF Finish, Exit, TypeOK, FileInv, TailInv, TodoInv, WholeInv
<1>3. CASE Leak
  <2>1. rec' \in Rec /\ rec'.id = Item
    BY <1>3 DEF Leak, Rec
  <2> QED BY <1>3, <2>1 DEF Leak, TypeOK, FileInv, TailInv, TodoInv, WholeInv
<1>4. CASE Ask
  BY <1>4 DEF Ask, TypeOK, FileInv, TailInv, TodoInv, WholeInv
<1>5. CASE Receive
  <2>1. rec' \in Rec /\ rec'.id = Item
    BY <1>5 DEF Receive, Rec, TodoInv
  <2> QED BY <1>5, <2>1 DEF Receive, TypeOK, FileInv, TailInv, TodoInv, WholeInv
<1>6. CASE ServerGone
  BY <1>6 DEF ServerGone, Exit, TypeOK, FileInv, TailInv, TodoInv, WholeInv
<1>7. CASE Write
  <2> DEFINE x == IF tail = NoTail THEN rec ELSE Junk
  <2>1. /\ x \in Line /\ file \in Seq(Line) /\ file' = Append(file, x) /\ tail' = NoTail
        /\ rec \in Rec /\ rec.id = Item /\ Item \in todo
        /\ IsRec(x) => x.id = Item /\ Item \notin FileIds
    BY <1>7 DEF Write, Line, TypeOK, TodoInv, IsRec, Junk
  <2> HIDE DEF x
  <2>2. /\ DOMAIN file' = DOMAIN file \cup {Len(file) + 1}
        /\ Len(file) + 1 \notin DOMAIN file
        /\ file'[Len(file) + 1] = x
        /\ \A n \in DOMAIN file : file'[n] = file[n]
        /\ FileIds' = FileIds \cup (IF IsRec(x) THEN {x.id} ELSE {})
    BY <2>1, FileGrows
  <2>3. TypeOK'
    BY <1>7, <2>1 DEF Write, Exit, TypeOK, Line
  <2>4. FileInv'
    BY <2>1, <2>2 DEF FileInv, FileIds
  <2>5. TailInv'
    BY <2>1 DEF TailInv, IsRec, NoTail
  <2>6. TodoInv'
    BY <1>7, <2>1, <2>2 DEF Write, Exit, TodoInv, IsRec, NoTail
  <2>7. WholeInv'
    <3> SUFFICES ASSUME ~torn PROVE WholeInv'
      BY <1>7 DEF Write, WholeInv
    <3>1. x = rec /\ IsRec(x)
      BY <2>1 DEF x, WholeInv, IsRec, Rec
    <3>2. \A n \in DOMAIN file' : IsRec(file'[n])
      BY <2>2, <3>1 DEF WholeInv
    <3>3. Ids \subseteq FileIds' \cup todo'
      BY <1>7, <2>1, <2>2, <3>1 DEF Write, WholeInv
    <3> QED BY <1>7, <3>2, <3>3 DEF Write, Exit, WholeInv
  <2> QED BY <2>3, <2>4, <2>5, <2>6, <2>7
<1>8. CASE Crash
  <2>1. FileInv'
    BY <1>8 DEF Crash, FileInv
  <2>4. TypeOK'
    <3>1. pc = "answered" => rec \in Rec
      BY DEF TodoInv
    <3>2. tail' \in Rec \cup {Junk, NoTail} /\ rec' \in Rec \cup {NoTail} /\ torn' \in BOOLEAN
      BY <1>8, <3>1 DEF Crash, TypeOK
    <3>3. crashes' \in 0 .. MaxCrashes
      BY <1>8 DEF Crash, TypeOK
    <3> QED BY <1>8, <3>2, <3>3 DEF Crash, Exit, TypeOK
  <2>2. TailInv'
    BY <1>8 DEF Crash, TailInv, TodoInv, IsRec, Junk
  <2>3. TodoInv' /\ WholeInv'
    BY <1>8 DEF Crash, Exit, TodoInv, WholeInv, TypeOK
  <2> QED BY <2>1, <2>2, <2>3, <2>4
<1>9. CASE UNCHANGED evalVars
  BY <1>9 DEF evalVars, TypeOK, FileInv, TailInv, TodoInv, WholeInv
<1> QED BY <1>1, <1>2, <1>3, <1>4, <1>5, <1>6, <1>7, <1>8, <1>9 DEF Next, Step

(* The invariant holds in every reachable state. *)
LEMMA EvalInvariant == Spec => []EvalInv
BY EvalInitInv, EvalNextInv, PTL DEF Spec

(* Type correctness, for every list of items and every cost. *)
THEOREM EvalTypeCorrect == Spec => []TypeOK
<1>1. EvalInv => TypeOK
  BY DEF EvalInv
<1> QED BY EvalInvariant, <1>1, PTL

(* No item ever has two lines that can be read. *)
THEOREM EvalOneRecordPerItem == Spec => []OneRecordPerItem
<1>1. EvalInv => OneRecordPerItem
  <2> SUFFICES ASSUME EvalInv PROVE OneRecordPerItem
    OBVIOUS
  <2>1. CASE tail = NoTail
    BY <2>1, LinesAre DEF EvalInv, FileInv, OneRecordPerItem
  <2>2. CASE tail # NoTail
    <3>1. /\ DOMAIN Lines = DOMAIN file \cup {Len(file) + 1}
          /\ Lines[Len(file) + 1] = tail
          /\ \A n \in DOMAIN file : Lines[n] = file[n]
      BY <2>2, LinesAre DEF EvalInv
    <3> QED BY <3>1 DEF EvalInv, FileInv, TailInv, FileIds, OneRecordPerItem
  <2> QED BY <2>1, <2>2
<1> QED BY EvalInvariant, <1>1, PTL

(* Without a torn write stats.py can read the file, and exit 0 means every item
   is in it. *)
THEOREM EvalCleanEndIsComplete == Spec => []CleanEndIsComplete
<1>1. EvalInv => CleanEndIsComplete
  <2> SUFFICES ASSUME EvalInv, ~torn PROVE StatsLoads /\ (code = 0 => Done = Ids)
    BY DEF CleanEndIsComplete
  <2>1. Lines = file /\ ~IsRec(tail)
    BY LinesAre DEF EvalInv, WholeInv, IsRec, NoTail
  <2>2. Done = FileIds
    BY <2>1, DoneIs DEF EvalInv
  <2>3. FileIds \subseteq Ids
    BY DEF EvalInv, TypeOK, FileIds, Rec, Junk, IsRec
  <2> QED BY <2>1, <2>2, <2>3 DEF EvalInv, WholeInv, StatsLoads
<1> QED BY EvalInvariant, <1>1, PTL

(* What a run has spent, as a number. *)
SpentInv == pc # "down" => spent \in Nat /\ SpentCoversFile

(* It covers the file in every reachable state. *)
LEMMA SpentNextInv == EvalInv /\ SpentInv /\ [Next]_evalVars => SpentInv'
<1> SUFFICES ASSUME EvalInv, SpentInv, [Next]_evalVars PROVE SpentInv'
  OBVIOUS
<1> USE DEF SpentInv, SpentCoversFile
<1>1. TypeOK /\ TypeOK'
  BY EvalNextInv DEF EvalInv
<1>2. file' = file /\ tail' = tail => RecordedCost' = RecordedCost
  BY DEF RecordedCost, Lines
<1>3. /\ CostOf(file) \in Nat /\ Adds(tail) \in Nat
      /\ RecordedCost = CostOf(file) + Adds(tail)
  BY <1>1, RecordedCostIs
<1>4. CASE Start
  BY <1>2, <1>3, <1>4 DEF Start
<1>5. CASE Leak \/ Ask \/ Receive
  BY <1>2, <1>5 DEF Leak, Ask, Receive
<1>6. CASE Finish \/ ServerGone \/ Crash
  BY <1>6 DEF Finish, ServerGone, Crash, Exit
<1>7. CASE Write
  <2>1. rec \in Rec /\ rec \in Line /\ Junk \in Line /\ file \in Seq(Line) /\ pc # "down"
    BY <1>1, <1>7 DEF Write, EvalInv, TodoInv, Line, TypeOK
  <2>2. Adds(rec) = rec.cost /\ rec.cost \in Nat /\ Adds(Junk) = 0 /\ Adds(NoTail) = 0
    <3>1. IsRec(rec) /\ ~IsRec(Junk) /\ ~IsRec(NoTail)
      BY <2>1 DEF IsRec, Rec, Junk, NoTail
    <3> QED BY <2>1, <3>1, AddsNat DEF Adds
  <2>3. RecordedCost' = CostOf(file') + Adds(tail')
    <3>1. Lines' = file'
      BY <1>7, <2>1 DEF Write, Lines
    <3>2. file' \in Seq(Line)
      BY <1>1 DEF TypeOK, Line
    <3>3. CostOf(file') \in Nat
      BY <3>2, <2>1, CostOfAppend
    <3> QED BY <1>7, <2>2, <3>1, <3>3 DEF Write, RecordedCost
  <2>4. CASE tail = NoTail
    <3>1. CostOf(file') = CostOf(file) + rec.cost
      BY <1>7, <2>1, <2>2, <2>4, CostOfAppend DEF Write
    <3> QED BY <1>3, <1>7, <2>1, <2>2, <2>3, <2>4, <3>1 DEF Write
  <2>5. CASE tail # NoTail
    <3>1. CostOf(file') = CostOf(file) /\ torn
      BY <1>3, <1>7, <2>1, <2>2, <2>5, CostOfAppend DEF Write, EvalInv, WholeInv
    <3> QED BY <1>3, <1>7, <2>1, <2>2, <2>3, <3>1 DEF Write
  <2> QED BY <2>4, <2>5
<1>8. CASE UNCHANGED evalVars
  BY <1>2, <1>8 DEF evalVars
<1> QED BY <1>4, <1>5, <1>6, <1>7, <1>8 DEF Next, Step

(* The cost a run counts covers what the file says, and is exactly that unless a
   write was torn, for every list of items and any costs. *)
THEOREM EvalSpentCoversFile == Spec => []SpentCoversFile
<1>1. Init => SpentInv
  BY DEF Init, SpentInv
<1>2. SpentInv => SpentCoversFile
  BY DEF SpentInv, SpentCoversFile
<1> QED BY <1>1, <1>2, EvalInvariant, EvalNextInv, SpentNextInv, PTL DEF Spec

-----------------------------------------------------------------------------
(* What kills can spoil                                                     *)

Unreadable(ls) == Cardinality(Places(ls, {Junk}))

(* The lines of the file that a run warns about are no more than the kills: the
   last line, when it has no newline, is the only one the next write can spoil. *)
OneBadLinePerCrash == Unreadable(Lines) <= crashes

DamageInv == Unreadable(file) + (IF tail = NoTail THEN 0 ELSE 1) <= crashes

LEMMA DamageNextInv == EvalInv /\ DamageInv /\ [Next]_evalVars => DamageInv'
<1> SUFFICES ASSUME EvalInv, DamageInv, [Next]_evalVars PROVE DamageInv'
  OBVIOUS
<1>1. file \in Seq(Line) /\ crashes \in Nat /\ Unreadable(file) \in Nat
  BY PlacesFinite DEF EvalInv, TypeOK, Line, Unreadable
<1>2. CASE UNCHANGED << file, tail, crashes >>
  BY <1>2 DEF DamageInv, Unreadable
<1>3. CASE Crash
  <2>1. file' = file /\ crashes' = crashes + 1
    BY <1>3 DEF Crash
  <2>2. Unreadable(file') = Unreadable(file)
    BY <2>1
  <2> QED BY <1>1, <2>1, <2>2 DEF DamageInv
<1>4. CASE Write
  <2>1. /\ file' = Append(file, IF tail = NoTail THEN rec ELSE Junk)
        /\ tail' = NoTail /\ crashes' = crashes /\ rec \in Rec
    BY <1>4 DEF Write, EvalInv, TodoInv
  <2>2. rec \in Line /\ Junk \in Line /\ rec # Junk
    BY <2>1 DEF Line, Rec, Junk
  <2>3. CASE tail = NoTail
    <3>1. Unreadable(Append(file, rec)) = Unreadable(file) + 0
      <4>1. rec \notin {Junk}
        BY <2>2
      <4> QED BY <1>1, <2>2, <4>1, PlacesAppend DEF Unreadable
    <3> QED BY <1>1, <2>1, <2>3, <3>1 DEF DamageInv
  <2>4. CASE tail # NoTail
    <3>1. Unreadable(Append(file, Junk)) = Unreadable(file) + 1
      BY <1>1, <2>2, PlacesAppend DEF Unreadable
    <3> QED BY <1>1, <2>1, <2>4, <3>1 DEF DamageInv
  <2> QED BY <2>3, <2>4
<1> QED BY <1>2, <1>3, <1>4 DEF Next, Step, Start, Finish, Leak, Ask, Receive, ServerGone, Exit, evalVars

(* It holds in every reachable state. *)
LEMMA DamageInvariant == Spec => []DamageInv
<1>1. Init => DamageInv
  <2>1. Places(<< >>, {Junk}) = {}
    BY DEF Places
  <2>2. Unreadable(<< >>) = 0
    BY <2>1, FS_EmptySet DEF Unreadable
  <2> QED BY <2>2 DEF Init, DamageInv
<1> QED BY <1>1, EvalInvariant, DamageNextInv, PTL DEF Spec

(* Over any sequence of runs a kill spoils one line at most, its own or the one
   before: an answer that was paid for and is whole on disk is lost only to the
   kill that left it without its newline. *)
THEOREM EvalOneBadLinePerCrash == Spec => []OneBadLinePerCrash
<1>1. EvalInv /\ DamageInv => OneBadLinePerCrash
  <2> SUFFICES ASSUME EvalInv, DamageInv PROVE OneBadLinePerCrash
    OBVIOUS
  <2>1. file \in Seq(Line) /\ crashes \in Nat /\ Unreadable(file) \in Nat
    BY PlacesFinite DEF EvalInv, TypeOK, Line, Unreadable
  <2>2. CASE tail = NoTail
    <3>1. Lines = file
      BY <2>2, LinesAre DEF EvalInv
    <3> QED BY <2>1, <2>2, <3>1 DEF DamageInv, OneBadLinePerCrash
  <2>3. CASE tail # NoTail
    <3>1. tail \in Line
      BY <2>3 DEF EvalInv, TypeOK, Line
    <3>2. Lines = Append(file, tail)
      <4>1. Lines = file \o << tail >>
        BY <2>3 DEF Lines
      <4> QED BY <2>1, <3>1, <4>1
    <3>3. Unreadable(Lines) <= Unreadable(file) + 1
      BY <2>1, <3>1, <3>2, PlacesAppend DEF Unreadable
    <3>4. Unreadable(Lines) \in Nat
      BY <3>2, <3>1, <2>1, PlacesAppend DEF Unreadable
    <3> QED BY <2>1, <2>3, <3>3, <3>4 DEF DamageInv, OneBadLinePerCrash
  <2> QED BY <2>2, <2>3
<1> QED BY <1>1, EvalInvariant, DamageInvariant, PTL
-----------------------------------------------------------------------------
(* What reruns gain: the safety half of EventuallyComplete                  *)

(* A rerun resumes: over any stops and kills, no request goes out for an item
   that has a record in the file. *)
AsksOnlyMissing == pc \in {"asking", "answered"} => Item \in Ids \ Done

(* An answer that is written makes one more item done, unless a kill had left a
   line unfinished; that costs the answer, once, and the record of that line if
   it lacked nothing but its newline.  Nothing else takes a record away. *)
AnswersCount ==
    /\ \A i \in Done \ Done' : IsRec(tail) /\ tail.id = i
    /\ file' # file => IF tail = NoTail THEN \E i \in Ids \ Done : Done' = Done \cup {i}
                                        ELSE crashes > 0 /\ tail' = NoTail

(* What a run has to do has no record. *)
LEMMA TodoIsMissing ==
    ASSUME EvalInv PROVE \A i \in todo : i \in Ids \ Done
BY DoneIs DEF EvalInv, TodoInv, TypeOK

(* DoneIs as an invariant, to have it after a step too. *)
DoneInv == Done = FileIds \cup (IF IsRec(tail) THEN {tail.id} ELSE {})

(* Only Write and Crash touch the file. *)
LEMMA AnswersNext ==
    ASSUME EvalInv, DamageInv, DoneInv, DoneInv', [Next]_evalVars PROVE AnswersCount
<1>1. TypeOK
  BY DEF EvalInv
<1>2. /\ Done = FileIds \cup (IF IsRec(tail) THEN {tail.id} ELSE {})
      /\ Done' = FileIds' \cup (IF IsRec(tail') THEN {tail'.id} ELSE {})
  BY DEF DoneInv
<1>3. CASE UNCHANGED << file, tail >>
  BY <1>2, <1>3 DEF AnswersCount, FileIds
<1>4. CASE Crash
  <2>1. file' = file /\ FileIds' = FileIds
    BY <1>4 DEF Crash, FileIds
  <2> QED BY <1>2, <2>1 DEF AnswersCount
<1>5. CASE Write
  <2>1. /\ file' = Append(file, IF tail = NoTail THEN rec ELSE Junk)
        /\ tail' = NoTail /\ crashes' = crashes /\ rec \in Rec
        /\ rec.id = Item /\ todo # {}
    BY <1>5 DEF Write, EvalInv, TodoInv
  <2>2. IsRec(rec) /\ ~IsRec(Junk) /\ ~IsRec(NoTail)
    BY <2>1 DEF IsRec, Rec, Junk, NoTail
  <2>3. Item \in Ids \ Done
    BY <2>1, ItemToDo, TodoIsMissing DEF EvalInv, TypeOK
  <2>4. file \in Seq(Line) /\ rec \in Line /\ Junk \in Line
    BY <1>1, <2>1 DEF TypeOK, Line
  <2>5. CASE tail = NoTail
    <3>1. FileIds' = FileIds \cup {rec.id}
      BY <2>1, <2>2, <2>4, <2>5, FileGrows
    <3> QED BY <1>2, <2>1, <2>2, <2>3, <2>5, <3>1 DEF AnswersCount
  <2>6. CASE tail # NoTail
    <3>1. FileIds' = FileIds
      BY <2>1, <2>2, <2>4, <2>6, FileGrows
    <3>2. crashes > 0
      <4>1. Unreadable(file) \in Nat /\ crashes \in Nat
        BY <1>1, <2>4, PlacesFinite DEF Unreadable, TypeOK
      <4> QED BY <2>6, <4>1 DEF DamageInv
    <3> QED BY <1>2, <2>1, <2>2, <2>6, <3>1, <3>2 DEF AnswersCount
  <2> QED BY <2>5, <2>6
<1> QED BY <1>3, <1>4, <1>5 DEF Next, Step, Start, Finish, Leak, Ask, Receive, ServerGone, Exit, evalVars

(* For every list of items, with any costs and kills: a rerun asks only for what
   is missing, and what it writes brings the file nearer to complete. *)
THEOREM EvalResumes == Spec => []AsksOnlyMissing /\ [][AnswersCount]_evalVars
<1>1. EvalInv => AsksOnlyMissing
  BY ItemToDo, TodoIsMissing DEF EvalInv, TodoInv, TypeOK, AsksOnlyMissing
<1>2. EvalInv => DoneInv
  BY DoneIs DEF EvalInv, DoneInv
<1> QED BY <1>1, <1>2, EvalInvariant, DamageInvariant, AnswersNext, PTL DEF Spec
=============================================================================
