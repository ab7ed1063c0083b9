------------------------------- MODULE Lemmas -------------------------------
(***************************************************************************)
(* Facts the proofs of several modules need: the arithmetic of a ring of S  *)
(* slots, least numbers, what the folds of the community modules compute,   *)
(* and how the items of a growing sequence are counted.                     *)
(*                                                                          *)
(* The library's induction theorems take an operator as a parameter.  Here  *)
(* an induction is by the least counterexample of a set of numbers, and a   *)
(* recursion by a step that is a function, so that the provers can use      *)
(* either for the terms of a model.                                         *)
(***************************************************************************)
EXTENDS Integers, Sequences, SequencesExt, Lists, FiniteSets, FiniteSetTheorems,
        WellFoundedInduction, TLAPS

-----------------------------------------------------------------------------
(* The ring: facts about \div and % that the provers do not know.           *)

(* Quotient and remainder: what % computes for a slot index. *)
LEMMA DivMod ==
    ASSUME NEW S \in Nat \ {0}, NEW x \in Int
    PROVE  /\ x \div S \in Int
           /\ x % S \in 0 .. S - 1
           /\ x = S * (x \div S) + (x % S)
  OBVIOUS

(* A multiple of S strictly between -S and S is zero. *)
LEMMA SmallMultiple ==
    ASSUME NEW S \in Nat \ {0}, NEW d \in Int, NEW e \in Int, 
           e = S * d, e < S, e > -S
    PROVE  d = 0
<1>1. CASE d >= 1
  <2>1. S * (d - 1) >= 0
    BY <1>1, SMT
  <2>2. S * d = S * (d - 1) + S
    BY SMT
  <2> QED BY <2>1, <2>2
<1>2. CASE d <= -1
  <2>1. S * (-d - 1) >= 0
    BY <1>2, SMT
  <2>2. S * d = -(S * (-d - 1)) - S
    BY SMT
  <2> QED BY <2>1, <2>2
<1> QED BY <1>1, <1>2

(* The remainder is the only number below S that leaves a multiple of S. *)
LEMMA ModUnique ==
    ASSUME NEW S \in Nat \ {0}, NEW x \in Int, NEW q \in Int, NEW r \in 0 .. S - 1,
           x = S * q + r
    PROVE  x % S = r
<1> DEFINE p == x \div S
<1> DEFINE t == x % S
<1>1. p \in Int /\ t \in 0 .. S - 1 /\ x = S * p + t
  BY DivMod
<1> HIDE DEF p, t
<1>2. S * (q - p) = S * q - S * p
  BY <1>1
<1>3. q - p = 0
  BY <1>1, <1>2, SmallMultiple
<1>4. t = r
  BY <1>1, <1>3
<1> QED BY <1>4 DEF t

(* An index that is already a slot is its own remainder. *)
LEMMA ModSmall ==
    ASSUME NEW S \in Nat \ {0}, NEW x \in 0 .. S - 1
    PROVE  x % S = x
  BY ModUnique, x = S * 0 + x

(* Stepping the slot is stepping the count (history_next = (slot + 1) % S). *)
LEMMA ModNext ==
    ASSUME NEW S \in Nat \ {0}, NEW x \in Nat
    PROVE  ((x % S) + 1) % S = (x + 1) % S
<1> DEFINE p == x \div S
<1> DEFINE t == x % S
<1>1. p \in Int /\ t \in 0 .. S - 1 /\ x = S * p + t
  BY DivMod
<1> HIDE DEF p, t
<1>2. CASE t + 1 < S
  <2>1. (x + 1) % S = t + 1
    BY <1>1, <1>2, ModUnique
  <2>2. (t + 1) % S = t + 1
    BY <1>1, <1>2, ModSmall
  <2> QED BY <2>1, <2>2 DEF t
<1>3. CASE t + 1 = S
  <2>1. x + 1 = S * (p + 1) + 0 /\ t + 1 = S * 1 + 0
    BY <1>1, <1>3
  <2>2. (x + 1) % S = 0
    BY <1>1, <2>1, ModUnique
  <2>3. (t + 1) % S = 0
    BY <1>1, <2>1, ModUnique
  <2> QED BY <2>2, <2>3 DEF t
<1> QED BY <1>1, <1>2, <1>3

(* The slot before (history_next + S - 1) % S is that of the count before. *)
LEMMA ModPrevious ==
    ASSUME NEW S \in Nat \ {0}, NEW x \in Nat \ {0}
    PROVE  ((x % S) + S - 1) % S = (x - 1) % S
<1> DEFINE p == x \div S
<1> DEFINE t == x % S
<1>1. p \in Int /\ t \in 0 .. S - 1 /\ x = S * p + t
  BY DivMod
<1> HIDE DEF p, t
<1>2. CASE t >= 1
  <2>1. (x - 1) % S = t - 1
    BY <1>1, <1>2, ModUnique
  <2>2. t + S - 1 = S * 1 + (t - 1)
    BY <1>1
  <2>3. (t + S - 1) % S = t - 1
    BY <1>1, <1>2, <2>2, ModUnique
  <2> QED BY <2>1, <2>3 DEF t
<1>3. CASE t = 0
  <2>1. x - 1 = S * (p - 1) + (S - 1)
    BY <1>1, <1>3
  <2>2. (x - 1) % S = S - 1
    <3>1. S - 1 \in 0 .. S - 1 /\ p - 1 \in Int /\ x - 1 \in Int
      BY <1>1
    <3> QED BY <2>1, <3>1, ModUnique
  <2>3. (t + S - 1) % S = S - 1
    BY <1>3, ModSmall
  <2> QED BY <2>2, <2>3 DEF t
<1> QED BY <1>1, <1>2, <1>3

(* Two counts less than S apart have different slots. *)
LEMMA ModApart ==
    ASSUME NEW S \in Nat \ {0}, NEW x \in Nat, NEW y \in Nat, x < y, y < x + S
    PROVE  x % S # y % S
<1> SUFFICES ASSUME x % S = y % S PROVE FALSE
  OBVIOUS
<1> DEFINE p == x \div S
<1> DEFINE q == y \div S
<1> DEFINE r == x % S
<1> DEFINE t == y % S
<1>1. p \in Int /\ r \in 0 .. S - 1 /\ x = S * p + r
  BY DivMod
<1>2. q \in Int /\ t \in 0 .. S - 1 /\ y = S * q + t
  BY DivMod
<1>3. r = t
  OBVIOUS
<1> HIDE DEF p, q, r, t
<1>4. S * (q - p) = S * q - S * p
  BY <1>1, <1>2
<1>5. q - p = 0
  BY <1>1, <1>2, <1>3, <1>4, SmallMultiple
<1> QED BY <1>1, <1>2, <1>3, <1>5
-----------------------------------------------------------------------------
(* Induction and recursion                                                  *)

(* A set of numbers that is not empty has a least one. *)
LEMMA LeastNumber ==
    ASSUME NEW S, S \subseteq Nat, S # {}
    PROVE  \E n \in S : \A m \in S : ~(m < n)
<1> DEFINE Below == { p \in Nat \X Nat : p[1] < p[2] }
<1>1. IsWellFoundedOn(Below, Nat)
  BY NatLessThanWellFounded DEF OpToRel
<1>2. \A x, y \in Nat : y < x => << y, x >> \in Below
  OBVIOUS
<1> HIDE DEF Below
<1>3. \E x \in S : \A y \in S : ~(<< y, x >> \in Below)
  BY <1>1, WFMin
<1> QED BY <1>2, <1>3

(* A set of numbers with 0, and with each number's successor up to N, has
   every number up to N. *)
LEMMA UpTo ==
    ASSUME NEW N \in Nat, NEW S, 0 \in S,
           \A n \in 0 .. N - 1 : n \in S => n + 1 \in S
    PROVE  \A n \in 0 .. N : n \in S
<1> SUFFICES ASSUME NEW k \in 0 .. N, k \notin S PROVE FALSE
  OBVIOUS
<1> DEFINE Missing == { n \in 0 .. N : n \notin S }
<1>1. Missing \subseteq Nat /\ Missing # {}
  OBVIOUS
<1>2. PICK n \in Missing : \A m \in Missing : ~(m < n)
  BY <1>1, LeastNumber
<1>3. n \in Nat \ {0} /\ n - 1 \in 0 .. N - 1 /\ n - 1 \in S
  BY <1>2
<1> QED BY <1>2, <1>3

(* The largest number of a set that ends at n. *)
LEMMA MaxIs ==
    ASSUME NEW n \in Nat, NEW s, s \subseteq 1 .. n, n \in s
    PROVE  Max(s) = n
<1>1. \A x \in s : (\A y \in s : x >= y) => x = n
  OBVIOUS
<1>2. \A y \in s : n >= y
  OBVIOUS
<1> QED BY <1>1, <1>2 DEF Max

(* A set of numbers up to N has a largest one. *)
LEMMA MaxOfNumbers ==
    ASSUME NEW N \in Nat, NEW s, s \subseteq 1 .. N, s # {}
    PROVE  Max(s) \in s /\ \A n \in s : n <= Max(s)
<1> DEFINE Gaps == { N - n : n \in s }
<1>1. Gaps \subseteq Nat
  OBVIOUS
<1>2. Gaps # {}
  <2>1. PICK x \in s : TRUE
    OBVIOUS
  <2>2. N - x \in Gaps
    BY <2>1
  <2> QED BY <2>2
<1>3. PICK d \in Gaps : \A e \in Gaps : ~(e < d)
  BY <1>1, <1>2, LeastNumber
<1>4. PICK m \in s : d = N - m
  OBVIOUS
<1>5. ASSUME NEW n \in s PROVE m >= n
  <2>1. N - n \in Gaps
    OBVIOUS
  <2>2. ~(N - n < N - m) /\ n \in Nat /\ m \in Nat
    BY <2>1, <1>3, <1>4
  <2> QED BY <2>2
<1>6. Max(s) \in s /\ \A n \in s : Max(s) >= n
  BY <1>5 DEF Max
<1> QED BY <1>6

(* ... and a smallest. *)
LEMMA MinOfNumbers ==
    ASSUME NEW N \in Nat, NEW s, s \subseteq 1 .. N, s # {}
    PROVE  Min(s) \in s /\ \A n \in s : Min(s) <= n
<1>1. PICK m \in s : \A n \in s : ~(n < m)
  <2>1. s \subseteq Nat
    OBVIOUS
  <2> QED BY <2>1, LeastNumber
<1>2. \A n \in s : m <= n
  BY <1>1
<1> QED BY <1>2 DEF Min

(* What a fold over the subsets of 1 .. N computes that takes the largest, or
   the smallest, number first and has the step g. *)
FoldsLargest(f, N, base, g) ==
    \A s \in SUBSET (1 .. N) : f[s] = IF s = {} THEN base ELSE g[<< Max(s), f[s \ {Max(s)}] >>]

FoldsSmallest(f, N, base, g) ==
    \A s \in SUBSET (1 .. N) : f[s] = IF s = {} THEN base ELSE g[<< Min(s), f[s \ {Min(s)}] >>]

(* There is such a fold for every step. *)
LEMMA FoldFromTheLast ==
    ASSUME NEW N \in Nat, NEW V, NEW base \in V, NEW g \in [(1 .. N) \X V -> V]
    PROVE  \E f \in [SUBSET (1 .. N) -> V] : FoldsLargest(f, N, base, g)
<1> DEFINE Solves(f, n) ==
              \A s \in SUBSET (1 .. n) :
                 f[s] = IF s = {} THEN base ELSE g[<< Max(s), f[s \ {Max(s)}] >>]
           Good == { n \in 0 .. N : \E f \in [SUBSET (1 .. n) -> V] : Solves(f, n) }
<1>1. 0 \in Good
  <2> DEFINE none == [s \in SUBSET (1 .. 0) |-> base]
  <2>1. none \in [SUBSET (1 .. 0) -> V] /\ Solves(none, 0)
    OBVIOUS
  <2>2. 0 \in 0 .. N
    OBVIOUS
  <2> HIDE DEF none, Solves
  <2>3. \E f \in [SUBSET (1 .. 0) -> V] : Solves(f, 0)
    BY <2>1
  <2> QED BY <2>2, <2>3
<1>2. ASSUME NEW n \in 0 .. N - 1, n \in Good
      PROVE  n + 1 \in Good
  <2>1. PICK f \in [SUBSET (1 .. n) -> V] : Solves(f, n)
    BY <1>2
  <2> DEFINE h == [s \in SUBSET (1 .. n + 1) |->
                     IF s \in SUBSET (1 .. n) THEN f[s] ELSE g[<< n + 1, f[s \ {n + 1}] >>]]
  <2>2. ASSUME NEW s \in SUBSET (1 .. n + 1), s \notin SUBSET (1 .. n)
        PROVE  /\ Max(s) = n + 1 /\ s # {} /\ s \ {n + 1} \in SUBSET (1 .. n)
               /\ n + 1 \in 1 .. N
    <3>1. n + 1 \in s /\ n + 1 \in Nat /\ s # {} /\ s \ {n + 1} \in SUBSET (1 .. n) /\ n + 1 \in 1 .. N
      BY <2>2
    <3> QED BY <3>1, MaxIs
  <2>3. h \in [SUBSET (1 .. n + 1) -> V]
    BY <2>2
  <2>4. ASSUME NEW s \in SUBSET (1 .. n + 1)
        PROVE  h[s] = IF s = {} THEN base ELSE g[<< Max(s), h[s \ {Max(s)}] >>]
    <3>1. CASE s \in SUBSET (1 .. n)
      <4>1. h[s] = f[s] /\ h[s \ {Max(s)}] = f[s \ {Max(s)}]
        BY <3>1
      <4> QED BY <3>1, <4>1, <2>1
    <3>2. CASE s \notin SUBSET (1 .. n)
      <4>1. h[s] = g[<< n + 1, f[s \ {n + 1}] >>] /\ h[s \ {n + 1}] = f[s \ {n + 1}]
        BY <3>2, <2>2
      <4> QED BY <3>2, <4>1, <2>2
    <3> QED BY <3>1, <3>2
  <2> HIDE DEF h
  <2>5. Solves(h, n + 1)
    BY <2>4
  <2> HIDE DEF Solves
  <2> QED BY <2>3, <2>5
<1>3. N \in 0 .. N /\ \A n \in 0 .. N : n \in Good
  <2> HIDE DEF Good
  <2> QED BY <1>1, <1>2, UpTo
<1> QED BY <1>3 DEF FoldsLargest

(* The smallest number of a set of numbers from n on. *)
LEMMA MinIs ==
    ASSUME NEW N \in Nat, NEW n \in Nat, NEW s, s \subseteq n .. N, n \in s
    PROVE  Min(s) = n
<1>1. \A x \in s : (\A y \in s : x <= y) => x = n
  OBVIOUS
<1>2. \A y \in s : n <= y
  OBVIOUS
<1> QED BY <1>1, <1>2 DEF Min

LEMMA FoldFromTheFirst ==
    ASSUME NEW N \in Nat, NEW V, NEW base \in V, NEW g \in [(1 .. N) \X V -> V]
    PROVE  \E f \in [SUBSET (1 .. N) -> V] : FoldsSmallest(f, N, base, g)
<1> DEFINE From(n) == N + 1 - n .. N
           Solves(f, n) ==
              \A s \in SUBSET From(n) :
                 f[s] = IF s = {} THEN base ELSE g[<< Min(s), f[s \ {Min(s)}] >>]
           Good == { n \in 0 .. N : \E f \in [SUBSET From(n) -> V] : Solves(f, n) }
<1>1. 0 \in Good
  <2> DEFINE none == [s \in SUBSET From(0) |-> base]
  <2>1. none \in [SUBSET From(0) -> V] /\ Solves(none, 0)
    OBVIOUS
  <2>2. 0 \in 0 .. N
    OBVIOUS
  <2> HIDE DEF none, Solves
  <2>3. \E f \in [SUBSET From(0) -> V] : Solves(f, 0)
    BY <2>1
  <2> QED BY <2>2, <2>3
<1>2. ASSUME NEW n \in 0 .. N - 1, n \in Good
      PROVE  n + 1 \in Good
  <2>1. PICK f \in [SUBSET From(n) -> V] : Solves(f, n)
    BY <1>2
  <2> DEFINE first == N - n
             h == [s \in SUBSET From(n + 1) |->
                     IF s \in SUBSET From(n) THEN f[s] ELSE g[<< first, f[s \ {first}] >>]]
  <2>2. ASSUME NEW s \in SUBSET From(n + 1), s \notin SUBSET From(n)
        PROVE  /\ Min(s) = first /\ s # {} /\ s \ {first} \in SUBSET From(n)
               /\ first \in 1 .. N
    <3>1. first \in s /\ first \in Nat /\ s # {} /\ s \ {first} \in SUBSET From(n) /\ first \in 1 .. N
      BY <2>2
    <3>2. s \subseteq first .. N
      BY <2>2
    <3> HIDE DEF first
    <3> QED BY <3>1, <3>2, MinIs
  <2>3. h \in [SUBSET From(n + 1) -> V]
    BY <2>2
  <2>4. ASSUME NEW s \in SUBSET From(n + 1)
        PROVE  h[s] = IF s = {} THEN base ELSE g[<< Min(s), h[s \ {Min(s)}] >>]
    <3>1. CASE s \in SUBSET From(n)
      <4>1. h[s] = f[s] /\ h[s \ {Min(s)}] = f[s \ {Min(s)}]
        BY <3>1
      <4> QED BY <3>1, <4>1, <2>1
    <3>2. CASE s \notin SUBSET From(n)
      <4>1. h[s] = g[<< first, f[s \ {first}] >>] /\ h[s \ {first}] = f[s \ {first}]
        BY <3>2, <2>2
      <4> QED BY <3>2, <4>1, <2>2
    <3> QED BY <3>1, <3>2
  <2> HIDE DEF h
  <2>5. Solves(h, n + 1)
    BY <2>4
  <2> HIDE DEF Solves
  <2>6. \E e \in [SUBSET From(n + 1) -> V] : Solves(e, n + 1)
    BY <2>3, <2>5
  <2>7. n + 1 \in 0 .. N
    OBVIOUS
  <2> HIDE DEF From
  <2> QED BY <2>6, <2>7
<1>3. N \in Good
  <2> HIDE DEF Good
  <2> QED BY <1>1, <1>2, UpTo
<1>4. From(N) = 1 .. N
  OBVIOUS
<1> QED BY <1>3, <1>4 DEF FoldsSmallest

-----------------------------------------------------------------------------
(* Keep                                                                     *)

(* c[n] is what is kept of the first n items. *)
KeepsInSteps(c, s, K) ==
    /\ c[0] = << >> /\ Keep(s, K) = c[Len(s)]
    /\ \A n \in 1 .. Len(s) : c[n] = IF s[n] \in K THEN Append(c[n - 1], s[n]) ELSE c[n - 1]

LEMMA KeepSteps ==
    ASSUME NEW S, NEW s \in Seq(S), NEW K
    PROVE  \E c \in [0 .. Len(s) -> Seq(S)] : KeepsInSteps(c, s, K)
<1> DEFINE D == 1 .. Len(s)
           Body(f) == [t \in SUBSET D |->
                         IF t = {} THEN << >>
                         ELSE IF s[Max(t)] \in K THEN Append(f[t \ {Max(t)}], s[Max(t)])
                              ELSE f[t \ {Max(t)}]]
           F == CHOOSE f : f = Body(f)
<1>1. DOMAIN s = D /\ Len(s) \in Nat /\ \A n \in D : s[n] \in S
  OBVIOUS
<1>2. Keep(s, K) = F[D]
  BY <1>1 DEF Keep, FoldLeft, MapThenFoldSet
<1>3. F = Body(F)
  <2> DEFINE g == [p \in D \X Seq(S) |-> IF s[p[1]] \in K THEN Append(p[2], s[p[1]]) ELSE p[2]]
  <2>1. \A n \in D, v \in Seq(S) : g[<< n, v >>] = IF s[n] \in K THEN Append(v, s[n]) ELSE v
    BY <1>1
  <2>2. g \in [D \X Seq(S) -> Seq(S)]
    BY <1>1
  <2>3. << >> \in Seq(S)
    OBVIOUS
  <2> HIDE DEF g, Body, F
  <2>4. PICK f \in [SUBSET D -> Seq(S)] : FoldsLargest(f, Len(s), << >>, g)
    BY <1>1, <2>2, <2>3, FoldFromTheLast
  <2>5. ASSUME NEW t \in SUBSET D
        PROVE  f[t] = Body(f)[t]
    <3>1. CASE t = {}
      BY <3>1, <2>4 DEF FoldsLargest, Body
    <3>2. CASE t # {}
      <4>1. Max(t) \in D
        BY <3>2, <1>1, MaxOfNumbers
      <4>2. f[t \ {Max(t)}] \in Seq(S)
        OBVIOUS
      <4>3. f[t] = IF s[Max(t)] \in K THEN Append(f[t \ {Max(t)}], s[Max(t)]) ELSE f[t \ {Max(t)}]
        BY <3>2, <2>1, <2>4, <4>1, <4>2 DEF FoldsLargest
      <4> QED BY <3>2, <4>3 DEF Body
    <3> QED BY <3>1, <3>2
  <2>6. f = Body(f)
    BY <2>5 DEF Body
  <2> QED BY <2>6 DEF F
<1> HIDE DEF F
<1>4. F[{}] = << >>
  BY <1>3
<1>5. ASSUME NEW n \in D
      PROVE  F[1 .. n] = IF s[n] \in K THEN Append(F[1 .. n - 1], s[n]) ELSE F[1 .. n - 1]
  <2>1. n \in Nat /\ n \in 1 .. n /\ 1 .. n \in SUBSET D
    BY <1>1
  <2>2. Max(1 .. n) = n
    BY <2>1, MaxIs
  <2>3. (1 .. n) \ {n} = 1 .. n - 1
    BY <2>1
  <2> QED BY <1>3, <2>1, <2>2, <2>3
<1> DEFINE c == [n \in 0 .. Len(s) |-> F[1 .. n]]
           Good == { n \in 0 .. Len(s) : c[n] \in Seq(S) }
<1>6. c[0] = << >> /\ 0 \in 0 .. Len(s) /\ << >> \in Seq(S)
  <2>1. 1 .. 0 = {}
    OBVIOUS
  <2> QED BY <1>1, <1>4, <2>1
<1>7. ASSUME NEW n \in D
      PROVE  /\ n - 1 \in 0 .. Len(s)
             /\ c[n] = IF s[n] \in K THEN Append(c[n - 1], s[n]) ELSE c[n - 1]
  <2>1. n - 1 \in 0 .. Len(s) /\ n \in 0 .. Len(s)
    BY <1>1
  <2>2. c[n - 1] = F[1 .. n - 1] /\ c[n] = F[1 .. n]
    BY <2>1
  <2> HIDE DEF c
  <2> QED BY <1>5, <2>1, <2>2
<1>8. Keep(s, K) = c[Len(s)]
  BY <1>1, <1>2
<1> HIDE DEF c
<1>9. \A n \in 0 .. Len(s) : n \in Good
  <2>1. 0 \in Good
    BY <1>6
  <2>2. ASSUME NEW n \in 0 .. Len(s) - 1, n \in Good
        PROVE  n + 1 \in Good
    <3>1. n + 1 \in D /\ n + 1 \in 0 .. Len(s) /\ (n + 1) - 1 = n
      BY <1>1
    <3>2. c[n + 1] = IF s[n + 1] \in K THEN Append(c[n], s[n + 1]) ELSE c[n]
      BY <3>1, <1>7
    <3>3. c[n] \in Seq(S) /\ s[n + 1] \in S
      BY <2>2, <3>1, <1>1
    <3>4. c[n + 1] \in Seq(S)
      BY <3>2, <3>3
    <3> QED BY <3>1, <3>4
  <2> HIDE DEF Good
  <2> QED BY <1>1, <2>1, <2>2, UpTo
<1>10. c \in [0 .. Len(s) -> Seq(S)]
  BY <1>9 DEF c
<1> QED BY <1>6, <1>7, <1>8, <1>10 DEF KeepsInSteps

(* Nothing is kept of nothing, and one item more is kept or is not. *)
LEMMA KeepNone == \A K : Keep(<< >>, K) = << >>
<1> TAKE K
<1>1. << >> \in Seq({}) /\ Len(<< >>) = 0
  OBVIOUS
<1>2. PICK c \in [0 .. Len(<< >>) -> Seq({})] : KeepsInSteps(c, << >>, K)
  BY <1>1, KeepSteps
<1> QED BY <1>1, <1>2 DEF KeepsInSteps

LEMMA KeepAppend ==
    ASSUME NEW S, NEW s \in Seq(S), NEW x \in S, NEW K
    PROVE  /\ Keep(s, K) \in Seq(S)
           /\ Keep(Append(s, x), K) = IF x \in K THEN Append(Keep(s, K), x) ELSE Keep(s, K)
<1> DEFINE M == Append(s, x)
           N == Len(s)
<1>1. M \in Seq(S) /\ Len(M) = N + 1 /\ M[N + 1] = x /\ N \in Nat /\ \A n \in 1 .. N : M[n] = s[n]
  OBVIOUS
<1> HIDE DEF M
<1>2. PICK c \in [0 .. N -> Seq(S)] : KeepsInSteps(c, s, K)
  BY KeepSteps
<1>3. PICK d \in [0 .. Len(M) -> Seq(S)] : KeepsInSteps(d, M, K)
  BY <1>1, KeepSteps
<1> DEFINE Good == { n \in 0 .. N : c[n] = d[n] }
<1>4. N \in Good
  <2>1. 0 \in Good
    BY <1>1, <1>2, <1>3 DEF KeepsInSteps
  <2>2. ASSUME NEW n \in 0 .. N - 1, n \in Good
        PROVE  n + 1 \in Good
    <3>1. n + 1 \in 1 .. N /\ n + 1 \in 1 .. Len(M) /\ (n + 1) - 1 = n /\ n + 1 \in 0 .. N
      BY <1>1
    <3>2. /\ c[n + 1] = IF s[n + 1] \in K THEN Append(c[n], s[n + 1]) ELSE c[n]
          /\ d[n + 1] = IF M[n + 1] \in K THEN Append(d[n], M[n + 1]) ELSE d[n]
      BY <3>1, <1>2, <1>3 DEF KeepsInSteps
    <3> QED BY <2>2, <3>1, <3>2, <1>1
  <2> HIDE DEF Good
  <2>3. \A n \in 0 .. N : n \in Good
    BY <1>1, <2>1, <2>2, UpTo
  <2> QED BY <1>1, <2>3
<1>5. N + 1 \in 1 .. Len(M) /\ (N + 1) - 1 = N /\ c[N] \in Seq(S)
  BY <1>1
<1> QED BY <1>1, <1>2, <1>3, <1>4, <1>5 DEF M, KeepsInSteps

-----------------------------------------------------------------------------
(* The items of a list                                                      *)

LEMMA AppendItems ==
    ASSUME NEW S, NEW s \in Seq(S), NEW x \in S
    PROVE  ToSet(Append(s, x)) = ToSet(s) \cup {x}
<1>1. /\ DOMAIN s = 1 .. Len(s) /\ DOMAIN Append(s, x) = 1 .. Len(s) + 1 /\ Len(s) \in Nat
      /\ Append(s, x)[Len(s) + 1] = x /\ \A n \in 1 .. Len(s) : Append(s, x)[n] = s[n]
  OBVIOUS
<1>2. \A n \in 1 .. Len(s) + 1 : n \in 1 .. Len(s) \/ n = Len(s) + 1
  BY <1>1
<1>3. Len(s) + 1 \in 1 .. Len(s) + 1 /\ \A n \in 1 .. Len(s) : n \in 1 .. Len(s) + 1
  BY <1>1
<1> QED BY <1>1, <1>2, <1>3 DEF ToSet

(* What is kept are the items that are in K. *)
LEMMA KeepItems ==
    ASSUME NEW S, NEW s \in Seq(S), NEW K
    PROVE  /\ Keep(s, K) \in Seq(S)
           /\ ToSet(Keep(s, K)) = ToSet(s) \cap K
<1> DEFINE N == Len(s)
           First(n) == { s[m] : m \in 1 .. n }
<1>1. N \in Nat /\ DOMAIN s = 1 .. N /\ \A n \in 1 .. N : s[n] \in S
  OBVIOUS
<1>2. PICK c \in [0 .. N -> Seq(S)] : KeepsInSteps(c, s, K)
  BY KeepSteps
<1> DEFINE Good == { n \in 0 .. N : ToSet(c[n]) = First(n) \cap K }
<1>3. N \in Good
  <2>1. 0 \in Good
    <3>1. 1 .. 0 = {} /\ 0 \in 0 .. N
      BY <1>1
    <3>2. ToSet(c[0]) = {}
      BY <1>2 DEF KeepsInSteps, ToSet
    <3> QED BY <3>1, <3>2
  <2>2. ASSUME NEW n \in 0 .. N - 1, n \in Good
        PROVE  n + 1 \in Good
    <3>1. n + 1 \in 1 .. N /\ (n + 1) - 1 = n /\ n + 1 \in 0 .. N /\ n \in 0 .. N
      BY <1>1
    <3>2. c[n + 1] = IF s[n + 1] \in K THEN Append(c[n], s[n + 1]) ELSE c[n]
      BY <3>1, <1>2 DEF KeepsInSteps
    <3>3. ToSet(Append(c[n], s[n + 1])) = ToSet(c[n]) \cup {s[n + 1]}
      BY <1>1, <1>2, <3>1, AppendItems
    <3>4. First(n + 1) = First(n) \cup {s[n + 1]}
      <4>1. 1 .. n + 1 = (1 .. n) \cup {n + 1}
        BY <3>1
      <4> QED BY <4>1
    <3>5. ToSet(c[n]) = First(n) \cap K
      BY <2>2
    <3> HIDE DEF First
    <3> QED BY <3>1, <3>2, <3>3, <3>4, <3>5
  <2> HIDE DEF Good
  <2>3. \A n \in 0 .. N : n \in Good
    BY <1>1, <2>1, <2>2, UpTo
  <2> QED BY <1>1, <2>3
<1>4. N \in 0 .. N /\ First(N) = ToSet(s) /\ c[N] \in Seq(S)
  BY <1>1 DEF ToSet
<1> HIDE DEF First
<1> QED BY <1>2, <1>3, <1>4 DEF KeepsInSteps

(* The places of a list that hold an item of T. *)
Places(s, T) == { n \in DOMAIN s : s[n] \in T }

LEMMA PlacesFinite ==
    ASSUME NEW S, NEW s \in Seq(S), NEW T
    PROVE  /\ IsFiniteSet(Places(s, T)) /\ Cardinality(Places(s, T)) \in Nat
           /\ Cardinality(Places(s, T)) <= Len(s)
<1>1. Len(s) \in Nat /\ DOMAIN s = 1 .. Len(s) /\ Places(s, T) \subseteq 1 .. Len(s)
  BY DEF Places
<1>2. IsFiniteSet(1 .. Len(s)) /\ Cardinality(1 .. Len(s)) = Len(s)
  <2>1. 1 \in Int /\ Len(s) \in Int
    BY <1>1
  <2>2. /\ IsFiniteSet(1 .. Len(s))
        /\ Cardinality(1 .. Len(s)) = IF 1 > Len(s) THEN 0 ELSE Len(s) - 1 + 1
    BY <2>1, FS_Interval
  <2> QED BY <1>1, <2>2
<1>3. IsFiniteSet(Places(s, T)) /\ Cardinality(Places(s, T)) <= Cardinality(1 .. Len(s))
  BY <1>1, <1>2, FS_Subset
<1> QED BY <1>2, <1>3, FS_CardinalityType

(* One item more is one place more, or none. *)
LEMMA PlacesAppend ==
    ASSUME NEW S, NEW s \in Seq(S), NEW x \in S, NEW T
    PROVE  Cardinality(Places(Append(s, x), T)) = Cardinality(Places(s, T)) + (IF x \in T THEN 1 ELSE 0)
<1>1. /\ DOMAIN s = 1 .. Len(s) /\ DOMAIN Append(s, x) = 1 .. Len(s) + 1 /\ Len(s) \in Nat
      /\ Append(s, x)[Len(s) + 1] = x /\ \A n \in 1 .. Len(s) : Append(s, x)[n] = s[n]
  OBVIOUS
<1>2. 1 .. Len(s) + 1 = (1 .. Len(s)) \cup {Len(s) + 1} /\ Len(s) + 1 \notin 1 .. Len(s)
  BY <1>1
<1>3. IsFiniteSet(Places(s, T)) /\ Cardinality(Places(s, T)) \in Nat
  BY PlacesFinite
<1>4. CASE x \in T
  <2>1. Places(Append(s, x), T) = Places(s, T) \cup {Len(s) + 1} /\ Len(s) + 1 \notin Places(s, T)
    BY <1>1, <1>2, <1>4 DEF Places
  <2> QED BY <1>3, <1>4, <2>1, FS_AddElement
<1>5. CASE x \notin T
  <2>1. Places(Append(s, x), T) = Places(s, T)
    BY <1>1, <1>2, <1>5 DEF Places
  <2> QED BY <1>3, <1>5, <2>1
<1> QED BY <1>4, <1>5
=============================================================================
