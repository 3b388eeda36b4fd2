----------------------------- MODULE Facts -----------------------------------
(* What several of the proofs need to know about numbers and sequences.    *)
EXTENDS Integers, Sequences, FiniteSetsExt, SequenceTheorems, WellFoundedInduction, TLAPS

(* Least and greatest elements of sets of natural numbers, which Min and   *)
(* Max of FiniteSetsExt find.                                              *)


(* The order of the natural numbers is well founded. *)
LEMMA LessIsWF == \E R : IsWellFoundedOn(R, Nat) /\ \A x, y \in Nat : (<<x, y>> \in R) <=> (x < y)
<1> DEFINE R == OpToRel(<, Nat)
<1>1. IsWellFoundedOn(R, Nat)
  BY NatLessThanWellFounded, Zenon
<1>2. R = {ss \in Nat \X Nat : ss[1] < ss[2]}
  BY Zenon DEF OpToRel
<1> HIDE DEF R
<1>3. \A x, y \in Nat : (<<x, y>> \in R) <=> (x < y)
  BY <1>2
<1> QED
  BY <1>1, <1>3
(* A set of natural numbers that is not empty has a least element, which   *)
(* Min finds.                                                              *)
LEMMA MinOfNat ==
  ASSUME NEW S \in SUBSET Nat, S # {}
  PROVE  Min(S) \in S /\ \A y \in S : Min(S) <= y
<1>0. PICK R : IsWellFoundedOn(R, Nat) /\ \A x, y \in Nat : (<<x, y>> \in R) <=> (x < y)
  BY LessIsWF
<1>1. S \subseteq Nat
  OBVIOUS
<1>2. PICK x \in S : \A y \in S : ~(<<y, x>> \in R)
  <2>0. IsWellFoundedOn(R, Nat) /\ S # {}
    BY <1>0
  <2>1. \E x \in S : \A y \in S : ~(<<y, x>> \in R)
    BY <2>0, <1>1, WFMin
  <2> QED
    BY <2>1, Zenon
<1>3. \A y \in S : x <= y
  <2> TAKE y \in S
  <2>1. ~(<<y, x>> \in R)
    BY <1>2, Zenon
  <2>2. x \in Nat /\ y \in Nat
    OBVIOUS
  <2>3. ~(y < x)
    BY <1>0, <2>1, <2>2, Zenon
  <2> QED
    BY <2>2, <2>3
<1> QED
  <2>1. \E z \in S : \A y \in S : z <= y
    BY <1>3
  <2> QED
    BY <2>1, Zenon DEF Min

(* A bounded one has a greatest, which Max finds. *)
LEMMA MaxOfNat ==
  ASSUME NEW b \in Nat, NEW S \in SUBSET (0 .. b), S # {}
  PROVE  Max(S) \in S /\ \A y \in S : y <= Max(S)
<1> DEFINE T == {b - x : x \in S}
<1>0. \A x \in S : x \in 0 .. b
  OBVIOUS
<1>1. T \subseteq Nat
  BY <1>0
<1>a. T # {}
  OBVIOUS
<1> HIDE DEF T
<1>2. Min(T) \in T /\ \A y \in T : Min(T) <= y
  BY <1>1, <1>a, MinOfNat
<1> USE DEF T
<1>3. PICK x \in S : Min(T) = b - x
  BY <1>2
<1>4. \A y \in S : x >= y
  <2> TAKE y \in S
  <2>1. b - y \in T
    OBVIOUS
  <2>2. b - x <= b - y
    BY <1>2, <1>3, <2>1
  <2> QED
    BY <2>2
<1> QED
  BY <1>4 DEF Max

(* Induction, over a set instead of a predicate. *)
LEMMA NatInduct ==
  ASSUME NEW P \in SUBSET Nat, 0 \in P, \A n \in P : n + 1 \in P
  PROVE  P = Nat
<1>1. SUFFICES ASSUME Nat \ P # {} PROVE FALSE
  OBVIOUS
<1> DEFINE m == Min(Nat \ P)
<1>2. m \in Nat \ P /\ \A y \in Nat \ P : m <= y
  <2>1. Nat \ P \in SUBSET Nat
    OBVIOUS
  <2> QED BY <2>1, <1>1, MinOfNat
<1> HIDE DEF m
<1>3. m # 0
  BY <1>2
<1>4. m - 1 \in P
  BY <1>2, <1>3
<1> QED BY <1>2, <1>4

-----------------------------------------------------------------------------
(* Rows and columns *)

LEMMA DivMod ==
  ASSUME NEW n \in Nat, NEW d \in Nat \ {0}
  PROVE  /\ n \div d \in Nat
         /\ n % d \in 0 .. d - 1
         /\ n = (n \div d) * d + (n % d)
OBVIOUS

LEMMA MultipleMod ==
  ASSUME NEW q \in Nat, NEW d \in Nat \ {0}
  PROVE  (q * d) % d = 0 /\ (q * d) \div d = q
OBVIOUS

LEMMA RowAndColumn ==
  ASSUME NEW q \in Nat, NEW d \in Nat \ {0}, NEW r \in 0 .. d - 1
  PROVE  (q * d + r) \div d = q /\ (q * d + r) % d = r
OBVIOUS

(* Whole rows before a float change its row and not its column. *)
LEMMA BehindRows ==
  ASSUME NEW q \in Nat, NEW d \in Nat \ {0}, NEW k \in Nat
  PROVE  (q * d + k) \div d = q + (k \div d) /\ (q * d + k) % d = k % d
<1> DEFINE a == k \div d
           b == k % d
<1>1. a \in Nat /\ b \in 0 .. d - 1 /\ k = a * d + b
  BY DivMod
<1> HIDE DEF a, b
<1>2. q * d + k = (q + a) * d + b
  BY <1>1
<1>3. ((q + a) * d + b) \div d = q + a /\ ((q + a) * d + b) % d = b
  BY <1>1, RowAndColumn
<1> QED BY <1>2, <1>3 DEF a, b

-----------------------------------------------------------------------------
(* Pieces of a sequence that may have no end *)

(* The elements of F behind the first a, up to the b-th. *)
Between(F, a, b) == [k \in 1 .. b - a |-> F[a + k]]
Elements(F) == {F[k] : k \in Nat \ {0}}

LEMMA BetweenSeq ==
  ASSUME NEW F, NEW a \in Nat, NEW b \in Nat, a <= b
  PROVE  /\ Between(F, a, b) \in Seq(Elements(F))
         /\ Len(Between(F, a, b)) = b - a
         /\ DOMAIN Between(F, a, b) = 1 .. b - a
         /\ \A k \in 1 .. b - a : Between(F, a, b)[k] = F[a + k]
<1>1. \A k \in 1 .. b - a : F[a + k] \in Elements(F)
  <2> TAKE k \in 1 .. b - a
  <2>1. a + k \in Nat \ {0}
    OBVIOUS
  <2> QED BY <2>1 DEF Elements
<1>2. Between(F, a, b) \in [1 .. b - a -> Elements(F)] /\ b - a \in Nat
  BY <1>1 DEF Between
<1> QED BY <1>2 DEF Between

LEMMA NothingBetween ==
  ASSUME NEW F, NEW a \in Nat
  PROVE  Between(F, a, a) = <<>>
BY DEF Between

LEMMA Joined ==
  ASSUME NEW F, NEW a \in Nat, NEW b \in Nat, NEW c \in Nat, a <= b, b <= c
  PROVE  Between(F, a, b) \o Between(F, b, c) = Between(F, a, c)
<1> DEFINE S == Elements(F)
           s == Between(F, a, b)
           t == Between(F, b, c)
           u == s \o t
<1>1. s \in Seq(S) /\ Len(s) = b - a /\ \A k \in 1 .. b - a : s[k] = F[a + k]
  BY BetweenSeq
<1>2. t \in Seq(S) /\ Len(t) = c - b /\ \A k \in 1 .. c - b : t[k] = F[b + k]
  BY BetweenSeq
<1> HIDE DEF S, s, t
<1>3. /\ u \in Seq(S) /\ Len(u) = Len(s) + Len(t)
      /\ \A k \in 1 .. Len(s) + Len(t) :
           u[k] = IF k <= Len(s) THEN s[k] ELSE t[k - Len(s)]
  <2>1. s \in Seq(S) /\ t \in Seq(S)
    BY <1>1, <1>2
  <2> QED BY ONLY <2>1, ConcatProperties
<1> HIDE DEF u
<1>4. ASSUME NEW k \in 1 .. c - a PROVE u[k] = F[a + k]
  <2>1. CASE k <= b - a
    BY <1>1, <1>2, <1>3, <2>1
  <2>2. CASE ~(k <= b - a)
    <3>1. k - (b - a) \in 1 .. c - b /\ b + (k - (b - a)) = a + k
      BY <2>2
    <3> QED BY <1>1, <1>2, <1>3, <2>2, <3>1
  <2> QED BY <2>1, <2>2
<1>5. Len(u) = c - a /\ a <= c
  BY <1>1, <1>2, <1>3
<1>6. u = Between(F, a, c)
  <2>1. u = [k \in 1 .. c - a |-> u[k]]
    BY <1>3, <1>5, LenProperties
  <2> QED BY <1>4, <2>1 DEF Between
<1> QED BY <1>6 DEF u, s, t

(* SubSeq, as an operator the provers leave alone. *)
Part(s, x, y) == SubSeq(s, x, y)

LEMMA PartOfBetween ==
  ASSUME NEW F, NEW a \in Nat, NEW d \in Nat, a <= d,
         NEW x \in Nat, NEW y \in Nat, 1 <= x, x <= y + 1, a + y <= d
  PROVE  Part(Between(F, a, d), x, y) = Between(F, a + x - 1, a + y)
<1> DEFINE S == Elements(F)
           s == Between(F, a, d)
           t == SubSeq(s, x, y)
           n == y - x + 1
<1>1. /\ s \in Seq(S) /\ Len(s) = d - a
      /\ \A k \in 1 .. d - a : s[k] = F[a + k] /\ s[k] \in S
  <2>1. /\ s \in Seq(S) /\ Len(s) = d - a
        /\ \A k \in 1 .. d - a : s[k] = F[a + k]
    BY BetweenSeq
  <2> HIDE DEF s, S
  <2> QED BY <2>1, ElementOfSeq
<1> HIDE DEF S, s
<1>2. \A k \in x .. y : s[k] \in S
  BY <1>1
<1>3. /\ t \in Seq(S)
      /\ Len(t) = IF x <= y THEN y - x + 1 ELSE 0
      /\ \A k \in 1 .. y - x + 1 : t[k] = s[x + k - 1]
  BY <1>2, SubSeqProperties
<1> HIDE DEF t
<1>4. Len(t) = n /\ n \in Nat /\ n = a + y - (a + x - 1)
  BY <1>3
<1>5. ASSUME NEW k \in 1 .. n PROVE t[k] = F[a + x - 1 + k]
  <2>1. k \in 1 .. y - x + 1 /\ x + k - 1 \in 1 .. d - a /\ a + (x + k - 1) = a + x - 1 + k
    OBVIOUS
  <2> QED BY <1>1, <1>3, <2>1
<1>6. t = [k \in 1 .. n |-> t[k]]
  <2> HIDE DEF n
  <2> QED BY <1>3, <1>4, LenProperties
<1>7. t = Between(F, a + x - 1, a + y)
  <2> HIDE DEF n
  <2> QED BY <1>4, <1>5, <1>6 DEF Between
<1> QED BY <1>7 DEF t, s, Part

=============================================================================
