----------------------------- MODULE F16_proofs -----------------------------
(***************************************************************************)
(* Fields of any width, arrays of any length: encoding an array over       *)
(* itself never loses a float it has not read, every float becomes the     *)
(* nearest half, and decoding is exact and undone by encoding.             *)
(*                                                                         *)
(* The first parts are about numbers only: powers of two, the values of    *)
(* the halves in order, each way the encoder rounds, the loop of the       *)
(* decoder. The last is about the buffer of one call.                      *)
(***************************************************************************)
EXTENDS F16, Facts, TLAPS

-----------------------------------------------------------------------------
(* Powers of two *)

(* A function that doubles from one as far as n. *)
Doubles(g, n) == \A k \in 0 .. n : g[k] = IF k = 0 THEN 1 ELSE 2 * g[k - 1]

LEMMA PowOfGraph ==
  ASSUME NEW h, h = [n \in Nat |-> IF n = 0 THEN 1 ELSE 2 * h[n - 1]]
  PROVE  /\ h[0] = 1
         /\ \A n \in Nat : h[n + 1] = 2 * h[n]
         /\ \A n \in Nat : h[n] \in Nat \ {0}
<1>1. h[0] = 1
  OBVIOUS
<1>2. ASSUME NEW n \in Nat PROVE h[n + 1] = 2 * h[n]
  <2>1. n + 1 \in Nat /\ n + 1 # 0 /\ (n + 1) - 1 = n
    OBVIOUS
  <2>2. h[n + 1] = IF n + 1 = 0 THEN 1 ELSE 2 * h[(n + 1) - 1]
    BY <2>1
  <2> QED BY <2>1, <2>2
<1> DEFINE P == {n \in Nat : h[n] \in Nat \ {0}}
<1>3. P = Nat
  <2>1. 0 \in P
    BY <1>1
  <2>2. ASSUME NEW n \in P PROVE n + 1 \in P
    <3>1. n \in Nat /\ h[n] \in Nat \ {0}
      OBVIOUS
    <3>2. h[n + 1] = 2 * h[n]
      BY <3>1, <1>2
    <3> QED BY <3>1, <3>2
  <2>3. P \in SUBSET Nat
    OBVIOUS
  <2> HIDE DEF P
  <2> QED BY <2>1, <2>2, <2>3, NatInduct
<1> QED BY <1>1, <1>2, <1>3

(* The function that Pow2 is chosen as: step by step, and then all of it. *)
LEMMA PowExists == \E h : h = [n \in Nat |-> IF n = 0 THEN 1 ELSE 2 * h[n - 1]]
<1> DEFINE Good(g, n) == g \in [Nat -> Nat] /\ Doubles(g, n)
           P == {n \in Nat : \E g : Good(g, n)}
<1>1. ASSUME NEW n \in Nat PROVE \E g : Good(g, n)
  <2>1. 0 \in P
    <3>1. Good([k \in Nat |-> 1], 0)
      BY DEF Doubles
    <3> QED BY <3>1
  <2>2. ASSUME NEW k \in P PROVE k + 1 \in P
    <3>1. PICK g : Good(g, k)
      OBVIOUS
    <3>2. g \in [Nat -> Nat] /\ k \in Nat /\ g[k] \in Nat /\ k + 1 \in Nat
      BY <3>1
    <3> DEFINE f == [g EXCEPT ![k + 1] = 2 * g[k]]
    <3>3. f \in [Nat -> Nat]
      BY <3>2
    <3>4. ASSUME NEW a \in 0 .. k + 1 PROVE f[a] = IF a = 0 THEN 1 ELSE 2 * f[a - 1]
      <4>1. CASE a = k + 1
        BY <4>1, <3>2
      <4>2. CASE a # k + 1
        <5>1. a \in 0 .. k /\ a \in Nat /\ a # k + 1 /\ (a # 0 => a - 1 \in Nat /\ a - 1 # k + 1)
          BY <4>2, <3>2
        <5>2. g[a] = IF a = 0 THEN 1 ELSE 2 * g[a - 1]
          BY <5>1, <3>1 DEF Doubles
        <5>3. f[a] = g[a] /\ (a # 0 => f[a - 1] = g[a - 1])
          BY <5>1, <3>2
        <5> QED BY <5>2, <5>3
      <4> QED BY <4>1, <4>2
    <3> HIDE DEF f
    <3>5. Good(f, k + 1)
      BY <3>3, <3>4 DEF Doubles
    <3> QED BY <3>5, <3>2
  <2>3. P \in SUBSET Nat
    OBVIOUS
  <2>4. P = Nat
    <3> HIDE DEF P
    <3> QED BY <2>1, <2>2, <2>3, NatInduct
  <2> QED BY <2>4
<1> DEFINE T(n) == CHOOSE g : Good(g, n)
           h == [n \in Nat |-> T(n)[n]]
<1>2. ASSUME NEW n \in Nat PROVE Good(T(n), n)
  BY <1>1
<1> HIDE DEF T
(* Two that double as far as n agree as far as n. *)
<1>3. ASSUME NEW n \in Nat, NEW f, NEW g, Doubles(f, n), Doubles(g, n)
      PROVE  f[n] = g[n]
  <2> DEFINE Q == {k \in Nat : k <= n => f[k] = g[k]}
  <2>1. 0 \in Q
    <3>1. 0 \in 0 .. n
      OBVIOUS
    <3>2. f[0] = 1 /\ g[0] = 1
      BY <1>3, <3>1 DEF Doubles
    <3> QED BY <3>2
  <2>2. ASSUME NEW k \in Q PROVE k + 1 \in Q
    <3>1. CASE k + 1 <= n
      <4>1. k \in Nat /\ k + 1 \in 0 .. n /\ k + 1 # 0 /\ (k + 1) - 1 = k /\ f[k] = g[k]
        BY <3>1
      <4>2. f[k + 1] = 2 * f[(k + 1) - 1] /\ g[k + 1] = 2 * g[(k + 1) - 1]
        BY <1>3, <4>1 DEF Doubles
      <4>3. f[k + 1] = g[k + 1]
        BY <4>1, <4>2
      <4> QED BY <4>1, <4>3
    <3>2. CASE ~(k + 1 <= n)
      BY <3>2
    <3> QED BY <3>1, <3>2
  <2>3. Q \in SUBSET Nat
    OBVIOUS
  <2>4. Q = Nat
    <3> HIDE DEF Q
    <3> QED BY <2>1, <2>2, <2>3, NatInduct
  <2>5. n \in Q
    BY <2>4
  <2> QED BY <2>5
<1>4. ASSUME NEW n \in Nat PROVE h[n] = IF n = 0 THEN 1 ELSE 2 * h[n - 1]
  <2>1. T(n)[n] = IF n = 0 THEN 1 ELSE 2 * T(n)[n - 1]
    <3>1. n \in 0 .. n
      OBVIOUS
    <3> QED BY <1>2, <3>1 DEF Doubles
  <2>2. CASE n = 0
    BY <2>1, <2>2
  <2>3. CASE n # 0
    <3>1. n - 1 \in Nat
      BY <2>3
    <3>2. Doubles(T(n - 1), n - 1)
      BY <3>1, <1>2
    <3>3. Doubles(T(n), n - 1)
      <4>1. \A k \in 0 .. n - 1 : k \in 0 .. n
        OBVIOUS
      <4> QED BY <4>1, <1>2 DEF Doubles
    <3>4. T(n)[n - 1] = T(n - 1)[n - 1]
      BY <1>3, <3>1, <3>2, <3>3
    <3>5. h[n] = T(n)[n] /\ h[n - 1] = T(n - 1)[n - 1]
      BY <3>1
    <3> QED BY <2>1, <2>3, <3>4, <3>5
  <2> QED BY <2>2, <2>3
<1>5. h = [n \in Nat |-> IF n = 0 THEN 1 ELSE 2 * h[n - 1]]
  <2> DEFINE G == [n \in Nat |-> IF n = 0 THEN 1 ELSE 2 * h[n - 1]]
  <2>1. \A n \in Nat : h[n] = G[n]
    <3>1. \A n \in Nat : G[n] = IF n = 0 THEN 1 ELSE 2 * h[n - 1]
      OBVIOUS
    <3> HIDE DEF G, h
    <3> QED BY <1>4, <3>1
  <2>2. h = [n \in Nat |-> h[n]] /\ G = [n \in Nat |-> G[n]]
    OBVIOUS
  <2>3. h = G
    <3> HIDE DEF G, h
    <3> QED BY <2>1, <2>2
  <2> QED BY <2>3
<1> QED BY <1>5

LEMMA PowSteps ==
  /\ Pow2[0] = 1
  /\ \A n \in Nat : Pow2[n + 1] = 2 * Pow2[n]
  /\ \A n \in Nat : Pow2[n] \in Nat \ {0}
<1> DEFINE Turn(h) == h = [n \in Nat |-> IF n = 0 THEN 1 ELSE 2 * h[n - 1]]
<1>1. Pow2 = CHOOSE h : Turn(h)
  BY DEF Pow2
<1>2. \E h : Turn(h)
  BY PowExists
<1>3. Turn(Pow2)
  <2> HIDE DEF Turn
  <2> QED BY <1>1, <1>2
<1> QED BY <1>3, PowOfGraph

LEMMA PowNat == ASSUME NEW n \in Nat PROVE Pow2[n] \in Nat /\ Pow2[n] >= 1
BY PowSteps

LEMMA PowNext == ASSUME NEW n \in Nat PROVE Pow2[n + 1] = 2 * Pow2[n]
BY PowSteps

LEMMA PowPrev == ASSUME NEW n \in Nat, n # 0 PROVE n - 1 \in Nat /\ Pow2[n] = 2 * Pow2[n - 1]
<1>1. n - 1 \in Nat /\ (n - 1) + 1 = n
  OBVIOUS
<1>2. Pow2[(n - 1) + 1] = 2 * Pow2[n - 1]
  BY <1>1, PowNext
<1> QED BY <1>1, <1>2

LEMMA PowSum ==
  ASSUME NEW a \in Nat, NEW b \in Nat
  PROVE  Pow2[a + b] = Pow2[a] * Pow2[b]
<1> DEFINE P == {n \in Nat : Pow2[a + n] = Pow2[a] * Pow2[n]}
<1>1. 0 \in P
  BY PowSteps, PowNat
<1>2. ASSUME NEW n \in P PROVE n + 1 \in P
  <2> DEFINE x == Pow2[a]  y == Pow2[n]  z == Pow2[a + n]
  <2>1. n \in Nat /\ n + 1 \in Nat /\ a + n \in Nat /\ (a + n) + 1 = a + (n + 1)
    OBVIOUS
  <2>2. z = x * y
    OBVIOUS
  <2>3. x \in Nat /\ y \in Nat /\ z \in Nat
    BY <2>1, PowNat
  <2>4. Pow2[a + (n + 1)] = 2 * z /\ Pow2[n + 1] = 2 * y
    BY <2>1, PowNext
  <2>5. 2 * z = x * (2 * y)
    <3> HIDE DEF x, y, z
    <3> QED BY <2>2, <2>3
  <2> QED BY <2>1, <2>4, <2>5
<1>3. P \in SUBSET Nat
  OBVIOUS
<1>4. P = Nat
  <2> HIDE DEF P
  <2> QED BY <1>1, <1>2, <1>3, NatInduct
<1>5. b \in P
  BY <1>4
<1> QED BY <1>5

(* The greater the exponent, the greater the power. *)
LEMMA PowMonotone ==
  ASSUME NEW a \in Nat, NEW b \in Nat, a <= b
  PROVE  Pow2[a] <= Pow2[b]
<1> DEFINE x == Pow2[a]  y == Pow2[b - a]
<1>1. b - a \in Nat /\ a + (b - a) = b
  OBVIOUS
<1>2. Pow2[b] = x * y
  BY <1>1, PowSum
<1>3. x \in Nat /\ y \in Nat /\ y >= 1
  BY <1>1, PowNat
<1>4. x <= x * y
  <2> HIDE DEF x, y
  <2> QED BY <1>3
<1> QED BY <1>2, <1>4

LEMMA PowStrict ==
  ASSUME NEW a \in Nat, NEW b \in Nat, a < b
  PROVE  2 * Pow2[a] <= Pow2[b]
<1>1. a + 1 \in Nat /\ a + 1 <= b
  OBVIOUS
<1>2. Pow2[a + 1] <= Pow2[b]
  BY <1>1, PowMonotone
<1> QED BY <1>2, PowNext

-----------------------------------------------------------------------------
(* The fields *)

FM == Pow2[MantBits]      \* mantissas of a float
HM == Pow2[HMantBits]     \* mantissas of a half
Cut == Pow2[Drop]         \* mantissas of a float for one of a half
HalfCut == Pow2[Drop - 1]
Offset == Bias - HBias

LEMMA Mantissas ==
  /\ FM \in Nat /\ HM \in Nat /\ Cut \in Nat /\ HalfCut \in Nat
  /\ HM >= 2 /\ HalfCut >= 1 /\ Cut = 2 * HalfCut /\ FM = HM * Cut
  /\ Drop \in Nat /\ Drop >= 1
<1>1. MantBits \in Nat /\ HMantBits \in Nat /\ HMantBits # 0 /\ HMantBits < MantBits
  BY WidthAssumption
<1>2. Drop \in Nat /\ Drop >= 1 /\ Drop # 0 /\ Drop - 1 \in Nat /\ HMantBits + Drop = MantBits
  BY <1>1 DEF Drop
<1>3. FM \in Nat /\ HM \in Nat /\ Cut \in Nat /\ HalfCut \in Nat /\ HalfCut >= 1
  BY <1>1, <1>2, PowNat DEF FM, HM, Cut, HalfCut
<1>4. Cut = 2 * HalfCut
  BY <1>2, PowPrev DEF Cut, HalfCut
<1>5. FM = HM * Cut
  BY <1>1, <1>2, PowSum DEF FM, HM, Cut
<1>6. HM >= 2
  <2>1. HM = 2 * Pow2[HMantBits - 1] /\ HMantBits - 1 \in Nat
    BY <1>1, PowPrev DEF HM
  <2>2. Pow2[HMantBits - 1] \in Nat /\ Pow2[HMantBits - 1] >= 1
    BY <2>1, PowNat
  <2> QED BY <2>1, <2>2
<1> QED BY <1>2, <1>3, <1>4, <1>5, <1>6

LEMMA Exponents ==
  /\ HSpecial \in Nat /\ Special \in Nat /\ Offset \in Nat /\ Bias \in Nat /\ HBias \in Nat
  /\ HSpecial = 2 * HBias + 1 /\ Special = 2 * Bias + 1
  /\ HSpecial >= 3 /\ HSpecial + Offset < Special
  /\ HMantBits < Offset /\ HMantBits \in Nat /\ MantBits \in Nat
<1>1. /\ ExpBits \in Nat /\ HExpBits \in Nat /\ HExpBits >= 2 /\ HExpBits < ExpBits
      /\ HMantBits \in Nat /\ MantBits \in Nat
  BY WidthAssumption
<1>2. ExpBits # 0 /\ HExpBits # 0 /\ HExpBits - 1 \in Nat /\ ExpBits - 1 \in Nat
      /\ 1 <= HExpBits - 1 /\ 1 \in Nat
  BY <1>1
<1> DEFINE x == Pow2[ExpBits - 1]  y == Pow2[HExpBits - 1]
<1>3. Pow2[ExpBits] = 2 * x /\ Pow2[HExpBits] = 2 * y
  BY <1>1, <1>2, PowPrev
<1>4. x \in Nat /\ y \in Nat /\ x >= 1
  BY <1>2, PowNat
<1>5. y >= 2
  <2>1. Pow2[1] = 2
    <3>1. Pow2[0 + 1] = 2 * Pow2[0]
      BY PowNext
    <3> QED BY <3>1, PowSteps
  <2>2. Pow2[1] <= y
    BY <1>2, PowMonotone
  <2> QED BY <2>1, <2>2, <1>4
<1>6. HSpecial = 2 * y - 1 /\ Special = 2 * x - 1 /\ Bias = x - 1 /\ HBias = y - 1
  BY <1>3 DEF HSpecial, Special, Bias, HBias
<1>7. HMantBits < Offset /\ Offset = x - y
  BY <1>1, <1>4, <1>6, RangeAssumption DEF Offset
<1> HIDE DEF x, y
<1> QED BY <1>1, <1>4, <1>5, <1>6, <1>7

(* A word holds a pattern, and so every sum of the encoder. *)
LEMMA Words ==
  /\ Pow2[WordBits] \in Nat
  /\ Pow2[WordBits] > Special
  /\ Pow2[WordBits] >= 4 * FM
  /\ \A n \in Nat : n < Pow2[WordBits] => Word(n) = n
<1>1. /\ ExpBits \in Nat /\ ExpBits >= 1 /\ MantBits \in Nat /\ WordBits \in Nat
      /\ ExpBits + MantBits < WordBits /\ ExpBits + MantBits \in Nat /\ ExpBits # 0
  BY WidthAssumption
<1> DEFINE x == Pow2[ExpBits]  w == Pow2[WordBits]
<1>2. 2 * Pow2[ExpBits + MantBits] <= w
  BY <1>1, PowStrict
<1>3. Pow2[ExpBits + MantBits] = x * FM
  BY <1>1, PowSum DEF FM
<1>4. x \in Nat /\ FM \in Nat /\ FM >= 1 /\ w \in Nat
  BY <1>1, PowNat DEF FM
<1>5. x >= 2
  <2>1. x = 2 * Pow2[ExpBits - 1] /\ ExpBits - 1 \in Nat
    BY <1>1, PowPrev
  <2>2. Pow2[ExpBits - 1] \in Nat /\ Pow2[ExpBits - 1] >= 1
    BY <2>1, PowNat
  <2> QED BY <2>1, <2>2
<1>6. Special = x - 1
  BY DEF Special
<1> DEFINE p == x * FM
<1>7. p \in Nat /\ p >= 2 * FM /\ p >= x
  <2>1. x - 2 \in Nat /\ FM - 1 \in Nat
    BY <1>4, <1>5
  <2>2. (x - 2) * FM \in Nat /\ x * (FM - 1) \in Nat
    BY <2>1, <1>4
  <2>3. p = (x - 2) * FM + 2 * FM /\ p = x * (FM - 1) + x
    <3> HIDE DEF x
    <3> QED BY <1>4
  <2> HIDE DEF p, x
  <2> QED BY <2>2, <2>3, <1>4
<1>8. 2 * p <= w
  BY <1>2, <1>3
<1>9. w > Special /\ w >= 4 * FM
  <2> HIDE DEF p, w, x
  <2> QED BY <1>4, <1>5, <1>6, <1>7, <1>8
<1>10. ASSUME NEW n \in Nat, n < w PROVE n % w = n
  <2> HIDE DEF w
  <2> QED BY <1>10, <1>4
<1> QED BY <1>4, <1>9, <1>10 DEF Word

(* A step of the half in the least significant place, in units of the float. *)
LEMMA Scale == HalfScale = Pow2[Offset] * Cut /\ HalfScale \in Nat /\ HalfScale >= 1
<1>1. Bias \in Nat /\ HBias \in Nat /\ Offset \in Nat /\ MantBits \in Nat /\ HMantBits \in Nat
      /\ Drop \in Nat
  BY Exponents, Mantissas
<1>2. (Bias + MantBits) - (HBias + HMantBits) = Offset + Drop
  BY <1>1 DEF Offset, Drop
<1>3. Pow2[Offset + Drop] = Pow2[Offset] * Cut
  BY <1>1, PowSum DEF Cut
<1>4. Pow2[Offset + Drop] \in Nat /\ Pow2[Offset + Drop] >= 1
  BY <1>1, PowNat
<1> QED BY <1>2, <1>3, <1>4 DEF HalfScale

-----------------------------------------------------------------------------
(* The halves in order *)

(* The distance from a half to the next, in units of the smallest half. *)
Gap(e) == IF e = 0 THEN 1 ELSE Pow2[e - 1]

LEMMA GapNat == ASSUME NEW e \in Nat PROVE Gap(e) \in Nat /\ Gap(e) >= 1
<1>1. CASE e = 0
  BY <1>1 DEF Gap
<1>2. CASE e # 0
  <2>1. e - 1 \in Nat
    BY <1>2
  <2> QED BY <2>1, <1>2, PowNat DEF Gap
<1> QED BY <1>1, <1>2

(* A half by its exponent and mantissa. *)
LEMMA ValueOfHalf ==
  ASSUME NEW e \in Nat, NEW m \in 0 .. HM - 1
  PROVE  /\ e * HM + m \in Nat
         /\ HalfValue(e * HM + m) = HalfScale * (IF e = 0 THEN m ELSE (HM + m) * Pow2[e - 1])
<1>1. HM \in Nat \ {0} /\ HM \in Nat
  BY Mantissas
<1>2. (e * HM + m) \div HM = e /\ (e * HM + m) % HM = m
  BY <1>1, RowAndColumn
<1>3. e * HM \in Nat /\ m \in Nat
  BY <1>1
<1>4. e * HM + m \in Nat
  BY <1>3
<1>5. HalfValue(e * HM + m)
        = HalfScale * Magnitude((e * HM + m) \div HM, (e * HM + m) % HM, HMantBits)
  BY DEF HalfValue, HM
<1>6. Magnitude(e, m, HMantBits) = IF e = 0 THEN m ELSE (HM + m) * Pow2[e - 1]
  BY DEF Magnitude, HM
<1>7. HalfValue(e * HM + m) = HalfScale * Magnitude(e, m, HMantBits)
  BY <1>5, <1>2
<1> QED BY <1>4, <1>6, <1>7

LEMMA ValueNat ==
  ASSUME NEW e \in Nat, NEW m \in 0 .. HM - 1
  PROVE  HalfValue(e * HM + m) \in Nat
<1> DEFINE v == IF e = 0 THEN m ELSE (HM + m) * Pow2[e - 1]
<1>1. HalfScale \in Nat /\ HM \in Nat
  BY Scale, Mantissas
<1>2. CASE e = 0
  <2>1. v \in Nat
    BY <1>2, <1>1
  <2>2. HalfScale * v \in Nat
    <3> HIDE DEF v
    <3> QED BY <2>1, <1>1
  <2> QED BY <2>2, ValueOfHalf
<1>3. CASE e # 0
  <2>1. Pow2[e - 1] \in Nat /\ HM + m \in Nat
    BY <1>1, <1>3, PowNat
  <2>2. v = (HM + m) * Pow2[e - 1]
    BY <1>3
  <2>3. v \in Nat
    BY <2>1, <2>2
  <2>4. HalfScale * v \in Nat
    <3> HIDE DEF v
    <3> QED BY <2>3, <1>1
  <2> QED BY <2>4, ValueOfHalf
<1> QED BY <1>2, <1>3

(* One step up, also where it carries into the exponent. *)
LEMMA NextHalf ==
  ASSUME NEW e \in Nat, NEW m \in 0 .. HM - 1
  PROVE  HalfValue(e * HM + m + 1) = HalfValue(e * HM + m) + HalfScale * Gap(e)
<1> DEFINE s == HalfScale  h == HM
<1>1. h \in Nat /\ h >= 2 /\ s \in Nat /\ m \in Nat /\ m < h
  BY Mantissas, Scale
<1>2. CASE m < h - 1
  <2>1. m + 1 \in 0 .. HM - 1
    BY <1>1, <1>2
  <2>2. HalfValue(e * HM + (m + 1)) = s * (IF e = 0 THEN m + 1 ELSE (h + (m + 1)) * Pow2[e - 1])
    BY <2>1, ValueOfHalf
  <2>3. HalfValue(e * HM + m) = s * (IF e = 0 THEN m ELSE (h + m) * Pow2[e - 1])
    BY ValueOfHalf
  <2>4. e * HM + (m + 1) = e * HM + m + 1
    <3>1. e * HM \in Nat
      BY <1>1
    <3> QED BY <3>1, <1>1
  <2>5. CASE e = 0
    <3>1. s * (m + 1) = s * m + s * 1
      <4> HIDE DEF s
      <4> QED BY <1>1
    <3> QED BY <2>2, <2>3, <2>4, <2>5, <3>1 DEF Gap
  <2>6. CASE e # 0
    <3> DEFINE p == Pow2[e - 1]
    <3>1. p \in Nat
      BY <2>6, PowNat
    <3>2. s * ((h + (m + 1)) * p) = s * ((h + m) * p) + s * p
      <4>1. (h + (m + 1)) * p = (h + m) * p + p
        <5> HIDE DEF h, p
        <5> QED BY <1>1, <3>1
      <4> DEFINE a == (h + m) * p
      <4>2. a \in Nat
        BY <1>1, <3>1
      <4>3. s * (a + p) = s * a + s * p
        <5> HIDE DEF a, p, s
        <5> QED BY <1>1, <3>1, <4>2
      <4> QED BY <4>1, <4>3
    <3> QED BY <2>2, <2>3, <2>4, <2>6, <3>2 DEF Gap
  <2> QED BY <2>5, <2>6
<1>3. CASE m = h - 1
  <2>1. 0 \in 0 .. HM - 1 /\ e + 1 \in Nat /\ e + 1 # 0 /\ (e + 1) - 1 = e
    BY <1>1
  <2>2. HalfValue((e + 1) * HM + 0) = s * ((h + 0) * Pow2[e])
    BY <2>1, ValueOfHalf
  <2>3. (e + 1) * HM + 0 = e * HM + m + 1
    <3>1. e * HM \in Nat /\ (e + 1) * HM = e * HM + HM
      BY <1>1
    <3> QED BY <3>1, <1>1, <1>3
  <2>4. HalfValue(e * HM + m) = s * (IF e = 0 THEN m ELSE (h + m) * Pow2[e - 1])
    BY ValueOfHalf
  <2>5. CASE e = 0
    <3>1. Pow2[e] = 1
      BY <2>5, PowSteps
    <3>2. s * ((h + 0) * 1) = s * m + s * 1
      <4>1. (h + 0) * 1 = m + 1
        BY <1>1, <1>3
      <4>2. s * (m + 1) = s * m + s * 1
        <5> HIDE DEF s
        <5> QED BY <1>1
      <4> QED BY <4>1, <4>2
    <3> QED BY <2>2, <2>3, <2>4, <2>5, <3>1, <3>2 DEF Gap
  <2>6. CASE e # 0
    <3> DEFINE p == Pow2[e - 1]
    <3>1. p \in Nat /\ Pow2[e] = 2 * p
      BY <2>6, PowNat, PowPrev
    <3>2. s * ((h + 0) * (2 * p)) = s * ((h + m) * p) + s * p
      <4>1. (h + 0) * (2 * p) = (h + m) * p + p
        <5>1. h + m = 2 * h - 1
          BY <1>1, <1>3
        <5>2. (h + 0) * (2 * p) = (2 * h - 1) * p + p
          <6> HIDE DEF h, p
          <6> QED BY <1>1, <3>1
        <5> QED BY <5>1, <5>2
      <4> DEFINE a == (h + m) * p
      <4>2. a \in Nat
        BY <1>1, <3>1
      <4>3. s * (a + p) = s * a + s * p
        <5> HIDE DEF a, p, s
        <5> QED BY <1>1, <3>1, <4>2
      <4> QED BY <4>1, <4>3
    <3> QED BY <2>2, <2>3, <2>4, <2>6, <3>1, <3>2 DEF Gap
  <2> QED BY <2>5, <2>6
<1>4. m < h - 1 \/ m = h - 1
  <2> HIDE DEF h
  <2> QED BY <1>1
<1> QED BY <1>2, <1>3, <1>4

LEMMA Halves ==
  ASSUME NEW n \in Nat
  PROVE  /\ HalfValue(n) \in Nat
         /\ HalfValue(n + 1) \in Nat
         /\ HalfValue(n) < HalfValue(n + 1)
<1> DEFINE e == n \div HM  m == n % HM
<1>1. HM \in Nat \ {0}
  BY Mantissas
<1>2. e \in Nat /\ m \in 0 .. HM - 1 /\ n = e * HM + m
  BY <1>1, DivMod
<1>3. HalfValue(n) \in Nat /\ HalfValue(n + 1) = HalfValue(n) + HalfScale * Gap(e)
  <2>1. e * HM + m + 1 = n + 1
    BY <1>2
  <2>2. HalfValue(e * HM + m + 1) = HalfValue(e * HM + m) + HalfScale * Gap(e)
    <3> HIDE DEF e, m
    <3> QED BY <1>2, NextHalf
  <2>3. HalfValue(e * HM + m) \in Nat
    <3> HIDE DEF e, m
    <3> QED BY <1>2, ValueNat
  <2> QED BY <1>2, <2>1, <2>2, <2>3
<1> DEFINE s == HalfScale  g == Gap(e)
<1>4. s \in Nat /\ s >= 1 /\ g \in Nat /\ g >= 1
  BY <1>2, Scale, GapNat
<1>5. s * g \in Nat /\ s * g >= 1
  <2> HIDE DEF s, g
  <2> QED BY <1>4
<1> QED BY <1>3, <1>5

(* The halves are in the order of their ranks. *)
LEMMA HalvesAscend ==
  ASSUME NEW a \in Nat, NEW b \in Nat, a <= b
  PROVE  HalfValue(a) <= HalfValue(b)
<1> DEFINE P == {n \in Nat : HalfValue(a) <= HalfValue(a + n)}
<1>1. 0 \in P
  BY Halves
<1>2. ASSUME NEW n \in P PROVE n + 1 \in P
  <2>1. n \in Nat /\ a + n \in Nat /\ (a + n) + 1 = a + (n + 1) /\ HalfValue(a) <= HalfValue(a + n)
    OBVIOUS
  <2>2. HalfValue(a + n) \in Nat /\ HalfValue((a + n) + 1) \in Nat
        /\ HalfValue(a + n) < HalfValue((a + n) + 1) /\ HalfValue(a) \in Nat
    BY <2>1, Halves
  <2> QED BY <2>1, <2>2
<1>3. P \in SUBSET Nat
  OBVIOUS
<1>4. P = Nat
  <2> HIDE DEF P
  <2> QED BY <1>1, <1>2, <1>3, NatInduct
<1>5. b - a \in P
  <2>1. b - a \in Nat
    OBVIOUS
  <2> HIDE DEF P
  <2> QED BY <1>4, <2>1
<1>6. a + (b - a) = b
  OBVIOUS
<1> QED BY <1>5, <1>6

LEMMA Infinity == HSpecial * HM \in Nat /\ Magnitudes = 0 .. HSpecial * HM /\ Max(Magnitudes) = HSpecial * HM
<1>1. HSpecial \in Nat /\ HM \in Nat
  BY Exponents, Mantissas
<1> DEFINE b == HSpecial * HM
<1>2. b \in Nat
  BY <1>1
<1>3. Magnitudes = 0 .. b
  BY DEF Magnitudes, HM
<1>4. Max(0 .. b) = b
  <2> HIDE DEF b
  <2>1. (0 .. b) \in SUBSET (0 .. b) /\ b \in 0 .. b /\ 0 .. b # {}
    BY <1>2
  <2>2. Max(0 .. b) \in 0 .. b /\ \A y \in 0 .. b : y <= Max(0 .. b)
    BY <2>1, <1>2, MaxOfNat
  <2> QED BY <2>1, <2>2, <1>2
<1> QED BY <1>2, <1>3, <1>4

(* Neither neighbour is nearer, and the one above not even as near. *)
BetweenMidpoints(r, x) ==
  /\ r # 0 => HalfValue(r - 1) + HalfValue(r) <= 2 * x
  /\ r < HSpecial * HM => 2 * x < HalfValue(r) + HalfValue(r + 1)

LEMMA Nearest ==
  ASSUME NEW f, f.e # Special, FloatValue(f) \in Nat,
         NEW r \in 0 .. HSpecial * HM, BetweenMidpoints(r, FloatValue(f))
  PROVE  NearestRank(f) = r
<1> DEFINE x == FloatValue(f)
           top == HSpecial * HM
           gap(n) == Distance(HalfValue(n), x)
           Best == {n \in Magnitudes : \A k \in Magnitudes : gap(n) <= gap(k)}
<1>1. top \in Nat /\ Magnitudes = 0 .. top /\ r \in 0 .. top /\ x \in Nat /\ r \in Nat
  BY Infinity
<1>2. \A n \in Nat : HalfValue(n) \in Nat
  BY Halves
<1>3. ASSUME NEW k \in 0 .. top, k < r PROVE gap(r) <= gap(k)
  <2>1. k \in Nat /\ r - 1 \in Nat /\ k <= r - 1 /\ r # 0
    BY <1>3, <1>1
  <2>2. HalfValue(k) <= HalfValue(r - 1) /\ HalfValue(r - 1) + HalfValue(r) <= 2 * x
    BY <2>1, HalvesAscend DEF BetweenMidpoints
  <2>3. HalfValue(r - 1) <= HalfValue(r)
    BY <2>1, <1>1, HalvesAscend
  <2>4. HalfValue(k) \in Nat /\ HalfValue(r) \in Nat /\ HalfValue(r - 1) \in Nat
    BY <2>1, <1>1, <1>2
  <2> QED BY <2>2, <2>3, <2>4, <1>1 DEF Distance
<1>4. ASSUME NEW k \in 0 .. top, r < k PROVE gap(r) < gap(k)
  <2>1. k \in Nat /\ r + 1 \in Nat /\ r + 1 <= k /\ r < HSpecial * HM
    BY <1>4, <1>1
  <2>2. HalfValue(r + 1) <= HalfValue(k) /\ 2 * x < HalfValue(r) + HalfValue(r + 1)
    BY <2>1, HalvesAscend DEF BetweenMidpoints
  <2>3. HalfValue(r) < HalfValue(r + 1)
    BY <1>1, Halves
  <2>4. HalfValue(k) \in Nat /\ HalfValue(r) \in Nat /\ HalfValue(r + 1) \in Nat
    BY <2>1, <1>1, <1>2
  <2> QED BY <2>2, <2>3, <2>4, <1>1 DEF Distance
<1>5. ASSUME NEW k \in 0 .. top PROVE gap(k) \in Nat
  <2>1. HalfValue(k) \in Nat
    BY <1>2
  <2> QED BY <2>1, <1>1 DEF Distance
<1>6. r \in Best
  <2>1. ASSUME NEW k \in 0 .. top PROVE gap(r) <= gap(k)
    <3>1. gap(r) \in Nat /\ gap(k) \in Nat
      BY <1>1, <1>5
    <3> HIDE DEF gap
    <3>2. k < r \/ r < k \/ k = r
      BY <1>1
    <3> QED BY <1>3, <1>4, <3>1, <3>2
  <2> HIDE DEF gap
  <2> QED BY <1>1, <2>1
<1>7. ASSUME NEW n \in Best PROVE n <= r
  <2> HIDE DEF gap, top
  <2>1. n \in 0 .. top /\ gap(n) <= gap(r) /\ gap(n) \in Nat /\ gap(r) \in Nat
    BY <1>1, <1>5
  <2>2. CASE r < n
    <3>1. gap(r) < gap(n)
      BY <2>1, <2>2, <1>4
    <3> QED BY <2>1, <3>1
  <2> QED BY <2>1, <2>2, <1>1
<1>8. Max(Best) = r
  <2>1. Best \in SUBSET (0 .. top) /\ Best # {}
    BY <1>1, <1>6
  <2> HIDE DEF Best, top
  <2>2. Max(Best) \in Best /\ \A y \in Best : y <= Max(Best)
    BY <2>1, <1>1, MaxOfNat
  <2>3. Max(Best) \in 0 .. top
    BY <2>1, <2>2
  <2>4. r <= Max(Best) /\ Max(Best) <= r
    BY <2>2, <1>6, <1>7
  <2> QED BY <2>3, <2>4, <1>1
<1> QED BY <1>8 DEF NearestRank

-----------------------------------------------------------------------------
(* Encoding *)

LEMMA FieldsOfFloat ==
  ASSUME NEW f \in Float
  PROVE  f.s \in {0, 1} /\ f.e \in 0 .. Special /\ f.m \in 0 .. FM - 1
BY DEF Float, Pattern, Special, FM

LEMMA FieldsOfHalf ==
  ASSUME NEW h \in Half
  PROVE  h.s \in {0, 1} /\ h.e \in 0 .. HSpecial /\ h.m \in 0 .. HM - 1
         /\ h = HalfOf(h.s, h.e, h.m)
BY DEF Half, Pattern, HSpecial, HM, HalfOf

LEMMA IsHalf ==
  ASSUME NEW s \in {0, 1}, NEW e \in 0 .. HSpecial, NEW m \in 0 .. HM - 1
  PROVE  HalfOf(s, e, m) \in Half /\ Rank(HalfOf(s, e, m)) = e * HM + m
BY DEF Half, Pattern, HSpecial, HM, HalfOf, Rank

LEMMA IsFloat ==
  ASSUME NEW s \in {0, 1}, NEW e \in 0 .. Special, NEW m \in 0 .. FM - 1
  PROVE  [s |-> s, e |-> e, m |-> m] \in Float
BY DEF Float, Pattern, Special, FM

(* A float that is a number, and the bound its exponent gives it. *)
LEMMA ValueOfFloat ==
  ASSUME NEW f \in Float
  PROVE  /\ FloatValue(f) \in Nat
         /\ f.e # 0 => /\ FloatValue(f) = (FM + f.m) * Pow2[f.e - 1]
                       /\ f.e - 1 \in Nat
         /\ FloatValue(f) < FM * Pow2[f.e]
<1>1. f.e \in Nat /\ f.m \in Nat /\ f.m < FM /\ FM \in Nat
  BY FieldsOfFloat, Exponents, Mantissas
<1>2. CASE f.e = 0
  <2>1. FloatValue(f) = f.m /\ Pow2[f.e] = 1
    BY <1>2, PowSteps DEF FloatValue, Magnitude
  <2> QED BY <1>1, <1>2, <2>1
<1>3. CASE f.e # 0
  <2> DEFINE p == Pow2[f.e - 1]
  <2>1. p \in Nat /\ p >= 1 /\ Pow2[f.e] = 2 * p /\ f.e - 1 \in Nat
    BY <1>1, <1>3, PowNat, PowPrev
  <2>2. FloatValue(f) = (FM + f.m) * p
    BY <1>3 DEF FloatValue, Magnitude, FM
  <2>3. (FM + f.m) * p \in Nat /\ (FM + f.m) * p < FM * (2 * p)
    <3> DEFINE a == FM + f.m  b == FM - f.m
    <3>1. a \in Nat /\ b \in Nat /\ b >= 1 /\ 2 * FM = a + b
      BY <1>1
    <3>2. FM * (2 * p) = a * p + b * p
      <4>1. FM * (2 * p) = (2 * FM) * p
        <5> HIDE DEF p
        <5> QED BY <1>1, <2>1
      <4>2. (a + b) * p = a * p + b * p
        <5> HIDE DEF p, a, b
        <5> QED BY <3>1, <2>1
      <4> QED BY <4>1, <4>2, <3>1
    <3>3. b * p \in Nat /\ b * p >= 1 /\ a * p \in Nat
      <4> HIDE DEF p, a, b
      <4> QED BY <3>1, <2>1
    <3> QED BY <3>2, <3>3
  <2> QED BY <1>3, <2>1, <2>2, <2>3
<1> QED BY <1>2, <1>3

(* What BlobIsNearest says of one float. *)
Rounded(f, h) ==
  /\ h \in Half
  /\ h.s = f.s
  /\ IF IsNaN(f, Special) THEN IsNaN(h, HSpecial) ELSE Rank(h) = NearestRank(f)

LEMMA SpecialRounded ==
  ASSUME NEW f \in Float, f.e = Special
  PROVE  Rounded(f, EncodeSpecial(f))
<1> DEFINE kept == f.m \div Cut
           k == IF f.m # 0 /\ kept = 0 THEN 1 ELSE kept
<1>1. f.s \in {0, 1} /\ f.m \in 0 .. FM - 1 /\ HSpecial \in 0 .. HSpecial
  BY FieldsOfFloat, Exponents
<1>2. EncodeSpecial(f) = HalfOf(f.s, HSpecial, k)
  BY DEF EncodeSpecial, Cut
<1>3. kept \in 0 .. HM - 1 /\ (f.m = 0 => kept = 0)
  <2>1. f.m \in Nat /\ Cut \in Nat \ {0} /\ HM \in Nat /\ f.m < HM * Cut
    BY <1>1, Mantissas
  <2>2. kept \in Nat /\ f.m % Cut \in 0 .. Cut - 1 /\ f.m = kept * Cut + (f.m % Cut)
    BY <2>1, DivMod
  <2> DEFINE r == f.m % Cut  x == f.m  c == Cut  h == HM
  <2>3. CASE kept >= h
    <3> HIDE DEF r, x, c, h, kept
    <3>1. kept * c = (kept - h) * c + h * c
      BY <2>1, <2>2 DEF c, h
    <3>2. (kept - h) * c >= 0 /\ (kept - h) * c \in Int /\ h * c \in Nat
      <4>1. kept - h \in Nat /\ c \in Nat
        BY <2>1, <2>2, <2>3 DEF c, h
      <4> QED BY <4>1, <2>1 DEF h
    <3>3. x >= h * c
      BY <3>1, <3>2, <2>2 DEF x, c, r
    <3> QED BY <3>3, <2>1 DEF x, c, h
  <2>4. CASE ~(kept >= h)
    <3>1. f.m = 0 => kept = 0
      BY <2>1
    <3> HIDE DEF kept
    <3> QED BY <2>1, <2>2, <2>4, <3>1
  <2> QED BY <2>3, <2>4
<1>4. k \in 0 .. HM - 1 /\ (f.m # 0 => k # 0) /\ (f.m = 0 => k = 0)
  <2>1. HM \in Nat /\ HM >= 2
    BY Mantissas
  <2> HIDE DEF kept
  <2> QED BY <1>3, <2>1
<1> HIDE DEF k
<1>5. HalfOf(f.s, HSpecial, k) \in Half /\ Rank(HalfOf(f.s, HSpecial, k)) = HSpecial * HM + k
  BY <1>1, <1>4, IsHalf
<1>6. CASE f.m = 0
  <2>1. k = 0 /\ HSpecial * HM + k = HSpecial * HM
    BY <1>6, <1>4, Infinity
  <2>2. NearestRank(f) = HSpecial * HM
    BY Infinity DEF NearestRank
  <2> QED BY <1>2, <1>5, <1>6, <2>1, <2>2 DEF Rounded, IsNaN, HalfOf
<1>7. CASE f.m # 0
  BY <1>2, <1>4, <1>5, <1>7 DEF Rounded, IsNaN, HalfOf
<1> QED BY <1>6, <1>7

(* A float that is a number is rounded by a rank between its neighbours. *)
LEMMA RoundedBetween ==
  ASSUME NEW f \in Float, f.e # Special, NEW h \in Half, h.s = f.s,
         BetweenMidpoints(Rank(h), FloatValue(f)), Rank(h) \in 0 .. HSpecial * HM
  PROVE  Rounded(f, h)
<1>1. FloatValue(f) \in Nat
  BY ValueOfFloat
<1>2. NearestRank(f) = Rank(h)
  BY <1>1, Nearest
<1> QED BY <1>2 DEF Rounded, IsNaN

LEMMA OverflowRounded ==
  ASSUME NEW f \in Float, f.e # Special, f.e - Offset >= HSpecial
  PROVE  Rounded(f, HInfinity(f.s))
<1> DEFINE top == HSpecial * HM  h == HInfinity(f.s)
<1>1. /\ f.e \in Nat /\ f.e # 0 /\ Offset \in Nat /\ HSpecial \in Nat /\ HSpecial >= 3
      /\ f.s \in {0, 1} /\ f.m \in Nat /\ FM \in Nat /\ HM \in Nat /\ HM >= 2 /\ Cut \in Nat
      /\ HSpecial # 0 /\ 0 \in 0 .. HM - 1 /\ HSpecial \in 0 .. HSpecial
  BY FieldsOfFloat, Exponents, Mantissas
<1>2. h \in Half /\ Rank(h) = top /\ h.s = f.s
  <2>1. HSpecial * HM + 0 = top
    BY Infinity
  <2> QED BY <1>1, <2>1, IsHalf DEF HInfinity, HalfOf
<1>3. HalfValue(top) <= FloatValue(f)
  <2> DEFINE p == Pow2[HSpecial - 1]  o == Pow2[Offset]  q == Pow2[f.e - 1]
  <2>1. HSpecial - 1 \in Nat /\ f.e - 1 \in Nat /\ Offset + (HSpecial - 1) <= f.e - 1
        /\ Offset + (HSpecial - 1) \in Nat
    BY <1>1
  <2>2. p \in Nat /\ o \in Nat /\ q \in Nat
    BY <1>1, <2>1, PowNat
  <2>3. o * p <= q
    BY <1>1, <2>1, PowSum, PowMonotone
  <2>4. HalfValue(HSpecial * HM + 0) = HalfScale * ((HM + 0) * p)
    BY <1>1, ValueOfHalf
  <2>5. HalfScale = o * Cut /\ FM = HM * Cut
    BY Scale, Mantissas
  <2>6. HalfScale * ((HM + 0) * p) = FM * (o * p)
    <3> HIDE DEF p, o
    <3>1. (o * Cut) * ((HM + 0) * p) = (HM * Cut) * (o * p)
      BY <1>1, <2>2
    <3> QED BY <3>1, <2>5
  <2>7. FloatValue(f) = (FM + f.m) * q
    BY <1>1, ValueOfFloat
  <2>8. FM * (o * p) <= (FM + f.m) * q
    <3> DEFINE b == o * p
    <3>1. b \in Nat /\ b <= q /\ q - b \in Nat
      BY <2>2, <2>3
    <3>2. (FM + f.m) * q = FM * b + FM * (q - b) + f.m * q
      <4> HIDE DEF b, q
      <4> QED BY <1>1, <2>2, <3>1
    <3>3. FM * (q - b) \in Nat /\ f.m * q \in Nat /\ FM * b \in Nat
      <4> HIDE DEF b, q
      <4> QED BY <1>1, <2>2, <3>1
    <3> HIDE DEF b, q
    <3> QED BY <3>2, <3>3 DEF b
  <2>9. HSpecial * HM + 0 = top
    BY Infinity
  <2> QED BY <2>4, <2>6, <2>7, <2>8, <2>9
<1>4. BetweenMidpoints(top, FloatValue(f)) /\ top \in 0 .. top
  <2>1. top \in Nat /\ top # 0 /\ top - 1 \in Nat /\ top - 1 <= top
    <3>1. HSpecial * HM \in Nat /\ HSpecial * HM >= HSpecial
      <4> DEFINE a == HSpecial  b == HM
      <4> HIDE DEF a, b
      <4>1. a * b >= a /\ a * b \in Nat
        BY <1>1 DEF a, b
      <4> QED BY <4>1 DEF a, b
    <3> QED BY <3>1, <1>1
  <2>2. HalfValue(top - 1) <= HalfValue(top)
    BY <2>1, HalvesAscend
  <2>3. HalfValue(top - 1) \in Nat /\ HalfValue(top) \in Nat /\ FloatValue(f) \in Nat
    BY <2>1, Halves, ValueOfFloat
  <2>4. ~(top < top) /\ top \in 0 .. top
    BY <2>1
  <2> HIDE DEF top
  <2>5. HalfValue(top - 1) + HalfValue(top) <= 2 * FloatValue(f)
    BY <2>2, <2>3, <1>3
  <2> QED BY <2>4, <2>5 DEF BetweenMidpoints, top
<1> HIDE DEF h, top
<1>5. Rank(h) \in 0 .. HSpecial * HM
  BY <1>2, <1>4 DEF top
<1> QED BY <1>2, <1>4, <1>5, RoundedBetween DEF h

(* Midpoints, in a common unit. *)
LEMMA Scaled ==
  ASSUME NEW u \in Nat, u >= 1, NEW a \in Int, NEW b \in Int, NEW c \in Int
  PROVE  /\ a + b <= 2 * c => u * a + u * b <= 2 * (u * c)
         /\ 2 * c < a + b => 2 * (u * c) < u * a + u * b
<1> DEFINE d == 2 * c - (a + b)
<1>1. d \in Int /\ 2 * (u * c) = u * a + u * b + u * d
  OBVIOUS
<1>2. d >= 0 => u * d >= 0
  <2> HIDE DEF d
  <2> QED BY <1>1
<1>3. d < 0 => u * d < 0
  <2> HIDE DEF d
  <2> QED BY <1>1
<1>4. u * a \in Int /\ u * b \in Int /\ u * c \in Int /\ u * d \in Int
  BY <1>1
<1> DEFINE ua == u * a  ub == u * b  uc == u * c  ud == u * d
<1>5. 2 * uc = ua + ub + ud /\ ua \in Int /\ ub \in Int /\ uc \in Int /\ ud \in Int
  BY <1>1, <1>4
<1>6. (a + b <= 2 * c => d >= 0) /\ (2 * c < a + b => d < 0)
  OBVIOUS
<1>7. (d >= 0 => ud >= 0) /\ (d < 0 => ud < 0)
  BY <1>2, <1>3
<1> HIDE DEF d, ua, ub, uc, ud
<1>8. (ud >= 0 => ua + ub <= 2 * uc) /\ (ud < 0 => 2 * uc < ua + ub)
  BY <1>5
<1> QED BY <1>6, <1>7, <1>8 DEF ua, ub, uc

(* Halves with an exponent, in the unit of a float with that exponent. *)
Unit(e) == Pow2[Offset] * Pow2[e - 1]

LEMMA UnitNat ==
  ASSUME NEW e \in Nat, e >= 1
  PROVE  Unit(e) \in Nat /\ Unit(e) >= 1 /\ Unit(e) = Pow2[(e + Offset) - 1]
<1>1. e - 1 \in Nat /\ Offset \in Nat /\ Offset + (e - 1) = (e + Offset) - 1
      /\ Offset + (e - 1) \in Nat
  BY Exponents
<1>2. Pow2[Offset + (e - 1)] = Unit(e)
  BY <1>1, PowSum DEF Unit
<1> QED BY <1>1, <1>2, PowNat

LEMMA NormalValue ==
  ASSUME NEW e \in Nat, e >= 1, NEW q \in 0 .. HM - 1
  PROVE  /\ HalfValue(e * HM + q) = Unit(e) * (FM + q * Cut)
         /\ HalfValue(e * HM + q + 1) = Unit(e) * (FM + q * Cut + Cut)
<1> DEFINE p == Pow2[e - 1]  o == Pow2[Offset]  c == Cut  h == HM
<1>1. p \in Nat /\ o \in Nat /\ c \in Nat /\ h \in Nat /\ q \in Nat /\ FM = h * c /\ e # 0
  BY PowNat, Exponents, Mantissas
<1>2. HalfScale = o * c /\ Unit(e) = o * p
  BY Scale DEF Unit
<1>3. HalfValue(e * HM + q) = (o * c) * ((h + q) * p)
  BY <1>1, <1>2, ValueOfHalf
<1>4. HalfValue(e * HM + q + 1) = (o * c) * ((h + q) * p) + (o * c) * p
  BY <1>1, <1>2, <1>3, NextHalf DEF Gap
<1>5. (o * c) * ((h + q) * p) = (o * p) * (h * c + q * c)
  <2> HIDE DEF p, o, c, h
  <2> QED BY <1>1
<1>6. (o * p) * (h * c + q * c) + (o * c) * p = (o * p) * (h * c + q * c + c)
  <2> HIDE DEF p, o, c, h
  <2> QED BY <1>1
<1> HIDE DEF p, o, c, h
<1>7. FM + q * Cut = h * c + q * c /\ FM + q * Cut + Cut = h * c + q * c + c
  BY <1>1 DEF c
<1> QED BY <1>2, <1>3, <1>4, <1>5, <1>6, <1>7

LEMMA NormalRounded ==
  ASSUME NEW f \in Float, f.e # Special, NEW e \in Nat, e = f.e - Offset, e >= 1, e < HSpecial
  PROVE  Rounded(f, EncodeNormal(f, e))
<1> DEFINE m == f.m  mant == m + HalfCut  u == Unit(e)  x == FloatValue(f)
<1>1. /\ m \in Nat /\ m < FM /\ f.s \in {0, 1} /\ f.e \in Nat /\ f.e = e + Offset /\ f.e # 0
      /\ FM \in Nat /\ HM \in Nat /\ HM >= 2 /\ HalfCut \in Nat /\ HalfCut >= 1
      /\ Cut = 2 * HalfCut /\ FM = HM * Cut /\ Cut \in Nat /\ Cut # 0
      /\ HSpecial \in Nat /\ HSpecial >= 3 /\ Offset \in Nat
  BY FieldsOfFloat, Mantissas, Exponents
<1>2. x = u * (FM + m) /\ u \in Nat /\ u >= 1 /\ x \in Nat
  <2>1. x = (FM + f.m) * Pow2[f.e - 1] /\ x \in Nat
    BY <1>1, ValueOfFloat
  <2>2. u = Pow2[f.e - 1] /\ u \in Nat /\ u >= 1
    BY <1>1, UnitNat
  <2>3. (FM + m) * u = u * (FM + m)
    <3> HIDE DEF u, m
    <3> QED BY <1>1, <2>2 DEF m
  <2> QED BY <2>1, <2>2, <2>3
<1> HIDE DEF u, x, m
<1>3. CASE mant < FM
  <2> DEFINE q == mant \div Cut  t == mant % Cut  a == q * Cut  r == e * HM + q
             h == HalfOf(f.s, e, q)
  <2>1. mant \in Nat /\ q \in Nat /\ t \in 0 .. Cut - 1 /\ mant = a + t /\ a \in Nat
    <3>1. mant \in Nat /\ Cut \in Nat \ {0}
      BY <1>1
    <3> HIDE DEF mant
    <3>2. q \in Nat /\ t \in 0 .. Cut - 1 /\ mant = q * Cut + t
      BY <3>1, DivMod
    <3> HIDE DEF q, t
    <3> QED BY <3>1, <3>2, <1>1
  <2>2. q < HM
    <3>1. CASE q >= HM
      <4>1. a = (q - HM) * Cut + HM * Cut
        <5> HIDE DEF q
        <5> QED BY <2>1, <1>1
      <4>2. (q - HM) * Cut \in Nat
        <5>1. q - HM \in Nat
          <6> HIDE DEF q
          <6> QED BY <2>1, <1>1, <3>1
        <5> HIDE DEF q
        <5> QED BY <5>1, <1>1
      <4> HIDE DEF a, t, q, mant
      <4> QED BY <4>1, <4>2, <2>1, <1>1, <1>3
    <3>2. CASE ~(q >= HM)
      <4> HIDE DEF q
      <4> QED BY <3>2, <2>1, <1>1
    <3> QED BY <3>1, <3>2
  <2>3. q \in 0 .. HM - 1 /\ e \in 0 .. HSpecial
    <3> HIDE DEF q
    <3> QED BY <2>1, <2>2, <1>1
  <2>4. EncodeNormal(f, e) = h
    BY <1>3 DEF EncodeNormal, FM, HalfCut, Cut, m
  <2> HIDE DEF mant
  <2> HIDE DEF q, t, a
  <2>5. h \in Half /\ Rank(h) = r /\ h.s = f.s
    BY <2>3, <1>1, IsHalf DEF HalfOf
  <2>6. HalfValue(r) = u * (FM + a) /\ HalfValue(r + 1) = u * (FM + a + Cut)
    BY <2>3, NormalValue DEF u, a
  <2>7. r \in Nat /\ r < HSpecial * HM /\ r \in 0 .. HSpecial * HM
    <3> DEFINE eh == e * HM  sh == HSpecial * HM  d == HSpecial - e - 1
    <3>1. eh \in Nat /\ sh = eh + d * HM + HM /\ d \in Nat
      BY <1>1
    <3>2. d * HM \in Nat
      <4> HIDE DEF d
      <4> QED BY <3>1, <1>1
    <3>3. r = eh + q
      OBVIOUS
    <3> HIDE DEF eh, d, sh, r
    <3>4. r \in Nat /\ r < sh /\ r \in 0 .. sh
      BY <3>1, <3>2, <3>3, <2>1, <2>2, <1>1
    <3> QED BY <3>4 DEF sh
  <2>8. 2 * x < HalfValue(r) + HalfValue(r + 1)
    <3>1. 2 * (FM + m) < (FM + a) + (FM + a + Cut)
      BY <1>1, <2>1 DEF mant
    <3> QED BY <3>1, <2>6, <1>1, <1>2, <2>1, Scaled
  <2>9. r # 0 => HalfValue(r - 1) + HalfValue(r) <= 2 * x
    <3>1. CASE q = 0
      <4>1. a = 0
        BY <3>1, <1>1 DEF a
      <4>2. ASSUME r # 0 PROVE HalfValue(r - 1) <= HalfValue(r) /\ HalfValue(r - 1) \in Nat
        <5>1. r - 1 \in Nat /\ r - 1 <= r
          BY <4>2, <2>7
        <5> QED BY <5>1, <2>7, HalvesAscend, Halves
      <4>3. HalfValue(r) + HalfValue(r) <= 2 * x
        <5>1. (FM + a) + (FM + a) <= 2 * (FM + m)
          BY <4>1, <1>1
        <5> QED BY <5>1, <2>6, <1>1, <1>2, <2>1, Scaled
      <4>4. HalfValue(r) \in Nat
        BY <2>7, Halves
      <4> HIDE DEF r
      <4> QED BY <4>2, <4>3, <4>4, <1>2
    <3>2. CASE q # 0
      <4>1. q - 1 \in 0 .. HM - 1 /\ e * HM + (q - 1) + 1 = r /\ e * HM + (q - 1) = r - 1
        <5>1. e * HM \in Nat
          BY <1>1
        <5> QED BY <3>2, <2>3, <2>1, <1>1, <5>1
      <4>2. HalfValue(r - 1) = Unit(e) * (FM + (q - 1) * Cut)
        BY <4>1, NormalValue
      <4>3. (q - 1) * Cut = a - Cut
        BY <2>1, <1>1 DEF a
      <4>4. HalfValue(r - 1) = u * (FM + (a - Cut))
        BY <4>2, <4>3 DEF u
      <4>5. (FM + (a - Cut)) + (FM + a) <= 2 * (FM + m)
        BY <1>1, <2>1 DEF mant
      <4>6. FM + (a - Cut) \in Int /\ FM + a \in Int /\ FM + m \in Int
        BY <1>1, <2>1
      <4> HIDE DEF r
      <4> QED BY <4>4, <4>5, <4>6, <2>6, <1>2, Scaled
    <3> QED BY <3>1, <3>2
  <2>10. BetweenMidpoints(Rank(h), FloatValue(f)) /\ Rank(h) \in 0 .. HSpecial * HM
    BY <2>5, <2>7, <2>8, <2>9 DEF BetweenMidpoints, x
  <2> QED BY <2>4, <2>5, <2>10, RoundedBetween
<1>4. CASE ~(mant < FM)
  <2> DEFINE r == (e + 1) * HM  h == IF e + 1 >= HSpecial THEN HInfinity(f.s) ELSE HalfOf(f.s, e + 1, 0)
  <2>1. EncodeNormal(f, e) = h
    BY <1>4 DEF EncodeNormal, FM, HalfCut, m
  <2>2. e + 1 \in 0 .. HSpecial /\ HSpecial \in 0 .. HSpecial /\ 0 \in 0 .. HM - 1
        /\ (e + 1 >= HSpecial => e + 1 = HSpecial)
    BY <1>1
  <2>3. r + 0 = r /\ r \in Nat
    <3>1. r \in Nat
      BY <1>1
    <3> QED BY <3>1
  <2>4. h \in Half /\ Rank(h) = r /\ h.s = f.s
    BY <2>2, <2>3, <1>1, IsHalf DEF HalfOf, HInfinity
  <2> HIDE DEF h
  <2>5. HM - 1 \in 0 .. HM - 1 /\ e * HM + (HM - 1) + 1 = r /\ e * HM + (HM - 1) = r - 1
    <3>1. e * HM \in Nat /\ (e + 1) * HM = e * HM + HM
      BY <1>1
    <3> QED BY <3>1, <1>1
  <2> DEFINE a == (HM - 1) * Cut
  <2>6. HalfValue(r - 1) = u * (FM + a) /\ HalfValue(r) = u * (FM + a + Cut)
    BY <2>5, NormalValue DEF u
  <2>7. a \in Int /\ a + Cut = FM
    BY <1>1
  <2> HIDE DEF a
  <2>8. HalfValue(r - 1) + HalfValue(r) <= 2 * x
    <3>1. (FM + a) + (FM + a + Cut) <= 2 * (FM + m)
      BY <1>1, <1>4, <2>7
    <3> QED BY <3>1, <2>6, <1>1, <1>2, <2>7, Scaled
  <2>9. 2 * x < HalfValue(r) + HalfValue(r + 1)
    <3>1. 2 * (FM + m) < (FM + a + Cut) + (FM + a + Cut)
      BY <1>1, <2>7
    <3>2. 2 * x < HalfValue(r) + HalfValue(r)
      BY <3>1, <2>6, <1>1, <1>2, <2>7, Scaled
    <3>3. HalfValue(r) < HalfValue(r + 1) /\ HalfValue(r) \in Nat /\ HalfValue(r + 1) \in Nat
      BY <2>3, Halves
    <3> HIDE DEF r
    <3> QED BY <3>2, <3>3, <1>2
  <2>10. r \in 0 .. HSpecial * HM
    <3> DEFINE d == HSpecial - (e + 1)
    <3>1. d \in Nat /\ HSpecial * HM = r + d * HM
      BY <1>1
    <3>2. d * HM \in Nat
      <4> HIDE DEF d
      <4> QED BY <3>1, <1>1
    <3>3. HSpecial * HM \in Nat
      BY <1>1
    <3> DEFINE dh == d * HM  sh == HSpecial * HM
    <3> HIDE DEF r, dh, sh
    <3>4. sh = r + dh /\ dh \in Nat /\ sh \in Nat
      BY <3>1, <3>2, <3>3 DEF dh, sh
    <3>5. r \in 0 .. sh
      BY <3>4, <2>3
    <3> QED BY <3>5 DEF sh
  <2>11. BetweenMidpoints(Rank(h), FloatValue(f)) /\ Rank(h) \in 0 .. HSpecial * HM
    BY <2>4, <2>8, <2>9, <2>10 DEF BetweenMidpoints, x
  <2> QED BY <2>1, <2>4, <2>11, RoundedBetween
<1> QED BY <1>3, <1>4

(* Subnormal halves, and the first one behind them. *)
LEMMA SmallValue ==
  ASSUME NEW q \in 0 .. HM
  PROVE  HalfValue(q) = HalfScale * q /\ HalfValue(q + 1) = HalfScale * (q + 1)
<1> DEFINE s == HalfScale
<1>1. HM \in Nat /\ HM >= 2 /\ s \in Nat /\ q \in Nat
  BY Mantissas, Scale
<1>2. s * (q + 1) = s * q + s * 1
  <2> HIDE DEF s
  <2> QED BY <1>1
<1>3. CASE q < HM
  <2>1. q \in 0 .. HM - 1 /\ 0 \in Nat /\ 0 * HM + q = q /\ 0 * HM + q + 1 = q + 1
    BY <1>1, <1>3
  <2>2. HalfValue(0 * HM + q) = s * q
    BY <2>1, ValueOfHalf
  <2>3. HalfValue(0 * HM + q + 1) = HalfValue(0 * HM + q) + s * Gap(0)
    BY <2>1, NextHalf
  <2> QED BY <1>2, <2>1, <2>2, <2>3 DEF Gap
<1>4. CASE q = HM
  <2>1. 0 \in 0 .. HM - 1 /\ 1 \in Nat /\ 1 * HM + 0 = q /\ 1 * HM + 0 + 1 = q + 1 /\ 1 - 1 = 0
    BY <1>1, <1>4
  <2>2. HalfValue(1 * HM + 0) = s * ((HM + 0) * Pow2[0])
    BY <2>1, ValueOfHalf
  <2>3. HalfValue(1 * HM + 0 + 1) = HalfValue(1 * HM + 0) + s * Gap(1)
    BY <2>1, NextHalf
  <2>4. (HM + 0) * Pow2[0] = q /\ Gap(1) = 1
    BY <1>1, <1>4, PowSteps DEF Gap
  <2> QED BY <1>2, <2>1, <2>2, <2>3, <2>4
<1>5. q < HM \/ q = HM
  BY <1>1
<1> QED BY <1>3, <1>4, <1>5

(* A rank that is not above the first half with an exponent. *)
LEMMA SmallRank ==
  ASSUME NEW s \in {0, 1}, NEW q \in 0 .. HM
  PROVE  /\ HalfOf(s, q \div HM, q % HM) \in Half
         /\ Rank(HalfOf(s, q \div HM, q % HM)) = q
         /\ q < HSpecial * HM /\ q \in 0 .. HSpecial * HM
<1> DEFINE e == q \div HM  m == q % HM
<1>1. HM \in Nat \ {0} /\ HM >= 2 /\ q \in Nat /\ HSpecial \in Nat /\ HSpecial >= 3
  BY Mantissas, Exponents
<1>2. e \in Nat /\ m \in 0 .. HM - 1 /\ q = e * HM + m
  BY <1>1, DivMod
<1> HIDE DEF e, m
<1>3. e <= 1
  <2>1. CASE e >= 2
    <3>1. e * HM = (e - 2) * HM + 2 * HM
      BY <1>1, <1>2
    <3>2. (e - 2) * HM \in Nat
      <4>1. e - 2 \in Nat
        BY <1>2, <2>1
      <4> QED BY <4>1, <1>1
    <3> QED BY <3>1, <3>2, <1>1, <1>2
  <2> QED BY <2>1, <1>2
<1>4. e \in 0 .. HSpecial
  BY <1>1, <1>2, <1>3
<1>5. q < HSpecial * HM /\ HSpecial * HM \in Nat
  <2>1. HSpecial * HM = (HSpecial - 2) * HM + 2 * HM
    BY <1>1
  <2>2. (HSpecial - 2) * HM \in Nat
    <3>1. HSpecial - 2 \in Nat
      BY <1>1
    <3> QED BY <3>1, <1>1
  <2> QED BY <2>1, <2>2, <1>1
<1>6. HalfOf(s, e, m) \in Half /\ Rank(HalfOf(s, e, m)) = q
  BY <1>2, <1>4, IsHalf
<1>7. q \in 0 .. HSpecial * HM
  BY <1>1, <1>5
<1> QED BY <1>5, <1>6, <1>7 DEF e, m

LEMMA FlushedRounded ==
  ASSUME NEW f \in Float, f.e # Special, f.e - Offset < -HMantBits
  PROVE  Rounded(f, HalfOf(f.s, 0, 0))
<1> DEFINE x == FloatValue(f)
<1>1. /\ f.e \in Nat /\ Offset \in Nat /\ HMantBits \in Nat /\ FM \in Nat /\ HM \in Nat /\ HM >= 2
      /\ f.s \in {0, 1} /\ HMantBits < Offset /\ Cut \in Nat /\ HSpecial \in Nat
  BY FieldsOfFloat, Exponents, Mantissas
<1>2. HalfOf(f.s, 0, 0) \in Half /\ Rank(HalfOf(f.s, 0, 0)) = 0 /\ HalfOf(f.s, 0, 0).s = f.s
  <2>1. 0 \in 0 .. HSpecial /\ 0 \in 0 .. HM - 1 /\ 0 * HM + 0 = 0
    BY <1>1
  <2> QED BY <2>1, <1>1, IsHalf DEF HalfOf
<1>3. 2 * x < HalfScale
  <2> DEFINE d == Offset - HMantBits  p == Pow2[f.e]  o == Pow2[d]
  <2>1. d \in Nat /\ f.e < d /\ HMantBits + d = Offset
    BY <1>1
  <2>2. 2 * p <= o /\ p \in Nat /\ o \in Nat
    BY <1>1, <2>1, PowStrict, PowNat
  <2>3. Pow2[Offset] = HM * o
    BY <1>1, <2>1, PowSum DEF HM
  <2>4. HalfScale = (HM * o) * Cut /\ FM = HM * Cut
    BY <2>3, Scale, Mantissas
  <2>5. (HM * o) * Cut = FM * o
    <3> HIDE DEF o
    <3>1. (HM * o) * Cut = (HM * Cut) * o
      BY <1>1, <2>2
    <3> QED BY <3>1, <2>4
  <2>6. x < FM * p /\ x \in Nat
    BY ValueOfFloat
  <2>7. 2 * (FM * p) <= FM * o
    <3>1. o - 2 * p \in Nat
      BY <2>2
    <3>2. FM * o = 2 * (FM * p) + FM * (o - 2 * p)
      <4> HIDE DEF o, p
      <4> QED BY <1>1, <2>2
    <3>3. FM * (o - 2 * p) \in Nat /\ FM * p \in Nat
      <4>1. FM * (o - 2 * p) \in Nat
        BY <3>1, <1>1
      <4>2. FM * p \in Nat
        <5> HIDE DEF p
        <5> QED BY <1>1, <2>2
      <4> QED BY <4>1, <4>2
    <3> DEFINE a == FM * (o - 2 * p)  b == FM * p  c == FM * o
    <3>4. c = 2 * b + a /\ a \in Nat /\ b \in Nat
      BY <3>2, <3>3
    <3>5. 2 * b <= c
      <4> HIDE DEF a, b, c
      <4> QED BY <3>4
    <3> QED BY <3>5
  <2> DEFINE b == FM * p  c == FM * o
  <2>8. b \in Nat /\ 2 * b <= c /\ x < b /\ HalfScale = c
    <3>1. FM * p \in Nat
      <4> HIDE DEF p
      <4> QED BY <1>1, <2>2
    <3> QED BY <3>1, <2>4, <2>5, <2>6, <2>7
  <2>9. c \in Int
    <3> HIDE DEF o
    <3> QED BY <1>1, <2>2
  <2> HIDE DEF b, c, x
  <2> QED BY <2>6, <2>8, <2>9
<1>4. HalfValue(0) = 0 /\ HalfValue(0 + 1) = HalfScale /\ 0 \in 0 .. HSpecial * HM
  <2>1. 0 \in 0 .. HM /\ HalfScale \in Nat
    BY <1>1, Scale
  <2>2. HalfValue(0) = HalfScale * 0 /\ HalfValue(0 + 1) = HalfScale * (0 + 1)
    BY <2>1, SmallValue
  <2> QED BY <2>1, <2>2, Infinity
<1>5. BetweenMidpoints(0, x)
  <2>1. HalfScale \in Nat /\ x \in Nat
    BY Scale, ValueOfFloat
  <2> HIDE DEF x
  <2> QED BY <1>3, <1>4, <2>1 DEF BetweenMidpoints
<1> QED BY <1>2, <1>4, <1>5, RoundedBetween

LEMMA SmallRounded ==
  ASSUME NEW f \in Float, f.e # Special, NEW e \in Int, e = f.e - Offset, e <= 0
  PROVE  Rounded(f, EncodeSmall(f, e))
<1>0. HMantBits \in Nat /\ -HMantBits \in Int
  BY Exponents
<1>1. CASE e < -HMantBits
  <2>1. EncodeSmall(f, e) = HalfOf(f.s, 0, 0)
    BY <1>1 DEF EncodeSmall
  <2> QED BY <2>1, <1>1, FlushedRounded
<1>2. CASE ~(e < -HMantBits)
  <2> DEFINE m == f.m  shift == Drop + 1 - e  P == Pow2[shift]  Q == Pow2[shift - 1]
             v == Pow2[f.e - 1]  sum == m + FM + Q
             q == sum \div P  t == sum % P  a == q * P  x == FloatValue(f)
             h == HalfOf(f.s, q \div HM, q % HM)
  <2>1. /\ m \in Nat /\ m < FM /\ f.s \in {0, 1} /\ f.e \in Nat /\ f.e = e + Offset /\ f.e # 0
        /\ FM \in Nat /\ HM \in Nat /\ HM >= 2 /\ Cut \in Nat /\ FM = HM * Cut
        /\ Offset \in Nat /\ Drop \in Nat /\ Drop >= 1 /\ MantBits = Drop + HMantBits
        /\ MantBits \in Nat
    <3>1. MantBits \in Nat /\ HMantBits < Offset /\ Offset \in Nat
      BY Exponents
    <3>2. MantBits = Drop + HMantBits
      BY <1>0, <3>1 DEF Drop
    <3>3. f.e \in Nat /\ m \in Nat /\ m < FM /\ f.s \in {0, 1}
      BY FieldsOfFloat, Exponents, Mantissas
    <3>4. f.e = e + Offset /\ f.e # 0
      BY <3>1, <3>3, <1>0, <1>2
    <3> QED BY <3>1, <3>2, <3>3, <3>4, Mantissas
  <2>2. /\ shift \in Nat /\ shift # 0 /\ shift - 1 \in Nat /\ Drop <= shift - 1
        /\ shift - 1 <= MantBits /\ f.e - 1 \in Nat /\ (f.e - 1) + shift = Offset + Drop
    <3>1. Drop \in Nat /\ MantBits = Drop + HMantBits /\ HMantBits \in Nat
      BY <1>0, <2>1
    <3>2. shift \in Nat /\ shift # 0 /\ shift - 1 \in Nat /\ Drop <= shift - 1
      BY <3>1
    <3>3. shift - 1 <= MantBits
      BY <3>1, <1>2
    <3>4. f.e \in Nat /\ f.e = e + Offset /\ f.e # 0 /\ Offset \in Nat
      BY <2>1
    <3>5. f.e - 1 \in Nat /\ (f.e - 1) + shift = Offset + Drop
      BY <3>1, <3>4
    <3> QED BY <3>2, <3>3, <3>5
  <2>3. P = 2 * Q /\ Q \in Nat /\ Q >= 1 /\ P \in Nat /\ v \in Nat /\ v >= 1
    BY <2>2, PowPrev, PowNat
  <2>4. Cut <= Q /\ Q <= FM
    BY <2>1, <2>2, PowMonotone DEF Cut, FM
  <2>5. HalfScale = v * P
    <3>1. Pow2[(f.e - 1) + shift] = v * P
      BY <2>2, PowSum
    <3>2. HalfScale = Pow2[Offset + Drop]
      BY <2>1, Scale, PowSum DEF Cut
    <3> QED BY <3>1, <3>2, <2>2
  <2>6. x = v * (FM + m) /\ x \in Nat
    <3>1. x = (FM + f.m) * v /\ x \in Nat
      BY <2>1, ValueOfFloat
    <3>2. (FM + m) * v = v * (FM + m)
      <4> HIDE DEF v, m
      <4> QED BY <2>1, <2>3
    <3> QED BY <3>1, <3>2
  <2>7. EncodeSmall(f, e) = h
    <3>1. sum \in Nat /\ sum < Pow2[WordBits]
      <4> HIDE DEF Q, m
      <4>1. sum \in Nat /\ sum < 4 * FM
        BY <2>1, <2>3, <2>4
      <4> HIDE DEF sum
      <4> QED BY <4>1, <2>1, Words
    <3>2. Word(sum) = sum
      <4> HIDE DEF sum
      <4> QED BY <3>1, Words
    <3>3. EncodeSmall(f, e) =
            HalfOf(f.s, (Word(sum) \div P) \div HM, (Word(sum) \div P) % HM)
      BY <1>2 DEF EncodeSmall, FM, HM
    <3> QED BY <3>2, <3>3
  <2> HIDE DEF P, Q, v, m, x, shift
  <2>8. q \in Nat /\ t \in 0 .. P - 1 /\ sum = a + t /\ a \in Nat /\ sum \in Nat
    <3>1. sum \in Nat /\ P \in Nat \ {0}
      BY <2>1, <2>3
    <3> HIDE DEF sum
    <3>2. q \in Nat /\ t \in 0 .. P - 1 /\ sum = q * P + t
      BY <3>1, DivMod
    <3> HIDE DEF q, t
    <3> QED BY <3>1, <3>2, <2>3
  <2> HIDE DEF t, q
  <2>9. q \in 0 .. HM
    <3>1. CASE q > HM
      <4> DEFINE d == q - HM - 1  hq == HM * Q  c == Q - Cut
      <4>1. d \in Nat /\ c \in Nat
        BY <3>1, <2>1, <2>3, <2>4, <2>8
      <4>2. a = d * P + 2 * hq + P
        <5>1. q = d + HM + 1
          BY <2>1, <2>8
        <5> HIDE DEF d
        <5>2. (d + HM + 1) * (2 * Q) = d * (2 * Q) + 2 * (HM * Q) + 2 * Q
          BY <4>1, <2>1, <2>3
        <5> QED BY <5>1, <5>2, <2>3
      <4>3. hq = FM + HM * c
        <5>1. Q = Cut + c
          BY <2>1, <2>3
        <5> HIDE DEF c
        <5>2. HM * (Cut + c) = HM * Cut + HM * c
          BY <4>1, <2>1
        <5> QED BY <5>1, <5>2, <2>1
      <4>4. d * P \in Nat /\ HM * c \in Nat
        <5> HIDE DEF d, c
        <5> QED BY <4>1, <2>1, <2>3
      <4> DEFINE dp == d * P  hc == HM * c
      <4>5. a = dp + 2 * hq + P /\ hq = FM + hc /\ dp \in Nat /\ hc \in Nat
        BY <4>2, <4>3, <4>4
      <4> HIDE DEF a, dp, hc, hq
      <4>6. a >= 2 * FM + 2 * Q
        BY <4>5, <2>1, <2>3
      <4> QED BY <4>6, <2>1, <2>3, <2>8
    <3> QED BY <3>1, <2>1, <2>8
  <2>10. h \in Half /\ Rank(h) = q /\ h.s = f.s /\ q < HSpecial * HM /\ q \in 0 .. HSpecial * HM
    BY <2>1, <2>9, SmallRank DEF HalfOf
  <2> HIDE DEF h
  <2>11. HalfValue(q) = v * a /\ HalfValue(q + 1) = v * (a + P)
    <3>1. HalfValue(q) = (v * P) * q /\ HalfValue(q + 1) = (v * P) * (q + 1)
      BY <2>5, <2>9, SmallValue
    <3>2. (v * P) * q = v * (q * P) /\ (v * P) * (q + 1) = v * (q * P + P)
      BY <2>3, <2>8
    <3> QED BY <3>1, <3>2
  <2>12. ASSUME q # 0 PROVE HalfValue(q - 1) = v * (a - P)
    <3>1. q - 1 \in 0 .. HM
      BY <2>12, <2>1, <2>8, <2>9
    <3>2. HalfValue(q - 1) = (v * P) * (q - 1)
      BY <2>5, <3>1, SmallValue
    <3>3. (v * P) * (q - 1) = v * (q * P - P)
      BY <2>3, <2>8
    <3> QED BY <3>2, <3>3
  <2> HIDE DEF a
  <2>13. a \in Int /\ a + P \in Int /\ a - P \in Int /\ FM + m \in Int
    BY <2>1, <2>3, <2>8
  <2>14. 2 * x < HalfValue(q) + HalfValue(q + 1)
    <3>1. 2 * (FM + m) < a + (a + P)
      BY <2>1, <2>3, <2>8
    <3>2. 2 * (v * (FM + m)) < v * a + v * (a + P)
      BY <3>1, <2>3, <2>13, Scaled
    <3> QED BY <3>2, <2>6, <2>11
  <2>15. ASSUME q # 0 PROVE HalfValue(q - 1) + HalfValue(q) <= 2 * x
    <3>1. (a - P) + a <= 2 * (FM + m)
      BY <2>1, <2>3, <2>8
    <3>2. v * (a - P) + v * a <= 2 * (v * (FM + m))
      BY <3>1, <2>3, <2>13, Scaled
    <3> QED BY <3>2, <2>6, <2>11, <2>12, <2>15
  <2>16. BetweenMidpoints(Rank(h), FloatValue(f)) /\ Rank(h) \in 0 .. HSpecial * HM
    BY <2>10, <2>14, <2>15 DEF BetweenMidpoints, x
  <2> QED BY <2>7, <2>10, <2>16, RoundedBetween
<1> QED BY <1>1, <1>2

(* se_float_to_f16_bits rounds every float to the nearest half. *)
LEMMA EncodeRounds ==
  ASSUME NEW f \in Float PROVE Rounded(f, Encode(f))
<1> DEFINE e == f.e - Bias + HBias
<1>1. f.e \in Nat /\ Bias \in Nat /\ HBias \in Nat /\ Offset \in Nat /\ HSpecial \in Nat
      /\ HSpecial + Offset < Special /\ Special \in Nat
  BY FieldsOfFloat, Exponents
<1>2. e \in Int /\ e = f.e - Offset
  BY <1>1 DEF Offset
<1> HIDE DEF e
<1>3. Encode(f) = CASE f.e = Special -> EncodeSpecial(f)
                    [] f.e # Special /\ e >= HSpecial -> HInfinity(f.s)
                    [] e <= 0 -> EncodeSmall(f, e)
                    [] OTHER -> EncodeNormal(f, e)
  BY DEF Encode, e
<1>4. f.e = Special => e > 0
  BY <1>1, <1>2
<1>5. CASE f.e = Special
  <2>1. ~(e <= 0)
    BY <1>2, <1>4, <1>5
  <2>2. Encode(f) = EncodeSpecial(f)
    BY <1>3, <1>5, <2>1
  <2> QED BY <1>5, <2>2, SpecialRounded
<1>6. CASE f.e # Special /\ e >= HSpecial
  <2>1. ~(e <= 0)
    BY <1>1, <1>2, <1>6, Exponents
  <2>2. Encode(f) = HInfinity(f.s)
    BY <1>3, <1>6, <2>1
  <2> QED BY <1>2, <1>6, <2>2, OverflowRounded
<1>7. CASE f.e # Special /\ e <= 0
  <2>1. ~(e >= HSpecial)
    BY <1>1, <1>2, <1>7, Exponents
  <2>2. Encode(f) = EncodeSmall(f, e)
    BY <1>3, <1>7, <2>1
  <2> QED BY <1>2, <1>7, <2>2, SmallRounded
<1>8. CASE f.e # Special /\ ~(e >= HSpecial) /\ ~(e <= 0)
  <2>1. Encode(f) = EncodeNormal(f, e)
    BY <1>3, <1>8
  <2>2. e \in Nat /\ e >= 1 /\ e < HSpecial
    BY <1>1, <1>2, <1>8
  <2> QED BY <1>2, <1>8, <2>1, <2>2, NormalRounded
<1> QED BY <1>5, <1>6, <1>7, <1>8

-----------------------------------------------------------------------------
(* Decoding *)

(* Remainders of sums, below zero too. *)
LEMMA ModUnique ==
  ASSUME NEW w \in Nat, w >= 1, NEW a \in Int, NEW j \in Int, NEW r \in 0 .. w - 1, a = j * w + r
  PROVE  a % w = r
<1> DEFINE i0 == a \div w  r0 == a % w
<1>1. i0 \in Int /\ r0 \in 0 .. w - 1 /\ a = i0 * w + r0
  OBVIOUS
<1> HIDE DEF i0, r0
<1> DEFINE d == i0 - j
<1>2. d \in Int /\ d * w = i0 * w - j * w
  BY <1>1
<1>3. d * w = r - r0
  <2> DEFINE x == i0 * w  y == j * w
  <2>1. x \in Int /\ y \in Int
    BY <1>1
  <2>2. a = x + r0 /\ a = y + r /\ d * w = x - y
    BY <1>1, <1>2
  <2> HIDE DEF x, y
  <2> QED BY <2>1, <2>2, <1>1
<1> HIDE DEF d
<1>4. d = 0
  <2>1. CASE d >= 1
    <3>1. d * w >= w
      <4>1. d * w = (d - 1) * w + w
        BY <1>2
      <4>2. (d - 1) * w \in Nat
        <5>1. d - 1 \in Nat
          BY <1>2, <2>1
        <5> QED BY <5>1
      <4> QED BY <4>1, <4>2
    <3> QED BY <3>1, <1>1, <1>3
  <2>2. CASE d <= -1
    <3>1. d * w <= -w
      <4>1. d * w = (d + 1) * w - w
        BY <1>2
      <4>2. (-(d + 1)) * w \in Nat /\ (d + 1) * w = -((-(d + 1)) * w)
        <5>1. -(d + 1) \in Nat
          BY <1>2, <2>2
        <5> QED BY <5>1, <1>2
      <4> QED BY <4>1, <4>2
    <3> QED BY <3>1, <1>1, <1>3
  <2> QED BY <2>1, <2>2, <1>2
<1>5. r = r0
  BY <1>3, <1>4, <1>1
<1> QED BY <1>5 DEF r0

LEMMA ModOfSum ==
  ASSUME NEW w \in Nat, w >= 1, NEW a \in Int, NEW b \in Int
  PROVE  ((a % w) + b) % w = (a + b) % w
<1> DEFINE i0 == a \div w  r0 == a % w  c == r0 + b  j == c \div w  t == c % w
<1>1. i0 \in Int /\ r0 \in 0 .. w - 1 /\ a = i0 * w + r0
  OBVIOUS
<1> HIDE DEF i0, r0
<1>2. c \in Int
  BY <1>1
<1>3. j \in Int /\ t \in 0 .. w - 1 /\ c = j * w + t
  <2> HIDE DEF c
  <2> QED BY <1>2
<1> HIDE DEF j, t
<1>4. a + b = (i0 + j) * w + t
  <2>1. (i0 + j) * w = i0 * w + j * w
    BY <1>1, <1>3
  <2> DEFINE x == i0 * w  y == j * w
  <2>2. x \in Int /\ y \in Int /\ a = x + r0 /\ r0 + b = y + t
    BY <1>1, <1>3
  <2>3. a + b = (x + y) + t
    <3> HIDE DEF x, y
    <3> QED BY <2>2, <1>1, <1>3
  <2> QED BY <2>1, <2>3
<1>5. (a + b) % w = t
  <2> DEFINE k == i0 + j  s == a + b
  <2>1. k \in Int /\ s \in Int /\ s = k * w + t
    BY <1>1, <1>3, <1>4
  <2>2. s % w = t
    <3> HIDE DEF k, s
    <3> QED BY <2>1, <1>3, ModUnique
  <2> QED BY <2>2
<1> QED BY <1>5 DEF t, r0

(* How often a mantissa is doubled. *)
Doublings(m, k) == k \in Nat /\ HM <= m * Pow2[k] /\ m * Pow2[k] < 2 * HM

LEMMA DoublingsExist ==
  ASSUME NEW m \in Nat, m >= 1, m < 2 * HM
  PROVE  \E k \in Nat : k <= HMantBits /\ Doublings(m, k)
<1> DEFINE S == {k \in Nat : HM <= m * Pow2[k]}
           k == Min(S)
<1>1. HM \in Nat /\ HM >= 2 /\ HMantBits \in Nat
  BY Mantissas, Exponents
<1>2. HMantBits \in S
  <2>1. Pow2[HMantBits] = HM
    BY DEF HM
  <2>2. HM <= m * HM
    <3>1. m * HM = (m - 1) * HM + HM /\ m - 1 \in Nat
      BY <1>1
    <3>2. (m - 1) * HM \in Nat
      BY <3>1, <1>1
    <3> QED BY <3>1, <3>2, <1>1
  <2> QED BY <2>1, <2>2, <1>1
<1>3. k \in S /\ \A y \in S : k <= y
  <2>1. S \in SUBSET Nat /\ S # {}
    BY <1>2
  <2> HIDE DEF S
  <2> QED BY <2>1, MinOfNat
<1> HIDE DEF k
<1>4. k \in Nat /\ HM <= m * Pow2[k] /\ k <= HMantBits
  BY <1>2, <1>3
<1>5. m * Pow2[k] < 2 * HM
  <2>1. CASE k = 0
    <3>1. Pow2[k] = 1 /\ m * 1 = m
      BY <2>1, PowSteps
    <3> QED BY <3>1
  <2>2. CASE k # 0
    <3> DEFINE p == Pow2[k - 1]
    <3>1. k - 1 \in Nat /\ p \in Nat /\ Pow2[k] = 2 * p
      BY <1>4, <2>2, PowPrev, PowNat
    <3>2. ~(HM <= m * p)
      <4>1. k - 1 \notin S
        <5>1. ~(k <= k - 1)
          BY <1>4
        <5> HIDE DEF S
        <5> QED BY <5>1, <1>3
      <4> QED BY <4>1, <3>1
    <3>3. m * (2 * p) = 2 * (m * p) /\ m * p \in Nat
      <4> HIDE DEF p
      <4> QED BY <3>1
    <3> QED BY <3>1, <3>2, <3>3, <1>1
  <2> QED BY <2>1, <2>2
<1> QED BY <1>4, <1>5 DEF Doublings

LEMMA DoublingsUnique ==
  ASSUME NEW m \in Nat, NEW k, NEW l, Doublings(m, k), Doublings(m, l)
  PROVE  k = l
<1>0. HM \in Nat
  BY Mantissas
<1>1. ASSUME NEW a \in Nat, NEW b \in Nat, a < b, Doublings(m, a), Doublings(m, b)
      PROVE FALSE
  <2> DEFINE x == Pow2[a]  y == Pow2[b]
  <2>1. x \in Nat /\ y \in Nat /\ 2 * x <= y
    BY <1>1, PowStrict, PowNat
  <2>2. HM <= m * x /\ m * y < 2 * HM
    BY <1>1 DEF Doublings
  <2>3. m * y = 2 * (m * x) + m * (y - 2 * x)
    <3> HIDE DEF x, y
    <3> QED BY <2>1
  <2>4. m * (y - 2 * x) \in Nat /\ m * x \in Nat /\ m * y \in Nat
    <3>1. y - 2 * x \in Nat
      BY <2>1
    <3>2. m * (y - 2 * x) \in Nat
      BY <3>1
    <3> HIDE DEF x, y
    <3> QED BY <3>2, <2>1
  <2> DEFINE mx == m * x  my == m * y  mz == m * (y - 2 * x)
  <2>5. my = 2 * mx + mz /\ HM <= mx /\ my < 2 * HM /\ mx \in Nat /\ my \in Nat /\ mz \in Nat
    BY <2>2, <2>3, <2>4
  <2> HIDE DEF mx, my, mz
  <2> QED BY <2>5, <1>0
<1>2. k \in Nat /\ l \in Nat
  BY DEF Doublings
<1>3. k < l \/ l < k \/ k = l
  BY <1>2
<1> QED BY <1>1, <1>2, <1>3

LEMMA DoublingsNext ==
  ASSUME NEW m \in Nat, NEW k \in Nat
  PROVE  Doublings(m, k + 1) <=> Doublings(2 * m, k)
<1> DEFINE p == Pow2[k]
<1>1. p \in Nat /\ Pow2[k + 1] = 2 * p
  BY PowNat, PowNext
<1>2. m * (2 * p) = (2 * m) * p
  <2> HIDE DEF p
  <2> QED BY <1>1
<1> QED BY <1>1, <1>2 DEF Doublings

LEMMA DoublingsNone ==
  ASSUME NEW m \in Nat, m >= 1, m < 2 * HM
  PROVE  Doublings(m, 0) <=> HM <= m
<1>1. Pow2[0] = 1 /\ m * 1 = m
  BY PowSteps
<1> QED BY <1>1 DEF Doublings

(* The states of the loop, and what it does to one. *)
LoopStates == [e : 0 .. Pow2[WordBits] - 1, m : 1 .. Pow2[HMantBits + 1] - 1]
Loop(g) ==
  g = [n \in LoopStates |->
         IF n.m >= HM THEN n ELSE g[[e |-> Word(n.e - 1), m |-> 2 * n.m]]]
Shifted(n, k) == [e |-> Word(n.e - k), m |-> n.m * Pow2[k]]

LEMMA LoopState ==
  ASSUME NEW n \in LoopStates
  PROVE  /\ n.e \in Nat /\ n.e < Pow2[WordBits] /\ n.m \in Nat /\ n.m >= 1 /\ n.m < 2 * HM
         /\ n = [e |-> n.e, m |-> n.m]
         /\ n.m < HM => [e |-> Word(n.e - 1), m |-> 2 * n.m] \in LoopStates
<1>1. Pow2[HMantBits + 1] = 2 * HM /\ HM \in Nat /\ Pow2[WordBits] \in Nat /\ Pow2[WordBits] >= 1
  BY Exponents, PowNext, Mantissas, Words DEF HM
<1> DEFINE w == Pow2[WordBits]
<1>2. LoopStates = [e : 0 .. w - 1, m : 1 .. 2 * HM - 1]
  BY <1>1 DEF LoopStates
<1>3. n.e \in Nat /\ n.e < w /\ n.m \in Nat /\ n.m >= 1 /\ n.m < 2 * HM
      /\ n = [e |-> n.e, m |-> n.m]
  <2> HIDE DEF w
  <2> QED BY <1>1, <1>2 DEF w
<1>4. ASSUME n.m < HM PROVE [e |-> Word(n.e - 1), m |-> 2 * n.m] \in LoopStates
  <2>1. Word(n.e - 1) \in 0 .. w - 1
    <3>1. n.e - 1 \in Int
      BY <1>3
    <3> DEFINE a == n.e - 1
    <3>2. a % w \in 0 .. w - 1
      <4> HIDE DEF a, w
      <4> QED BY <3>1, <1>1 DEF a, w
    <3> QED BY <3>2 DEF Word
  <2>2. 2 * n.m \in 1 .. 2 * HM - 1
    BY <1>1, <1>3, <1>4
  <2> HIDE DEF w
  <2> QED BY <2>1, <2>2, <1>2
<1> QED BY <1>3, <1>4

(* One turn of the loop, in closed form. *)
LEMMA ShiftedNext ==
  ASSUME NEW n \in LoopStates, NEW k \in Nat
  PROVE  Shifted([e |-> Word(n.e - 1), m |-> 2 * n.m], k) = Shifted(n, k + 1)
<1>1. n.e \in Nat /\ n.m \in Nat
  BY LoopState
<1> DEFINE w == Pow2[WordBits]  p == Pow2[k]  a == n.e - 1
<1>2. w \in Nat /\ w >= 1 /\ p \in Nat /\ Pow2[k + 1] = 2 * p /\ a \in Int /\ -k \in Int
  BY <1>1, Words, PowNat, PowNext, Exponents
<1>3. ((a % w) + (-k)) % w = (a + (-k)) % w
  <2> HIDE DEF a, w
  <2> QED BY <1>2, ModOfSum
<1>4. a + (-k) = n.e - (k + 1) /\ a % w \in Int
  <2>1. a + (-k) = n.e - (k + 1)
    BY <1>1
  <2>2. a % w \in Int
    <3> HIDE DEF a, w
    <3> QED BY <1>2
  <2> QED BY <2>1, <2>2
<1>5. (a % w) - k = (a % w) + (-k)
  <2> DEFINE r == a % w
  <2>1. r \in Int
    BY <1>4
  <2>2. r - k = r + (-k)
    <3> HIDE DEF r
    <3> QED BY <2>1
  <2> QED BY <2>2
<1>6. Word(Word(n.e - 1) - k) = Word(n.e - (k + 1))
  BY <1>3, <1>4, <1>5 DEF Word
<1>7. (2 * n.m) * p = n.m * (2 * p)
  <2> HIDE DEF p
  <2> QED BY <1>1, <1>2
<1> QED BY <1>2, <1>6, <1>7 DEF Shifted

LEMMA ShiftedNone == ASSUME NEW n \in LoopStates PROVE Shifted(n, 0) = n
<1>1. n.e \in Nat /\ n.e < Pow2[WordBits] /\ n.m \in Nat /\ n = [e |-> n.e, m |-> n.m]
  BY LoopState
<1>2. n.e - 0 = n.e /\ Word(n.e) = n.e /\ n.m * Pow2[0] = n.m
  BY <1>1, Words, PowSteps
<1> QED BY <1>1, <1>2 DEF Shifted

LEMMA LoopExists == \E g : Loop(g)
<1> DEFINE K(m) == CHOOSE k : Doublings(m, k)
           g == [n \in LoopStates |-> Shifted(n, K(n.m))]
           F(n) == IF n.m >= HM THEN n ELSE g[[e |-> Word(n.e - 1), m |-> 2 * n.m]]
<1>1. ASSUME NEW n \in LoopStates PROVE Doublings(n.m, K(n.m))
  <2>1. n.m \in Nat /\ n.m >= 1 /\ n.m < 2 * HM
    BY LoopState
  <2>2. \E k : Doublings(n.m, k)
    BY <2>1, DoublingsExist
  <2> QED BY <2>2
<1> HIDE DEF K
<1>2. ASSUME NEW n \in LoopStates PROVE g[n] = F(n)
  <2>1. n.m \in Nat /\ n.m >= 1 /\ n.m < 2 * HM /\ HM \in Nat /\ g[n] = Shifted(n, K(n.m))
    BY LoopState, Mantissas
  <2>2. CASE n.m >= HM
    <3>1. Doublings(n.m, 0)
      BY <2>1, <2>2, DoublingsNone
    <3>2. K(n.m) = 0
      BY <3>1, <1>1, <2>1, DoublingsUnique
    <3> HIDE DEF g
    <3> QED BY <2>1, <2>2, <3>2, ShiftedNone
  <2>3. CASE ~(n.m >= HM)
    <3> DEFINE o == [e |-> Word(n.e - 1), m |-> 2 * n.m]
    <3>1. o \in LoopStates /\ o.m = 2 * n.m
      BY <2>1, <2>3, LoopState
    <3> HIDE DEF o
    <3>2. g[o] = Shifted(o, K(2 * n.m)) /\ Doublings(2 * n.m, K(2 * n.m))
      BY <3>1, <1>1
    <3>3. K(2 * n.m) \in Nat
      BY <3>2 DEF Doublings
    <3>4. Doublings(n.m, K(2 * n.m) + 1)
      BY <2>1, <3>2, <3>3, DoublingsNext
    <3>5. K(n.m) = K(2 * n.m) + 1
      BY <2>1, <3>4, <1>1, DoublingsUnique
    <3>6. Shifted(o, K(2 * n.m)) = Shifted(n, K(2 * n.m) + 1)
      BY <3>3, ShiftedNext DEF o
    <3>7. F(n) = g[o]
      BY <2>3 DEF o
    <3> HIDE DEF g, F
    <3> QED BY <2>1, <3>2, <3>5, <3>6, <3>7
  <2> QED BY <2>2, <2>3
<1>3. g = [n \in LoopStates |-> g[n]]
  OBVIOUS
<1>4. g = [n \in LoopStates |-> F(n)]
  <2> HIDE DEF g, F
  <2> QED BY <1>2, <1>3
<1>5. Loop(g)
  BY <1>4 DEF Loop
<1> HIDE DEF g
<1> QED BY <1>5

LEMMA LoopEnds ==
  ASSUME NEW g, Loop(g)
  PROVE  \A k \in Nat : \A n \in LoopStates : Doublings(n.m, k) => g[n] = Shifted(n, k)
<1> DEFINE P == {k \in Nat : \A n \in LoopStates : Doublings(n.m, k) => g[n] = Shifted(n, k)}
<1>1. ASSUME NEW n \in LoopStates
      PROVE  g[n] = IF n.m >= HM THEN n ELSE g[[e |-> Word(n.e - 1), m |-> 2 * n.m]]
  BY DEF Loop
<1>2. 0 \in P
  <2>1. ASSUME NEW n \in LoopStates, Doublings(n.m, 0) PROVE g[n] = Shifted(n, 0)
    <3>1. n.m \in Nat /\ n.m >= 1 /\ n.m < 2 * HM /\ HM \in Nat
      BY LoopState, Mantissas
    <3>2. n.m >= HM
      BY <3>1, <2>1, DoublingsNone
    <3> QED BY <3>2, <1>1, ShiftedNone
  <2> QED BY <2>1
<1>3. ASSUME NEW k \in P PROVE k + 1 \in P
  <2>0. k \in Nat /\ \A n \in LoopStates : Doublings(n.m, k) => g[n] = Shifted(n, k)
    OBVIOUS
  <2>1. ASSUME NEW n \in LoopStates, Doublings(n.m, k + 1) PROVE g[n] = Shifted(n, k + 1)
    <3>1. n.m \in Nat /\ n.m >= 1 /\ n.m < 2 * HM /\ HM \in Nat
      BY LoopState, Mantissas
    <3>2. ~(n.m >= HM)
      <4>1. CASE n.m >= HM
        <5>1. Doublings(n.m, 0)
          BY <3>1, <4>1, DoublingsNone
        <5>2. k + 1 = 0
          BY <5>1, <2>1, <3>1, DoublingsUnique
        <5> QED BY <5>2, <2>0
      <4> QED BY <4>1
    <3> DEFINE o == [e |-> Word(n.e - 1), m |-> 2 * n.m]
    <3>3. o \in LoopStates /\ o.m = 2 * n.m
      BY <3>1, <3>2, LoopState
    <3>4. g[n] = g[o]
      BY <1>1, <3>2
    <3>5. Shifted(o, k) = Shifted(n, k + 1)
      BY <2>0, ShiftedNext
    <3> HIDE DEF o
    <3>6. Doublings(o.m, k)
      BY <2>0, <2>1, <3>1, <3>3, DoublingsNext
    <3> QED BY <2>0, <3>3, <3>4, <3>5, <3>6
  <2>2. k + 1 \in Nat
    BY <2>0
  <2> QED BY <2>1, <2>2
<1>4. P \in SUBSET Nat
  OBVIOUS
<1>5. P = Nat
  <2> HIDE DEF P
  <2> QED BY <1>2, <1>3, <1>4, NatInduct
<1> QED BY <1>5

(* The mantissa reaches the hidden bit, and the exponent has counted the   *)
(* doublings, past zero where there is more than one.                      *)
LEMMA NormalisedIs ==
  ASSUME NEW mant \in 1 .. HM - 1
  PROVE  \E k \in Nat : /\ k <= HMantBits /\ Doublings(mant, k)
                        /\ Normalised(mant) = [e |-> Word(1 - k), m |-> mant * Pow2[k]]
<1>1. HM \in Nat /\ HM >= 2 /\ HMantBits \in Nat /\ Pow2[HMantBits + 1] = 2 * HM
      /\ Pow2[WordBits] \in Nat /\ Pow2[WordBits] >= 4
  <2>1. FM \in Nat /\ FM >= 1 /\ Pow2[WordBits] \in Nat /\ Pow2[WordBits] >= 4 * FM
    BY Words, Exponents, PowNat DEF FM
  <2>2. Pow2[WordBits] >= 4
    BY <2>1
  <2> QED BY <2>1, <2>2, Mantissas, Exponents, PowNext DEF HM
<1> DEFINE g == CHOOSE g : Loop(g)
           n == [e |-> 1, m |-> mant]
<1>2. Loop(g)
  BY LoopExists
<1>3. Normalised(mant) = g[n]
  BY DEF Normalised, Loop, LoopStates, HM
<1> HIDE DEF g
<1>4. n \in LoopStates /\ n.m = mant /\ n.e = 1
  <2>1. 1 \in 0 .. Pow2[WordBits] - 1 /\ mant \in 1 .. Pow2[HMantBits + 1] - 1
    BY <1>1
  <2> QED BY <2>1 DEF LoopStates
<1>5. PICK k \in Nat : k <= HMantBits /\ Doublings(mant, k)
  <2>1. mant \in Nat /\ mant >= 1 /\ mant < 2 * HM
    BY <1>1
  <2> QED BY <2>1, DoublingsExist
<1>6. g[n] = Shifted(n, k)
  <2> HIDE DEF n
  <2> QED BY <1>2, <1>4, <1>5, LoopEnds
<1>7. Normalised(mant) = [e |-> Word(1 - k), m |-> mant * Pow2[k]]
  BY <1>3, <1>4, <1>6 DEF Shifted
<1> QED BY <1>5, <1>7

(* A float with exponent e and the mantissa of a half. *)
LEMMA WidenedIs ==
  ASSUME NEW s \in {0, 1}, NEW e \in Nat, e + Offset < Special, e + Offset > 0, NEW m \in 0 .. HM - 1
  PROVE  /\ Widened(s, e, m) = [s |-> s, e |-> e + Offset, m |-> m * Cut]
         /\ Word(e + Offset) = e + Offset
<1>1. e + Offset \in Nat /\ Offset \in Nat /\ Special \in Nat
  BY Exponents
<1>2. Word(e + Offset) = e + Offset
  <2>1. Pow2[WordBits] \in Nat /\ Special < Pow2[WordBits]
    BY Words
  <2>2. e + Offset < Pow2[WordBits]
    BY <1>1, <2>1
  <2> QED BY <1>1, <2>2, Words
<1> QED BY <1>2 DEF Widened, Offset, Cut

LEMMA WideMantissa ==
  ASSUME NEW m \in 0 .. HM - 1
  PROVE  m * Cut \in 0 .. FM - 1 /\ (m * Cut) \div Cut = m /\ m * Cut \in Nat
<1>1. m \in Nat /\ HM \in Nat /\ Cut \in Nat \ {0} /\ FM = HM * Cut /\ FM \in Nat /\ Cut >= 1
  BY Mantissas
<1>2. HM * Cut = m * Cut + (HM - m) * Cut /\ HM - m \in Nat /\ HM - m >= 1
  BY <1>1
<1>3. m * Cut \in Nat
  BY <1>1
<1>4. (HM - m) * Cut >= 1 /\ (HM - m) * Cut \in Nat
  <2> DEFINE d == HM - m
  <2>1. d \in Nat /\ d >= 1
    BY <1>2
  <2>2. d * Cut >= 1 /\ d * Cut \in Nat
    <3> HIDE DEF d
    <3> QED BY <2>1, <1>1
  <2> QED BY <2>2
<1>5. (m * Cut) \div Cut = m
  BY <1>1, MultipleMod
<1> DEFINE a == m * Cut  b == (HM - m) * Cut
<1>6. FM = a + b /\ a \in Nat /\ b \in Nat /\ b >= 1
  BY <1>1, <1>2, <1>3, <1>4
<1>7. a \in 0 .. FM - 1
  <2> HIDE DEF a, b
  <2> QED BY <1>6
<1> QED BY <1>3, <1>5, <1>7

(* What a half decodes to: a float with its sign, and its value unless it  *)
(* is infinity or NaN.                                                     *)
Exact(h, f) ==
  /\ f \in Float
  /\ f.s = h.s
  /\ h.e # HSpecial => f.e # Special /\ FloatValue(f) = HalfValue(Rank(h))

LEMMA SubnormalExact ==
  ASSUME NEW h \in Half, h.e = 0, h.m # 0
  PROVE  Exact(h, DecodeSubnormal(h))
<1> DEFINE m == h.m  c == Cut
<1>1. /\ m \in 1 .. HM - 1 /\ m \in Nat /\ h.s \in {0, 1} /\ HM \in Nat /\ HM >= 2 /\ HM \in Nat \ {0}
      /\ Offset \in Nat /\ HMantBits \in Nat /\ HMantBits < Offset /\ Special \in Nat
      /\ HSpecial \in Nat /\ HSpecial >= 3 /\ HSpecial + Offset < Special
      /\ c \in Nat /\ FM = HM * c /\ FM \in Nat
  BY FieldsOfHalf, Mantissas, Exponents
<1>2. PICK k \in Nat : /\ k <= HMantBits /\ Doublings(m, k)
                       /\ Normalised(m) = [e |-> Word(1 - k), m |-> m * Pow2[k]]
  BY <1>1, NormalisedIs
<1> DEFINE p == Pow2[k]  d == m * p  e == 1 - k + Offset  r == d - HM
<1>3. p \in Nat /\ d \in Nat /\ HM <= d /\ d < 2 * HM
  <2>1. p \in Nat
    BY PowNat
  <2>2. HM <= d /\ d < 2 * HM
    BY <1>2 DEF Doublings
  <2>3. d \in Nat
    <3> HIDE DEF p
    <3> QED BY <2>1, <1>1
  <2> QED BY <2>1, <2>2, <2>3
<1>4. r \in 0 .. HM - 1 /\ d % HM = r
  <2> HIDE DEF d
  <2> DEFINE one == 1
  <2>1. r \in 0 .. HM - 1 /\ d = one * HM + r /\ one \in Int
    BY <1>1, <1>3
  <2> HIDE DEF one
  <2>2. d % HM = r
    <3> HIDE DEF r
    <3> QED BY <2>1, <1>1, <1>3, ModUnique
  <2> QED BY <2>1, <2>2
<1>5. e \in Nat /\ e > 0 /\ e < Special /\ e # 0 /\ e - 1 \in Nat /\ e - 1 = Offset - k
      /\ k + (e - 1) = Offset
  BY <1>1, <1>2
<1>6. Word(Word(1 - k) + Offset) = e
  <2> DEFINE w == Pow2[WordBits]  a == 1 - k
  <2>1. w \in Nat /\ w > Special /\ w >= 1 /\ a \in Int /\ Offset \in Int
    <3>1. w \in Nat /\ w > Special
      BY Words
    <3> QED BY <3>1, <1>1
  <2>2. ((a % w) + Offset) % w = (a + Offset) % w
    <3> HIDE DEF a, w
    <3> QED BY <2>1, ModOfSum
  <2>3. Word(e) = e
    <3>1. e < w
      <4> HIDE DEF w, e
      <4> QED BY <1>1, <1>5, <2>1
    <3> HIDE DEF e
    <3> QED BY <3>1, <1>5, Words
  <2> QED BY <2>2, <2>3 DEF Word
<1> DEFINE f == [s |-> h.s, e |-> e, m |-> r * c]
<1>7. DecodeSubnormal(h) = f
  <2>1. DecodeSubnormal(h) = Widened(h.s, Word(1 - k), d % HM)
    BY <1>2 DEF DecodeSubnormal, HM
  <2>2. Widened(h.s, Word(1 - k), r) = [s |-> h.s, e |-> Word(Word(1 - k) + Offset), m |-> r * c]
    BY DEF Widened, Offset, Cut
  <2> HIDE DEF r, d, e
  <2> QED BY <2>1, <2>2, <1>4, <1>6
<1>8. f \in Float
  <2>1. e \in 0 .. Special
    <3> HIDE DEF e
    <3> QED BY <1>1, <1>5
  <2>2. r * c \in 0 .. FM - 1
    <3> HIDE DEF r
    <3> QED BY <1>4, WideMantissa
  <2> HIDE DEF e, r, c
  <2> QED BY <2>1, <2>2, <1>1, IsFloat
<1>9. f.s = h.s /\ f.e # Special /\ f.e = e /\ f.m = r * c
  <2>1. e # Special
    <3> HIDE DEF e
    <3> QED BY <1>1, <1>5
  <2> HIDE DEF e, r, c
  <2> QED BY <2>1
<1>10. FloatValue(f) = HalfValue(Rank(h))
  <2> DEFINE v == Pow2[e - 1]
  <2>1. FloatValue(f) = (FM + r * c) * v
    <3>1. FloatValue(f) = (FM + f.m) * Pow2[f.e - 1]
      <4> HIDE DEF f
      <4> QED BY <1>5, <1>8, <1>9, ValueOfFloat
    <3> HIDE DEF e, r, c, f
    <3> QED BY <3>1, <1>9
  <2>2. v \in Nat /\ p * v = Pow2[Offset]
    <3> HIDE DEF e
    <3> QED BY <1>5, PowNat, PowSum
  <2>3. FM + r * c = d * c
    <3>1. (d - HM) * c = d * c - HM * c
      <4> HIDE DEF d, c
      <4> QED BY <1>1, <1>3
    <3> DEFINE x == d * c
    <3>2. x \in Int
      <4> HIDE DEF d, c
      <4> QED BY <1>1, <1>3
    <3> HIDE DEF x, d, c
    <3> QED BY <3>1, <3>2, <1>1 DEF x
  <2>4. (d * c) * v = ((p * v) * c) * m
    <3>1. ((m * p) * c) * v = ((p * v) * c) * m
      <4> HIDE DEF p, v, c, m
      <4> QED BY <1>1, <1>3, <2>2
    <3> QED BY <3>1
  <2>5. HalfValue(m) = HalfScale * m /\ HalfScale = Pow2[Offset] * c
    <3>1. m \in 0 .. HM
      BY <1>1
    <3> QED BY <3>1, SmallValue, Scale
  <2>6. Rank(h) = m
    <3>1. h.e * HM = 0
      BY <1>1
    <3> QED BY <3>1, <1>1 DEF Rank, HM
  <2> QED BY <2>1, <2>2, <2>3, <2>4, <2>5, <2>6
<1> QED BY <1>7, <1>8, <1>9, <1>10 DEF Exact

LEMMA NormalExact ==
  ASSUME NEW h \in Half, h.e # 0, h.e # HSpecial
  PROVE  Exact(h, Widened(h.s, h.e, h.m))
<1> DEFINE m == h.m  c == Cut  e == h.e + Offset  f == [s |-> h.s, e |-> e, m |-> m * c]
           v == Pow2[e - 1]
<1>1. /\ m \in 0 .. HM - 1 /\ m \in Nat /\ h.s \in {0, 1} /\ h.e \in Nat /\ h.e >= 1 /\ h.e < HSpecial
      /\ HM \in Nat /\ Offset \in Nat /\ Special \in Nat /\ HSpecial \in Nat
      /\ HSpecial + Offset < Special /\ c \in Nat /\ FM \in Nat
  BY FieldsOfHalf, Mantissas, Exponents
<1>2. e \in Nat /\ e # 0 /\ e < Special /\ e > 0 /\ e \in 0 .. Special /\ e # Special
  BY <1>1
<1>3. Widened(h.s, h.e, h.m) = f
  BY <1>1, <1>2, WidenedIs
<1>4. m * c \in 0 .. FM - 1
  BY <1>1, WideMantissa
<1>5. f \in Float /\ f.s = h.s /\ f.e = e /\ f.m = m * c
  <2> HIDE DEF e, c, m
  <2> QED BY <1>1, <1>2, <1>4, IsFloat
<1>6. FloatValue(f) = (FM + m * c) * v
  <2>1. FloatValue(f) = (FM + f.m) * Pow2[f.e - 1]
    <3> HIDE DEF f
    <3> QED BY <1>2, <1>5, ValueOfFloat
  <2> HIDE DEF e, c, m, f
  <2> QED BY <2>1, <1>5
<1>7. Rank(h) = h.e * HM + m
  BY DEF Rank, HM
<1>8. HalfValue(h.e * HM + m) = Unit(h.e) * (FM + m * c) /\ Unit(h.e) = v /\ v \in Nat
  BY <1>1, NormalValue, UnitNat
<1>9. (FM + m * c) * v = v * (FM + m * c)
  <2> DEFINE x == FM + m * c
  <2>1. x \in Nat
    BY <1>1, <1>4
  <2>2. x * v = v * x
    <3> HIDE DEF x, v
    <3> QED BY <2>1, <1>8
  <2> QED BY <2>2
<1>10. FloatValue(f) = HalfValue(Rank(h))
  BY <1>6, <1>7, <1>8, <1>9
<1> QED BY <1>2, <1>3, <1>5, <1>10 DEF Exact

LEMMA DecodeSpecialIs ==
  ASSUME NEW h \in Half, h.e = HSpecial
  PROVE  Decode(h) = [s |-> h.s, e |-> Special, m |-> h.m * Cut]
<1>1. h.e # 0
  BY Exponents
<1> QED BY <1>1 DEF Decode, Cut

(* se_f16_bits_to_float loses nothing. *)
LEMMA DecodeExact == ASSUME NEW h \in Half PROVE Exact(h, Decode(h))
<1>0. HSpecial # 0 /\ HSpecial >= 3 /\ HSpecial \in Nat /\ Special \in Nat /\ Special # 0
  BY Exponents
<1>1. CASE h.e = 0 /\ h.m = 0
  <2> DEFINE f == [s |-> h.s, e |-> 0, m |-> 0]
  <2>1. Decode(h) = f
    BY <1>1, <1>0 DEF Decode
  <2>2. 0 \in 0 .. Special /\ 0 \in 0 .. FM - 1 /\ 0 \in 0 .. HM /\ h.s \in {0, 1}
    BY <1>0, FieldsOfHalf, PowNat, Exponents, Mantissas DEF FM
  <2>3. f \in Float /\ f.s = h.s /\ f.e # Special
    BY <2>2, <1>0, IsFloat
  <2>4. FloatValue(f) = 0
    BY DEF FloatValue, Magnitude
  <2>5. Rank(h) = 0
    BY <1>1, Mantissas DEF Rank, HM
  <2>6. HalfValue(0) = HalfScale * 0 /\ HalfScale \in Nat
    BY <2>2, SmallValue, Scale
  <2> QED BY <2>1, <2>3, <2>4, <2>5, <2>6 DEF Exact
<1>2. CASE h.e = 0 /\ h.m # 0
  <2>1. Decode(h) = DecodeSubnormal(h)
    BY <1>2, <1>0 DEF Decode
  <2> QED BY <2>1, <1>2, SubnormalExact
<1>3. CASE h.e = HSpecial
  <2>1. Special \in 0 .. Special /\ h.m * Cut \in 0 .. FM - 1 /\ h.s \in {0, 1}
    BY <1>0, FieldsOfHalf, WideMantissa
  <2>2. Decode(h) \in Float
    BY <2>1, <1>3, DecodeSpecialIs, IsFloat
  <2> QED BY <2>2, <1>3, DecodeSpecialIs DEF Exact
<1>4. CASE h.e # 0 /\ h.e # HSpecial
  <2>1. Decode(h) = Widened(h.s, h.e, h.m)
    BY <1>4 DEF Decode
  <2> QED BY <2>1, <1>4, NormalExact
<1> QED BY <1>1, <1>2, <1>3, <1>4

LEMMA RankBound ==
  ASSUME NEW h \in Half, h.e # HSpecial
  PROVE  Rank(h) \in 0 .. HSpecial * HM
<1>1. h.e \in Nat /\ h.e < HSpecial /\ h.m \in Nat /\ h.m < HM /\ HM \in Nat /\ HSpecial \in Nat
  BY FieldsOfHalf, Mantissas, Exponents
<1> DEFINE d == HSpecial - h.e - 1  eh == h.e * HM
<1>2. d \in Nat /\ HSpecial * HM = eh + d * HM + HM /\ eh \in Nat /\ HSpecial * HM \in Nat
  BY <1>1
<1>3. d * HM \in Nat
  <2> HIDE DEF d
  <2> QED BY <1>1, <1>2
<1>4. Rank(h) = eh + h.m
  BY DEF Rank, HM
<1> HIDE DEF d, eh
<1>5. eh + h.m <= eh + d * HM + HM /\ eh + h.m \in Nat
  BY <1>1, <1>2, <1>3
<1> QED BY <1>2, <1>4, <1>5

(* The rank of a half, its sign known, is the half. *)
LEMMA RankDetermines ==
  ASSUME NEW g \in Half, NEW h \in Half, g.s = h.s, Rank(g) = Rank(h)
  PROVE  g = h
<1>1. HM \in Nat \ {0} /\ g.e \in Nat /\ h.e \in Nat /\ g.m \in 0 .. HM - 1 /\ h.m \in 0 .. HM - 1
  BY FieldsOfHalf, Mantissas, Exponents
<1>2. Rank(g) = g.e * HM + g.m /\ Rank(h) = h.e * HM + h.m
  BY DEF Rank, HM
<1>0. ASSUME NEW e \in Nat, NEW m \in 0 .. HM - 1
      PROVE  (e * HM + m) \div HM = e /\ (e * HM + m) % HM = m
  BY <1>1, RowAndColumn
<1>3. Rank(g) \div HM = g.e /\ Rank(g) % HM = g.m
  <2>1. (g.e * HM + g.m) \div HM = g.e /\ (g.e * HM + g.m) % HM = g.m
    BY <1>0, <1>1
  <2> QED BY <1>2, <2>1
<1>4. Rank(h) \div HM = h.e /\ Rank(h) % HM = h.m
  <2>1. (h.e * HM + h.m) \div HM = h.e /\ (h.e * HM + h.m) % HM = h.m
    BY <1>0, <1>1
  <2> QED BY <1>2, <2>1
<1>5. g.e = h.e /\ g.m = h.m
  BY <1>3, <1>4
<1> QED BY <1>5, FieldsOfHalf

(* Encoding undoes decoding. *)
LEMMA EncodeDecoded == ASSUME NEW h \in Half PROVE Encode(Decode(h)) = h
<1> DEFINE f == Decode(h)
<1>1. Exact(h, f)
  BY DecodeExact
<1>2. f \in Float /\ f.s = h.s
  BY <1>1 DEF Exact
<1>3. CASE h.e = HSpecial
  <2>1. f.e = Special /\ f.m = h.m * Cut
    BY <1>3, DecodeSpecialIs
  <2>2. f.m \div Cut = h.m /\ f.m \in Nat
    BY <2>1, FieldsOfHalf, WideMantissa
  <2> HIDE DEF f
  <2>3. EncodeSpecial(f) = HalfOf(f.s, HSpecial, IF f.m # 0 /\ f.m \div Cut = 0 THEN 1 ELSE f.m \div Cut)
    BY DEF EncodeSpecial, Cut
  <2>4. h.m = 0 => f.m = 0
    BY <2>1, Mantissas
  <2>5. EncodeSpecial(f) = h
    <3>1. EncodeSpecial(f) = HalfOf(h.s, h.e, h.m)
      BY <1>2, <1>3, <2>2, <2>3, <2>4
    <3> QED BY <3>1, FieldsOfHalf
  <2>6. ~(f.e - Bias + HBias <= 0)
    <3>1. Bias \in Nat /\ HBias \in Nat /\ Special = 2 * Bias + 1
      BY Exponents
    <3> QED BY <2>1, <3>1
  <2>7. Encode(f) = EncodeSpecial(f)
    BY <2>1, <2>6 DEF Encode
  <2> QED BY <2>5, <2>7 DEF f
<1>4. CASE h.e # HSpecial
  <2>1. f.e # Special /\ FloatValue(f) = HalfValue(Rank(h))
    BY <1>1, <1>4 DEF Exact
  <2> HIDE DEF f
  <2> DEFINE r == Rank(h)
  <2>2. r \in 0 .. HSpecial * HM /\ r \in Nat
    BY <1>4, RankBound
  <2> HIDE DEF r
  <2>3. HalfValue(r) \in Nat /\ HalfValue(r + 1) \in Nat /\ HalfValue(r) < HalfValue(r + 1)
    BY <2>2, Halves
  <2>4. ASSUME r # 0 PROVE HalfValue(r - 1) <= HalfValue(r) /\ HalfValue(r - 1) \in Nat
    <3>1. r - 1 \in Nat /\ r - 1 <= r
      BY <2>2, <2>4
    <3> QED BY <3>1, <2>2, HalvesAscend, Halves
  <2>5. BetweenMidpoints(r, HalfValue(r))
    BY <2>3, <2>4 DEF BetweenMidpoints
  <2>6. NearestRank(f) = r
    BY <2>1, <2>2, <2>3, <2>5, Nearest DEF r
  <2>7. Rounded(f, Encode(f))
    BY <1>2, EncodeRounds
  <2>8. Encode(f) \in Half /\ Encode(f).s = h.s /\ Rank(Encode(f)) = r
    BY <1>2, <2>1, <2>6, <2>7 DEF Rounded, IsNaN
  <2>9. Encode(f) = h
    BY <2>8, RankDetermines DEF r
  <2> QED BY <2>9 DEF f
<1> QED BY <1>3, <1>4

-----------------------------------------------------------------------------
(* The buffer *)

(* The bytes from place on are those of the floats that belong there, and  *)
(* the ones before it those of their halves.                               *)
FloatsFrom(place) ==
  \A a \in place .. 4 * Len(source) - 1 :
    buffer[a] = Byte("float", Input(a \div 4 + 1), a % 4)
HalvesBefore(place) ==
  \A a \in 0 .. place - 1 : buffer[a] = Byte("half", Encode(Input(a \div 2 + 1)), a % 2)

InPlaceInv ==
  /\ \/ from = "floats" /\ source \in Seq(Float)
     \/ from = "halves" /\ source \in Seq(Half)
  /\ i \in 0 .. Len(source)
  /\ phase \in {"decode", "encode", "done"}
  /\ phase = "decode" =>
       /\ from = "halves"
       /\ DOMAIN buffer = 0 .. 4 * i - 1
       /\ \A a \in 0 .. 4 * i - 1 :
            buffer[a] = Byte("float", Input(a \div 4 + 1), a % 4)
  /\ phase # "decode" =>
       /\ DOMAIN buffer = 0 .. 4 * Len(source) - 1
       /\ HalvesBefore(2 * i)
       /\ FloatsFrom(2 * i)
  /\ phase = "done" => i = Len(source)

(* The length of an array is a natural number, whatever it is of. *)
LEMMA SourceLength ==
  ASSUME InPlaceInv PROVE Len(source) \in Nat
BY DEF InPlaceInv

(* The encoder works on floats. *)
LEMMA InputIsFloat ==
  ASSUME InPlaceInv, NEW j \in 1 .. Len(source) PROVE Input(j) \in Float
<1>1. CASE from = "floats" /\ source \in Seq(Float)
  BY <1>1 DEF Input
<1>2. CASE from = "halves" /\ source \in Seq(Half)
  <2>1. source[j] \in Half
    BY <1>2
  <2>2. Exact(source[j], Decode(source[j]))
    BY <2>1, DecodeExact
  <2> QED BY <2>2, <1>2 DEF Exact, Input
<1> QED BY <1>1, <1>2 DEF InPlaceInv

(* Byte k of float j. *)
LEMMA PlaceOfByte ==
  ASSUME NEW j \in Nat, NEW k \in 0 .. 3
  PROVE  /\ 4 * j + k \in Nat
         /\ (4 * j + k) \div 4 = j
         /\ (4 * j + k) % 4 = k
OBVIOUS

(* What the loop still has to read is what it is going to read. *)
LEMMA InvImpliesIntact == InPlaceInv => UnreadFloatsIntact
<1> SUFFICES ASSUME InPlaceInv, phase = "encode", NEW j \in i .. Len(source) - 1
             PROVE  FloatAt(j) = Input(j + 1)
  BY DEF UnreadFloatsIntact
<1>1. Len(source) \in Nat /\ i \in Nat /\ j \in Nat
  BY SourceLength DEF InPlaceInv
<1>2. ASSUME NEW k \in 0 .. 3
      PROVE  buffer[4 * j + k] = Byte("float", Input(j + 1), k)
  <2>1. 4 * j + k \in 2 * i .. 4 * Len(source) - 1
    BY <1>1
  <2>2. (4 * j + k) \div 4 = j /\ (4 * j + k) % 4 = k
    BY <1>1, PlaceOfByte
  <2>3. buffer[4 * j + k] =
          Byte("float", Input((4 * j + k) \div 4 + 1), (4 * j + k) % 4)
    BY <2>1 DEF InPlaceInv, FloatsFrom
  <2> QED BY <2>2, <2>3
<1>3. buffer[4 * j] = Byte("float", Input(j + 1), 0)
  <2>1. 4 * j + 0 = 4 * j
    BY <1>1
  <2> QED BY <1>2, <2>1
<1>4. buffer[4 * j].of = Input(j + 1)
  BY <1>3 DEF Byte
<1>5. Intact(j)
  BY <1>2, <1>4 DEF Intact, FloatBytes
<1> QED BY <1>4, <1>5 DEF FloatAt, FloatBytes

LEMMA InvInit == Init => InPlaceInv
<1> SUFFICES ASSUME Init PROVE InPlaceInv
  OBVIOUS
<1>1. CASE source \in Vectors /\ from = "floats" /\ buffer = FloatBytesOf(source)
           /\ phase = "encode"
  <2>1. source \in Seq(Float) /\ Len(source) \in Nat /\ i = 0 /\ 2 * i = 0
    BY <1>1, InputAssumption DEF Init
  <2>2. DOMAIN buffer = 0 .. 4 * Len(source) - 1
    BY <1>1 DEF FloatBytesOf, FloatBytes
  <2>3. FloatsFrom(2 * i)
    BY <1>1, <2>1 DEF FloatsFrom, FloatBytesOf, FloatBytes, Input
  <2>4. HalvesBefore(2 * i)
    BY <2>1 DEF HalvesBefore
  <2> QED BY <1>1, <2>1, <2>2, <2>3, <2>4 DEF InPlaceInv
<1>2. CASE source \in Blobs /\ from = "halves" /\ buffer = FloatBytesOf(<<>>)
           /\ phase = "decode"
  <2>1. source \in Seq(Half) /\ Len(source) \in Nat
    BY <1>2, InputAssumption
  <2>2. DOMAIN buffer = 0 .. 4 * i - 1
    BY <1>2 DEF FloatBytesOf, FloatBytes, Init
  <2> QED BY <1>2, <2>1, <2>2 DEF InPlaceInv, Init
<1> QED BY <1>1, <1>2 DEF Init

LEMMA InvNext == InPlaceInv /\ [Next]_vars => InPlaceInv'
<1> SUFFICES ASSUME InPlaceInv, [Next]_vars PROVE InPlaceInv'
  OBVIOUS
<1> n == Len(source)
<1>0. n \in Nat /\ i \in 0 .. n
  BY SourceLength DEF InPlaceInv
<1> HIDE DEF n
<1>a. ASSUME source' = source, from' = from, NEW j PROVE Input(j)' = Input(j)
  BY <1>a DEF Input
<1>1. CASE DecodeStep
  <2>1. source' = source /\ from' = from /\ n' = n /\ from = "halves" /\ phase = "decode"
    BY <1>1 DEF DecodeStep, InPlaceInv, n
  <2>a. ASSUME NEW j PROVE Input(j)' = Input(j)
    BY <2>1, <1>a
  <2>b. DOMAIN buffer = 0 .. 4 * i - 1
        /\ \A a \in 0 .. 4 * i - 1 :
             buffer[a] = Byte("float", Input(a \div 4 + 1), a % 4)
    BY <2>1 DEF InPlaceInv
  <2>2. CASE i < n
    <3>1. i' = i + 1 /\ phase' = "decode"
      BY <1>1, <2>1, <2>2 DEF DecodeStep, n
    <3>2. buffer' = [a \in 0 .. 4 * (i + 1) - 1 |->
                       IF a < 4 * i THEN buffer[a]
                       ELSE Byte("float", Decode(source[i + 1]), a % 4)]
      BY <1>1, <2>2 DEF DecodeStep, FloatBytes, n
    <3>3. ASSUME NEW a \in 0 .. 4 * (i + 1) - 1
          PROVE  buffer'[a] = Byte("float", Input(a \div 4 + 1), a % 4)
      <4>1. CASE a < 4 * i
        <5>1. a \in 0 .. 4 * i - 1
          BY <4>1, <1>0
        <5>2. buffer'[a] = buffer[a]
          BY <4>1, <3>2
        <5> QED BY <5>1, <5>2, <2>b
      <4>2. CASE ~(a < 4 * i)
        <5>1. a \div 4 = i
          BY <4>2, <1>0
        <5>2. Input(a \div 4 + 1) = Decode(source[i + 1])
          BY <5>1, <2>1 DEF Input
        <5> QED BY <4>2, <3>2, <5>2
      <4> QED BY <4>1, <4>2
    <3>4. DOMAIN buffer' = 0 .. 4 * i' - 1
      BY <3>1, <3>2
    <3>5. i' \in 0 .. n
      BY <1>0, <2>2, <3>1
    <3> QED
      BY <2>1, <2>a, <3>1, <3>3, <3>4, <3>5 DEF InPlaceInv, n
  <2>3. CASE ~(i < n)
    <3>1. i = n
      BY <1>0, <2>3
    <3>2. phase' = "encode" /\ i' = 0 /\ buffer' = buffer /\ 2 * i' = 0
      BY <1>1, <2>3 DEF DecodeStep, n
    <3>3. FloatsFrom(2 * i)'
      BY <2>1, <2>a, <2>b, <3>1, <3>2 DEF FloatsFrom, n
    <3>4. HalvesBefore(2 * i)'
      BY <3>2 DEF HalvesBefore
    <3> QED
      BY <1>0, <2>1, <2>b, <3>1, <3>2, <3>3, <3>4 DEF InPlaceInv, n
  <2> QED BY <2>2, <2>3
<1>2. CASE EncodeStep
  <2>1. source' = source /\ from' = from /\ n' = n /\ phase = "encode"
    BY <1>2 DEF EncodeStep, n
  <2>a. ASSUME NEW j PROVE Input(j)' = Input(j)
    BY <2>1, <1>a
  <2>b. DOMAIN buffer = 0 .. 4 * n - 1 /\ FloatsFrom(2 * i) /\ HalvesBefore(2 * i)
    BY <2>1 DEF InPlaceInv, n
  <2>2. CASE i < n
    <3>1. i' = i + 1 /\ phase' = "encode"
      BY <1>2, <2>1, <2>2 DEF EncodeStep, n
    <3> DEFINE half == Encode(Input(i + 1))
    <3>2. buffer' = Written(2 * i, half)
      <4>1. FloatAt(i) = Input(i + 1)
        BY InvImpliesIntact, <1>0, <2>1, <2>2 DEF UnreadFloatsIntact, n
      <4> QED BY <4>1, <1>2, <2>2 DEF EncodeStep, StoreHalf, n
    <3> HIDE DEF half
    <3>3. DOMAIN buffer' = 0 .. 4 * n - 1
      BY <3>2, <2>b DEF Written
    <3>4. ASSUME NEW a \in 2 * (i + 1) .. 4 * n - 1
          PROVE  buffer'[a] = Byte("float", Input(a \div 4 + 1), a % 4)
      <4>1. a \in 2 * i .. 4 * n - 1 /\ a \in 0 .. 4 * n - 1
            /\ a \notin {2 * i, 2 * i + 1}
        BY <1>0
      <4>2. buffer'[a] = buffer[a]
        BY <4>1, <3>2, <2>b DEF Written
      <4> QED BY <4>1, <4>2, <2>b DEF FloatsFrom, n
    <3>5. FloatsFrom(2 * i)'
      BY <2>1, <2>a, <3>1, <3>4 DEF FloatsFrom, n
    <3>6. ASSUME NEW a \in 0 .. 2 * (i + 1) - 1
          PROVE  buffer'[a] = Byte("half", Encode(Input(a \div 2 + 1)), a % 2)
      <4>0. a \in 0 .. 4 * n - 1
        BY <1>0, <2>2
      <4>1. CASE a < 2 * i
        <5>1. a \in 0 .. 2 * i - 1 /\ a \notin {2 * i, 2 * i + 1}
          BY <4>1, <1>0
        <5>2. buffer'[a] = buffer[a]
          BY <4>0, <5>1, <3>2, <2>b DEF Written
        <5> QED BY <5>1, <5>2, <2>b DEF HalvesBefore
      <4>2. CASE ~(a < 2 * i)
        <5>1. a \in {2 * i, 2 * i + 1} /\ a \div 2 = i /\ a % 2 = a - 2 * i
          BY <4>2, <1>0
        <5>2. buffer'[a] = Byte("half", half, a - 2 * i)
          BY <4>0, <5>1, <3>2, <2>b DEF Written
        <5> QED BY <5>1, <5>2 DEF half
      <4> QED BY <4>1, <4>2
    <3>7. HalvesBefore(2 * i)'
      BY <2>a, <3>1, <3>6 DEF HalvesBefore
    <3>8. i' \in 0 .. n
      BY <1>0, <2>2, <3>1
    <3> QED
      BY <2>1, <3>1, <3>3, <3>5, <3>7, <3>8 DEF InPlaceInv, n
  <2>3. CASE ~(i < n)
    <3>1. phase' = "done" /\ i' = i /\ buffer' = buffer /\ i = n
      BY <1>0, <1>2, <2>3 DEF EncodeStep, n
    <3>2. FloatsFrom(2 * i)' /\ HalvesBefore(2 * i)'
      BY <2>1, <2>a, <2>b, <3>1 DEF FloatsFrom, HalvesBefore
    <3> QED BY <1>0, <2>1, <2>b, <3>1, <3>2 DEF InPlaceInv, n
  <2> QED BY <2>2, <2>3
<1>3. CASE UNCHANGED vars
  BY <1>3 DEF InPlaceInv, FloatsFrom, HalvesBefore, Input, vars
<1> QED BY <1>1, <1>2, <1>3 DEF Next, Over

LEMMA InvHolds == Spec => []InPlaceInv
BY InvInit, InvNext, PTL DEF Spec

(* binary_string_from_floats encodes into the buffer it reads from, and     *)
(* se_encode_f16_from_floats never comes to a float that is not there any   *)
(* more, for arrays of any length and fields of any width.                  *)
THEOREM EncodedInPlace == Spec => []UnreadFloatsIntact
BY InvHolds, InvImpliesIntact, PTL

(* The halves of a finished blob are the ones of its floats. *)
LEMMA HalfOfBlob ==
  ASSUME InPlaceInv, phase = "done", NEW j \in 1 .. Len(source)
  PROVE  HalfAt(j - 1) = Encode(Input(j))
<1> DEFINE k == j - 1  h == Encode(Input(j))
<1>1. Len(source) \in Nat /\ i = Len(source) /\ k \in Nat /\ k + 1 = j
  BY SourceLength DEF InPlaceInv
<1>2. HalvesBefore(2 * i)
  BY DEF InPlaceInv
<1>3. /\ 2 * k \in 0 .. 2 * i - 1 /\ (2 * k) \div 2 = k /\ (2 * k) % 2 = 0
      /\ 2 * k + 1 \in 0 .. 2 * i - 1 /\ (2 * k + 1) \div 2 = k /\ (2 * k + 1) % 2 = 1
  BY <1>1
<1>4. buffer[2 * k] = Byte("half", h, 0) /\ buffer[2 * k + 1] = Byte("half", h, 1)
  <2>1. buffer[2 * k] = Byte("half", Encode(Input((2 * k) \div 2 + 1)), (2 * k) % 2)
    BY <1>2, <1>3 DEF HalvesBefore
  <2>2. buffer[2 * k + 1] = Byte("half", Encode(Input((2 * k + 1) \div 2 + 1)), (2 * k + 1) % 2)
    BY <1>2, <1>3 DEF HalvesBefore
  <2> QED BY <2>1, <2>2, <1>1, <1>3
<1> HIDE DEF k, h
<1>5. buffer[2 * k].of = h
  BY <1>4 DEF Byte
<1>6. HalfAt(k) = h
  BY <1>4, <1>5 DEF HalfAt
<1> QED BY <1>6 DEF k, h

LEMMA InvImpliesType == InPlaceInv => TypeOK
<1> SUFFICES ASSUME InPlaceInv PROVE TypeOK
  OBVIOUS
<1>1. Len(source) \in Nat /\ i \in 0 .. Len(source)
  BY SourceLength DEF InPlaceInv
<1>2. ASSUME NEW j \in 1 .. Len(source) PROVE Input(j) \in Float /\ Encode(Input(j)) \in Half
  <2>1. Input(j) \in Float
    BY InputIsFloat
  <2>2. Rounded(Input(j), Encode(Input(j)))
    BY <2>1, EncodeRounds
  <2> QED BY <2>1, <2>2 DEF Rounded
<1>3. ASSUME NEW a \in DOMAIN buffer
      PROVE  buffer[a].of \in (IF buffer[a].kind = "float" THEN Float ELSE Half)
  <2>1. a \in 0 .. 4 * Len(source) - 1
    BY <1>1, <1>3 DEF InPlaceInv
  <2>2. a \div 4 + 1 \in 1 .. Len(source)
    BY <2>1, <1>1
  <2>3. \/ buffer[a] = Byte("float", Input(a \div 4 + 1), a % 4)
        \/ a \div 2 + 1 \in 1 .. Len(source) /\ buffer[a] = Byte("half", Encode(Input(a \div 2 + 1)), a % 2)
    <3>1. CASE phase = "decode"
      BY <3>1, <1>3 DEF InPlaceInv
    <3>2. CASE phase # "decode" /\ a < 2 * i
      <4>1. a \in 0 .. 2 * i - 1 /\ a \div 2 + 1 \in 1 .. Len(source)
        BY <3>2, <2>1, <1>1
      <4> QED BY <4>1, <3>2 DEF InPlaceInv, HalvesBefore
    <3>3. CASE phase # "decode" /\ ~(a < 2 * i)
      <4>1. a \in 2 * i .. 4 * Len(source) - 1
        BY <3>3, <2>1, <1>1
      <4> QED BY <4>1, <3>3 DEF InPlaceInv, FloatsFrom
    <3> QED BY <3>1, <3>2, <3>3
  <2>4. CASE buffer[a] = Byte("float", Input(a \div 4 + 1), a % 4)
    <3>1. Input(a \div 4 + 1) \in Float
      BY <2>2, <1>2
    <3> QED BY <3>1, <2>4 DEF Byte
  <2>5. CASE a \div 2 + 1 \in 1 .. Len(source) /\ buffer[a] = Byte("half", Encode(Input(a \div 2 + 1)), a % 2)
    <3>1. Encode(Input(a \div 2 + 1)) \in Half
      BY <2>5, <1>2
    <3> QED BY <3>1, <2>5 DEF Byte
  <2> QED BY <2>3, <2>4, <2>5
<1> QED BY <1>1, <1>3 DEF InPlaceInv, TypeOK

(* No exponent or mantissa that se_float_to_f16_bits or                     *)
(* se_f16_bits_to_float computes runs into the field next to it, whatever   *)
(* the float and whatever the half, and for fields of any width.            *)
THEOREM FieldsKept == Spec => []TypeOK
BY InvHolds, InvImpliesType, PTL

LEMMA InvImpliesNearest == InPlaceInv => BlobIsNearest
<1> SUFFICES ASSUME InPlaceInv, phase = "done", NEW j \in 1 .. Len(source)
             PROVE  LET f == Input(j)  h == HalfAt(j - 1)
                    IN /\ h.s = f.s
                       /\ IF IsNaN(f, Special) THEN IsNaN(h, HSpecial) ELSE Rank(h) = NearestRank(f)
  BY DEF BlobIsNearest
<1>1. HalfAt(j - 1) = Encode(Input(j))
  BY HalfOfBlob
<1>2. Rounded(Input(j), Encode(Input(j)))
  BY InputIsFloat, EncodeRounds
<1> QED BY <1>1, <1>2 DEF Rounded

(* Every half se_encode_f16_from_floats leaves in a blob is the nearest to  *)
(* the float it stands for, the larger of two that are as near, with its    *)
(* sign, and every NaN stays one: for every float of any width.             *)
THEOREM RoundsToNearest == Spec => []BlobIsNearest
BY InvHolds, InvImpliesNearest, PTL

LEMMA InvImpliesRoundTrip == InPlaceInv => RoundTrip
<1> SUFFICES ASSUME InPlaceInv, from = "halves", phase = "done", NEW j \in 1 .. Len(source)
             PROVE  LET h == source[j]  f == Input(j)
                    IN /\ HalfAt(j - 1) = h
                       /\ h.e # HSpecial => f.e # Special /\ FloatValue(f) = HalfValue(Rank(h))
  BY DEF RoundTrip
<1>1. source[j] \in Half /\ Input(j) = Decode(source[j])
  BY DEF InPlaceInv, Input
<1>2. HalfAt(j - 1) = Encode(Decode(source[j]))
  BY <1>1, HalfOfBlob
<1>3. Encode(Decode(source[j])) = source[j]
  BY <1>1, EncodeDecoded
<1>4. Exact(source[j], Decode(source[j]))
  BY <1>1, DecodeExact
<1> QED BY <1>1, <1>2, <1>3, <1>4 DEF Exact

(* se_f16_bits_to_float keeps the value of every half, subnormal ones with  *)
(* their wrapped exponent included, and se_float_to_f16_bits gives back the *)
(* half it came from, NaNs with their mantissa included.                    *)
THEOREM DecodedAndBack == Spec => []RoundTrip
BY InvHolds, InvImpliesRoundTrip, PTL

=============================================================================
