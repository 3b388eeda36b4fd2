-------------------------------- MODULE F16 --------------------------------
(***************************************************************************)
(* The f16 codec (se_f16.c): a float becomes the nearest half, in the      *)
(* buffer it came from, and a blob of halves becomes an array of floats.   *)
(* A pattern is its sign, exponent and mantissa; the widths of the three   *)
(* fields and of the unsigned words are constants.                         *)
(***************************************************************************)
EXTENDS Integers, Sequences, FiniteSets, FiniteSetsExt

CONSTANTS
  ExpBits, MantBits,    \* of a float: 8 and 23
  HExpBits, HMantBits,  \* of a half: 5 and 10
  WordBits,             \* of uint32_t
  Vectors,              \* the sequences of floats a call may encode
  Blobs                 \* the sequences of halves a call may decode

(* 1u << n, as a function: the provers know nothing of ^. *)
Pow2[n \in Nat] == IF n = 0 THEN 1 ELSE 2 * Pow2[n - 1]

Pattern(e, m) == [s : {0, 1}, e : 0 .. Pow2[e] - 1, m : 0 .. Pow2[m] - 1]
Float == Pattern(ExpBits, MantBits)
Half == Pattern(HExpBits, HMantBits)

ASSUME WidthAssumption ==
  /\ ExpBits \in Nat /\ HExpBits \in Nat \ {0, 1} /\ HExpBits < ExpBits
  /\ HMantBits \in Nat \ {0} /\ MantBits \in Nat /\ HMantBits < MantBits
  /\ WordBits \in Nat /\ 1 + ExpBits + MantBits <= WordBits
ASSUME InputAssumption == Vectors \subseteq Seq(Float) /\ Blobs \subseteq Seq(Half)

Bias == Pow2[ExpBits - 1] - 1
HBias == Pow2[HExpBits - 1] - 1
Special == Pow2[ExpBits] - 1      \* the exponent of infinity and NaN
HSpecial == Pow2[HExpBits] - 1
Drop == MantBits - HMantBits    \* the mantissa bits a half has no room for

(* Floats go far below the smallest half: the encoder gives a subnormal    *)
(* float no place of its own.                                              *)
ASSUME RangeAssumption == HMantBits < Bias - HBias

Word(n) == n % Pow2[WordBits]

-----------------------------------------------------------------------------
(* se_float_to_f16_bits *)

HalfOf(s, e, m) == [s |-> s, e |-> e, m |-> m]
HInfinity(s) == HalfOf(s, HSpecial, 0)

(* A NaN whose upper bits are all clear must not turn into infinity. *)
EncodeSpecial(f) ==
  LET kept == f.m \div Pow2[Drop]
  IN HalfOf(f.s, HSpecial, IF f.m # 0 /\ kept = 0 THEN 1 ELSE kept)

(* The half is subnormal, or rounds up to the first normal one. *)
EncodeSmall(f, e) ==
  IF e < -HMantBits THEN HalfOf(f.s, 0, 0)
  ELSE LET shift == Drop + 1 - e
           rounded == Word(f.m + Pow2[MantBits] + Pow2[shift - 1]) \div Pow2[shift]
       IN HalfOf(f.s, rounded \div Pow2[HMantBits], rounded % Pow2[HMantBits])

EncodeNormalNoCarry(f, e) ==
  LET mant == f.m + Pow2[Drop - 1]
  IN HalfOf(f.s, e, (mant % Pow2[MantBits]) \div Pow2[Drop])

EncodeNormalUnchecked(f, e) ==
  HalfOf(f.s, e, (f.m + Pow2[Drop - 1]) \div Pow2[Drop])

(* Rounding may carry into the exponent, and from there into infinity. *)
EncodeNormal(f, e) ==
  LET mant == f.m + Pow2[Drop - 1]
  IN IF mant < Pow2[MantBits] THEN HalfOf(f.s, e, mant \div Pow2[Drop])
     ELSE IF e + 1 >= HSpecial THEN HInfinity(f.s)
     ELSE HalfOf(f.s, e + 1, 0)

Encode(f) ==
  LET e == f.e - Bias + HBias
  IN CASE f.e = Special -> EncodeSpecial(f)
       [] f.e # Special /\ e >= HSpecial -> HInfinity(f.s)
       [] e <= 0 -> EncodeSmall(f, e)
       [] OTHER -> EncodeNormal(f, e)

(* se_f16_bits_to_float *)

(* The loop that normalises a subnormal mantissa: an unsigned exponent that *)
(* counts down past zero, and comes back when the bias is added.            *)
Normalised(mant) ==
  LET shifted[n \in [e : 0 .. Pow2[WordBits] - 1, m : 1 .. Pow2[HMantBits + 1] - 1]] ==
        IF n.m >= Pow2[HMantBits] THEN n
        ELSE shifted[[e |-> Word(n.e - 1), m |-> 2 * n.m]]
  IN shifted[[e |-> 1, m |-> mant]]

Widened(s, e, m) == [s |-> s, e |-> Word(e + (Bias - HBias)), m |-> m * Pow2[Drop]]

DecodeSubnormalFlat(h) == Widened(h.s, 1, h.m)

DecodeSubnormal(h) ==
  LET n == Normalised(h.m) IN Widened(h.s, n.e, n.m % Pow2[HMantBits])

Decode(h) ==
  CASE h.e = 0 /\ h.m = 0 -> [s |-> h.s, e |-> 0, m |-> 0]
    [] h.e = 0 /\ h.m # 0 -> DecodeSubnormal(h)
    [] h.e = HSpecial -> [s |-> h.s, e |-> Special, m |-> h.m * Pow2[Drop]]
    [] OTHER -> Widened(h.s, h.e, h.m)

-----------------------------------------------------------------------------
(* The buffer of one call, byte by byte: a byte is the part of a pattern   *)
(* that was written there.                                                 *)

FloatBytes == 4  \* sizeof(float)

VARIABLES
  source,   \* the floats or halves the call was given
  from,     \* which of the two
  buffer,   \* the bytes the floats are in and the halves go to
  i,        \* the element the loop has come to
  phase     \* decode, encode, done

vars == <<source, from, buffer, i, phase>>

Byte(kind, pattern, k) == [kind |-> kind, of |-> pattern, part |-> k]

FloatBytesOf(floats) ==
  [a \in 0 .. FloatBytes * Len(floats) - 1 |->
     Byte("float", floats[a \div FloatBytes + 1], a % FloatBytes)]

(* src[j], from the bytes that are in its place now. *)
Garbage == [s |-> 0, e |-> Special, m |-> 1]
Intact(j) ==
  \A k \in 0 .. FloatBytes - 1 :
    buffer[FloatBytes * j + k] = Byte("float", buffer[FloatBytes * j].of, k)
FloatAt(j) == IF Intact(j) THEN buffer[FloatBytes * j].of ELSE Garbage

Init ==
  /\ i = 0
  /\ \/ /\ source \in Vectors /\ from = "floats"
        /\ buffer = FloatBytesOf(source)
        /\ phase = "encode"
     \/ /\ source \in Blobs /\ from = "halves"
        /\ buffer = FloatBytesOf(<<>>)
        /\ phase = "decode"

(* se_decode_f16_to_floats: one float more. The caller of a complete array  *)
(* may encode it again.                                                     *)
DecodeStep ==
  /\ phase = "decode"
  /\ IF i < Len(source)
     THEN /\ buffer' = [a \in 0 .. FloatBytes * (i + 1) - 1 |->
                          IF a < FloatBytes * i THEN buffer[a]
                          ELSE Byte("float", Decode(source[i + 1]), a % FloatBytes)]
          /\ i' = i + 1
          /\ UNCHANGED phase
     ELSE /\ phase' = "encode" /\ i' = 0
          /\ UNCHANGED buffer
  /\ UNCHANGED <<source, from>>

Written(place, half) ==
  [a \in DOMAIN buffer |->
     IF a \in {place, place + 1} THEN Byte("half", half, a - place) ELSE buffer[a]]

StoreHalfBackwards(j, half) == Written(Cardinality(DOMAIN buffer) - 2 * (j + 1), half)

(* write_u16le(dst + i * 2, ...) *)
StoreHalf(j, half) == Written(2 * j, half)

(* se_encode_f16_from_floats, called with its source as its destination. *)
EncodeStep ==
  /\ phase = "encode"
  /\ IF i < Len(source)
     THEN /\ buffer' = StoreHalf(i, Encode(FloatAt(i)))
          /\ i' = i + 1
          /\ UNCHANGED phase
     ELSE /\ phase' = "done"
          /\ UNCHANGED <<buffer, i>>
  /\ UNCHANGED <<source, from>>

(* binary_string_from_floats has its blob. *)
Over == phase = "done" /\ UNCHANGED vars

Next == DecodeStep \/ EncodeStep \/ Over

Spec == Init /\ [][Next]_vars

-----------------------------------------------------------------------------
(* Reference: what a pattern stands for, in units of the smallest float.   *)

Magnitude(e, m, bits) == IF e = 0 THEN m ELSE (Pow2[bits] + m) * Pow2[e - 1]
FloatValue(f) == Magnitude(f.e, f.m, MantBits)

(* The halves in order of magnitude; infinity is where the next would be.  *)
HalfScale == Pow2[(Bias + MantBits) - (HBias + HMantBits)]
HalfValue(n) ==
  HalfScale * Magnitude(n \div Pow2[HMantBits], n % Pow2[HMantBits], HMantBits)
Magnitudes == 0 .. HSpecial * Pow2[HMantBits]
Rank(h) == h.e * Pow2[HMantBits] + h.m

IsNaN(p, special) == p.e = special /\ p.m # 0

Distance(x, y) == IF x < y THEN y - x ELSE x - y

(* The nearest half, and the larger of two that are as near. *)
NearestRank(f) ==
  IF f.e = Special THEN Max(Magnitudes)
  ELSE LET gap(n) == Distance(HalfValue(n), FloatValue(f))
       IN Max({n \in Magnitudes : \A k \in Magnitudes : gap(n) <= gap(k)})

(* The floats the encoder works on. *)
Input(j) == IF from = "floats" THEN source[j] ELSE Decode(source[j])

HalfAt(j) ==
  IF /\ buffer[2 * j] = Byte("half", buffer[2 * j].of, 0)
     /\ buffer[2 * j + 1] = Byte("half", buffer[2 * j].of, 1)
  THEN buffer[2 * j].of ELSE HInfinity(0)

(* Every variable keeps its shape and every pattern its fields: no exponent *)
(* or mantissa that was computed runs into the field next to it.            *)
TypeOK ==
  /\ phase \in {"decode", "encode", "done"}
  /\ from \in {"floats", "halves"}
  /\ i \in 0 .. Len(source)
  /\ \A a \in DOMAIN buffer :
       buffer[a].of \in (IF buffer[a].kind = "float" THEN Float ELSE Half)

(* The encoder writes half as fast as it reads, so it never overwrites a   *)
(* float it has not come to: the loop of se_encode_f16_from_floats, which  *)
(* binary_string_from_floats runs within one buffer.                       *)
UnreadFloatsIntact ==
  phase = "encode" => \A j \in i .. Len(source) - 1 : FloatAt(j) = Input(j + 1)

(* Every half of a blob is the nearest to its float, ties away from zero,  *)
(* with its sign, through every carry into exponent and infinity, and a    *)
(* NaN stays one (LIMITATIONS.md: half-up, not ties-to-even).              *)
BlobIsNearest ==
  phase = "done" =>
    \A j \in 1 .. Len(source) :
      LET f == Input(j)  h == HalfAt(j - 1)
      IN /\ h.s = f.s
         /\ IF IsNaN(f, Special) THEN IsNaN(h, HSpecial) ELSE Rank(h) = NearestRank(f)

(* Decoding is exact, and encoding what was decoded gives the blob back,   *)
(* subnormal halves with their wrapped exponent included.                  *)
RoundTrip ==
  from = "halves" /\ phase = "done" =>
    \A j \in 1 .. Len(source) :
      LET h == source[j]  f == Input(j)
      IN /\ HalfAt(j - 1) = h
         /\ h.e # HSpecial => f.e # Special /\ FloatValue(f) = HalfValue(Rank(h))

=============================================================================
