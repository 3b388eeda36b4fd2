-------------------------- MODULE ModelFile_proofs --------------------------
(***************************************************************************)
(* Proofs about ModelFile, for any models, any mappings, weights and cuts, *)
(* chunks and sections of any size, any number of conversions and outages: *)
(* the layout is sound; the chains of streams yield the matrix that was    *)
(* declared, so that what is written is always a prefix of the file that   *)
(* is due; a file of one conversion is refused until it is complete, and   *)
(* whole once the conversion has returned; and a verified load is whole.   *)
(***************************************************************************)
EXTENDS ModelFile, Facts, SequenceTheorems, TLAPS

-----------------------------------------------------------------------------
(* The stages of a chain *)

(* Where the row begins that the next float belongs to, behind p of them. *)
RowStart(d, p) == (p \div d) * d

LEMMA RowStarts ==
  ASSUME NEW d \in Nat \ {0}, NEW p \in Nat, NEW q \in Nat, p <= q
  PROVE  /\ RowStart(d, p) \in Nat /\ RowStart(d, p) <= p
         /\ RowStart(d, p) <= RowStart(d, q)
         /\ p \div d \in Nat /\ p \div d <= q \div d
         /\ q = RowStart(d, p) + (q - RowStart(d, p))
         /\ RowStart(d, q) = RowStart(d, p) + ((q - RowStart(d, p)) \div d) * d
         /\ RowStart(d, q) - RowStart(d, p) = (q \div d - p \div d) * d
<1> DEFINE a == p \div d
           b == p % d
<1>1. a \in Nat /\ b \in 0 .. d - 1 /\ p = a * d + b /\ RowStart(d, p) = a * d
  BY DivMod DEF RowStart
<1> HIDE DEF a, b
<1>2. a * d \in Nat /\ a * d <= p
  BY <1>1
<1> DEFINE l == q - a * d
           e == l \div d
           r == l % d
<1>3. l \in Nat /\ q = a * d + l
  BY <1>2
<1>4. e \in Nat /\ r \in 0 .. d - 1 /\ l = e * d + r
  BY <1>3, DivMod
<1>5. q \div d = a + e
  <2>1. (a * d + l) \div d = a + (l \div d)
    <3> HIDE DEF l
    <3> QED BY <1>1, <1>3, BehindRows
  <2> QED BY <1>3, <2>1
<1> HIDE DEF e, r, l
<1>6. RowStart(d, q) = a * d + e * d /\ e * d \in Nat
  BY <1>1, <1>4, <1>5 DEF RowStart
<1>7. (q \div d - a) * d = e * d
  BY <1>1, <1>4, <1>5
<1> QED BY <1>1, <1>2, <1>3, <1>4, <1>5, <1>6, <1>7 DEF a, e, l

(* split_complete_rows, of what is left of p floats and those up to the q-th. *)
LEMMA SplitRows ==
  ASSUME NEW F, NEW d \in Nat \ {0}, NEW p \in Nat, NEW q \in Nat, p <= q
  PROVE  LET all == Between(F, RowStart(d, p), p) \o Between(F, p, q)
         IN /\ WholeRows(all, d) = Between(F, RowStart(d, p), RowStart(d, q))
            /\ Remainder(all, d) = Between(F, RowStart(d, q), q)
<1> DEFINE a == RowStart(d, p)
           b == RowStart(d, q)
           all == Between(F, a, q)
           cut == ((q - a) \div d) * d
<1>1. a \in Nat /\ a <= p /\ b \in Nat /\ a <= b /\ b <= q /\ a <= q
  <2>1. q <= q
    OBVIOUS
  <2>2. a \in Nat /\ a <= p /\ a <= b /\ b \in Nat /\ b <= q
    BY <2>1, RowStarts
  <2> HIDE DEF a, b
  <2> QED BY <2>2
<1>2. cut = b - a
  BY <1>1, RowStarts
<1> HIDE DEF a, b, cut
<1>3. Between(F, a, p) \o Between(F, p, q) = all
  BY <1>1, Joined
<1>4. Len(all) = q - a
  BY <1>1, BetweenSeq
<1>5. WholeRows(all, d) = Part(all, 1, cut)
      /\ Remainder(all, d) = Part(all, cut + 1, Len(all))
  <2> HIDE DEF all
  <2> QED BY <1>4 DEF WholeRows, Remainder, cut, Part
<1>6. Part(all, 1, cut) = Between(F, a, b)
  <2>1. 1 \in Nat /\ cut \in Nat /\ 1 <= 1 /\ 1 <= cut + 1 /\ a + cut <= q
    BY <1>1, <1>2
  <2>2. Part(all, 1, cut) = Between(F, a + 1 - 1, a + cut)
    BY <1>1, <2>1, PartOfBetween
  <2>3. a + 1 - 1 = a /\ a + cut = b
    BY <1>1, <1>2
  <2> QED BY <2>2, <2>3
<1>7. Part(all, cut + 1, Len(all)) = Between(F, b, q)
  <2> DEFINE x == cut + 1
             y == Len(all)
  <2>1. x \in Nat /\ y \in Nat /\ 1 <= x /\ x <= y + 1 /\ a + y <= q
    BY <1>1, <1>2, <1>4
  <2>2. a + x - 1 = b /\ a + y = q
    BY <1>1, <1>2, <1>4
  <2> HIDE DEF x, y
  <2>3. Part(all, x, y) = Between(F, a + x - 1, a + y)
    BY <1>1, <2>1, PartOfBetween
  <2>4. Part(all, x, y) = Between(F, b, q)
    BY <2>2, <2>3
  <2> QED BY <2>4 DEF x, y
<1> HIDE DEF all
<1> QED BY <1>3, <1>5, <1>6, <1>7 DEF a, b

-----------------------------------------------------------------------------
(* What the chain carries, as functions of a place in it, counted from 1:   *)
(* the source, the rows it is to yield before they are cut, and after.      *)

Src(m) ==
  [k \in Nat \ {0} |-> Value(m, (k - 1) \div m.dim, (k - 1) % m.dim, <<>>)]

PickedRow(m, i) == IF Mapped(m) THEN m.mapping[i] ELSE i - 1
RowWeights(m, i) == IF m.weighted THEN <<i>> ELSE <<>>
Due(m, width) ==
  [k \in Nat \ {0} |->
     Value(m, PickedRow(m, (k - 1) \div width + 1), (k - 1) % width,
           RowWeights(m, (k - 1) \div width + 1))]

IsModel(m) ==
  /\ m.rows \in Nat /\ m.dim \in Nat \ {0} /\ m.out \in 1 .. m.dim
  /\ m.mapping \in Seq(0 .. m.rows - 1)

(* How many floats have come out behind the first p that went into the last *)
(* stage, and which of those it keeps.                                      *)
Yielded(m, p) == IF m.out = m.dim THEN p ELSE (p \div m.dim) * m.out
Unsliced(m, p) ==
  IF m.out = m.dim THEN <<>> ELSE Between(Due(m, m.dim), RowStart(m.dim, p), p)

(* slice_rows keeps the first floats of every row. *)
LEMMA SlicedRows ==
  ASSUME NEW m, IsModel(m), NEW a \in Nat, NEW b \in Nat, a <= b
  PROVE  Sliced(Between(Due(m, m.dim), a * m.dim, b * m.dim), m.dim, m.out)
           = Between(Due(m, m.out), a * m.out, b * m.out)
<1> DEFINE d == m.dim
           o == m.out
           F == Due(m, d)
           G == Due(m, o)
           data == Between(F, a * d, b * d)
           n == (b - a) * o
<1>1. d \in Nat \ {0} /\ o \in Nat \ {0} /\ o <= d
  BY DEF IsModel
<1> HIDE DEF d, o
<1>2. a * d \in Nat /\ b * d \in Nat /\ a * d <= b * d /\ b * d - a * d = (b - a) * d
  BY <1>1
<1>3. Len(data) = (b - a) * d
  <2> DEFINE x == a * d
             y == b * d
  <2>1. x \in Nat /\ y \in Nat /\ x <= y
    BY <1>2
  <2>2. Len(Between(F, x, y)) = y - x
    <3> HIDE DEF x, y, F
    <3> QED BY <2>1, BetweenSeq
  <2> QED BY <1>2, <2>2
<1>4. Len(data) \div d = b - a
  <2> DEFINE x == b - a
  <2>1. x \in Nat /\ d \in Nat \ {0}
    BY <1>1
  <2> HIDE DEF x, d
  <2>2. (x * d) \div d = x
    BY <2>1, MultipleMod
  <2> QED BY <1>3, <2>2 DEF x
<1>5. b * o - a * o = n /\ a * o \in Nat /\ n \in Nat
  BY <1>1
<1>6. ASSUME NEW k \in 1 .. n
      PROVE  data[((k - 1) \div o) * d + ((k - 1) % o) + 1] = G[a * o + k]
  <2> DEFINE i == (k - 1) \div o
             j == (k - 1) % o
  <2>1. k - 1 \in Nat /\ k - 1 < (b - a) * o
    BY <1>5
  <2>2. i \in Nat /\ j \in 0 .. o - 1 /\ k - 1 = i * o + j
    BY <1>1, <2>1, DivMod
  <2> HIDE DEF i, j
  <2>3. i < b - a
    <3>1. SUFFICES ASSUME i >= b - a PROVE FALSE
      BY <2>2
    <3>2. i * o >= (b - a) * o
      BY <1>1, <2>2, <3>1
    <3> QED BY <1>1, <1>5, <2>1, <2>2, <3>2
  <2>4. j \in 0 .. d - 1
    BY <1>1, <2>2
  <2> DEFINE row == a + i
             at == i * d + j + 1
             to == a * o + k
             from == a * d + at
  <2>5. at \in 1 .. (b - a) * d
    <3>1. i + 1 <= b - a
      BY <2>2, <2>3
    <3>2. (i + 1) * d <= (b - a) * d
      BY <1>1, <2>2, <3>1
    <3> QED BY <1>1, <2>2, <2>4, <3>2
  <2>6. data[at] = F[from]
    BY <1>2, <2>5 DEF Between
  <2>7. from - 1 = row * d + j /\ from \in Nat \ {0} /\ row \in Nat
    BY <1>1, <2>2, <2>4
  <2>8. to - 1 = row * o + j /\ to \in Nat \ {0}
    BY <1>1, <2>2
  <2> HIDE DEF row, from, to
  <2>9. (from - 1) \div d = row /\ (from - 1) % d = j
    BY <1>1, <2>4, <2>7, RowAndColumn
  <2>10. (to - 1) \div o = row /\ (to - 1) % o = j
    BY <1>1, <2>2, <2>7, <2>8, RowAndColumn
  <2>11. F[from] = G[to]
    BY <2>7, <2>8, <2>9, <2>10 DEF Due
  <2> QED BY <2>6, <2>11 DEF to, i, j
<1>7. Sliced(data, d, o) = [k \in 1 .. n |-> G[a * o + k]]
  <2> HIDE DEF data, G
  <2>1. Sliced(data, d, o)
          = [k \in 1 .. n |-> data[((k - 1) \div o) * d + ((k - 1) % o) + 1]]
    BY <1>4 DEF Sliced
  <2> QED BY <1>6, <2>1
<1>8. Between(G, a * o, b * o) = [k \in 1 .. n |-> G[a * o + k]]
  BY <1>5 DEF Between
<1> QED BY <1>7, <1>8 DEF d, o

LEMMA Unmapped ==
  ASSUME NEW m, NEW i, ~Mapped(m)
  PROVE  PickedRow(m, i) = i - 1
BY DEF PickedRow

LEMMA Weighted ==
  ASSUME NEW m, NEW i, m.weighted
  PROVE  RowWeights(m, i) = <<i>>
BY DEF RowWeights

LEMMA Unweighted ==
  ASSUME NEW m, NEW i, ~m.weighted
  PROVE  RowWeights(m, i) = <<>>
BY DEF RowWeights

LEMMA Width ==
  ASSUME NEW m, IsModel(m)
  PROVE  m.dim \in Nat \ {0} /\ m.out \in Nat \ {0} /\ m.out <= m.dim
BY DEF IsModel

LEMMA YieldedInOrder ==
  ASSUME NEW m, IsModel(m), NEW p \in Nat, NEW q \in Nat, p <= q
  PROVE  Yielded(m, p) \in Nat /\ Yielded(m, q) \in Nat /\ Yielded(m, p) <= Yielded(m, q)
<1>1. m.dim \in Nat \ {0} /\ m.out \in Nat \ {0}
  BY Width
<1>2. CASE m.out = m.dim
  BY <1>2 DEF Yielded
<1>3. CASE m.out # m.dim
  <2> DEFINE a == p \div m.dim
             b == q \div m.dim
  <2>1. a \in Nat /\ b \in Nat /\ a <= b
    <3>1. q <= q
      OBVIOUS
    <3>2. p \div m.dim \in Nat /\ p \div m.dim <= q \div m.dim
      BY <1>1, RowStarts
    <3>3. q \div m.dim \in Nat
      BY <1>1, <3>1, RowStarts
    <3> QED BY <3>2, <3>3
  <2> HIDE DEF a, b
  <2>2. a * m.out \in Nat /\ b * m.out \in Nat /\ a * m.out <= b * m.out
    BY <1>1, <2>1
  <2> QED BY <1>3, <2>2 DEF Yielded, a, b
<1> QED BY <1>2, <1>3

(* The last stage, behind p floats, given those up to the q-th.             *)
LEMMA SliceStageYields ==
  ASSUME NEW m, IsModel(m), NEW p \in Nat, NEW q \in Nat, p <= q,
         NEW s, s.unsliced = Unsliced(m, p)
  PROVE  LET step == SliceStage(m, s, Between(Due(m, m.dim), p, q))
         IN /\ step.stream = IF m.out = m.dim THEN s
                             ELSE [s EXCEPT !.unsliced = Unsliced(m, q)]
            /\ step.chunk = Between(Due(m, m.out), Yielded(m, p), Yielded(m, q))
<1> DEFINE F == Due(m, m.dim)
           data == Between(F, p, q)
           step == SliceStage(m, s, data)
<1>1. m.dim \in Nat \ {0}
  BY Width
<1>2. CASE m.out = m.dim
  <2>1. step = [stream |-> s, chunk |-> data]
    BY <1>2 DEF SliceStage
  <2>2. Yielded(m, p) = p /\ Yielded(m, q) = q
    BY <1>2 DEF Yielded
  <2> QED BY <1>2, <2>1, <2>2
<1>3. CASE m.out # m.dim
  <2> DEFINE all == Between(F, RowStart(m.dim, p), p) \o data
             whole == WholeRows(all, m.dim)
             rest == Remainder(all, m.dim)
  <2>1. s.unsliced = Between(F, RowStart(m.dim, p), p)
    BY <1>3 DEF Unsliced
  <2>2. step = [stream |-> [s EXCEPT !.unsliced = rest],
                chunk |-> Sliced(whole, m.dim, m.out)]
    <3>1. SliceStage(m, s, data)
            = [stream |-> [s EXCEPT !.unsliced = Remainder(s.unsliced \o data, m.dim)],
               chunk |-> Sliced(WholeRows(s.unsliced \o data, m.dim), m.dim, m.out)]
      <4> HIDE DEF data
      <4> QED BY <1>3 DEF SliceStage
    <3> HIDE DEF data, F
    <3> QED BY <2>1, <3>1
  <2>3. /\ whole = Between(F, RowStart(m.dim, p), RowStart(m.dim, q))
        /\ rest = Between(F, RowStart(m.dim, q), q)
    <3> HIDE DEF F
    <3> QED BY <1>1, SplitRows
  <2> DEFINE a == p \div m.dim
             b == q \div m.dim
  <2>4. a \in Nat /\ b \in Nat /\ a <= b
    <3>1. q <= q
      OBVIOUS
    <3>2. p \div m.dim \in Nat /\ p \div m.dim <= q \div m.dim
      BY <1>1, RowStarts
    <3>3. q \div m.dim \in Nat
      BY <1>1, <3>1, RowStarts
    <3> QED BY <3>2, <3>3
  <2>5. whole = Between(F, a * m.dim, b * m.dim)
    BY <2>3 DEF RowStart
  <2>6. Sliced(Between(F, a * m.dim, b * m.dim), m.dim, m.out)
          = Between(Due(m, m.out), a * m.out, b * m.out)
    <3> HIDE DEF a, b
    <3> QED BY <2>4, SlicedRows
  <2>7. Sliced(whole, m.dim, m.out) = Between(Due(m, m.out), Yielded(m, p), Yielded(m, q))
    <3>1. Yielded(m, p) = a * m.out /\ Yielded(m, q) = b * m.out
      BY <1>3 DEF Yielded
    <3> HIDE DEF whole, a, b
    <3> QED BY <2>5, <2>6, <3>1
  <2>8. rest = Unsliced(m, q)
    BY <1>3, <2>3 DEF Unsliced
  <2> HIDE DEF whole, rest
  <2> QED BY <1>3, <2>2, <2>7, <2>8
<1> QED BY <1>2, <1>3

(* scale, for complete rows of a table that is not mapped. *)
LEMMA ScaledRows ==
  ASSUME NEW m, IsModel(m), m.weighted, ~Mapped(m),
         NEW a \in Nat, NEW b \in Nat, a <= b
  PROVE  Scaled(Between(Src(m), a * m.dim, b * m.dim), m.dim, a)
           = Between(Due(m, m.dim), a * m.dim, b * m.dim)
<1> DEFINE d == m.dim
           F == Src(m)
           G == Due(m, d)
           data == Between(F, a * d, b * d)
           n == b * d - a * d
<1>1. d \in Nat \ {0}
  BY Width
<1> HIDE DEF d
<1>2. a * d \in Nat
  BY <1>1
<1>3. data = [k \in 1 .. n |-> F[a * d + k]] /\ DOMAIN data = 1 .. n
  BY DEF Between
<1>4. ASSUME NEW k \in 1 .. n
      PROVE  [F[a * d + k] EXCEPT !.weights = Append(@, a + (k - 1) \div d + 1)]
               = G[a * d + k]
  <2> DEFINE at == a * d + k
             i == (k - 1) \div d
  <2>1. k - 1 \in Nat /\ at - 1 = a * d + (k - 1) /\ at \in Nat \ {0}
    BY <1>2
  <2>2. (a * d + (k - 1)) \div d = a + i
    <3> DEFINE l == k - 1
    <3>1. l \in Nat
      BY <2>1
    <3>2. (a * d + l) \div d = a + (l \div d)
      <4> HIDE DEF l
      <4> QED BY <1>1, <3>1, BehindRows
    <3> QED BY <3>2
  <2>3. i \in Nat
    BY <1>1, <2>1, DivMod
  <2> HIDE DEF i
  <2> DEFINE row == (at - 1) \div d
             col == (at - 1) % d
             e == row + 1
  <2>4. row = a + i
    BY <2>1, <2>2
  <2>5. F[at] = Value(m, row, col, <<>>)
    BY <2>1 DEF Src, d
  <2>6. G[at] = Value(m, PickedRow(m, e), col, RowWeights(m, e))
    BY <2>1 DEF Due
  <2> HIDE DEF row, col, at, G, F
  <2>7. e - 1 = row /\ e = a + i + 1
    BY <2>3, <2>4
  <2> HIDE DEF e
  <2>8. PickedRow(m, e) = row /\ RowWeights(m, e) = <<e>>
    BY <2>7, Unmapped, Weighted
  <2>9. [F[at] EXCEPT !.weights = Append(@, e)] = Value(m, row, col, <<e>>)
    BY <2>5 DEF Value
  <2> QED BY <2>6, <2>7, <2>8, <2>9 DEF at, i
<1>5. Scaled(data, d, a) = [k \in 1 .. n |-> G[a * d + k]]
  <2>1. Scaled(data, d, a)
          = [k \in 1 .. n |->
               [F[a * d + k] EXCEPT !.weights = Append(@, a + (k - 1) \div d + 1)]]
    <3>1. Scaled(data, d, a)
            = [k \in DOMAIN data |->
                 [data[k] EXCEPT !.weights = Append(@, a + (k - 1) \div d + 1)]]
      BY DEF Scaled
    <3>2. \A k \in 1 .. n : data[k] = F[a * d + k]
      BY <1>3
    <3> HIDE DEF data, F
    <3> QED BY <1>3, <3>1, <3>2
  <2> HIDE DEF F, G
  <2> QED BY <1>4, <2>1
<1> QED BY <1>5 DEF Between, d

-----------------------------------------------------------------------------
(* The state of a chain is a function of what it has read and, if it picks  *)
(* rows, of how many it has picked.                                         *)

Fed(m, r, i) ==
  IF Mapped(m) THEN i * m.dim
  ELSE IF m.weighted THEN RowStart(m.dim, r) ELSE r

Table(m, r) == IF Mapped(m) THEN Between(Src(m), 0, r) ELSE <<>>
Unscaled(m, r) ==
  IF m.weighted /\ ~Mapped(m) THEN Between(Src(m), RowStart(m.dim, r), r) ELSE <<>>

Chain(m, r, i) ==
  [read |-> r, table |-> Table(m, r), index |-> i, unscaled |-> Unscaled(m, r),
   unsliced |-> Unsliced(m, Fed(m, r, i))]

ChainBounds(m, r, i) ==
  /\ r \in Nat /\ r <= SourceSize(m)
  /\ Mapped(m) => /\ i \in Nat /\ i <= OutputRows(m)
                  /\ i # 0 => r = SourceSize(m)
  /\ ~Mapped(m) => i = IF m.weighted THEN r \div m.dim ELSE 0

ChainInv(m, s) == \E r, i : s = Chain(m, r, i) /\ ChainBounds(m, r, i)

FedBy(m, s) == Fed(m, s.read, s.index)

LEMMA Rows ==
  ASSUME NEW m, IsModel(m)
  PROVE  /\ m.rows \in Nat /\ SourceSize(m) \in Nat /\ SourceSize(m) = m.rows * m.dim
         /\ OutputRows(m) \in Nat
         /\ ~Mapped(m) => OutputRows(m) = m.rows
<1>1. m.rows \in Nat /\ m.dim \in Nat
  BY DEF IsModel
<1>2. m.rows * m.dim \in Nat
  BY <1>1
<1>3. Len(m.mapping) \in Nat
  BY LenProperties DEF IsModel
<1> QED BY <1>1, <1>2, <1>3 DEF SourceSize, OutputRows

LEMMA ChainBegins ==
  ASSUME NEW m, IsModel(m)
  PROVE  ChainInv(m, Begun) /\ FedBy(m, Begun) = 0
<1>1. m.dim \in Nat \ {0}
  BY Width
<1>2. RowStart(m.dim, 0) = 0 /\ 0 \div m.dim = 0 /\ 0 * m.dim = 0
  <2>1. 0 * m.dim = 0 /\ (0 * m.dim) \div m.dim = 0
    BY <1>1, MultipleMod
  <2> QED BY <2>1 DEF RowStart
<1>3. Fed(m, 0, 0) = 0
  BY <1>2 DEF Fed
<1>4. Table(m, 0) = <<>> /\ Unscaled(m, 0) = <<>> /\ Unsliced(m, 0) = <<>>
  <2>1. Between(Src(m), 0, 0) = <<>> /\ Between(Due(m, m.dim), 0, 0) = <<>>
    BY NothingBetween
  <2> QED BY <1>2, <2>1 DEF Table, Unscaled, Unsliced
<1>5. Begun = Chain(m, 0, 0)
  BY <1>3, <1>4 DEF Begun, Chain
<1>6. ChainBounds(m, 0, 0)
  BY <1>2, Rows DEF ChainBounds
<1>7. FedBy(m, Begun) = 0
  BY <1>3 DEF FedBy, Begun
<1> QED BY <1>5, <1>6, <1>7 DEF ChainInv

(* No chain yields more than it has declared, and it ends when it has       *)
(* yielded all of it.                                                       *)
LEMMA ChainFits ==
  ASSUME NEW m, IsModel(m), NEW s, ChainInv(m, s)
  PROVE  /\ FedBy(m, s) \in Nat /\ FedBy(m, s) <= OutputRows(m) * m.dim
         /\ Ended(m, s) => FedBy(m, s) = OutputRows(m) * m.dim
<1>1. PICK r, i : s = Chain(m, r, i) /\ ChainBounds(m, r, i)
  BY DEF ChainInv
<1>2. s.read = r /\ s.index = i
  BY <1>1 DEF Chain
<1>3. /\ m.dim \in Nat \ {0} /\ m.rows \in Nat /\ OutputRows(m) \in Nat
      /\ SourceSize(m) = m.rows * m.dim
      /\ r \in Nat /\ r <= SourceSize(m)
  BY <1>1, Width, Rows DEF ChainBounds
<1>4. Ended(m, s) => r = SourceSize(m)
  BY <1>2, <1>3 DEF Ended, Reading
<1>5. CASE Mapped(m)
  <2>1. i \in Nat /\ i <= OutputRows(m) /\ FedBy(m, s) = i * m.dim
    BY <1>1, <1>2, <1>5 DEF ChainBounds, FedBy, Fed
  <2>2. Ended(m, s) => i = OutputRows(m)
    BY <1>2, <1>3, <1>5, <2>1 DEF Ended, Picking
  <2>3. i * m.dim \in Nat /\ i * m.dim <= OutputRows(m) * m.dim
    BY <1>3, <2>1
  <2> QED BY <2>1, <2>2, <2>3
<1>6. CASE ~Mapped(m)
  <2> DEFINE size == SourceSize(m)
             at == RowStart(m.dim, r)
  <2>1. OutputRows(m) * m.dim = size /\ size \in Nat
    BY <1>6, Rows
  <2>2. at \in Nat /\ at <= r
    <3>1. r <= r
      BY <1>3
    <3> QED BY <1>3, <3>1, RowStarts
  <2>3. r = size => at = size
    <3>1. RowStart(m.dim, m.rows * m.dim) = m.rows * m.dim
      BY <1>3, MultipleMod DEF RowStart
    <3> QED BY <1>3, <3>1
  <2>4. FedBy(m, s) = IF m.weighted THEN at ELSE r
    BY <1>2, <1>6 DEF FedBy, Fed
  <2> HIDE DEF at, size
  <2>5. at <= size /\ r <= size
    BY <1>3, <2>1, <2>2 DEF size
  <2> QED BY <1>3, <1>4, <2>1, <2>2, <2>3, <2>4, <2>5 DEF size
<1> QED BY <1>5, <1>6

LEMMA SourceChunkIs ==
  ASSUME NEW m, IsModel(m), NEW s, NEW r \in Nat, s.read = r, r < SourceSize(m)
  PROVE  /\ r + ReadSize(m, s) \in Nat /\ r < r + ReadSize(m, s)
         /\ r + ReadSize(m, s) <= SourceSize(m)
         /\ SourceChunk(m, s) = Between(Src(m), r, r + ReadSize(m, s))
<1> DEFINE n == ReadSize(m, s)
<1>1. n \in Nat \ {0} /\ r + n <= SourceSize(m)
  BY Rows, ChunkAssumption DEF ReadSize, Least, ChunkAssumption
<1> HIDE DEF n
<1>2. ASSUME NEW k \in 1 .. n
      PROVE  Value(m, (r + k - 1) \div m.dim, (r + k - 1) % m.dim, <<>>) = Src(m)[r + k]
  <2>1. r + k \in Nat \ {0}
    BY <1>1
  <2> QED BY <2>1 DEF Src
<1>3. SourceChunk(m, s)
        = [k \in 1 .. n |->
             Value(m, (r + k - 1) \div m.dim, (r + k - 1) % m.dim, <<>>)]
  BY DEF SourceChunk, n
<1>4. Between(Src(m), r, r + n) = [k \in 1 .. n |-> Src(m)[r + k]]
  <2> DEFINE e == r + n
  <2>1. e - r = n
    BY <1>1
  <2> HIDE DEF e
  <2>2. Between(Src(m), r, e) = [k \in 1 .. n |-> Src(m)[r + k]]
    BY <2>1 DEF Between
  <2> QED BY <2>2 DEF e
<1>5. SourceChunk(m, s) = Between(Src(m), r, r + n)
  BY <1>2, <1>3, <1>4
<1> QED BY <1>1, <1>5 DEF n

(* What a stage further down makes of a step: p floats had gone into the    *)
(* last stage, and q have.                                                  *)
Moves(m, s, step) ==
  LET p == FedBy(m, s)
      q == FedBy(m, step.stream)
  IN /\ ChainInv(m, step.stream)
     /\ p <= q
     /\ step.chunk = Between(Due(m, m.out), Yielded(m, p), Yielded(m, q))

(* The last stage behind a chain that has read r floats and picked i rows.  *)
LEMMA LastStageMoves ==
  ASSUME NEW m, IsModel(m), NEW s, ChainInv(m, s),
         NEW r, NEW i, ChainBounds(m, r, i), NEW t,
         t = [read |-> r, table |-> Table(m, r), index |-> i,
              unscaled |-> Unscaled(m, r), unsliced |-> s.unsliced],
         NEW q \in Nat, q = Fed(m, r, i), FedBy(m, s) <= q
  PROVE  Moves(m, s, SliceStage(m, t, Between(Due(m, m.dim), FedBy(m, s), q)))
<1> DEFINE p == FedBy(m, s)
           step == SliceStage(m, t, Between(Due(m, m.dim), p, q))
<1>1. p \in Nat
  BY ChainFits
<1>2. t.unsliced = Unsliced(m, p)
  BY DEF ChainInv, Chain, FedBy
<1>3. /\ step.stream = IF m.out = m.dim THEN t ELSE [t EXCEPT !.unsliced = Unsliced(m, q)]
      /\ step.chunk = Between(Due(m, m.out), Yielded(m, p), Yielded(m, q))
  <2> HIDE DEF p
  <2> QED BY <1>1, <1>2, SliceStageYields DEF p
<1> HIDE DEF p, step
<1>4. step.stream = Chain(m, r, i)
  <2>1. CASE m.out = m.dim
    <3>1. Unsliced(m, p) = <<>> /\ Unsliced(m, q) = <<>>
      BY <2>1 DEF Unsliced
    <3> QED BY <1>2, <1>3, <2>1, <3>1 DEF Chain
  <2>2. CASE m.out # m.dim
    BY <1>3, <2>2 DEF Chain
  <2> QED BY <2>1, <2>2
<1>5. FedBy(m, step.stream) = q
  BY <1>4 DEF FedBy, Chain
<1> QED BY <1>3, <1>4, <1>5 DEF Moves, ChainInv, p, step

LEMMA ReadMoves ==
  ASSUME NEW m, IsModel(m), NEW s, ChainInv(m, s), Reading(m, s)
  PROVE  Moves(m, s, ReadChunk(m, s))
<1> DEFINE e == s.read + ReadSize(m, s)
           next == [s EXCEPT !.read = e]
           chunk == SourceChunk(m, s)
<1>1. PICK r, i : s = Chain(m, r, i) /\ ChainBounds(m, r, i)
  BY DEF ChainInv
<1>2. s.read = r /\ s.index = i /\ r \in Nat /\ r < SourceSize(m) /\ r <= SourceSize(m)
  BY <1>1, Rows DEF Chain, ChainBounds, Reading
<1>3. e \in Nat /\ r < e /\ e <= SourceSize(m) /\ chunk = Between(Src(m), r, e)
  BY <1>2, SourceChunkIs
<1>4. m.dim \in Nat \ {0}
  BY Width
<1>5. ReadChunk(m, s) = IF Mapped(m)
                        THEN [stream |-> [next EXCEPT !.table = s.table \o chunk],
                              chunk |-> <<>>]
                        ELSE WeightStage(m, next, chunk)
  <2> HIDE DEF chunk
  <2> QED BY <1>1 DEF ReadChunk, Chain, chunk
<1>6. next = [read |-> e, table |-> s.table, index |-> i, unscaled |-> s.unscaled,
              unsliced |-> s.unsliced]
  <2> HIDE DEF e
  <2> QED BY <1>1 DEF Chain
<1>7. /\ s.table = Table(m, r) /\ s.unscaled = Unscaled(m, r)
      /\ s.unsliced = Unsliced(m, Fed(m, r, i)) /\ FedBy(m, s) = Fed(m, r, i)
  BY <1>1 DEF Chain, FedBy
<1>8. FedBy(m, s) \in Nat
  BY ChainFits
<1> HIDE DEF e, next, chunk
<1>9. CASE Mapped(m)
  <2> DEFINE step == ReadChunk(m, s)
  <2>1. i = 0
    BY <1>1, <1>2, <1>9 DEF ChainBounds
  <2>2. s.table \o chunk = Table(m, e)
    <3>1. Between(Src(m), 0, r) \o Between(Src(m), r, e) = Between(Src(m), 0, e)
      <4>1. 0 \in Nat /\ 0 <= r /\ r <= e
        BY <1>2, <1>3
      <4> QED BY <1>2, <1>3, <4>1, Joined
    <3> QED BY <1>3, <1>7, <1>9, <3>1 DEF Table
  <2>3. Unscaled(m, r) = <<>> /\ Unscaled(m, e) = <<>> /\ Fed(m, r, i) = Fed(m, e, i)
    BY <1>9 DEF Unscaled, Fed
  <2>4. step.stream = Chain(m, e, i) /\ step.chunk = <<>>
    BY <1>5, <1>6, <1>7, <1>9, <2>2, <2>3 DEF Chain
  <2>5. ChainBounds(m, e, i)
    BY <1>1, <1>3, <1>9, <2>1 DEF ChainBounds
  <2>6. FedBy(m, step.stream) = FedBy(m, s)
    BY <1>7, <2>3, <2>4 DEF FedBy, Chain
  <2> DEFINE y == Yielded(m, FedBy(m, s))
  <2>7. y \in Nat /\ FedBy(m, s) <= FedBy(m, s)
    <3>1. FedBy(m, s) <= FedBy(m, s)
      BY <1>8
    <3> QED BY <1>8, <3>1, YieldedInOrder
  <2>8. Between(Due(m, m.out), y, y) = <<>>
    <3> HIDE DEF y
    <3> QED BY <2>7, NothingBetween
  <2> HIDE DEF step
  <2> QED BY <2>4, <2>5, <2>6, <2>7, <2>8 DEF Moves, ChainInv, step
<1>10. CASE ~Mapped(m) /\ ~m.weighted
  <2>1. ReadChunk(m, s) = SliceStage(m, next, chunk)
    BY <1>5, <1>10 DEF WeightStage
  <2>2. Src(m) = Due(m, m.dim)
    <3>1. ASSUME NEW k \in Nat \ {0} PROVE Src(m)[k] = Due(m, m.dim)[k]
      <4> DEFINE row == (k - 1) \div m.dim
                 col == (k - 1) % m.dim
                 n == row + 1
      <4>1. row \in Nat
        <5>1. k - 1 \in Nat
          OBVIOUS
        <5> QED BY <1>4, <5>1, DivMod
      <4>2. Src(m)[k] = Value(m, row, col, <<>>)
        BY DEF Src
      <4>3. Due(m, m.dim)[k] = Value(m, PickedRow(m, n), col, RowWeights(m, n))
        BY DEF Due
      <4> HIDE DEF row, col
      <4>4. n - 1 = row
        BY <4>1
      <4> HIDE DEF n
      <4>5. PickedRow(m, n) = row /\ RowWeights(m, n) = <<>>
        BY <1>10, <4>4, Unmapped, Unweighted
      <4> QED BY <4>2, <4>3, <4>5
    <3>2. Src(m) = [k \in Nat \ {0} |-> Src(m)[k]]
      BY DEF Src
    <3>3. Due(m, m.dim) = [k \in Nat \ {0} |-> Due(m, m.dim)[k]]
      BY DEF Due
    <3> QED BY <3>1, <3>2, <3>3
  <2>3. i = 0 /\ ChainBounds(m, e, i) /\ Fed(m, e, i) = e /\ Fed(m, r, i) = r
    BY <1>1, <1>3, <1>10 DEF ChainBounds, Fed
  <2>4. /\ Table(m, r) = <<>> /\ Table(m, e) = <<>>
        /\ Unscaled(m, r) = <<>> /\ Unscaled(m, e) = <<>>
    BY <1>10 DEF Table, Unscaled
  <2>5. next = [read |-> e, table |-> Table(m, e), index |-> i,
                unscaled |-> Unscaled(m, e), unsliced |-> s.unsliced]
    BY <1>6, <1>7, <2>4
  <2>6. FedBy(m, s) <= e /\ FedBy(m, s) = r
    BY <1>2, <1>3, <1>7, <2>3
  <2>7. chunk = Between(Due(m, m.dim), FedBy(m, s), e)
    BY <1>3, <2>2, <2>6
  <2> QED BY <1>3, <2>1, <2>3, <2>5, <2>6, <2>7, LastStageMoves
<1>11. CASE ~Mapped(m) /\ m.weighted
  <2> DEFINE all == s.unscaled \o chunk
             whole == WholeRows(all, m.dim)
             rest == Remainder(all, m.dim)
             a == r \div m.dim
             b == e \div m.dim
             n == i + Len(whole) \div m.dim
             t == [next EXCEPT !.unscaled = rest, !.index = n]
  <2>1. ReadChunk(m, s) = SliceStage(m, t, Scaled(whole, m.dim, i))
    BY <1>5, <1>6, <1>11 DEF WeightStage
  <2>2. s.unscaled = Between(Src(m), RowStart(m.dim, r), r)
    BY <1>7, <1>11 DEF Unscaled
  <2>3. /\ whole = Between(Src(m), RowStart(m.dim, r), RowStart(m.dim, e))
        /\ rest = Between(Src(m), RowStart(m.dim, e), e)
    <3>1. r <= e
      BY <1>2, <1>3
    <3> QED BY <1>2, <1>3, <1>4, <2>2, <3>1, SplitRows
  <2>4. i = a
    BY <1>1, <1>11 DEF ChainBounds
  <2>5. /\ a \in Nat /\ b \in Nat /\ a <= b
        /\ RowStart(m.dim, r) = a * m.dim /\ RowStart(m.dim, e) = b * m.dim
        /\ RowStart(m.dim, r) \in Nat /\ RowStart(m.dim, e) \in Nat
        /\ RowStart(m.dim, r) <= RowStart(m.dim, e)
    <3>1. r <= e /\ e <= e
      BY <1>2, <1>3
    <3>2. a \in Nat /\ a <= b /\ RowStart(m.dim, r) <= RowStart(m.dim, e)
          /\ RowStart(m.dim, r) \in Nat
      BY <1>2, <1>3, <1>4, <3>1, RowStarts
    <3>3. b \in Nat /\ RowStart(m.dim, e) \in Nat
      BY <1>3, <1>4, <3>1, RowStarts
    <3> QED BY <3>2, <3>3 DEF RowStart
  <2> HIDE DEF all, rest, whole
  <2>6. Len(whole) \div m.dim = b - a
    <3> HIDE DEF a, b
    <3>1. Len(whole) = RowStart(m.dim, e) - RowStart(m.dim, r)
      BY <2>3, <2>5, BetweenSeq
    <3>2. Len(whole) = (b - a) * m.dim /\ b - a \in Nat
      BY <1>4, <2>5, <3>1
    <3> QED BY <1>4, <3>2, MultipleMod
  <2>7. Scaled(whole, m.dim, i) = Between(Due(m, m.dim), a * m.dim, b * m.dim)
    <3> HIDE DEF a, b
    <3>1. Scaled(Between(Src(m), a * m.dim, b * m.dim), m.dim, a)
            = Between(Due(m, m.dim), a * m.dim, b * m.dim)
      BY <1>11, <2>5, ScaledRows
    <3> QED BY <2>3, <2>4, <2>5, <3>1
  <2>8. t = [read |-> e, table |-> Table(m, e), index |-> b,
             unscaled |-> Unscaled(m, e), unsliced |-> s.unsliced]
    <3>1. n = b
      <4> HIDE DEF a, b
      <4> QED BY <2>4, <2>5, <2>6
    <3>2. Table(m, r) = Table(m, e) /\ Unscaled(m, e) = rest
      BY <1>11, <2>3 DEF Table, Unscaled
    <3> HIDE DEF a, b, n
    <3>3. t = [read |-> e, table |-> s.table, index |-> n, unscaled |-> rest,
               unsliced |-> s.unsliced]
      <4> DEFINE u == [next EXCEPT !.unscaled = rest]
      <4>1. u = [read |-> e, table |-> s.table, index |-> i, unscaled |-> rest,
                 unsliced |-> s.unsliced]
        BY <1>6
      <4>2. t = [u EXCEPT !.index = n]
        OBVIOUS
      <4> HIDE DEF u, t
      <4> QED BY <4>1, <4>2
    <3>4. s.table = Table(m, e)
      BY <1>7, <3>2
    <3> HIDE DEF t
    <3> QED BY <3>1, <3>2, <3>3, <3>4
  <2>9. ChainBounds(m, e, b)
    BY <1>3, <1>11 DEF ChainBounds
  <2>10. /\ Fed(m, e, b) = b * m.dim /\ FedBy(m, s) = a * m.dim
         /\ a * m.dim <= b * m.dim /\ b * m.dim \in Nat
    BY <1>7, <1>11, <2>5 DEF Fed
  <2> DEFINE q == b * m.dim
             c == Scaled(whole, m.dim, i)
  <2>11. /\ q \in Nat /\ q = Fed(m, e, b) /\ FedBy(m, s) <= q
         /\ c = Between(Due(m, m.dim), FedBy(m, s), q)
    BY <2>7, <2>10
  <2> HIDE DEF q, c, t, b
  <2>12. Moves(m, s, SliceStage(m, t, c))
    BY <2>8, <2>9, <2>11, LastStageMoves DEF t
  <2> QED BY <2>1, <2>12 DEF c
<1> QED BY <1>9, <1>10, <1>11

(* The next rows a mapping names. *)
LEMMA PickMoves ==
  ASSUME NEW m, IsModel(m), NEW s, ChainInv(m, s), Picking(m, s)
  PROVE  Moves(m, s, MappedChunk(m, s))
<1> DEFINE d == m.dim
           count == Least(RowsPerChunk, OutputRows(m) - s.index)
           picked == [k \in 1 .. count * d |->
                        s.table[m.mapping[s.index + (k - 1) \div d + 1] * d
                                + ((k - 1) % d) + 1]]
           scaled == IF m.weighted THEN Scaled(picked, d, s.index) ELSE picked
           t == [s EXCEPT !.index = s.index + count]
<1>1. PICK r, i : s = Chain(m, r, i) /\ ChainBounds(m, r, i)
  BY DEF ChainInv
<1>2. s.read = r /\ s.index = i /\ s.table = Table(m, r) /\ FedBy(m, s) = i * d
  BY <1>1 DEF Chain, Picking, FedBy, Fed
<1>3. Mapped(m) /\ i \in Nat /\ i < OutputRows(m) /\ r = SourceSize(m)
      /\ OutputRows(m) \in Nat /\ r \in Nat
  BY <1>1, <1>2, Rows DEF Picking, Reading, ChainBounds
<1>4. d \in Nat \ {0}
  BY Width
<1>5. count \in Nat \ {0} /\ i + count <= OutputRows(m)
  BY <1>2, <1>3, ChunkAssumption DEF Least, ChunkAssumption
<1>6. MappedChunk(m, s) = SliceStage(m, t, scaled)
  <2> HIDE DEF picked
  <2> QED BY <1>1 DEF MappedChunk, Chain, picked
<1> HIDE DEF d, count
<1> DEFINE n == count * d
           F == Src(m)
           G == Due(m, d)
<1>7. i * d \in Nat /\ n \in Nat /\ (i + count) * d \in Nat
      /\ (i + count) * d - i * d = n /\ i * d <= (i + count) * d
  BY <1>3, <1>4, <1>5
<1> HIDE DEF n
<1>8. ASSUME NEW k \in 1 .. n
      PROVE  LET row == (k - 1) \div d
                 c == (k - 1) % d
                 place == i + row + 1
             IN /\ row \in Nat /\ place \in 1 .. OutputRows(m)
                /\ s.table[m.mapping[i + row + 1] * d + c + 1]
                     = Value(m, m.mapping[place], c, <<>>)
                /\ G[i * d + k] = Value(m, m.mapping[place], c, RowWeights(m, place))
  <2> DEFINE row == (k - 1) \div d
             c == (k - 1) % d
             place == i + row + 1
             l == k - 1
  <2>1. l \in Nat /\ l < n
    BY <1>7
  <2>2. row \in Nat /\ c \in 0 .. d - 1 /\ l = row * d + c
    BY <1>4, <2>1, DivMod
  <2>3. (i * d + l) \div d = i + row /\ (i * d + l) % d = c
    <3>1. (i * d + l) \div d = i + (l \div d) /\ (i * d + l) % d = l % d
      <4> HIDE DEF l
      <4> QED BY <1>3, <1>4, <2>1, BehindRows
    <3> QED BY <3>1
  <2> DEFINE to == i * d + k
  <2>4. to - 1 = i * d + l /\ to \in Nat \ {0}
    BY <1>7, <2>1
  <2>5. G[to] = Value(m, PickedRow(m, (to - 1) \div d + 1), (to - 1) % d,
                      RowWeights(m, (to - 1) \div d + 1))
    BY <2>4 DEF Due
  <2> HIDE DEF row, c
  <2>6. row < count
    <3>1. SUFFICES ASSUME row >= count PROVE FALSE
      BY <1>5, <2>2
    <3>2. row * d >= count * d
      BY <1>4, <1>5, <2>2, <3>1
    <3>3. row * d + c < count * d
      BY <2>1, <2>2 DEF n
    <3>4. row * d \in Nat /\ count * d \in Nat /\ c \in Nat
      BY <1>4, <1>5, <2>2
    <3> QED BY <3>2, <3>3, <3>4
  <2>7. place \in 1 .. OutputRows(m)
    BY <1>3, <1>5, <2>2, <2>6
  <2>8. (to - 1) \div d + 1 = place /\ (to - 1) % d = c
    BY <1>3, <2>2, <2>3, <2>4
  <2> HIDE DEF place, to
  <2>9. PickedRow(m, place) = m.mapping[place]
    BY <1>3 DEF PickedRow
  <2>10. G[to] = Value(m, m.mapping[place], c, RowWeights(m, place))
    BY <2>5, <2>8, <2>9
  <2> DEFINE source == m.mapping[place]
             at == source * d + c + 1
  <2>11. source \in Nat /\ source <= m.rows - 1 /\ m.rows \in Nat
    <3>1. place \in 1 .. Len(m.mapping)
      BY <1>3, <2>7 DEF OutputRows
    <3>2. m.mapping \in Seq(0 .. m.rows - 1) /\ m.rows \in Nat
      BY DEF IsModel
    <3>3. source \in 0 .. m.rows - 1
      BY <3>1, <3>2, ElementOfSeq
    <3> QED BY <3>2, <3>3
  <2> HIDE DEF source
  <2>12. at \in 1 .. r /\ at - 1 = source * d + c
    <3>1. (source + 1) * d <= m.rows * d
      BY <1>4, <2>11
    <3>2. r = m.rows * d
      BY <1>3, Rows DEF d
    <3> QED BY <1>4, <2>2, <2>11, <3>1, <3>2
  <2>13. s.table[at] = F[at]
    <3>1. s.table = Between(F, 0, r)
      BY <1>2, <1>3 DEF Table
    <3>2. 0 <= r /\ 0 \in Nat
      BY <1>3
    <3>3. \A j \in 1 .. r - 0 : Between(F, 0, r)[j] = F[0 + j]
      <4> HIDE DEF F
      <4> QED BY <1>3, <3>2, BetweenSeq
    <3> HIDE DEF at, F
    <3>4. at \in 1 .. r - 0 /\ 0 + at = at
      BY <1>3, <2>12
    <3> QED BY <3>1, <3>3, <3>4
  <2>14. (at - 1) \div d = source /\ (at - 1) % d = c
    <3>1. (source * d + c) \div d = source /\ (source * d + c) % d = c
      BY <1>4, <2>2, <2>11, RowAndColumn
    <3> QED BY <2>12, <3>1
  <2>15. F[at] = Value(m, source, c, <<>>)
    <3>1. at \in Nat \ {0}
      BY <1>3, <2>12
    <3>2. F[at] = Value(m, (at - 1) \div d, (at - 1) % d, <<>>)
      <4> HIDE DEF at
      <4> QED BY <3>1 DEF Src, d
    <3> HIDE DEF at
    <3> QED BY <2>14, <3>2
  <2>16. s.table[at] = Value(m, m.mapping[place], c, <<>>)
    BY <2>13, <2>15 DEF source
  <2> HIDE DEF at
  <2>17. at = m.mapping[place] * d + c + 1
    BY DEF at, source
  <2> QED BY <2>2, <2>7, <2>10, <2>16, <2>17 DEF row, c, place, to
<1> DEFINE Col(k) == (k - 1) % d
           Place(k) == i + (k - 1) \div d + 1
           Bare(k) == Value(m, m.mapping[Place(k)], Col(k), <<>>)
           Full(k) == Value(m, m.mapping[Place(k)], Col(k), RowWeights(m, Place(k)))
<1>9. picked = [k \in 1 .. n |-> Bare(k)]
  <2>1. picked = [k \in 1 .. n |->
                    s.table[m.mapping[i + (k - 1) \div d + 1] * d + ((k - 1) % d) + 1]]
    BY <1>2 DEF n
  <2>2. \A k \in 1 .. n :
          s.table[m.mapping[i + (k - 1) \div d + 1] * d + ((k - 1) % d) + 1] = Bare(k)
    BY <1>8
  <2> HIDE DEF picked, Bare
  <2> QED BY <2>1, <2>2
<1>10. Between(G, i * d, (i + count) * d) = [k \in 1 .. n |-> Full(k)]
  <2>1. Between(G, i * d, (i + count) * d) = [k \in 1 .. n |-> G[i * d + k]]
    <3> DEFINE x == i * d
               y == (i + count) * d
    <3>1. y - x = n
      BY <1>7
    <3> HIDE DEF x, y, G
    <3>2. Between(G, x, y) = [k \in 1 .. n |-> G[x + k]]
      BY <3>1 DEF Between
    <3> QED BY <3>2 DEF x, y
  <2>2. \A k \in 1 .. n : G[i * d + k] = Full(k)
    BY <1>8
  <2> HIDE DEF G, Full
  <2> QED BY <2>1, <2>2
<1> HIDE DEF picked, G
<1>11. scaled = [k \in 1 .. n |-> Full(k)]
  <2>1. CASE ~m.weighted
    <3>1. ASSUME NEW k \in 1 .. n PROVE Bare(k) = Full(k)
      <4> DEFINE e == Place(k)
      <4>1. RowWeights(m, e) = <<>>
        <5> HIDE DEF e
        <5> QED BY <2>1, Unweighted
      <4> QED BY <4>1
    <3>2. scaled = picked
      BY <2>1
    <3> HIDE DEF Bare, Full, scaled
    <3> QED BY <1>9, <3>1, <3>2
  <2>2. CASE m.weighted
    <3>1. scaled = [k \in DOMAIN picked |->
                      [picked[k] EXCEPT !.weights = Append(@, i + (k - 1) \div d + 1)]]
      BY <1>2, <2>2 DEF Scaled
    <3>2. ASSUME NEW k \in 1 .. n
          PROVE  [picked[k] EXCEPT !.weights = Append(@, i + (k - 1) \div d + 1)] = Full(k)
      <4> DEFINE e == Place(k)
                 c == Col(k)
                 row == m.mapping[Place(k)]
      <4>1. picked[k] = Value(m, row, c, <<>>)
        BY <1>9
      <4>2. Full(k) = Value(m, row, c, RowWeights(m, e))
        OBVIOUS
      <4>3. i + (k - 1) \div d + 1 = e
        OBVIOUS
      <4> HIDE DEF row, e, c, Full
      <4>4. RowWeights(m, e) = <<e>>
        BY <2>2, Weighted
      <4>5. [picked[k] EXCEPT !.weights = Append(@, e)] = Value(m, row, c, <<e>>)
        BY <4>1 DEF Value
      <4> QED BY <4>2, <4>3, <4>4, <4>5
    <3>3. DOMAIN picked = 1 .. n
      BY <1>9
    <3> HIDE DEF scaled, Full
    <3> QED BY <3>1, <3>2, <3>3
  <2> QED BY <2>1, <2>2
<1> DEFINE j == i + count
           q == j * d
<1>12. scaled = Between(G, FedBy(m, s), q)
  <2> HIDE DEF scaled, Full
  <2> QED BY <1>2, <1>10, <1>11
<1>13. q \in Nat /\ q = Fed(m, r, j) /\ FedBy(m, s) <= q
  BY <1>2, <1>3, <1>7 DEF Fed, d
<1>14. ChainBounds(m, r, j)
  BY <1>1, <1>3, <1>5 DEF ChainBounds
<1>15. t = [read |-> r, table |-> Table(m, r), index |-> j,
            unscaled |-> Unscaled(m, r), unsliced |-> s.unsliced]
  BY <1>1, <1>2 DEF Chain
<1> HIDE DEF q, t, scaled, j
<1> QED BY <1>6, <1>12, <1>13, <1>14, <1>15, LastStageMoves DEF G, d

(* The declared size is what has come out of an ended chain. *)
LEMMA ChainYields ==
  ASSUME NEW m, IsModel(m), NEW s, ChainInv(m, s)
  PROVE  LET y == Yielded(m, FedBy(m, s))
         IN /\ y \in Nat /\ y <= OutputRows(m) * m.out
            /\ Ended(m, s) => y = OutputRows(m) * m.out
<1> DEFINE p == FedBy(m, s)
           size == OutputRows(m) * m.dim
<1>1. p \in Nat /\ p <= size /\ (Ended(m, s) => p = size)
  BY ChainFits
<1>2. m.dim \in Nat \ {0} /\ m.out \in Nat \ {0} /\ OutputRows(m) \in Nat
  BY Width, Rows
<1>3. Yielded(m, size) = OutputRows(m) * m.out
  BY <1>2, MultipleMod DEF Yielded
<1>4. size \in Nat
  BY <1>2
<1> HIDE DEF p, size
<1>5. Yielded(m, p) \in Nat /\ Yielded(m, p) <= Yielded(m, size)
  BY <1>1, <1>4, YieldedInOrder
<1> QED BY <1>1, <1>3, <1>5 DEF p

(* The matrix is what an uncut chain would yield, up to its size. *)
LEMMA ReferenceIs ==
  ASSUME NEW m, IsModel(m)
  PROVE  Reference(m) = Between(Due(m, m.out), 0, OutputRows(m) * m.out)
<1> DEFINE n == OutputRows(m) * m.out
           i(k) == (k - 1) \div m.out + 1
           At(k) == Value(m, IF Mapped(m) THEN m.mapping[i(k)] ELSE i(k) - 1,
                          (k - 1) % m.out, IF m.weighted THEN <<i(k)>> ELSE <<>>)
<1>1. n \in Nat
  BY Width, Rows
<1>2. Reference(m) = [k \in 1 .. n |-> At(k)]
  BY DEF Reference
<1>3. Due(m, m.out) = [k \in Nat \ {0} |-> At(k)]
  BY DEF Due, PickedRow, RowWeights
<1> HIDE DEF At, n
<1>4. \A k \in 1 .. n : k \in Nat \ {0}
  BY <1>1
<1>5. \A k \in 1 .. n : Due(m, m.out)[0 + k] = At(k)
  BY <1>3, <1>4
<1>6. Between(Due(m, m.out), 0, n) = [k \in 1 .. n |-> Due(m, m.out)[0 + k]]
  BY <1>1 DEF Between
<1>7. Reference(m) = Between(Due(m, m.out), 0, n)
  BY <1>2, <1>5, <1>6
<1> QED BY <1>7 DEF n
-----------------------------------------------------------------------------
(* The layout *)

(* Aligning rounds up to a multiple. *)
LEMMA AlignedUp ==
  ASSUME NEW n \in Nat
  PROVE  /\ Aligned(n) \in Nat
         /\ Aligned(n) >= n
         /\ Aligned(n) % Alignment = 0
<1> DEFINE d == Alignment
           q == n \div d
           r == n % d
<1>1. d \in Nat \ {0} BY FileAssumption DEF FileAssumption
<1>2. q \in Nat /\ r \in 0 .. d - 1 /\ n = q * d + r
  BY <1>1, DivMod
<1> HIDE DEF q, r, d
<1>3. CASE r = 0
  <2>1. (d - r) % d = 0
    BY <1>1, <1>3, MultipleMod
  <2>2. Aligned(n) = q * d
    BY <1>1, <1>2, <1>3, <2>1 DEF Aligned, r, d
  <2> QED BY <1>1, <1>2, <1>3, <2>2, MultipleMod DEF d
<1>4. CASE r # 0
  <2>1. d - r \in 0 .. d - 1
    BY <1>1, <1>2, <1>4
  <2>2. (d - r) % d = d - r
    BY <1>1, <2>1
  <2>3. Aligned(n) = n + (d - r)
    BY <2>2 DEF Aligned, r, d
  <2>4. Aligned(n) = (q + 1) * d
    BY <1>1, <1>2, <2>3
  <2>5. (q + 1) * d \in Nat /\ ((q + 1) * d) % d = 0
    BY <1>1, <1>2, MultipleMod
  <2> QED BY <1>1, <1>2, <2>1, <2>3, <2>4, <2>5 DEF d
<1> QED BY <1>3, <1>4

LEMMA SectionNames ==
  /\ Len(Sections) = 7 /\ DOMAIN Sections = 1 .. 7
  /\ Sections[1] = "vocab_strings" /\ Sections[2] = "vocab_hash"
  /\ Sections[3] = "embeddings" /\ Sections[4] = "norm_tables"
  /\ Sections[5] = "provenance" /\ Sections[6] = "root_trie"
  /\ Sections[7] = "continuation_trie"
BY DEF Sections

(* What the chain declares is what the header says of the matrix. *)
LEMMA DeclaredSize ==
  ASSUME NEW m \in Models
  PROVE  /\ OutputRows(m) \in Nat
         /\ Declared(m) = OutputRows(m) * m.out
         /\ Declared(m) \in Nat
<1>1. m.rows \in Nat /\ m.dim \in Nat \ {0} /\ m.out \in Nat
      /\ m.mapping \in Seq(0 .. m.rows - 1)
  BY ModelAssumption
<1>2. OutputRows(m) \in Nat
  BY <1>1, LenProperties DEF OutputRows
<1>3. WeightedSize(m) = OutputRows(m) * m.dim
  BY DEF WeightedSize, SourceSize, OutputRows
<1>4. WeightedSize(m) \div m.dim = OutputRows(m)
  BY <1>1, <1>2, <1>3, MultipleMod
<1>5. Declared(m) = OutputRows(m) * m.out
  BY <1>3, <1>4 DEF Declared
<1> QED BY <1>1, <1>2, <1>5

LEMMA SizeNat ==
  ASSUME NEW m \in Models, NEW s \in 1 .. 7
  PROVE  Size(m, Sections[s]) \in Nat
BY DeclaredSize, FileAssumption, SectionNames DEF FileAssumption, Size

Ends(m, s) == Offsets[m][s] + Size(m, Sections[s])

(* Each section but the first begins where the one before it ends, or at    *)
(* the next multiple of the alignment.                                      *)
LEMMA OffsetSteps ==
  ASSUME NEW m \in Models
  PROVE  /\ Offsets[m][1] = Aligned(HeaderSize)
         /\ \A s \in 1 .. 6 : Offsets[m][s + 1] = Aligned(Ends(m, s))
<1> DEFINE off == Offsets[m]
           After(o, name) == Aligned(o + Size(m, name))
<1>1. off[1] = Aligned(HeaderSize)
  BY DEF Offsets
<1>2. /\ off[2] = After(off[1], "vocab_strings")
      /\ off[3] = After(off[2], "vocab_hash")
      /\ off[4] = After(off[3], "embeddings")
      /\ off[5] = After(off[4], "norm_tables")
      /\ off[6] = After(off[5], "provenance")
      /\ off[7] = After(off[6], "root_trie")
  BY DEF Offsets
<1>3. \A s \in 1 .. 6 : s = 1 \/ s = 2 \/ s = 3 \/ s = 4 \/ s = 5 \/ s = 6
  OBVIOUS
<1> QED BY <1>1, <1>2, <1>3, SectionNames DEF Ends

LEMMA OffsetsInOrder ==
  ASSUME NEW m \in Models
  PROVE  /\ \A s \in 1 .. 7 : /\ Offsets[m][s] \in Nat
                              /\ Offsets[m][s] >= HeaderSize
                              /\ Offsets[m][s] % Alignment = 0
         /\ \A s \in 1 .. 6 : Ends(m, s) <= Offsets[m][s + 1]
<1> DEFINE off == Offsets[m]
           Placeable(s) == off[s] \in Nat /\ off[s] >= HeaderSize /\ off[s] % Alignment = 0
<1>1. Placeable(1)
  BY OffsetSteps, AlignedUp DEF HeaderSize
<1>2. ASSUME NEW s \in 1 .. 6, Placeable(s)
      PROVE  Placeable(s + 1) /\ Ends(m, s) <= off[s + 1]
  <2>1. Ends(m, s) \in Nat /\ Ends(m, s) >= off[s]
    BY <1>2, SizeNat DEF Ends
  <2>2. off[s + 1] = Aligned(Ends(m, s))
    BY OffsetSteps
  <2>3. HeaderSize \in Nat
    BY DEF HeaderSize
  <2> QED BY <1>2, <2>1, <2>2, <2>3, AlignedUp
<1> HIDE DEF Placeable
<1>3. Placeable(2) BY <1>1, <1>2
<1>4. Placeable(3) BY <1>3, <1>2
<1>5. Placeable(4) BY <1>4, <1>2
<1>6. Placeable(5) BY <1>5, <1>2
<1>7. Placeable(6) BY <1>6, <1>2
<1>8. Placeable(7) BY <1>7, <1>2
<1>9. \A s \in 1 .. 7 : Placeable(s)
  <2>1. \A s \in 1 .. 7 : s = 1 \/ s = 2 \/ s = 3 \/ s = 4 \/ s = 5 \/ s = 6 \/ s = 7
    OBVIOUS
  <2> QED BY <1>1, <1>3, <1>4, <1>5, <1>6, <1>7, <1>8, <2>1
<1>10. \A s \in 1 .. 6 : Ends(m, s) <= off[s + 1]
  BY <1>2, <1>9
<1> QED BY <1>9, <1>10 DEF Placeable

LEMMA EndsInOrder ==
  ASSUME NEW m \in Models, NEW s \in 1 .. 7, NEW t \in 1 .. 7, s < t
  PROVE  Ends(m, s) <= Offsets[m][t]
<1> DEFINE off == Offsets[m]
<1>1. \A k \in 1 .. 7 : off[k] \in Nat
  BY OffsetsInOrder
<1>2. \A k \in 1 .. 7 : Ends(m, k) \in Nat /\ off[k] <= Ends(m, k)
  BY <1>1, SizeNat DEF Ends
<1>3. \A k \in 1 .. 6 : Ends(m, k) <= off[k + 1]
  BY OffsetsInOrder
<1> HIDE DEF off
<1>4. \A k \in 1 .. 6 : off[k] <= off[k + 1]
  <2> TAKE k \in 1 .. 6
  <2>1. k \in 1 .. 7 /\ k + 1 \in 1 .. 7
    OBVIOUS
  <2> QED BY <1>1, <1>2, <1>3, <2>1
<1>5. /\ off[1] <= off[2] /\ off[2] <= off[3] /\ off[3] <= off[4]
      /\ off[4] <= off[5] /\ off[5] <= off[6] /\ off[6] <= off[7]
  BY <1>4
<1>6. \A j, k \in 1 .. 7 : j <= k => off[j] <= off[k]
  <2>1. \A k \in 1 .. 7 : k = 1 \/ k = 2 \/ k = 3 \/ k = 4 \/ k = 5 \/ k = 6 \/ k = 7
    OBVIOUS
  <2> QED BY <1>1, <1>5, <2>1
<1>7. s + 1 \in 1 .. 7 /\ s + 1 <= t /\ s \in 1 .. 6
  OBVIOUS
<1>8. Ends(m, s) <= off[s + 1] /\ off[s + 1] <= off[t]
  BY <1>3, <1>6, <1>7
<1> QED BY <1>1, <1>2, <1>7, <1>8 DEF off

(* The file ends behind every section, and none begins inside the header.   *)
LEMMA FileSizeBounds ==
  ASSUME NEW m \in Models
  PROVE  /\ FileSize(m) \in Nat
         /\ FileSize(m) >= HeaderSize
         /\ FileSize(m) = Ends(m, 7)
         /\ \A s \in 1 .. 7 : Ends(m, s) \in Nat /\ Ends(m, s) <= FileSize(m)
<1>1. FileSize(m) = Ends(m, 7)
  BY SectionNames DEF FileSize, Ends
<1>2. \A s \in 1 .. 7 : /\ Offsets[m][s] \in Nat /\ Offsets[m][s] >= HeaderSize
                        /\ Size(m, Sections[s]) \in Nat
  BY OffsetsInOrder, SizeNat
<1>3. \A s \in 1 .. 7 : Ends(m, s) \in Nat /\ Ends(m, s) >= Offsets[m][s]
  BY <1>2 DEF Ends
<1>4. \A s \in 1 .. 7 : s # 7 => Ends(m, s) <= Offsets[m][7]
  BY EndsInOrder
<1>5. Offsets[m][7] \in Nat /\ Ends(m, 7) \in Nat /\ Offsets[m][7] <= Ends(m, 7)
  BY <1>2, <1>3
<1>6. ASSUME NEW s \in 1 .. 7 PROVE Ends(m, s) <= Ends(m, 7)
  BY <1>3, <1>4, <1>5
<1>7. Ends(m, 7) >= HeaderSize
  BY <1>2, <1>5 DEF HeaderSize
<1> QED BY <1>1, <1>3, <1>5, <1>6, <1>7

(* The cells a file may hold. *)
Cell ==
  {Zero} \cup {Checksum(Body[m]) : m \in Models}
         \cup (UNION {{Body[m][k] : k \in 1 .. FileSize(m)} : m \in Models})

LEMMA SomeCells ==
  /\ Zero \in Cell
  /\ \A m \in Models : Checksum(Body[m]) \in Cell
<1>1. ASSUME NEW m \in Models PROVE Checksum(Body[m]) \in Cell
  <2>1. Checksum(Body[m]) \in {Checksum(Body[l]) : l \in Models}
    OBVIOUS
  <2> QED BY <2>1 DEF Cell
<1> QED BY <1>1 DEF Cell

LEMMA BodyShape ==
  ASSUME NEW m \in Models
  PROVE  /\ Body[m] \in Seq(Cell)
         /\ Len(Body[m]) = FileSize(m)
         /\ Body[m][1] = Fields(m)
         /\ Body[m][HeaderSize] = Zero
<1> DEFINE n == FileSize(m)
           Within(k) ==
             {s \in DOMAIN Sections : k - Offsets[m][s] \in 1 .. Size(m, Sections[s])}
           At(k) == IF k = 1 THEN Fields(m)
                    ELSE IF Within(k) # {}
                         THEN LET s == CHOOSE s \in Within(k) : TRUE
                              IN Contents(m, Sections[s])[k - Offsets[m][s]]
                         ELSE Zero
<1>1. n \in Nat /\ n >= 2
  BY FileSizeBounds DEF HeaderSize
<1>2. Body[m] = [k \in 1 .. n |-> At(k)]
  BY DEF Body
<1> HIDE DEF At, n
<1>3. \A k \in 1 .. n : Body[m][k] \in Cell
  <2> TAKE k \in 1 .. n
  <2>1. Body[m][k] \in {Body[m][j] : j \in 1 .. FileSize(m)}
    BY DEF n
  <2>2. Body[m][k] \in UNION {{Body[l][j] : j \in 1 .. FileSize(l)} : l \in Models}
    BY <2>1, Zenon
  <2> QED BY <2>2 DEF Cell
<1>4. \A k \in 1 .. n : At(k) \in Cell
  BY <1>2, <1>3
<1>5. Body[m] \in Seq(Cell) /\ Len(Body[m]) = n
  <2>1. Body[m] \in [1 .. n -> Cell]
    BY <1>2, <1>4
  <2> QED BY <1>1, <2>1, LenProperties
<1>6. Within(2) = {}
  BY SectionNames, OffsetsInOrder, SizeNat DEF HeaderSize
<1>7. Body[m][1] = At(1) /\ Body[m][2] = At(2)
  BY <1>1, <1>2
<1>8. At(1) = Fields(m) /\ At(2) = Zero
  BY <1>6 DEF At
<1> QED BY <1>5, <1>7, <1>8 DEF n, HeaderSize

(* A cell is that of the section it lies in, or of the gap before one. *)
LEMMA InSection ==
  ASSUME NEW m \in Models, NEW s \in 1 .. 7, NEW k \in 1 .. Size(m, Sections[s]),
         NEW at, at = Offsets[m][s] + k
  PROVE  at \in 1 .. FileSize(m) /\ Body[m][at] = Contents(m, Sections[s])[k]
<1> DEFINE Within ==
             {t \in DOMAIN Sections : at - Offsets[m][t] \in 1 .. Size(m, Sections[t])}
<1>1. \A t \in 1 .. 7 : /\ Offsets[m][t] \in Nat /\ Offsets[m][t] >= HeaderSize
                        /\ Size(m, Sections[t]) \in Nat
                        /\ Ends(m, t) = Offsets[m][t] + Size(m, Sections[t])
  BY OffsetsInOrder, SizeNat DEF Ends
<1>2. at \in 1 .. FileSize(m) /\ at # 1 /\ at - Offsets[m][s] = k
  <2>1. Ends(m, s) <= FileSize(m) /\ FileSize(m) \in Nat
    BY FileSizeBounds
  <2> QED BY <1>1, <2>1 DEF HeaderSize
<1>3. Within = {s}
  <2>1. s \in Within
    BY <1>2, SectionNames
  <2>2. ASSUME NEW t \in Within PROVE t = s
    <3>1. t \in 1 .. 7 /\ at - Offsets[m][t] \in 1 .. Size(m, Sections[t])
      BY SectionNames
    <3>2. at \in Nat /\ Offsets[m][t] < at /\ at <= Ends(m, t)
      BY <1>1, <1>2, <3>1
    <3>3. Offsets[m][s] < at /\ at <= Ends(m, s)
      BY <1>1, <1>2
    <3>4. CASE t < s
      <4>1. Ends(m, t) <= Offsets[m][s]
        BY <3>1, <3>4, EndsInOrder
      <4> QED BY <1>1, <3>1, <3>2, <3>3, <4>1
    <3>5. CASE s < t
      <4>1. Ends(m, s) <= Offsets[m][t]
        BY <3>1, <3>5, EndsInOrder
      <4> QED BY <1>1, <3>1, <3>2, <3>3, <4>1
    <3> QED BY <3>1, <3>4, <3>5
  <2> QED BY <2>1, <2>2
<1>4. Body[m][at] = LET t == CHOOSE t \in Within : TRUE
                    IN Contents(m, Sections[t])[at - Offsets[m][t]]
  <2>1. Within # {}
    BY <1>3
  <2> QED BY <1>2, <2>1 DEF Body
<1>5. (CHOOSE t \in Within : TRUE) = s
  BY <1>3
<1> HIDE DEF Within
<1> QED BY <1>2, <1>4, <1>5

Gap(m, s) == IF s = 1 THEN HeaderSize ELSE Ends(m, s - 1)

LEMMA InGap ==
  ASSUME NEW m \in Models, NEW s \in 1 .. 7, NEW at \in Nat,
         Gap(m, s) < at, at <= Offsets[m][s]
  PROVE  at \in 1 .. FileSize(m) /\ Body[m][at] = Zero
<1> DEFINE Within ==
             {t \in DOMAIN Sections : at - Offsets[m][t] \in 1 .. Size(m, Sections[t])}
<1>1. \A t \in 1 .. 7 : /\ Offsets[m][t] \in Nat /\ Offsets[m][t] >= HeaderSize
                        /\ Size(m, Sections[t]) \in Nat
                        /\ Ends(m, t) = Offsets[m][t] + Size(m, Sections[t])
  BY OffsetsInOrder, SizeNat DEF Ends
<1>2. Gap(m, s) \in Nat /\ Gap(m, s) >= HeaderSize
  <2>1. CASE s = 1
    BY <2>1 DEF Gap, HeaderSize
  <2>2. CASE s # 1
    <3>1. s - 1 \in 1 .. 7
      BY <2>2
    <3> DEFINE t == s - 1
    <3> HIDE DEF t
    <3>2. Ends(m, t) \in Nat /\ Ends(m, t) >= HeaderSize
      BY <1>1, <3>1 DEF HeaderSize, t
    <3> QED BY <2>2, <3>2 DEF Gap, t
  <2> QED BY <2>1, <2>2
<1>3. at # 1 /\ at \in 1 .. FileSize(m)
  <2>1. Ends(m, s) <= FileSize(m) /\ FileSize(m) \in Nat
    BY FileSizeBounds
  <2> QED BY <1>1, <1>2, <2>1 DEF HeaderSize
<1>4. Within = {}
  <2> SUFFICES ASSUME NEW t \in 1 .. 7,
                      at - Offsets[m][t] \in 1 .. Size(m, Sections[t])
               PROVE  FALSE
    BY SectionNames
  <2>1. Offsets[m][t] < at /\ at <= Ends(m, t)
    BY <1>1
  <2>2. CASE t >= s
    <3>1. Offsets[m][s] <= Offsets[m][t]
      <4>1. CASE t = s
        BY <1>1, <4>1
      <4>2. CASE t > s
        <5>1. s < t
          BY <4>2
        <5>2. Ends(m, s) <= Offsets[m][t]
          BY <5>1, EndsInOrder
        <5> QED BY <1>1, <5>2
      <4> QED BY <2>2, <4>1, <4>2
    <3> QED BY <1>1, <2>1, <3>1
  <2>3. CASE t < s
    <3> DEFINE p == s - 1
    <3>1. p \in 1 .. 7 /\ Gap(m, s) = Ends(m, p)
      BY <2>3 DEF Gap
    <3> HIDE DEF p
    <3>2. Ends(m, t) <= Ends(m, p)
      <4>1. CASE t = p
        BY <1>1, <4>1
      <4>2. CASE t # p
        <5>1. t < p
          BY <2>3, <4>2 DEF p
        <5>2. Ends(m, t) <= Offsets[m][p]
          BY <3>1, <5>1, EndsInOrder
        <5> QED BY <1>1, <3>1, <5>2
      <4> QED BY <4>1, <4>2
    <3> QED BY <1>1, <2>1, <3>1, <3>2
  <2> QED BY <2>2, <2>3
<1>5. Body[m][at] = Zero
  BY <1>3, <1>4 DEF Body
<1> QED BY <1>3, <1>5

(* What is written is the next piece of the body. *)
LEMMA HeaderPiece ==
  ASSUME NEW m \in Models
  PROVE  <<Fields(m), Zero>> = Between(Body[m], 0, HeaderSize)
<1>1. Body[m][1] = Fields(m) /\ Body[m][2] = Zero
  BY BodyShape DEF HeaderSize
<1>2. <<Fields(m), Zero>> = [k \in 1 .. 2 |-> IF k = 1 THEN Fields(m) ELSE Zero]
  OBVIOUS
<1>3. Between(Body[m], 0, HeaderSize) = [k \in 1 .. 2 |-> Body[m][0 + k]]
  BY DEF Between, HeaderSize
<1>4. \A k \in 1 .. 2 : Body[m][0 + k] = IF k = 1 THEN Fields(m) ELSE Zero
  BY <1>1
<1> QED BY <1>2, <1>3, <1>4

LEMMA PaddingPiece ==
  ASSUME NEW m \in Models, NEW s \in 1 .. 7
  PROVE  /\ Gap(m, s) \in Nat /\ Gap(m, s) <= Offsets[m][s]
         /\ Zeros(Offsets[m][s] - Gap(m, s)) = Between(Body[m], Gap(m, s), Offsets[m][s])
<1> DEFINE a == Gap(m, s)
           b == Offsets[m][s]
<1>1. a \in Nat /\ b \in Nat /\ a <= b
  <2>1. b \in Nat /\ b >= HeaderSize
    BY OffsetsInOrder
  <2>2. CASE s = 1
    BY <2>1, <2>2 DEF Gap, HeaderSize
  <2>3. CASE s # 1
    <3> DEFINE p == s - 1
    <3>1. p \in 1 .. 6 /\ p \in 1 .. 7 /\ a = Ends(m, p) /\ p + 1 = s
      BY <2>3 DEF Gap
    <3> HIDE DEF p
    <3>2. Ends(m, p) <= Offsets[m][p + 1] /\ Ends(m, p) \in Nat
      BY <3>1, OffsetsInOrder, FileSizeBounds
    <3> QED BY <2>1, <3>1, <3>2
  <2> QED BY <2>2, <2>3
<1>2. ASSUME NEW k \in 1 .. b - a PROVE Body[m][a + k] = Zero
  <2> DEFINE at == a + k
  <2>1. at \in Nat /\ a < at /\ at <= b
    BY <1>1
  <2> HIDE DEF at
  <2> QED BY <2>1, InGap DEF at
<1> HIDE DEF a, b
<1>3. Zeros(b - a) = [k \in 1 .. b - a |-> Zero]
  BY DEF Zeros
<1>4. Between(Body[m], a, b) = [k \in 1 .. b - a |-> Body[m][a + k]]
  BY DEF Between
<1>5. Zeros(b - a) = Between(Body[m], a, b)
  BY <1>2, <1>3, <1>4
<1> QED BY <1>1, <1>5 DEF a, b

LEMMA ModelIs ==
  ASSUME NEW m \in Models
  PROVE  IsModel(m)
BY ModelAssumption DEF IsModel

LEMMA ContentsPiece ==
  ASSUME NEW m \in Models, NEW s \in 1 .. 7
  PROVE  /\ Offsets[m][s] <= Ends(m, s)
         /\ Contents(m, Sections[s]) = Between(Body[m], Offsets[m][s], Ends(m, s))
<1> DEFINE a == Offsets[m][s]
           n == Size(m, Sections[s])
           c == Contents(m, Sections[s])
<1>1. a \in Nat /\ n \in Nat /\ Ends(m, s) = a + n /\ Ends(m, s) - a = n
  BY OffsetsInOrder, SizeNat DEF Ends
<1>2. ASSUME NEW k \in 1 .. n PROVE Body[m][a + k] = c[k]
  <2> DEFINE at == a + k
  <2>1. at = Offsets[m][s] + k
    OBVIOUS
  <2> HIDE DEF at
  <2> QED BY <2>1, InSection DEF at
<1>3. c = [k \in 1 .. n |-> c[k]]
  <2>1. CASE Sections[s] = "embeddings"
    <3>1. c = Reference(m) /\ n = OutputRows(m) * m.out
      BY <2>1, DeclaredSize DEF Contents, Size
    <3> HIDE DEF c, n
    <3> QED BY <3>1 DEF Reference
  <2>2. CASE Sections[s] # "embeddings"
    BY <2>2 DEF Contents, Size
  <2> QED BY <2>1, <2>2
<1> HIDE DEF c, n, a
<1>4. Between(Body[m], a, Ends(m, s)) = [k \in 1 .. n |-> Body[m][a + k]]
  BY <1>1 DEF Between
<1>5. c = Between(Body[m], a, Ends(m, s))
  BY <1>2, <1>3, <1>4
<1> QED BY <1>1, <1>5 DEF a, c

(* A chunk of the matrix. *)
LEMMA MatrixPiece ==
  ASSUME NEW m \in Models, NEW x \in Nat, NEW y \in Nat, x <= y,
         y <= OutputRows(m) * m.out,
         NEW a, a = Offsets[m][3] + x, NEW b, b = Offsets[m][3] + y
  PROVE  /\ a \in Nat /\ b \in Nat /\ a <= b /\ b <= FileSize(m)
         /\ Between(Due(m, m.out), x, y) = Between(Body[m], a, b)
<1> DEFINE n == OutputRows(m) * m.out
           o == Offsets[m][3]
           F == Due(m, m.out)
<1>1. n \in Nat /\ Size(m, Sections[3]) = n /\ o \in Nat /\ Ends(m, 3) = o + n
  <2>1. n \in Nat /\ Declared(m) = n
    BY DeclaredSize
  <2>2. Size(m, Sections[3]) = n
    BY <2>1, SectionNames DEF Size
  <2> QED BY <2>1, <2>2, OffsetsInOrder DEF Ends
<1>2. Ends(m, 3) <= FileSize(m) /\ FileSize(m) \in Nat
  BY FileSizeBounds
<1>3. \A k \in 1 .. n : Body[m][o + k] = F[k]
  <2> TAKE k \in 1 .. n
  <2> DEFINE at == o + k
  <2>1. at = Offsets[m][3] + k /\ k \in 1 .. Size(m, Sections[3])
    BY <1>1
  <2> HIDE DEF at, F, n
  <2>2. Body[m][at] = Contents(m, Sections[3])[k]
    BY <2>1, InSection
  <2>3. Contents(m, Sections[3]) = Between(F, 0, n)
    BY ModelIs, ReferenceIs, SectionNames DEF Contents, F, n
  <2>4. 0 <= n /\ 0 \in Nat /\ k \in 1 .. n - 0 /\ 0 + k = k
    BY <1>1
  <2>5. Between(F, 0, n)[k] = F[0 + k]
    BY <2>4 DEF Between
  <2> QED BY <2>2, <2>3, <2>4, <2>5 DEF at
<1>4. a \in Nat /\ b \in Nat /\ a <= b /\ b <= FileSize(m) /\ b - a = y - x
  BY <1>1, <1>2
<1>5. Between(Body[m], a, b) = [k \in 1 .. y - x |-> Body[m][a + k]]
  BY <1>4 DEF Between
<1>6. Between(F, x, y) = [k \in 1 .. y - x |-> F[x + k]]
  BY DEF Between
<1>7. ASSUME NEW k \in 1 .. y - x PROVE Body[m][a + k] = F[x + k]
  <2> DEFINE l == x + k
  <2>1. l \in 1 .. n /\ a + k = o + l
    BY <1>1
  <2> HIDE DEF l, o, F, n
  <2> QED BY <1>3, <2>1 DEF l
<1> HIDE DEF F
<1>8. Between(F, x, y) = Between(Body[m], a, b)
  BY <1>5, <1>6, <1>7
<1> QED BY <1>4, <1>8 DEF F

(* Every layout passes the loader's checks, for any alignment, any matrix   *)
(* and sections of any size: what write_file lays out is aligned, inside    *)
(* the file and disjoint (se_format.c, section_ok and validate_no_overlaps).*)
THEOREM LayoutLoads == \A m \in Models : Accepts(WholeFile(m))
<1> TAKE m \in Models
<1> DEFINE whole == WholeFile(m)
<1>1. /\ whole[1] = Fields(m)
      /\ Len(whole) = FileSize(m)
      /\ FileSize(m) \in Nat /\ FileSize(m) >= HeaderSize
  <2>1. FileSize(m) \in Nat /\ FileSize(m) >= 2 /\ HeaderSize = 2
    BY FileSizeBounds DEF HeaderSize
  <2>2. Body[m] \in Seq(Cell) /\ Len(Body[m]) = FileSize(m) /\ Body[m][1] = Fields(m)
    BY BodyShape
  <2>3. Checksum(Body[m]) \in Cell
    BY SomeCells
  <2> QED BY <2>1, <2>2, <2>3, ExceptSeq DEF WholeFile
<1>2. Fields(m).part = "header" /\ Fields(m).model = m
  BY DEF Fields
<1>3. ASSUME NEW s \in 1 .. 7 PROVE SectionOk(m, s, FileSize(m))
  <2>1. /\ Offsets[m][s] \in Nat /\ Offsets[m][s] >= HeaderSize
        /\ Offsets[m][s] % Alignment = 0
    BY OffsetsInOrder
  <2>2. Size(m, Sections[s]) \in Nat
    BY SizeNat
  <2>3. Offsets[m][s] + Size(m, Sections[s]) <= FileSize(m)
    BY FileSizeBounds DEF Ends
  <2>4. FileSize(m) \in Nat
    BY <1>1
  <2>5. Size(m, Sections[s]) <= FileSize(m)
        /\ Offsets[m][s] <= FileSize(m) - Size(m, Sections[s])
    BY <2>1, <2>2, <2>3, <2>4
  <2> QED BY <2>1, <2>5 DEF SectionOk
<1>4. NoOverlaps(m)
  BY EndsInOrder, SectionNames DEF NoOverlaps, Ends
<1>5. Size(m, "embeddings") = OutputRows(m) * m.out
  BY DeclaredSize DEF Size
<1> QED BY <1>1, <1>2, <1>3, <1>4, <1>5, SectionNames DEF Accepts

-----------------------------------------------------------------------------
(* What a verifier concludes from the cells alone *)

Sealed(cells) ==
  Len(cells) >= HeaderSize =>
    cells[HeaderSize] \in {Zero} \cup {Checksum(Body[m]) : m \in Models}

LEMMA LenOfTail ==
  ASSUME NEW n \in Nat, n >= 2
  PROVE  (IF 3 <= n THEN n - 3 + 1 ELSE 0) = n - 2
OBVIOUS

(* The header, and the cells behind it. *)
LEMMA Split ==
  ASSUME NEW f \in Seq(Cell), Len(f) >= 2
  PROVE  /\ SubSeq(f, 1, 2) \in Seq(Cell)
         /\ Len(SubSeq(f, 1, 2)) = 2
         /\ SubSeq(f, 1, 2)[1] = f[1] /\ SubSeq(f, 1, 2)[2] = f[2]
         /\ SubSeq(f, 3, Len(f)) \in Seq(Cell)
         /\ Len(SubSeq(f, 3, Len(f))) = Len(f) - 2
         /\ \A k \in 3 .. Len(f) : SubSeq(f, 3, Len(f))[k - 2] = f[k]
<1> DEFINE n == Len(f)
           h == SubSeq(f, 1, 2)
           rest == SubSeq(f, 3, n)
<1>1. n \in Nat /\ n >= 2
  OBVIOUS
<1>2. \A k \in 1 .. n : f[k] \in Cell
  OBVIOUS
<1> HIDE DEF n
<1>3. /\ h \in Seq(Cell) /\ Len(h) = IF 1 <= 2 THEN 2 - 1 + 1 ELSE 0
      /\ \A i \in 1 .. 2 - 1 + 1 : h[i] = f[1 + i - 1]
  <2>1. \A i \in 1 .. 2 : f[i] \in Cell
    BY <1>1, <1>2
  <2> QED BY <2>1, SubSeqProperties
<1>4. /\ rest \in Seq(Cell) /\ Len(rest) = IF 3 <= n THEN n - 3 + 1 ELSE 0
      /\ \A i \in 1 .. n - 3 + 1 : rest[i] = f[3 + i - 1]
  <2>1. \A i \in 3 .. n : f[i] \in Cell
    BY <1>1, <1>2
  <2> QED BY <1>1, <2>1, SubSeqProperties
<1> HIDE DEF h, rest
<1>5. Len(h) = 2 /\ h[1] = f[1] /\ h[2] = f[2]
  BY <1>3
<1>6. Len(rest) = n - 2
  BY <1>1, <1>4, LenOfTail
<1>7. ASSUME NEW k \in 3 .. n PROVE rest[k - 2] = f[k]
  <2>1. k - 2 \in 1 .. n - 3 + 1 /\ 3 + (k - 2) - 1 = k
    BY <1>1
  <2> QED BY <1>4, <2>1
<1> QED BY <1>3, <1>4, <1>5, <1>6, <1>7 DEF n, h, rest

LEMMA VerifiedIsWhole ==
  ASSUME NEW f \in Seq(Cell)
  PROVE  Len(f) >= HeaderSize /\ Sealed(f)
         /\ Verifies(SubSeq(f, 1, HeaderSize), SubSeq(f, HeaderSize + 1, Len(f)))
         => \E m \in Models : f = WholeFile(m) /\ f[1] = Fields(m)
<1>0. SUFFICES ASSUME Len(f) >= HeaderSize, Sealed(f),
                      Verifies(SubSeq(f, 1, HeaderSize),
                               SubSeq(f, HeaderSize + 1, Len(f)))
               PROVE  \E m \in Models : f = WholeFile(m) /\ f[1] = Fields(m)
  OBVIOUS
<1> DEFINE n == Len(f)
           h == SubSeq(f, 1, 2)
           rest == SubSeq(f, 3, n)
           z == Zeroed(h)
           x == z \o rest
<1>1. n \in Nat /\ n >= 2 /\ HeaderSize = 2
  BY <1>0 DEF HeaderSize
<1>2. h \in Seq(Cell) /\ Len(h) = 2 /\ h[1] = f[1] /\ h[2] = f[2]
  BY <1>1, Split
<1>3. /\ rest \in Seq(Cell) /\ Len(rest) = n - 2
      /\ \A k \in 3 .. n : rest[k - 2] = f[k]
  BY <1>1, Split
<1>4. h[2] = Checksum(x)
  <2>1. h[HeaderSize] = Checksum(Zeroed(h) \o SubSeq(f, HeaderSize + 1, Len(f)))
    BY <1>0, <1>1 DEF Verifies
  <2> QED BY <1>1, <2>1
<1> HIDE DEF n, h, rest
<1>5. z \in Seq(Cell) /\ Len(z) = 2 /\ z[1] = f[1]
  <2>1. DOMAIN h = 1 .. 2
    BY <1>2, LenProperties
  <2>2. z = [k \in 1 .. 2 |-> IF k = 2 THEN Zero ELSE h[k]]
    BY <1>1, <2>1 DEF Zeroed
  <2>3. z \in [1 .. 2 -> Cell]
    BY <1>1, <1>2, <2>2, SomeCells
  <2> QED BY <1>2, <2>2, <2>3
<1> HIDE DEF z, x
<1>6. Len(x) = n /\ \A k \in 1 .. n : k # 2 => x[k] = f[k]
  <2>1. /\ Len(z \o rest) = Len(z) + Len(rest)
        /\ \A k \in 1 .. Len(z) + Len(rest) :
             (z \o rest)[k] = IF k <= Len(z) THEN z[k] ELSE rest[k - Len(z)]
    <3>1. z \in Seq(Cell) /\ rest \in Seq(Cell)
      BY <1>3, <1>5
    <3> QED BY ONLY <3>1, ConcatProperties
  <2>2. /\ Len(x) = n
        /\ \A k \in 1 .. n : x[k] = IF k <= 2 THEN z[k] ELSE rest[k - 2]
    BY <1>1, <1>3, <1>5, <2>1 DEF x
  <2>3. ASSUME NEW k \in 1 .. n, k # 2 PROVE x[k] = f[k]
    <3>1. CASE k = 1
      BY <1>5, <2>2, <3>1
    <3>2. CASE k > 2
      <4>1. k \in 3 .. n /\ ~(k <= 2)
        BY <1>1, <3>2
      <4> QED BY <1>3, <2>2, <4>1
    <3>3. k = 1 \/ k > 2
      BY <1>1, <2>3
    <3> QED BY <3>1, <3>2, <3>3
  <2> QED BY <2>2, <2>3
<1>7. PICK m \in Models : f[2] = Checksum(Body[m])
  <2>1. f[2] # Zero
    BY <1>2, <1>4 DEF Zero, Checksum
  <2> QED BY <1>0, <1>1, <2>1 DEF Sealed
<1>8. Body[m] = x
  <2>1. Checksum(Body[m]).of = Checksum(x).of
    BY <1>2, <1>4, <1>7
  <2> QED BY <2>1 DEF Checksum
<1>9. /\ WholeFile(m) \in Seq(Cell) /\ Len(WholeFile(m)) = n
      /\ \A k \in 1 .. n : WholeFile(m)[k] = f[k]
  <2>1. Body[m] \in Seq(Cell) /\ 2 \in 1 .. Len(Body[m]) /\ Checksum(Body[m]) \in Cell
    BY <1>1, <1>6, <1>8, BodyShape, SomeCells
  <2>2. /\ WholeFile(m) \in Seq(Cell) /\ Len(WholeFile(m)) = Len(Body[m])
        /\ \A k \in 1 .. Len(Body[m]) :
             WholeFile(m)[k] = IF k = 2 THEN Checksum(Body[m]) ELSE Body[m][k]
    BY <1>1, <2>1, ExceptSeq DEF WholeFile
  <2> QED BY <1>6, <1>7, <1>8, <2>2
<1>10. f = WholeFile(m)
  BY <1>9, SeqEqual DEF n
<1>11. f[1] = Fields(m)
  BY <1>1, <1>6, <1>8, BodyShape
<1> QED BY <1>10, <1>11

-----------------------------------------------------------------------------
(* The file *)

Places ==
  {"start", "header", "section", "stream", "close", "patch", "finished", "failed"}

(* Once something was written to the second cell, it is zero or the digest  *)
(* of a complete model.                                                     *)
FileInv ==
  /\ plan \in Plans
  /\ pc \in [Workers -> Places]
  /\ section \in [Workers -> 1 .. 8]
  /\ \A w \in Workers :
       /\ pc[w] \in {"start", "header", "section", "stream"} => section[w] <= 7
       /\ pc[w] \in {"close", "patch"} => section[w] = 8
  /\ landed \in [Workers -> Nat]
  /\ DOMAIN sent = Workers
  /\ file \in Seq(Cell)
  /\ Sealed(file)

LEMMA ModelOfWorker ==
  ASSUME plan \in Plans, NEW w \in Workers
  PROVE  Model(w) \in Models
BY DEF Models, Model, Workers

LEMMA PlacedCells ==
  ASSUME NEW cells \in Seq(Cell), NEW at \in Nat, NEW new \in Seq(Cell)
  PROVE  /\ Placed(cells, at, new) \in Seq(Cell)
         /\ \A k \in 1 .. Len(Placed(cells, at, new)) :
              Placed(cells, at, new)[k] =
                IF k - at \in 1 .. Len(new) THEN new[k - at]
                ELSE IF k \in 1 .. Len(cells) THEN cells[k] ELSE Zero
<1>1. CASE new = <<>>
  <2>1. Placed(cells, at, new) = cells
    BY <1>1 DEF Placed
  <2>2. Len(new) = 0
    BY <1>1
  <2>3. \A k \in 1 .. Len(cells) : k - at \notin 1 .. Len(new)
    BY <2>2
  <2> QED BY <2>1, <2>3
<1>2. CASE new # <<>>
  <2> DEFINE length ==
               IF at + Len(new) > Len(cells) THEN at + Len(new) ELSE Len(cells)
             CellAt(k) == IF k - at \in 1 .. Len(new) THEN new[k - at]
                       ELSE IF k \in 1 .. Len(cells) THEN cells[k] ELSE Zero
  <2>1. length \in Nat
    BY LenProperties
  <2>2. DOMAIN new = 1 .. Len(new) /\ DOMAIN cells = 1 .. Len(cells)
    BY LenProperties
  <2>3. Placed(cells, at, new) = [k \in 1 .. length |-> CellAt(k)]
    BY <1>2, <2>2 DEF Placed
  <2>4. \A k \in 1 .. length : CellAt(k) \in Cell
    BY SomeCells, ElementOfSeq
  <2> HIDE DEF length, CellAt
  <2>5. Placed(cells, at, new) \in [1 .. length -> Cell]
    BY <2>3, <2>4
  <2>6. Placed(cells, at, new) \in Seq(Cell) /\ Len(Placed(cells, at, new)) = length
    BY <2>1, <2>5
  <2> QED BY <2>3, <2>6 DEF CellAt
<1> QED BY <1>1, <1>2

(* A prefix of a body brings nothing to the second cell but its zero. *)
LEMMA PieceOfBody ==
  ASSUME NEW m \in Models, NEW len \in 0 .. FileSize(m), NEW at \in Nat,
         NEW n \in Nat, at < n, n <= len
  PROVE  LET new == SubSeq(SubSeq(Body[m], 1, len), at + 1, n)
         IN /\ new \in Seq(Cell)
            /\ Len(new) = n - at
            /\ 2 - at \in 1 .. Len(new) => new[2 - at] = Zero
<1> DEFINE all == SubSeq(Body[m], 1, len)
           new == SubSeq(all, at + 1, n)
<1>1. len \in Nat /\ len <= FileSize(m) /\ FileSize(m) \in Nat
  BY FileSizeBounds
<1>2. \A k \in 1 .. len : Body[m][k] \in Cell
  BY <1>1, BodyShape, ElementOfSeq
<1>3. /\ all \in Seq(Cell)
      /\ \A k \in 1 .. len - 1 + 1 : all[k] = Body[m][1 + k - 1]
  BY <1>1, <1>2, SubSeqProperties
<1> HIDE DEF all
<1>4. \A k \in 1 .. len : all[k] = Body[m][k]
  BY <1>1, <1>3
<1>5. \A k \in at + 1 .. n : all[k] \in Cell
  BY <1>1, <1>2, <1>4
<1>6. /\ new \in Seq(Cell)
      /\ Len(new) = IF at + 1 <= n THEN n - (at + 1) + 1 ELSE 0
      /\ \A k \in 1 .. n - (at + 1) + 1 : new[k] = all[at + 1 + k - 1]
  BY <1>1, <1>5, SubSeqProperties
<1> HIDE DEF new
<1>7. Len(new) = n - at
  BY <1>1, <1>6
<1>8. ASSUME 2 - at \in 1 .. Len(new) PROVE new[2 - at] = Zero
  <2>1. 2 - at \in 1 .. n - (at + 1) + 1 /\ at + 1 + (2 - at) - 1 = 2 /\ 2 \in 1 .. len
    BY <1>1, <1>7, <1>8
  <2>2. new[2 - at] = all[2] /\ all[2] = Body[m][2]
    BY <1>4, <1>6, <2>1
  <2> QED BY <2>2, BodyShape DEF HeaderSize
<1> QED BY <1>6, <1>7, <1>8 DEF new, all

(* Writing a piece of the body, or a checksum, keeps the file sealed. *)
LEMMA PlacedSealed ==
  ASSUME NEW cells \in Seq(Cell), Sealed(cells), NEW at \in Nat, NEW new \in Seq(Cell),
         2 - at \in 1 .. Len(new) =>
           new[2 - at] \in {Zero} \cup {Checksum(Body[m]) : m \in Models}
  PROVE  Sealed(Placed(cells, at, new))
<1> DEFINE p == Placed(cells, at, new)
           ok == {Zero} \cup {Checksum(Body[m]) : m \in Models}
<1>1. /\ p \in Seq(Cell)
      /\ \A k \in 1 .. Len(p) :
           p[k] = IF k - at \in 1 .. Len(new) THEN new[k - at]
                  ELSE IF k \in 1 .. Len(cells) THEN cells[k] ELSE Zero
  BY PlacedCells
<1> HIDE DEF p
<1>2. SUFFICES ASSUME Len(p) >= 2 PROVE p[2] \in ok
  BY DEF Sealed, HeaderSize, p
<1>3. p[2] = IF 2 - at \in 1 .. Len(new) THEN new[2 - at]
             ELSE IF 2 \in 1 .. Len(cells) THEN cells[2] ELSE Zero
  BY <1>1, <1>2, LenProperties
<1>4. 2 \in 1 .. Len(cells) => cells[2] \in ok
  BY DEF Sealed, HeaderSize
<1>5. 2 - at \in 1 .. Len(new) => new[2 - at] \in ok /\ Zero \in ok
  OBVIOUS
<1> HIDE DEF ok
<1>6. Zero \in ok
  BY DEF ok
<1> QED BY <1>3, <1>4, <1>5, <1>6

(* What one step of a conversion may do to the file. *)
FileStep ==
  /\ file' \in Seq(Cell)
  /\ Sealed(file')
  /\ landed' \in [Workers -> Nat]
  /\ touched' \/ (file' = file /\ ~touched)

LEMMA LandKeeps ==
  ASSUME FileInv, NEW w \in Workers, NEW len \in 0 .. FileSize(Model(w)), NEW n \in Nat,
         n <= landed[w] \/ n <= len,
         Land(w, n, SubSeq(Body[Model(w)], 1, len))
  PROVE  FileStep
<1> DEFINE at == landed[w]
           all == SubSeq(Body[Model(w)], 1, len)
           new == SubSeq(all, at + 1, n)
<1>1. /\ file \in Seq(Cell) /\ Sealed(file) /\ at \in Nat /\ Model(w) \in Models
      /\ landed \in [Workers -> Nat]
  BY ModelOfWorker DEF FileInv
<1>2. /\ file' = Placed(file, at, new)
      /\ landed' = [landed EXCEPT ![w] = n]
      /\ touched' = (touched \/ n > at)
  BY DEF Land
<1> HIDE DEF all, at
<1>3. landed' \in [Workers -> Nat]
  BY <1>1, <1>2
<1>4. CASE n <= at
  <2>1. new = <<>>
    BY <1>1, <1>4, SubSeqEmpty
  <2>2. file' = file
    BY <1>2, <2>1 DEF Placed
  <2>3. touched' \/ ~touched
    BY <1>2
  <2> QED BY <1>1, <1>3, <2>2, <2>3 DEF FileStep
<1>5. CASE ~(n <= at)
  <2>1. n > at /\ at < n /\ n <= len
    BY <1>1, <1>5 DEF at
  <2>2. /\ new \in Seq(Cell)
        /\ 2 - at \in 1 .. Len(new) => new[2 - at] = Zero
    BY <1>1, <2>1, PieceOfBody DEF all
  <2>3. file' \in Seq(Cell) /\ Sealed(file')
    BY <1>1, <1>2, <2>2, PlacedCells, PlacedSealed
  <2>4. touched'
    BY <1>2, <2>1
  <2> QED BY <1>3, <2>3, <2>4 DEF FileStep
<1> QED BY <1>4, <1>5

(* PayloadInPlace, for one conversion and for the next state. *)
LEMMA SentNow ==
  ASSUME PayloadInPlace, NEW w \in Workers
  PROVE  /\ Len(sent[w]) \in 0 .. FileSize(Model(w))
         /\ sent[w] = SubSeq(Body[Model(w)], 1, Len(sent[w]))
BY DEF PayloadInPlace

LEMMA SentNext ==
  ASSUME PayloadInPlace', plan' = plan, NEW w \in Workers
  PROVE  /\ Len(sent'[w]) \in 0 .. FileSize(Model(w))
         /\ sent'[w] = SubSeq(Body[Model(w)], 1, Len(sent'[w]))
<1>1. Workers' = Workers /\ Model(w)' = Model(w)
  BY DEF Workers, Model
<1>2. /\ Len(sent'[w]) \in 0 .. FileSize(Model(w)')
      /\ sent'[w] = SubSeq(Body[Model(w)'], 1, Len(sent'[w]))
  BY <1>1 DEF PayloadInPlace
<1> QED BY <1>1, <1>2

LEMMA ChunkKeeps ==
  ASSUME FileInv, PayloadInPlace', plan' = plan, NEW w \in Workers, NEW cells,
         WriteChunk(w, cells)
  PROVE  FileStep /\ DOMAIN sent' = Workers
<1> DEFINE all == sent[w] \o cells
<1>1. sent' = [sent EXCEPT ![w] = all] /\ DOMAIN sent = Workers
  BY DEF WriteChunk, FileInv
<1>2. PICK n \in {landed[w], Len(all)} : Land(w, n, all)
  BY DEF WriteChunk
<1>3. all = sent'[w]
  BY <1>1
<1> HIDE DEF all
<1>4. Len(all) \in 0 .. FileSize(Model(w)) /\ all = SubSeq(Body[Model(w)], 1, Len(all))
  BY <1>3, SentNext
<1>5. landed[w] \in Nat /\ FileSize(Model(w)) \in Nat
  BY FileSizeBounds, ModelOfWorker DEF FileInv
<1>6. n \in Nat /\ (n <= landed[w] \/ n <= Len(all))
  BY <1>2, <1>4, <1>5
<1>7. Land(w, n, SubSeq(Body[Model(w)], 1, Len(all)))
  BY <1>2, <1>4
<1>8. FileStep
  BY <1>4, <1>6, <1>7, LandKeeps
<1> QED BY <1>1, <1>8

InSections == {"start", "header", "section", "stream"}
Behind == {"close", "patch"}

(* A step that writes as it should and moves at most one converter, whose   *)
(* section fits where it goes.                                              *)
LEMMA StepKeepsFile ==
  ASSUME FileInv, FileStep, plan' = plan, DOMAIN sent' = Workers,
         NEW w \in Workers, NEW where \in Places, pc' = [pc EXCEPT ![w] = where],
         NEW s \in 1 .. 8, section' = [section EXCEPT ![w] = s],
         where \in InSections => s <= 7, where \in Behind => s = 8
  PROVE  FileInv'
<1>1. Workers' = Workers
  BY DEF Workers
<1>2. pc' \in [Workers -> Places] /\ section' \in [Workers -> 1 .. 8]
  BY DEF FileInv, Places
<1>3. ASSUME NEW v \in Workers
      PROVE  /\ pc'[v] \in InSections => section'[v] <= 7
             /\ pc'[v] \in Behind => section'[v] = 8
  <2>1. CASE v = w
    BY <2>1 DEF FileInv
  <2>2. CASE v # w
    BY <2>2 DEF FileInv, InSections, Behind
  <2> QED BY <2>1, <2>2
<1> QED BY <1>1, <1>2, <1>3 DEF FileInv, FileStep, Places, InSections, Behind

(* The same for a step that leaves a converter in its section. *)
LEMMA StayKeepsFile ==
  ASSUME FileInv, FileStep, plan' = plan, DOMAIN sent' = Workers,
         NEW w \in Workers, NEW where \in Places, pc' = [pc EXCEPT ![w] = where],
         section' = section,
         where \in InSections => section[w] <= 7, where \in Behind => section[w] = 8
  PROVE  FileInv'
<1>1. section[w] \in 1 .. 8 /\ section' = [section EXCEPT ![w] = section[w]]
  BY DEF FileInv
<1> QED BY <1>1, StepKeepsFile

(* Neither the file nor a place changes. *)
LEMMA NothingWritten ==
  ASSUME FileInv, UNCHANGED <<file, writerVars>>
  PROVE  FileInv'
<1>1. Workers' = Workers
  BY DEF Workers, writerVars
<1> QED BY <1>1 DEF FileInv, writerVars, Sealed

(* What the sizes say is the end of the file. *)
LEMMA AllSent ==
  ASSUME FileInv, PayloadInPlace, NEW w \in Workers, pc[w] = "patch"
  PROVE  sent[w] = Body[Model(w)]
<1>1. Model(w) \in Models /\ section[w] = 8
  BY ModelOfWorker DEF FileInv
<1>2. Len(sent[w]) = Offset(w) /\ sent[w] = SubSeq(Body[Model(w)], 1, Len(sent[w]))
  BY DEF PayloadInPlace
<1>3. Offset(w) = FileSize(Model(w))
  BY <1>1, SectionNames DEF Offset, FileSize
<1>4. Body[Model(w)] \in Seq(Cell) /\ Len(Body[Model(w)]) = FileSize(Model(w))
  BY <1>1, BodyShape
<1> QED BY <1>2, <1>3, <1>4, SubSeqFull

-----------------------------------------------------------------------------
(* What has been written *)

First(m, n) == Between(Body[m], 0, n)

(* A conversion of m that is at a place, in section s, with its chain in a  *)
(* state and all of its writing behind it.                                  *)
Written(m, place, s, chain, all) ==
  /\ Len(all) \in Nat /\ Len(all) <= FileSize(m)
  /\ all = First(m, Len(all))
  /\ place \in {"start", "header"} => Len(all) = 0 /\ s = 1
  /\ place \in {"start", "header", "section"} /\ s <= 3 => chain = Begun
  /\ place \in {"section", "close", "patch", "finished"} => Len(all) = Gap(m, s)
  /\ place = "stream" =>
       /\ s = 3
       /\ ChainInv(m, chain)
       /\ Len(all) = Offsets[m][3] + Yielded(m, FedBy(m, chain))

SentInv ==
  /\ DOMAIN stream = Workers
  /\ \A w \in Workers : Written(Model(w), pc[w], section[w], stream[w], sent[w])

LEMMA Prefix ==
  ASSUME NEW m \in Models, NEW n \in Nat, n <= FileSize(m)
  PROVE  Part(Body[m], 1, n) = First(m, n)
<1>1. Body[m] \in Seq(Cell) /\ Len(Body[m]) = FileSize(m)
  BY BodyShape
<1>2. \A k \in 1 .. n : Body[m][k] \in Cell
  <2> TAKE k \in 1 .. n
  <2>1. k \in 1 .. FileSize(m)
    BY FileSizeBounds
  <2> QED BY <1>1, <2>1, ElementOfSeq
<1> DEFINE t == SubSeq(Body[m], 1, n)
<1>3. /\ t \in Seq(Cell) /\ Len(t) = IF 1 <= n THEN n - 1 + 1 ELSE 0
      /\ \A k \in 1 .. n - 1 + 1 : t[k] = Body[m][1 + k - 1]
  BY <1>2, SubSeqProperties
<1> HIDE DEF t
<1>4. Len(t) = n /\ \A k \in 1 .. n : t[k] = Body[m][0 + k]
  BY <1>3
<1>5. t = [k \in 1 .. n |-> t[k]]
  BY <1>3, <1>4, LenProperties
<1>6. First(m, n) = [k \in 1 .. n |-> Body[m][0 + k]]
  BY DEF First, Between
<1>7. t = First(m, n)
  BY <1>4, <1>5, <1>6
<1> QED BY <1>7 DEF t, Part

LEMMA Extended ==
  ASSUME NEW m \in Models, NEW a \in Nat, NEW b \in Nat, a <= b
  PROVE  /\ First(m, a) \o Between(Body[m], a, b) = First(m, b)
         /\ Len(First(m, b)) = b
<1>1. 0 <= a /\ 0 <= b /\ 0 \in Nat
  OBVIOUS
<1>2. Between(Body[m], 0, a) \o Between(Body[m], a, b) = Between(Body[m], 0, b)
  BY <1>1, Joined
<1>3. Len(Between(Body[m], 0, b)) = b - 0
  BY <1>1, BetweenSeq
<1>4. b - 0 = b
  OBVIOUS
<1> QED BY <1>2, <1>3, <1>4 DEF First

LEMMA OffsetIsGap ==
  ASSUME NEW w \in Workers
  PROVE  Offset(w) = Gap(Model(w), section[w])
BY DEF Offset, Gap, Ends

(* PayloadInPlace, of one converter. *)
SitsRight(m, place, s, all) ==
  /\ Len(all) \in 0 .. FileSize(m)
  /\ all = SubSeq(Body[m], 1, Len(all))
  /\ place \in {"section", "close", "patch", "finished"} => Len(all) = Gap(m, s)

LEMMA InPlace ==
  ASSUME NEW m \in Models, NEW place, NEW s, NEW chain, NEW all,
         Written(m, place, s, chain, all)
  PROVE  SitsRight(m, place, s, all)
<1> DEFINE n == Len(all)
<1>1. n \in Nat /\ n <= FileSize(m) /\ all = First(m, n)
  BY DEF Written
<1>2. n \in 0 .. FileSize(m)
  BY <1>1, FileSizeBounds
<1>3. place \in {"section", "close", "patch", "finished"} => n = Gap(m, s)
  BY DEF Written
<1> HIDE DEF n
<1>4. Part(Body[m], 1, n) = First(m, n)
  BY <1>1, Prefix
<1>5. all = SubSeq(Body[m], 1, n)
  BY <1>1, <1>4 DEF Part
<1> QED BY <1>2, <1>3, <1>5 DEF n, SitsRight

LEMMA SentInPlace ==
  ASSUME plan \in Plans, SentInv
  PROVE  PayloadInPlace
BY InPlace, ModelOfWorker, OffsetIsGap DEF PayloadInPlace, SentInv, SitsRight

(* A step of one converter. *)
LEMMA OneWrites ==
  ASSUME FileInv, SentInv, plan' = plan, NEW w \in Workers, DOMAIN stream' = Workers,
         \A v \in Workers \ {w} : /\ pc'[v] = pc[v] /\ section'[v] = section[v]
                                  /\ stream'[v] = stream[v] /\ sent'[v] = sent[v],
         Written(Model(w), pc'[w], section'[w], stream'[w], sent'[w])
  PROVE  SentInv'
<1>1. Workers' = Workers
  BY DEF Workers
<1>2. ASSUME NEW v \in Workers
      PROVE  Written(Model(v), pc'[v], section'[v], stream'[v], sent'[v])
  BY DEF SentInv
<1>3. \A v \in Workers :
        Written(Model(v), pc[v], section[v], stream[v], sent[v])'
          <=> Written(Model(v), pc'[v], section'[v], stream'[v], sent'[v])
  <2> TAKE v \in Workers
  <2>1. Model(v)' = Model(v)
    BY DEF Model
  <2> QED BY <2>1
<1> QED BY <1>1, <1>2, <1>3 DEF SentInv

LEMMA WriterFacts ==
  ASSUME FileInv, SentInv, NEW w \in Workers
  PROVE  /\ Written(Model(w), pc[w], section[w], stream[w], sent[w])
         /\ Model(w) \in Models
         /\ DOMAIN pc = Workers /\ DOMAIN section = Workers /\ DOMAIN stream = Workers
         /\ DOMAIN sent = Workers
         /\ section[w] \in 1 .. 8
BY ModelOfWorker DEF FileInv, SentInv

(* Where the next section is believed to begin. *)
LEMMA NextGap ==
  ASSUME NEW m \in Models, NEW s \in 1 .. 7
  PROVE  Gap(m, s + 1) = Ends(m, s)
<1> DEFINE t == s + 1
<1>1. t # 1 /\ t - 1 = s
  OBVIOUS
<1> HIDE DEF t
<1>2. Gap(m, t) = Ends(m, s)
  BY <1>1 DEF Gap
<1> QED BY <1>2 DEF t

LEMMA OpenWrites ==
  ASSUME FileInv, SentInv, NEW w \in Workers, OpenFile(w)
  PROVE  SentInv'
<1>1. /\ pc[w] = "start" /\ pc' = [pc EXCEPT ![w] = "header"] /\ plan' = plan
      /\ section' = section /\ stream' = stream /\ sent' = sent
  BY DEF OpenFile, Goto
<1>2. Written(Model(w), "header", section[w], stream[w], sent[w])
  BY <1>1, WriterFacts DEF Written
<1> QED BY <1>1, <1>2, WriterFacts, OneWrites

LEMMA HeaderWrites ==
  ASSUME FileInv, SentInv, NEW w \in Workers, WriteHeader(w)
  PROVE  SentInv' /\ Len(sent[w]) <= Len(sent'[w])
<1> DEFINE m == Model(w)
           cells == <<Fields(m), Zero>>
           all == sent[w] \o cells
<1>1. /\ pc[w] = "header" /\ pc' = [pc EXCEPT ![w] = "section"] /\ plan' = plan
      /\ section' = section /\ stream' = stream /\ sent' = [sent EXCEPT ![w] = all]
  BY DEF WriteHeader, Goto, WriteChunk
<1>2. /\ Len(sent[w]) = 0 /\ sent[w] = First(m, Len(sent[w]))
      /\ section[w] = 1 /\ stream[w] = Begun
  BY <1>1, WriterFacts DEF Written
<1>3. m \in Models
  BY WriterFacts
<1>4. HeaderSize \in Nat /\ 0 <= HeaderSize /\ HeaderSize <= FileSize(m)
  BY <1>3, FileSizeBounds DEF HeaderSize
<1>5. cells = Between(Body[m], Len(sent[w]), HeaderSize)
  BY <1>2, <1>3, HeaderPiece
<1> HIDE DEF cells, m
<1>6. all = First(m, HeaderSize) /\ Len(all) = HeaderSize
  <2> DEFINE old == sent[w]
             a == Len(sent[w])
             b == HeaderSize
  <2>1. a \in Nat /\ a <= b /\ b \in Nat
    BY <1>2, <1>4
  <2>2. old = First(m, a) /\ cells = Between(Body[m], a, b)
    BY <1>2, <1>5
  <2> HIDE DEF old, a, b
  <2>3. old \o cells = First(m, b) /\ Len(old \o cells) = b
    BY <1>3, <2>1, <2>2, Extended
  <2> QED BY <2>3 DEF old, b
<1>7. Written(m, "section", 1, Begun, all)
  BY <1>4, <1>6 DEF Written, Gap
<1> HIDE DEF all
<1>8. Len(sent[w]) <= Len(sent'[w])
  BY <1>1, <1>2, <1>4, <1>6, WriterFacts
<1>9. SentInv'
  BY <1>1, <1>2, <1>7, WriterFacts, OneWrites DEF m
<1> QED BY <1>8, <1>9

(* Behind a section, written up to its end. *)
LEMMA NextSectionWrites ==
  ASSUME FileInv, SentInv, NEW w \in Workers, plan' = plan, NextSection(w),
         section[w] \in 1 .. 7, NEW chain, DOMAIN stream' = Workers,
         \A v \in Workers \ {w} : stream'[v] = stream[v] /\ sent'[v] = sent[v],
         Len(sent'[w]) = Ends(Model(w), section[w]),
         sent'[w] = First(Model(w), Len(sent'[w])),
         section[w] <= 2 => stream'[w] = Begun
  PROVE  SentInv'
<1> DEFINE m == Model(w)
           s == section[w]
           where == IF s = Len(Sections) THEN "close" ELSE "section"
           all == sent'[w]
<1>1. section' = [section EXCEPT ![w] = s + 1] /\ pc' = [pc EXCEPT ![w] = where]
  BY DEF NextSection, Goto
<1>2. m \in Models /\ s \in 1 .. 7
  BY WriterFacts
<1>3. Len(all) = Gap(m, s + 1) /\ Len(all) \in Nat /\ Len(all) <= FileSize(m)
  BY <1>2, NextGap, FileSizeBounds
<1>4. where \in {"section", "close"}
  OBVIOUS
<1>5. all = First(m, Len(all)) /\ (s + 1 <= 3 => stream'[w] = Begun)
  BY <1>2
<1> HIDE DEF m, s, where, all
<1>6. Written(m, where, s + 1, stream'[w], all)
  BY <1>3, <1>4, <1>5 DEF Written
<1>7. /\ pc'[w] = where /\ section'[w] = s + 1
      /\ \A v \in Workers \ {w} : pc'[v] = pc[v] /\ section'[v] = section[v]
  BY <1>1, WriterFacts
<1> QED BY <1>6, <1>7, OneWrites DEF m, all

LEMMA SectionWrites ==
  ASSUME FileInv, SentInv, NEW w \in Workers, WriteSection(w)
  PROVE  SentInv' /\ Len(sent[w]) <= Len(sent'[w])
<1> DEFINE m == Model(w)
           s == section[w]
<1>1. /\ pc[w] = "section" /\ plan' = plan /\ stream' = stream
      /\ DOMAIN stream' = Workers
  BY WriterFacts DEF WriteSection
<1>2. m \in Models /\ s \in 1 .. 7
  BY <1>1, WriterFacts DEF FileInv
<1>3. /\ Len(sent[w]) = Gap(m, s) /\ sent[w] = First(m, Len(sent[w]))
      /\ s <= 3 => stream[w] = Begun
  BY <1>1, WriterFacts DEF Written
<1>4. Padding(w) = Between(Body[m], Gap(m, s), Offsets[m][s])
  BY <1>2, PaddingPiece, OffsetIsGap DEF Padding
<1>5. /\ Gap(m, s) \in Nat /\ Offsets[m][s] \in Nat /\ Ends(m, s) \in Nat
      /\ Gap(m, s) <= Offsets[m][s] /\ Offsets[m][s] <= Ends(m, s)
      /\ Gap(m, s) <= Ends(m, s)
      /\ Offsets[m][s] <= FileSize(m) /\ Ends(m, s) <= FileSize(m)
  <2>1. /\ Gap(m, s) \in Nat /\ Offsets[m][s] \in Nat /\ Ends(m, s) \in Nat
        /\ Gap(m, s) <= Offsets[m][s] /\ Offsets[m][s] <= Ends(m, s)
        /\ Ends(m, s) <= FileSize(m) /\ FileSize(m) \in Nat
    BY <1>2, PaddingPiece, ContentsPiece, FileSizeBounds, OffsetsInOrder
  <2> HIDE DEF m, s
  <2> QED BY <2>1
<1> HIDE DEF m, s
<1>6. CASE Sections[s] = "embeddings"
  <2> DEFINE all == sent[w] \o Padding(w)
  <2>1. /\ sent' = [sent EXCEPT ![w] = all] /\ section' = section
        /\ pc' = [pc EXCEPT ![w] = "stream"]
    BY <1>6 DEF WriteSection, WriteChunk, Goto, s
  <2>2. s = 3
    <3>1. \A k \in 1 .. 7 : Sections[k] = "embeddings" => k = 3
      BY SectionNames
    <3> QED BY <1>2, <1>6, <3>1
  <2>3. all = First(m, Offsets[m][s]) /\ Len(all) = Offsets[m][s]
    <3> DEFINE old == sent[w]
               p == Padding(w)
               a == Len(sent[w])
               b == Offsets[m][s]
    <3>1. a \in Nat /\ a <= b /\ b \in Nat
      BY <1>3, <1>5
    <3>2. old = First(m, a) /\ p = Between(Body[m], a, b)
      BY <1>3, <1>4
    <3> HIDE DEF old, a, b, p
    <3>3. old \o p = First(m, b) /\ Len(old \o p) = b
      BY <1>2, <3>1, <3>2, Extended
    <3> QED BY <3>3 DEF old, b, p
  <2> HIDE DEF all
  <2>4. ChainInv(m, Begun) /\ FedBy(m, Begun) = 0
    BY <1>2, ModelIs, ChainBegins
  <2>5. Yielded(m, 0) = 0
    <3>1. m.dim \in Nat \ {0} /\ m.out \in Nat
      BY <1>2, ModelAssumption
    <3>2. 0 \div m.dim = 0
      BY <3>1
    <3> QED BY <3>1, <3>2 DEF Yielded
  <2>6. Written(m, "stream", s, Begun, all)
    BY <1>5, <2>2, <2>3, <2>4, <2>5 DEF Written
  <2>7. stream[w] = Begun
    BY <1>3, <2>2
  <2>8. Len(sent[w]) <= Len(sent'[w])
    <3>1. sent'[w] = all
      BY <2>1, WriterFacts
    <3> QED BY <1>3, <1>5, <2>3, <3>1
  <2>9. SentInv'
    BY <1>1, <2>1, <2>6, <2>7, WriterFacts, OneWrites DEF m, s
  <2> QED BY <2>8, <2>9
<1>7. CASE Sections[s] # "embeddings"
  <2> DEFINE c == Contents(m, Sections[s])
             p == Padding(w)
             all == sent[w] \o (p \o c)
  <2>1. sent' = [sent EXCEPT ![w] = all] /\ NextSection(w)
    BY <1>7 DEF WriteSection, WriteChunk, s, m
  <2>2. p \o c = Between(Body[m], Gap(m, s), Ends(m, s))
    <3> DEFINE x == Gap(m, s)
               y == Offsets[m][s]
               z == Ends(m, s)
    <3>1. x \in Nat /\ y \in Nat /\ z \in Nat /\ x <= y /\ y <= z
      BY <1>5
    <3>2. p = Between(Body[m], x, y) /\ c = Between(Body[m], y, z)
      BY <1>2, <1>4, ContentsPiece
    <3> HIDE DEF x, y, z, p, c
    <3>3. Between(Body[m], x, y) \o Between(Body[m], y, z) = Between(Body[m], x, z)
      BY <3>1, Joined
    <3>4. p \o c = Between(Body[m], x, z)
      BY <3>2, <3>3
    <3> QED BY <3>4 DEF x, z
  <2> DEFINE cells == p \o c
  <2>3. cells = Between(Body[m], Gap(m, s), Ends(m, s)) /\ all = sent[w] \o cells
    BY <2>2
  <2> HIDE DEF cells, all
  <2>4. all = First(m, Ends(m, s)) /\ Len(all) = Ends(m, s)
    <3> DEFINE old == sent[w]
               a == Len(sent[w])
               b == Ends(m, s)
    <3>1. a \in Nat /\ a <= b /\ b \in Nat
      BY <1>3, <1>5
    <3>2. old = First(m, a) /\ cells = Between(Body[m], a, b)
      BY <1>3, <2>3
    <3>3. all = old \o cells
      BY <2>3
    <3> HIDE DEF old, a, b
    <3>4. old \o cells = First(m, b) /\ Len(old \o cells) = b
      BY <1>2, <3>1, <3>2, Extended
    <3> QED BY <3>3, <3>4 DEF b
  <2>5. s <= 2 => stream'[w] = Begun
    BY <1>1, <1>2, <1>3
  <2>6. sent'[w] = all /\ \A v \in Workers \ {w} : sent'[v] = sent[v]
    BY <2>1, WriterFacts
  <2>7. Len(sent[w]) <= Len(sent'[w])
    BY <1>3, <1>5, <2>4, <2>6
  <2>8. SentInv'
    BY <1>1, <1>2, <2>1, <2>4, <2>5, <2>6, NextSectionWrites DEF m, s
  <2> QED BY <2>7, <2>8
<1> QED BY <1>6, <1>7

LEMMA StreamWrites ==
  ASSUME FileInv, SentInv, NEW w \in Workers, StreamChunk(w) \/ StreamRows(w)
  PROVE  SentInv' /\ Len(sent[w]) <= Len(sent'[w])
<1> DEFINE m == Model(w)
           s == stream[w]
<1>1. pc[w] = "stream" /\ m \in Models /\ IsModel(m)
  BY WriterFacts, ModelIs DEF StreamChunk, StreamRows
<1>2. /\ section[w] = 3 /\ ChainInv(m, s)
      /\ Len(sent[w]) = Offsets[m][3] + Yielded(m, FedBy(m, s))
      /\ sent[w] = First(m, Len(sent[w]))
  BY <1>1, WriterFacts DEF Written
<1>3. PICK step : Moves(m, s, step) /\ Yields(w, step)
  <2>1. CASE StreamChunk(w)
    BY <1>1, <1>2, <2>1, ReadMoves DEF StreamChunk
  <2>2. CASE StreamRows(w)
    BY <1>1, <1>2, <2>2, PickMoves DEF StreamRows
  <2> QED BY <2>1, <2>2
<1> DEFINE next == step.stream
           cells == step.chunk
           p == FedBy(m, s)
           q == FedBy(m, next)
           x == Yielded(m, p)
           y == Yielded(m, q)
           old == sent[w]
           all == old \o cells
           a == Offsets[m][3] + x
           b == Offsets[m][3] + y
<1>4. /\ plan' = plan /\ pc' = pc /\ section' = section
      /\ stream' = [stream EXCEPT ![w] = next] /\ sent' = [sent EXCEPT ![w] = all]
  BY <1>3 DEF Yields, WriteChunk
<1>5. ChainInv(m, next) /\ p <= q /\ cells = Between(Due(m, m.out), x, y)
  BY <1>3 DEF Moves
<1>6. p \in Nat /\ q \in Nat
  BY <1>1, <1>2, <1>5, ChainFits
<1>7. x \in Nat /\ y \in Nat /\ x <= y /\ y <= OutputRows(m) * m.out
  <2>1. y <= OutputRows(m) * m.out
    BY <1>1, <1>5, ChainYields
  <2> HIDE DEF p, q
  <2> QED BY <1>1, <1>5, <1>6, <2>1, YieldedInOrder
<1>8. old = First(m, a) /\ b = Offsets[m][3] + Yielded(m, FedBy(m, next))
  BY <1>2
<1>9. a = Offsets[m][3] + x /\ b = Offsets[m][3] + y
  OBVIOUS
<1> HIDE DEF next, cells, p, q, x, y, a, b, old, m
<1>10. /\ a \in Nat /\ b \in Nat /\ a <= b /\ b <= FileSize(m)
       /\ Between(Due(m, m.out), x, y) = Between(Body[m], a, b)
  BY <1>1, <1>7, <1>9, MatrixPiece
<1>11. First(m, a) \o Between(Body[m], a, b) = First(m, b) /\ Len(First(m, b)) = b
  BY <1>1, <1>10, Extended
<1>12. all = First(m, b) /\ Len(all) = b
  BY <1>5, <1>8, <1>10, <1>11
<1> HIDE DEF all
<1>13. Written(m, "stream", 3, next, all)
  BY <1>5, <1>8, <1>10, <1>12 DEF Written
<1>14. Len(sent[w]) <= Len(sent'[w])
  <2>1. sent'[w] = all /\ Len(sent[w]) = a
    BY <1>2, <1>4, WriterFacts DEF a, x, p, m
  <2> QED BY <1>10, <1>12, <2>1
<1>15. SentInv'
  BY <1>1, <1>2, <1>4, <1>13, WriterFacts, OneWrites DEF m
<1> QED BY <1>14, <1>15

LEMMA StreamEndWrites ==
  ASSUME FileInv, SentInv, NEW w \in Workers, StreamEnd(w)
  PROVE  SentInv'
<1> DEFINE m == Model(w)
           s == stream[w]
<1>1. /\ pc[w] = "stream" /\ m \in Models /\ IsModel(m) /\ Ended(m, s)
      /\ plan' = plan /\ stream' = stream /\ sent' = sent /\ NextSection(w)
      /\ DOMAIN stream' = Workers
  BY WriterFacts, ModelIs DEF StreamEnd
<1>2. /\ section[w] = 3 /\ ChainInv(m, s)
      /\ Len(sent[w]) = Offsets[m][3] + Yielded(m, FedBy(m, s))
      /\ sent[w] = First(m, Len(sent[w]))
  BY <1>1, WriterFacts DEF Written
<1>3. Yielded(m, FedBy(m, s)) = OutputRows(m) * m.out
  BY <1>1, <1>2, ChainYields
<1>4. Ends(m, 3) = Offsets[m][3] + OutputRows(m) * m.out
  BY <1>1, SectionNames, DeclaredSize DEF Ends, Size
<1>5. Len(sent[w]) = Ends(m, 3)
  BY <1>2, <1>3, <1>4
<1> QED BY <1>1, <1>2, <1>5, NextSectionWrites

(* A converter that stops, or is behind its sections, writes no more. *)
LEMMA StopWrites ==
  ASSUME FileInv, SentInv, NEW w \in Workers,
         StreamRaises(w) \/ CloseFile(w) \/ PatchChecksum(w) \/ Die(w)
  PROVE  SentInv'
<1>1. /\ plan' = plan /\ section' = section /\ stream' = stream /\ sent' = sent
      /\ DOMAIN stream' = Workers
  BY WriterFacts DEF StreamRaises, CloseFile, PatchChecksum, Die
<1>2. \/ pc' = [pc EXCEPT ![w] = "failed"]
      \/ pc[w] = "close" /\ pc' = [pc EXCEPT ![w] = "patch"]
      \/ pc[w] = "patch" /\ pc' = [pc EXCEPT ![w] = "finished"]
  BY DEF StreamRaises, CloseFile, PatchChecksum, Die, Goto
<1>3. Written(Model(w), pc'[w], section[w], stream[w], sent[w])
  BY <1>2, WriterFacts DEF Written
<1>4. \A v \in Workers \ {w} : pc'[v] = pc[v]
  BY <1>2, WriterFacts
<1> QED BY <1>1, <1>3, <1>4, OneWrites

LEMMA OutageWrites ==
  ASSUME FileInv, SentInv, Outage
  PROVE  SentInv'
<1>1. /\ plan' = plan /\ section' = section /\ stream' = stream /\ sent' = sent
      /\ pc' = [w \in Workers |-> IF Writing(w) THEN "failed" ELSE pc[w]]
  BY DEF Outage
<1>2. Workers' = Workers
  BY <1>1 DEF Workers
<1>3. \A w \in Workers : Written(Model(w), pc'[w], section[w], stream[w], sent[w])
  <2> TAKE w \in Workers
  <2>1. pc'[w] = "failed" \/ pc'[w] = pc[w]
    BY <1>1
  <2> QED BY <2>1, WriterFacts DEF Written
<1>4. \A w \in Workers :
        Written(Model(w), pc[w], section[w], stream[w], sent[w])'
          <=> Written(Model(w), pc'[w], section'[w], stream'[w], sent'[w])
  <2> TAKE w \in Workers
  <2>1. Model(w)' = Model(w)
    BY <1>1 DEF Model
  <2> QED BY <2>1
<1> QED BY <1>1, <1>2, <1>3, <1>4 DEF SentInv

LEMMA NothingSent ==
  ASSUME SentInv, UNCHANGED writerVars
  PROVE  SentInv'
<1>1. /\ plan' = plan /\ pc' = pc /\ section' = section /\ stream' = stream
      /\ sent' = sent /\ Workers' = Workers
  BY DEF writerVars, Workers
<1>2. \A w \in Workers :
        Written(Model(w), pc[w], section[w], stream[w], sent[w])'
          <=> Written(Model(w), pc'[w], section'[w], stream'[w], sent'[w])
  <2> TAKE w \in Workers
  <2>1. Model(w)' = Model(w)
    BY <1>1 DEF Model
  <2> QED BY <2>1
<1> QED BY <1>1, <1>2 DEF SentInv

LEMMA InitWrites == Init => SentInv
<1> SUFFICES ASSUME Init PROVE SentInv
  OBVIOUS
<1>1. DOMAIN stream = Workers
  BY DEF Init
<1>2. ASSUME NEW w \in Workers
      PROVE  Written(Model(w), pc[w], section[w], stream[w], sent[w])
  <2>1. /\ pc[w] = "start" /\ section[w] = 1 /\ stream[w] = Begun /\ sent[w] = <<>>
        /\ Model(w) \in Models
    BY ModelOfWorker DEF Init
  <2>2. Len(<<>>) = 0 /\ <<>> = First(Model(w), 0)
    BY NothingBetween, EmptySeq DEF First
  <2>3. FileSize(Model(w)) \in Nat
    BY <2>1, FileSizeBounds
  <2>4. Written(Model(w), "start", 1, Begun, <<>>)
    BY <2>2, <2>3 DEF Written
  <2> QED BY <2>1, <2>4
<1> QED BY <1>1, <1>2 DEF SentInv

(* Every step writes what is due next. *)
LEMMA SentKept ==
  ASSUME FileInv, SentInv, [Next]_vars
  PROVE  SentInv'
<1>1. ASSUME NEW w \in Workers, Convert(w) PROVE SentInv'
  BY <1>1, OpenWrites, HeaderWrites, SectionWrites, StreamWrites, StreamEndWrites,
     StopWrites DEF Convert
<1>2. CASE Load
  <2>1. UNCHANGED writerVars
    BY <1>2 DEF Load, BeginLoad, ReadHeader, ReadBody, OpenMapping, Validate, ReaderGoto
  <2> QED BY <2>1, NothingSent
<1>3. CASE UNCHANGED vars
  BY <1>3, NothingSent DEF vars
<1> QED BY <1>1, <1>2, <1>3, OutageWrites DEF Next

LEMMA PlanKept ==
  ASSUME plan \in Plans, [Next]_vars
  PROVE  (plan \in Plans)'
BY DEF Next, Convert, OpenFile, WriteHeader, WriteSection, StreamChunk, StreamRows, Yields,
       StreamEnd, StreamRaises, CloseFile, PatchChecksum, Die, Outage, Load, BeginLoad,
       ReadHeader, ReadBody, OpenMapping, Validate, ReaderGoto, writerVars, vars

LEMMA SentInPlaceNext ==
  ASSUME (plan \in Plans)', SentInv'
  PROVE  PayloadInPlace'
<1>1. ASSUME NEW w \in Workers'
      PROVE  SitsRight(Model(w)', pc'[w], section'[w], sent'[w])
  <2> DEFINE m == Model(w)'
  <2>1. Written(m, pc'[w], section'[w], stream'[w], sent'[w])
    <3>1. Written(Model(w), pc[w], section[w], stream[w], sent[w])'
      BY DEF SentInv
    <3> QED BY <3>1
  <2>2. m \in Models
    BY DEF Models, Model, Workers
  <2> HIDE DEF m
  <2>3. SitsRight(m, pc'[w], section'[w], sent'[w])
    BY <2>1, <2>2, InPlace
  <2> QED BY <2>3 DEF m
<1>2. \A w \in Workers' : Offset(w)' = Gap(Model(w)', section'[w])
  BY DEF Offset, Gap, Ends, Model
<1> QED BY <1>1, <1>2 DEF PayloadInPlace, SitsRight

-----------------------------------------------------------------------------
(* What the actions of a conversion do to it *)

LEMMA OpenKeeps ==
  ASSUME FileInv, NEW w \in Workers, OpenFile(w)
  PROVE  FileInv' /\ touched'
<1>1. /\ file' = <<>> /\ touched' /\ plan' = plan /\ section' = section
      /\ sent' = sent /\ landed' = landed /\ pc' = [pc EXCEPT ![w] = "header"]
      /\ pc[w] = "start"
  BY DEF OpenFile, Goto
<1>2. <<>> \in Seq(Cell) /\ Len(<<>>) = 0
  BY EmptySeq
<1>3. FileStep
  BY <1>1, <1>2 DEF FileStep, FileInv, Sealed, HeaderSize
<1>4. section[w] <= 7
  BY <1>1 DEF FileInv
<1> QED BY <1>1, <1>3, <1>4, StayKeepsFile DEF FileInv, Places, InSections, Behind

LEMMA HeaderKeeps ==
  ASSUME FileInv, PayloadInPlace', NEW w \in Workers, WriteHeader(w)
  PROVE  FileInv' /\ FileStep
<1>1. /\ plan' = plan /\ section' = section /\ pc' = [pc EXCEPT ![w] = "section"]
      /\ pc[w] = "header"
  BY DEF WriteHeader, Goto
<1>2. FileStep /\ DOMAIN sent' = Workers
  BY <1>1, ChunkKeeps DEF WriteHeader
<1>3. section[w] <= 7
  BY <1>1 DEF FileInv
<1> QED BY <1>1, <1>2, <1>3, StayKeepsFile DEF Places, InSections, Behind

(* The last section leads behind all of them. *)
LEMMA NextSectionKeeps ==
  ASSUME FileInv, FileStep, plan' = plan, DOMAIN sent' = Workers, NEW w \in Workers,
         pc[w] \in {"section", "stream"}, NextSection(w)
  PROVE  FileInv'
<1> DEFINE where == IF section[w] = Len(Sections) THEN "close" ELSE "section"
<1>1. /\ section' = [section EXCEPT ![w] = section[w] + 1]
      /\ pc' = [pc EXCEPT ![w] = where]
  BY DEF NextSection, Goto
<1>2. section[w] \in 1 .. 7
  BY DEF FileInv
<1>3. section[w] + 1 \in 1 .. 8
  BY <1>2
<1>4. CASE section[w] = 7
  <2>1. where = "close" /\ section[w] + 1 = 8
    BY <1>4, SectionNames
  <2> QED BY <1>1, <1>3, <2>1, StepKeepsFile DEF Places, InSections, Behind
<1>5. CASE section[w] # 7
  <2>1. where = "section" /\ section[w] + 1 <= 7
    BY <1>2, <1>5, SectionNames
  <2> QED BY <1>1, <1>3, <2>1, StepKeepsFile DEF Places, InSections, Behind
<1> QED BY <1>4, <1>5

LEMMA SectionKeeps ==
  ASSUME FileInv, PayloadInPlace', NEW w \in Workers, WriteSection(w)
  PROVE  FileInv' /\ FileStep
<1>1. plan' = plan /\ pc[w] = "section" /\ section[w] <= 7
  BY DEF WriteSection, FileInv
<1>2. CASE Sections[section[w]] = "embeddings"
  <2>1. FileStep /\ DOMAIN sent' = Workers
    BY <1>1, <1>2, ChunkKeeps DEF WriteSection
  <2>2. section' = section /\ pc' = [pc EXCEPT ![w] = "stream"]
    BY <1>2 DEF WriteSection, Goto
  <2> QED BY <1>1, <2>1, <2>2, StayKeepsFile DEF Places, InSections, Behind
<1>3. CASE Sections[section[w]] # "embeddings"
  <2>1. FileStep /\ DOMAIN sent' = Workers
    BY <1>1, <1>3, ChunkKeeps DEF WriteSection
  <2>2. NextSection(w)
    BY <1>3 DEF WriteSection
  <2> QED BY <1>1, <2>1, <2>2, NextSectionKeeps
<1> QED BY <1>2, <1>3

LEMMA StreamKeeps ==
  ASSUME FileInv, PayloadInPlace', NEW w \in Workers, StreamChunk(w) \/ StreamRows(w)
  PROVE  FileInv' /\ FileStep
<1>1. PICK step : Yields(w, step)
  BY DEF StreamChunk, StreamRows
<1>2. /\ plan' = plan /\ pc' = pc /\ section' = section
      /\ WriteChunk(w, step.chunk)
  BY <1>1 DEF Yields
<1>3. FileStep /\ DOMAIN sent' = Workers
  BY <1>2, ChunkKeeps
<1>4. Workers' = Workers
  BY <1>2 DEF Workers
<1> QED BY <1>2, <1>3, <1>4 DEF FileInv, FileStep

LEMMA StreamEndKeeps ==
  ASSUME FileInv, NEW w \in Workers, StreamEnd(w)
  PROVE  FileInv' /\ FileStep
<1>1. /\ plan' = plan /\ pc[w] = "stream" /\ NextSection(w)
      /\ sent' = sent /\ file' = file /\ landed' = landed /\ touched' = touched
  BY DEF StreamEnd, historyVars
<1>2. FileStep
  BY <1>1 DEF FileStep, FileInv, Sealed
<1> QED BY <1>1, <1>2, NextSectionKeeps DEF FileInv

(* A converter that stops or closes lets out some of what it has sent. *)
LEMMA FlushKeeps ==
  ASSUME FileInv, PayloadInPlace, NEW w \in Workers,
         StreamRaises(w) \/ CloseFile(w) \/ Die(w)
  PROVE  FileInv' /\ FileStep
<1>1. Len(sent[w]) \in 0 .. FileSize(Model(w))
      /\ sent[w] = SubSeq(Body[Model(w)], 1, Len(sent[w]))
  BY SentNow
<1>2. landed[w] \in Nat /\ FileSize(Model(w)) \in Nat
  BY FileSizeBounds, ModelOfWorker DEF FileInv
<1>3. PICK n \in Nat : n <= Len(sent[w]) /\ Land(w, n, sent[w])
  <2>1. CASE StreamRaises(w) \/ CloseFile(w)
    BY <1>1, <1>2, <2>1 DEF StreamRaises, CloseFile
  <2>2. CASE Die(w)
    <3>1. PICK n \in landed[w] .. Len(sent[w]) : Land(w, n, sent[w])
      BY <2>2 DEF Die
    <3> QED BY <1>1, <1>2, <3>1
  <2> QED BY <2>1, <2>2
<1>4. FileStep
  BY <1>1, <1>3, LandKeeps
<1>5. plan' = plan /\ section' = section /\ sent' = sent
  BY DEF StreamRaises, CloseFile, Die
<1>6. CASE CloseFile(w)
  <2>1. pc' = [pc EXCEPT ![w] = "patch"] /\ section[w] = 8
    BY <1>6 DEF CloseFile, Goto, FileInv
  <2> QED BY <1>4, <1>5, <2>1, StayKeepsFile DEF FileInv, Places, InSections, Behind
<1>7. CASE StreamRaises(w) \/ Die(w)
  <2>1. pc' = [pc EXCEPT ![w] = "failed"]
    BY <1>7 DEF StreamRaises, Die, Goto
  <2> QED BY <1>4, <1>5, <2>1, StayKeepsFile DEF FileInv, Places, InSections, Behind
<1> QED BY <1>4, <1>6, <1>7

LEMMA PatchKeeps ==
  ASSUME FileInv, PayloadInPlace, NEW w \in Workers, PatchChecksum(w)
  PROVE  FileInv' /\ FileStep
<1>1. /\ file' = Placed(file, 1, <<Checksum(sent[w])>>)
      /\ pc[w] = "patch" /\ pc' = [pc EXCEPT ![w] = "finished"]
      /\ plan' = plan /\ section' = section /\ sent' = sent /\ landed' = landed
      /\ touched'
  BY DEF PatchChecksum, Goto, HeaderSize
<1> DEFINE c == Checksum(Body[Model(w)])
<1>2. file' = Placed(file, 1, <<c>>)
  BY <1>1, AllSent
<1>3. Model(w) \in Models /\ file \in Seq(Cell) /\ Sealed(file)
  BY ModelOfWorker DEF FileInv
<1>4. c \in Cell /\ c \in {Checksum(Body[m]) : m \in Models}
  BY <1>3, SomeCells
<1> HIDE DEF c
<1>5. <<c>> \in Seq(Cell) /\ Len(<<c>>) = 1 /\ <<c>>[2 - 1] = c
  BY <1>4
<1>6. file' \in Seq(Cell) /\ Sealed(file')
  BY <1>2, <1>3, <1>4, <1>5, PlacedCells, PlacedSealed
<1>7. FileStep
  BY <1>1, <1>6 DEF FileStep, FileInv
<1> QED BY <1>1, <1>7, StayKeepsFile DEF FileInv, Places, InSections, Behind

(* An outage takes cells; it never makes up a checksum. *)
LEMMA OutageKeeps ==
  ASSUME FileInv, Outage
  PROVE  FileInv' /\ reader' = "idle"
<1>1. PICK pages \in SUBSET Pages,
           n \in {0, Len(file)} \cup {k \in DOMAIN file : k % PageSize = 0} :
         file' = [k \in 1 .. n |->
                    IF (k - 1) \div PageSize \in pages THEN Zero ELSE file[k]]
  BY DEF Outage
<1>2. /\ plan' = plan /\ section' = section /\ sent' = sent /\ landed' = landed
      /\ pc' = [w \in Workers |-> IF Writing(w) THEN "failed" ELSE pc[w]]
      /\ reader' = "idle"
  BY DEF Outage
<1>3. file \in Seq(Cell) /\ Len(file) \in Nat /\ DOMAIN file = 1 .. Len(file)
  BY LenProperties DEF FileInv
<1> DEFINE len == Len(file)
<1> HIDE DEF len
<1>4. n \in 0 .. len /\ len \in Nat
  <2>1. n = 0 \/ n = Len(file) \/ n \in DOMAIN file
    OBVIOUS
  <2>2. len \in Nat
    BY <1>3 DEF len
  <2>3. n = 0 \/ n = len \/ n \in 1 .. len
    BY <1>3, <2>1 DEF len
  <2>4. 0 \in 0 .. len /\ len \in 0 .. len /\ 1 .. len \subseteq 0 .. len
    BY <2>2
  <2> QED BY <2>2, <2>3, <2>4, Zenon
<1>5. ASSUME NEW k \in 1 .. n PROVE file'[k] \in Cell /\ file'[k] \in {Zero, file[k]}
  <2>1. file'[k] = Zero \/ file'[k] = file[k]
    BY <1>1
  <2>2. k \in 1 .. Len(file)
    BY <1>4 DEF len
  <2>3. file[k] \in Cell
    BY <1>3, <2>2, ElementOfSeq
  <2> QED BY <2>1, <2>3, SomeCells
<1>6. file' \in [1 .. n -> Cell]
  <2>1. DOMAIN file' = 1 .. n /\ file' = [k \in 1 .. n |-> file'[k]]
    BY <1>1
  <2> QED BY <1>5, <2>1
<1>7. file' \in Seq(Cell) /\ Len(file') = n
  BY <1>4, <1>6
<1>8. Sealed(file')
  <2>1. SUFFICES ASSUME n >= 2
                 PROVE  file'[2] \in {Zero} \cup {Checksum(Body[m]) : m \in Models}
    BY <1>7 DEF Sealed, HeaderSize
  <2>2. len >= 2 /\ 2 \in 1 .. n
    BY <1>4, <2>1
  <2>3. file[2] \in {Zero} \cup {Checksum(Body[m]) : m \in Models}
    BY <2>2 DEF FileInv, Sealed, HeaderSize, len
  <2>4. file'[2] \in {Zero, file[2]}
    BY <1>5, <2>2
  <2> QED BY <2>3, <2>4
<1>9. Workers' = Workers
  BY <1>2 DEF Workers
<1>10. \A w \in Workers : pc'[w] = "failed" \/ pc'[w] = pc[w]
  BY <1>2
<1>11. pc' \in [Workers -> Places]
  BY <1>2 DEF FileInv, Places
<1> QED BY <1>2, <1>7, <1>8, <1>9, <1>10, <1>11 DEF FileInv

-----------------------------------------------------------------------------
(* The load *)

(* While nobody touches the file, what the verifier has read is what is     *)
(* there; once it is content the file is whole.                             *)
LoadInv ==
  /\ reader = "header" => seen = <<>>
  /\ reader = "body" => seen \in Seq(Cell)
  /\ reader = "body" /\ ~touched =>
       /\ header = SubSeq(file, 1, HeaderSize)
       /\ HeaderSize + Len(seen) <= Len(file)
       /\ seen = SubSeq(file, HeaderSize + 1, HeaderSize + Len(seen))
  /\ reader \in {"open", "mapped", "loaded"} /\ verify /\ ~touched =>
       \E m \in Models : file = WholeFile(m) /\ header[1] = Fields(m)

LEMMA LoadKept ==
  ASSUME LoadInv, UNCHANGED readerVars, touched' \/ (file' = file /\ ~touched)
  PROVE  LoadInv'
BY DEF LoadInv, readerVars

LEMMA ReadHeaderKeeps ==
  ASSUME FileInv, LoadInv, ReadHeader
  PROVE  LoadInv'
<1>1. /\ reader = "header" /\ seen = <<>> /\ seen' = seen /\ file' = file
  BY DEF ReadHeader, ReaderGoto, LoadInv
<1>2. CASE Len(file) < HeaderSize \/ file[1].part # "header"
  <2>1. reader' = "refused"
    BY <1>2 DEF ReadHeader, ReaderGoto
  <2> QED BY <2>1 DEF LoadInv
<1>3. CASE ~(Len(file) < HeaderSize \/ file[1].part # "header")
  <2>1. reader' = "body" /\ header' = SubSeq(file, 1, HeaderSize)
    BY <1>3 DEF ReadHeader, ReaderGoto
  <2>2. seen' \in Seq(Cell) /\ Len(seen') = 0
    BY <1>1, EmptySeq
  <2>3. Len(file) \in Nat /\ HeaderSize = 2 /\ HeaderSize <= Len(file)
    BY <1>3, LenProperties DEF FileInv, HeaderSize
  <2>4. SubSeq(file, 3, 2) = <<>>
    BY SubSeqEmpty
  <2>5. /\ HeaderSize + Len(seen') <= Len(file)
        /\ seen' = SubSeq(file, HeaderSize + 1, HeaderSize + Len(seen'))
    BY <1>1, <2>2, <2>3, <2>4
  <2> QED BY <1>1, <2>1, <2>2, <2>5 DEF LoadInv
<1> QED BY <1>2, <1>3

(* The next cells of the file, as long as there are any. *)
LEMMA ReadMoreKeeps ==
  ASSUME FileInv, LoadInv, ReadBody, HeaderSize + Len(seen) < Len(file)
  PROVE  LoadInv'
<1> DEFINE at == HeaderSize + Len(seen)
           to == Least(at + ReadAhead, Len(file))
           more == SubSeq(file, at + 1, to)
<1>1. /\ reader = "body" /\ reader' = "body" /\ seen' = seen \o more
      /\ file' = file /\ header' = header /\ touched' = touched
  BY DEF ReadBody, ReaderGoto
<1>2. seen \in Seq(Cell) /\ file \in Seq(Cell)
  BY <1>1 DEF LoadInv, FileInv
<1>3. /\ Len(seen) \in Nat /\ Len(file) \in Nat /\ HeaderSize = 2
      /\ ReadAhead \in Nat \ {0}
  BY <1>2, LenProperties, FileAssumption DEF HeaderSize, FileAssumption
<1>4. at \in Nat /\ to \in Nat /\ at < to /\ to <= Len(file) /\ at >= 2
  BY <1>3 DEF Least
<1>5. \A k \in 1 .. Len(file) : file[k] \in Cell
  BY <1>2, ElementOfSeq
<1> HIDE DEF to
<1>6. /\ more \in Seq(Cell)
      /\ Len(more) = IF at + 1 <= to THEN to - (at + 1) + 1 ELSE 0
  <2>1. \A k \in at + 1 .. to : file[k] \in Cell
    BY <1>3, <1>4, <1>5
  <2>2. at + 1 \in Int /\ to \in Int
    BY <1>4
  <2> QED BY <2>1, <2>2, SubSeqProperties
<1> HIDE DEF more
<1>7. Len(more) = to - at
  BY <1>4, <1>6
<1>8. seen' \in Seq(Cell) /\ Len(seen') = Len(seen) + Len(more)
  BY <1>1, <1>2, <1>6, ConcatProperties
<1>9. HeaderSize + Len(seen') = to
  BY <1>3, <1>4, <1>7, <1>8
<1>10. ASSUME ~touched
       PROVE  /\ header' = SubSeq(file, 1, HeaderSize)
              /\ HeaderSize + Len(seen') <= Len(file)
              /\ seen' = SubSeq(file, HeaderSize + 1, HeaderSize + Len(seen'))
  <2>1. header = SubSeq(file, 1, HeaderSize) /\ seen = SubSeq(file, HeaderSize + 1, at)
    BY <1>1, <1>10 DEF LoadInv
  <2>2. 3 \in 1 .. Len(file) + 1 /\ at \in 3 - 1 .. Len(file) /\ to \in at .. Len(file)
    BY <1>3, <1>4
  <2>3. SubSeq(file, HeaderSize + 1, at) \o SubSeq(file, at + 1, to)
          = SubSeq(file, HeaderSize + 1, to)
    <3> HIDE DEF at
    <3>1. SubSeq(file, 3, at) \o SubSeq(file, at + 1, to) = SubSeq(file, 3, to)
      BY <1>2, <2>2, ConcatAdjacentSubSeq
    <3>2. HeaderSize + 1 = 3
      BY DEF HeaderSize
    <3> QED BY <3>1, <3>2, Zenon
  <2> QED BY <1>1, <1>4, <1>9, <2>1, <2>3 DEF more
<1> QED BY <1>1, <1>8, <1>10 DEF LoadInv

(* At the end of the file the verifier decides. *)
LEMMA ReadEndKeeps ==
  ASSUME FileInv, LoadInv, ReadBody, ~(HeaderSize + Len(seen) < Len(file))
  PROVE  LoadInv'
<1>1. /\ reader = "body" /\ seen' = seen /\ file' = file /\ header' = header
      /\ touched' = touched
      /\ reader' = IF Verifies(header, seen) THEN "open" ELSE "refused"
  BY DEF ReadBody, ReaderGoto
<1>2. CASE ~Verifies(header, seen)
  BY <1>1, <1>2 DEF LoadInv
<1>3. CASE Verifies(header, seen) /\ touched
  BY <1>1, <1>3 DEF LoadInv
<1>4. CASE Verifies(header, seen) /\ ~touched
  <2>1. /\ header = SubSeq(file, 1, HeaderSize)
        /\ HeaderSize + Len(seen) <= Len(file)
        /\ seen = SubSeq(file, HeaderSize + 1, HeaderSize + Len(seen))
        /\ seen \in Seq(Cell)
    BY <1>1, <1>4 DEF LoadInv
  <2>2. file \in Seq(Cell) /\ Sealed(file) /\ Len(file) \in Nat /\ Len(seen) \in Nat
        /\ HeaderSize = 2
    BY <2>1, LenProperties DEF FileInv, HeaderSize
  <2>3. HeaderSize + Len(seen) = Len(file) /\ Len(file) >= HeaderSize
    BY <2>1, <2>2
  <2>4. Verifies(SubSeq(file, 1, HeaderSize), SubSeq(file, HeaderSize + 1, Len(file)))
    BY <1>4, <2>1, <2>3
  <2>5. PICK m \in Models : file = WholeFile(m) /\ file[1] = Fields(m)
    BY <2>2, <2>3, <2>4, VerifiedIsWhole
  <2>6. header[1] = file[1]
    BY <2>1, <2>2, <2>3, Split
  <2>7. reader' = "open"
    BY <1>1, <1>4
  <2> QED BY <1>1, <2>5, <2>6, <2>7 DEF LoadInv
<1> QED BY <1>2, <1>3, <1>4

LEMMA LoadKeeps ==
  ASSUME FileInv, LoadInv, Load
  PROVE  FileInv' /\ LoadInv'
<1>1. FileInv'
  <2>1. UNCHANGED <<file, writerVars>>
    BY DEF Load, BeginLoad, ReadHeader, ReadBody, OpenMapping, Validate, ReaderGoto
  <2> QED BY <2>1, NothingWritten
<1> SUFFICES LoadInv'
  BY <1>1
<1>2. CASE BeginLoad
  <2>1. CASE verify'
    BY <1>2, <2>1 DEF BeginLoad, ReaderGoto, LoadInv
  <2>2. CASE ~verify'
    BY <1>2, <2>2 DEF BeginLoad, ReaderGoto, LoadInv
  <2> QED BY <2>1, <2>2
<1>3. CASE ReadHeader
  BY <1>3, ReadHeaderKeeps
<1>4. CASE ReadBody
  BY <1>4, ReadMoreKeeps, ReadEndKeeps
<1>5. CASE OpenMapping
  BY <1>5 DEF OpenMapping, ReaderGoto, LoadInv
<1>6. CASE Validate
  BY <1>6 DEF Validate, ReaderGoto, LoadInv
<1> QED BY <1>1, <1>2, <1>3, <1>4, <1>5, <1>6 DEF Load

-----------------------------------------------------------------------------

LEMMA InvInit == Init => FileInv /\ LoadInv
<1> SUFFICES ASSUME Init PROVE FileInv /\ LoadInv
  OBVIOUS
<1>1. <<>> \in Seq(Cell) /\ Len(<<>>) = 0
  BY EmptySeq
<1>2. Sealed(<<>>)
  BY <1>1 DEF Sealed, HeaderSize
<1> QED BY <1>1, <1>2, SectionNames DEF Init, FileInv, Places, LoadInv

LEMMA ConvertKeeps ==
  ASSUME FileInv, LoadInv, PayloadInPlace, PayloadInPlace', NEW w \in Workers, Convert(w)
  PROVE  FileInv' /\ LoadInv'
<1>1. FileInv' /\ (touched' \/ FileStep)
  <2>1. CASE OpenFile(w)
    BY <2>1, OpenKeeps
  <2>2. CASE WriteHeader(w)
    BY <2>2, HeaderKeeps
  <2>3. CASE WriteSection(w)
    BY <2>3, SectionKeeps
  <2>4. CASE StreamChunk(w) \/ StreamRows(w)
    BY <2>4, StreamKeeps
  <2>5. CASE StreamEnd(w)
    BY <2>5, StreamEndKeeps
  <2>6. CASE StreamRaises(w) \/ CloseFile(w) \/ Die(w)
    BY <2>6, FlushKeeps
  <2>7. CASE PatchChecksum(w)
    BY <2>7, PatchKeeps
  <2> QED BY <2>1, <2>2, <2>3, <2>4, <2>5, <2>6, <2>7 DEF Convert
<1>2. touched' \/ (file' = file /\ ~touched)
  BY <1>1 DEF FileStep
<1>3. UNCHANGED readerVars
  BY DEF Convert, OpenFile, WriteHeader, WriteSection, StreamChunk, StreamRows, Yields,
         StreamEnd, StreamRaises, CloseFile, PatchChecksum, Die
<1> QED BY <1>1, <1>2, <1>3, LoadKept

LEMMA InvNext ==
  ASSUME FileInv, LoadInv, PayloadInPlace, PayloadInPlace', [Next]_vars
  PROVE  FileInv' /\ LoadInv'
<1>1. CASE \E w \in Workers : Convert(w)
  BY <1>1, ConvertKeeps
<1>2. CASE Outage
  BY <1>2, OutageKeeps DEF LoadInv
<1>3. CASE Load
  BY <1>3, LoadKeeps
<1>4. CASE UNCHANGED vars
  <2>1. FileInv'
    BY <1>4, NothingWritten DEF vars
  <2>2. LoadInv'
    BY <1>4 DEF vars, readerVars, historyVars, LoadInv
  <2> QED BY <2>1, <2>2
<1> QED BY <1>1, <1>2, <1>3, <1>4 DEF Next

LEMMA InvWhole == LoadInv => VerifiedLoadIsWhole
<1> SUFFICES ASSUME LoadInv, reader = "loaded", verify, ~touched
             PROVE  file = WholeFile(header[1].model)
  BY DEF VerifiedLoadIsWhole
<1>1. PICK m \in Models : file = WholeFile(m) /\ header[1] = Fields(m)
  BY DEF LoadInv
<1> QED BY <1>1 DEF Fields

-----------------------------------------------------------------------------
(* Whose file it is *)

(* What the converter that truncated the file last has in it, unless        *)
(* somebody else may have written to it since: what has left its buffer, or *)
(* the whole file once it has patched the checksum.                         *)
Left(w) ==
  IF pc[w] = "finished" THEN WholeFile(Model(w)) ELSE First(Model(w), landed[w])

OwnerInv ==
  /\ last \in Workers \cup {Nobody}
  /\ last \notin Workers => file = <<>> /\ \A w \in Workers : pc[w] = "start"
  /\ \A w \in Workers :
       /\ landed[w] \in Nat /\ landed[w] <= Len(sent[w])
       /\ pc[w] = "start" => landed[w] = 0
       /\ pc[w] = "patch" => landed[w] = FileSize(Model(w))
       /\ last = w /\ ~mixed => \A v \in Workers \ {w} : ~Writing(v)
       /\ last = w /\ ~mixed /\ ~wiped => file = Left(w)

(* Cells that leave the buffer go where the file ends. *)
LEMMA PlacedBehind ==
  ASSUME NEW m \in Models, NEW a \in Nat, NEW n \in Nat, NEW k \in Nat,
         a <= n, n <= k, k <= FileSize(m)
  PROVE  Placed(First(m, a), a, SubSeq(First(m, k), a + 1, n)) = First(m, n)
<1> DEFINE new == SubSeq(First(m, k), a + 1, n)
           old == First(m, a)
<1>1. new = Between(Body[m], a, n)
  <2> DEFINE F == Body[m]
             x == a + 1
  <2>1. 0 \in Nat /\ 0 <= k /\ x \in Nat /\ 1 <= x /\ x <= n + 1 /\ 0 + n <= k
    OBVIOUS
  <2>2. 0 + x - 1 = a /\ 0 + n = n
    OBVIOUS
  <2> HIDE DEF x, F
  <2>3. Part(Between(F, 0, k), x, n) = Between(F, 0 + x - 1, 0 + n)
    BY <2>1, PartOfBetween
  <2>4. Part(Between(F, 0, k), x, n) = Between(F, a, n)
    BY <2>2, <2>3
  <2> QED BY <2>4 DEF Part, First, x, F
<1>2. a <= FileSize(m) /\ n <= FileSize(m) /\ FileSize(m) \in Nat
  BY FileSizeBounds
<1>3. old = [j \in 1 .. a |-> Body[m][j]] /\ First(m, n) = [j \in 1 .. n |-> Body[m][j]]
  <2>1. a - 0 = a /\ n - 0 = n /\ \A j \in Nat : 0 + j = j
    OBVIOUS
  <2>2. \A b \in Nat : First(m, b) = [j \in 1 .. b |-> Body[m][j]]
    <3> TAKE b \in Nat
    <3>1. Between(Body[m], 0, b) = [j \in 1 .. b - 0 |-> Body[m][0 + j]]
      BY DEF Between
    <3>2. b - 0 = b /\ \A j \in 1 .. b : 0 + j = j
      OBVIOUS
    <3> QED BY <3>1, <3>2 DEF First
  <2> QED BY <2>2
<1>4. new = [j \in 1 .. n - a |-> Body[m][a + j]]
  BY <1>1 DEF Between
<1> HIDE DEF new, old
<1>5. CASE a = n
  <2>1. new = <<>>
    BY <1>4, <1>5
  <2> QED BY <1>3, <1>5, <2>1 DEF Placed, new, old
<1>6. CASE a # n
  <2>1. n - a \in Nat \ {0}
    BY <1>6
  <2>2. \A j \in 1 .. FileSize(m) : Body[m][j] \in Cell
    BY BodyShape, ElementOfSeq
  <2>3. new \in Seq(Cell) /\ Len(new) = n - a
    <3>1. \A j \in 1 .. n - a : a + j \in 1 .. FileSize(m)
      BY <1>2
    <3>2. \A j \in 1 .. n - a : Body[m][a + j] \in Cell
      BY <2>2, <3>1
    <3>3. new \in [1 .. n - a -> Cell]
      BY <1>4, <3>2
    <3> QED BY <2>1, <3>3, LenProperties
  <2>4. old \in Seq(Cell) /\ Len(old) = a
    <3>1. \A j \in 1 .. a : j \in 1 .. FileSize(m)
      BY <1>2
    <3>2. old \in [1 .. a -> Cell]
      BY <1>3, <2>2, <3>1
    <3> QED BY <3>2, LenProperties
  <2>5. new # <<>> /\ DOMAIN new = 1 .. n - a /\ DOMAIN old = 1 .. a
    BY <1>3, <1>4, <2>1, <2>3, LenProperties, EmptySeq
  <2>6. a + Len(new) = n /\ n > Len(old)
    BY <1>6, <2>3, <2>4
  <2>7. Placed(old, a, new)
          = [j \in 1 .. n |-> IF j - a \in DOMAIN new THEN new[j - a]
                              ELSE IF j \in DOMAIN old THEN old[j] ELSE Zero]
    BY <2>5, <2>6 DEF Placed
  <2>8. ASSUME NEW j \in 1 .. n
        PROVE  Body[m][j] = IF j - a \in DOMAIN new THEN new[j - a]
                            ELSE IF j \in DOMAIN old THEN old[j] ELSE Zero
    <3>1. CASE j <= a
      <4>1. j \in 1 .. a /\ j - a \notin 1 .. n - a
        BY <3>1
      <4> QED BY <1>3, <2>5, <4>1
    <3>2. CASE ~(j <= a)
      <4> DEFINE i == j - a
      <4>1. i \in 1 .. n - a /\ a + i = j
        BY <3>2
      <4> HIDE DEF i
      <4>2. new[i] = Body[m][j]
        BY <1>4, <4>1
      <4> QED BY <2>5, <4>1, <4>2 DEF i
    <3> QED BY <3>1, <3>2
  <2> QED BY <1>3, <2>7, <2>8 DEF new, old
<1> QED BY <1>5, <1>6

LEMMA LandPlaces ==
  ASSUME FileInv, OwnerInv, NEW w \in Workers, NEW k \in Nat, NEW n \in Nat,
         k <= FileSize(Model(w)), landed[w] <= n, n <= k, Land(w, n, First(Model(w), k))
  PROVE  /\ landed' = [landed EXCEPT ![w] = n]
         /\ file = First(Model(w), landed[w]) => file' = First(Model(w), n)
<1> DEFINE a == landed[w]
<1>1. a \in Nat /\ Model(w) \in Models
  BY ModelOfWorker DEF FileInv
<1>2. /\ file' = Placed(file, a, SubSeq(First(Model(w), k), a + 1, n))
      /\ landed' = [landed EXCEPT ![w] = n]
  BY DEF Land
<1> HIDE DEF a
<1>3. a <= n
  BY DEF a
<1>4. Placed(First(Model(w), a), a, SubSeq(First(Model(w), k), a + 1, n))
        = First(Model(w), n)
  BY <1>1, <1>3, PlacedBehind
<1> QED BY <1>2, <1>4 DEF a

(* A step of a converter that has the file open, or is about to patch it. *)
LEMMA OneOwns ==
  ASSUME OwnerInv, NEW w \in Workers, Writing(w), plan' = plan,
         last' = last, mixed' = mixed, wiped' = wiped,
         \A v \in Workers \ {w} : /\ pc'[v] = pc[v] /\ sent'[v] = sent[v]
                                  /\ landed'[v] = landed[v],
         landed'[w] \in Nat, landed'[w] <= Len(sent'[w]), pc'[w] # "start",
         pc'[w] = "patch" => landed'[w] = FileSize(Model(w)),
         file = First(Model(w), landed[w]) =>
           file' = IF pc'[w] = "finished" THEN WholeFile(Model(w))
                   ELSE First(Model(w), landed'[w])
  PROVE  OwnerInv'
<1>1. Workers' = Workers /\ \A v \in Workers : Model(v)' = Model(v)
  BY DEF Workers, Model
<1>2. last \in Workers
  BY DEF OwnerInv, Writing
<1>3. \A v \in Workers \ {w} : Writing(v)' = Writing(v)
  BY DEF Writing
<1>4. ASSUME NEW v \in Workers
      PROVE  /\ landed'[v] \in Nat /\ landed'[v] <= Len(sent'[v])
             /\ pc'[v] = "start" => landed'[v] = 0
             /\ pc'[v] = "patch" => landed'[v] = FileSize(Model(v))
  BY DEF OwnerInv
<1>5. ASSUME NEW v \in Workers, last = v, ~mixed
      PROVE  \A u \in Workers \ {v} : ~Writing(u)'
  <2>1. v = w
    BY <1>5 DEF OwnerInv
  <2> QED BY <1>3, <1>5, <2>1 DEF OwnerInv
<1>6. ASSUME NEW v \in Workers, last = v, ~mixed, ~wiped
      PROVE  file' = IF pc'[v] = "finished" THEN WholeFile(Model(v))
                     ELSE First(Model(v), landed'[v])
  <2>1. v = w
    BY <1>6 DEF OwnerInv
  <2>2. file = First(Model(w), landed[w])
    BY <1>6, <2>1 DEF OwnerInv, Left, Writing
  <2> QED BY <2>1, <2>2
<1>7. ASSUME NEW v \in Workers
      PROVE  Left(v)' = IF pc'[v] = "finished" THEN WholeFile(Model(v))
                        ELSE First(Model(v), landed'[v])
  BY <1>1 DEF Left
<1> QED BY <1>1, <1>2, <1>4, <1>5, <1>6, <1>7 DEF OwnerInv

(* write_chunk by a converter whose next piece is due. *)
LEMMA ChunkOwns ==
  ASSUME FileInv, SentInv, SentInv', OwnerInv, NEW w \in Workers, Writing(w), NEW cells,
         WriteChunk(w, cells), Len(sent[w]) <= Len(sent'[w]), plan' = plan,
         last' = last, mixed' = mixed, wiped' = wiped,
         \A v \in Workers \ {w} : pc'[v] = pc[v],
         pc'[w] \notin {"start", "patch", "finished"}
  PROVE  OwnerInv'
<1> DEFINE m == Model(w)
           all == sent'[w]
           k == Len(all)
<1>1. sent' = [sent EXCEPT ![w] = sent[w] \o cells] /\ DOMAIN sent = Workers
  BY DEF WriteChunk, FileInv
<1>2. PICK n \in {landed[w], Len(sent[w] \o cells)} : Land(w, n, sent[w] \o cells)
  BY DEF WriteChunk
<1>3. all = sent[w] \o cells
  BY <1>1
<1>4. n \in {landed[w], k} /\ Land(w, n, all)
  BY <1>2, <1>3
<1>5. Workers' = Workers /\ Model(w)' = m
  BY DEF Workers, Model
<1>6. k \in Nat /\ k <= FileSize(m) /\ all = First(m, k)
  <2>1. Written(Model(w), pc[w], section[w], stream[w], sent[w])'
    BY <1>5 DEF SentInv
  <2>2. Written(m, pc'[w], section'[w], stream'[w], all)
    BY <1>5, <2>1
  <2> QED BY <2>2 DEF Written
<1>7. landed[w] \in Nat /\ landed[w] <= Len(sent[w]) /\ Len(sent[w]) \in Nat
  BY WriterFacts DEF OwnerInv, Written
<1> HIDE DEF k, all
<1>8. n \in Nat /\ landed[w] <= n /\ n <= k
  BY <1>4, <1>6, <1>7 DEF k, all
<1>9. Land(w, n, First(m, k))
  BY <1>4, <1>6
<1>10. landed' = [landed EXCEPT ![w] = n]
       /\ (file = First(m, landed[w]) => file' = First(m, n))
  BY <1>6, <1>8, <1>9, LandPlaces
<1>11. /\ landed'[w] = n /\ \A v \in Workers \ {w} : landed'[v] = landed[v]
       /\ \A v \in Workers \ {w} : sent'[v] = sent[v]
  BY <1>1, <1>10 DEF FileInv
<1> HIDE DEF m
<1>12. n <= Len(sent'[w])
  BY <1>8 DEF k, all
<1> QED BY <1>8, <1>10, <1>11, <1>12, OneOwns DEF m

(* What a converter that stops or closes lets out of its buffer. *)
LEMMA FlushOwns ==
  ASSUME FileInv, SentInv, OwnerInv, NEW w \in Workers,
         StreamRaises(w) \/ CloseFile(w) \/ Die(w)
  PROVE  OwnerInv'
<1> DEFINE m == Model(w)
           all == sent[w]
           k == Len(all)
<1>1. k \in Nat /\ k <= FileSize(m) /\ all = First(m, k)
      /\ (pc[w] = "close" => k = Gap(m, section[w]))
  BY WriterFacts DEF Written
<1>2. landed[w] \in Nat /\ landed[w] <= k
  BY DEF OwnerInv
<1>3. PICK n \in landed[w] .. k : Land(w, n, all) /\ (CloseFile(w) => n = k)
  <2>1. CASE StreamRaises(w) \/ CloseFile(w)
    BY <1>1, <1>2, <2>1 DEF StreamRaises, CloseFile
  <2>2. CASE Die(w)
    <3>1. PICK n \in landed[w] .. k : Land(w, n, all)
      BY <2>2 DEF Die
    <3>2. ~CloseFile(w)
      BY <2>2 DEF Die, CloseFile, Goto, FileInv
    <3> QED BY <3>1, <3>2
  <2> QED BY <2>1, <2>2
<1>4. /\ plan' = plan /\ sent' = sent /\ last' = last /\ mixed' = mixed /\ wiped' = wiped
      /\ Writing(w) /\ DOMAIN pc = Workers
      /\ \/ pc' = [pc EXCEPT ![w] = "failed"]
         \/ pc' = [pc EXCEPT ![w] = "patch"] /\ CloseFile(w)
  BY WriterFacts DEF StreamRaises, CloseFile, Die, Goto, Writing
<1>5. pc'[w] = "patch" => n = FileSize(m)
  <2>1. SUFFICES ASSUME pc'[w] = "patch" PROVE n = FileSize(m)
    OBVIOUS
  <2>2. CloseFile(w)
    BY <1>4, <2>1
  <2>3. pc[w] = "close" /\ section[w] = 8 /\ m \in Models
    BY <2>2, WriterFacts DEF CloseFile, FileInv
  <2>4. Gap(m, 8) = FileSize(m)
    <3>1. Gap(m, 7 + 1) = Ends(m, 7)
      BY <2>3, NextGap
    <3> QED BY <2>3, <3>1, FileSizeBounds
  <2> QED BY <1>1, <1>3, <2>2, <2>3, <2>4
<1> HIDE DEF k, all
<1>6. n \in Nat /\ landed[w] <= n /\ n <= k
  BY <1>1, <1>2, <1>3
<1>7. Land(w, n, First(m, k))
  BY <1>1, <1>3
<1>8. landed' = [landed EXCEPT ![w] = n]
      /\ (file = First(m, landed[w]) => file' = First(m, n))
  BY <1>1, <1>6, <1>7, LandPlaces
<1>9. /\ landed'[w] = n /\ \A v \in Workers \ {w} : landed'[v] = landed[v]
      /\ \A v \in Workers \ {w} : sent'[v] = sent[v] /\ pc'[v] = pc[v]
      /\ pc'[w] \in {"failed", "patch"}
  BY <1>4, <1>8 DEF FileInv
<1> HIDE DEF m
<1>10. n <= Len(sent'[w])
  BY <1>4, <1>6 DEF k, all
<1> QED BY <1>4, <1>5, <1>6, <1>8, <1>9, <1>10, OneOwns DEF m

LEMMA OpenOwns ==
  ASSUME FileInv, OwnerInv, NEW w \in Workers, OpenFile(w)
  PROVE  OwnerInv'
<1>1. /\ pc[w] = "start" /\ pc' = [pc EXCEPT ![w] = "header"] /\ file' = <<>>
      /\ plan' = plan /\ sent' = sent /\ landed' = landed /\ last' = w
      /\ mixed' = (\E v \in Workers \ {w} : Writing(v)) /\ ~wiped'
      /\ DOMAIN pc = Workers
  BY DEF OpenFile, Goto, FileInv
<1>2. Workers' = Workers /\ \A v \in Workers : Model(v)' = Model(v)
  BY <1>1 DEF Workers, Model
<1>3. \A v \in Workers \ {w} : Writing(v)' = Writing(v)
  BY <1>1 DEF Writing
<1>4. landed[w] = 0 /\ pc'[w] = "header" /\ \A v \in Workers \ {w} : pc'[v] = pc[v]
  BY <1>1 DEF OwnerInv
<1>5. Left(w)' = <<>>
  <2>1. First(Model(w), 0) = <<>>
    BY NothingBetween DEF First
  <2> QED BY <1>1, <1>2, <1>4, <2>1 DEF Left
<1> QED BY <1>1, <1>2, <1>3, <1>4, <1>5 DEF OwnerInv

(* Its checksum makes the file whole. *)
LEMMA PlacedChecksum ==
  ASSUME NEW m \in Models, NEW c \in Cell
  PROVE  Placed(First(m, FileSize(m)), 1, <<c>>) = [Body[m] EXCEPT ![2] = c]
<1> DEFINE n == FileSize(m)
           old == First(m, n)
           new == <<c>>
<1>1. n \in Nat /\ n >= 2
  BY FileSizeBounds DEF HeaderSize
<1>2. Body[m] \in Seq(Cell) /\ Len(Body[m]) = n
  BY BodyShape
<1>3. DOMAIN Body[m] = 1 .. n
  BY <1>2, LenProperties
<1>4. old = Body[m]
  <2>1. n <= n
    BY <1>1
  <2>2. Part(Body[m], 1, n) = old
    BY <1>1, <2>1, Prefix
  <2>3. SubSeq(Body[m], 1, Len(Body[m])) = Body[m]
    BY <1>2, SubSeqFull
  <2> QED BY <1>2, <2>2, <2>3 DEF Part
<1>5. new \in Seq(Cell) /\ Len(new) = 1 /\ new[1] = c /\ DOMAIN new = {1}
  OBVIOUS
<1>6. new # <<>> /\ ~(1 + Len(new) > Len(old)) /\ Len(old) = n
  BY <1>1, <1>2, <1>4, <1>5
<1> HIDE DEF n, old, new
<1>7. Placed(old, 1, new)
        = [j \in 1 .. n |-> IF j - 1 \in DOMAIN new THEN new[j - 1]
                            ELSE IF j \in DOMAIN old THEN old[j] ELSE Zero]
  BY <1>6 DEF Placed
<1>8. [Body[m] EXCEPT ![2] = c] = [j \in 1 .. n |-> IF j = 2 THEN c ELSE Body[m][j]]
  BY <1>3
<1>9. ASSUME NEW j \in 1 .. n
      PROVE  (IF j - 1 \in DOMAIN new THEN new[j - 1]
              ELSE IF j \in DOMAIN old THEN old[j] ELSE Zero)
             = IF j = 2 THEN c ELSE Body[m][j]
  BY <1>1, <1>3, <1>4, <1>5
<1> QED BY <1>7, <1>8, <1>9 DEF n, old, new

LEMMA PatchOwns ==
  ASSUME FileInv, SentInv, OwnerInv, PayloadInPlace, NEW w \in Workers, PatchChecksum(w)
  PROVE  OwnerInv'
<1> DEFINE c == Checksum(Body[Model(w)])
<1>1. /\ pc[w] = "patch" /\ pc' = [pc EXCEPT ![w] = "finished"]
      /\ file' = Placed(file, 1, <<Checksum(sent[w])>>)
      /\ plan' = plan /\ sent' = sent /\ landed' = landed
      /\ last' = last /\ mixed' = mixed /\ wiped' = wiped /\ DOMAIN pc = Workers
  BY DEF PatchChecksum, Goto, HeaderSize, FileInv
<1>2. Model(w) \in Models /\ c \in Cell
  BY ModelOfWorker, SomeCells DEF FileInv
<1>3. file' = Placed(file, 1, <<c>>)
  BY <1>1, AllSent
<1>4. landed[w] = FileSize(Model(w))
  BY <1>1 DEF OwnerInv
<1>5. Placed(First(Model(w), FileSize(Model(w))), 1, <<c>>) = WholeFile(Model(w))
  <2>1. WholeFile(Model(w)) = [Body[Model(w)] EXCEPT ![2] = c]
    BY DEF WholeFile, HeaderSize
  <2> HIDE DEF c
  <2> QED BY <1>2, <2>1, PlacedChecksum
<1>6. file = First(Model(w), landed[w]) => file' = WholeFile(Model(w))
  BY <1>3, <1>4, <1>5
<1>7. Writing(w) /\ pc'[w] = "finished" /\ \A v \in Workers \ {w} : pc'[v] = pc[v]
  BY <1>1 DEF Writing
<1>8. landed'[w] \in Nat /\ landed'[w] <= Len(sent'[w])
  BY <1>1 DEF OwnerInv
<1> QED BY <1>1, <1>6, <1>7, <1>8, OneOwns

LEMMA StreamEndOwns ==
  ASSUME FileInv, OwnerInv, NEW w \in Workers, StreamEnd(w)
  PROVE  OwnerInv'
<1> DEFINE where == IF section[w] = Len(Sections) THEN "close" ELSE "section"
<1>1. /\ pc[w] = "stream" /\ pc' = [pc EXCEPT ![w] = where] /\ file' = file
      /\ plan' = plan /\ sent' = sent /\ landed' = landed
      /\ last' = last /\ mixed' = mixed /\ wiped' = wiped /\ DOMAIN pc = Workers
  BY DEF StreamEnd, NextSection, Goto, historyVars, FileInv
<1>2. Writing(w) /\ pc'[w] \in {"close", "section"}
      /\ \A v \in Workers \ {w} : pc'[v] = pc[v]
  BY <1>1 DEF Writing
<1>3. landed'[w] \in Nat /\ landed'[w] <= Len(sent'[w])
  BY <1>1 DEF OwnerInv
<1> QED BY <1>1, <1>2, <1>3, OneOwns

(* The steps that write a chunk. *)
LEMMA WriteOwns ==
  ASSUME FileInv, SentInv, OwnerInv, NEW w \in Workers,
         WriteHeader(w) \/ WriteSection(w) \/ StreamChunk(w) \/ StreamRows(w)
  PROVE  OwnerInv'
<1>1. SentInv' /\ Len(sent[w]) <= Len(sent'[w])
  BY HeaderWrites, SectionWrites, StreamWrites
<1>2. /\ plan' = plan /\ last' = last /\ mixed' = mixed /\ wiped' = wiped
      /\ Writing(w) /\ DOMAIN pc = Workers
  BY WriterFacts DEF WriteHeader, WriteSection, StreamChunk, StreamRows, Yields, Writing
<1>3. PICK cells : WriteChunk(w, cells)
  BY DEF WriteHeader, WriteSection, StreamChunk, StreamRows, Yields
<1>4. \E where \in {"section", "stream", "close"} : pc' = [pc EXCEPT ![w] = where]
  <2>1. CASE WriteHeader(w)
    BY <2>1 DEF WriteHeader, Goto
  <2>2. CASE WriteSection(w)
    BY <2>2 DEF WriteSection, NextSection, Goto
  <2>3. CASE StreamChunk(w) \/ StreamRows(w)
    <3>1. pc' = pc /\ pc[w] = "stream"
      BY <2>3 DEF StreamChunk, StreamRows, Yields
    <3>2. pc' = [pc EXCEPT ![w] = "stream"]
      BY <3>1 DEF FileInv
    <3> QED BY <3>2
  <2> QED BY <2>1, <2>2, <2>3
<1>5. pc'[w] \notin {"start", "patch", "finished"} /\ \A v \in Workers \ {w} : pc'[v] = pc[v]
  BY <1>2, <1>4
<1> QED BY <1>1, <1>2, <1>3, <1>5, ChunkOwns

LEMMA OutageOwns ==
  ASSUME FileInv, OwnerInv, Outage
  PROVE  OwnerInv'
<1>1. /\ plan' = plan /\ sent' = sent /\ landed' = landed /\ last' = last
      /\ mixed' = mixed /\ wiped' /\ file # <<>>
      /\ pc' = [w \in Workers |-> IF Writing(w) THEN "failed" ELSE pc[w]]
  BY DEF Outage
<1>2. Workers' = Workers /\ \A v \in Workers : Model(v)' = Model(v)
  BY <1>1 DEF Workers, Model
<1>3. \A w \in Workers : pc'[w] = "failed" \/ (pc'[w] = pc[w] /\ ~Writing(w))
  BY <1>1
<1>4. \A w \in Workers : ~Writing(w)'
  BY <1>3 DEF Writing
<1>5. last \in Workers
  BY <1>1 DEF OwnerInv
<1>6. \A w \in Workers : pc'[w] # "patch" /\ (pc'[w] = "start" => pc[w] = "start")
  BY <1>3 DEF Writing
<1> QED BY <1>1, <1>2, <1>4, <1>5, <1>6 DEF OwnerInv

LEMMA NothingOwned ==
  ASSUME OwnerInv, UNCHANGED <<file, writerVars, last, mixed, wiped>>
  PROVE  OwnerInv'
<1>1. Workers' = Workers /\ \A v \in Workers : Model(v)' = Model(v)
  BY DEF Workers, Model, writerVars
<1>2. /\ pc' = pc /\ sent' = sent /\ landed' = landed /\ file' = file
      /\ last' = last /\ mixed' = mixed /\ wiped' = wiped
  BY DEF writerVars
<1>3. \A w \in Workers : Writing(w)' = Writing(w) /\ Left(w)' = Left(w)
  BY <1>1, <1>2 DEF Writing, Left
<1> QED BY <1>1, <1>2, <1>3 DEF OwnerInv

LEMMA InitOwns == Init => OwnerInv
<1> SUFFICES ASSUME Init PROVE OwnerInv
  OBVIOUS
<1>1. /\ file = <<>> /\ last = Nobody /\ plan \in Plans
      /\ \A w \in Workers : pc[w] = "start" /\ landed[w] = 0 /\ sent[w] = <<>>
  BY DEF Init
<1>2. \A w \in Workers : ~Writing(w) /\ Left(w) = <<>>
  <2> TAKE w \in Workers
  <2>1. First(Model(w), 0) = <<>>
    BY NothingBetween DEF First
  <2> QED BY <1>1, <2>1 DEF Writing, Left
<1>3. Len(<<>>) = 0
  BY EmptySeq
<1> QED BY <1>1, <1>2, <1>3 DEF OwnerInv

LEMMA OwnerKept ==
  ASSUME FileInv, SentInv, OwnerInv, PayloadInPlace, [Next]_vars
  PROVE  OwnerInv'
<1>1. ASSUME NEW w \in Workers, Convert(w) PROVE OwnerInv'
  BY <1>1, OpenOwns, WriteOwns, StreamEndOwns, FlushOwns, PatchOwns DEF Convert
<1>2. CASE Load
  <2>1. UNCHANGED <<file, writerVars, last, mixed, wiped>>
    BY <1>2 DEF Load, BeginLoad, ReadHeader, ReadBody, OpenMapping, Validate, ReaderGoto
  <2> QED BY <2>1, NothingOwned
<1>3. CASE UNCHANGED vars
  BY <1>3, NothingOwned DEF vars, historyVars
<1> QED BY <1>1, <1>2, <1>3, OutageOwns DEF Next

-----------------------------------------------------------------------------
(* What is left of a conversion *)

LEMMA WholeBody ==
  ASSUME NEW m \in Models
  PROVE  First(m, FileSize(m)) = Body[m]
<1> DEFINE n == FileSize(m)
<1>1. n \in Nat /\ n <= n
  BY FileSizeBounds
<1>2. Body[m] \in Seq(Cell) /\ Len(Body[m]) = n
  BY BodyShape
<1>3. Part(Body[m], 1, n) = First(m, n)
  BY <1>1, Prefix
<1>4. SubSeq(Body[m], 1, Len(Body[m])) = Body[m]
  BY <1>2, SubSeqFull
<1> QED BY <1>2, <1>3, <1>4 DEF Part

LEMMA ZeroedBody ==
  ASSUME NEW m \in Models
  PROVE  /\ Zeroed(Body[m]) = Body[m]
         /\ Zeroed(WholeFile(m)) = Body[m]
         /\ WholeFile(m)[1] = Fields(m) /\ WholeFile(m)[2] = Checksum(Body[m])
         /\ WholeFile(m) \in Seq(Cell) /\ Len(WholeFile(m)) = FileSize(m)
<1> DEFINE n == FileSize(m)
           c == Checksum(Body[m])
           whole == WholeFile(m)
<1>1. n \in Nat /\ n >= 2 /\ HeaderSize = 2
  BY FileSizeBounds DEF HeaderSize
<1>2. /\ Body[m] \in Seq(Cell) /\ Len(Body[m]) = n
      /\ Body[m][1] = Fields(m) /\ Body[m][2] = Zero
  BY <1>1, BodyShape
<1>3. DOMAIN Body[m] = 1 .. n /\ Body[m] = [k \in 1 .. n |-> Body[m][k]]
  BY <1>2, LenProperties
<1>4. whole = [Body[m] EXCEPT ![2] = c]
  BY <1>1 DEF WholeFile
<1>5. whole \in Seq(Cell) /\ Len(whole) = n
  BY <1>1, <1>2, <1>4, SomeCells, ExceptSeq
<1> HIDE DEF n, c, whole
<1>6. DOMAIN whole = 1 .. n /\ whole[2] = c /\ \A k \in 1 .. n : k # 2 => whole[k] = Body[m][k]
  BY <1>1, <1>3, <1>4
<1>7. Zeroed(Body[m]) = [k \in 1 .. n |-> IF k = 2 THEN Zero ELSE Body[m][k]]
  BY <1>1, <1>3 DEF Zeroed
<1>8. Zeroed(whole) = [k \in 1 .. n |-> IF k = 2 THEN Zero ELSE whole[k]]
  BY <1>1, <1>6 DEF Zeroed
<1>9. \A k \in 1 .. n : /\ (IF k = 2 THEN Zero ELSE Body[m][k]) = Body[m][k]
                        /\ (IF k = 2 THEN Zero ELSE whole[k]) = Body[m][k]
  BY <1>2, <1>6
<1>10. Zeroed(Body[m]) = Body[m]
  BY <1>3, <1>7, <1>9
<1>11. Zeroed(whole) = Body[m]
  BY <1>3, <1>8, <1>9
<1>12. whole[1] = Fields(m)
  BY <1>1, <1>2, <1>6
<1> QED BY <1>5, <1>6, <1>10, <1>11, <1>12 DEF n, c, whole

(* What section_ok asks of the last section asks for the end of the file. *)
LEMMA AcceptedIsComplete ==
  ASSUME NEW m \in Models, NEW n \in Nat, n <= FileSize(m), Accepts(First(m, n))
  PROVE  n = FileSize(m)
<1> DEFINE f == First(m, n)
           off == Offsets[m][7]
           size == Size(m, Sections[7])
<1>1. Len(f) = n
  <2>1. n <= n
    OBVIOUS
  <2> QED BY <2>1, Extended
<1>2. n >= 2 /\ 1 \in 1 .. n
  BY <1>1 DEF Accepts, HeaderSize
<1>3. f[1] = Fields(m)
  <2>1. 1 \in 1 .. n - 0 /\ 0 + 1 = 1
    BY <1>2
  <2>2. Between(Body[m], 0, n)[1] = Body[m][0 + 1]
    BY <2>1 DEF Between
  <2> QED BY <2>1, <2>2, BodyShape DEF First
<1>4. f[1].model = m
  BY <1>3 DEF Fields
<1> HIDE DEF f
<1>5. SectionOk(m, 7, n)
  <2>1. Accepts(f)
    BY DEF f
  <2>2. \A s \in DOMAIN Sections : SectionOk(m, s, n)
    BY <1>1, <1>4, <2>1 DEF Accepts
  <2> QED BY <2>2, SectionNames
<1>6. off <= n - size
  BY <1>5 DEF SectionOk
<1>7. off \in Nat /\ size \in Nat /\ FileSize(m) = off + size
  <2>1. 7 \in 1 .. 7
    OBVIOUS
  <2> QED BY <2>1, OffsetsInOrder, SizeNat, SectionNames DEF FileSize
<1> HIDE DEF off, size
<1> QED BY <1>6, <1>7

LEMMA LoadableHolds ==
  ASSUME FileInv, SentInv, OwnerInv
  PROVE  LoadableIsComplete
<1> SUFFICES ASSUME Accepts(file), ~mixed, ~wiped
             PROVE  Zeroed(file) = Body[file[1].model]
  BY DEF LoadableIsComplete
<1>1. file # <<>>
  <2>1. Len(file) >= 2
    BY DEF Accepts, HeaderSize
  <2>2. Len(<<>>) = 0
    BY EmptySeq
  <2> QED BY <2>1, <2>2
<1>2. PICK w \in Workers : last = w
  BY <1>1 DEF OwnerInv
<1> DEFINE m == Model(w)
           n == landed[w]
<1>3. m \in Models /\ file = Left(w)
  BY <1>2, WriterFacts DEF OwnerInv
<1>4. Fields(m).model = m
  BY DEF Fields
<1>5. CASE pc[w] = "finished"
  <2>1. file = WholeFile(m)
    BY <1>3, <1>5 DEF Left
  <2>2. Zeroed(WholeFile(m)) = Body[m] /\ WholeFile(m)[1] = Fields(m)
    BY <1>3, ZeroedBody
  <2> HIDE DEF m
  <2> QED BY <1>4, <2>1, <2>2
<1>6. CASE pc[w] # "finished"
  <2>1. file = First(m, n)
    BY <1>3, <1>6 DEF Left
  <2>2. n \in Nat /\ n <= FileSize(m)
    <3>1. n \in Nat /\ n <= Len(sent[w])
      BY DEF OwnerInv
    <3>2. Len(sent[w]) \in Nat /\ Len(sent[w]) <= FileSize(m)
      BY WriterFacts DEF Written
    <3>3. FileSize(m) \in Nat
      BY <1>3, FileSizeBounds
    <3> QED BY <3>1, <3>2, <3>3
  <2> HIDE DEF m, n
  <2>3. n = FileSize(m)
    BY <1>3, <2>1, <2>2, AcceptedIsComplete
  <2>4. file = Body[m]
    BY <1>3, <2>1, <2>3, WholeBody
  <2> QED BY <1>3, <1>4, <2>4, ZeroedBody, BodyShape
<1> QED BY <1>5, <1>6

LEMMA WholeVerifies ==
  ASSUME NEW m \in Models
  PROVE  Verifies(SubSeq(WholeFile(m), 1, HeaderSize),
                  SubSeq(WholeFile(m), HeaderSize + 1, Len(WholeFile(m))))
<1> DEFINE f == WholeFile(m)
           n == Len(f)
           h == SubSeq(f, 1, 2)
           rest == SubSeq(f, 3, n)
           z == Zeroed(h)
           x == z \o rest
<1>1. /\ f \in Seq(Cell) /\ n = FileSize(m) /\ f[2] = Checksum(Body[m])
      /\ Zeroed(f) = Body[m]
  BY ZeroedBody
<1>2. n \in Nat /\ n >= 2 /\ HeaderSize = 2 /\ HeaderSize + 1 = 3
  BY <1>1, FileSizeBounds DEF HeaderSize
<1>3. /\ h \in Seq(Cell) /\ Len(h) = 2 /\ h[1] = f[1] /\ h[2] = f[2]
      /\ rest \in Seq(Cell) /\ Len(rest) = n - 2
      /\ \A k \in 3 .. n : rest[k - 2] = f[k]
  <2> HIDE DEF f
  <2> QED BY <1>1, <1>2, Split
<1>4. Body[m] \in Seq(Cell) /\ Len(Body[m]) = n
      /\ \A k \in 1 .. n : Body[m][k] = IF k = 2 THEN Zero ELSE f[k]
  <2>1. DOMAIN f = 1 .. n
    BY <1>1, LenProperties
  <2>2. Zeroed(f) = [k \in 1 .. n |-> IF k = 2 THEN Zero ELSE f[k]]
    BY <1>2, <2>1 DEF Zeroed
  <2>3. \A k \in 1 .. n : Zeroed(f)[k] = IF k = 2 THEN Zero ELSE f[k]
    BY <2>2
  <2> HIDE DEF f
  <2> QED BY <1>1, <2>3, BodyShape
<1> HIDE DEF f, n, h, rest
<1>5. z \in Seq(Cell) /\ Len(z) = 2 /\ z[1] = f[1] /\ z[2] = Zero
  <2>1. DOMAIN h = 1 .. 2
    BY <1>3, LenProperties
  <2>2. z = [k \in 1 .. 2 |-> IF k = 2 THEN Zero ELSE h[k]]
    BY <1>2, <2>1 DEF Zeroed
  <2>3. h[1] \in Cell
    <3>1. 1 \in 1 .. Len(h)
      BY <1>3
    <3> QED BY <1>3, <3>1, ElementOfSeq
  <2>4. z \in [1 .. 2 -> Cell]
    BY <2>2, <2>3, SomeCells
  <2> QED BY <1>3, <2>2, <2>4
<1> HIDE DEF z, x
<1>6. x \in Seq(Cell) /\ Len(x) = n /\ \A k \in 1 .. n : x[k] = Body[m][k]
  <2>1. /\ z \o rest \in Seq(Cell)
        /\ Len(z \o rest) = Len(z) + Len(rest)
        /\ \A k \in 1 .. Len(z) + Len(rest) :
             (z \o rest)[k] = IF k <= Len(z) THEN z[k] ELSE rest[k - Len(z)]
    <3>1. z \in Seq(Cell) /\ rest \in Seq(Cell)
      BY <1>3, <1>5
    <3> QED BY ONLY <3>1, ConcatProperties
  <2>2. /\ x \in Seq(Cell) /\ Len(x) = n
        /\ \A k \in 1 .. n : x[k] = IF k <= 2 THEN z[k] ELSE rest[k - 2]
    BY <1>2, <1>3, <1>5, <2>1 DEF x
  <2>3. ASSUME NEW k \in 1 .. n PROVE x[k] = Body[m][k]
    <3>1. CASE k = 1
      BY <1>2, <1>4, <1>5, <2>2, <3>1
    <3>2. CASE k = 2
      BY <1>2, <1>4, <1>5, <2>2, <3>2
    <3>3. CASE k > 2
      <4>1. k \in 3 .. n /\ ~(k <= 2) /\ k # 2
        BY <1>2, <3>3
      <4> QED BY <1>3, <1>4, <2>2, <4>1
    <3>4. k = 1 \/ k = 2 \/ k > 2
      BY <1>2
    <3> QED BY <3>1, <3>2, <3>3, <3>4
  <2> QED BY <2>2, <2>3
<1>7. x = Body[m]
  BY <1>2, <1>4, <1>6, SeqEqual
<1>8. h[2] = Checksum(z \o rest)
  BY <1>1, <1>3, <1>7 DEF f, x
<1>9. h[HeaderSize] = Checksum(Zeroed(h) \o rest)
  BY <1>2, <1>8 DEF z
<1>10. Verifies(h, rest)
  BY <1>9 DEF Verifies
<1> QED BY <1>2, <1>10 DEF h, rest, n, f

LEMMA FinishedHolds ==
  ASSUME FileInv, OwnerInv
  PROVE  FinishedIsGood
<1> SUFFICES ASSUME NEW w \in Workers, pc[w] = "finished", last = w, ~mixed, ~wiped
             PROVE  /\ file = WholeFile(Model(w))
                    /\ Verifies(SubSeq(file, 1, HeaderSize),
                                SubSeq(file, HeaderSize + 1, Len(file)))
                    /\ Accepts(file)
  BY DEF FinishedIsGood
<1>1. file = WholeFile(Model(w))
  BY DEF OwnerInv, Left
<1>2. Model(w) \in Models
  BY ModelOfWorker DEF FileInv
<1>3. Verifies(SubSeq(file, 1, HeaderSize), SubSeq(file, HeaderSize + 1, Len(file)))
  BY <1>1, <1>2, WholeVerifies
<1> QED BY <1>1, <1>2, <1>3, LayoutLoads

-----------------------------------------------------------------------------
(* Types *)

(* No chain is ahead of its source. *)
ReadInv ==
  \A w \in Workers :
    ChainInv(Model(w), stream[w]) /\ stream[w].read <= plan.jobs[w].present

ReaderTypes ==
  /\ reader \in {"idle", "header", "body", "open", "mapped", "loaded", "refused", "killed"}
  /\ {verify, mixed, wiped, touched} \subseteq BOOLEAN
  /\ outages \in Nat /\ mapped \in Nat
  /\ Len(header) \in {0, HeaderSize}
  /\ header = <<>> => seen = <<>>
  /\ reader = "body" => Len(header) = HeaderSize

LEMMA ChainRange ==
  ASSUME NEW m, IsModel(m), NEW s, ChainInv(m, s)
  PROVE  s.read \in Nat /\ s.index \in Nat /\ s.index <= OutputRows(m)
<1>1. PICK r, i : s = Chain(m, r, i) /\ ChainBounds(m, r, i)
  BY DEF ChainInv
<1>2. s.read = r /\ s.index = i /\ r \in Nat /\ OutputRows(m) \in Nat
  BY <1>1, Rows DEF Chain, ChainBounds
<1>3. CASE Mapped(m) \/ ~m.weighted
  BY <1>1, <1>2, <1>3 DEF ChainBounds
<1>4. CASE ~Mapped(m) /\ m.weighted
  <2> DEFINE size == m.rows * m.dim
  <2>1. /\ m.dim \in Nat \ {0} /\ m.rows \in Nat /\ OutputRows(m) = m.rows
        /\ size \in Nat /\ r <= size /\ i = r \div m.dim
    BY <1>1, <1>4, Width, Rows DEF ChainBounds
  <2>2. size \div m.dim = m.rows
    BY <2>1, MultipleMod
  <2> HIDE DEF size
  <2>3. r \div m.dim \in Nat /\ r \div m.dim <= size \div m.dim
    BY <1>2, <2>1, RowStarts
  <2> QED BY <1>2, <2>1, <2>2, <2>3
<1> QED BY <1>2, <1>3, <1>4

(* What a chunk of a chain takes from its source. *)
LEMMA ChunkReads ==
  ASSUME NEW m, NEW s, ChainInv(m, s)
  PROVE  /\ ReadChunk(m, s).stream.read = s.read + ReadSize(m, s)
         /\ MappedChunk(m, s).stream.read = s.read
<1>1. PICK r, i : s = Chain(m, r, i)
  BY DEF ChainInv
<1>2. ASSUME NEW t, NEW e, NEW data,
             t = [read |-> e, table |-> t.table, index |-> t.index,
                  unscaled |-> t.unscaled, unsliced |-> t.unsliced]
      PROVE  SliceStage(m, t, data).stream.read = e
  BY <1>2 DEF SliceStage
<1>3. ASSUME NEW t, NEW e, NEW data,
             t = [read |-> e, table |-> t.table, index |-> t.index,
                  unscaled |-> t.unscaled, unsliced |-> t.unsliced]
      PROVE  WeightStage(m, t, data).stream.read = e
  <2>1. CASE ~m.weighted
    BY <1>2, <1>3, <2>1 DEF WeightStage
  <2>2. CASE m.weighted
    <3> DEFINE all == t.unscaled \o data
               whole == WholeRows(all, m.dim)
               rest == Remainder(all, m.dim)
               n == t.index + Len(whole) \div m.dim
               u == [t EXCEPT !.unscaled = rest, !.index = n]
               out == Scaled(whole, m.dim, t.index)
    <3>1. WeightStage(m, t, data) = SliceStage(m, u, out)
      BY <2>2 DEF WeightStage
    <3> HIDE DEF out, n, rest, whole, all
    <3>2. u = [read |-> e, table |-> u.table, index |-> u.index,
               unscaled |-> u.unscaled, unsliced |-> u.unsliced]
      <4> DEFINE v == [t EXCEPT !.unscaled = rest]
      <4>1. v = [read |-> e, table |-> t.table, index |-> t.index, unscaled |-> rest,
                 unsliced |-> t.unsliced]
        BY <1>3
      <4>2. u = [v EXCEPT !.index = n]
        OBVIOUS
      <4> HIDE DEF u, v
      <4>3. u = [read |-> e, table |-> t.table, index |-> n, unscaled |-> rest,
                 unsliced |-> t.unsliced]
        BY <4>1, <4>2
      <4> QED BY <4>3
    <3> HIDE DEF u
    <3> QED BY <1>2, <3>1, <3>2
  <2> QED BY <2>1, <2>2
<1>4. ReadChunk(m, s).stream.read = s.read + ReadSize(m, s)
  <2> DEFINE e == s.read + ReadSize(m, s)
             next == [s EXCEPT !.read = e]
             data == SourceChunk(m, s)
  <2>1. ReadChunk(m, s) = IF Mapped(m)
                          THEN [stream |-> [next EXCEPT !.table = next.table \o data],
                                chunk |-> <<>>]
                          ELSE WeightStage(m, next, data)
    <3> HIDE DEF data
    <3> QED BY <1>1 DEF ReadChunk, Chain, data
  <2> HIDE DEF e, data
  <2>2. next = [read |-> e, table |-> next.table, index |-> next.index,
                unscaled |-> next.unscaled, unsliced |-> next.unsliced]
    BY <1>1 DEF Chain
  <2> HIDE DEF next
  <2>3. CASE Mapped(m)
    <3> DEFINE more == next.table \o data
               u == [next EXCEPT !.table = more]
    <3>1. u.read = e
      <4> HIDE DEF more
      <4> QED BY <2>2
    <3> HIDE DEF u
    <3>2. ReadChunk(m, s) = [stream |-> u, chunk |-> <<>>]
      BY <2>1, <2>3 DEF u
    <3>3. ReadChunk(m, s).stream = u
      BY <3>2
    <3> QED BY <3>1, <3>3 DEF e
  <2>4. CASE ~Mapped(m)
    BY <1>3, <2>1, <2>2, <2>4 DEF e
  <2> QED BY <2>3, <2>4
<1>5. MappedChunk(m, s).stream.read = s.read
  <2> DEFINE count == Least(RowsPerChunk, OutputRows(m) - s.index)
             picked == [k \in 1 .. count * m.dim |->
                          s.table[m.mapping[s.index + (k - 1) \div m.dim + 1] * m.dim
                                  + ((k - 1) % m.dim) + 1]]
             out == IF m.weighted THEN Scaled(picked, m.dim, s.index) ELSE picked
             n == s.index + count
             t == [s EXCEPT !.index = n]
  <2>1. MappedChunk(m, s) = SliceStage(m, t, out)
    BY DEF MappedChunk
  <2> HIDE DEF out, picked, n
  <2>2. t = [read |-> s.read, table |-> t.table, index |-> t.index,
             unscaled |-> t.unscaled, unsliced |-> t.unsliced]
    BY <1>1 DEF Chain
  <2> HIDE DEF t
  <2> QED BY <1>2, <2>1, <2>2
<1> QED BY <1>4, <1>5

LEMMA ReadKept ==
  ASSUME FileInv, SentInv, ReadInv, [Next]_vars
  PROVE  ReadInv'
<1>1. plan' = plan
  BY DEF Next, Convert, OpenFile, WriteHeader, WriteSection, StreamChunk, StreamRows,
         Yields, StreamEnd, StreamRaises, CloseFile, PatchChecksum, Die, Outage, Load,
         BeginLoad, ReadHeader, ReadBody, OpenMapping, Validate, ReaderGoto, writerVars,
         vars
<1>2. Workers' = Workers /\ \A w \in Workers : Model(w)' = Model(w)
  BY <1>1 DEF Workers, Model
<1>3. CASE stream' = stream
  BY <1>1, <1>2, <1>3 DEF ReadInv
<1>4. CASE \E w \in Workers : StreamChunk(w) \/ StreamRows(w)
  <2>1. PICK w \in Workers : StreamChunk(w) \/ StreamRows(w)
    BY <1>4
  <2> DEFINE m == Model(w)
             s == stream[w]
             present == plan.jobs[w].present
  <2>2. m \in Models /\ IsModel(m) /\ ChainInv(m, s) /\ s.read <= present
    BY WriterFacts, ModelIs DEF ReadInv
  <2>3. PICK next : /\ stream' = [stream EXCEPT ![w] = next]
                    /\ ChainInv(m, next) /\ next.read <= present
    <3>1. CASE StreamChunk(w)
      <4>1. /\ Reading(m, s) /\ Yields(w, ReadChunk(m, s))
            /\ s.read + ReadSize(m, s) <= present
        BY <3>1 DEF StreamChunk
      <4>2. Moves(m, s, ReadChunk(m, s))
        BY <2>2, <4>1, ReadMoves
      <4>3. ReadChunk(m, s).stream.read = s.read + ReadSize(m, s)
        BY <2>2, ChunkReads
      <4> QED BY <4>1, <4>2, <4>3 DEF Yields, Moves
    <3>2. CASE StreamRows(w)
      <4>1. Picking(m, s) /\ Yields(w, MappedChunk(m, s))
        BY <3>2 DEF StreamRows
      <4>2. Moves(m, s, MappedChunk(m, s))
        BY <2>2, <4>1, PickMoves
      <4>3. MappedChunk(m, s).stream.read = s.read
        BY <2>2, ChunkReads
      <4> QED BY <2>2, <4>1, <4>2, <4>3 DEF Yields, Moves
    <3> QED BY <2>1, <3>1, <3>2
  <2>4. stream'[w] = next /\ \A v \in Workers \ {w} : stream'[v] = stream[v]
    BY <2>3, WriterFacts
  <2> QED BY <1>1, <1>2, <2>3, <2>4 DEF ReadInv
<1>5. stream' = stream \/ \E w \in Workers : StreamChunk(w) \/ StreamRows(w)
  BY DEF Next, Convert, OpenFile, WriteHeader, WriteSection, StreamEnd, StreamRaises,
         CloseFile, PatchChecksum, Die, Outage, Load, BeginLoad, ReadHeader, ReadBody,
         OpenMapping, Validate, ReaderGoto, writerVars, vars
<1> QED BY <1>3, <1>4, <1>5

LEMMA ReaderTypesKept ==
  ASSUME FileInv, ReaderTypes, [Next]_vars
  PROVE  ReaderTypes'
<1>1. Len(file) \in Nat
  BY LenProperties DEF FileInv
<1>2. CASE BeginLoad
  <2>1. Len(<<>>) = 0
    BY EmptySeq
  <2> QED BY <1>2, <2>1 DEF BeginLoad, ReaderGoto, ReaderTypes
<1>3. CASE ReadHeader
  <2>1. CASE Len(file) < HeaderSize \/ file[1].part # "header"
    BY <1>3, <2>1 DEF ReadHeader, ReaderGoto, ReaderTypes
  <2>2. CASE ~(Len(file) < HeaderSize \/ file[1].part # "header")
    <3>1. Len(file) >= 2 /\ header' = SubSeq(file, 1, 2) /\ reader' = "body"
      BY <1>1, <1>3, <2>2 DEF ReadHeader, ReaderGoto, HeaderSize
    <3>2. Len(header') = 2
      BY <3>1, Split DEF FileInv
    <3>3. header' # <<>>
      BY <3>2, EmptySeq
    <3> QED BY <1>3, <3>1, <3>2, <3>3 DEF ReadHeader, ReaderGoto, ReaderTypes, HeaderSize
  <2> QED BY <2>1, <2>2
<1>4. CASE ReadBody
  <2>1. Len(header) = 2 /\ header # <<>>
    <3>1. Len(<<>>) = 0
      BY EmptySeq
    <3>2. reader = "body"
      BY <1>4 DEF ReadBody
    <3> QED BY <3>1, <3>2 DEF ReaderTypes, HeaderSize
  <2>2. reader' \in {"body", "open", "refused"}
    BY <1>4 DEF ReadBody, ReaderGoto
  <2> QED BY <1>4, <2>1, <2>2 DEF ReadBody, ReaderGoto, ReaderTypes, HeaderSize
<1>5. CASE OpenMapping
  BY <1>1, <1>5 DEF OpenMapping, ReaderGoto, ReaderTypes
<1>6. CASE Validate
  BY <1>6 DEF Validate, ReaderGoto, ReaderTypes
<1>7. CASE Outage
  BY <1>7 DEF Outage, ReaderTypes
<1>8. ASSUME NEW w \in Workers, Convert(w) PROVE ReaderTypes'
  <2>1. UNCHANGED <<readerVars, outages>>
    BY <1>8 DEF Convert, OpenFile, WriteHeader, WriteSection, StreamChunk, StreamRows,
           Yields, StreamEnd, StreamRaises, CloseFile, PatchChecksum, Die
  <2>2. mixed' \in BOOLEAN /\ wiped' \in BOOLEAN
    BY <1>8 DEF Convert, OpenFile, WriteHeader, WriteSection, StreamChunk, StreamRows,
           Yields, StreamEnd, StreamRaises, CloseFile, PatchChecksum, Die, ReaderTypes,
           historyVars
  <2>3. touched' \in BOOLEAN
    BY <1>8 DEF Convert, OpenFile, WriteHeader, WriteSection, StreamChunk, StreamRows,
           Yields, StreamEnd, StreamRaises, CloseFile, PatchChecksum, Die, ReaderTypes,
           historyVars, WriteChunk, Land
  <2> QED BY <2>1, <2>2, <2>3 DEF ReaderTypes, readerVars
<1>9. CASE UNCHANGED vars
  BY <1>9 DEF vars, readerVars, historyVars, ReaderTypes
<1> QED BY <1>2, <1>3, <1>4, <1>5, <1>6, <1>7, <1>8, <1>9 DEF Next, Load

LEMMA InitTypes == Init => ReadInv /\ ReaderTypes
<1> SUFFICES ASSUME Init PROVE ReadInv /\ ReaderTypes
  OBVIOUS
<1>1. ReadInv
  <2> SUFFICES ASSUME NEW w \in Workers
               PROVE  /\ ChainInv(Model(w), stream[w])
                      /\ stream[w].read <= plan.jobs[w].present
    BY DEF ReadInv
  <2>1. stream[w] = Begun /\ Model(w) \in Models /\ plan.jobs[w].present \in Nat
    BY ModelOfWorker, PlanAssumption DEF Init, Workers
  <2>2. Begun.read = 0
    BY DEF Begun
  <2>3. ChainInv(Model(w), Begun)
    BY <2>1, ModelIs, ChainBegins
  <2> QED BY <2>1, <2>2, <2>3
<1>2. outages \in Nat
  BY PlanAssumption DEF Init
<1>3. Len(<<>>) = 0
  BY EmptySeq
<1>4. ReaderTypes
  BY <1>2, <1>3 DEF Init, ReaderTypes
<1> QED BY <1>1, <1>4

LEMMA TypesHold ==
  ASSUME FileInv, SentInv, OwnerInv, ReadInv, ReaderTypes
  PROVE  TypeOK
<1>1. ASSUME NEW w \in Workers
      PROVE  /\ stream[w].read \in 0 .. plan.jobs[w].present
             /\ stream[w].index \in 0 .. OutputRows(Model(w))
  <2>1. Model(w) \in Models /\ IsModel(Model(w)) /\ plan.jobs[w].present \in Nat
    BY WriterFacts, ModelIs, PlanAssumption DEF FileInv, Workers
  <2>2. ChainInv(Model(w), stream[w]) /\ stream[w].read <= plan.jobs[w].present
    BY DEF ReadInv
  <2>3. /\ stream[w].read \in Nat /\ stream[w].index \in Nat
        /\ stream[w].index <= OutputRows(Model(w)) /\ OutputRows(Model(w)) \in Nat
    BY <2>1, <2>2, ChainRange, Rows
  <2> QED BY <2>1, <2>2, <2>3
<1>2. ASSUME NEW w \in Workers
      PROVE  landed[w] \in 0 .. Len(sent[w]) /\ section[w] \in 1 .. Len(Sections) + 1
  <2>1. Len(sent[w]) \in Nat
    BY WriterFacts DEF Written
  <2>2. landed[w] \in Nat /\ landed[w] <= Len(sent[w]) /\ section[w] \in 1 .. 8
    BY DEF OwnerInv, FileInv
  <2> QED BY <2>1, <2>2, SectionNames
<1> QED BY <1>1, <1>2 DEF TypeOK, FileInv, OwnerInv, ReaderTypes, Places

-----------------------------------------------------------------------------

Inv == FileInv /\ LoadInv /\ SentInv /\ OwnerInv /\ ReadInv /\ ReaderTypes

LEMMA InvInitial == Init => Inv
BY InvInit, InitWrites, InitOwns, InitTypes DEF Inv

LEMMA InvKept ==
  ASSUME Inv, [Next]_vars
  PROVE  Inv'
<1>1. PayloadInPlace
  BY SentInPlace DEF Inv, FileInv
<1>2. SentInv'
  BY SentKept DEF Inv
<1>3. (plan \in Plans)'
  BY PlanKept DEF Inv, FileInv
<1>4. PayloadInPlace'
  BY <1>2, <1>3, SentInPlaceNext
<1>5. FileInv' /\ LoadInv'
  BY <1>1, <1>4, InvNext DEF Inv
<1>6. OwnerInv'
  BY <1>1, OwnerKept DEF Inv
<1>7. ReadInv' /\ ReaderTypes'
  BY ReadKept, ReaderTypesKept DEF Inv
<1> QED BY <1>2, <1>5, <1>6, <1>7 DEF Inv

LEMMA InvAlways == Spec => []Inv
BY InvInitial, InvKept, PTL DEF Spec

(* The life of a conversion and of a load; no chain is ahead of its source  *)
(* or picks more rows than the mapping has (F32Payload#each_chunk,          *)
(* each_mapped_chunk), and no file holds more than was written to it.       *)
THEOREM FileTypes == Spec => []TypeOK
<1>1. Inv => TypeOK
  BY TypesHold DEF Inv
<1> QED BY <1>1, InvAlways, PTL

(* For any models, mappings, weights and cuts, chunks of any size and       *)
(* sections of any size, what a conversion has written is a prefix of the   *)
(* file that is due, and a section is left where write_file believes the    *)
(* next one to begin.                                                       *)
THEOREM PayloadsInPlace == Spec => []PayloadInPlace
<1>1. Inv => PayloadInPlace
  BY SentInPlace DEF Inv, FileInv
<1> QED BY <1>1, InvAlways, PTL

(* However many conversions are stopped on a path, and wherever, the file   *)
(* of one that nobody wrote over is refused by validate (section_ok of the  *)
(* last section) until all but its checksum is there.                       *)
THEOREM LoadablesAreComplete == Spec => []LoadableIsComplete
<1>1. Inv => LoadableIsComplete
  BY LoadableHolds DEF Inv
<1> QED BY <1>1, InvAlways, PTL

(* A conversion that returned, and was neither mixed with another nor       *)
(* undone by an outage, has left the whole file; Verifier.call confirms its *)
(* checksum and validate accepts it.                                        *)
THEOREM FinishedFilesAreGood == Spec => []FinishedIsGood
<1>1. Inv => FinishedIsGood
  BY FinishedHolds DEF Inv
<1> QED BY <1>1, InvAlways, PTL

(* load(path, verify: true) of a file nobody changes meanwhile gives a      *)
(* complete model: for any models, sizes and alignment, any number of       *)
(* conversions on the path, however they end, and any outages.              *)
THEOREM VerifiedLoads == Spec => []VerifiedLoadIsWhole
<1>1. Inv => VerifiedLoadIsWhole
  BY InvWhole DEF Inv
<1> QED BY <1>1, InvAlways, PTL

=============================================================================
