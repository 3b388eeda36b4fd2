----------------------------- MODULE TopK_proofs -----------------------------
(***************************************************************************)
(* Proofs about TopK, for matrices of any size, any k and any scores.      *)
(***************************************************************************)
EXTENDS TopK, Facts, TLAPS

(* The type invariant is preserved. *)
LEMMA InitTypeOK == Init => TypeOK
<1> SUFFICES ASSUME Init PROVE TypeOK
  OBVIOUS
<1>1. rows \in Seq(Scores) /\ Len(rows) \in Nat /\ k \in Int
  BY ScoresAssumption, SizesAssumption DEF Init, ScoresAssumption, SizesAssumption
<1>2. copy \in Seq(Scores) /\ copy = None
  BY DEF Init, None
<1>3. best \in Seq([score : Int, row : 0 .. Len(rows)])
  BY DEF Init
<1>4. at \in 0 .. Len(rows) /\ interrupts \in 0 .. MaxInterrupts
  BY <1>1, SizesAssumption DEF Init, SizesAssumption
<1> QED
  BY <1>1, <1>2, <1>3, <1>4 DEF Init, TypeOK

(* The entries of the array keep their shape. *)
Entries == [score : Int, row : 0 .. Len(rows)]

(* What a place of the list is after an insertion: an old entry or the new *)
(* one.                                                                    *)
LEMMA InsertedShape ==
  ASSUME NEW list, NEW E, list \in Seq(E), Len(list) >= 1, NEW score, NEW row,
         [score |-> score, row |-> row] \in E
  PROVE  Inserted(list, score, row) \in Seq(E) /\ Len(Inserted(list, score, row)) = Len(list)
<1> DEFINE S == {p \in DOMAIN list : \A q \in DOMAIN list : q >= p => Beats(score, list[q].score)}
           j == Slot(list, score)
<1>0. Len(list) \in Nat /\ DOMAIN list = 1 .. Len(list)
  OBVIOUS
<1>1. CASE ~Beats(score, list[Len(list)].score)
  BY <1>1 DEF Inserted
<1>2. CASE Beats(score, list[Len(list)].score)
  <2>1. Len(list) \in S
    BY <1>0, <1>2
  <2>2. S \in SUBSET Nat
    BY <1>0
  <2>3. j \in S
    BY <2>1, <2>2, MinOfNat DEF Slot
  <2>4. j \in 1 .. Len(list)
    BY <2>3, <1>0
  <2> HIDE DEF j, S
  <2>5. Inserted(list, score, row) =
          [p \in 1 .. Len(list) |->
             IF p < j THEN list[p]
             ELSE IF p = j THEN [score |-> score, row |-> row] ELSE list[p - 1]]
    BY <1>0, <1>2 DEF Inserted, j
  <2>6. ASSUME NEW p \in 1 .. Len(list)
        PROVE  (IF p < j THEN list[p]
                ELSE IF p = j THEN [score |-> score, row |-> row] ELSE list[p - 1]) \in E
    <3>1. p > j => p - 1 \in 1 .. Len(list)
      BY <2>4, <1>0
    <3> QED
      BY <3>1, <2>4, <1>0
  <2>7. Inserted(list, score, row) \in [1 .. Len(list) -> E]
    BY <2>5, <2>6
  <2> QED
    BY <2>7, <1>0
<1> QED
  BY <1>1, <1>2

LEMMA NextTypeOK ==
  ASSUME TypeOK, [Next]_vars
  PROVE  TypeOK'
<1>0. Len(rows) \in Nat /\ \A s \in Scores : s \in Int
  BY ScoresAssumption DEF TypeOK, ScoresAssumption
<1>1. CASE Call
  <2>1. CASE pc' = "scan"
    <3>1. k >= 1 /\ rows # <<>> /\ k' = ClippedK /\ pc = "idle"
          /\ copy' = (IF NeedsCopy THEN rows ELSE None) /\ released' = Releases
          /\ best' = [p \in 1 .. ClippedK |-> Empty]
          /\ UNCHANGED <<rows, options, at, cancelled, pending, interrupts, asked>>
      BY <1>1, <2>1 DEF Call, Raise
    <3>2. ClippedK \in 1 .. Len(rows)
      BY <3>1, <1>0 DEF ClippedK, TypeOK
    <3>3. best' \in Seq(Entries) /\ Len(best') = ClippedK
      <4>1. Empty \in Entries
        BY <1>0, ScoresAssumption DEF Empty, Entries, ScoresAssumption
      <4>2. best' \in [1 .. ClippedK -> Entries]
        BY <3>1, <4>1
      <4> QED
        BY <4>2, <3>2
    <3>4. copy' \in Seq(Scores) /\ (copy' # None => Len(copy') = Len(rows))
      BY <3>1 DEF TypeOK, None
    <3>5. released' \in BOOLEAN
      BY <3>1 DEF Releases, Large, TypeOK
    <3> QED
      BY <2>1, <3>1, <3>2, <3>3, <3>4, <3>5 DEF TypeOK, options, Entries
  <2>2. CASE pc' # "scan"
    BY <1>1, <2>2 DEF Call, Raise, TypeOK, options, job
  <2> QED
    BY <2>1, <2>2
<1>2. CASE Row
  <2>1. Read \in Seq(Scores) /\ Len(Read) = Len(rows)
    BY DEF Read, TypeOK
  <2>2. at + 1 \in 1 .. Len(rows) /\ Read[at + 1] \in Int
    BY SMTT(30), <1>0, <1>2, <2>1 DEF Row, TypeOK
  <2>3. best \in Seq(Entries) /\ Len(best) = k /\ k >= 1
    BY <1>0, <1>2 DEF Row, TypeOK, Entries
  <2>4. best' = Inserted(best, Read[at + 1], at + 1) /\ at' = at + 1
    BY <1>2 DEF Row
  <2>5. [score |-> Read[at + 1], row |-> at + 1] \in Entries
    BY <2>2 DEF Entries
  <2>6. best' \in Seq(Entries) /\ Len(best') = k
    BY <2>3, <2>4, <2>5, InsertedShape
  <2>7. /\ UNCHANGED <<pc, rows, k, copy, released, cancelled, pending, interrupts, asked>>
        /\ UNCHANGED options
    BY <1>2 DEF Row
  <2> QED
    BY <1>0, <2>2, <2>4, <2>6, <2>7 DEF TypeOK, Entries, options
<1>3. CASE OutOfMemory \/ ScanOver \/ ServeRaise \/ ServeTrap
  BY <1>3 DEF OutOfMemory, ScanOver, ServeRaise, ServeTrap, Raise, TypeOK, options, job
<1>4. CASE Return
  BY <1>4 DEF Return, TypeOK, options, job
<1>5. CASE Interrupt
  <2>1. interrupts' \in 0 .. MaxInterrupts
    BY <1>5, SizesAssumption DEF Interrupt, TypeOK, SizesAssumption
  <2>2. cancelled' \in BOOLEAN
    BY <1>5, Zenon DEF Interrupt, TypeOK
  <2> QED
    BY <1>5, <2>1, <2>2 DEF Interrupt, TypeOK, options
<1>6. CASE Mutate
  <2>1. rows' \in Seq(Scores) /\ Len(rows') = Len(rows)
    BY <1>6 DEF Mutate, TypeOK
  <2> QED
    BY <1>6, <2>1 DEF Mutate, TypeOK, options, job
<1>7. CASE Freeze
  BY <1>7 DEF Freeze, TypeOK, job
<1>8. CASE Over \/ UNCHANGED vars
  <2>1. /\ UNCHANGED <<pc, rows, options, k, pending, interrupts, asked>>
        /\ UNCHANGED <<copy, released, at, best, cancelled>>
    BY <1>8 DEF Over, vars, job
  <2> QED
    BY <2>1 DEF TypeOK, options
<1> QED
  BY <1>1, <1>2, <1>3, <1>4, <1>5, <1>6, <1>7, <1>8 DEF Next

(* Whatever the matrix, k and the options: no slot and no row is outside   *)
(* its range.                                                              *)
THEOREM TypeCorrect == Spec => []TypeOK
<1>1. Init => TypeOK
  BY InitTypeOK
<1>2. TypeOK /\ [Next]_vars => TypeOK'
  BY NextTypeOK
<1> QED
  BY <1>1, <1>2, PTL DEF Spec

-----------------------------------------------------------------------------
(* The matrix under a scan *)

(* A scan reads the matrix the call was made with: it runs under the GVL,  *)
(* from a copy, or over a frozen string.                                   *)
ReadsAsked ==
  /\ pc = "idle" => rows = asked
  /\ pc = "scan" => Read = asked /\ (released => frozen)

LEMMA NextReadsAsked ==
  ASSUME TypeOK, ReadsAsked, [Next]_vars
  PROVE  ReadsAsked'
<1>1. CASE Call
  BY <1>1 DEF Call, Raise, ReadsAsked, Read, Releases, NeedsCopy, None, options, TypeOK
<1>2. CASE Row
  BY <1>2 DEF Row, ReadsAsked, Read, options
<1>3. CASE OutOfMemory \/ ScanOver \/ ServeRaise \/ ServeTrap \/ Return
  BY <1>3 DEF OutOfMemory, ScanOver, ServeRaise, ServeTrap, Return, Raise, ReadsAsked
<1>4. CASE Interrupt
  BY <1>4 DEF Interrupt, ReadsAsked, Read, options
<1>5. CASE Mutate
  BY <1>5 DEF Mutate, GvlFree, ReadsAsked
<1>6. CASE Freeze
  BY <1>6 DEF Freeze, GvlFree, ReadsAsked, Read, job
<1>7. CASE Over \/ UNCHANGED vars
  BY <1>7 DEF Over, vars, ReadsAsked, Read, job, options
<1> QED
  BY <1>1, <1>2, <1>3, <1>4, <1>5, <1>6, <1>7 DEF Next

LEMMA ReadsAskedHolds == Spec => []ReadsAsked
<1>1. Init => ReadsAsked
  BY DEF Init, ReadsAsked
<1>2. TypeOK /\ ReadsAsked /\ [Next]_vars => ReadsAsked'
  BY NextReadsAsked
<1> QED
  BY <1>1, <1>2, TypeCorrect, PTL DEF Spec

(* No Ruby code writes to the bytes a scan is reading, for any schedule:   *)
(* the GVL is given up only over a frozen string.                          *)
THEOREM ScanUndisturbed == Spec => ScanIsUndisturbed
<1>1. ReadsAsked /\ [Next]_vars => [pc = "scan" => Read' = Read]_vars
  <2> SUFFICES ASSUME ReadsAsked, [Next]_vars, pc = "scan"
               PROVE  Read' = Read
    OBVIOUS
  <2>1. UNCHANGED rows
    BY DEF Next, Call, OutOfMemory, Row, ScanOver, ServeRaise, ServeTrap, Return, Interrupt,
           Mutate, GvlFree, Freeze, Over, Raise, ReadsAsked, vars
  <2>2. UNCHANGED copy
    BY DEF Next, Call, OutOfMemory, Row, ScanOver, ServeRaise, ServeTrap, Return, Interrupt,
           Mutate, Freeze, Over, Raise, job, vars
  <2> QED
    BY <2>1, <2>2 DEF Read
<1> QED
  BY <1>1, ReadsAskedHolds, PTL DEF Spec, ScanIsUndisturbed

-----------------------------------------------------------------------------
(* The ranking *)

(* The array ranks the first n rows of scores: entries stand for rows of   *)
(* that score, they are in order with the empty ones last, and a row that  *)
(* is missing comes after a full array.                                    *)
Ranked(list, scores, n) ==
  /\ \A p \in 1 .. Len(list) :
       \/ list[p] = Empty
       \/ list[p].row \in 1 .. n /\ list[p].score = scores[list[p].row] /\ Real(list[p].score)
  /\ \A p, q \in 1 .. Len(list) :
       p < q => list[q] = Empty \/ Precedes(list[p], list[q])
  /\ \A r \in 1 .. n :
       Real(scores[r]) =>
         \/ \E p \in 1 .. Len(list) : list[p].row = r
         \/ /\ list[Len(list)] # Empty
            /\ Precedes(list[Len(list)], [score |-> scores[r], row |-> r])

(* The entries of an array. *)
LEMMA EntryTypes ==
  ASSUME NEW N \in Nat, NEW list \in Seq([score : Int, row : 0 .. N])
  PROVE  /\ Len(list) \in Nat /\ DOMAIN list = 1 .. Len(list)
         /\ \A p \in 1 .. Len(list) : list[p].score \in Int /\ list[p].row \in Nat
<1> SUFFICES ASSUME NEW p \in 1 .. Len(list)
             PROVE  list[p].score \in Int /\ list[p].row \in Nat
  OBVIOUS
<1> DEFINE E == [score : Int, row : 0 .. N]
<1>1. list \in Seq(E)
  OBVIOUS
<1> HIDE DEF E
<1>2. list[p] \in E
  BY <1>1
<1> QED
  BY <1>2 DEF E

(* Taking one more row into account keeps the array ranked. *)
LEMMA InsertedRanks ==
  ASSUME NEW list, NEW scores, NEW n \in Nat, NEW N \in Nat,
         list \in Seq([score : Int, row : 0 .. N]), Len(list) >= 1,
         scores \in Seq(Scores), n + 1 <= Len(scores), Len(scores) = N,
         Ranked(list, scores, n)
  PROVE  Ranked(Inserted(list, scores[n + 1], n + 1), scores, n + 1)
<1> DEFINE s == scores[n + 1]
           len == Len(list)
           new == Inserted(list, s, n + 1)
           S == {p \in DOMAIN list : \A q \in DOMAIN list : q >= p => Beats(s, list[q].score)}
           j == Slot(list, s)
           entry == [score |-> s, row |-> n + 1]
<1>1. /\ len \in Nat /\ len >= 1 /\ DOMAIN list = 1 .. len
      /\ \A p \in 1 .. len : list[p].score \in Int /\ list[p].row \in Nat
  BY EntryTypes
<1>2. /\ NegInf \in Int /\ NaN \in Int /\ NegInf # NaN /\ s \in Int
      /\ \A r \in 1 .. n + 1 : scores[r] \in Int /\ (scores[r] = NaN \/ scores[r] >= NegInf)
  <2>1. \A r \in 1 .. n + 1 : scores[r] \in Scores
    OBVIOUS
  <2>2. n + 1 \in 1 .. n + 1
    OBVIOUS
  <2> QED
    BY <2>1, <2>2, ScoresAssumption DEF ScoresAssumption
<1>8. entry.score = s /\ entry.row = n + 1
  OBVIOUS
<1>3. Empty.score = NegInf /\ Empty.row = 0
  BY DEF Empty
<1>4. /\ \A p \in 1 .. len :
           \/ list[p] = Empty
           \/ list[p].row \in 1 .. n /\ list[p].score = scores[list[p].row] /\ Real(list[p].score)
      /\ \A p, q \in 1 .. len : p < q => list[q] = Empty \/ Precedes(list[p], list[q])
      /\ \A r \in 1 .. n :
           Real(scores[r]) =>
             \/ \E p \in 1 .. len : list[p].row = r
             \/ list[len] # Empty /\ Precedes(list[len], [score |-> scores[r], row |-> r])
  BY DEF Ranked
<1> HIDE DEF s, len, new, S, j, entry
<1>5. \A p \in 1 .. len : list[p].score >= NegInf
  <2> TAKE p \in 1 .. len
  <2>1. CASE list[p] = Empty
    BY <2>1, <1>2, <1>3
  <2>2. CASE list[p] # Empty
    <3>1. list[p].score > NegInf
      BY <2>2, <1>4 DEF Real
    <3> QED
      BY <3>1, <1>1, <1>2
  <2> QED
    BY <2>1, <2>2
<1>6. CASE ~Beats(s, list[len].score)
  <2>1. new = list
    BY <1>6 DEF Inserted, new, len
  <2>2. Real(s) => list[len] # Empty /\ Precedes(list[len], entry)
    <3> SUFFICES ASSUME Real(s)
                 PROVE  list[len] # Empty /\ Precedes(list[len], entry)
      OBVIOUS
    <3>1. len \in 1 .. len /\ list[len].score >= s /\ s > NegInf
      BY <1>1, <1>2, <1>6 DEF Beats, Real
    <3>2. list[len] # Empty
      BY <3>1, <1>1, <1>2, <1>3
    <3>3. list[len].row < n + 1
      BY <3>1, <3>2, <1>4
    <3> QED
      BY <3>1, <3>2, <3>3, <1>1, <1>2, <1>8 DEF Precedes
  <2>3. \A r \in 1 .. n + 1 : r \in 1 .. n \/ r = n + 1
    OBVIOUS
  <2>4. 1 .. n \subseteq 1 .. n + 1
    OBVIOUS
  <2>5. \A r \in 1 .. n + 1 :
           Real(scores[r]) =>
             \/ \E p \in 1 .. len : list[p].row = r
             \/ list[len] # Empty /\ Precedes(list[len], [score |-> scores[r], row |-> r])
    BY <2>2, <2>3, <1>4 DEF entry, s
  <2>6. \A p \in 1 .. len :
           \/ list[p] = Empty
           \/ list[p].row \in 1 .. n + 1 /\ list[p].score = scores[list[p].row] /\ Real(list[p].score)
    BY <2>4, <1>4
  <2> QED
    BY <2>1, <2>5, <2>6, <1>4 DEF Ranked, len, new, s
<1>7. CASE Beats(s, list[len].score)
  <2>1. len \in S /\ S \in SUBSET Nat
    BY <1>1, <1>7 DEF S
  <2>2. j \in S /\ \A p \in S : j <= p
    BY <2>1, MinOfNat DEF Slot, S, j
  <2>3. j \in 1 .. len /\ \A q \in 1 .. len : q >= j => Beats(s, list[q].score)
    BY <2>2, <1>1 DEF S
  <2>4. s # NaN /\ s > NegInf
    BY <1>1, <1>2, <1>5, <1>7 DEF Beats
  <2>5. ASSUME NEW p \in 1 .. len, p < j
        PROVE  list[p] # Empty /\ list[p].score >= s /\ list[p].row < n + 1
    <3>1. p \notin S
      BY <2>2, <2>3, <2>5, <1>1
    <3>2. PICK q \in 1 .. len : q >= p /\ ~Beats(s, list[q].score)
      BY <3>1, <1>1 DEF S
    <3>3. list[q].score >= s
      BY <3>2, <2>4, <1>1, <1>2 DEF Beats
    <3>4. list[q] # Empty
      BY <3>3, <2>4, <1>1, <1>2, <1>3
    <3>5. list[p].score >= list[q].score
      <4>1. CASE p = q
        BY SMTT(30), <4>1, <1>1
      <4>2. CASE p < q
        <5>1. Precedes(list[p], list[q])
          BY <4>2, <3>4, <1>4
        <5> QED
          BY <5>1, <1>1 DEF Precedes
      <4> QED
        BY <4>1, <4>2, <3>2
    <3>6. list[p].score >= s
      BY <3>3, <3>5, <1>1, <1>2
    <3>7. list[p] # Empty
      BY <3>6, <2>4, <1>1, <1>2, <1>3
    <3> QED
      BY <3>6, <3>7, <1>4
  <2>6. entry.score = s /\ entry.row = n + 1
    BY <1>8
  <2>7. new = [p \in 1 .. len |-> IF p < j THEN list[p] ELSE IF p = j THEN entry ELSE list[p - 1]]
    BY <1>1, <1>7 DEF Inserted, j, entry, len, new
  <2>8. /\ \A p \in 1 .. len : p < j => new[p] = list[p]
        /\ new[j] = entry
        /\ \A p \in 1 .. len : p > j => new[p] = list[p - 1] /\ p - 1 \in 1 .. len
    BY <2>3, <2>7, <1>1
  <2>9. Len(new) = len
    BY <2>7, <1>1
  <2>10. ASSUME NEW p \in 1 .. len
         PROVE  \/ new[p] = Empty
                \/ /\ new[p].row \in 1 .. n + 1 /\ new[p].score = scores[new[p].row]
                   /\ Real(new[p].score)
    <3>1. CASE p = j
      <4>1. scores[n + 1] = s
        BY DEF s
      <4>2. n + 1 \in 1 .. n + 1
        OBVIOUS
      <4> QED
        BY <3>1, <4>1, <4>2, <2>4, <2>6, <2>8 DEF Real
    <3>2. CASE p # j
      <4>1. PICK q \in 1 .. len : new[p] = list[q]
        <5>1. p < j \/ p > j
          BY <3>2, <2>3
        <5> QED
          BY <5>1, <2>8
      <4>2. 1 .. n \subseteq 1 .. n + 1
        OBVIOUS
      <4> QED
        BY <4>1, <4>2, <1>4
    <3> QED
      BY <3>1, <3>2
  <2>11. ASSUME NEW p \in 1 .. len, NEW q \in 1 .. len, p < q
         PROVE  new[q] = Empty \/ Precedes(new[p], new[q])
    <3>1. CASE q < j
      <4>1. new[p] = list[p] /\ new[q] = list[q]
        BY <3>1, <2>3, <2>8, <2>11, <1>1
      <4> QED
        BY <4>1, <2>11, <1>4
    <3>2. CASE q = j
      <4>1. new[p] = list[p] /\ new[q] = entry
        BY <3>2, <2>8, <2>11
      <4>2. list[p].score >= s /\ list[p].row < n + 1
        BY <3>2, <2>5, <2>11
      <4> QED
        BY <4>1, <4>2, <2>6, <1>1, <1>2 DEF Precedes
    <3>3. CASE q > j /\ p = j
      <4>1. new[p] = entry /\ new[q] = list[q - 1] /\ q - 1 \in 1 .. len /\ q - 1 >= j
        BY <3>3, <2>3, <2>8
      <4>2. Beats(s, list[q - 1].score)
        BY <4>1, <2>3
      <4> QED
        BY <4>1, <4>2, <2>6 DEF Precedes, Beats
    <3>4. CASE q > j /\ p # j
      <4>1. new[q] = list[q - 1] /\ q - 1 \in 1 .. len
        BY <3>4, <2>8
      <4>2. PICK x \in 1 .. len : new[p] = list[x] /\ x < q - 1
        <5>1. CASE p < j
          BY <5>1, <3>4, <2>3, <2>8
        <5>2. CASE p > j
          BY <5>2, <2>8, <2>11
        <5> QED
          BY <5>1, <5>2, <3>4, <2>3
      <4> QED
        BY <4>1, <4>2, <1>4
    <3> QED
      BY <3>1, <3>2, <3>3, <3>4, <2>3
  <2>12. \A p \in 1 .. len : p < len => \E q \in 1 .. len : new[q] = list[p]
    <3> TAKE p \in 1 .. len
    <3> HAVE p < len
    <3>1. CASE p < j
      BY <3>1, <2>8
    <3>2. CASE p >= j
      <4>1. p + 1 \in 1 .. len /\ p + 1 > j /\ (p + 1) - 1 = p
        BY <3>2, <1>1, <2>3
      <4>2. new[p + 1] = list[(p + 1) - 1]
        BY <4>1, <2>8
      <4> QED
        BY <4>1, <4>2
    <3> QED
      BY <3>1, <3>2, <2>3
  <2>13. len \in 1 .. len
    BY <1>1
  <2>14. list[len] # Empty => new[len] # Empty /\ Precedes(new[len], list[len])
    <3> SUFFICES ASSUME list[len] # Empty
                 PROVE  new[len] # Empty /\ Precedes(new[len], list[len])
      OBVIOUS
    <3>1. CASE j = len
      <4>1. new[len] = entry /\ s > list[len].score
        BY <3>1, <1>7, <2>8 DEF Beats
      <4> QED
        BY <4>1, <2>4, <2>6, <1>2, <1>3 DEF Precedes
    <3>2. CASE j < len
      <4>1. new[len] = list[len - 1] /\ len - 1 \in 1 .. len /\ len - 1 < len
        BY <3>2, <2>8, <2>13
      <4>2. Precedes(list[len - 1], list[len])
        BY <4>1, <2>13, <1>4
      <4>3. list[len].score > NegInf
        BY <2>13, <1>4 DEF Real
      <4>4. list[len - 1].score > NegInf
        BY <4>1, <4>2, <4>3, <2>13, <1>1, <1>2 DEF Precedes
      <4>5. list[len - 1] # Empty
        BY <4>4, <1>2, <1>3
      <4> QED
        BY <4>1, <4>2, <4>5
    <3> QED
      BY <3>1, <3>2, <2>3, <1>1
  <2>15. new[len].score \in Int /\ new[len].row \in Nat
    <3>1. new[len] = entry \/ \E x \in 1 .. len : new[len] = list[x]
      BY <2>3, <2>8, <2>13
    <3> QED
      BY <3>1, <2>6, <1>1, <1>2
  <2>16. ASSUME NEW r \in 1 .. n + 1, Real(scores[r])
         PROVE  \/ \E p \in 1 .. len : new[p].row = r
                \/ new[len] # Empty /\ Precedes(new[len], [score |-> scores[r], row |-> r])
    <3>1. CASE r = n + 1
      BY <3>1, <2>3, <2>6, <2>8
    <3>2. CASE r \in 1 .. n
      <4>1. CASE \E p \in 1 .. len : list[p].row = r
        <5>1. PICK p \in 1 .. len : list[p].row = r
          BY <4>1
        <5>2. CASE p < len
          BY <5>1, <5>2, <2>12
        <5>3. CASE p = len
          <6>1. list[len] # Empty
            BY <5>1, <5>3, <3>2, <1>3
          <6>2. list[len].score = scores[r] /\ list[len].row = r
            BY <5>1, <5>3, <6>1, <2>13, <1>4
          <6>3. Precedes(new[len], [score |-> scores[r], row |-> r])
            BY <6>1, <6>2, <2>14 DEF Precedes
          <6> QED
            BY <6>1, <6>3, <2>14
        <5> QED
          BY <5>2, <5>3, <1>1
      <4>2. CASE list[len] # Empty /\ Precedes(list[len], [score |-> scores[r], row |-> r])
        <5>1. new[len] # Empty /\ Precedes(new[len], list[len])
          BY <4>2, <2>14
        <5>2. scores[r] \in Int /\ r \in Int /\ list[len].score \in Int /\ list[len].row \in Nat
          BY <1>1, <1>2, <2>13
        <5>3. Precedes(new[len], [score |-> scores[r], row |-> r])
          BY SMTT(30), <4>2, <5>1, <5>2, <2>15 DEF Precedes
        <5> QED
          BY <5>1, <5>3
      <4> QED
        BY <3>2, <2>16, <4>1, <4>2, <1>4
    <3> QED
      BY <3>1, <3>2
  <2>17. Ranked(new, scores, n + 1)
    BY <2>9, <2>10, <2>11, <2>16 DEF Ranked
  <2> QED
    BY <2>17 DEF new, s
<1> QED
  BY <1>6, <1>7

(* The order of a result is transitive, and puts scores in order.          *)
LEMMA PrecedesTransitive ==
  ASSUME NEW a, NEW b, NEW c,
         a.score \in Int, b.score \in Int, c.score \in Int,
         a.row \in Int, b.row \in Int, c.row \in Int,
         Precedes(a, b), Precedes(b, c)
  PROVE  Precedes(a, c)
  BY DEF Precedes

LEMMA PrecedesScores ==
  ASSUME NEW a, NEW b, a.score \in Int, b.score \in Int, Precedes(a, b)
  PROVE  a.score >= b.score
  BY DEF Precedes

(* What a ranked array says of its entries up to the first empty slot.     *)
Filled(list) ==
  SubSeq(list, 1, Min({p \in 1 .. Len(list) + 1 :
                         p = Len(list) + 1 \/ list[p].score = NegInf}) - 1)

LEMMA RankedFilled ==
  ASSUME NEW list, NEW scores, NEW n \in Nat, NEW N \in Nat, NEW size,
         list \in Seq([score : Int, row : 0 .. N]),
         scores \in Seq(Scores), n <= Len(scores),
         Ranked(list, scores, n),
         n = 0 \/ (Len(list) = size /\ Len(list) >= 1)
  PROVE  /\ Ranks(Filled(list), scores, n, size)
         /\ \A p \in DOMAIN list : p > Len(Filled(list)) => list[p] = Empty
<1> DEFINE len == Len(list)
           T == {p \in 1 .. len + 1 : p = len + 1 \/ list[p].score = NegInf}
           m == Min(T)
           front == Filled(list)
<1>1. /\ len \in Nat /\ DOMAIN list = 1 .. len
      /\ \A p \in 1 .. len : list[p].score \in Int /\ list[p].row \in Nat
  BY EntryTypes
<1>2. NegInf \in Int /\ Empty.score = NegInf /\ Empty.row = 0
  BY ScoresAssumption DEF ScoresAssumption, Empty
<1>3. \A r \in 1 .. n : scores[r] \in Int
  <2>1. \A r \in 1 .. n : scores[r] \in Scores
    OBVIOUS
  <2> QED
    BY <2>1, ScoresAssumption DEF ScoresAssumption
<1>4. /\ \A p \in 1 .. len :
           \/ list[p] = Empty
           \/ list[p].row \in 1 .. n /\ list[p].score = scores[list[p].row] /\ Real(list[p].score)
      /\ \A p, q \in 1 .. len : p < q => list[q] = Empty \/ Precedes(list[p], list[q])
      /\ \A r \in 1 .. n :
           Real(scores[r]) =>
             \/ \E p \in 1 .. len : list[p].row = r
             \/ list[len] # Empty /\ Precedes(list[len], [score |-> scores[r], row |-> r])
  BY DEF Ranked
<1>5. m \in T /\ \A p \in T : m <= p
  <2>1. T \in SUBSET Nat /\ len + 1 \in T
    BY <1>1
  <2> HIDE DEF T
  <2> QED
    BY <2>1, MinOfNat
<1>6. m \in 1 .. len + 1
  BY <1>5
<1>14. front = SubSeq(list, 1, m - 1)
  BY DEF Filled
<1> HIDE DEF m, len, front
<1>7. /\ Len(front) = m - 1 /\ DOMAIN front = 1 .. m - 1
      /\ \A p \in 1 .. m - 1 : p \in 1 .. len /\ front[p] = list[p]
  <2>1. 1 .. m - 1 \subseteq 1 .. len
    BY <1>1, <1>6
  <2> QED
    BY <2>1, <1>1, <1>6, <1>14 DEF len
<1>8. ASSUME NEW p \in 1 .. m - 1
      PROVE  list[p].row \in 1 .. n /\ list[p].score = scores[list[p].row] /\ Real(list[p].score)
  <2>1. p \notin T /\ p \in 1 .. len + 1 /\ p \in 1 .. len
    BY <1>1, <1>5, <1>6
  <2>2. list[p] # Empty
    BY <2>1, <1>2
  <2> QED
    BY <2>1, <2>2, <1>4
<1>9. ASSUME NEW p \in 1 .. len, p >= m
      PROVE  list[p] = Empty
  <2>1. m \in 1 .. len /\ list[m].score = NegInf
    BY <1>1, <1>5, <1>6, <1>9
  <2>2. list[m] = Empty
    BY <2>1, <1>2, <1>4 DEF Real
  <2>3. CASE p > m
    <3>1. ASSUME list[p] # Empty
          PROVE  FALSE
      <4>1. list[p].score > NegInf /\ list[p].row >= 1
        BY <1>4, <3>1 DEF Real
      <4>2. Precedes(list[m], list[p])
        BY <1>4, <2>1, <2>3, <3>1
      <4>3. list[m].score >= list[p].score
        BY <4>2, <2>1, <1>1, PrecedesScores
      <4>4. list[p].score \in Int /\ list[m].score = NegInf /\ NegInf \in Int
        BY <2>1, <1>1, <1>2
      <4> QED
        BY <4>1, <4>3, <4>4
    <3> QED
      BY <3>1
  <2> QED
    BY <2>2, <2>3, <1>6, <1>9
<1> HIDE DEF T
<1>10. ASSUME NEW p \in 1 .. m - 1, NEW q \in 1 .. m - 1, p < q
       PROVE  Precedes(list[p], list[q])
  <2>1. list[q] # Empty
    BY <1>2, <1>8
  <2> QED
    BY <2>1, <1>4, <1>7, <1>10
<1>11. ASSUME NEW r \in 1 .. n, Real(scores[r])
       PROVE  \/ \E p \in 1 .. m - 1 : list[p].row = r
              \/ /\ m - 1 = size
                 /\ \A p \in 1 .. m - 1 : Precedes(list[p], [score |-> scores[r], row |-> r])
  <2>1. CASE \E p \in 1 .. len : list[p].row = r
    <3>1. PICK p \in 1 .. len : list[p].row = r
      BY <2>1
    <3>2. list[p] # Empty
      BY <3>1, <1>2
    <3>3. p \in 1 .. m - 1
      BY <3>2, <1>1, <1>6, <1>9
    <3> QED
      BY <3>1, <3>3
  <2>2. CASE list[len] # Empty /\ Precedes(list[len], [score |-> scores[r], row |-> r])
    <3>1. len = size /\ len >= 1 /\ len \in 1 .. len
      BY <1>1 DEF len
    <3>2. m = len + 1
      BY <2>2, <3>1, <1>1, <1>6, <1>9
    <3>3. ASSUME NEW p \in 1 .. m - 1
          PROVE  Precedes(list[p], [score |-> scores[r], row |-> r])
      <4>1. p = len \/ Precedes(list[p], list[len])
        BY <2>2, <3>1, <3>2, <1>1, <1>4
      <4>2. /\ scores[r] \in Int /\ list[len].score \in Int /\ list[len].row \in Nat
            /\ list[p].score \in Int /\ list[p].row \in Nat /\ r \in Nat
        BY <3>1, <1>1, <1>3, <1>7
      <4>3. p # len => Precedes(list[p], list[len])
        BY <4>1
      <4> DEFINE e == [score |-> scores[r], row |-> r]
      <4>4. e.score = scores[r] /\ e.row = r /\ Precedes(list[len], e)
        BY <2>2
      <4> SUFFICES Precedes(list[p], e)
        OBVIOUS
      <4> HIDE DEF e
      <4>5. CASE p = len
        BY <4>4, <4>5
      <4>6. CASE p # len
        <5>1. e.score \in Int /\ e.row \in Int /\ list[p].row \in Int /\ list[len].row \in Int
          BY <4>2, <4>4
        <5> QED
          BY <5>1, <4>2, <4>3, <4>4, <4>6, PrecedesTransitive
      <4> QED
        BY <4>5, <4>6
    <3> QED
      BY <3>1, <3>2, <3>3, <1>1
  <2> QED
    BY <2>1, <2>2, <1>4, <1>11
<1>12. Ranks(front, scores, n, size)
  BY <1>7, <1>8, <1>10, <1>11 DEF Ranks
<1>13. \A p \in DOMAIN list : p > Len(front) => list[p] = Empty
  BY <1>1, <1>6, <1>7, <1>9
<1> QED
  BY <1>12, <1>13 DEF front

-----------------------------------------------------------------------------
(* The search *)

(* What holds of the array at every point of a call: it ranks the rows     *)
(* read, which are all of them when the scan ended without a cancel.       *)
RankedInv ==
  /\ pc = "idle" => at = 0 /\ best = <<>>
  /\ pc \in {"scan", "scanned"} => Ranked(best, asked, at)
  /\ pc = "scanned" /\ ~cancelled => at = Len(asked)
  /\ pc = "done" => /\ Ranked(best, asked, Len(asked))
                    /\ Len(asked) = 0 \/ (Len(best) = k /\ Len(best) >= 1)

LEMMA NextRanked ==
  ASSUME TypeOK, ReadsAsked, RankedInv, [Next]_vars
  PROVE  RankedInv'
<1>0. /\ Len(rows) \in Nat /\ Len(asked) = Len(rows) /\ at \in 0 .. Len(rows)
      /\ asked \in Seq(Scores)
  BY DEF TypeOK
<1>1. CASE Call
  <2>1. CASE pc' = "scan"
    <3>1. k >= 1 /\ rows # <<>> /\ at' = at /\ asked' = asked /\ pc = "idle"
          /\ best' = [p \in 1 .. ClippedK |-> Empty]
      BY <1>1, <2>1 DEF Call, Raise
    <3>2. ClippedK \in Nat
      BY <3>1, <1>0 DEF ClippedK, TypeOK
    <3>3. Len(best') = ClippedK /\ \A p \in 1 .. ClippedK : best'[p] = Empty
      BY <3>1, <3>2
    <3>4. at' = 0
      BY <3>1 DEF RankedInv
    <3>5. Ranked(best', asked', at')
      BY <3>3, <3>4 DEF Ranked
    <3> QED
      BY <2>1, <3>5 DEF RankedInv
  <2>2. CASE pc' = "done"
    <3>1. rows = <<>> /\ pc = "idle" /\ best' = best /\ asked' = asked
      BY <1>1, <2>2 DEF Call, Raise, job
    <3>2. Len(asked') = 0 /\ best' = <<>>
      BY <3>1, <1>0 DEF RankedInv
    <3>3. Ranked(best', asked', Len(asked'))
      BY <3>2 DEF Ranked
    <3> QED
      BY <2>2, <3>2, <3>3 DEF RankedInv
  <2>3. CASE pc' = "raised"
    BY <2>3 DEF RankedInv
  <2> QED
    BY <1>1, <2>1, <2>2, <2>3 DEF Call, Raise
<1>2. CASE Row
  <2>1. Read = asked /\ Ranked(best, asked, at) /\ at < Len(asked)
    BY <1>2 DEF Row, ReadsAsked, RankedInv
  <2>2. best' = Inserted(best, asked[at + 1], at + 1) /\ at' = at + 1 /\ asked' = asked
        /\ pc' = "scan"
    BY <1>2, <2>1 DEF Row
  <2>3. best \in Seq([score : Int, row : 0 .. Len(rows)]) /\ Len(best) >= 1
    BY <1>0, <1>2 DEF Row, TypeOK
  <2>4. Ranked(best', asked', at')
    BY <1>0, <2>1, <2>2, <2>3, InsertedRanks
  <2> QED
    BY <2>2, <2>4 DEF RankedInv
<1>3. CASE ScanOver
  <2>1. Read = asked /\ Ranked(best, asked, at) /\ (at = Len(asked) \/ cancelled)
    BY <1>3 DEF ScanOver, Stops, ReadsAsked, RankedInv
  <2> QED
    BY <1>3, <2>1 DEF ScanOver, RankedInv, job
<1>4. CASE OutOfMemory \/ ServeRaise
  BY <1>4 DEF OutOfMemory, ServeRaise, Raise, RankedInv
<1>5. CASE ServeTrap
  BY <1>5 DEF ServeTrap, RankedInv, job
<1>6. CASE Return
  <2>1. CASE cancelled
    BY <1>6, <2>1 DEF Return, RankedInv
  <2>2. CASE ~cancelled
    <3>1. Ranked(best, asked, Len(asked)) /\ Len(best) = k /\ k >= 1
      BY <1>0, <1>6, <2>2 DEF Return, RankedInv, TypeOK
    <3> QED
      BY <1>6, <2>2, <3>1 DEF Return, RankedInv, job
  <2> QED
    BY <2>1, <2>2
<1>7. CASE Interrupt
  BY <1>7 DEF Interrupt, RankedInv
<1>8. CASE Mutate
  BY <1>8 DEF Mutate, RankedInv, job
<1>9. CASE Freeze
  BY <1>9 DEF Freeze, RankedInv, job
<1>10. CASE Over \/ UNCHANGED vars
  BY <1>10 DEF Over, vars, RankedInv, job
<1> QED
  BY <1>1, <1>2, <1>3, <1>4, <1>5, <1>6, <1>7, <1>8, <1>9, <1>10 DEF Next

LEMMA RankedHolds == Spec => []RankedInv
<1>1. Init => RankedInv
  BY DEF Init, RankedInv
<1>2. TypeOK /\ ReadsAsked /\ RankedInv /\ [Next]_vars => RankedInv'
  BY NextRanked
<1> QED
  BY <1>1, <1>2, TypeCorrect, ReadsAskedHolds, PTL DEF Spec

LEMMA AnswerIsFilled == Answer = Filled(best)
  BY DEF Answer, Filled

(* After any number of rows, for any scores and any k: the array holds the *)
(* best rows read in order, ties by position, NaN left out.                *)
THEOREM BestIsRanked == Spec => []BestSoFar
<1>1. ASSUME TypeOK, RankedInv
      PROVE  BestSoFar
  <2> SUFFICES ASSUME pc \in {"scan", "scanned"}
               PROVE  /\ Ranks(Answer, asked, at, k)
                      /\ \A p \in DOMAIN best : p > Len(Answer) => best[p] = Empty
    BY DEF BestSoFar
  <2>1. /\ Len(rows) \in Nat /\ Len(asked) = Len(rows) /\ at \in Nat /\ at <= Len(asked)
        /\ asked \in Seq(Scores) /\ Len(best) = k /\ Len(best) >= 1
        /\ best \in Seq([score : Int, row : 0 .. Len(rows)])
    BY <1>1 DEF TypeOK
  <2>2. Ranked(best, asked, at)
    BY <1>1 DEF RankedInv
  <2> QED
    BY <2>1, <2>2, RankedFilled, AnswerIsFilled
<1> QED
  BY <1>1, TypeCorrect, RankedHolds, PTL

(* A call that returns has ranked the whole matrix it was made with,       *)
(* whatever other threads and signal handlers did meanwhile.               *)
THEOREM AnswerRanks == Spec => []AnswerIsTopK
<1>1. ASSUME TypeOK, RankedInv
      PROVE  AnswerIsTopK
  <2> SUFFICES ASSUME pc = "done"
               PROVE  Ranks(Answer, asked, Len(asked), k)
    BY DEF AnswerIsTopK
  <2>1. /\ Len(rows) \in Nat /\ Len(asked) = Len(rows)
        /\ asked \in Seq(Scores)
        /\ best \in Seq([score : Int, row : 0 .. Len(rows)])
    BY <1>1 DEF TypeOK
  <2>2. /\ Ranked(best, asked, Len(asked))
        /\ Len(asked) = 0 \/ (Len(best) = k /\ Len(best) >= 1)
    BY <1>1 DEF RankedInv
  <2> QED
    BY <2>1, <2>2, RankedFilled, AnswerIsFilled
<1> QED
  BY <1>1, TypeCorrect, RankedHolds, PTL

=============================================================================
