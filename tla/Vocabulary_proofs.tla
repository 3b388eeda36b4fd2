-------------------------- MODULE Vocabulary_proofs --------------------------
(***************************************************************************)
(* Proofs about Vocabulary, for every list of tokens, every hash function  *)
(* and every word.  First the hash table, for which only the equality of   *)
(* Bytes matters; then what the tries spell, byte by byte, and how the     *)
(* loader and the readers see them; last, that the pieces found in both    *)
(* are those of the reference.                                             *)
(***************************************************************************)
EXTENDS Vocabulary, Facts, FiniteSetTheorems, SequenceTheorems, TLAPS

B(i) == Bytes(vocab[i])

(* The table is not empty: some power of two fits, and TableSize takes the *)
(* smallest.                                                               *)
LEMMA SizeIsPositive ==
  ASSUME vocab \in Vocabularies
  PROVE  /\ Size \in Nat \ {0} /\ Len(vocab) \in Nat
         /\ DOMAIN vocab = 1 .. Len(vocab)
         /\ \A i \in 1 .. Len(vocab) : Hash(B(i)) \in Nat
<1> DEFINE S == {p \in PowersOfTwo : p >= Needed(Len(vocab))}
<1>1. S \in SUBSET Nat /\ S # {} /\ S \subseteq Nat \ {0}
  BY VocabularyAssumption DEF VocabularyAssumption
<1>2. Min(S) \in S
  BY <1>1, MinOfNat
<1>3. Size = Min(S)
  BY DEF Size, TableSize
<1>4. Len(vocab) \in Nat /\ DOMAIN vocab = 1 .. Len(vocab)
  BY VocabularyAssumption DEF VocabularyAssumption
<1> QED
  BY <1>1, <1>2, <1>3, <1>4, HashAssumption DEF HashAssumption, B

(* A chain stays inside the table. *)
LEMMA AtInTable ==
  ASSUME vocab \in Vocabularies, NEW i \in 1 .. Len(vocab), NEW k \in Nat
  PROVE  At(B(i), k) \in 0 .. Size - 1
<1>1. Size \in Nat \ {0} /\ Hash(B(i)) + k \in Nat
  BY SizeIsPositive
<1>2. \A x \in Nat, n \in Nat \ {0} : x % n \in 0 .. n - 1
  OBVIOUS
<1> QED
  BY <1>1, <1>2 DEF At

(* Where an insertion ends: at a place of the chain that is empty or holds *)
(* the token, behind places that are taken by others.                      *)
LEMMA PlaceFacts ==
  ASSUME vocab \in Vocabularies, NEW bytes, Place(bytes) # {}
  PROVE  LET k == Min(Place(bytes))
         IN /\ k \in 0 .. Size - 1
            /\ slots[At(bytes, k)] = None \/ Same(slots[At(bytes, k)], bytes)
            /\ \A j \in 0 .. k - 1 :
                 slots[At(bytes, j)] # None /\ ~Same(slots[At(bytes, j)], bytes)
<1> DEFINE k == Min(Place(bytes))
<1>1. Size \in Nat
  BY SizeIsPositive
<1>2. Place(bytes) \in SUBSET Nat /\ Place(bytes) \subseteq 0 .. Size - 1
  BY <1>1 DEF Place, Stops
<1>3. k \in Place(bytes) /\ \A j \in Place(bytes) : k <= j
  BY <1>2, MinOfNat
<1>4. ASSUME NEW j \in 0 .. k - 1 PROVE j \notin Place(bytes) /\ j \in 0 .. Size - 1
  BY <1>1, <1>2, <1>3
<1> QED
  BY <1>2, <1>3, <1>4 DEF Place, Stops

-----------------------------------------------------------------------------
(* Types *)

LEMMA InitTypeOK == Init => TypeOK
<1> SUFFICES ASSUME Init PROVE TypeOK
  OBVIOUS
<1>1. Size \in Nat \ {0} /\ Len(vocab) \in Nat
  BY SizeIsPositive DEF Init
<1>2. slots \in [0 .. Size - 1 -> 0 .. Len(vocab)]
  BY <1>1 DEF Init, None
<1>3. maxProbe \in 0 .. Size /\ hashed \in 0 .. Len(vocab) /\ threaded \in 0 .. Len(vocab)
  BY <1>1 DEF Init
<1> QED
  BY <1>2, <1>3 DEF Init, TypeOK

(* An insertion writes one slot of the table and raises the probe to at    *)
(* most the table's size.                                                  *)
LEMMA InsertHashTypeOK ==
  ASSUME TypeOK, InsertHash
  PROVE  TypeOK'
<1> DEFINE bytes == Bytes(vocab[hashed + 1])
           k == Min(Place(bytes))
<1>0. vocab \in Vocabularies /\ vocab' = vocab /\ Size' = Size
  BY DEF TypeOK, InsertHash, Size
<1>1. Size \in Nat \ {0} /\ Len(vocab) \in Nat
  BY <1>0, SizeIsPositive
<1>2. hashed + 1 \in 1 .. Len(vocab) /\ bytes = B(hashed + 1)
  BY <1>1 DEF TypeOK, InsertHash, B
<1>3. Place(bytes) # {}
  BY DEF InsertHash
<1>4. k \in 0 .. Size - 1
  BY <1>0, <1>3, PlaceFacts
<1>5. Longest(maxProbe, Probes(k)) \in 0 .. Size
  BY <1>1, <1>4 DEF TypeOK, Longest, Probes
<1>6. CASE slots[At(bytes, k)] = None
  <2>1. /\ slots' = [slots EXCEPT ![At(bytes, k)] = hashed + 1]
        /\ maxProbe' = Longest(maxProbe, Probes(k))
        /\ hashed' = hashed + 1 /\ threaded' = threaded /\ raised' = raised
    BY <1>6 DEF InsertHash
  <2>2. slots' \in [0 .. Size - 1 -> 0 .. Len(vocab)]
    BY <2>1, <1>1, <1>2 DEF TypeOK
  <2> QED
    BY <2>1, <2>2, <1>0, <1>1, <1>2, <1>5 DEF TypeOK
<1>7. CASE slots[At(bytes, k)] # None
  BY <1>0, <1>7 DEF InsertHash, TypeOK
<1> QED
  BY <1>6, <1>7

(* Every other step leaves the hash table alone. *)
LEMMA NextTypeOK ==
  ASSUME TypeOK, [Next]_vars
  PROVE  TypeOK'
<1>1. CASE InsertHash
  BY <1>1, InsertHashTypeOK
<1>2. CASE InsertTrie
  <2>1. /\ UNCHANGED <<vocab, slots, maxProbe, hashed>> /\ Size' = Size
        /\ threaded < Len(vocab) /\ threaded' \in {threaded, threaded + 1}
    BY <1>2 DEF InsertTrie, Size
  <2>2. Len(vocab) \in Nat
    BY SizeIsPositive DEF TypeOK
  <2>3. threaded' \in 0 .. Len(vocab)
    BY <2>1, <2>2 DEF TypeOK
  <2>4. raised' \in BOOLEAN
    BY <1>2, Zenon DEF InsertTrie, TypeOK
  <2> QED
    BY <2>1, <2>3, <2>4 DEF TypeOK
<1>3. CASE Over \/ UNCHANGED vars
  BY <1>3 DEF Over, vars, TypeOK, Size
<1> QED
  BY <1>1, <1>2, <1>3 DEF Next

(* Whatever the tokens and the hash, the table never overflows, holds only *)
(* ids of the list, and no recorded probe exceeds its size.                *)
THEOREM TypeCorrect == Spec => []TypeOK
<1>1. Init => TypeOK
  BY InitTypeOK
<1>2. TypeOK /\ [Next]_vars => TypeOK'
  BY NextTypeOK
<1> QED
  BY <1>1, <1>2, PTL DEF Spec

-----------------------------------------------------------------------------
(* Chains *)

(* The token of id i stands in the k-th slot of its chain, behind slots    *)
(* that others took.                                                       *)
Stands(i, k) ==
  /\ slots[At(B(i), k)] = i
  /\ \A j \in 0 .. k - 1 : slots[At(B(i), j)] # None /\ ~Same(slots[At(B(i), j)], B(i))

(* Every token that went in stands in its chain within the recorded probe. *)
(* EveryTokenFound alone is not inductive: it does not say that the slots  *)
(* a lookup passes stay filled.                                            *)
ChainInv ==
  /\ \A p \in 0 .. Size - 1 : slots[p] <= hashed
  /\ \A i \in 1 .. hashed : \E k \in 0 .. maxProbe - 1 : Stands(i, k)

(* An insertion fills an empty slot, so it breaks no chain, and its own    *)
(* token stands where it stopped.                                          *)
LEMMA InsertHashChain ==
  ASSUME TypeOK, ChainInv, InsertHash
  PROVE  ChainInv'
<1> DEFINE bytes == Bytes(vocab[hashed + 1])
           k == Min(Place(bytes))
           here == At(bytes, k)
<1>0. vocab \in Vocabularies /\ vocab' = vocab /\ Size' = Size
  BY DEF TypeOK, InsertHash, Size
<1>1. Size \in Nat \ {0} /\ Len(vocab) \in Nat
  BY <1>0, SizeIsPositive
<1>2. hashed + 1 \in 1 .. Len(vocab) /\ bytes = B(hashed + 1) /\ hashed \in Nat
  BY <1>1 DEF TypeOK, InsertHash, B
<1>3. /\ k \in 0 .. Size - 1
      /\ \A j \in 0 .. k - 1 : slots[At(bytes, j)] # None /\ ~Same(slots[At(bytes, j)], bytes)
  BY <1>0, PlaceFacts DEF InsertHash
<1>4. \A i : B(i)' = B(i)
  BY <1>0 DEF B
<1>5. \A b, j : At(b, j)' = At(b, j)
  BY <1>0 DEF At
<1>6. \A i, b : Same(i, b)' = Same(i, b)
  BY <1>0 DEF Same
<1>7. CASE slots[here] # None
  <2>1. UNCHANGED <<slots, maxProbe, hashed>>
    BY <1>7 DEF InsertHash
  <2> QED
    BY <2>1, <1>0, <1>4, <1>5, <1>6 DEF ChainInv, Stands
<1>8. CASE slots[here] = None
  <2>1. /\ slots' = [slots EXCEPT ![here] = hashed + 1]
        /\ maxProbe' = Longest(maxProbe, k + 1) /\ hashed' = hashed + 1
    BY <1>8 DEF InsertHash, Probes
  <2>2. here \in 0 .. Size - 1
    BY <1>0, <1>2, <1>3, AtInTable
  <2>3. maxProbe \in Nat /\ maxProbe' \in Nat /\ maxProbe' >= maxProbe /\ maxProbe' >= k + 1
    BY <2>1, <1>1, <1>3 DEF TypeOK, Longest
  <2>9. \A n \in 0 .. maxProbe - 1 : n \in Nat /\ n \in 0 .. maxProbe' - 1
    <3>1. \A x, y \in Nat : x <= y => \A n \in 0 .. x - 1 : n \in Nat /\ n \in 0 .. y - 1
      OBVIOUS
    <3> QED
      BY <3>1, <2>3
  <2>4. ASSUME NEW p \in 0 .. Size - 1
        PROVE  slots'[p] <= hashed'
    BY <2>1, <2>2, <1>1, <1>2 DEF ChainInv, TypeOK
  <2>5. \A p \in 0 .. Size - 1 : slots[p] # None => slots'[p] = slots[p]
    BY <2>1, <2>2, <1>8 DEF TypeOK
  <2>6. ASSUME NEW i \in 1 .. hashed
        PROVE  \E n \in 0 .. maxProbe' - 1 : Stands(i, n)'
    <3>1. PICK n \in 0 .. maxProbe - 1 : Stands(i, n)
      BY DEF ChainInv
    <3>2. i \in 1 .. Len(vocab) /\ i # None
      BY <1>2 DEF None
    <3>3. \A j \in 0 .. n : At(B(i), j) \in 0 .. Size - 1
      BY <1>0, <3>2, AtInTable
    <3>4. n \in Nat /\ n \in 0 .. maxProbe' - 1
      BY <2>9, <3>1
    <3>5. slots'[At(B(i), n)] = i
      BY <3>1, <3>2, <3>3, <3>4, <2>5 DEF Stands
    <3>6. \A j \in 0 .. n - 1 : slots'[At(B(i), j)] = slots[At(B(i), j)]
      BY <3>1, <3>3, <3>4, <2>5 DEF Stands
    <3>7. Stands(i, n)'
      BY <3>1, <3>5, <3>6, <1>4, <1>5, <1>6 DEF Stands
    <3> QED
      BY <3>4, <3>7
  <2>7. ASSUME NEW i \in 1 .. Len(vocab), i = hashed + 1
        PROVE  \E n \in 0 .. maxProbe' - 1 : Stands(i, n)'
    <3>1. PICK n \in 0 .. Size - 1 : n = k
      BY <1>3
    <3>2. n \in 0 .. maxProbe' - 1 /\ \A j \in 0 .. n - 1 : j \in Nat
      BY <2>3, <3>1, <1>1
    <3>3. \A j \in 0 .. n - 1 : At(B(i), j) \in 0 .. Size - 1
      BY <1>0, <3>2, AtInTable
    <3>4. \A j \in 0 .. n - 1 : slots'[At(B(i), j)] = slots[At(B(i), j)]
      BY <3>1, <3>3, <1>2, <1>3, <2>5, <2>7
    <3>5. slots'[At(B(i), n)] = i
      BY <3>1, <2>1, <2>2, <2>7, <1>2 DEF TypeOK
    <3>6. \A j \in 0 .. n - 1 : slots'[At(B(i), j)] # None /\ ~Same(slots'[At(B(i), j)], B(i))
      BY <3>1, <3>4, <1>2, <1>3, <2>7
    <3>7. Stands(i, n)'
      BY <3>5, <3>6, <1>4, <1>5, <1>6 DEF Stands
    <3> QED
      BY <3>2, <3>7
  <2>8. \A i \in 1 .. hashed' : \E n \in 0 .. maxProbe' - 1 : Stands(i, n)'
    <3>1. \A i \in 1 .. hashed + 1 : i \in 1 .. hashed \/ i = hashed + 1
      BY <1>2
    <3>2. hashed + 1 \in 1 .. Len(vocab)
      BY <1>2
    <3> SUFFICES ASSUME NEW i \in 1 .. hashed + 1
                 PROVE  \E n \in 0 .. maxProbe' - 1 : Stands(i, n)'
      BY <2>1
    <3> QED
      BY <3>1, <3>2, <2>6, <2>7
  <2> QED
    BY <2>4, <2>8, <1>0 DEF ChainInv
<1> QED
  BY <1>7, <1>8

LEMMA NextChain ==
  ASSUME TypeOK, ChainInv, [Next]_vars
  PROVE  ChainInv'
<1>1. CASE InsertHash
  BY <1>1, InsertHashChain
<1>2. CASE InsertTrie \/ Over \/ UNCHANGED vars
  <2>1. UNCHANGED <<vocab, slots, maxProbe, hashed>>
    BY <1>2 DEF InsertTrie, Over, vars
  <2> QED
    BY <2>1 DEF ChainInv, Stands, Size, At, B, Same
<1> QED
  BY <1>1, <1>2 DEF Next

(* Chains hold in every state of a build. *)
LEMMA ChainsHold == Spec => []ChainInv
<1>1. Init => ChainInv
  <2> SUFFICES ASSUME Init PROVE ChainInv
    OBVIOUS
  <2>1. slots = [p \in 0 .. Size - 1 |-> 0] /\ hashed = 0
    BY DEF Init, None
  <2> QED
    BY <2>1 DEF ChainInv
<1>2. TypeOK /\ ChainInv /\ [Next]_vars => ChainInv'
  BY NextChain
<1> QED
  BY <1>1, <1>2, TypeCorrect, PTL DEF Spec

(* A lookup walks the chain to the token and stops there. *)
LEMMA StandingIsFound ==
  ASSUME TypeOK, ChainInv, NEW i \in 1 .. hashed
  PROVE  Lookup(B(i)) = i
<1> DEFINE S == Stops(B(i), maxProbe)
<1>1. PICK k \in 0 .. maxProbe - 1 : Stands(i, k)
  BY DEF ChainInv
<1>2. S \in SUBSET Nat
  BY DEF Stops, TypeOK
<1>3. k \in S
  BY <1>1 DEF Stops, Stands, Same, B
<1>4. Min(S) \in S /\ Min(S) <= k
  BY <1>2, <1>3, MinOfNat
<1>5. \A j \in 0 .. k - 1 : j \notin S
  BY <1>1 DEF Stands, Stops
<1>6. Min(S) = k
  BY <1>2, <1>4, <1>5
<1> QED
  BY <1>1, <1>3, <1>6 DEF Lookup, Stands

(* For every list of tokens and every hash function: whatever is in the    *)
(* table is found under its id by the reader, at every moment of a build.  *)
THEOREM TokensFound == Spec => []EveryTokenFound
<1>1. TypeOK /\ ChainInv => EveryTokenFound
  BY StandingIsFound DEF EveryTokenFound, B
<1> QED
  BY <1>1, TypeCorrect, ChainsHold, PTL

(* The writer never stores a token twice: the second one walks the chain   *)
(* of the first and meets it.                                              *)
THEOREM NoDuplicates == Spec => []NoDuplicateStored
<1>1. TypeOK /\ ChainInv => NoDuplicateStored
  <2> SUFFICES ASSUME TypeOK, ChainInv, NEW i \in 1 .. hashed, NEW j \in 1 .. hashed,
                      Bytes(vocab[i]) = Bytes(vocab[j])
               PROVE  i = j
    BY DEF NoDuplicateStored
  <2>1. Lookup(B(i)) = i /\ Lookup(B(j)) = j
    BY StandingIsFound
  <2> QED
    BY <2>1 DEF B
<1> QED
  BY <1>1, TypeCorrect, ChainsHold, PTL

-----------------------------------------------------------------------------
(* Room in the table *)

(* The table is larger than the list, by the load factor the loader checks. *)
LEMMA SizeLeavesRoom ==
  ASSUME vocab \in Vocabularies
  PROVE  Len(vocab) < Size /\ Len(vocab) * 100 <= Size * 70
<1> DEFINE n == Len(vocab)
           S == {p \in PowersOfTwo : p >= Needed(n)}
           q == (10 * n + 6) \div 7
<1>1. S \in SUBSET Nat /\ S # {}
  BY VocabularyAssumption DEF VocabularyAssumption
<1>2. Min(S) \in S
  BY <1>1, MinOfNat
<1>3. Size = Min(S)
  BY DEF Size, TableSize
<1>4. Size \in Nat /\ Size >= Needed(n) /\ n \in Nat
  BY <1>1, <1>2, <1>3, SizeIsPositive
<1>5. q \in Nat /\ q * 7 + 6 >= 10 * n + 6 /\ Needed(n) = q + 1
  <2> DEFINE m == 10 * n + 6
  <2>1. m \in Nat
    BY <1>4
  <2> HIDE DEF m
  <2>2. m \div 7 \in Nat /\ m % 7 \in 0 .. 6 /\ m = (m \div 7) * 7 + (m % 7)
    BY <2>1, DivMod
  <2>3. m \div 7 \in Nat /\ (m \div 7) * 7 + 6 >= m
    BY <2>1, <2>2
  <2> QED BY <2>3 DEF m, Needed
<1> HIDE DEF q, n
<1> QED BY <1>4, <1>5 DEF n

(* From a place of the table each other one is some steps away. *)
LEMMA StepsTo ==
  ASSUME NEW n \in Nat \ {0}, NEW h \in Nat, NEW p \in 0 .. n - 1
  PROVE  \E k \in 0 .. n - 1 : (h + k) % n = p
<1> DEFINE q == h \div n
           r == h % n
<1>1. q \in Nat /\ r \in 0 .. n - 1 /\ h = q * n + r
  BY DivMod
<1> HIDE DEF q, r
<1>2. CASE p >= r
  <2> DEFINE k == p - r
  <2>1. k \in 0 .. n - 1 /\ h + k = q * n + p
    BY <1>1, <1>2
  <2>2. (q * n + p) % n = p
    BY <1>1, RowAndColumn
  <2> QED BY <2>1, <2>2
<1>3. CASE ~(p >= r)
  <2> DEFINE k == p - r + n
             o == q + 1
  <2>1. k \in 0 .. n - 1 /\ o \in Nat
    BY <1>1, <1>3
  <2>2. h + k = o * n + p
    BY <1>1
  <2>3. (o * n + p) % n = p
    BY <2>1, RowAndColumn
  <2> QED BY <2>1, <2>2, <2>3
<1> QED BY <1>2, <1>3

(* No id is in two slots. *)
DistinctIds ==
  \A p, q \in 0 .. Size - 1 : slots[p] # None /\ slots[p] = slots[q] => p = q

LEMMA NextDistinct ==
  ASSUME TypeOK, ChainInv, DistinctIds, [Next]_vars
  PROVE  DistinctIds'
<1>1. CASE InsertHash
  <2> DEFINE bytes == Bytes(vocab[hashed + 1])
             here == At(bytes, Min(Place(bytes)))
  <2>0. Size' = Size
    BY <1>1 DEF InsertHash, Size
  <2>1. CASE slots[here] # None
    BY <1>1, <2>0, <2>1 DEF InsertHash, DistinctIds
  <2>2. CASE slots[here] = None
    <3>1. slots' = [slots EXCEPT ![here] = hashed + 1]
      BY <1>1, <2>2 DEF InsertHash
    <3>2. \A p \in 0 .. Size - 1 : slots[p] \in Nat /\ slots[p] <= hashed /\ hashed \in Nat
      BY SizeIsPositive DEF TypeOK, ChainInv
    <3> HIDE DEF here
    <3>3. \A p \in 0 .. Size - 1 : slots'[p] = IF p = here THEN hashed + 1 ELSE slots[p]
      BY <3>1 DEF TypeOK
    <3> SUFFICES ASSUME NEW p \in 0 .. Size - 1, NEW q \in 0 .. Size - 1,
                        slots'[p] # None, slots'[p] = slots'[q]
                 PROVE  p = q
      BY <2>0 DEF DistinctIds
    <3> QED BY <3>2, <3>3 DEF DistinctIds
  <2> QED BY <2>1, <2>2
<1>2. CASE InsertTrie \/ Over \/ UNCHANGED vars
  <2>1. UNCHANGED <<vocab, slots>>
    BY <1>2 DEF InsertTrie, Over, vars
  <2> QED BY <2>1 DEF DistinctIds, Size
<1> QED BY <1>1, <1>2 DEF Next

LEMMA DistinctHold == Spec => []DistinctIds
<1>1. Init => DistinctIds
  BY DEF Init, DistinctIds
<1>2. TypeOK /\ ChainInv /\ DistinctIds /\ [Next]_vars => DistinctIds'
  BY NextDistinct
<1> QED BY <1>1, <1>2, TypeCorrect, ChainsHold, PTL DEF Spec

(* A token that is still to go in meets an empty slot or its copy. *)
MeetsHole ==
  hashed < Len(vocab) => \A i \in DOMAIN vocab : Place(B(i)) # {}

LEMMA HoleLeft ==
  ASSUME TypeOK, ChainInv, DistinctIds
  PROVE  MeetsHole
<1> SUFFICES ASSUME hashed < Len(vocab), NEW i \in DOMAIN vocab, Place(B(i)) = {}
             PROVE  FALSE
  BY DEF MeetsHole
<1> DEFINE S == 0 .. Size - 1
           T == 1 .. hashed
<1>1. /\ Size \in Nat \ {0} /\ Len(vocab) \in Nat /\ Len(vocab) < Size /\ Hash(B(i)) \in Nat
      /\ hashed \in Nat
  BY SizeIsPositive, SizeLeavesRoom DEF TypeOK
<1>2. \A p \in S : slots[p] # None
  <2> SUFFICES ASSUME NEW p \in S, slots[p] = None PROVE FALSE
    OBVIOUS
  <2>1. PICK k \in 0 .. Size - 1 : (Hash(B(i)) + k) % Size = p
    BY <1>1, StepsTo
  <2> QED BY <2>1 DEF Place, Stops, At
<1>3. slots \in [S -> T]
  <2>1. \A p \in S : slots[p] \in T
    BY <1>1, <1>2 DEF TypeOK, ChainInv, None
  <2> QED BY <2>1 DEF TypeOK
<1>4. IsFiniteSet(S) /\ Cardinality(S) = Size
  BY <1>1, FS_Interval
<1>5. IsFiniteSet(T) /\ Cardinality(T) = hashed
  BY <1>1, FS_Interval
<1>6. \E x, y \in S : x # y /\ slots[x] = slots[y]
  <2>1. Cardinality(T) < Cardinality(S)
    BY <1>1, <1>4, <1>5
  <2> HIDE DEF S, T
  <2> QED BY <1>3, <1>4, <1>5, <2>1, FS_PigeonHole
<1> QED BY <1>2, <1>6 DEF DistinctIds

(* Ruby's loop in HashTable.insert ends: whatever the tokens and the hash,  *)
(* a chain that is followed far enough meets an empty slot or a copy.       *)
THEOREM InsertionEnds == Spec => []MeetsHole
<1> QED BY TypeCorrect, ChainsHold, DistinctHold, HoleLeft, PTL

-----------------------------------------------------------------------------
(* The loader's checks of the table *)

(* What the loader recomputes of a slot: how far it is from its home. *)
LEMMA StepsBack ==
  ASSUME NEW n \in Nat \ {0}, NEW h \in Nat, NEW k \in 0 .. n - 1
  PROVE  (((h + k) % n) - (h % n)) % n = k
<1> DEFINE q == h \div n
           r == h % n
           o == q + 1
           s == r + k - n
           t == r + k
<1>1. q \in Nat /\ r \in 0 .. n - 1 /\ h = q * n + r
  BY DivMod
<1> HIDE DEF q, r
<1>2. CASE t < n
  <2>1. h + k = q * n + t /\ t \in 0 .. n - 1
    BY <1>1, <1>2
  <2>2. (q * n + t) % n = t
    <3> HIDE DEF t
    <3> QED BY <1>1, <2>1, RowAndColumn
  <2>3. k % n = k
    OBVIOUS
  <2>4. (h + k) % n = t /\ t - r = k
    BY <1>1, <2>1, <2>2
  <2> QED BY <2>3, <2>4 DEF r
<1>3. CASE ~(t < n)
  <2>1. h + k = o * n + s /\ s \in 0 .. n - 1 /\ o \in Nat
    BY <1>1, <1>3
  <2>2. (o * n + s) % n = s
    <3> HIDE DEF s, o
    <3> QED BY <2>1, RowAndColumn
  <2>3. (k - n) % n = k
    OBVIOUS
  <2>4. (h + k) % n = s /\ s - r = k - n
    BY <1>1, <2>1, <2>2
  <2> QED BY <2>3, <2>4 DEF r
<1> QED BY <1>2, <1>3

(* The tries come behind the table. *)
TableFirst == threaded > 0 => hashed = Len(vocab)

LEMMA TableComesFirst == Spec => []TableFirst
<1>1. Init => TableFirst
  BY DEF Init, TableFirst
<1>2. TypeOK /\ TableFirst /\ [Next]_vars => TableFirst'
  <2> SUFFICES ASSUME TypeOK, TableFirst, [Next]_vars PROVE TableFirst'
    OBVIOUS
  <2>1. CASE InsertHash
    <3>0. hashed < Len(vocab) /\ Len(vocab) \in Nat /\ hashed \in Nat
      BY <2>1, SizeIsPositive DEF InsertHash, TypeOK
    <3>1. ~(threaded > 0)
      BY <3>0 DEF TableFirst
    <3> QED BY <2>1, <3>1 DEF InsertHash, TableFirst
  <2>2. CASE InsertTrie
    BY <2>2 DEF InsertTrie, TableFirst
  <2>3. CASE Over \/ UNCHANGED vars
    BY <2>3 DEF Over, vars, TableFirst
  <2> QED BY <2>1, <2>2, <2>3 DEF Next
<1> QED BY <1>1, <1>2, TypeCorrect, PTL DEF Spec

LEMMA TableIsComplete ==
  ASSUME TypeOK, ChainInv, DistinctIds, hashed = Len(vocab)
  PROVE  TableLoads
<1> DEFINE filled == {p \in DOMAIN slots : slots[p] # None}
           home(p) == Hash(Bytes(vocab[slots[p]])) % Size
<1>1. /\ Size \in Nat \ {0} /\ Len(vocab) \in Nat /\ DOMAIN vocab = 1 .. Len(vocab)
      /\ \A i \in 1 .. Len(vocab) : Hash(B(i)) \in Nat
      /\ DOMAIN slots = 0 .. Size - 1 /\ vocab \in Vocabularies /\ maxProbe \in 0 .. Size
  BY SizeIsPositive DEF TypeOK
<1>2. PICK u \in DOMAIN vocab : vocab[u] = UnkToken
  BY <1>1, VocabularyAssumption DEF VocabularyAssumption
<1>3. ASSUME NEW i \in DOMAIN vocab
      PROVE  \E k \in 0 .. maxProbe - 1 : Stands(i, k) /\ At(B(i), k) \in filled
  <2>1. PICK k \in 0 .. maxProbe - 1 : Stands(i, k)
    BY <1>1 DEF ChainInv
  <2>2. i \in 1 .. Len(vocab) /\ k \in Nat /\ i # None
    BY <1>1 DEF None
  <2>3. At(B(i), k) \in 0 .. Size - 1
    BY <1>1, <2>2, AtInTable
  <2> QED BY <1>1, <2>1, <2>2, <2>3 DEF Stands
<1>4. maxProbe \in 1 .. Size
  BY <1>1, <1>2, <1>3
<1>5. {slots[p] : p \in filled} = DOMAIN vocab
  <2>1. \A p \in filled : slots[p] \in DOMAIN vocab
    BY <1>1 DEF TypeOK, None
  <2>2. \A i \in DOMAIN vocab : \E p \in filled : slots[p] = i
    BY <1>3 DEF Stands
  <2> QED BY <2>1, <2>2
<1>6. \A p, q \in filled : slots[p] = slots[q] => p = q
  BY <1>1 DEF DistinctIds
<1>7. Lookup(Bytes(UnkToken)) = Unk
  <2>1. Lookup(B(u)) = u /\ B(u) = Bytes(UnkToken)
    BY <1>1, <1>2, StandingIsFound DEF B
  <2> DEFINE I == {i \in DOMAIN vocab : vocab[i] = UnkToken}
  <2>2. \A i \in I : i = u
    BY <1>1, <2>1, StandingIsFound DEF B
  <2>3. I \in SUBSET Nat /\ u \in I
    BY <1>1, <1>2
  <2>4. Min(I) = u
    <3> HIDE DEF I
    <3> QED BY <2>2, <2>3, MinOfNat
  <2> QED BY <2>1, <2>4 DEF Unk, Id
<1>8. ASSUME NEW p \in filled
      PROVE  Probes((p - home(p)) % Size) <= maxProbe
  <2>1. PICK i \in DOMAIN vocab : i = slots[p]
    BY <1>5
  <2>2. PICK k \in 0 .. maxProbe - 1 : Stands(i, k) /\ At(B(i), k) \in filled
    BY <1>3
  <2>3. p = At(B(i), k)
    BY <1>6, <2>1, <2>2 DEF Stands
  <2> DEFINE h == Hash(B(i))
  <2>4. h \in Nat /\ k \in 0 .. Size - 1
    BY <1>1, <1>4
  <2>5. p = (h + k) % Size /\ home(p) = h % Size
    BY <2>1, <2>3 DEF At, B
  <2>6. (p - home(p)) % Size = k
    <3> DEFINE n == Size
    <3> HIDE DEF h, n, home
    <3>1. n \in Nat \ {0} /\ k \in 0 .. n - 1 /\ p = (h + k) % n /\ home(p) = h % n
      BY <1>1, <2>4, <2>5 DEF n
    <3>2. (((h + k) % n) - (h % n)) % n = k
      BY <2>4, <3>1, StepsBack
    <3> QED BY <3>1, <3>2 DEF n
  <2> QED BY <1>4, <2>6 DEF Probes
<1> QED BY <1>4, <1>5, <1>6, <1>7, <1>8, SizeLeavesRoom, <1>1 DEF TableLoads

(* The loader takes every table the writer finishes: its size and load,     *)
(* every id once, [UNK] under its own and no slot farther from its home     *)
(* than max_probe says.                                                     *)
THEOREM TablesLoad == Spec => [](Built => TableLoads)
<1>1. TypeOK /\ ChainInv /\ DistinctIds /\ TableFirst => (Built => TableLoads)
  <2> SUFFICES ASSUME TypeOK, ChainInv, DistinctIds, TableFirst, Built PROVE TableLoads
    OBVIOUS
  <2>1. Len(vocab) > 0
    BY SizeIsPositive, VocabularyAssumption DEF TypeOK, VocabularyAssumption
  <2>2. hashed = Len(vocab)
    BY <2>1 DEF TableFirst, Built
  <2> QED BY <2>2, TableIsComplete
<1> QED BY <1>1, TypeCorrect, ChainsHold, DistinctHold, TableComesFirst, PTL

-----------------------------------------------------------------------------
(* Sequences of sequences *)

IsFlat(h, seqs) ==
  h = [i \in 1 .. Len(seqs) |-> IF i = 1 THEN seqs[i] ELSE h[i - 1] \o seqs[i]]

LEMMA FlattenIsFlat ==
  ASSUME NEW seqs, Len(seqs) # 0, \E h : IsFlat(h, seqs)
  PROVE  \E h : IsFlat(h, seqs) /\ FlattenSeq(seqs) = h[Len(seqs)]
<1> DEFINE f == CHOOSE h : IsFlat(h, seqs)
<1>1. IsFlat(f, seqs)
  OBVIOUS
<1>2. FlattenSeq(seqs) = f[Len(seqs)]
  BY DEF FlattenSeq, IsFlat
<1> QED BY <1>1, <1>2

LEMMA FlatExists ==
  ASSUME NEW seqs, Len(seqs) \in Nat
  PROVE  \E h : IsFlat(h, seqs)
<1> DEFINE D == 1 .. Len(seqs)
           Turn(h) == [i \in D |-> IF i = 1 THEN seqs[i] ELSE h[i - 1] \o seqs[i]]
           Upto(h, n) == \A i \in D : i <= n => h[i] = Turn(h)[i]
           P == {n \in Nat : \E h : Upto(h, n)}
<1>n. ASSUME NEW h, NEW n \in Nat, Upto(h, n)
      PROVE  \A i \in D : i <= n + 1 => Turn(h)[i] = Turn(Turn(h))[i]
  <2> TAKE i \in D
  <2> HAVE i <= n + 1
  <2>1. CASE i = 1
    BY <2>1
  <2>2. CASE i # 1
    <3>1. i - 1 \in D /\ i - 1 <= n
      BY <2>2
    <3>2. h[i - 1] = Turn(h)[i - 1]
      BY <3>1, <1>n
    <3> QED BY <2>2, <3>2
  <2> QED BY <2>1, <2>2
<1>1. 0 \in P
  <2> DEFINE z == [i \in D |-> seqs[i]]
  <2>1. Upto(z, 0)
    OBVIOUS
  <2> QED BY <2>1
<1>2. \A n \in P : n + 1 \in P
  <2> TAKE n \in P
  <2>1. PICK h : Upto(h, n)
    OBVIOUS
  <2>2. Upto(Turn(h), n + 1)
    <3> HIDE DEF Turn
    <3>1. n \in Nat
      OBVIOUS
    <3>2. \A i \in D : i <= n + 1 => Turn(h)[i] = Turn(Turn(h))[i]
      <4> HIDE DEF Upto, P
      <4> QED BY <3>1, <1>n, <2>1
    <3> QED BY <3>2, Zenon
  <2> HIDE DEF Turn, Upto
  <2>3. \E k : Upto(k, n + 1)
    BY <2>2, Zenon
  <2> QED BY <2>3
<1>3. P = Nat
  <2> HIDE DEF P
  <2>1. P \in SUBSET Nat
    BY DEF P
  <2> QED BY <2>1, <1>1, <1>2, NatInduct
<1>4. PICK h : Upto(h, Len(seqs))
  BY <1>3
<1>5. Turn(h) = Turn(Turn(h))
  <2>1. \A i \in D : Turn(h)[i] = Turn(Turn(h))[i]
    BY <1>4, <1>n
  <2> QED BY <2>1
<1> QED BY <1>5 DEF IsFlat

(* What was joined after each of them *)
Joining(g, seqs, S) ==
  /\ g[0] = <<>>
  /\ \A i \in 0 .. Len(seqs) : g[i] \in Seq(S)
  /\ \A i \in 1 .. Len(seqs) : g[i] = g[i - 1] \o seqs[i]

LEMMA FlattenIs ==
  ASSUME NEW S, NEW seqs \in Seq(Seq(S))
  PROVE  \E g : Joining(g, seqs, S) /\ FlattenSeq(seqs) = g[Len(seqs)]
<1>0. Len(seqs) \in Nat /\ \A i \in 1 .. Len(seqs) : seqs[i] \in Seq(S)
  OBVIOUS
<1>1. CASE Len(seqs) = 0
  <2> DEFINE g == [i \in 0 .. 0 |-> <<>>]
  <2>1. FlattenSeq(seqs) = <<>>
    BY <1>1 DEF FlattenSeq
  <2>2. Joining(g, seqs, S)
    BY <1>1 DEF Joining
  <2>3. g[0] = <<>>
    OBVIOUS
  <2> HIDE DEF g
  <2> QED BY <1>1, <2>1, <2>2, <2>3
<1>2. CASE Len(seqs) # 0
  <2>1. PICK h : IsFlat(h, seqs) /\ FlattenSeq(seqs) = h[Len(seqs)]
    BY <1>0, <1>2, FlatExists, FlattenIsFlat
  <2>2. \A i \in 1 .. Len(seqs) : h[i] = IF i = 1 THEN seqs[i] ELSE h[i - 1] \o seqs[i]
    BY <2>1 DEF IsFlat
  <2> DEFINE g == [i \in 0 .. Len(seqs) |-> IF i = 0 THEN <<>> ELSE h[i]]
  <2>3. g[0] = <<>> /\ \A i \in 1 .. Len(seqs) : g[i] = h[i]
    BY <1>0
  <2>4. ASSUME NEW i \in 1 .. Len(seqs) PROVE g[i] = g[i - 1] \o seqs[i]
    <3>1. CASE i = 1
      <4>1. <<>> \o seqs[1] = seqs[1]
        BY <1>0, <3>1
      <4>2. g[i - 1] = <<>> /\ g[i] = seqs[1]
        BY <2>2, <2>3, <3>1
      <4> QED BY <3>1, <4>1, <4>2
    <3>2. CASE i # 1
      <4>1. i - 1 \in 1 .. Len(seqs)
        BY <1>0, <3>2
      <4> HIDE DEF g
      <4> QED BY <2>2, <2>3, <3>2, <4>1
    <3> QED BY <3>1, <3>2
  <2> HIDE DEF g
  <2> DEFINE P == {n \in Nat : n <= Len(seqs) => g[n] \in Seq(S)}
  <2>5. 0 \in P
    <3>1. <<>> \in Seq(S)
      OBVIOUS
    <3> QED BY <2>3, <3>1
  <2>6. ASSUME NEW n \in P PROVE n + 1 \in P
    <3> SUFFICES ASSUME n + 1 <= Len(seqs) PROVE g[n + 1] \in Seq(S)
      OBVIOUS
    <3>1. n + 1 \in 1 .. Len(seqs) /\ n + 1 - 1 = n /\ g[n] \in Seq(S)
      BY <1>0
    <3> DEFINE i == n + 1
    <3>2. i \in 1 .. Len(seqs) /\ i - 1 = n
      BY <3>1
    <3> HIDE DEF i
    <3>3. g[i] = g[n] \o seqs[i] /\ seqs[i] \in Seq(S)
      BY <1>0, <2>4, <3>2
    <3> QED BY <3>1, <3>3 DEF i
  <2>7. P = Nat
    <3> HIDE DEF P
    <3>1. P \in SUBSET Nat
      BY DEF P
    <3> QED BY <2>5, <2>6, <3>1, NatInduct
  <2>8. \A i \in 0 .. Len(seqs) : g[i] \in Seq(S)
    BY <1>0, <2>7
  <2>9. FlattenSeq(seqs) = g[Len(seqs)]
    BY <1>0, <1>2, <2>1, <2>3
  <2> QED BY <2>3, <2>4, <2>8, <2>9 DEF Joining
<1> QED BY <1>1, <1>2

LEMMA FlattenIn ==
  ASSUME NEW S, NEW seqs \in Seq(Seq(S))
  PROVE  FlattenSeq(seqs) \in Seq(S)
<1>1. PICK g : Joining(g, seqs, S) /\ FlattenSeq(seqs) = g[Len(seqs)]
  BY FlattenIs
<1>2. Len(seqs) \in 0 .. Len(seqs)
  OBVIOUS
<1> QED BY <1>1, <1>2 DEF Joining

(* Where the k-th of the i-th goes *)
LEMMA JoinedAt ==
  ASSUME NEW S, NEW seqs \in Seq(Seq(S)), NEW g, Joining(g, seqs, S), NEW i \in 1 .. Len(seqs),
         NEW h, h = i - 1, NEW k \in 1 .. Len(seqs[i])
  PROVE  /\ Len(g[h]) + k \in 1 .. Len(g[Len(seqs)])
         /\ g[Len(seqs)][Len(g[h]) + k] = seqs[i][k]
<1> DEFINE at == Len(g[h]) + k
           N == Len(seqs)
           P == {n \in Nat : i <= n /\ n <= N => at \in 1 .. Len(g[n]) /\ g[n][at] = seqs[i][k]}
<1>0. N \in Nat /\ i \in 1 .. N
  OBVIOUS
<1>a. ASSUME NEW j \in 1 .. N, NEW n, n = j - 1
      PROVE  g[n] \in Seq(S) /\ seqs[j] \in Seq(S) /\ g[j] = g[n] \o seqs[j]
  <2>1. n \in 0 .. N /\ j - 1 = n
    BY <1>0, <1>a
  <2>2. g[n] \in Seq(S) /\ g[j] = g[n] \o seqs[j]
    BY <2>1 DEF Joining
  <2> QED BY <2>2
<1>2. at \in 1 .. Len(g[i]) /\ g[i][at] = seqs[i][k]
  <2>1. g[h] \in Seq(S) /\ seqs[i] \in Seq(S) /\ g[i] = g[h] \o seqs[i]
    <3> HIDE DEF at, P, N
    <3> QED BY <1>0, <1>a
  <2>3. Len(g[h]) + k \in 1 .. Len(g[h] \o seqs[i]) /\ (g[h] \o seqs[i])[Len(g[h]) + k] = seqs[i][k]
    <3> DEFINE a == g[h]
               b == seqs[i]
    <3>1. a \in Seq(S) /\ b \in Seq(S) /\ k \in 1 .. Len(b)
      BY <2>1
    <3> HIDE DEF at, P, N, a, b
    <3>2. Len(a) + k \in 1 .. Len(a \o b) /\ (a \o b)[Len(a) + k] = b[k]
      BY <3>1
    <3> QED BY <3>2 DEF a, b
  <2> QED BY <2>1, <2>3
<1> HIDE DEF at, N
<1>3. 0 \in P
  BY <1>0
<1>4. ASSUME NEW n \in P PROVE n + 1 \in P
  <2> DEFINE j == n + 1
  <2>0. n \in Nat /\ j \in Nat /\ n = j - 1
    OBVIOUS
  <2> SUFFICES ASSUME i <= j, j <= N
               PROVE  at \in 1 .. Len(g[j]) /\ g[j][at] = seqs[i][k]
    BY <2>0
  <2>1. CASE i = j
    BY <1>2, <2>1
  <2>2. CASE i # j
    <3>1. j \in 1 .. N /\ i <= n /\ n <= N
      BY <1>0, <2>0, <2>2
    <3>2. at \in 1 .. Len(g[n]) /\ g[n][at] = seqs[i][k]
      BY <3>1
    <3> HIDE DEF j, P
    <3>3. g[n] \in Seq(S) /\ seqs[j] \in Seq(S) /\ g[j] = g[n] \o seqs[j]
      BY <1>a, <2>0, <3>1
    <3>5. at \in 1 .. Len(g[n] \o seqs[j]) /\ (g[n] \o seqs[j])[at] = g[n][at]
      <4> DEFINE a == g[n]
                 b == seqs[j]
      <4>1. a \in Seq(S) /\ b \in Seq(S) /\ at \in 1 .. Len(a)
        BY <3>2, <3>3
      <4> HIDE DEF a, b
      <4>2. at \in 1 .. Len(a \o b) /\ (a \o b)[at] = a[at]
        BY <4>1
      <4> QED BY <4>2 DEF a, b
    <3> QED BY <3>2, <3>3, <3>5
  <2> QED BY <2>1, <2>2
<1>5. P = Nat
  <2> HIDE DEF P
  <2>1. P \in SUBSET Nat
    BY DEF P
  <2> QED BY <1>3, <1>4, <2>1, NatInduct
<1>6. N \in Nat /\ i <= N
  BY <1>0
<1>7. at \in 1 .. Len(g[N]) /\ g[N][at] = seqs[i][k]
  BY <1>5, <1>6
<1> QED BY <1>7 DEF at, N

-----------------------------------------------------------------------------
(* Characters and their bytes *)

ByteSet == 0 .. 255

LEMMA FlattenAppend ==
  ASSUME NEW S, NEW a \in Seq(Seq(S)), NEW x \in Seq(S)
  PROVE  FlattenSeq(Append(a, x)) = FlattenSeq(a) \o x
<1> DEFINE c == Append(a, x)
           N == Len(a)
           M == N + 1
<1>0. /\ N \in Nat /\ c \in Seq(Seq(S)) /\ Len(c) = M /\ c[M] = x /\ N = M - 1 /\ M \in 1 .. M
      /\ \A i \in 1 .. N : c[i] = a[i] /\ i \in 1 .. M
  OBVIOUS
<1>1. PICK g : Joining(g, a, S) /\ FlattenSeq(a) = g[N]
  BY FlattenIs
<1> HIDE DEF c, M
<1>2. PICK h : Joining(h, c, S) /\ FlattenSeq(c) = h[Len(c)]
  BY <1>0, FlattenIs
<1> DEFINE P == {n \in Nat : n <= N => h[n] = g[n]}
<1>3. 0 \in P
  BY <1>1, <1>2 DEF Joining
<1>4. ASSUME NEW n \in P PROVE n + 1 \in P
  <2> DEFINE j == n + 1
  <2>0. n \in Nat /\ j \in Nat /\ n = j - 1
    OBVIOUS
  <2> SUFFICES ASSUME j <= N PROVE h[j] = g[j]
    BY <2>0
  <2>1. j \in 1 .. N /\ h[n] = g[n]
    BY <1>0, <2>0
  <2> HIDE DEF j, N, P
  <2>2. g[j] = g[n] \o a[j]
    BY <1>1, <2>0, <2>1 DEF Joining, N
  <2>3. h[j] = h[n] \o c[j] /\ c[j] = a[j]
    BY <1>0, <1>2, <2>0, <2>1 DEF Joining
  <2> QED BY <2>1, <2>2, <2>3
<1>5. P = Nat
  <2> HIDE DEF P
  <2>1. P \in SUBSET Nat
    BY DEF P
  <2> QED BY <1>3, <1>4, <2>1, NatInduct
<1>6. h[N] = g[N]
  BY <1>0, <1>5
<1>7. h[M] = h[N] \o c[M]
  <2> HIDE DEF N
  <2> QED BY <1>0, <1>2 DEF Joining
<1> QED BY <1>0, <1>1, <1>2, <1>6, <1>7 DEF c

LEMMA SubSeqGrows ==
  ASSUME NEW S, NEW b \in Seq(S), NEW k \in 0 .. Len(b), NEW j, j = k + 1, j <= Len(b)
  PROVE  /\ SubSeq(b, 1, k) \in Seq(S) /\ b[j] \in S
         /\ SubSeq(b, 1, j) = Append(SubSeq(b, 1, k), b[j])
<1> DEFINE u == SubSeq(b, 1, k)
           v == SubSeq(b, 1, j)
           z == Append(u, b[j])
<1>1. u \in Seq(S) /\ Len(u) = k /\ \A i \in 1 .. k : u[i] = b[i]
  OBVIOUS
<1>2. v \in Seq(S) /\ Len(v) = j /\ \A i \in 1 .. j : v[i] = b[i]
  OBVIOUS
<1>3. b[j] \in S
  OBVIOUS
<1> HIDE DEF u, v
<1>4. z \in Seq(S) /\ Len(z) = j /\ z[j] = b[j] /\ \A i \in 1 .. k : z[i] = b[i]
  BY <1>1, <1>3
<1>5. \A i \in 1 .. j : v[i] = z[i]
  BY <1>2, <1>4
<1> HIDE DEF z
<1>6. v = z
  BY <1>2, <1>4, <1>5
<1> QED BY <1>1, <1>3, <1>6 DEF u, v, z

(* The bytes of one text after another *)
LEMMA BytesJoin ==
  ASSUME NEW S, NEW a \in Seq(Seq(S)), NEW b \in Seq(Seq(S))
  PROVE  Bytes(a \o b) = Bytes(a) \o Bytes(b)
<1> DEFINE N == Len(b)
           c(k) == SubSeq(b, 1, k)
           P == {k \in Nat : k <= N => Bytes(a \o c(k)) = Bytes(a) \o Bytes(c(k))}
<1>0. N \in Nat /\ Bytes(a) \in Seq(S)
  BY FlattenIn DEF Bytes
<1>1. 0 \in P
  <2>1. c(0) = <<>> /\ a \o <<>> = a
    OBVIOUS
  <2>2. Bytes(<<>>) = <<>>
    BY DEF Bytes, FlattenSeq
  <2>3. Bytes(a) \o <<>> = Bytes(a)
    BY <1>0
  <2> QED BY <2>1, <2>2, <2>3
<1>2. ASSUME NEW k \in P PROVE k + 1 \in P
  <2> DEFINE j == k + 1
             x == b[j]
             d == c(k)
  <2>0. k \in Nat /\ j \in Nat
    OBVIOUS
  <2> SUFFICES ASSUME j <= N PROVE Bytes(a \o c(j)) = Bytes(a) \o Bytes(c(j))
    BY <2>0
  <2>1. k \in 0 .. Len(b) /\ j = k + 1 /\ j <= Len(b)
    BY <1>0, <2>0
  <2>2. d \in Seq(Seq(S)) /\ x \in Seq(S) /\ c(j) = Append(d, x)
    <3> HIDE DEF j
    <3> QED BY <2>1, SubSeqGrows
  <2>3. Bytes(a \o d) = Bytes(a) \o Bytes(d)
    BY <2>1
  <2> HIDE DEF c, d, x, j, P
  <2>4. a \o Append(d, x) = Append(a \o d, x) /\ a \o d \in Seq(Seq(S))
    BY <2>2
  <2>5. Bytes(Append(a \o d, x)) = Bytes(a \o d) \o x /\ Bytes(Append(d, x)) = Bytes(d) \o x
    BY <2>2, <2>4, FlattenAppend DEF Bytes
  <2>6. Bytes(d) \in Seq(S)
    BY <2>2, FlattenIn DEF Bytes
  <2>7. (Bytes(a) \o Bytes(d)) \o x = Bytes(a) \o (Bytes(d) \o x)
    <3> DEFINE u == Bytes(a)
               v == Bytes(d)
    <3>1. u \in Seq(S) /\ v \in Seq(S) /\ x \in Seq(S)
      BY <1>0, <2>2, <2>6
    <3> HIDE DEF u, v
    <3>2. (u \o v) \o x = u \o (v \o x)
      BY <3>1, ConcatAssociative
    <3> QED BY <3>2 DEF u, v
  <2> QED BY <2>2, <2>3, <2>4, <2>5, <2>7
<1>3. P = Nat
  <2> HIDE DEF P
  <2>1. P \in SUBSET Nat
    BY DEF P
  <2> QED BY <1>1, <1>2, <2>1, NatInduct
<1>4. Bytes(a \o c(N)) = Bytes(a) \o Bytes(c(N))
  <2>1. N \in P
    BY <1>0, <1>3
  <2> HIDE DEF c
  <2> QED BY <1>0, <2>1
<1>5. c(N) = b
  BY <1>0
<1> QED BY <1>4, <1>5

LEMMA PrefixIs ==
  ASSUME NEW S, NEW s \in Seq(S), NEW t \in Seq(S)
  PROVE  IsPrefix(s, t) <=> Len(s) <= Len(t) /\ \A i \in 1 .. Len(s) : s[i] = t[i]
<1>1. ASSUME Len(s) <= Len(t)
      PROVE  /\ SubSeq(s, 1, Len(s)) = s /\ SubSeq(t, 1, Len(s)) \in Seq(S)
             /\ Len(SubSeq(t, 1, Len(s))) = Len(s)
             /\ \A i \in 1 .. Len(s) : SubSeq(t, 1, Len(s))[i] = t[i]
  BY <1>1
<1> DEFINE u == SubSeq(t, 1, Len(s))
<1>2. IsPrefix(s, t) <=> Len(s) <= Len(t) /\ SubSeq(s, 1, Len(s)) = u
  BY DEF IsPrefix
<1> HIDE DEF u
<1>3. ASSUME u \in Seq(S), Len(u) = Len(s), \A i \in 1 .. Len(s) : u[i] = t[i]
      PROVE  s = u <=> \A i \in 1 .. Len(s) : s[i] = t[i]
  BY <1>3
<1> QED BY <1>1, <1>2, <1>3 DEF u

LEMMA CharactersAreBytes ==
  /\ \A x \in Characters : x \in Seq(ByteSet) /\ Len(x) \in Nat \ {0}
  /\ \A x, y \in Characters : IsPrefix(x, y) => x = y
  /\ \A t \in Seq(Characters) : t \in Seq(Seq(ByteSet)) /\ Bytes(t) \in Seq(ByteSet)
  /\ \A t \in Seq(Characters) : t # <<>> => Len(Bytes(t)) \in Nat \ {0}
<1>1. /\ Characters \subseteq Seq(ByteSet) \ {<<>>}
      /\ \A x, y \in Characters : IsPrefix(x, y) => x = y
  BY VocabularyAssumption DEF VocabularyAssumption, ByteSet
<1>2. ASSUME NEW x \in Characters PROVE x \in Seq(ByteSet) /\ Len(x) \in Nat \ {0}
  <2>1. x \in Seq(ByteSet) /\ x # <<>>
    BY <1>1
  <2> QED BY <2>1, EmptySeq
<1>3. ASSUME NEW t \in Seq(Characters) PROVE t \in Seq(Seq(ByteSet)) /\ Bytes(t) \in Seq(ByteSet)
  <2>1. Characters \subseteq Seq(ByteSet)
    BY <1>1
  <2>2. t \in Seq(Seq(ByteSet))
    BY <2>1, SeqMonotonic
  <2> QED BY <2>2, FlattenIn DEF Bytes
<1>4. ASSUME NEW t \in Seq(Characters), t # <<>> PROVE Len(Bytes(t)) \in Nat \ {0}
  <2>1. PICK s \in Seq(Characters), x \in Characters : t = Append(s, x)
    BY <1>4, SequenceEmptyOrAppend
  <2>2. /\ s \in Seq(Seq(ByteSet)) /\ Bytes(s) \in Seq(ByteSet)
        /\ x \in Seq(ByteSet) /\ Len(x) \in Nat \ {0}
    BY <1>2, <1>3
  <2>3. Bytes(t) = Bytes(s) \o x
    BY <2>1, <2>2, FlattenAppend DEF Bytes
  <2> DEFINE u == Bytes(s)
  <2> HIDE DEF u
  <2>4. u \in Seq(ByteSet) /\ Bytes(t) = u \o x
    BY <2>2, <2>3 DEF u
  <2>5. Len(u \o x) = Len(u) + Len(x) /\ Len(u) \in Nat
    BY <2>2, <2>4, ConcatProperties, LenProperties
  <2> QED BY <2>2, <2>4, <2>5
<1> QED BY <1>1, <1>2, <1>3, <1>4

(* Two characters at one place of a text begin alike. *)
LEMMA SamePlace ==
  ASSUME NEW S, NEW p \in Seq(S), NEW x \in Seq(S), NEW y \in Seq(S),
         NEW q \in Seq(S), NEW r \in Seq(S),
         IsPrefix((p \o x) \o q, (p \o y) \o r)
  PROVE  IsPrefix(x, y) \/ IsPrefix(y, x)
<1> DEFINE a == (p \o x) \o q
           b == (p \o y) \o r
<1>0. Len(p) \in Nat /\ Len(x) \in Nat /\ Len(y) \in Nat /\ Len(q) \in Nat
  OBVIOUS
<1>1. /\ a \in Seq(S) /\ Len(a) = Len(p) + Len(x) + Len(q)
      /\ \A k \in 1 .. Len(x) : a[Len(p) + k] = x[k]
  OBVIOUS
<1>2. /\ b \in Seq(S)
      /\ \A k \in 1 .. Len(y) : b[Len(p) + k] = y[k]
  OBVIOUS
<1>3. \A i \in 1 .. Len(a) : a[i] = b[i]
  <2> HIDE DEF a, b
  <2>1. IsPrefix(a, b)
    BY DEF a, b
  <2>2. a \in Seq(S) /\ b \in Seq(S)
    BY <1>1, <1>2
  <2> QED BY <2>1, <2>2, PrefixIs, SMTT(20)
<1> HIDE DEF a, b
<1>4. ASSUME NEW k \in Nat, k \in 1 .. Len(x), k \in 1 .. Len(y) PROVE x[k] = y[k]
  <2>1. Len(p) + k \in 1 .. Len(a)
    BY <1>0, <1>1, <1>4
  <2> QED BY <1>1, <1>2, <1>3, <1>4, <2>1
<1>5. CASE Len(x) <= Len(y)
  <2>1. \A k \in 1 .. Len(x) : x[k] = y[k]
    BY <1>0, <1>4, <1>5
  <2> QED BY <1>5, <2>1, PrefixIs
<1>6. CASE Len(y) <= Len(x)
  <2>1. \A k \in 1 .. Len(y) : y[k] = x[k]
    BY <1>0, <1>4, <1>6
  <2> QED BY <1>6, <2>1, PrefixIs
<1> QED BY <1>0, <1>5, <1>6

(* A text cut behind its k-th character *)
LEMMA BytesCut ==
  ASSUME NEW a \in Seq(Characters), NEW k \in 0 .. Len(a), NEW j, j = k + 1, j <= Len(a)
  PROVE  \E q \in Seq(ByteSet) : Bytes(a) = (Bytes(SubSeq(a, 1, k)) \o a[j]) \o q
<1> DEFINE p == SubSeq(a, 1, k)
           x == a[j]
           t == SubSeq(a, j + 1, Len(a))
<1>0. Len(a) \in Nat /\ k \in Nat /\ j \in Nat
  OBVIOUS
<1>1. p \in Seq(Characters) /\ x \in Characters /\ SubSeq(a, 1, j) = Append(p, x)
  BY SubSeqGrows
<1>2. t \in Seq(Characters)
  BY <1>0
<1>3. SubSeq(a, 1, j) \o t = a
  <2>1. 1 \in 1 .. Len(a) + 1 /\ j \in 1 - 1 .. Len(a) /\ Len(a) \in j .. Len(a)
    BY <1>0
  <2>2. SubSeq(a, 1, j) \o SubSeq(a, j + 1, Len(a)) = SubSeq(a, 1, Len(a))
    BY <2>1, ConcatAdjacentSubSeq
  <2> QED BY <2>2, SubSeqFull
<1> HIDE DEF p, x, t
<1>4. Append(p, x) \in Seq(Seq(ByteSet)) /\ t \in Seq(Seq(ByteSet)) /\ Bytes(t) \in Seq(ByteSet)
  <2>1. Append(p, x) \in Seq(Characters)
    BY <1>1, AppendProperties
  <2> QED BY <1>2, <2>1, CharactersAreBytes
<1>5. Bytes(Append(p, x) \o t) = Bytes(Append(p, x)) \o Bytes(t)
  <2> DEFINE u == Append(p, x)
  <2> HIDE DEF u
  <2>1. u \in Seq(Seq(ByteSet))
    BY <1>4 DEF u
  <2>2. Bytes(u \o t) = Bytes(u) \o Bytes(t)
    BY <1>4, <2>1, BytesJoin
  <2> QED BY <2>2 DEF u
<1>6. Bytes(Append(p, x)) = Bytes(p) \o x
  BY <1>1, CharactersAreBytes, FlattenAppend DEF Bytes
<1>7. Bytes(a) = (Bytes(p) \o x) \o Bytes(t)
  BY <1>1, <1>3, <1>5, <1>6
<1> QED BY <1>4, <1>7 DEF p, x

(* What begins alike in bytes begins alike in characters. *)
LEMMA Aligned ==
  ASSUME NEW a \in Seq(Characters), NEW b \in Seq(Characters), IsPrefix(Bytes(a), Bytes(b))
  PROVE  IsPrefix(a, b)
<1> DEFINE P == {k \in Nat : k <= Len(a) => k <= Len(b) /\ SubSeq(a, 1, k) = SubSeq(b, 1, k)}
<1>0. Len(a) \in Nat /\ Len(b) \in Nat
  OBVIOUS
<1>1. 0 \in P
  <2>1. SubSeq(a, 1, 0) = <<>> /\ SubSeq(b, 1, 0) = <<>>
    OBVIOUS
  <2> QED BY <1>0, <2>1
<1>2. ASSUME NEW k \in P PROVE k + 1 \in P
  <2> DEFINE j == k + 1
  <2>0. k \in Nat /\ j \in Nat /\ j = k + 1
    OBVIOUS
  <2> SUFFICES ASSUME j <= Len(a) PROVE j <= Len(b) /\ SubSeq(a, 1, j) = SubSeq(b, 1, j)
    BY <2>0
  <2>1. k \in 0 .. Len(a) /\ k <= Len(b) /\ SubSeq(a, 1, k) = SubSeq(b, 1, k)
    BY <1>0
  <2> DEFINE c == SubSeq(a, 1, k)
             p == Bytes(c)
             x == a[j]
             y == b[j]
  <2> HIDE DEF j, P
  <2>2. PICK q \in Seq(ByteSet) : Bytes(a) = (p \o x) \o q
    BY <2>0, <2>1, BytesCut
  <2>3. c \in Seq(Characters) /\ x \in Characters /\ SubSeq(a, 1, j) = Append(c, x)
    BY <2>0, <2>1, SubSeqGrows
  <2>4. p \in Seq(ByteSet) /\ x \in Seq(ByteSet) /\ Len(x) \in Nat \ {0}
    BY <2>3, CharactersAreBytes
  <2>5. Bytes(a) \in Seq(ByteSet) /\ Bytes(b) \in Seq(ByteSet)
    BY CharactersAreBytes
  <2>6. j <= Len(b)
    <3> SUFFICES ASSUME k = Len(b) PROVE FALSE
      BY <1>0, <2>0, <2>1
    <3>1. b = c
      BY <2>1, SubSeqFull
    <3> HIDE DEF c, p, x
    <3>2. p = Bytes(b)
      BY <3>1 DEF p
    <3>3. Len((p \o x) \o q) = Len(p) + Len(x) + Len(q) /\ Len(p) \in Nat /\ Len(q) \in Nat
      BY <2>4
    <3>4. Len(Bytes(a)) <= Len(Bytes(b))
      BY <2>5, PrefixIs
    <3> QED BY <2>2, <2>4, <3>2, <3>3, <3>4
  <2>7. k \in 0 .. Len(b)
    BY <2>1, <2>0
  <2>8. PICK r \in Seq(ByteSet) : Bytes(b) = (p \o y) \o r
    BY <2>0, <2>1, <2>6, <2>7, BytesCut
  <2>9. y \in Characters /\ SubSeq(b, 1, j) = Append(c, y)
    BY <2>0, <2>1, <2>6, <2>7, SubSeqGrows
  <2>10. y \in Seq(ByteSet)
    BY <2>9, CharactersAreBytes
  <2> HIDE DEF p, x, y, c
  <2>11. IsPrefix((p \o x) \o q, (p \o y) \o r)
    BY <2>2, <2>8
  <2>12. IsPrefix(x, y) \/ IsPrefix(y, x)
    BY <2>4, <2>10, <2>11, SamePlace
  <2>13. x = y
    BY <2>3, <2>9, <2>12, CharactersAreBytes
  <2> QED BY <2>3, <2>6, <2>9, <2>13
<1>3. P = Nat
  <2> HIDE DEF P
  <2>1. P \in SUBSET Nat
    BY DEF P
  <2> QED BY <1>1, <1>2, <2>1, NatInduct
<1>4. Len(a) \in P
  BY <1>0, <1>3
<1> QED BY <1>0, <1>4 DEF IsPrefix

(* The bytes give the text back. *)
LEMMA BytesInjective ==
  ASSUME NEW a \in Seq(Characters), NEW b \in Seq(Characters), Bytes(a) = Bytes(b)
  PROVE  a = b
<1>1. Bytes(a) \in Seq(ByteSet)
  BY CharactersAreBytes
<1>2. IsPrefix(Bytes(a), Bytes(a))
  <2> DEFINE s == Bytes(a)
  <2> HIDE DEF s
  <2>1. s \in Seq(ByteSet)
    BY <1>1 DEF s
  <2>2. IsPrefix(s, s)
    BY <2>1 DEF IsPrefix
  <2> QED BY <2>2 DEF s
<1>3. IsPrefix(a, b) /\ IsPrefix(b, a)
  BY <1>2, Aligned
<1>4. Len(a) <= Len(b) /\ Len(b) <= Len(a) /\ \A i \in 1 .. Len(a) : a[i] = b[i]
  BY <1>3, PrefixIs
<1>5. Len(a) \in Nat /\ Len(b) \in Nat
  OBVIOUS
<1>6. Len(a) = Len(b)
  BY <1>4, <1>5
<1> QED BY <1>4, <1>6, SeqEqual

-----------------------------------------------------------------------------
(* The nodes Trie#insert goes through *)

IsWalk(g, s, bytes) ==
  g = [S \in SUBSET (DOMAIN bytes) |->
         IF S = {} THEN s ELSE Follow(g[S \ {Max(S)}], bytes[Max(S)])]

LEMMA FoldIsWalk ==
  ASSUME NEW s, NEW bytes, \E g : IsWalk(g, s, bytes)
  PROVE  \E g : IsWalk(g, s, bytes) /\ FoldLeft(Follow, s, bytes) = g[DOMAIN bytes]
<1> DEFINE h == CHOOSE g : IsWalk(g, s, bytes)
<1>1. IsWalk(h, s, bytes)
  OBVIOUS
<1>2. FoldLeft(Follow, s, bytes) = h[DOMAIN bytes]
  BY DEF FoldLeft, MapThenFoldSet, IsWalk
<1> QED BY <1>1, <1>2

LEMMA WalkExists ==
  ASSUME NEW s, NEW bytes, Len(bytes) \in Nat, DOMAIN bytes = 1 .. Len(bytes)
  PROVE  \E g : IsWalk(g, s, bytes)
<1> DEFINE D == DOMAIN bytes
           Turn(g) == [S \in SUBSET D |->
                         IF S = {} THEN s ELSE Follow(g[S \ {Max(S)}], bytes[Max(S)])]
           Upto(g, n) == \A S \in SUBSET D : S \subseteq 1 .. n => g[S] = Turn(g)[S]
           P == {n \in Nat : \E g : Upto(g, n)}
<1>m. ASSUME NEW n \in Nat, NEW S \in SUBSET D, S \subseteq 1 .. n + 1, S # {}
      PROVE  S \ {Max(S)} \in SUBSET D /\ S \ {Max(S)} \subseteq 1 .. n
  <2>1. n + 1 \in Nat /\ S # {} /\ \A x \in S : x \in 0 .. n + 1
    BY <1>m
  <2>2. Max(S) \in S /\ \A x \in S : x <= Max(S)
    BY <2>1, MaxOfNat
  <2> DEFINE top == Max(S)
  <2> HIDE DEF top
  <2>3. top \in S /\ \A x \in S : x <= top
    BY <2>2 DEF top
  <2>4. \A x \in S : x \in 1 .. n + 1
    BY <1>m
  <2>5. \A x \in S \ {top} : x \in 1 .. n
    BY <2>3, <2>4
  <2>6. S \ {top} \in SUBSET D
    OBVIOUS
  <2> QED BY <2>5, <2>6 DEF top
<1>n. ASSUME NEW g, NEW n \in Nat, Upto(g, n)
      PROVE  \A S \in SUBSET D : S \subseteq 1 .. n + 1 => Turn(g)[S] = Turn(Turn(g))[S]
  <2> TAKE S \in SUBSET D
  <2> HAVE S \subseteq 1 .. n + 1
  <2>1. CASE S = {}
    BY <2>1
  <2>2. CASE S # {}
    <3> DEFINE r == S \ {Max(S)}
    <3>1. r \in SUBSET D /\ r \subseteq 1 .. n
      BY <1>m, <2>2
    <3>2. g[r] = Turn(g)[r]
      BY <3>1, <1>n
    <3> QED BY <2>2, <3>2
  <2> QED BY <2>1, <2>2
<1>1. 0 \in P
  <2> DEFINE z == [S \in SUBSET D |-> s]
  <2>1. Upto(z, 0)
    <3> SUFFICES ASSUME NEW S \in SUBSET D, S \subseteq 1 .. 0 PROVE z[S] = Turn(z)[S]
      OBVIOUS
    <3>1. S = {}
      OBVIOUS
    <3> QED BY <3>1
  <2> QED BY <2>1
<1>2. \A n \in P : n + 1 \in P
  <2> TAKE n \in P
  <2>1. PICK g : Upto(g, n)
    OBVIOUS
  <2>2. Upto(Turn(g), n + 1)
    BY <1>n, <2>1
  <2> HIDE DEF Turn, Upto
  <2>3. \E k : Upto(k, n + 1)
    BY <2>2, Zenon
  <2> QED BY <2>3
<1>3. P = Nat
  <2> HIDE DEF P
  <2>1. P \in SUBSET Nat
    BY DEF P
  <2> QED BY <2>1, <1>1, <1>2, NatInduct
<1>4. PICK g : Upto(g, Len(bytes))
  BY <1>3
<1>6. Turn(g) = Turn(Turn(g))
  <2>1. \A S \in SUBSET D : S \subseteq 1 .. Len(bytes) + 1
    OBVIOUS
  <2>2. \A S \in SUBSET D : Turn(g)[S] = Turn(Turn(g))[S]
    BY <1>4, <1>n, <2>1
  <2> QED BY <2>2
<1> QED BY <1>6 DEF IsWalk

(* The states in between, one a byte *)
Walked(f, s, bytes) ==
  f[0] = s /\ \A k \in 1 .. Len(bytes) : f[k] = Follow(f[k - 1], bytes[k])

LEMMA FoldIs ==
  ASSUME NEW s, NEW bytes, Len(bytes) \in Nat, DOMAIN bytes = 1 .. Len(bytes)
  PROVE  \E f : Walked(f, s, bytes) /\ FoldLeft(Follow, s, bytes) = f[Len(bytes)]
<1>1. PICK g : IsWalk(g, s, bytes) /\ FoldLeft(Follow, s, bytes) = g[DOMAIN bytes]
  BY WalkExists, FoldIsWalk
<1> DEFINE D == DOMAIN bytes
           f == [k \in 0 .. Len(bytes) |-> g[1 .. k]]
<1>g. \A S \in SUBSET D :
        g[S] = IF S = {} THEN s ELSE Follow(g[S \ {Max(S)}], bytes[Max(S)])
  BY <1>1 DEF IsWalk
<1>2. f[0] = s
  <2>1. 1 .. 0 = {} /\ 0 \in 0 .. Len(bytes)
    OBVIOUS
  <2>2. g[{}] = s
    BY <1>g
  <2> QED BY <2>1, <2>2
<1>3. ASSUME NEW k \in 1 .. Len(bytes)
      PROVE  f[k] = Follow(f[k - 1], bytes[k])
  <2>1. Max(1 .. k) = k
    <3> DEFINE S == 1 .. k
    <3>1. k \in Nat /\ k \in S /\ S # {} /\ \A x \in S : x \in 0 .. k
      OBVIOUS
    <3>2. \A x \in S : x \in Nat /\ x <= k
      OBVIOUS
    <3> HIDE DEF S
    <3>3. Max(S) \in S /\ \A x \in S : x <= Max(S)
      BY <3>1, MaxOfNat
    <3>4. Max(S) \in Nat /\ Max(S) <= k /\ k <= Max(S) /\ k \in Nat
      BY <3>1, <3>2, <3>3
    <3>5. Max(S) = k
      BY <3>4
    <3> QED BY <3>5 DEF S
  <2>2. (1 .. k) \ {k} = 1 .. k - 1
    OBVIOUS
  <2>3. 1 .. k \in SUBSET D /\ 1 .. k # {}
    <3>1. \A x \in 1 .. k : x \in D
      OBVIOUS
    <3>2. k \in 1 .. k
      OBVIOUS
    <3> QED BY <3>1, <3>2
  <2>4. g[1 .. k] = Follow(g[1 .. k - 1], bytes[k])
    BY <1>g, <2>1, <2>2, <2>3
  <2> QED BY <2>4
<1>4. f[Len(bytes)] = g[DOMAIN bytes]
  OBVIOUS
<1>5. Walked(f, s, bytes)
  BY <1>2, <1>3 DEF Walked
<1> QED BY <1>1, <1>4, <1>5

-----------------------------------------------------------------------------
(* A trie spells the keys of the tokens it took *)

NodeSet == [terminal : Nat, children : UNION {[D -> Nat] : D \in SUBSET ByteSet}]

(* Every node but the first is somebody's child. *)
Rooted(nodes) ==
  \A x \in 2 .. Len(nodes) : \E y \in 1 .. Len(nodes) :
    \E b \in DOMAIN nodes[y].children : nodes[y].children[b] = x

(* Each of the first n tokens of this trie has its node. *)
Complete(nodes, L, c, n) ==
  \A i \in 1 .. n :
    Continues(vocab[i]) = c /\ Key(vocab[i]) # <<>> =>
      \E x \in 1 .. Len(nodes) : L[x] = Key(vocab[i]) /\ nodes[x].terminal = i

(* Edges lead to nodes; L is what the path to a node spells; a terminal is *)
(* a token of this trie among the first n, with that for its key.          *)
IsTree(nodes, L, c, n) ==
  /\ Rooted(nodes) /\ Complete(nodes, L, c, n)
  /\ nodes \in Seq(NodeSet) /\ Len(nodes) \in Nat \ {0}
  /\ L \in [1 .. Len(nodes) -> Seq(ByteSet)] /\ L[1] = <<>>
  /\ \A x \in 1 .. Len(nodes) :
       /\ \A b \in DOMAIN nodes[x].children :
            /\ nodes[x].children[b] \in 1 .. Len(nodes)
            /\ L[nodes[x].children[b]] = Append(L[x], b)
       /\ nodes[x].terminal # None =>
            /\ nodes[x].terminal \in 1 .. n
            /\ Continues(vocab[nodes[x].terminal]) = c
            /\ Key(vocab[nodes[x].terminal]) = L[x]

LEMMA OneTree ==
  ASSUME NEW c
  PROVE  \E L : IsTree(<<Leaf>>, L, c, 0)
<1> DEFINE L == [x \in 1 .. 1 |-> <<>>]
           t == <<Leaf>>
<1>0. <<>> \in Seq(ByteSet) /\ <<>> \in [{} -> Nat] /\ {} \in SUBSET ByteSet
  <2>1. DOMAIN <<>> = {}
    OBVIOUS
  <2> QED BY <2>1
<1>1. Leaf \in NodeSet /\ Leaf.terminal = None /\ DOMAIN Leaf.children = {}
  <2>1. <<>> \in UNION {[D -> Nat] : D \in SUBSET ByteSet}
    BY <1>0
  <2> QED BY <2>1, <1>0 DEF Leaf, NodeSet, None
<1>2. t \in Seq(NodeSet) /\ Len(t) = 1 /\ t[1] = Leaf
  BY <1>1
<1>3. L \in [1 .. 1 -> Seq(ByteSet)] /\ L[1] = <<>>
  BY <1>0
<1> HIDE DEF L, t
<1>4. Rooted(t) /\ Complete(t, L, c, 0)
  BY <1>2 DEF Rooted, Complete
<1>5. IsTree(t, L, c, 0)
  BY <1>1, <1>2, <1>3, <1>4 DEF IsTree
<1> QED BY <1>5 DEF t

(* A new node *)
LEMMA FollowAdds ==
  ASSUME NEW nodes \in Seq(NodeSet), NEW at \in 1 .. Len(nodes), NEW byte \in ByteSet,
         byte \notin DOMAIN nodes[at].children,
         NEW s, s.nodes = nodes, s.at = at, NEW t, t = Follow(s, byte), NEW w, w = Len(nodes) + 1
  PROVE  /\ t.nodes \in Seq(NodeSet) /\ Len(t.nodes) = w /\ t.at = w
         /\ t.nodes[w] = Leaf
         /\ \A x \in 1 .. Len(nodes) :
              /\ t.nodes[x].terminal = nodes[x].terminal
              /\ x # at => t.nodes[x].children = nodes[x].children
         /\ DOMAIN t.nodes[at].children = DOMAIN nodes[at].children \cup {byte}
         /\ t.nodes[at].children[byte] = w
         /\ \A b \in DOMAIN nodes[at].children : t.nodes[at].children[b] = nodes[at].children[b]
<1> DEFINE children == nodes[at].children
           added == [b \in DOMAIN children \cup {byte} |-> IF b = byte THEN w ELSE children[b]]
           e == [nodes[at] EXCEPT !.children = added]
           m == [nodes EXCEPT ![at] = e]
<1>0. nodes[at] \in NodeSet /\ w \in Nat /\ Len(nodes) \in Nat
  OBVIOUS
<1>1. Leaf \in NodeSet
  <2>1. IsTree(<<Leaf>>, CHOOSE L : IsTree(<<Leaf>>, L, TRUE, 0), TRUE, 0)
    BY OneTree
  <2>2. <<Leaf>> \in Seq(NodeSet) /\ Len(<<Leaf>>) = 1 /\ <<Leaf>>[1] = Leaf
    BY <2>1 DEF IsTree
  <2> QED BY <2>2
<1>2. children \in UNION {[D -> Nat] : D \in SUBSET ByteSet} /\ nodes[at].terminal \in Nat
  BY <1>0 DEF NodeSet
<1>3. added \in UNION {[D -> Nat] : D \in SUBSET ByteSet}
  <2>1. PICK D \in SUBSET ByteSet : children \in [D -> Nat]
    BY <1>2
  <2>2. DOMAIN children = D
    BY <2>1
  <2> HIDE DEF children
  <2>3. added \in [D \cup {byte} -> Nat]
    BY <1>0, <2>1, <2>2
  <2> HIDE DEF added
  <2> QED BY <2>3
<1>4. e \in NodeSet /\ e.terminal = nodes[at].terminal /\ e.children = added
  <2> HIDE DEF added
  <2> QED BY <1>0, <1>2, <1>3 DEF NodeSet
<1>5. t = [nodes |-> Append(m, Leaf), at |-> w]
  BY DEF Follow
<1> HIDE DEF e, added
<1>6. m \in Seq(NodeSet) /\ Len(m) = Len(nodes) /\ m[at] = e /\ \A x \in 1 .. Len(nodes) : x # at => m[x] = nodes[x]
  BY <1>4
<1> HIDE DEF m
<1>7. /\ t.nodes \in Seq(NodeSet) /\ Len(t.nodes) = w /\ t.at = w /\ t.nodes[w] = Leaf
      /\ \A x \in 1 .. Len(nodes) : t.nodes[x] = m[x]
  BY <1>1, <1>5, <1>6
<1>8. t.nodes[at].children = added
  BY <1>4, <1>6, <1>7
<1>9. /\ DOMAIN added = DOMAIN children \cup {byte} /\ added[byte] = w
      /\ \A b \in DOMAIN children : added[b] = children[b]
  BY DEF added
<1> QED BY <1>4, <1>6, <1>7, <1>8, <1>9

(* The walk has spelt these bytes. *)
Spelt(s, L, c, n, bytes) ==
  IsTree(s.nodes, L, c, n) /\ s.at \in 1 .. Len(s.nodes) /\ L[s.at] = bytes

(* One turn spells one byte more. *)
LEMMA FollowSpells ==
  ASSUME NEW s, NEW L, NEW c, NEW n, NEW bytes, Spelt(s, L, c, n, bytes),
         NEW byte \in ByteSet, NEW t, t = Follow(s, byte)
  PROVE  \E M : Spelt(t, M, c, n, Append(bytes, byte))
<1>0. IsTree(s.nodes, L, c, n) /\ s.at \in 1 .. Len(s.nodes) /\ L[s.at] = bytes
  BY DEF Spelt
<1>1. CASE byte \in DOMAIN s.nodes[s.at].children
  <2>1. t.nodes = s.nodes /\ t.at = s.nodes[s.at].children[byte]
    BY <1>1 DEF Follow
  <2>2. /\ t.at \in 1 .. Len(t.nodes) /\ L[t.at] = Append(L[s.at], byte)
    BY <1>0, <1>1, <2>1 DEF IsTree
  <2>3. IsTree(t.nodes, L, c, n)
    BY <1>0, <2>1
  <2> QED BY <1>0, <2>2, <2>3 DEF Spelt
<1>2. CASE byte \notin DOMAIN s.nodes[s.at].children
  <2> DEFINE w == Len(s.nodes) + 1
             M == [x \in 1 .. w |-> IF x = w THEN Append(L[s.at], byte) ELSE L[x]]
  <2>1. /\ s.nodes \in Seq(NodeSet) /\ L \in [1 .. Len(s.nodes) -> Seq(ByteSet)]
        /\ Len(s.nodes) \in Nat \ {0} /\ L[1] = <<>>
    BY <1>0 DEF IsTree
  <2>2. /\ t.nodes \in Seq(NodeSet) /\ Len(t.nodes) = w /\ t.at = w
        /\ t.nodes[w] = Leaf
        /\ \A x \in 1 .. Len(s.nodes) :
              /\ t.nodes[x].terminal = s.nodes[x].terminal
              /\ x # s.at => t.nodes[x].children = s.nodes[x].children
        /\ DOMAIN t.nodes[s.at].children = DOMAIN s.nodes[s.at].children \cup {byte}
        /\ t.nodes[s.at].children[byte] = w
        /\ \A b \in DOMAIN s.nodes[s.at].children : t.nodes[s.at].children[b] = s.nodes[s.at].children[b]
    <3> DEFINE nodes == s.nodes
               at == s.at
    <3>1. /\ nodes \in Seq(NodeSet) /\ at \in 1 .. Len(nodes) /\ byte \notin DOMAIN nodes[at].children
          /\ s.nodes = nodes /\ s.at = at
      BY <1>0, <1>2, <2>1
    <3>2. w = Len(nodes) + 1
      OBVIOUS
    <3> HIDE DEF nodes, at, M, w
    <3>3. /\ t.nodes \in Seq(NodeSet) /\ Len(t.nodes) = w /\ t.at = w
          /\ t.nodes[w] = Leaf
          /\ \A x \in 1 .. Len(nodes) :
                /\ t.nodes[x].terminal = nodes[x].terminal
                /\ x # at => t.nodes[x].children = nodes[x].children
          /\ DOMAIN t.nodes[at].children = DOMAIN nodes[at].children \cup {byte}
          /\ t.nodes[at].children[byte] = w
          /\ \A b \in DOMAIN nodes[at].children : t.nodes[at].children[b] = nodes[at].children[b]
      BY <3>1, <3>2, FollowAdds
    <3> QED BY <3>1, <3>3
  <2>3. Append(L[s.at], byte) \in Seq(ByteSet)
    BY <1>0, <2>1
  <2>4. M \in [1 .. w -> Seq(ByteSet)] /\ M[1] = <<>> /\ M[w] = Append(L[s.at], byte)
    BY <2>1, <2>3
  <2>5. \A x \in 1 .. Len(s.nodes) : M[x] = L[x] /\ x \in 1 .. w
    BY <2>1
  <2>w. w \in Nat \ {0} /\ \A x \in 1 .. w : x # w => x \in 1 .. Len(s.nodes)
    BY <2>1
  <2> HIDE DEF M, w
  <2>6. Leaf.terminal = None /\ DOMAIN Leaf.children = {}
    <3>1. DOMAIN <<>> = {}
      OBVIOUS
    <3> QED BY <3>1 DEF Leaf, None
  <2>7. ASSUME NEW x \in 1 .. w, NEW b \in DOMAIN t.nodes[x].children
        PROVE  t.nodes[x].children[b] \in 1 .. w /\ M[t.nodes[x].children[b]] = Append(M[x], b)
    <3>1. x # w
      BY <2>2, <2>6
    <3>2. x \in 1 .. Len(s.nodes) /\ M[x] = L[x]
      BY <2>5, <2>w, <3>1
    <3>3. CASE x = s.at /\ b = byte
      <4>1. t.nodes[x].children[b] = w
        BY <2>2, <3>3
      <4>2. w \in 1 .. w
        BY <2>w
      <4> QED BY <1>0, <2>4, <3>2, <3>3, <4>1, <4>2
    <3>4. CASE ~(x = s.at /\ b = byte)
      <4>1. b \in DOMAIN s.nodes[x].children /\ t.nodes[x].children[b] = s.nodes[x].children[b]
        BY <2>2, <3>2, <3>4
      <4>2. s.nodes[x].children[b] \in 1 .. Len(s.nodes) /\ L[s.nodes[x].children[b]] = Append(L[x], b)
        BY <1>0, <3>2, <4>1 DEF IsTree
      <4> QED BY <2>5, <3>2, <4>1, <4>2
    <3> QED BY <3>3, <3>4
  <2>8. ASSUME NEW x \in 1 .. w, t.nodes[x].terminal # None
        PROVE  /\ t.nodes[x].terminal \in 1 .. n /\ Continues(vocab[t.nodes[x].terminal]) = c
               /\ Key(vocab[t.nodes[x].terminal]) = M[x]
    <3>1. x # w
      BY <2>2, <2>6, <2>8
    <3>2. x \in 1 .. Len(s.nodes) /\ M[x] = L[x] /\ t.nodes[x].terminal = s.nodes[x].terminal
      BY <2>2, <2>5, <2>w, <3>1
    <3> QED BY <1>0, <2>8, <3>2 DEF IsTree
  <2>a. Rooted(t.nodes)
    <3> SUFFICES ASSUME NEW x \in 2 .. w
                 PROVE  \E y \in 1 .. w : \E b \in DOMAIN t.nodes[y].children : t.nodes[y].children[b] = x
      BY <2>2 DEF Rooted
    <3>1. CASE x = w
      BY <1>0, <2>2, <2>5, <3>1
    <3>2. CASE x # w
      <4>1. x \in 2 .. Len(s.nodes)
        BY <2>1, <2>w, <3>2
      <4>a. PICK y \in 1 .. Len(s.nodes) : \E b \in DOMAIN s.nodes[y].children : s.nodes[y].children[b] = x
        BY <1>0, <4>1 DEF IsTree, Rooted
      <4>2. PICK b \in DOMAIN s.nodes[y].children : s.nodes[y].children[b] = x
        BY <4>a
      <4>3. b \in DOMAIN t.nodes[y].children /\ t.nodes[y].children[b] = x
        BY <2>2, <4>2
      <4> QED BY <2>5, <4>3
    <3> QED BY <3>1, <3>2
  <2>b. Complete(t.nodes, M, c, n)
    <3> SUFFICES ASSUME NEW i \in 1 .. n, Continues(vocab[i]) = c, Key(vocab[i]) # <<>>
                 PROVE  \E x \in 1 .. w : M[x] = Key(vocab[i]) /\ t.nodes[x].terminal = i
      BY <2>2 DEF Complete
    <3>1. PICK x \in 1 .. Len(s.nodes) : L[x] = Key(vocab[i]) /\ s.nodes[x].terminal = i
      BY <1>0 DEF IsTree, Complete
    <3> QED BY <2>2, <2>5, <3>1
  <2>9. IsTree(t.nodes, M, c, n)
    BY <2>2, <2>4, <2>7, <2>8, <2>a, <2>b, <2>w DEF IsTree
  <2>10. t.at \in 1 .. Len(t.nodes)
    BY <2>2, <2>w
  <2> QED BY <1>0, <2>2, <2>4, <2>9, <2>10 DEF Spelt
<1> QED BY <1>1, <1>2

(* The whole walk spells the bytes. *)
LEMMA PathSpells ==
  ASSUME NEW nodes, NEW K, NEW c, NEW n, IsTree(nodes, K, c, n), NEW bytes \in Seq(ByteSet)
  PROVE  \E L : Spelt(Path(nodes, bytes), L, c, n, bytes)
<1> DEFINE s == [nodes |-> nodes, at |-> 1]
           N == Len(bytes)
<1>0. N \in Nat /\ DOMAIN bytes = 1 .. N
  OBVIOUS
<1>1. PICK f : Walked(f, s, bytes) /\ FoldLeft(Follow, s, bytes) = f[N]
  BY <1>0, FoldIs
<1>2. Path(nodes, bytes) = f[N]
  BY <1>1 DEF Path
<1> DEFINE P == {k \in Nat : k <= N => \E L : Spelt(f[k], L, c, n, SubSeq(bytes, 1, k))}
<1>3. 0 \in P
  <2>1. f[0].nodes = nodes /\ f[0].at = 1
    BY <1>1 DEF Walked
  <2>2. SubSeq(bytes, 1, 0) = <<>>
    OBVIOUS
  <2>3. 1 \in 1 .. Len(nodes) /\ K[1] = <<>>
    BY DEF IsTree
  <2>4. Spelt(f[0], K, c, n, SubSeq(bytes, 1, 0))
    BY <2>1, <2>2, <2>3 DEF Spelt
  <2> QED BY <2>4
<1>4. ASSUME NEW k \in P PROVE k + 1 \in P
  <2> DEFINE j == k + 1
  <2>0. k \in Nat /\ j \in Nat /\ k = j - 1
    OBVIOUS
  <2> SUFFICES ASSUME j <= N PROVE \E L : Spelt(f[j], L, c, n, SubSeq(bytes, 1, j))
    BY <2>0
  <2>1. j \in 1 .. N /\ k <= N
    BY <1>0, <2>0
  <2>2. PICK L : Spelt(f[k], L, c, n, SubSeq(bytes, 1, k))
    BY <2>1
  <2>3. bytes[j] \in ByteSet
    BY <1>0, <2>1
  <2>4. f[j] = Follow(f[k], bytes[j])
    <3> HIDE DEF j, s
    <3> QED BY <1>1, <2>0, <2>1 DEF Walked
  <2>5. Append(SubSeq(bytes, 1, k), bytes[j]) = SubSeq(bytes, 1, j)
    BY <2>0, <2>1, <2>3
  <2> HIDE DEF j, s, P
  <2> QED BY <2>2, <2>3, <2>4, <2>5, FollowSpells
<1>5. P = Nat
  <2> HIDE DEF P
  <2>1. P \in SUBSET Nat
    BY DEF P
  <2> QED BY <1>3, <1>4, <2>1, NatInduct
<1>6. \E L : Spelt(f[N], L, c, n, SubSeq(bytes, 1, N))
  BY <1>0, <1>5
<1>7. SubSeq(bytes, 1, N) = bytes
  BY <1>0
<1> HIDE DEF s, N
<1> QED BY <1>2, <1>6, <1>7

(* A key that is taken is the key of an earlier token of this trie. *)
LEMMA TakenByToken ==
  ASSUME NEW nodes, NEW K, NEW c, NEW n, IsTree(nodes, K, c, n), NEW bytes \in Seq(ByteSet),
         Taken(nodes, bytes)
  PROVE  \E i \in 1 .. n : Continues(vocab[i]) = c /\ Key(vocab[i]) = bytes
<1> DEFINE end == Path(nodes, bytes)
<1>1. PICK L : Spelt(end, L, c, n, bytes)
  BY PathSpells
<1>2. end.nodes[end.at].terminal # None
  BY DEF Taken
<1> HIDE DEF end
<1> QED BY <1>1, <1>2 DEF Spelt, IsTree

LEMMA ThreadedIsTree ==
  ASSUME NEW nodes, NEW K, NEW c, NEW n \in Nat, IsTree(nodes, K, c, n), NEW bytes \in Seq(ByteSet),
         NEW id, id = n + 1, Continues(vocab[id]) = c, Key(vocab[id]) = bytes, ~Taken(nodes, bytes)
  PROVE  \E L : IsTree(Threaded(nodes, bytes, id), L, c, id)
<1>0. id \in Nat /\ id # None /\ \A x \in 1 .. n : x \in 1 .. id
  BY DEF None
<1>1. CASE bytes = <<>>
  <2>1. Threaded(nodes, bytes, id) = nodes
    BY <1>1 DEF Threaded
  <2>a. Complete(nodes, K, c, id)
    <3>1. \A i \in 1 .. id : i # id => i \in 1 .. n
      OBVIOUS
    <3> QED BY <1>1, <3>1 DEF IsTree, Complete
  <2>2. IsTree(nodes, K, c, id)
    BY <1>0, <2>a DEF IsTree
  <2> QED BY <2>1, <2>2
<1>2. CASE bytes # <<>>
  <2> DEFINE end == Path(nodes, bytes)
             at == end.at
             old == end.nodes
             e == [old[at] EXCEPT !.terminal = id]
             new == [old EXCEPT ![at] = e]
  <2>1. PICK L : IsTree(old, L, c, n) /\ at \in 1 .. Len(old) /\ L[at] = bytes
    <3>1. PICK L : Spelt(end, L, c, n, bytes)
      BY PathSpells
    <3> QED BY <3>1 DEF Spelt
  <2>2. Threaded(nodes, bytes, id) = new /\ old[at].terminal = None
    BY <1>2 DEF Threaded, Taken
  <2> HIDE DEF at, old
  <2>3. old \in Seq(NodeSet) /\ Len(old) \in Nat \ {0} /\ old[at] \in NodeSet
    BY <2>1 DEF IsTree
  <2>4. e \in NodeSet /\ e.terminal = id /\ e.children = old[at].children
    BY <1>0, <2>3 DEF NodeSet
  <2> HIDE DEF e
  <2>5. /\ new \in Seq(NodeSet) /\ Len(new) = Len(old) /\ new[at] = e
        /\ \A x \in 1 .. Len(old) : x # at => new[x] = old[x]
    BY <2>1, <2>3, <2>4
  <2> HIDE DEF new
  <2>6. \A x \in 1 .. Len(old) : new[x].children = old[x].children
    BY <2>1, <2>4, <2>5
  <2>7. ASSUME NEW x \in 1 .. Len(old), new[x].terminal # None
        PROVE  /\ new[x].terminal \in 1 .. id /\ Continues(vocab[new[x].terminal]) = c
               /\ Key(vocab[new[x].terminal]) = L[x]
    <3>1. CASE x = at
      BY <1>0, <2>1, <2>4, <2>5, <3>1
    <3>2. CASE x # at
      <4>1. new[x].terminal = old[x].terminal
        BY <2>5, <3>2
      <4>2. /\ old[x].terminal \in 1 .. n /\ Continues(vocab[old[x].terminal]) = c
            /\ Key(vocab[old[x].terminal]) = L[x]
        BY <2>1, <2>7, <4>1 DEF IsTree
      <4> QED BY <1>0, <4>1, <4>2
    <3> QED BY <3>1, <3>2
  <2>8. IsTree(new, L, c, id)
    <3>1. /\ new \in Seq(NodeSet) /\ Len(new) \in Nat \ {0}
          /\ L \in [1 .. Len(new) -> Seq(ByteSet)] /\ L[1] = <<>>
      BY <2>1, <2>3, <2>5 DEF IsTree
    <3>2. \A x \in 1 .. Len(new) : \A b \in DOMAIN new[x].children :
             /\ new[x].children[b] \in 1 .. Len(new)
             /\ L[new[x].children[b]] = Append(L[x], b)
      <4>1. \A x \in 1 .. Len(old) : \A b \in DOMAIN old[x].children :
               /\ old[x].children[b] \in 1 .. Len(old)
               /\ L[old[x].children[b]] = Append(L[x], b)
        BY <2>1 DEF IsTree
      <4> QED BY <2>5, <2>6, <4>1
    <3>3. Rooted(new)
      <4>1. \A x \in 2 .. Len(old) : \E y \in 1 .. Len(old) :
               \E b \in DOMAIN old[y].children : old[y].children[b] = x
        BY <2>1 DEF IsTree, Rooted
      <4>2. ASSUME NEW x \in 2 .. Len(old)
            PROVE  \E y \in 1 .. Len(old) : \E b \in DOMAIN new[y].children : new[y].children[b] = x
        <5>1. PICK y \in 1 .. Len(old) : \E b \in DOMAIN old[y].children : old[y].children[b] = x
          BY <4>1
        <5>2. new[y].children = old[y].children
          BY <2>6
        <5> QED BY <5>1, <5>2
      <4> QED BY <2>5, <4>2 DEF Rooted
    <3>4. Complete(new, L, c, id)
      <4> SUFFICES ASSUME NEW i \in 1 .. id, Continues(vocab[i]) = c, Key(vocab[i]) # <<>>
                   PROVE  \E x \in 1 .. Len(old) : L[x] = Key(vocab[i]) /\ new[x].terminal = i
        BY <2>5 DEF Complete
      <4>1. CASE i = id
        BY <2>1, <2>4, <2>5, <4>1
      <4>2. CASE i # id
        <5>1. i \in 1 .. n /\ i # None
          BY <4>2 DEF None
        <5>2. PICK x \in 1 .. Len(old) : L[x] = Key(vocab[i]) /\ old[x].terminal = i
          BY <2>1, <5>1 DEF IsTree, Complete
        <5>3. x # at
          BY <2>2, <5>1, <5>2
        <5> QED BY <2>5, <5>2, <5>3
      <4> QED BY <4>1, <4>2
    <3> QED BY <2>5, <2>7, <3>1, <3>2, <3>3, <3>4 DEF IsTree
  <2> QED BY <2>2, <2>8
<1> QED BY <1>1, <1>2

(* Cutting the prefix off loses nothing. *)
LEMMA KeyKeepsBytes ==
  ASSUME NEW u, NEW w, Bytes(u) \in Seq(ByteSet), Bytes(w) \in Seq(ByteSet),
         Bytes(Prefix) \in Seq(ByteSet), Continues(u) = Continues(w), Key(u) = Key(w)
  PROVE  Bytes(u) = Bytes(w)
<1>1. CASE ~Continues(u)
  BY <1>1 DEF Key
<1>2. CASE Continues(u)
  <2> DEFINE p == Bytes(Prefix)
             a == Bytes(u)
             b == Bytes(w)
  <2>1. SubSeq(a, Len(p) + 1, Len(a)) = SubSeq(b, Len(p) + 1, Len(b))
    BY <1>2 DEF Key
  <2>2. /\ Len(p) <= Len(a) /\ SubSeq(p, 1, Len(p)) = SubSeq(a, 1, Len(p))
        /\ Len(p) <= Len(b) /\ SubSeq(p, 1, Len(p)) = SubSeq(b, 1, Len(p))
    BY <1>2 DEF Continues, IsPrefix
  <2>3. a \in Seq(ByteSet) /\ b \in Seq(ByteSet) /\ p \in Seq(ByteSet)
    OBVIOUS
  <2> HIDE DEF a, b, p
  <2>4. a = b
    <3>0. Len(p) \in Nat /\ Len(a) \in Nat /\ Len(b) \in Nat
      BY <2>3
    <3> DEFINE x == SubSeq(a, Len(p) + 1, Len(a))
               y == SubSeq(b, Len(p) + 1, Len(b))
    <3>1. Len(x) = Len(a) - Len(p) /\ Len(y) = Len(b) - Len(p)
      BY <2>2, <2>3, <3>0
    <3>2. Len(a) = Len(b)
      BY <2>1, <3>0, <3>1
    <3>3. ASSUME NEW i \in 1 .. Len(a) PROVE a[i] = b[i]
      <4>1. CASE i <= Len(p)
        <5>1. i \in 1 .. Len(p)
          BY <3>0, <4>1
        <5>2. SubSeq(a, 1, Len(p))[i] = a[i] /\ SubSeq(b, 1, Len(p))[i] = b[i]
          BY <2>2, <2>3, <3>0, <5>1
        <5> QED BY <2>2, <5>2
      <4>2. CASE i > Len(p)
        <5> DEFINE k == i - Len(p)
        <5>1. k \in 1 .. Len(a) - Len(p) /\ Len(p) + k = i
          BY <3>0, <4>2
        <5>2. x[k] = a[Len(p) + k] /\ y[k] = b[Len(p) + k]
          BY <2>2, <2>3, <3>0, <3>2, <5>1
        <5> QED BY <2>1, <5>1, <5>2
      <4> QED BY <3>0, <4>1, <4>2
    <3> QED BY <2>3, <3>2, <3>3
  <2> QED BY <2>4 DEF a, b
<1> QED BY <1>1, <1>2

(* The bytes of tokens and of the prefix are bytes. *)
LEMMA TokenBytes ==
  ASSUME vocab \in Vocabularies
  PROVE  /\ Bytes(Prefix) \in Seq(ByteSet)
         /\ \A i \in DOMAIN vocab : Bytes(vocab[i]) \in Seq(ByteSet) /\ Key(vocab[i]) \in Seq(ByteSet)
<1>1. Prefix \in Seq(Characters) /\ vocab \in Seq(Seq(Characters))
  BY VocabularyAssumption DEF VocabularyAssumption
<1>2. Bytes(Prefix) \in Seq(ByteSet)
  BY <1>1, CharactersAreBytes
<1>3. ASSUME NEW i \in DOMAIN vocab
      PROVE  Bytes(vocab[i]) \in Seq(ByteSet) /\ Key(vocab[i]) \in Seq(ByteSet)
  <2>1. vocab[i] \in Seq(Characters)
    BY <1>1
  <2>2. Bytes(vocab[i]) \in Seq(ByteSet)
    BY <2>1, CharactersAreBytes
  <2> DEFINE b == Bytes(vocab[i])
             p == Bytes(Prefix)
  <2>3. CASE Continues(vocab[i])
    <3>1. Key(vocab[i]) = SubSeq(b, Len(p) + 1, Len(b))
      BY <2>3 DEF Key
    <3>2. b \in Seq(ByteSet) /\ p \in Seq(ByteSet)
      BY <1>2, <2>2
    <3> HIDE DEF b, p
    <3>3. SubSeq(b, Len(p) + 1, Len(b)) \in Seq(ByteSet)
      BY <3>2
    <3> QED BY <2>2, <3>1, <3>3
  <2>4. CASE ~Continues(vocab[i])
    BY <2>2, <2>4 DEF Key
  <2> QED BY <2>2, <2>3, <2>4
<1> QED BY <1>2, <1>3

(* The tries hold the tokens that went through them; a writer that gave up *)
(* had a reason.                                                           *)
TriesSpell ==
  /\ \E L : IsTree(root, L, FALSE, threaded)
  /\ \E L : IsTree(cont, L, TRUE, threaded)

LEMMA InitTries == Init => TriesSpell /\ OnlyDuplicatesRaise
<1> SUFFICES ASSUME Init PROVE TriesSpell /\ OnlyDuplicatesRaise
  OBVIOUS
<1>1. root = <<Leaf>> /\ cont = <<Leaf>> /\ ~raised /\ threaded = 0
  BY DEF Init
<1> QED BY <1>1, OneTree DEF TriesSpell, OnlyDuplicatesRaise

(* The table refuses a copy. *)
LEMMA InsertHashRaises ==
  ASSUME TypeOK, ChainInv, OnlyDuplicatesRaise, InsertHash
  PROVE  OnlyDuplicatesRaise'
<1> DEFINE n == hashed + 1
           bytes == Bytes(vocab[n])
           id == slots[At(bytes, Min(Place(bytes)))]
<1>1. /\ vocab' = vocab /\ hashed \in Nat /\ n \in DOMAIN vocab /\ Place(bytes) # {} /\ ~raised
      /\ vocab \in Vocabularies /\ Len(vocab) \in Nat /\ DOMAIN vocab = 1 .. Len(vocab)
  BY SizeIsPositive DEF InsertHash, TypeOK
<1>2. CASE id = None
  BY <1>1, <1>2 DEF InsertHash, OnlyDuplicatesRaise
<1>3. CASE id # None
  <2>1. At(bytes, Min(Place(bytes))) \in 0 .. Size - 1
    BY <1>1, PlaceFacts, AtInTable DEF B
  <2>2. id \in 1 .. hashed
    BY <1>3, <2>1 DEF ChainInv, TypeOK, None
  <2>3. Bytes(vocab[id]) = bytes
    BY <1>1, <1>3, PlaceFacts DEF Same
  <2> HIDE DEF id, bytes
  <2>4. id \in DOMAIN vocab /\ id # n
    BY <1>1, <2>2
  <2>5. vocab[id] = vocab[n]
    <3>1. vocab[id] \in Seq(Characters) /\ vocab[n] \in Seq(Characters)
      BY <1>1, <2>4, VocabularyAssumption DEF VocabularyAssumption
    <3> QED BY <2>3, <3>1, BytesInjective DEF bytes
  <2> HIDE DEF n
  <2> QED BY <1>1, <2>4, <2>5 DEF OnlyDuplicatesRaise
<1> QED BY <1>2, <1>3

(* The tries have no copy to refuse. *)
LEMMA InsertTrieRaises ==
  ASSUME TypeOK, NoDuplicateStored, TriesSpell, InsertTrie
  PROVE  TriesSpell' /\ ~raised'
<1> DEFINE id == threaded + 1
           token == vocab[id]
           c == Continues(token)
           trie == IF c THEN cont ELSE root
           bytes == Key(token)
<1>1. /\ vocab \in Vocabularies /\ Len(vocab) \in Nat /\ DOMAIN vocab = 1 .. Len(vocab)
      /\ threaded \in Nat /\ id \in DOMAIN vocab /\ hashed = Len(vocab) /\ ~raised
      /\ vocab' = vocab
  BY SizeIsPositive DEF InsertTrie, TypeOK
<1>2. bytes \in Seq(ByteSet)
  BY <1>1, TokenBytes
<1>3. c \in BOOLEAN
  BY DEF Continues, IsPrefix
<1>4. PICK K : IsTree(trie, K, c, threaded)
  <2>1. CASE c
    <3>1. trie = cont /\ c = TRUE
      BY <1>3, <2>1
    <3> HIDE DEF c, trie
    <3> QED BY <3>1 DEF TriesSpell
  <2>2. CASE ~c
    <3>1. trie = root /\ c = FALSE
      BY <1>3, <2>2
    <3> HIDE DEF c, trie
    <3> QED BY <3>1 DEF TriesSpell
  <2> QED BY <2>1, <2>2
<1>5. ~Taken(trie, bytes)
  <2> SUFFICES ASSUME Taken(trie, bytes) PROVE FALSE
    OBVIOUS
  <2>1. PICK i \in 1 .. threaded : Continues(vocab[i]) = c /\ Key(vocab[i]) = bytes
    <3> HIDE DEF trie, c, bytes
    <3> QED BY <1>2, <1>4, TakenByToken
  <2>2. i \in DOMAIN vocab /\ i # id
    BY <1>1
  <2>3. Bytes(vocab[i]) = Bytes(token)
    BY <1>1, <2>1, <2>2, TokenBytes, KeyKeepsBytes
  <2> QED BY <1>1, <2>2, <2>3 DEF NoDuplicateStored
<1> DEFINE grown == Threaded(trie, bytes, id)
<1>6. /\ root' = IF c THEN root ELSE grown
      /\ cont' = IF c THEN grown ELSE cont
      /\ threaded' = id /\ ~raised'
  BY <1>1, <1>5 DEF InsertTrie
<1>7. \E L : IsTree(grown, L, c, id)
  <2>1. Continues(vocab[id]) = c /\ Key(vocab[id]) = bytes
    OBVIOUS
  <2> HIDE DEF trie, c, bytes
  <2> QED BY <1>1, <1>2, <1>4, <1>5, <2>1, ThreadedIsTree
<1>8. ASSUME NEW nodes, NEW d, d # c, \E L : IsTree(nodes, L, d, threaded)
      PROVE  \E L : IsTree(nodes, L, d, id)
  <2>1. \A x \in 1 .. threaded : x \in 1 .. id
    BY <1>1
  <2>2. PICK L : IsTree(nodes, L, d, threaded)
    BY <1>8
  <2>3. Complete(nodes, L, d, id)
    <3>1. \A i \in 1 .. id : i # id => i \in 1 .. threaded
      BY <1>1
    <3>2. Continues(vocab[id]) = c
      OBVIOUS
    <3> HIDE DEF c, id
    <3> QED BY <1>8, <2>2, <3>1, <3>2 DEF IsTree, Complete
  <2> HIDE DEF id, c
  <2>4. IsTree(nodes, L, d, id)
    BY <2>1, <2>2, <2>3 DEF IsTree
  <2> QED BY <2>4
<1>9. \A nodes, L, d : IsTree(nodes, L, d, id) => IsTree(nodes, L, d, threaded)'
  <2> SUFFICES ASSUME NEW nodes, NEW L, NEW d, IsTree(nodes, L, d, id)
               PROVE  IsTree(nodes, L, d, threaded)'
    OBVIOUS
  <2>1. vocab' = vocab /\ threaded' = id
    BY <1>1, <1>6
  <2> QED BY <2>1, Zenon DEF IsTree, Complete, Continues, Key
<1>10. /\ \E L : IsTree(root', L, FALSE, id)
       /\ \E L : IsTree(cont', L, TRUE, id)
  <2>1. CASE c
    <3>1. c = TRUE /\ root' = root /\ cont' = grown
      BY <1>3, <1>6, <2>1
    <3> HIDE DEF c, grown, id
    <3> QED BY <1>7, <1>8, <3>1 DEF TriesSpell
  <2>2. CASE ~c
    <3>1. c = FALSE /\ root' = grown /\ cont' = cont
      BY <1>3, <1>6, <2>2
    <3> HIDE DEF c, grown, id
    <3> QED BY <1>7, <1>8, <3>1 DEF TriesSpell
  <2> QED BY <2>1, <2>2
<1> QED
  <2> HIDE DEF id
  <2> QED BY <1>6, <1>9, <1>10 DEF TriesSpell

LEMMA TreesKept ==
  ASSUME TriesSpell, UNCHANGED <<vocab, root, cont, threaded>>
  PROVE  TriesSpell'
<1>1. \A nodes, L, d : IsTree(nodes, L, d, threaded) => IsTree(nodes, L, d, threaded)'
  <2> SUFFICES ASSUME NEW nodes, NEW L, NEW d, IsTree(nodes, L, d, threaded)
               PROVE  IsTree(nodes, L, d, threaded)'
    OBVIOUS
  <2> QED BY Zenon DEF IsTree, Complete, Continues, Key
<1> QED BY <1>1 DEF TriesSpell

LEMMA NextTries ==
  ASSUME TypeOK, ChainInv, NoDuplicateStored, TriesSpell, OnlyDuplicatesRaise, [Next]_vars
  PROVE  TriesSpell' /\ OnlyDuplicatesRaise'
<1>1. CASE InsertHash
  <2>1. UNCHANGED <<vocab, root, cont, threaded>>
    BY <1>1 DEF InsertHash
  <2>2. TriesSpell'
    BY <2>1, TreesKept
  <2> QED BY <1>1, <2>2, InsertHashRaises
<1>2. CASE InsertTrie
  BY <1>2, InsertTrieRaises DEF OnlyDuplicatesRaise
<1>3. CASE Over \/ UNCHANGED vars
  <2>1. UNCHANGED <<vocab, root, cont, threaded, raised>>
    BY <1>3 DEF Over, vars
  <2> QED BY <2>1, TreesKept DEF OnlyDuplicatesRaise
<1> QED BY <1>1, <1>2, <1>3 DEF Next

LEMMA TriesHold == Spec => [](TriesSpell /\ OnlyDuplicatesRaise)
<1>1. TypeOK /\ ChainInv /\ NoDuplicateStored /\ (TriesSpell /\ OnlyDuplicatesRaise) /\ [Next]_vars
      => (TriesSpell /\ OnlyDuplicatesRaise)'
  BY NextTries
<1> QED BY <1>1, InitTries, TypeCorrect, ChainsHold, NoDuplicates, PTL DEF Spec

(* The writer raises for a token it was given twice and for nothing else:  *)
(* Trie#insert never refuses what HashTable.insert has let through, since  *)
(* two keys of one trie are equal only if the tokens are.                  *)
THEOREM RaisesForDuplicates == Spec => []OnlyDuplicatesRaise
<1> QED BY TriesHold, PTL

-----------------------------------------------------------------------------
(* Bytes in ascending order *)

Below(S, b) == {c \in S : c < b}

LEMMA RankFacts ==
  ASSUME NEW S \in SUBSET ByteSet
  PROVE  /\ IsFiniteSet(S) /\ Cardinality(S) \in Nat
         /\ \A b \in S : Cardinality(Below(S, b)) \in 0 .. Cardinality(S) - 1
         /\ \A a, b \in S : a < b => Cardinality(Below(S, a)) < Cardinality(Below(S, b))
<1>1. IsFiniteSet(S)
  <2>1. IsFiniteSet(ByteSet)
    <3>1. 0 \in Int /\ 255 \in Int
      OBVIOUS
    <3> QED BY <3>1, FS_Interval, Zenon DEF ByteSet
  <2> QED BY <2>1, FS_Subset
<1>2. Cardinality(S) \in Nat
  BY <1>1, FS_CardinalityType
<1>3. \A b \in S : b \in Int
  BY DEF ByteSet
<1>4. ASSUME NEW b \in S
      PROVE  /\ IsFiniteSet(Below(S, b)) /\ Cardinality(Below(S, b)) \in Nat
             /\ b \notin Below(S, b) /\ Below(S, b) \in SUBSET S
             /\ IsFiniteSet(Below(S, b) \cup {b})
             /\ Cardinality(Below(S, b) \cup {b}) = Cardinality(Below(S, b)) + 1
  <2>1. Below(S, b) \in SUBSET S /\ b \notin Below(S, b)
    BY <1>3 DEF Below
  <2>2. IsFiniteSet(Below(S, b))
    BY <1>1, <2>1, FS_Subset
  <2> QED BY <2>1, <2>2, FS_CardinalityType, FS_AddElement
<1>5. ASSUME NEW b \in S PROVE Cardinality(Below(S, b)) \in 0 .. Cardinality(S) - 1
  <2>1. Below(S, b) \cup {b} \in SUBSET S
    BY <1>4
  <2>2. Cardinality(Below(S, b) \cup {b}) <= Cardinality(S)
    BY <1>1, <2>1, FS_Subset
  <2>3. Cardinality(Below(S, b)) \in Nat /\ Cardinality(Below(S, b)) + 1 <= Cardinality(S)
    BY <1>4, <2>2
  <2> QED BY <1>2, <2>3
<1>6. ASSUME NEW a \in S, NEW b \in S, a < b
      PROVE  Cardinality(Below(S, a)) < Cardinality(Below(S, b))
  <2>1. Below(S, a) \cup {a} \in SUBSET Below(S, b)
    BY <1>3, <1>6 DEF Below
  <2>2. Cardinality(Below(S, a) \cup {a}) <= Cardinality(Below(S, b))
    BY <1>4, <2>1, FS_Subset
  <2>3. /\ Cardinality(Below(S, a)) \in Nat /\ Cardinality(Below(S, b)) \in Nat
        /\ Cardinality(Below(S, a)) + 1 <= Cardinality(Below(S, b))
    BY <1>4, <2>2
  <2> QED BY <2>3
<1> QED BY <1>1, <1>2, <1>5, <1>6

(* Every place has its byte. *)
LEMMA RankTaken ==
  ASSUME NEW S \in SUBSET ByteSet, NEW k \in 1 .. Cardinality(S)
  PROVE  \E b \in S : Cardinality(Below(S, b)) = k - 1
<1> DEFINE n == Cardinality(S)
           T == 0 .. n - 1
           r == [b \in S |-> Cardinality(Below(S, b))]
<1>1. n \in Nat /\ IsFiniteSet(S)
  BY RankFacts
<1>2. r \in [S -> T]
  BY RankFacts
<1>3. ASSUME NEW a \in S, NEW b \in S, r[a] = r[b] PROVE a = b
  <2>1. a \in Int /\ b \in Int
    BY DEF ByteSet
  <2>2. ~(a < b) /\ ~(b < a)
    <3>1. r[a] \in Int /\ r[b] \in Int /\ (a < b => r[a] < r[b]) /\ (b < a => r[b] < r[a])
      BY <1>1, <1>2, RankFacts
    <3> HIDE DEF r
    <3> QED BY <1>3, <3>1
  <2> QED BY <2>1, <2>2
<1>4. IsFiniteSet(T) /\ Cardinality(T) = n
  <2> DEFINE m == n - 1
  <2>1. 0 \in Int /\ m \in Int /\ IF 0 > m THEN 0 = n ELSE m - 0 + 1 = n
    BY <1>1
  <2> HIDE DEF m, n
  <2>2. IsFiniteSet(0 .. m) /\ Cardinality(0 .. m) = n
    BY <2>1, FS_Interval
  <2> QED BY <2>2 DEF m
<1>5. r \in Injection(S, T)
  <2> HIDE DEF r, T
  <2> QED BY <1>2, <1>3 DEF Injection, IsInjective
<1>6. r \in Surjection(S, T)
  <2> HIDE DEF r, T
  <2> QED BY <1>1, <1>4, <1>5, FS_Injection DEF n
<1>7. k - 1 \in T
  BY <1>1
<1>8. \E b \in S : r[b] = k - 1
  <2> HIDE DEF r, T
  <2> QED BY <1>6, <1>7 DEF Surjection
<1> QED BY <1>8

LEMMA AscendingFacts ==
  ASSUME NEW S \in SUBSET ByteSet
  PROVE  /\ Ascending(S) \in Seq(S) /\ Len(Ascending(S)) = Cardinality(S)
         /\ \A j, k \in 1 .. Cardinality(S) : j < k => Ascending(S)[j] < Ascending(S)[k]
<1> DEFINE n == Cardinality(S)
           s == Ascending(S)
<1>1. n \in Nat
  BY RankFacts
<1>2. ASSUME NEW k \in 1 .. n PROVE s[k] \in S /\ Cardinality(Below(S, s[k])) = k - 1
  <2>1. s[k] = CHOOSE b \in S : Cardinality(Below(S, b)) = k - 1
    BY DEF Ascending, Below
  <2> HIDE DEF s
  <2> QED BY <2>1, RankTaken
<1>3. s \in Seq(S) /\ Len(s) = n
  <2>1. s = [k \in 1 .. n |-> s[k]]
    BY DEF Ascending
  <2> HIDE DEF s, n
  <2>2. s \in [1 .. n -> S]
    BY <1>2, <2>1
  <2> QED BY <1>1, <2>2
<1>4. ASSUME NEW j \in 1 .. n, NEW k \in 1 .. n, j < k PROVE s[j] < s[k]
  <2>1. s[j] \in S /\ s[k] \in S /\ Cardinality(Below(S, s[j])) = j - 1 /\ Cardinality(Below(S, s[k])) = k - 1
    BY <1>2
  <2> HIDE DEF s
  <2>2. s[j] \in Int /\ s[k] \in Int
    <3>1. \A b \in S : b \in Int
      BY DEF ByteSet
    <3> QED BY <2>1, <3>1
  <2>3. s[j] # s[k] /\ ~(s[k] < s[j])
    BY <1>1, <1>4, <2>1, RankFacts
  <2> QED BY <2>2, <2>3
<1> QED BY <1>3, <1>4

-----------------------------------------------------------------------------
(* A packed trie *)

EdgeSet == [byte : ByteSet, child : Nat]

BytesOf(nodes, n) == Ascending(DOMAIN nodes[n].children)

(* The edges of each node *)
Rows(nodes) ==
  [n \in DOMAIN nodes |->
     [k \in DOMAIN BytesOf(nodes, n) |->
        [byte |-> BytesOf(nodes, n)[k], child |-> nodes[n].children[BytesOf(nodes, n)[k]]]]]

(* Where they start *)
IsStart(h, nodes) ==
  h = [n \in 1 .. Len(nodes) + 1 |-> IF n = 1 THEN 0 ELSE h[n - 1] + Len(BytesOf(nodes, n - 1))]

PackedAt(nodes, h) ==
  [edges |-> FlattenSeq(Rows(nodes)),
   nodes |-> [n \in DOMAIN nodes |->
                [start |-> h[n], count |-> Len(BytesOf(nodes, n)),
                 terminal |-> nodes[n].terminal]]]

LEMMA PackedStarts ==
  ASSUME NEW nodes, \E h : IsStart(h, nodes)
  PROVE  \E h : IsStart(h, nodes) /\ Packed(nodes) = PackedAt(nodes, h)
<1> DEFINE f == CHOOSE h : IsStart(h, nodes)
<1>1. IsStart(f, nodes)
  OBVIOUS
<1>2. Packed(nodes) = PackedAt(nodes, f)
  BY DEF Packed, PackedAt, IsStart, Rows, BytesOf
<1> QED BY <1>1, <1>2

LEMMA RowFacts ==
  ASSUME NEW nodes, NEW L, NEW c, NEW n, IsTree(nodes, L, c, n)
  PROVE  /\ Rows(nodes) \in Seq(Seq(EdgeSet)) /\ Len(Rows(nodes)) = Len(nodes)
         /\ \A x \in 1 .. Len(nodes) :
              /\ Len(Rows(nodes)[x]) = Len(BytesOf(nodes, x)) /\ Len(BytesOf(nodes, x)) \in Nat
              /\ \A k \in 1 .. Len(BytesOf(nodes, x)) :
                   /\ Rows(nodes)[x][k].byte \in ByteSet
                   /\ Rows(nodes)[x][k].child \in 1 .. Len(nodes)
              /\ \A j, k \in 1 .. Len(BytesOf(nodes, x)) :
                   j < k => Rows(nodes)[x][j].byte < Rows(nodes)[x][k].byte
<1>0. nodes \in Seq(NodeSet) /\ Len(nodes) \in Nat /\ DOMAIN nodes = 1 .. Len(nodes)
  BY DEF IsTree
<1>1. ASSUME NEW x \in 1 .. Len(nodes)
      PROVE  /\ Rows(nodes)[x] \in Seq(EdgeSet)
             /\ Len(Rows(nodes)[x]) = Len(BytesOf(nodes, x)) /\ Len(BytesOf(nodes, x)) \in Nat
             /\ \A k \in 1 .. Len(BytesOf(nodes, x)) :
                   /\ Rows(nodes)[x][k].byte = BytesOf(nodes, x)[k]
                   /\ Rows(nodes)[x][k].byte \in ByteSet
                   /\ Rows(nodes)[x][k].child \in 1 .. Len(nodes)
             /\ \A j, k \in 1 .. Len(BytesOf(nodes, x)) :
                   j < k => BytesOf(nodes, x)[j] < BytesOf(nodes, x)[k]
  <2> DEFINE S == DOMAIN nodes[x].children
             s == Ascending(S)
             m == Len(s)
             row == [k \in 1 .. m |-> [byte |-> s[k], child |-> nodes[x].children[s[k]]]]
  <2>1. S \in SUBSET ByteSet
    <3>1. nodes[x] \in NodeSet
      BY <1>0
    <3>2. nodes[x].children \in UNION {[D -> Nat] : D \in SUBSET ByteSet}
      BY <3>1 DEF NodeSet
    <3> QED BY <3>2
  <2>2. BytesOf(nodes, x) = s
    BY DEF BytesOf
  <2>3. s \in Seq(S) /\ m = Cardinality(S) /\ m \in Nat
    <3> HIDE DEF S
    <3> QED BY <2>1, AscendingFacts
  <2>4. \A j, k \in 1 .. m : j < k => s[j] < s[k]
    <3> HIDE DEF S
    <3> QED BY <2>1, <2>3, AscendingFacts
  <2>5. ASSUME NEW k \in 1 .. m
        PROVE  s[k] \in S /\ s[k] \in ByteSet /\ nodes[x].children[s[k]] \in 1 .. Len(nodes)
    <3>1. s[k] \in S
      <4> HIDE DEF S
      <4> QED BY <2>3
    <3> HIDE DEF s
    <3> QED BY <2>1, <3>1 DEF IsTree
  <2> HIDE DEF s
  <2>6. Rows(nodes)[x] = row
    <3>1. DOMAIN s = 1 .. m
      BY <2>3
    <3> QED BY <1>0, <2>2, <3>1 DEF Rows
  <2> HIDE DEF m
  <2>7. \A k \in 1 .. m : row[k] \in EdgeSet /\ row[k].byte = s[k] /\ row[k].child = nodes[x].children[s[k]]
    <3> SUFFICES ASSUME NEW k \in 1 .. m
                 PROVE  row[k] \in EdgeSet /\ row[k].byte = s[k] /\ row[k].child = nodes[x].children[s[k]]
      OBVIOUS
    <3> DEFINE b == s[k]
               d == nodes[x].children[b]
    <3>1. b \in ByteSet /\ d \in Nat
      BY <1>0, <2>5
    <3>2. row[k] = [byte |-> b, child |-> d]
      OBVIOUS
    <3> HIDE DEF b, d, row
    <3>3. row[k] \in EdgeSet /\ row[k].byte = b /\ row[k].child = d
      BY <3>1, <3>2 DEF EdgeSet
    <3> QED BY <3>3 DEF b, d
  <2>8. row \in Seq(EdgeSet) /\ Len(row) = m
    <3>1. row = [k \in 1 .. m |-> row[k]]
      OBVIOUS
    <3> HIDE DEF row
    <3>2. row \in [1 .. m -> EdgeSet]
      BY <2>7, <3>1
    <3> QED BY <2>3, <3>2
  <2> HIDE DEF row
  <2> QED BY <2>2, <2>3, <2>4, <2>5, <2>6, <2>7, <2>8 DEF m
<1>2. Rows(nodes) \in Seq(Seq(EdgeSet)) /\ Len(Rows(nodes)) = Len(nodes)
  <2> DEFINE r == Rows(nodes)
             N == Len(nodes)
  <2>1. r = [x \in 1 .. N |-> r[x]]
    BY <1>0 DEF Rows
  <2>2. \A x \in 1 .. N : r[x] \in Seq(EdgeSet)
    BY <1>1
  <2> HIDE DEF r
  <2>3. r \in [1 .. N -> Seq(EdgeSet)]
    BY <2>1, <2>2
  <2> HIDE DEF N
  <2>4. N \in Nat
    BY <1>0 DEF N
  <2>5. r \in Seq(Seq(EdgeSet)) /\ Len(r) = N
    BY <2>3, <2>4
  <2> QED BY <2>5 DEF r, N
<1>3. ASSUME NEW x \in 1 .. Len(nodes), NEW j \in 1 .. Len(BytesOf(nodes, x)),
             NEW k \in 1 .. Len(BytesOf(nodes, x)), j < k
      PROVE  Rows(nodes)[x][j].byte < Rows(nodes)[x][k].byte
  <2>1. /\ Rows(nodes)[x][j].byte = BytesOf(nodes, x)[j]
        /\ Rows(nodes)[x][k].byte = BytesOf(nodes, x)[k]
        /\ BytesOf(nodes, x)[j] < BytesOf(nodes, x)[k]
    BY <1>1, <1>3
  <2> QED BY <2>1
<1> QED BY <1>1, <1>2, <1>3

Lengths(g, seqs) ==
  \A i \in 1 .. Len(seqs) : \A h : h = i - 1 =>
    /\ Len(g[h]) \in Nat /\ Len(seqs[i]) \in Nat /\ Len(g[i]) \in Nat
    /\ Len(g[i]) = Len(g[h]) + Len(seqs[i])

LEMMA JoinedLen ==
  ASSUME NEW S, NEW seqs \in Seq(Seq(S)), NEW g, Joining(g, seqs, S)
  PROVE  Lengths(g, seqs)
<1> SUFFICES ASSUME NEW i \in 1 .. Len(seqs), NEW h, h = i - 1
             PROVE  /\ Len(g[h]) \in Nat /\ Len(seqs[i]) \in Nat /\ Len(g[i]) \in Nat
                    /\ Len(g[i]) = Len(g[h]) + Len(seqs[i])
  BY DEF Lengths
<1> DEFINE a == g[h]
           b == seqs[i]
           d == g[i]
<1>1. h \in 0 .. Len(seqs) /\ i - 1 = h
  OBVIOUS
<1>2. a \in Seq(S) /\ b \in Seq(S) /\ d = a \o b
  <2>1. g[h] \in Seq(S) /\ g[i] = g[h] \o seqs[i]
    BY <1>1 DEF Joining
  <2>2. seqs[i] \in Seq(S)
    OBVIOUS
  <2> QED BY <2>1, <2>2
<1> HIDE DEF a, b, d
<1>3. Len(a) \in Nat /\ Len(b) \in Nat /\ Len(a \o b) = Len(a) + Len(b)
  BY <1>2
<1>4. Len(a) \in Nat /\ Len(b) \in Nat /\ Len(d) \in Nat /\ Len(d) = Len(a) + Len(b)
  BY <1>2, <1>3
<1> QED BY <1>4 DEF a, b, d

LEMMA JoinedEnds ==
  ASSUME NEW S, NEW seqs \in Seq(Seq(S)), NEW g, Joining(g, seqs, S), NEW i \in 0 .. Len(seqs)
  PROVE  Len(g[i]) \in Nat /\ Len(g[Len(seqs)]) \in Nat /\ Len(g[i]) <= Len(g[Len(seqs)])
<1> DEFINE N == Len(seqs)
           P == {n \in Nat : i <= n /\ n <= N => Len(g[i]) <= Len(g[n])}
<1>0. N \in Nat /\ i \in 0 .. N /\ \A n \in 0 .. N : Len(g[n]) \in Nat
  <2>1. \A n \in 0 .. N : g[n] \in Seq(S)
    BY DEF Joining
  <2> QED BY <2>1
<1> HIDE DEF N
<1>1. 0 \in P
  BY <1>0
<1>2. ASSUME NEW n \in P PROVE n + 1 \in P
  <2> DEFINE j == n + 1
  <2>0. n \in Nat /\ j \in Nat /\ n = j - 1
    OBVIOUS
  <2> SUFFICES ASSUME i <= j, j <= N PROVE Len(g[i]) <= Len(g[j])
    BY <2>0
  <2>1. CASE i = j
    BY <1>0, <2>1
  <2>2. CASE i # j
    <3>1. j \in 1 .. N /\ i <= n /\ n <= N /\ n \in 0 .. N /\ j \in 0 .. N
      BY <1>0, <2>0, <2>2
    <3>2. Len(g[i]) <= Len(g[n])
      BY <3>1
    <3> HIDE DEF j, P
    <3>3. Len(g[j]) = Len(g[n]) + Len(seqs[j]) /\ Len(seqs[j]) \in Nat
      <4>1. j \in 1 .. Len(seqs) /\ n = j - 1
        BY <2>0, <3>1 DEF N
      <4>2. Lengths(g, seqs)
        BY JoinedLen
      <4> QED BY <4>1, <4>2 DEF Lengths
    <3>4. Len(g[i]) \in Nat /\ Len(g[n]) \in Nat
      BY <1>0, <3>1
    <3> DEFINE a == Len(g[i])
               b == Len(g[n])
               d == Len(g[j])
               e == Len(seqs[j])
    <3>5. a <= b /\ d = b + e /\ e \in Nat /\ a \in Nat /\ b \in Nat
      BY <3>2, <3>3, <3>4
    <3> HIDE DEF a, b, d, e
    <3>6. a <= d
      BY <3>5
    <3> QED BY <3>6 DEF a, d
  <2> QED BY <2>1, <2>2
<1>3. P = Nat
  <2> HIDE DEF P
  <2>1. P \in SUBSET Nat
    BY DEF P
  <2> QED BY <1>1, <1>2, <2>1, NatInduct
<1>4. N \in Nat /\ i <= N /\ N \in 0 .. N
  BY <1>0
<1>5. Len(g[i]) <= Len(g[N])
  BY <1>3, <1>4
<1> QED BY <1>0, <1>4, <1>5 DEF N

LEMMA StartExists ==
  ASSUME NEW nodes, NEW L, NEW c, NEW n, IsTree(nodes, L, c, n),
         NEW g, Joining(g, Rows(nodes), EdgeSet)
  PROVE  \E h : IsStart(h, nodes)
<1> DEFINE N == Len(nodes)
           f == [x \in 1 .. N + 1 |-> Len(g[x - 1])]
<1>0. N \in Nat /\ Rows(nodes) \in Seq(Seq(EdgeSet)) /\ Len(Rows(nodes)) = N
  BY RowFacts DEF IsTree
<1>1. ASSUME NEW x \in 1 .. N + 1
      PROVE  f[x] = IF x = 1 THEN 0 ELSE f[x - 1] + Len(BytesOf(nodes, x - 1))
  <2>1. CASE x = 1
    <3>1. g[0] = <<>> /\ f[1] = Len(g[0])
      BY <1>0 DEF Joining
    <3>2. Len(<<>>) = 0
      OBVIOUS
    <3> QED BY <2>1, <3>1, <3>2
  <2>2. CASE x # 1
    <3> DEFINE i == x - 1
               j == i - 1
    <3>1. i \in 1 .. N /\ i \in 1 .. N + 1 /\ j = i - 1 /\ f[x] = Len(g[i]) /\ f[i] = Len(g[j])
      BY <1>0, <2>2
    <3> HIDE DEF f, i, j, N
    <3>2. Len(g[i]) = Len(g[j]) + Len(Rows(nodes)[i])
      <4>1. i \in 1 .. Len(Rows(nodes)) /\ j = i - 1
        BY <1>0, <3>1
      <4>2. Lengths(g, Rows(nodes))
        BY <1>0, JoinedLen
      <4> QED BY <4>1, <4>2 DEF Lengths
    <3>3. Len(Rows(nodes)[i]) = Len(BytesOf(nodes, i))
      BY <3>1, RowFacts DEF N
    <3> QED BY <2>2, <3>1, <3>2, <3>3 DEF i
  <2> QED BY <2>1, <2>2
<1>2. f = [x \in 1 .. N + 1 |-> IF x = 1 THEN 0 ELSE f[x - 1] + Len(BytesOf(nodes, x - 1))]
  <2>1. f = [x \in 1 .. N + 1 |-> f[x]]
    OBVIOUS
  <2> HIDE DEF f
  <2> QED BY <1>1, <2>1
<1>3. IsStart(f, nodes)
  <2> HIDE DEF f
  <2> QED BY <1>2 DEF IsStart
<1> QED BY <1>3

LEMMA StartIs ==
  ASSUME NEW nodes, NEW L, NEW c, NEW n, IsTree(nodes, L, c, n),
         NEW g, Joining(g, Rows(nodes), EdgeSet), NEW h, IsStart(h, nodes)
  PROVE  \A x \in 1 .. Len(nodes) : \A y : y = x - 1 => h[x] = Len(g[y])
<1> DEFINE N == Len(nodes)
           P == {y \in Nat : y < N => h[y + 1] = Len(g[y])}
<1>0. N \in Nat /\ Rows(nodes) \in Seq(Seq(EdgeSet)) /\ Len(Rows(nodes)) = N
  BY RowFacts DEF IsTree
<1>h. ASSUME NEW x \in 1 .. N, NEW y, y = x - 1
      PROVE  h[x] = IF x = 1 THEN 0 ELSE h[y] + Len(BytesOf(nodes, y))
  <2>1. x \in 1 .. N + 1
    BY <1>0
  <2> HIDE DEF P
  <2> QED BY <1>h, <2>1 DEF IsStart
<1>1. 0 \in P
  <2> SUFFICES ASSUME 0 < N PROVE h[1] = Len(g[0])
    OBVIOUS
  <2>1. g[0] = <<>>
    BY DEF Joining
  <2>2. Len(<<>>) = 0
    OBVIOUS
  <2>3. 1 \in 1 .. N /\ 0 = 1 - 1
    BY <1>0
  <2>4. h[1] = 0
    <3> HIDE DEF P, N
    <3> QED BY <1>h, <2>3
  <2> QED BY <2>1, <2>2, <2>4
<1>2. ASSUME NEW i \in P PROVE i + 1 \in P
  <2> DEFINE x == i + 2
             y == i + 1
  <2>0. i \in Nat /\ y \in Nat /\ x = y + 1 /\ y = x - 1 /\ i = y - 1
    OBVIOUS
  <2> SUFFICES ASSUME y < N PROVE h[x] = Len(g[y])
    BY <2>0
  <2>1. x \in 1 .. N /\ x # 1 /\ y \in 1 .. N /\ h[y] = Len(g[i])
    BY <1>0
  <2> HIDE DEF x, y, P
  <2>2. h[x] = h[y] + Len(BytesOf(nodes, y))
    BY <1>h, <2>0, <2>1
  <2> HIDE DEF N
  <2>3. Len(g[y]) = Len(g[i]) + Len(Rows(nodes)[y])
    <3>1. y \in 1 .. Len(Rows(nodes)) /\ i = y - 1
      BY <1>0, <2>0, <2>1
    <3>2. Lengths(g, Rows(nodes))
      BY <1>0, JoinedLen
    <3> QED BY <3>1, <3>2 DEF Lengths
  <2>4. Len(Rows(nodes)[y]) = Len(BytesOf(nodes, y))
    BY <2>1, RowFacts DEF N
  <2> QED BY <2>1, <2>2, <2>3, <2>4
<1>3. P = Nat
  <2> HIDE DEF P
  <2>1. P \in SUBSET Nat
    BY DEF P
  <2> QED BY <1>1, <1>2, <2>1, NatInduct
<1> SUFFICES ASSUME NEW x \in 1 .. N, NEW y, y = x - 1 PROVE h[x] = Len(g[y])
  OBVIOUS
<1>4. y \in Nat /\ y < N /\ y + 1 = x
  BY <1>0
<1> QED BY <1>3, <1>4

(* Where the row of a node lies in the edges *)
InRow(trie, nodes, x) ==
  /\ trie.nodes[x].start \in Nat
  /\ trie.nodes[x].count = Len(BytesOf(nodes, x))
  /\ trie.nodes[x].terminal = nodes[x].terminal
  /\ trie.nodes[x].start + trie.nodes[x].count <= Len(trie.edges)
  /\ \A k \in 1 .. Len(BytesOf(nodes, x)) : trie.edges[trie.nodes[x].start + k] = Rows(nodes)[x][k]

LEMMA PackedRows ==
  ASSUME NEW nodes, NEW L, NEW c, NEW n, IsTree(nodes, L, c, n)
  PROVE  /\ DOMAIN Packed(nodes).nodes = 1 .. Len(nodes)
         /\ \A x \in 1 .. Len(nodes) : InRow(Packed(nodes), nodes, x)
<1> DEFINE N == Len(nodes)
           rows == Rows(nodes)
           trie == Packed(nodes)
<1>0. /\ N \in Nat /\ rows \in Seq(Seq(EdgeSet)) /\ Len(rows) = N
      /\ nodes \in Seq(NodeSet) /\ DOMAIN nodes = 1 .. N
  <2>1. nodes \in Seq(NodeSet)
    BY DEF IsTree
  <2>2. N \in Nat /\ DOMAIN nodes = 1 .. N
    BY <2>1
  <2>3. rows \in Seq(Seq(EdgeSet)) /\ Len(rows) = N
    BY RowFacts
  <2> QED BY <2>1, <2>2, <2>3
<1>1. PICK g : Joining(g, rows, EdgeSet) /\ FlattenSeq(rows) = g[N]
  <2> HIDE DEF rows, N
  <2> QED BY <1>0, FlattenIs
<1>2. PICK h : IsStart(h, nodes) /\ trie = PackedAt(nodes, h)
  BY <1>1, StartExists, PackedStarts
<1>3. /\ trie.edges = g[N] /\ DOMAIN trie.nodes = 1 .. N
      /\ \A x \in 1 .. N : /\ trie.nodes[x].start = h[x]
                           /\ trie.nodes[x].count = Len(BytesOf(nodes, x))
                           /\ trie.nodes[x].terminal = nodes[x].terminal
  BY <1>0, <1>1, <1>2 DEF PackedAt
<1> SUFFICES ASSUME NEW x \in 1 .. N PROVE InRow(trie, nodes, x)
  BY <1>3
<1> HIDE DEF trie
<1> DEFINE y == x - 1
           m == Len(BytesOf(nodes, x))
           row == rows[x]
           first == Len(g[y])
<1>4. m \in Nat /\ Len(row) = m
  BY RowFacts
<1>5. y = x - 1 /\ x \in 1 .. Len(rows) /\ x \in 0 .. Len(rows) /\ trie.nodes[x].start = first
  <2>1. y = x - 1 /\ x \in 1 .. Len(rows) /\ x \in 0 .. Len(rows)
    BY <1>0
  <2>2. h[x] = Len(g[y])
    <3> HIDE DEF m, row, y
    <3> QED BY <1>1, <1>2, <2>1, StartIs
  <2> QED BY <1>3, <2>1, <2>2
<1>6. /\ first \in Nat /\ Len(g[x]) = first + m /\ Len(g[N]) \in Nat /\ Len(g[x]) <= Len(g[N])
      /\ \A k \in 1 .. m : g[N][first + k] = row[k]
  <2> HIDE DEF y, rows
  <2>1. Len(g[y]) \in Nat /\ Len(g[x]) = Len(g[y]) + Len(rows[x])
    <3> HIDE DEF m, N, first, row
    <3>1. Lengths(g, rows)
      BY <1>0, <1>1, JoinedLen
    <3> QED BY <1>5, <3>1 DEF Lengths
  <2>2. Len(g[N]) \in Nat /\ Len(g[x]) <= Len(g[N])
    <3> HIDE DEF m, first, row
    <3> QED BY <1>0, <1>1, <1>5, JoinedEnds
  <2>3. ASSUME NEW k \in 1 .. m PROVE g[N][Len(g[y]) + k] = rows[x][k]
    <3>1. k \in 1 .. Len(rows[x])
      BY <1>4
    <3> HIDE DEF m, first, row
    <3> QED BY <1>0, <1>1, <1>5, <3>1, JoinedAt
  <2> QED BY <1>4, <2>1, <2>2, <2>3
<1> HIDE DEF first, m, row
<1>8. trie.nodes[x].count = m
  BY <1>3 DEF m
<1> QED BY <1>3, <1>4, <1>5, <1>6, <1>8 DEF InRow, m, row

(* parse_trie accepts what Trie#pack writes. *)
LEMMA PackedLoads ==
  ASSUME vocab \in Vocabularies, threaded \in 0 .. Len(vocab),
         NEW nodes, NEW L, NEW c, IsTree(nodes, L, c, threaded)
  PROVE  TrieLoads(Packed(nodes))
<1> DEFINE N == Len(nodes)
           trie == Packed(nodes)
<1>1. DOMAIN trie.nodes = 1 .. N /\ \A x \in 1 .. N : InRow(trie, nodes, x)
  BY PackedRows
<1> SUFFICES ASSUME NEW x \in 1 .. N
             PROVE  /\ trie.nodes[x].terminal <= Len(vocab)
                    /\ trie.nodes[x].start + trie.nodes[x].count <= Len(trie.edges)
                    /\ \A k \in trie.nodes[x].start + 1 .. trie.nodes[x].start + trie.nodes[x].count :
                         /\ trie.edges[k].byte <= 255
                         /\ trie.edges[k].child \in DOMAIN trie.nodes
                         /\ k > trie.nodes[x].start + 1 => trie.edges[k - 1].byte < trie.edges[k].byte
  BY <1>1 DEF TrieLoads
<1> HIDE DEF trie
<1> DEFINE first == trie.nodes[x].start
           m == Len(BytesOf(nodes, x))
           row == Rows(nodes)[x]
<1>2. /\ first \in Nat /\ trie.nodes[x].count = m /\ trie.nodes[x].terminal = nodes[x].terminal
      /\ first + m <= Len(trie.edges)
      /\ \A k \in 1 .. m : trie.edges[first + k] = row[k]
  BY <1>1 DEF InRow
<1>3. /\ m \in Nat
      /\ \A k \in 1 .. m : row[k].byte \in ByteSet /\ row[k].child \in 1 .. N
      /\ \A j, k \in 1 .. m : j < k => row[j].byte < row[k].byte
  BY RowFacts
<1>4. trie.nodes[x].terminal <= Len(vocab)
  <2>1. Len(vocab) \in Nat
    BY SizeIsPositive
  <2>2. nodes[x].terminal # None => nodes[x].terminal \in 1 .. threaded
    BY DEF IsTree
  <2> QED BY <1>2, <2>1, <2>2 DEF None
<1> HIDE DEF first, m, row
<1>5. ASSUME NEW k \in first + 1 .. first + m
      PROVE  /\ trie.edges[k].byte <= 255 /\ trie.edges[k].child \in 1 .. N
             /\ k > first + 1 => trie.edges[k - 1].byte < trie.edges[k].byte
  <2> DEFINE e == k - first
             d == e - 1
             o == k - 1
  <2>1. e \in 1 .. m /\ first + e = k
    BY <1>2, <1>3
  <2>2. k > first + 1 => d \in 1 .. m /\ first + d = o /\ d < e
    BY <1>2, <1>3
  <2> HIDE DEF e, d, o
  <2>3. trie.edges[k] = row[e]
    BY <1>2, <2>1
  <2>4. k > first + 1 => trie.edges[o] = row[d]
    BY <1>2, <2>2
  <2>5. row[e].byte <= 255 /\ row[e].child \in 1 .. N
    <3>1. \A b \in ByteSet : b <= 255
      BY DEF ByteSet
    <3> HIDE DEF N
    <3> QED BY <1>3, <2>1, <3>1
  <2>6. k > first + 1 => row[d].byte < row[e].byte
    BY <1>3, <2>1, <2>2
  <2> QED BY <2>3, <2>4, <2>5, <2>6 DEF o
<1> QED BY <1>1, <1>2, <1>4, <1>5 DEF first

(* What the writer built, the loader accepts: the table, for TablesLoad,   *)
(* and both tries, whose edges Trie#pack lays out node after node, sorted, *)
(* with children and terminals that exist.                                 *)
THEOREM WriterSatisfies == Spec => []WriterSatisfiesLoader
<1>1. TypeOK /\ TriesSpell /\ (Built => TableLoads) => WriterSatisfiesLoader
  <2> SUFFICES ASSUME TypeOK, TriesSpell, Built => TableLoads PROVE WriterSatisfiesLoader
    OBVIOUS
  <2>1. vocab \in Vocabularies /\ threaded \in 0 .. Len(vocab)
    BY DEF TypeOK
  <2>2. TrieLoads(Packed(root)) /\ TrieLoads(Packed(cont))
    BY <2>1, PackedLoads DEF TriesSpell
  <2> QED BY <2>2 DEF WriterSatisfiesLoader
<1> QED BY <1>1, TypeCorrect, TriesHold, TablesLoad, PTL

-----------------------------------------------------------------------------
(* Finding a child *)

(* Places first .. last in ascending order, and the first at or above byte *)
SortedAt(edges, first, last) ==
  /\ \A k \in first .. last : edges[k].byte \in Int
  /\ \A j, k \in first .. last : j < k => edges[j].byte < edges[k].byte

Cut(edges, first, last, byte, at) ==
  /\ at \in first .. last + 1
  /\ \A k \in first .. last : edges[k].byte < byte <=> k < at

LEMMA CutExists ==
  ASSUME NEW edges, NEW first \in Nat, NEW last \in Nat, first <= last + 1, NEW byte \in Int,
         SortedAt(edges, first, last)
  PROVE  \E at : Cut(edges, first, last, byte, at)
<1> DEFINE T == {k \in first .. last : ~(edges[k].byte < byte)} \cup {last + 1}
           at == Min(T)
<1>1. T \in SUBSET Nat /\ T # {}
  OBVIOUS
<1>2. at \in T /\ \A y \in T : at <= y
  <2> HIDE DEF T
  <2> QED BY <1>1, MinOfNat
<1> HIDE DEF at
<1>3. at \in first .. last + 1
  BY <1>2
<1>4. ASSUME NEW k \in first .. last PROVE edges[k].byte < byte <=> k < at
  <2>1. CASE k < at
    <3>1. k \notin T
      <4> HIDE DEF T
      <4> QED BY <1>2, <1>3, <2>1
    <3> QED BY <2>1, <3>1
  <2>2. CASE ~(k < at)
    <3>1. at \in first .. last /\ ~(edges[at].byte < byte)
      BY <1>2, <1>3, <2>2
    <3>2. at = k \/ edges[at].byte < edges[k].byte
      BY <1>3, <2>2, <3>1 DEF SortedAt
    <3>3. edges[at].byte \in Int /\ edges[k].byte \in Int
      BY <3>1 DEF SortedAt
    <3> QED BY <2>2, <3>1, <3>2, <3>3
  <2> QED BY <2>1, <2>2
<1> QED BY <1>3, <1>4 DEF Cut

Spans(first, last) == [lo : first .. last + 1, hi : first .. last + 1]

Halved(h, r, edges, byte) ==
  IF r.lo >= r.hi THEN r.lo
  ELSE LET mid == r.lo + (r.hi - r.lo) \div 2
       IN IF edges[mid].byte < byte THEN h[[r EXCEPT !.lo = mid + 1]]
          ELSE h[[r EXCEPT !.hi = mid]]

IsSearch(h, edges, first, last, byte) ==
  h = [r \in Spans(first, last) |-> Halved(h, r, edges, byte)]

LEMMA BisectIsSearch ==
  ASSUME NEW edges, NEW first, NEW last, NEW byte, \E h : IsSearch(h, edges, first, last, byte)
  PROVE  \E h : /\ IsSearch(h, edges, first, last, byte)
                /\ Bisect(edges, first, last, byte) = h[[lo |-> first, hi |-> last + 1]]
<1> DEFINE f == CHOOSE h : IsSearch(h, edges, first, last, byte)
<1>1. IsSearch(f, edges, first, last, byte)
  OBVIOUS
<1>2. Bisect(edges, first, last, byte) = f[[lo |-> first, hi |-> last + 1]]
  BY DEF Bisect, IsSearch, Halved, Spans
<1> QED BY <1>1, <1>2

LEMMA Halves ==
  ASSUME NEW first \in Nat, NEW last \in Nat, NEW r \in Spans(first, last), r.lo < r.hi,
         NEW mid, mid = r.lo + (r.hi - r.lo) \div 2
  PROVE  /\ mid \in first .. last /\ r.lo <= mid /\ mid < r.hi
         /\ [r EXCEPT !.lo = mid + 1] \in Spans(first, last)
         /\ [r EXCEPT !.lo = mid + 1].lo = mid + 1 /\ [r EXCEPT !.lo = mid + 1].hi = r.hi
         /\ [r EXCEPT !.hi = mid] \in Spans(first, last)
         /\ [r EXCEPT !.hi = mid].lo = r.lo /\ [r EXCEPT !.hi = mid].hi = mid
<1>1. r.lo \in first .. last + 1 /\ r.hi \in first .. last + 1
  BY DEF Spans
<1>2. mid \in first .. last /\ r.lo <= mid /\ mid < r.hi
  BY <1>1
<1>3. r = [lo |-> r.lo, hi |-> r.hi]
  BY DEF Spans
<1> DEFINE lo == r.lo
           hi == r.hi
           q == [lo |-> lo, hi |-> hi]
<1> HIDE DEF lo, hi
<1>4. r = q /\ lo \in first .. last + 1 /\ hi \in first .. last + 1
  BY <1>1, <1>3 DEF lo, hi
<1>5. /\ [q EXCEPT !.lo = mid + 1] = [lo |-> mid + 1, hi |-> hi]
      /\ [q EXCEPT !.hi = mid] = [lo |-> lo, hi |-> mid]
  OBVIOUS
<1>6. mid + 1 \in first .. last + 1 /\ mid \in first .. last + 1
  BY <1>2
<1> HIDE DEF q
<1> QED BY <1>2, <1>4, <1>5, <1>6 DEF Spans, lo, hi

(* What the search gives for a span that holds or misses the place *)
Clamped(at, r) ==
  IF r.lo >= r.hi THEN r.lo ELSE IF at < r.lo THEN r.lo ELSE IF at > r.hi THEN r.hi ELSE at

LEMMA SearchExists ==
  ASSUME NEW edges, NEW first \in Nat, NEW last \in Nat, NEW byte \in Int, NEW at,
         Cut(edges, first, last, byte, at)
  PROVE  \E h : IsSearch(h, edges, first, last, byte)
<1> DEFINE R == Spans(first, last)
           f == [r \in R |-> Clamped(at, r)]
<1>1. ASSUME NEW r \in R PROVE f[r] = Halved(f, r, edges, byte)
  <2>0. r.lo \in Int /\ r.hi \in Int /\ at \in Int
    BY DEF Spans, Cut
  <2>1. CASE r.lo >= r.hi
    BY <2>1 DEF Halved, Clamped
  <2>2. CASE ~(r.lo >= r.hi)
    <3> DEFINE mid == r.lo + (r.hi - r.lo) \div 2
               u == [r EXCEPT !.lo = mid + 1]
               v == [r EXCEPT !.hi = mid]
    <3>1. r.lo < r.hi
      BY <2>0, <2>2
    <3>2. /\ mid \in first .. last /\ r.lo <= mid /\ mid < r.hi /\ u \in R /\ v \in R
          /\ u.lo = mid + 1 /\ u.hi = r.hi /\ v.lo = r.lo /\ v.hi = mid
      <4> HIDE DEF R
      <4>1. mid = r.lo + (r.hi - r.lo) \div 2 /\ r \in Spans(first, last)
        BY DEF R
      <4> HIDE DEF mid
      <4> QED BY <3>1, <4>1, Halves DEF R
    <3>3. Halved(f, r, edges, byte) = IF edges[mid].byte < byte THEN f[u] ELSE f[v]
      BY <2>2 DEF Halved
    <3> HIDE DEF mid, u, v
    <3>4. edges[mid].byte < byte <=> mid < at
      BY <3>2 DEF Cut
    <3>5. f[r] = Clamped(at, r) /\ f[u] = Clamped(at, u) /\ f[v] = Clamped(at, v)
      BY <3>2
    <3>6. mid \in Int
      BY <3>2
    <3> HIDE DEF f
    <3>7. CASE mid < at
      BY <2>0, <3>1, <3>2, <3>3, <3>4, <3>5, <3>6, <3>7 DEF Clamped
    <3>8. CASE ~(mid < at)
      BY <2>0, <3>1, <3>2, <3>3, <3>4, <3>5, <3>6, <3>8 DEF Clamped
    <3> QED BY <3>7, <3>8
  <2> QED BY <2>1, <2>2
<1>2. f = [r \in R |-> f[r]]
  OBVIOUS
<1> HIDE DEF f
<1>3. f = [r \in R |-> Halved(f, r, edges, byte)]
  BY <1>1, <1>2
<1> QED BY <1>3 DEF IsSearch

LEMMA BisectFinds ==
  ASSUME NEW edges, NEW first \in Nat, NEW last \in Nat, first <= last + 1, NEW byte \in Int,
         NEW at, Cut(edges, first, last, byte, at)
  PROVE  Bisect(edges, first, last, byte) = at
<1>1. PICK h : /\ IsSearch(h, edges, first, last, byte)
               /\ Bisect(edges, first, last, byte) = h[[lo |-> first, hi |-> last + 1]]
  BY SearchExists, BisectIsSearch
<1> DEFINE R == Spans(first, last)
           Right(r) == r.lo <= at /\ at <= r.hi => h[r] = at
           P == {n \in Nat : \A r \in R : r.hi - r.lo <= n => Right(r)}
<1>h. \A r \in R : h[r] = Halved(h, r, edges, byte)
  BY <1>1 DEF IsSearch
<1>0. \A r \in R : r.lo \in Int /\ r.hi \in Int
  BY DEF Spans
<1>a. at \in Int /\ at \in first .. last + 1
  BY DEF Cut
<1>2. 0 \in P
  <2> SUFFICES ASSUME NEW r \in R, r.hi - r.lo <= 0, r.lo <= at, at <= r.hi PROVE h[r] = at
    BY DEF Right
  <2>1. r.lo = at /\ r.lo >= r.hi
    BY <1>0, <1>a
  <2> QED BY <1>h, <2>1 DEF Halved
<1>3. ASSUME NEW n \in P PROVE n + 1 \in P
  <2>0. n \in Nat /\ \A r \in R : r.hi - r.lo <= n => Right(r)
    OBVIOUS
  <2> HIDE DEF P
  <2> SUFFICES ASSUME NEW r \in R, r.hi - r.lo <= n + 1, r.lo <= at, at <= r.hi PROVE h[r] = at
    BY <2>0 DEF Right, P
  <2>1. CASE r.lo >= r.hi
    <3>1. r.lo = at
      BY <1>0, <1>a, <2>1
    <3> QED BY <1>h, <2>1, <3>1 DEF Halved
  <2>2. CASE ~(r.lo >= r.hi)
    <3> DEFINE mid == r.lo + (r.hi - r.lo) \div 2
               u == [r EXCEPT !.lo = mid + 1]
               v == [r EXCEPT !.hi = mid]
    <3>1. r.lo < r.hi
      BY <1>0, <2>2
    <3>2. /\ mid \in first .. last /\ r.lo <= mid /\ mid < r.hi /\ u \in R /\ v \in R
          /\ u.lo = mid + 1 /\ u.hi = r.hi /\ v.lo = r.lo /\ v.hi = mid
      <4> HIDE DEF R
      <4>1. mid = r.lo + (r.hi - r.lo) \div 2 /\ r \in Spans(first, last)
        BY DEF R
      <4> HIDE DEF mid
      <4> QED BY <3>1, <4>1, Halves DEF R
    <3>3. h[r] = IF edges[mid].byte < byte THEN h[u] ELSE h[v]
      BY <1>h, <2>2 DEF Halved
    <3> HIDE DEF mid, u, v
    <3>4. edges[mid].byte < byte <=> mid < at
      BY <3>2 DEF Cut
    <3>5. mid \in Int /\ r.lo \in Int /\ r.hi \in Int
      BY <1>0, <3>2
    <3>6. CASE mid < at
      <4>1. u.hi - u.lo <= n /\ u.lo <= at /\ at <= u.hi
        BY <1>a, <2>0, <3>2, <3>5, <3>6
      <4>2. h[u] = at
        BY <2>0, <3>2, <4>1 DEF Right
      <4> QED BY <3>3, <3>4, <3>6, <4>2
    <3>7. CASE ~(mid < at)
      <4>1. v.hi - v.lo <= n /\ v.lo <= at /\ at <= v.hi
        BY <1>a, <2>0, <3>2, <3>5, <3>7
      <4>2. h[v] = at
        BY <2>0, <3>2, <4>1 DEF Right
      <4> QED BY <3>3, <3>4, <3>7, <4>2
    <3> QED BY <3>6, <3>7
  <2> QED BY <2>1, <2>2
<1>4. P = Nat
  <2> HIDE DEF P
  <2>1. P \in SUBSET Nat
    BY DEF P
  <2> QED BY <1>2, <1>3, <2>1, NatInduct
<1> DEFINE all == [lo |-> first, hi |-> last + 1]
           n == last + 1 - first
<1>5. all \in R /\ all.lo = first /\ all.hi = last + 1 /\ n \in Nat
  BY DEF Spans
<1> HIDE DEF all, R
<1>6. Right(all)
  <2>1. n \in P
    BY <1>4, <1>5
  <2> QED BY <1>5, <2>1
<1>7. h[all] = at
  BY <1>5, <1>6, <1>a DEF Right
<1> QED BY <1>1, <1>7 DEF all

(* Every byte of S has its place. *)
LEMMA AscendingHasAll ==
  ASSUME NEW S \in SUBSET ByteSet, NEW b \in S
  PROVE  \E k \in 1 .. Cardinality(S) : Ascending(S)[k] = b
<1> DEFINE n == Cardinality(S)
           k == Cardinality(Below(S, b)) + 1
           a == Ascending(S)[k]
<1>1. n \in Nat /\ Cardinality(Below(S, b)) \in 0 .. n - 1
  BY RankFacts
<1>2. k \in 1 .. n /\ k - 1 = Cardinality(Below(S, b))
  BY <1>1
<1> HIDE DEF n, k
<1>3. a = CHOOSE y \in S : Cardinality(Below(S, y)) = k - 1
  BY <1>2 DEF Ascending, Below, n
<1> HIDE DEF a
<1>4. a \in S /\ Cardinality(Below(S, a)) = Cardinality(Below(S, b))
  BY <1>2, <1>3
<1>5. a \in Int /\ b \in Int
  <2>1. \A y \in S : y \in Int
    BY DEF ByteSet
  <2> QED BY <1>4, <2>1
<1>6. Cardinality(Below(S, a)) \in Int /\ Cardinality(Below(S, b)) \in Int
  BY <1>1, <1>4
<1>7. ~(a < b) /\ ~(b < a)
  <2>1. /\ a < b => Cardinality(Below(S, a)) < Cardinality(Below(S, b))
        /\ b < a => Cardinality(Below(S, b)) < Cardinality(Below(S, a))
    BY <1>4, RankFacts
  <2> QED BY <1>4, <1>6, <2>1
<1>8. a = b
  BY <1>5, <1>7
<1> QED BY <1>2, <1>8 DEF a, n

(* The row of a node has its children, all of them. *)
HasChildren(row, m, children) ==
  /\ \A k \in 1 .. m : row[k].byte \in DOMAIN children /\ row[k].child = children[row[k].byte]
  /\ \A b \in DOMAIN children : \E k \in 1 .. m : row[k].byte = b

LEMMA RowChildren ==
  ASSUME NEW nodes, NEW L, NEW c, NEW n, IsTree(nodes, L, c, n), NEW x \in 1 .. Len(nodes)
  PROVE  HasChildren(Rows(nodes)[x], Len(BytesOf(nodes, x)), nodes[x].children)
<1> DEFINE S == DOMAIN nodes[x].children
           s == Ascending(S)
           m == Cardinality(S)
           row == Rows(nodes)[x]
<1>0. nodes \in Seq(NodeSet) /\ DOMAIN nodes = 1 .. Len(nodes)
  BY DEF IsTree
<1>1. S \in SUBSET ByteSet
  <2>1. nodes[x] \in NodeSet
    BY <1>0
  <2>2. nodes[x].children \in UNION {[D -> Nat] : D \in SUBSET ByteSet}
    BY <2>1 DEF NodeSet
  <2> QED BY <2>2
<1>2. BytesOf(nodes, x) = s
  BY DEF BytesOf
<1>3. s \in Seq(S) /\ Len(s) = m /\ m \in Nat
  <2> HIDE DEF S
  <2> QED BY <1>1, AscendingFacts, RankFacts
<1>4. row = [k \in DOMAIN s |-> [byte |-> s[k], child |-> nodes[x].children[s[k]]]]
  BY <1>0, <1>2 DEF Rows
<1>5. DOMAIN s = 1 .. m
  <2> HIDE DEF s, m, S
  <2> QED BY <1>3
<1> HIDE DEF row, m, s
<1>6. ASSUME NEW k \in 1 .. m
      PROVE  s[k] \in S /\ row[k].byte = s[k] /\ row[k].child = nodes[x].children[s[k]]
  <2>1. row[k] = [byte |-> s[k], child |-> nodes[x].children[s[k]]]
    BY <1>4, <1>5
  <2> HIDE DEF S
  <2> QED BY <1>3, <2>1
<1>7. ASSUME NEW b \in S PROVE \E k \in 1 .. m : row[k].byte = b
  <2> HIDE DEF S
  <2>1. PICK k \in 1 .. m : s[k] = b
    BY <1>1, AscendingHasAll DEF s, m
  <2> QED BY <1>6, <2>1
<1>8. Len(BytesOf(nodes, x)) = m
  BY <1>2, <1>3
<1>9. \A k \in 1 .. m : row[k].byte \in S /\ row[k].child = nodes[x].children[row[k].byte]
  <2> HIDE DEF S
  <2> QED BY <1>6
<1> QED
  <2> HIDE DEF m, s
  <2> QED BY <1>7, <1>8, <1>9 DEF row, HasChildren

(* trie_find_child finds the child, if there is one, however it searches. *)
LEMMA FindChildIs ==
  ASSUME NEW nodes, NEW L, NEW c, NEW n, IsTree(nodes, L, c, n), NEW x \in 1 .. Len(nodes),
         NEW b \in ByteSet
  PROVE  FindChild(Packed(nodes), x, b) =
           IF b \in DOMAIN nodes[x].children THEN nodes[x].children[b] ELSE None
<1> DEFINE trie == Packed(nodes)
           start == trie.nodes[x].start
           m == trie.nodes[x].count
           edges == trie.edges
           row == Rows(nodes)[x]
           first == start + 1
           last == start + m
           at == Bisect(edges, first, last, b)
           hits == IF m <= 2 THEN Compare(edges, first, last, b)
                   ELSE IF m <= LinearEdges THEN Scan(edges, first, last, b)
                   ELSE {k \in {at} : at <= last /\ edges[at].byte = b}
<1>1. InRow(trie, nodes, x)
  BY PackedRows
<1>2. FindChild(trie, x, b) = IF hits = {} THEN None ELSE edges[Min(hits)].child
  BY DEF FindChild
<1> HIDE DEF trie
<1>3. /\ m \in Nat /\ m = Len(BytesOf(nodes, x)) /\ start \in Nat
      /\ \A k \in 1 .. m : edges[start + k] = row[k]
  BY <1>1, RowFacts DEF InRow
<1>4. /\ \A k \in 1 .. m : /\ row[k].byte \in ByteSet /\ row[k].byte \in DOMAIN nodes[x].children
                           /\ row[k].child = nodes[x].children[row[k].byte]
      /\ \A j, k \in 1 .. m : j < k => row[j].byte < row[k].byte
      /\ \A y \in DOMAIN nodes[x].children : \E k \in 1 .. m : row[k].byte = y
  <2> DEFINE M == Len(BytesOf(nodes, x))
  <2>1. /\ \A k \in 1 .. M : row[k].byte \in ByteSet
        /\ \A j, k \in 1 .. M : j < k => row[j].byte < row[k].byte
    BY RowFacts
  <2>2. /\ \A k \in 1 .. M : /\ row[k].byte \in DOMAIN nodes[x].children
                            /\ row[k].child = nodes[x].children[row[k].byte]
        /\ \A y \in DOMAIN nodes[x].children : \E k \in 1 .. M : row[k].byte = y
    <3>1. HasChildren(row, M, nodes[x].children)
      BY RowChildren
    <3> HIDE DEF row, M
    <3> QED BY <3>1 DEF HasChildren
  <2>3. m = M
    BY <1>3
  <2> HIDE DEF m, M, row
  <2> QED BY <2>1, <2>2, <2>3
<1> HIDE DEF start, m, edges, row
<1>5. first \in Nat /\ last \in Nat /\ first <= last + 1
  BY <1>3
<1>e. ASSUME NEW k \in first .. last
      PROVE  \E j \in 1 .. m : k = start + j /\ edges[k] = row[j]
  <2>1. k - start \in 1 .. m /\ k = start + (k - start)
    BY <1>3
  <2> QED BY <1>3, <2>1
<1>6. SortedAt(edges, first, last)
  <2>1. ASSUME NEW k \in first .. last PROVE edges[k].byte \in Int
    <3>1. PICK j \in 1 .. m : edges[k] = row[j]
      BY <1>e
    <3>2. row[j].byte \in ByteSet
      BY <1>4
    <3>3. \A y \in ByteSet : y \in Int
      BY DEF ByteSet
    <3> QED BY <3>1, <3>2, <3>3
  <2>2. ASSUME NEW j \in first .. last, NEW k \in first .. last, j < k PROVE edges[j].byte < edges[k].byte
    <3>1. PICK p \in 1 .. m : j = start + p /\ edges[j] = row[p]
      BY <1>e
    <3>2. PICK q \in 1 .. m : k = start + q /\ edges[k] = row[q]
      BY <1>e
    <3>3. p < q
      BY <1>3, <2>2, <3>1, <3>2
    <3> QED BY <1>4, <3>1, <3>2, <3>3
  <2> QED BY <2>1, <2>2 DEF SortedAt
<1>7. PICK p : Cut(edges, first, last, b, p)
  <2>1. b \in Int
    BY DEF ByteSet
  <2> HIDE DEF first, last
  <2> QED BY <1>5, <1>6, <2>1, CutExists
<1>8. at = p
  <2>1. b \in Int
    BY DEF ByteSet
  <2> HIDE DEF first, last
  <2> QED BY <1>5, <1>7, <2>1, BisectFinds
<1>9. \A k \in first .. last : edges[k].byte = b => k = p
  <2> SUFFICES ASSUME NEW k \in first .. last, edges[k].byte = b PROVE k = p
    OBVIOUS
  <2>1. p \in first .. last + 1 /\ ~(k < p) /\ (p \in first .. last => ~(edges[p].byte < b))
    <3>1. b \in Int
      BY DEF ByteSet
    <3> HIDE DEF first, last
    <3> QED BY <1>5, <1>7, <3>1 DEF Cut
  <2>2. p < k => edges[p].byte < edges[k].byte
    BY <1>5, <1>6, <2>1 DEF SortedAt
  <2> QED BY <1>5, <2>1, <2>2
<1>10. hits = {k \in first .. last : edges[k].byte = b}
  <2>0. CASE m <= 2
    BY <2>0 DEF Compare
  <2>1. CASE ~(m <= 2) /\ m <= LinearEdges
    <3>1. \A k \in first .. last : edges[k].byte = b =>
            \A j \in first .. k - 1 : edges[j].byte < b
      BY <1>5, <1>6 DEF SortedAt
    <3> QED BY <2>1, <3>1 DEF Scan
  <2>2. CASE ~(m <= 2) /\ ~(m <= LinearEdges)
    <3>1. p \in first .. last + 1
      BY <1>7 DEF Cut
    <3>2. hits = {k \in {p} : p <= last /\ edges[p].byte = b}
      BY <1>8, <2>2
    <3>3. p <= last <=> p \in first .. last
      BY <1>5, <3>1
    <3> HIDE DEF first, last, hits
    <3> QED BY <1>9, <3>2, <3>3
  <2> QED BY <2>0, <2>1, <2>2
<1> HIDE DEF hits
<1>11. CASE b \in DOMAIN nodes[x].children
  <2>1. PICK j \in 1 .. m : row[j].byte = b
    BY <1>4, <1>11
  <2> DEFINE k == start + j
  <2>2. k \in first .. last /\ edges[k] = row[j]
    BY <1>3
  <2>3. hits = {k}
    <3> HIDE DEF k, first, last
    <3> QED BY <1>9, <1>10, <2>1, <2>2
  <2>4. Min({k}) = k
    <3>1. {k} \in SUBSET Nat
      BY <1>3
    <3> HIDE DEF k
    <3> QED BY <3>1, MinOfNat
  <2>5. edges[Min(hits)].child = nodes[x].children[b]
    <3> HIDE DEF k
    <3> QED BY <1>4, <2>1, <2>2, <2>3, <2>4
  <2> QED BY <1>2, <1>11, <2>3, <2>5 DEF trie
<1>12. CASE b \notin DOMAIN nodes[x].children
  <2>1. hits = {}
    BY <1>4, <1>10, <1>12, <1>e
  <2> QED BY <1>2, <1>12, <2>1 DEF trie
<1> QED BY <1>11, <1>12

-----------------------------------------------------------------------------
(* The states se_trie_longest_match goes through *)

Start == [node |-> 1, read |-> 0, id |-> None, len |-> 0]

Step(trie, s, byte) ==
  LET child == IF s.node = None THEN None ELSE FindChild(trie, s.node, byte)
      id == IF child = None THEN None ELSE trie.nodes[child].terminal
  IN [node |-> child, read |-> s.read + 1,
      id |-> IF id = None THEN s.id ELSE id,
      len |-> IF id = None THEN s.len ELSE s.read + 1]

IsRead(g, trie, bytes) ==
  g = [S \in SUBSET (DOMAIN bytes) |->
         IF S = {} THEN Start ELSE Step(trie, g[S \ {Max(S)}], bytes[Max(S)])]

LEMMA MatchIsRead ==
  ASSUME NEW trie, NEW bytes, \E g : IsRead(g, trie, bytes)
  PROVE  \E g : IsRead(g, trie, bytes) /\ LongestMatch(trie, bytes) = g[DOMAIN bytes]
<1> DEFINE h == CHOOSE g : IsRead(g, trie, bytes)
<1>1. IsRead(h, trie, bytes)
  OBVIOUS
<1>2. LongestMatch(trie, bytes) = h[DOMAIN bytes]
  BY DEF LongestMatch, FoldLeft, MapThenFoldSet, IsRead, Step, Start
<1> QED BY <1>1, <1>2

LEMMA ReadExists ==
  ASSUME NEW trie, NEW bytes, Len(bytes) \in Nat, DOMAIN bytes = 1 .. Len(bytes)
  PROVE  \E g : IsRead(g, trie, bytes)
<1> DEFINE D == DOMAIN bytes
           Turn(g) == [S \in SUBSET D |->
                         IF S = {} THEN Start ELSE Step(trie, g[S \ {Max(S)}], bytes[Max(S)])]
           Upto(g, n) == \A S \in SUBSET D : S \subseteq 1 .. n => g[S] = Turn(g)[S]
           P == {n \in Nat : \E g : Upto(g, n)}
<1>m. ASSUME NEW n \in Nat, NEW S \in SUBSET D, S \subseteq 1 .. n + 1, S # {}
      PROVE  S \ {Max(S)} \in SUBSET D /\ S \ {Max(S)} \subseteq 1 .. n
  <2>1. n + 1 \in Nat /\ S # {} /\ \A x \in S : x \in 0 .. n + 1
    BY <1>m
  <2>2. Max(S) \in S /\ \A x \in S : x <= Max(S)
    BY <2>1, MaxOfNat
  <2> DEFINE top == Max(S)
  <2> HIDE DEF top
  <2>3. top \in S /\ \A x \in S : x <= top
    BY <2>2 DEF top
  <2>4. \A x \in S : x \in 1 .. n + 1
    BY <1>m
  <2>5. \A x \in S \ {top} : x \in 1 .. n
    BY <2>3, <2>4
  <2>6. S \ {top} \in SUBSET D
    OBVIOUS
  <2> QED BY <2>5, <2>6 DEF top
<1>n. ASSUME NEW g, NEW n \in Nat, Upto(g, n)
      PROVE  \A S \in SUBSET D : S \subseteq 1 .. n + 1 => Turn(g)[S] = Turn(Turn(g))[S]
  <2> TAKE S \in SUBSET D
  <2> HAVE S \subseteq 1 .. n + 1
  <2>1. CASE S = {}
    BY <2>1
  <2>2. CASE S # {}
    <3> DEFINE r == S \ {Max(S)}
    <3>1. r \in SUBSET D /\ r \subseteq 1 .. n
      BY <1>m, <2>2
    <3>2. g[r] = Turn(g)[r]
      BY <3>1, <1>n
    <3> QED BY <2>2, <3>2
  <2> QED BY <2>1, <2>2
<1>1. 0 \in P
  <2> DEFINE z == [S \in SUBSET D |-> Start]
  <2>1. Upto(z, 0)
    <3> SUFFICES ASSUME NEW S \in SUBSET D, S \subseteq 1 .. 0 PROVE z[S] = Turn(z)[S]
      OBVIOUS
    <3>1. S = {}
      OBVIOUS
    <3> QED BY <3>1
  <2> QED BY <2>1
<1>2. \A n \in P : n + 1 \in P
  <2> TAKE n \in P
  <2>1. PICK g : Upto(g, n)
    OBVIOUS
  <2>2. Upto(Turn(g), n + 1)
    BY <1>n, <2>1
  <2> HIDE DEF Turn, Upto
  <2>3. \E k : Upto(k, n + 1)
    BY <2>2, Zenon
  <2> QED BY <2>3
<1>3. P = Nat
  <2> HIDE DEF P
  <2>1. P \in SUBSET Nat
    BY DEF P
  <2> QED BY <2>1, <1>1, <1>2, NatInduct
<1>4. PICK g : Upto(g, Len(bytes))
  BY <1>3
<1>6. Turn(g) = Turn(Turn(g))
  <2>1. \A S \in SUBSET D : S \subseteq 1 .. Len(bytes) + 1
    OBVIOUS
  <2>2. \A S \in SUBSET D : Turn(g)[S] = Turn(Turn(g))[S]
    BY <1>4, <1>n, <2>1
  <2> QED BY <2>2
<1> QED BY <1>6 DEF IsRead

(* The states in between, one a byte *)
Reading(f, trie, bytes) ==
  f[0] = Start /\ \A k \in 1 .. Len(bytes) : f[k] = Step(trie, f[k - 1], bytes[k])

LEMMA MatchIs ==
  ASSUME NEW trie, NEW bytes, Len(bytes) \in Nat, DOMAIN bytes = 1 .. Len(bytes)
  PROVE  \E f : Reading(f, trie, bytes) /\ LongestMatch(trie, bytes) = f[Len(bytes)]
<1>1. PICK g : IsRead(g, trie, bytes) /\ LongestMatch(trie, bytes) = g[DOMAIN bytes]
  BY ReadExists, MatchIsRead
<1> DEFINE D == DOMAIN bytes
           f == [k \in 0 .. Len(bytes) |-> g[1 .. k]]
<1>g. \A S \in SUBSET D :
        g[S] = IF S = {} THEN Start ELSE Step(trie, g[S \ {Max(S)}], bytes[Max(S)])
  BY <1>1 DEF IsRead
<1>2. f[0] = Start
  <2>1. 1 .. 0 = {} /\ 0 \in 0 .. Len(bytes)
    OBVIOUS
  <2>2. g[{}] = Start
    BY <1>g
  <2> QED BY <2>1, <2>2
<1>3. ASSUME NEW k \in 1 .. Len(bytes)
      PROVE  f[k] = Step(trie, f[k - 1], bytes[k])
  <2>1. Max(1 .. k) = k
    <3> DEFINE S == 1 .. k
    <3>1. k \in Nat /\ k \in S /\ S # {} /\ \A x \in S : x \in 0 .. k
      OBVIOUS
    <3>2. \A x \in S : x \in Nat /\ x <= k
      OBVIOUS
    <3> HIDE DEF S
    <3>3. Max(S) \in S /\ \A x \in S : x <= Max(S)
      BY <3>1, MaxOfNat
    <3>4. Max(S) \in Nat /\ Max(S) <= k /\ k <= Max(S) /\ k \in Nat
      BY <3>1, <3>2, <3>3
    <3>5. Max(S) = k
      BY <3>4
    <3> QED BY <3>5 DEF S
  <2>2. (1 .. k) \ {k} = 1 .. k - 1
    OBVIOUS
  <2>3. 1 .. k \in SUBSET D /\ 1 .. k # {}
    <3>1. \A x \in 1 .. k : x \in D
      OBVIOUS
    <3>2. k \in 1 .. k
      OBVIOUS
    <3> QED BY <3>1, <3>2
  <2>4. g[1 .. k] = Step(trie, g[1 .. k - 1], bytes[k])
    BY <1>g, <2>1, <2>2, <2>3
  <2> QED BY <2>4
<1>4. f[Len(bytes)] = g[DOMAIN bytes]
  OBVIOUS
<1>5. Reading(f, trie, bytes)
  BY <1>2, <1>3 DEF Reading
<1> QED BY <1>1, <1>4, <1>5

(* A node that spells one byte more is the child for that byte. *)
LEMMA ParentOf ==
  ASSUME NEW nodes, NEW L, NEW c, NEW n, IsTree(nodes, L, c, n), NEW pre \in Seq(ByteSet),
         NEW b \in ByteSet, NEW x \in 1 .. Len(nodes), L[x] = Append(pre, b)
  PROVE  \E y \in 1 .. Len(nodes) :
           L[y] = pre /\ b \in DOMAIN nodes[y].children /\ nodes[y].children[b] = x
<1>0. /\ Len(nodes) \in Nat /\ L[1] = <<>> /\ nodes \in Seq(NodeSet)
      /\ \A y \in 1 .. Len(nodes) : L[y] \in Seq(ByteSet) /\ nodes[y] \in NodeSet
      /\ \A y \in 1 .. Len(nodes) : \A d \in DOMAIN nodes[y].children :
           L[nodes[y].children[d]] = Append(L[y], d)
  <2>1. \A y \in 1 .. Len(nodes) : \A d \in DOMAIN nodes[y].children :
           L[nodes[y].children[d]] = Append(L[y], d)
    BY DEF IsTree
  <2>2. /\ nodes \in Seq(NodeSet) /\ Len(nodes) \in Nat /\ L[1] = <<>>
        /\ L \in [1 .. Len(nodes) -> Seq(ByteSet)]
    BY DEF IsTree
  <2>3. \A y \in 1 .. Len(nodes) : L[y] \in Seq(ByteSet) /\ nodes[y] \in NodeSet
    BY <2>2
  <2> QED BY <2>1, <2>2, <2>3
<1>1. x # 1
  BY <1>0, AppendProperties
<1>2. x \in 2 .. Len(nodes)
  BY <1>0, <1>1
<1>3. PICK y \in 1 .. Len(nodes) : \E d \in DOMAIN nodes[y].children : nodes[y].children[d] = x
  BY <1>2 DEF IsTree, Rooted
<1>4. PICK d \in DOMAIN nodes[y].children : nodes[y].children[d] = x
  BY <1>3
<1>5. Append(L[y], d) = Append(pre, b)
  BY <1>0, <1>4
<1>6. d \in ByteSet /\ L[y] \in Seq(ByteSet)
  <2>1. nodes[y].children \in UNION {[D -> Nat] : D \in SUBSET ByteSet}
    BY <1>0 DEF NodeSet
  <2>2. DOMAIN nodes[y].children \in SUBSET ByteSet
    BY <2>1
  <2> QED BY <1>0, <2>2
<1> DEFINE q == L[y]
<1> HIDE DEF q
<1>7. q = pre /\ d = b
  <2>1. q \in Seq(ByteSet) /\ Append(q, d) = Append(pre, b)
    BY <1>5, <1>6 DEF q
  <2> QED BY <1>6, <2>1, AppendInjective
<1> QED BY <1>4, <1>7 DEF q

(* The places of a text where a key ends *)
KeyEnds(nodes, L, bytes, k) ==
  \E x \in 1 .. Len(nodes) : L[x] = SubSeq(bytes, 1, k) /\ nodes[x].terminal # None

(* After k bytes the walk is at the node they lead to, if there is one, and *)
(* remembers the last key that ended.                                       *)
AtNode(s, nodes, L, bytes, k) ==
  /\ s.read = k
  /\ s.node # None => s.node \in 1 .. Len(nodes) /\ L[s.node] = SubSeq(bytes, 1, k)
  /\ \A x \in 1 .. Len(nodes) : L[x] = SubSeq(bytes, 1, k) => s.node = x

LastKey(s, nodes, L, bytes, k) ==
  \/ s.id = None /\ \A j \in 1 .. k : ~KeyEnds(nodes, L, bytes, j)
  \/ /\ s.len \in 1 .. k /\ s.id # None
     /\ \E x \in 1 .. Len(nodes) : L[x] = SubSeq(bytes, 1, s.len) /\ nodes[x].terminal = s.id
     /\ \A j \in s.len + 1 .. k : ~KeyEnds(nodes, L, bytes, j)

LEMMA StartReads ==
  ASSUME NEW nodes, NEW L, NEW c, NEW n, IsTree(nodes, L, c, n), NEW bytes \in Seq(ByteSet)
  PROVE  AtNode(Start, nodes, L, bytes, 0) /\ LastKey(Start, nodes, L, bytes, 0)
<1>1. SubSeq(bytes, 1, 0) = <<>>
  OBVIOUS
<1>2. Start.node = 1 /\ Start.read = 0 /\ Start.id = None /\ 1 # None
  BY DEF Start, None
<1>3. 1 \in 1 .. Len(nodes) /\ L[1] = <<>>
  BY DEF IsTree
<1>4. ASSUME NEW x \in 1 .. Len(nodes), L[x] = <<>> PROVE x = 1
  <2> SUFFICES ASSUME x # 1 PROVE FALSE
    OBVIOUS
  <2>1. x \in 2 .. Len(nodes)
    BY DEF IsTree
  <2>2. PICK y \in 1 .. Len(nodes) : \E d \in DOMAIN nodes[y].children : nodes[y].children[d] = x
    BY <2>1 DEF IsTree, Rooted
  <2>3. PICK d \in DOMAIN nodes[y].children : L[x] = Append(L[y], d)
    BY <2>2 DEF IsTree
  <2>4. L[y] \in Seq(ByteSet) /\ d \in ByteSet
    <3>1. nodes[y] \in NodeSet /\ L[y] \in Seq(ByteSet)
      BY DEF IsTree
    <3>2. nodes[y].children \in UNION {[D -> Nat] : D \in SUBSET ByteSet}
      BY <3>1 DEF NodeSet
    <3> QED BY <3>1, <3>2
  <2> QED BY <1>4, <2>3, <2>4, AppendProperties
<1>5. AtNode(Start, nodes, L, bytes, 0)
  BY <1>1, <1>2, <1>3, <1>4 DEF AtNode
<1>6. LastKey(Start, nodes, L, bytes, 0)
  BY <1>2 DEF LastKey
<1> QED BY <1>5, <1>6

LEMMA StepReads ==
  ASSUME NEW nodes, NEW L, NEW c, NEW n, IsTree(nodes, L, c, n), NEW bytes \in Seq(ByteSet),
         NEW k \in Nat, NEW j, j = k + 1, j <= Len(bytes),
         NEW s, AtNode(s, nodes, L, bytes, k), LastKey(s, nodes, L, bytes, k),
         NEW t, t = Step(Packed(nodes), s, bytes[j])
  PROVE  AtNode(t, nodes, L, bytes, j) /\ LastKey(t, nodes, L, bytes, j)
<1> DEFINE N == Len(nodes)
           b == bytes[j]
           pre == SubSeq(bytes, 1, k)
           now == SubSeq(bytes, 1, j)
           trie == Packed(nodes)
           child == IF s.node = None THEN None ELSE FindChild(trie, s.node, b)
           id == IF child = None THEN None ELSE trie.nodes[child].terminal
<1>0. k \in 0 .. Len(bytes) /\ N \in Nat
  BY DEF IsTree
<1>1. pre \in Seq(ByteSet) /\ b \in ByteSet /\ now = Append(pre, b)
  BY <1>0, SubSeqGrows
<1>2. /\ t.node = child /\ t.read = s.read + 1
      /\ t.id = IF id = None THEN s.id ELSE id
      /\ t.len = IF id = None THEN s.len ELSE s.read + 1
  BY DEF Step
<1>3. s.read = k /\ (s.node # None => s.node \in 1 .. N /\ L[s.node] = pre)
      /\ \A x \in 1 .. N : L[x] = pre => s.node = x
  BY DEF AtNode
<1>4. s.node # None => FindChild(trie, s.node, b) =
         IF b \in DOMAIN nodes[s.node].children THEN nodes[s.node].children[b] ELSE None
  <2> DEFINE x == s.node
  <2> HIDE DEF x, b, trie
  <2>1. ASSUME x \in 1 .. N
        PROVE  FindChild(trie, x, b) = IF b \in DOMAIN nodes[x].children THEN nodes[x].children[b] ELSE None
    BY <1>1, <2>1, FindChildIs DEF trie
  <2> QED BY <1>3, <2>1 DEF x
<1>5. child # None => child \in 1 .. N /\ L[child] = now
  <2> SUFFICES ASSUME child # None PROVE child \in 1 .. N /\ L[child] = now
    OBVIOUS
  <2>1. s.node # None /\ b \in DOMAIN nodes[s.node].children /\ child = nodes[s.node].children[b]
    BY <1>4
  <2>2. s.node \in 1 .. N /\ L[s.node] = pre
    BY <1>3, <2>1
  <2> HIDE DEF child, b, pre, now
  <2> QED BY <1>1, <2>1, <2>2 DEF IsTree
<1>6. ASSUME NEW x \in 1 .. N, L[x] = now PROVE child = x
  <2>1. PICK y \in 1 .. N : L[y] = pre /\ b \in DOMAIN nodes[y].children /\ nodes[y].children[b] = x
    <3> HIDE DEF b, pre, now
    <3> QED BY <1>1, <1>6, ParentOf
  <2>2. s.node = y /\ y # None
    BY <1>0, <1>3, <2>1 DEF None
  <2> HIDE DEF trie, b
  <2> QED BY <1>4, <2>1, <2>2
<1>7. child # None => trie.nodes[child].terminal = nodes[child].terminal
  <2>1. \A x \in 1 .. N : trie.nodes[x].terminal = nodes[x].terminal
    <3>1. \A x \in 1 .. N : InRow(trie, nodes, x)
      BY PackedRows
    <3> QED BY <3>1 DEF InRow
  <2> HIDE DEF child, trie
  <2> QED BY <1>5, <2>1
<1> HIDE DEF child, now, pre, trie, b
<1>8. AtNode(t, nodes, L, bytes, j)
  <2>1. t.read = j /\ t.node = child
    BY <1>2, <1>3
  <2> QED BY <1>5, <1>6, <2>1 DEF AtNode, now
<1>9. CASE id = None
  <2>1. t.id = s.id /\ t.len = s.len
    BY <1>2, <1>9
  <2>2. ~KeyEnds(nodes, L, bytes, j)
    <3> SUFFICES ASSUME NEW x \in 1 .. N, L[x] = now, nodes[x].terminal # None PROVE FALSE
      BY DEF KeyEnds, now
    <3>1. child = x /\ x # None
      BY <1>0, <1>6 DEF None
    <3> QED BY <1>7, <1>9, <3>1
  <2>3. LastKey(t, nodes, L, bytes, j)
    <3>1. CASE s.id = None /\ \A i \in 1 .. k : ~KeyEnds(nodes, L, bytes, i)
      <4>1. \A i \in 1 .. j : ~KeyEnds(nodes, L, bytes, i)
        BY <2>2, <3>1
      <4> QED BY <2>1, <3>1, <4>1 DEF LastKey
    <3>2. CASE /\ s.len \in 1 .. k /\ s.id # None
               /\ \E x \in 1 .. N : L[x] = SubSeq(bytes, 1, s.len) /\ nodes[x].terminal = s.id
               /\ \A i \in s.len + 1 .. k : ~KeyEnds(nodes, L, bytes, i)
      <4>1. \A i \in s.len + 1 .. j : ~KeyEnds(nodes, L, bytes, i)
        BY <2>2, <3>2
      <4>2. s.len \in 1 .. j
        BY <3>2
      <4> QED BY <2>1, <3>2, <4>1, <4>2 DEF LastKey
    <3> QED BY <3>1, <3>2 DEF LastKey
  <2> QED BY <1>8, <2>3
<1>10. CASE id # None
  <2>1. child # None /\ t.id = id /\ t.len = j /\ id = nodes[child].terminal
    BY <1>2, <1>3, <1>7, <1>10
  <2>2. child \in 1 .. N /\ L[child] = now
    BY <1>5, <2>1
  <2>3. j \in 1 .. j /\ \A i \in j + 1 .. j : FALSE
    OBVIOUS
  <2>4. LastKey(t, nodes, L, bytes, j)
    BY <1>10, <2>1, <2>2, <2>3 DEF LastKey, now
  <2> QED BY <1>8, <2>4
<1> QED BY <1>9, <1>10

LEMMA MatchReads ==
  ASSUME NEW nodes, NEW L, NEW c, NEW n, IsTree(nodes, L, c, n), NEW bytes \in Seq(ByteSet)
  PROVE  LastKey(LongestMatch(Packed(nodes), bytes), nodes, L, bytes, Len(bytes))
<1> DEFINE N == Len(bytes)
           trie == Packed(nodes)
<1>0. N \in Nat /\ DOMAIN bytes = 1 .. N
  OBVIOUS
<1>1. PICK f : Reading(f, trie, bytes) /\ LongestMatch(trie, bytes) = f[N]
  BY <1>0, MatchIs
<1> DEFINE Good(k) == AtNode(f[k], nodes, L, bytes, k) /\ LastKey(f[k], nodes, L, bytes, k)
           P == {k \in Nat : k <= N => Good(k)}
<1>2. 0 \in P
  <2>1. f[0] = Start
    BY <1>1 DEF Reading
  <2>2. Good(0)
    BY <2>1, StartReads
  <2> QED BY <2>2
<1>3. ASSUME NEW k \in P PROVE k + 1 \in P
  <2> DEFINE j == k + 1
             s == f[k]
             t == f[j]
  <2>0. k \in Nat /\ j \in Nat /\ j = k + 1 /\ k = j - 1
    OBVIOUS
  <2> SUFFICES ASSUME j <= N PROVE Good(j)
    BY <2>0
  <2>1. j \in 1 .. N /\ Good(k)
    BY <1>0, <2>0
  <2> HIDE DEF j, P
  <2>2. t = Step(trie, s, bytes[j])
    BY <1>1, <2>0, <2>1 DEF Reading
  <2>3. AtNode(s, nodes, L, bytes, k) /\ LastKey(s, nodes, L, bytes, k)
    BY <2>1
  <2> HIDE DEF s, t
  <2>4. AtNode(t, nodes, L, bytes, j) /\ LastKey(t, nodes, L, bytes, j)
    BY <2>0, <2>2, <2>3, StepReads
  <2> QED BY <2>4 DEF t
<1>4. P = Nat
  <2> HIDE DEF P
  <2>1. P \in SUBSET Nat
    BY DEF P
  <2> QED BY <1>2, <1>3, <2>1, NatInduct
<1>5. Good(N)
  <2>1. N \in P
    BY <1>0, <1>4
  <2> HIDE DEF Good
  <2> QED BY <1>0, <2>1
<1> QED BY <1>1, <1>5

(* Token i, among the first n, is a key that ends after k bytes. *)
Matches(c, n, bytes, k, i) ==
  i \in 1 .. n /\ Continues(vocab[i]) = c /\ Key(vocab[i]) = SubSeq(bytes, 1, k)

BestMatch(m, c, n, bytes) ==
  \/ m.id = None /\ \A k \in 1 .. Len(bytes) : \A i \in 1 .. n : ~Matches(c, n, bytes, k, i)
  \/ /\ m.len \in 1 .. Len(bytes) /\ m.id # None /\ Matches(c, n, bytes, m.len, m.id)
     /\ \A k \in m.len + 1 .. Len(bytes) : \A i \in 1 .. n : ~Matches(c, n, bytes, k, i)

(* se_trie_longest_match finds the longest key. *)
LEMMA MatchFinds ==
  ASSUME NEW nodes, NEW L, NEW c, NEW n \in Nat, IsTree(nodes, L, c, n), NEW bytes \in Seq(ByteSet)
  PROVE  BestMatch(LongestMatch(Packed(nodes), bytes), c, n, bytes)
<1> DEFINE m == LongestMatch(Packed(nodes), bytes)
<1>1. LastKey(m, nodes, L, bytes, Len(bytes))
  BY MatchReads
<1> HIDE DEF m
<1>2. ASSUME NEW k \in 1 .. Len(bytes), NEW i \in 1 .. n, Matches(c, n, bytes, k, i)
      PROVE  KeyEnds(nodes, L, bytes, k)
  <2>1. Key(vocab[i]) = SubSeq(bytes, 1, k) /\ Continues(vocab[i]) = c
    BY <1>2 DEF Matches
  <2>2. SubSeq(bytes, 1, k) # <<>>
    <3>1. Len(SubSeq(bytes, 1, k)) = k
      OBVIOUS
    <3> QED BY <3>1, EmptySeq
  <2>3. \E x \in 1 .. Len(nodes) : L[x] = Key(vocab[i]) /\ nodes[x].terminal = i
    BY <2>1, <2>2 DEF IsTree, Complete
  <2>4. i # None
    BY DEF None
  <2> QED BY <2>1, <2>3, <2>4 DEF KeyEnds
<1>3. CASE m.id = None /\ \A j \in 1 .. Len(bytes) : ~KeyEnds(nodes, L, bytes, j)
  BY <1>2, <1>3 DEF BestMatch, m
<1>4. CASE /\ m.len \in 1 .. Len(bytes) /\ m.id # None
           /\ \E x \in 1 .. Len(nodes) : L[x] = SubSeq(bytes, 1, m.len) /\ nodes[x].terminal = m.id
           /\ \A j \in m.len + 1 .. Len(bytes) : ~KeyEnds(nodes, L, bytes, j)
  <2>1. PICK x \in 1 .. Len(nodes) : L[x] = SubSeq(bytes, 1, m.len) /\ nodes[x].terminal = m.id
    BY <1>4
  <2>2. Matches(c, n, bytes, m.len, m.id)
    BY <1>4, <2>1 DEF IsTree, Matches
  <2>3. \A k \in m.len + 1 .. Len(bytes) : k \in 1 .. Len(bytes)
    BY <1>4
  <2> QED BY <1>2, <1>4, <2>2, <2>3 DEF BestMatch, m
<1> QED BY <1>1, <1>3, <1>4 DEF LastKey

-----------------------------------------------------------------------------
(* Keys and pieces *)

LEMMA ConcatPrefix ==
  ASSUME NEW S, NEW a \in Seq(S), NEW r \in Seq(S)
  PROVE  /\ IsPrefix(a, a \o r) /\ Len(a \o r) = Len(a) + Len(r) /\ Len(a) \in Nat /\ Len(r) \in Nat
         /\ SubSeq(a \o r, 1, Len(a)) = a
         /\ SubSeq(a \o r, Len(a) + 1, Len(a \o r)) = r
<1> DEFINE t == a \o r
           u == SubSeq(t, 1, Len(a))
           v == SubSeq(t, Len(a) + 1, Len(t))
<1>1. /\ t \in Seq(S) /\ Len(t) = Len(a) + Len(r) /\ Len(a) \in Nat /\ Len(r) \in Nat
      /\ \A i \in 1 .. Len(a) : t[i] = a[i]
      /\ \A i \in 1 .. Len(r) : t[Len(a) + i] = r[i]
  OBVIOUS
<1> HIDE DEF t
<1>2. u \in Seq(S) /\ Len(u) = Len(a) /\ \A i \in 1 .. Len(a) : u[i] = a[i]
  BY <1>1
<1>3. v \in Seq(S) /\ Len(v) = Len(r) /\ \A i \in 1 .. Len(r) : v[i] = r[i]
  BY <1>1
<1>4. IsPrefix(a, t)
  <2>1. Len(a) <= Len(t)
    BY <1>1
  <2> QED BY <1>1, <2>1, PrefixIs
<1> HIDE DEF u, v
<1>5. u = a
  BY <1>2, SeqEqual
<1>6. v = r
  BY <1>3, SeqEqual
<1> QED BY <1>1, <1>4, <1>5, <1>6 DEF t, u, v

LEMMA PrefixSplits ==
  ASSUME NEW S, NEW a \in Seq(S), NEW t \in Seq(S), IsPrefix(a, t)
  PROVE  /\ t = a \o SubSeq(t, Len(a) + 1, Len(t)) /\ SubSeq(t, Len(a) + 1, Len(t)) \in Seq(S)
         /\ a = SubSeq(t, 1, Len(a)) /\ Len(a) <= Len(t)
<1>0. Len(a) \in Nat /\ Len(t) \in Nat
  OBVIOUS
<1>1. Len(a) <= Len(t) /\ SubSeq(a, 1, Len(a)) = SubSeq(t, 1, Len(a))
  BY DEF IsPrefix
<1>2. a = SubSeq(t, 1, Len(a))
  BY <1>1, SubSeqFull
<1>3. 1 \in 1 .. Len(t) + 1 /\ Len(a) \in 1 - 1 .. Len(t) /\ Len(t) \in Len(a) .. Len(t)
  BY <1>0, <1>1
<1>4. SubSeq(t, 1, Len(a)) \o SubSeq(t, Len(a) + 1, Len(t)) = SubSeq(t, 1, Len(t))
  <2> DEFINE k == Len(a)
  <2> HIDE DEF k
  <2>1. 1 \in 1 .. Len(t) + 1 /\ k \in 1 - 1 .. Len(t) /\ Len(t) \in k .. Len(t)
    BY <1>3 DEF k
  <2>2. SubSeq(t, 1, k) \o SubSeq(t, k + 1, Len(t)) = SubSeq(t, 1, Len(t))
    BY <2>1, ConcatAdjacentSubSeq
  <2> QED BY <2>2 DEF k
<1>5. SubSeq(t, 1, Len(t)) = t
  BY SubSeqFull
<1>6. SubSeq(t, Len(a) + 1, Len(t)) \in Seq(S)
  BY <1>0
<1> QED BY <1>1, <1>2, <1>4, <1>5, <1>6

LEMMA PrefixIsText == Prefix \in Seq(Characters)
BY VocabularyAssumption DEF VocabularyAssumption

(* A continuation: the prefix with something behind it *)
LEMMA ContinuationIs ==
  ASSUME Prefix # <<>>, NEW r \in Seq(Characters), r # <<>>
  PROVE  Continues(Prefix \o r) /\ Key(Prefix \o r) = Bytes(r)
<1> DEFINE t == Prefix \o r
           p == Bytes(Prefix)
           b == Bytes(r)
<1>0. Prefix \in Seq(Characters)
  BY PrefixIsText
<1>1. p \in Seq(ByteSet) /\ b \in Seq(ByteSet) /\ Len(p) \in Nat \ {0} /\ Len(b) \in Nat \ {0}
  BY <1>0, CharactersAreBytes
<1>2. Bytes(t) = p \o b
  <2>1. Prefix \in Seq(Seq(ByteSet)) /\ r \in Seq(Seq(ByteSet))
    BY <1>0, CharactersAreBytes
  <2> QED BY <2>1, BytesJoin
<1> HIDE DEF p, b, t
<1>3. /\ IsPrefix(p, p \o b) /\ Len(p \o b) = Len(p) + Len(b)
      /\ SubSeq(p \o b, Len(p) + 1, Len(p \o b)) = b
  BY <1>1, ConcatPrefix
<1>4. p # <<>> /\ p \o b # p
  <2>1. Len(<<>>) = 0
    OBVIOUS
  <2>2. Len(p) # 0 /\ Len(p \o b) # Len(p)
    BY <1>1, <1>3
  <2> QED BY <2>1, <2>2
<1>5. Continues(t)
  BY <1>2, <1>3, <1>4 DEF Continues, p
<1>6. Key(t) = b
  BY <1>2, <1>3, <1>5 DEF Key, p
<1> QED BY <1>5, <1>6 DEF t, b

LEMMA ContinuationSplits ==
  ASSUME NEW t \in Seq(Characters), Continues(t)
  PROVE  \E r \in Seq(Characters) : t = Prefix \o r /\ r # <<>> /\ Key(t) = Bytes(r)
<1> DEFINE r == SubSeq(t, Len(Prefix) + 1, Len(t))
<1>0. Prefix \in Seq(Characters)
  BY PrefixIsText
<1>1. IsPrefix(Prefix, t) /\ Bytes(t) # Bytes(Prefix) /\ Bytes(Prefix) # <<>>
  BY <1>0, Aligned DEF Continues
<1>2. t = Prefix \o r /\ r \in Seq(Characters)
  BY <1>0, <1>1, PrefixSplits
<1>3. Prefix # <<>>
  <2>1. Bytes(<<>>) = <<>>
    BY DEF Bytes, FlattenSeq
  <2> QED BY <1>1, <2>1
<1> HIDE DEF r
<1>4. r # <<>>
  <2> SUFFICES ASSUME r = <<>> PROVE FALSE
    OBVIOUS
  <2>1. Prefix \o <<>> = Prefix
    BY <1>0, ConcatEmptySeq
  <2> QED BY <1>1, <1>2, <2>1
<1>5. Key(t) = Bytes(r)
  BY <1>2, <1>3, <1>4, ContinuationIs
<1> QED BY <1>2, <1>4, <1>5

LEMMA ContinuesIsPrefix ==
  ASSUME NEW t \in Seq(Characters), Continues(t)
  PROVE  IsPrefix(Prefix, t)
BY PrefixIsText, Aligned DEF Continues

-----------------------------------------------------------------------------
(* A word and its pieces *)

PieceOf(word, s, e) == (IF s = 0 THEN <<>> ELSE Prefix) \o SubSeq(word, s + 1, e)

(* Where the first or the next piece of a word may end *)
PieceEnds(word, s) ==
  {e \in s + 1 .. Len(word) : \E i \in DOMAIN vocab : vocab[i] = PieceOf(word, s, e)}

LEMMA WordFacts ==
  ASSUME NEW w \in Words
  PROVE  /\ w \in Seq(Characters) /\ Len(w) \in Nat \ {0} /\ ~IsPrefix(Prefix, w) /\ Prefix # <<>>
         /\ MaxInputChars \in Nat
<1>1. w \in Seq(Characters) /\ w # <<>> /\ ~IsPrefix(Prefix, w) /\ MaxInputChars \in Nat
  BY WordAssumption DEF WordAssumption
<1>2. Len(w) \in Nat \ {0}
  BY <1>1, EmptySeq
<1>3. Prefix # <<>>
  <2> SUFFICES ASSUME Prefix = <<>> PROVE FALSE
    OBVIOUS
  <2>1. Len(Prefix) = 0
    OBVIOUS
  <2>2. Len(Prefix) <= Len(w) /\ \A i \in 1 .. Len(Prefix) : Prefix[i] = w[i]
    BY <1>2, <2>1
  <2>3. IsPrefix(Prefix, w)
    BY <1>1, <2>2, PrefixIsText, PrefixIs
  <2> QED BY <1>1, <2>3
<1> QED BY <1>1, <1>2, <1>3

LEMMA PartFacts ==
  ASSUME NEW w \in Seq(Characters), NEW s \in 0 .. Len(w), NEW e \in s + 1 .. Len(w)
  PROVE  /\ SubSeq(w, s + 1, e) \in Seq(Characters) /\ Len(SubSeq(w, s + 1, e)) = e - s
         /\ SubSeq(w, s + 1, e) # <<>>
<1> DEFINE x == SubSeq(w, s + 1, e)
<1>1. x \in Seq(Characters) /\ Len(x) = e - s
  OBVIOUS
<1>2. e - s # 0
  OBVIOUS
<1> HIDE DEF x
<1>3. x # <<>>
  <2>1. Len(<<>>) = 0
    OBVIOUS
  <2> QED BY <1>1, <1>2, <2>1
<1> QED BY <1>1, <1>3 DEF x

(* The beginning of a word is no continuation. *)
LEMMA BeginningIs ==
  ASSUME NEW w \in Words, NEW e \in 1 .. Len(w)
  PROVE  /\ PieceOf(w, 0, e) = SubSeq(w, 1, e)
         /\ ~IsPrefix(Prefix, SubSeq(w, 1, e))
         /\ ~Continues(SubSeq(w, 1, e)) /\ Key(SubSeq(w, 1, e)) = Bytes(SubSeq(w, 1, e))
<1> DEFINE x == SubSeq(w, 1, e)
<1>0. w \in Seq(Characters) /\ Len(w) \in Nat /\ ~IsPrefix(Prefix, w) /\ Prefix \in Seq(Characters)
  BY WordFacts, PrefixIsText
<1>1. x \in Seq(Characters) /\ Len(x) = e /\ \A i \in 1 .. e : x[i] = w[i]
  BY <1>0
<1>2. PieceOf(w, 0, e) = x
  <2>1. PieceOf(w, 0, e) = <<>> \o SubSeq(w, 1, e)
    BY DEF PieceOf
  <2> HIDE DEF x
  <2>2. <<>> \o x = x
    BY <1>1, ConcatEmptySeq
  <2> QED BY <2>1, <2>2 DEF x
<1> HIDE DEF x
<1>3. ~IsPrefix(Prefix, x)
  <2> SUFFICES ASSUME IsPrefix(Prefix, x) PROVE FALSE
    OBVIOUS
  <2>1. Len(Prefix) <= Len(x) /\ \A i \in 1 .. Len(Prefix) : Prefix[i] = x[i]
    BY <1>0, <1>1, PrefixIs
  <2>2. Len(Prefix) \in Nat
    BY <1>0
  <2>3. Len(Prefix) <= Len(w) /\ \A i \in 1 .. Len(Prefix) : Prefix[i] = w[i]
    BY <1>0, <1>1, <2>1, <2>2
  <2>4. IsPrefix(Prefix, w)
    BY <1>0, <2>3, PrefixIs
  <2> QED BY <1>0, <2>4
<1>4. ~Continues(x)
  BY <1>1, <1>3, ContinuesIsPrefix
<1>5. Key(x) = Bytes(x)
  BY <1>4 DEF Key
<1> QED BY <1>2, <1>3, <1>4, <1>5 DEF x

(* What a trie knows a piece by *)
LEMMA PieceKey ==
  ASSUME NEW w \in Words, NEW s \in 0 .. Len(w), NEW e \in s + 1 .. Len(w), NEW t,
         t = PieceOf(w, s, e)
  PROVE  (Continues(t) <=> s # 0) /\ Key(t) = Bytes(SubSeq(w, s + 1, e))
<1>0. w \in Seq(Characters) /\ Len(w) \in Nat /\ Prefix # <<>>
  BY WordFacts
<1>1. CASE s = 0
  <2>1. e \in 1 .. Len(w) /\ s + 1 = 1
    BY <1>0, <1>1
  <2>2. t = SubSeq(w, 1, e) /\ ~Continues(SubSeq(w, 1, e)) /\ Key(SubSeq(w, 1, e)) = Bytes(SubSeq(w, 1, e))
    BY <1>1, <2>1, BeginningIs
  <2> QED BY <1>1, <2>1, <2>2
<1>2. CASE s # 0
  <2> DEFINE r == SubSeq(w, s + 1, e)
  <2>1. r \in Seq(Characters) /\ r # <<>>
    BY <1>0, PartFacts
  <2>2. t = Prefix \o r
    BY <1>2 DEF PieceOf
  <2> HIDE DEF r
  <2>3. Continues(t) /\ Key(t) = Bytes(r)
    BY <1>0, <2>1, <2>2, ContinuationIs
  <2> QED BY <1>2, <2>3 DEF r
<1> QED BY <1>1, <1>2

(* How far into a word its s-th character ends *)
Off(word, s) == Len(Bytes(SubSeq(word, 1, s)))

LEMMA PartJoins ==
  ASSUME NEW w \in Seq(Characters), NEW s \in 0 .. Len(w), NEW e \in s .. Len(w), NEW f \in e .. Len(w)
  PROVE  /\ SubSeq(w, s + 1, e) \in Seq(Characters) /\ SubSeq(w, e + 1, f) \in Seq(Characters)
         /\ Bytes(SubSeq(w, s + 1, f)) = Bytes(SubSeq(w, s + 1, e)) \o Bytes(SubSeq(w, e + 1, f))
<1> DEFINE a == SubSeq(w, s + 1, e)
           b == SubSeq(w, e + 1, f)
<1>0. Len(w) \in Nat
  OBVIOUS
<1>1. a \in Seq(Characters) /\ b \in Seq(Characters)
  BY <1>0
<1>2. a \o b = SubSeq(w, s + 1, f)
  <2> DEFINE m == s + 1
  <2>1. m \in 1 .. Len(w) + 1 /\ e \in m - 1 .. Len(w) /\ f \in e .. Len(w)
    BY <1>0
  <2> HIDE DEF m
  <2>2. SubSeq(w, m, e) \o SubSeq(w, e + 1, f) = SubSeq(w, m, f)
    BY <2>1, ConcatAdjacentSubSeq
  <2> QED BY <2>2 DEF m
<1> HIDE DEF a, b
<1>3. a \in Seq(Seq(ByteSet)) /\ b \in Seq(Seq(ByteSet))
  BY <1>1, CharactersAreBytes
<1>4. Bytes(a \o b) = Bytes(a) \o Bytes(b)
  BY <1>3, BytesJoin
<1> QED BY <1>1, <1>2, <1>4 DEF a, b

(* The length in bytes of the part from s to e *)
Width(word, s, e) == Len(Bytes(SubSeq(word, s + 1, e)))

LEMMA Widths ==
  ASSUME NEW w \in Seq(Characters), NEW s \in 0 .. Len(w), NEW e \in s + 1 .. Len(w), NEW f \in e .. Len(w)
  PROVE  /\ Width(w, s, e) \in Nat \ {0} /\ Width(w, s, f) \in Nat
         /\ Width(w, s, e) <= Width(w, s, f)
         /\ e < f => Width(w, s, e) < Width(w, s, f)
         /\ Bytes(SubSeq(w, s + 1, e)) = SubSeq(Bytes(SubSeq(w, s + 1, f)), 1, Width(w, s, e))
         /\ Off(w, s) \in Nat /\ Off(w, e) = Off(w, s) + Width(w, s, e)
<1> DEFINE a == SubSeq(w, s + 1, e)
           b == SubSeq(w, e + 1, f)
           x == Bytes(a)
           y == Bytes(b)
<1>0. Len(w) \in Nat /\ e \in s .. Len(w) /\ e \in 0 .. Len(w) /\ 0 \in 0 .. Len(w) /\ s \in 0 .. Len(w)
  OBVIOUS
<1>1. a \in Seq(Characters) /\ a # <<>>
  BY PartFacts
<1>2. b \in Seq(Characters) /\ Bytes(SubSeq(w, s + 1, f)) = x \o y
  BY <1>0, PartJoins
<1>3. e < f => b # <<>>
  BY <1>0, PartFacts
<1> HIDE DEF a, b
<1>4. /\ x \in Seq(ByteSet) /\ y \in Seq(ByteSet) /\ Len(x) \in Nat \ {0} /\ Len(y) \in Nat
      /\ e < f => Len(y) # 0
  BY <1>1, <1>2, <1>3, CharactersAreBytes
<1> HIDE DEF x, y
<1>5. Len(x \o y) = Len(x) + Len(y) /\ SubSeq(x \o y, 1, Len(x)) = x
  BY <1>4, ConcatPrefix
<1>6. Width(w, s, e) = Len(x) /\ Width(w, s, f) = Len(x \o y) /\ Bytes(SubSeq(w, s + 1, e)) = x
  BY <1>2 DEF Width, x, a
<1>7. Off(w, s) \in Nat /\ Off(w, e) = Off(w, s) + Width(w, s, e)
  <2> DEFINE h == SubSeq(w, 1, s)
             u == Bytes(h)
             o == 0
  <2>1. o \in 0 .. Len(w) /\ s \in o .. Len(w) /\ e \in s .. Len(w) /\ o + 1 = 1
    BY <1>0
  <2> HIDE DEF o
  <2>2. SubSeq(w, o + 1, s) \in Seq(Characters) /\ Bytes(SubSeq(w, o + 1, e)) = Bytes(SubSeq(w, o + 1, s)) \o Bytes(SubSeq(w, s + 1, e))
    BY <2>1, PartJoins
  <2>3. h \in Seq(Characters) /\ Bytes(SubSeq(w, 1, e)) = u \o x
    BY <1>6, <2>1, <2>2
  <2>4. u \in Seq(ByteSet)
    BY <2>3, CharactersAreBytes
  <2>5. Off(w, s) = Len(u) /\ Off(w, e) = Len(u \o x)
    BY <2>3 DEF Off
  <2> HIDE DEF u
  <2>6. Len(u \o x) = Len(u) + Len(x) /\ Len(u) \in Nat
    BY <1>4, <2>4, ConcatPrefix
  <2> QED BY <1>6, <2>5, <2>6
<1> QED BY <1>2, <1>4, <1>5, <1>6, <1>7

(* A key in a word is a piece of it: no match ends inside a character. *)
LEMMA KeyIsPiece ==
  ASSUME NEW w \in Words, NEW s \in 0 .. Len(w), NEW f \in s + 1 .. Len(w),
         NEW k \in 1 .. Width(w, s, f), NEW t \in Seq(Characters), Continues(t) <=> s # 0,
         Key(t) = SubSeq(Bytes(SubSeq(w, s + 1, f)), 1, k)
  PROVE  \E e \in s + 1 .. f : t = PieceOf(w, s, e) /\ Width(w, s, e) = k
<1> DEFINE x == SubSeq(w, s + 1, f)
           b == Bytes(x)
           q == IF s = 0 THEN <<>> ELSE Prefix
<1>0. w \in Seq(Characters) /\ Len(w) \in Nat
  BY WordFacts
<1>1. x \in Seq(Characters) /\ Len(x) = f - s
  BY <1>0, PartFacts
<1>2. b \in Seq(ByteSet) /\ k \in 1 .. Len(b)
  BY <1>1, CharactersAreBytes DEF Width
<1>3. PICK r \in Seq(Characters) : t = q \o r /\ Key(t) = Bytes(r)
  <2>1. CASE s = 0
    <3>1. <<>> \o t = t
      BY ConcatEmptySeq
    <3>2. Key(t) = Bytes(t)
      BY <2>1 DEF Key
    <3> QED BY <2>1, <3>1, <3>2
  <2>2. CASE s # 0
    BY <2>2, ContinuationSplits
  <2> QED BY <2>1, <2>2
<1> DEFINE j == Len(r)
           e == s + j
<1>4. Bytes(r) = SubSeq(b, 1, k)
  BY <1>3
<1> HIDE DEF b
<1>5. Len(SubSeq(b, 1, k)) = k /\ IsPrefix(SubSeq(b, 1, k), b) /\ k \in Nat \ {0}
  <2> DEFINE v == SubSeq(b, 1, k)
  <2>1. v \in Seq(ByteSet) /\ Len(v) = k /\ (\A i \in 1 .. k : v[i] = b[i]) /\ k <= Len(b)
    BY <1>2
  <2> HIDE DEF v
  <2>2. IsPrefix(v, b)
    BY <1>2, <2>1, PrefixIs
  <2> QED BY <2>1, <2>2 DEF v
<1>6. IsPrefix(r, x)
  <2>1. IsPrefix(Bytes(r), Bytes(x))
    BY <1>4, <1>5 DEF b
  <2> HIDE DEF x
  <2> QED BY <1>1, <2>1, Aligned
<1>7. r # <<>>
  <2>1. Bytes(<<>>) = <<>> /\ Len(<<>>) = 0
    BY DEF Bytes, FlattenSeq
  <2> QED BY <1>4, <1>5, <2>1
<1>8. j \in Nat \ {0}
  BY <1>7, EmptySeq
<1>9. r = SubSeq(x, 1, j) /\ j <= Len(x)
  <2> HIDE DEF x
  <2> QED BY <1>1, <1>6, PrefixSplits
<1>10. e \in s + 1 .. f
  <2> HIDE DEF j, x
  <2> QED BY <1>0, <1>1, <1>8, <1>9
<1>11. SubSeq(x, 1, j) = SubSeq(w, s + 1, e)
  <2> HIDE DEF j
  <2> DEFINE u == SubSeq(x, 1, j)
             v == SubSeq(w, s + 1, e)
  <2>1. v \in Seq(Characters) /\ Len(v) = j /\ \A i \in 1 .. j : v[i] = w[s + i]
    BY <1>0, <1>8, <1>10
  <2>2. \A i \in 1 .. f - s : x[i] = w[s + i]
    BY <1>0
  <2> HIDE DEF x, v
  <2>3. u \in Seq(Characters) /\ Len(u) = j /\ \A i \in 1 .. j : u[i] = x[i]
    BY <1>1, <1>8, <1>9
  <2>4. j <= f - s /\ f - s \in Nat
    BY <1>0, <1>1, <1>9
  <2>5. \A i \in 1 .. j : u[i] = v[i]
    BY <1>8, <2>1, <2>2, <2>3, <2>4
  <2> HIDE DEF u
  <2>6. u = v
    BY <2>1, <2>3, <2>5, SeqEqual
  <2> QED BY <2>6 DEF u, v
<1>12. t = PieceOf(w, s, e)
  BY <1>3, <1>9, <1>11 DEF PieceOf
<1>13. Width(w, s, e) = k
  <2>1. Bytes(SubSeq(w, s + 1, e)) = SubSeq(b, 1, k)
    BY <1>4, <1>9, <1>11
  <2> QED BY <1>5, <2>1 DEF Width
<1> QED BY <1>10, <1>12, <1>13

-----------------------------------------------------------------------------
(* max_token_chars *)

BodyOf(t) == IF IsPrefix(Prefix, t) THEN Len(t) - Len(Prefix) ELSE Len(t)

LEMMA TokenText ==
  ASSUME vocab \in Vocabularies
  PROVE  Len(vocab) \in Nat /\ DOMAIN vocab = 1 .. Len(vocab) /\ \A i \in DOMAIN vocab : vocab[i] \in Seq(Characters)
<1>1. vocab \in Seq(Seq(Characters))
  BY VocabularyAssumption DEF VocabularyAssumption
<1> QED BY <1>1

LEMMA BodyFacts ==
  ASSUME NEW t \in Seq(Characters)
  PROVE  BodyOf(t) \in Nat
<1>1. Len(t) \in Nat /\ Len(Prefix) \in Nat /\ Prefix \in Seq(Characters)
  BY PrefixIsText
<1>2. IsPrefix(Prefix, t) => Len(Prefix) <= Len(t)
  BY DEF IsPrefix
<1> QED BY <1>1, <1>2 DEF BodyOf

LEMMA BodiesBounded ==
  ASSUME vocab \in Vocabularies
  PROVE  \E b \in Nat : \A i \in DOMAIN vocab : BodyOf(vocab[i]) <= b
<1> DEFINE N == Len(vocab)
           P == {n \in Nat : n <= N => \E b \in Nat : \A i \in 1 .. n : BodyOf(vocab[i]) <= b}
<1>0. N \in Nat /\ DOMAIN vocab = 1 .. N /\ \A i \in 1 .. N : BodyOf(vocab[i]) \in Nat
  BY TokenText, BodyFacts
<1>1. 0 \in P
  <2>1. \A i \in 1 .. 0 : BodyOf(vocab[i]) <= 0
    OBVIOUS
  <2> QED BY <2>1
<1>2. ASSUME NEW n \in P PROVE n + 1 \in P
  <2> DEFINE j == n + 1
             d == BodyOf(vocab[j])
  <2>0. n \in Nat /\ j \in Nat
    OBVIOUS
  <2> SUFFICES ASSUME j <= N PROVE \E b \in Nat : \A i \in 1 .. j : BodyOf(vocab[i]) <= b
    BY <2>0
  <2>1. PICK b \in Nat : \A i \in 1 .. n : BodyOf(vocab[i]) <= b
    BY <1>0
  <2>2. d \in Nat
    BY <1>0
  <2> DEFINE m == b + d
  <2>3. m \in Nat /\ b <= m /\ d <= m
    BY <2>2
  <2>4. ASSUME NEW i \in 1 .. j PROVE BodyOf(vocab[i]) <= m
    <3>1. CASE i = j
      BY <2>3, <3>1
    <3>2. CASE i # j
      <4>1. i \in 1 .. n /\ i \in 1 .. N
        BY <1>0, <3>2
      <4>2. BodyOf(vocab[i]) <= b /\ BodyOf(vocab[i]) \in Nat
        BY <1>0, <2>1, <4>1
      <4> HIDE DEF m
      <4> QED BY <2>3, <4>2
    <3> QED BY <3>1, <3>2
  <2> HIDE DEF m
  <2> QED BY <2>3, <2>4
<1>3. P = Nat
  <2> HIDE DEF P
  <2>1. P \in SUBSET Nat
    BY DEF P
  <2> QED BY <1>1, <1>2, <2>1, NatInduct
<1>4. N \in P
  <2> HIDE DEF P
  <2> QED BY <1>0, <1>3
<1> QED BY <1>0, <1>4

LEMMA MaxTokenFacts ==
  ASSUME vocab \in Vocabularies, MaxInputChars \in Nat
  PROVE  /\ MaxTokenChars \in Nat
         /\ MaxTokenChars >= 1 \/ MaxTokenChars >= MaxInputChars
         /\ \A i \in DOMAIN vocab : BodyOf(vocab[i]) <= MaxTokenChars \/ MaxTokenChars = MaxInputChars
<1> DEFINE T == {1} \cup {BodyOf(vocab[i]) : i \in DOMAIN vocab}
           most == Max(T)
<1>1. PICK b \in Nat : \A i \in DOMAIN vocab : BodyOf(vocab[i]) <= b
  BY BodiesBounded
<1>2. \A i \in DOMAIN vocab : BodyOf(vocab[i]) \in Nat
  BY TokenText, BodyFacts
<1>3. T \in SUBSET (0 .. b + 1) /\ T # {} /\ b + 1 \in Nat
  <2>1. ASSUME NEW y \in T PROVE y \in 0 .. b + 1
    BY <1>1, <1>2
  <2>2. 1 \in T /\ b + 1 \in Nat
    OBVIOUS
  <2> HIDE DEF T
  <2> QED BY <2>1, <2>2
<1>4. most \in T /\ \A y \in T : y <= most
  <2> DEFINE d == b + 1
  <2> HIDE DEF T, d
  <2>1. T \in SUBSET (0 .. d) /\ T # {} /\ d \in Nat
    BY <1>3 DEF d
  <2> QED BY <2>1, MaxOfNat
<1>5. MaxTokenChars = IF most > MaxInputChars THEN MaxInputChars ELSE most
  BY DEF MaxTokenChars, BodyOf
<1> HIDE DEF most
<1>6. most \in Nat /\ 1 <= most
  BY <1>2, <1>4
<1>7. \A i \in DOMAIN vocab : BodyOf(vocab[i]) <= most
  BY <1>4
<1> QED BY <1>5, <1>6, <1>7

LEMMA PieceBody ==
  ASSUME NEW w \in Words, NEW s \in 0 .. Len(w), NEW e \in s + 1 .. Len(w)
  PROVE  BodyOf(PieceOf(w, s, e)) = e - s
<1>0. w \in Seq(Characters) /\ Len(w) \in Nat /\ Prefix \in Seq(Characters)
  BY WordFacts, PrefixIsText
<1> DEFINE r == SubSeq(w, s + 1, e)
<1>1. r \in Seq(Characters) /\ Len(r) = e - s
  BY <1>0, PartFacts
<1>2. CASE s = 0
  <2>1. e \in 1 .. Len(w) /\ s + 1 = 1
    BY <1>0, <1>2
  <2>2. PieceOf(w, s, e) = SubSeq(w, 1, e) /\ ~IsPrefix(Prefix, SubSeq(w, 1, e))
    BY <1>2, <2>1, BeginningIs
  <2> QED BY <1>1, <2>1, <2>2 DEF BodyOf
<1>3. CASE s # 0
  <2>1. PieceOf(w, s, e) = Prefix \o r
    BY <1>3 DEF PieceOf
  <2> HIDE DEF r
  <2>2. IsPrefix(Prefix, Prefix \o r) /\ Len(Prefix \o r) = Len(Prefix) + Len(r) /\ Len(Prefix) \in Nat
    BY <1>0, <1>1, ConcatPrefix
  <2> QED BY <1>1, <2>1, <2>2 DEF BodyOf
<1> QED BY <1>2, <1>3

(* Where the bytes handed to the trie end *)
Furthest(word, s) == IF s + MaxTokenChars < Len(word) THEN s + MaxTokenChars ELSE Len(word)

LEMMA WithinReach ==
  ASSUME vocab \in Vocabularies, NEW w \in Words, Len(w) <= MaxInputChars,
         NEW s \in 0 .. Len(w), s # Len(w)
  PROVE  /\ Furthest(w, s) \in s + 1 .. Len(w)
         /\ \A e \in PieceEnds(w, s) : e <= Furthest(w, s)
<1>0. Len(w) \in Nat /\ MaxInputChars \in Nat
  BY WordFacts
<1>1. /\ MaxTokenChars \in Nat
      /\ MaxTokenChars >= 1 \/ MaxTokenChars >= MaxInputChars
      /\ \A i \in DOMAIN vocab : BodyOf(vocab[i]) <= MaxTokenChars \/ MaxTokenChars = MaxInputChars
  BY <1>0, MaxTokenFacts
<1>2. Furthest(w, s) \in s + 1 .. Len(w)
  BY <1>0, <1>1 DEF Furthest
<1>3. ASSUME NEW e \in PieceEnds(w, s) PROVE e <= Furthest(w, s)
  <2>1. e \in s + 1 .. Len(w) /\ \E i \in DOMAIN vocab : vocab[i] = PieceOf(w, s, e)
    BY DEF PieceEnds
  <2>2. PICK i \in DOMAIN vocab : vocab[i] = PieceOf(w, s, e)
    BY <2>1
  <2>3. BodyOf(vocab[i]) = e - s
    BY <2>1, <2>2, PieceBody
  <2> QED BY <1>0, <1>1, <2>1, <2>3 DEF Furthest
<1> QED BY <1>2, <1>3

-----------------------------------------------------------------------------
(* The tries against the list of tokens *)

Distinct == \A i, j \in DOMAIN vocab : vocab[i] = vocab[j] => i = j

LEMMA IdIs ==
  ASSUME vocab \in Vocabularies, Distinct, NEW i \in DOMAIN vocab, NEW t, vocab[i] = t
  PROVE  Id(t) = i /\ i # None
<1> DEFINE T == {j \in DOMAIN vocab : vocab[j] = t}
<1>1. T = {i}
  BY DEF Distinct
<1>2. i \in Nat /\ i # None
  BY TokenText DEF None
<1>3. {i} \in SUBSET Nat
  BY <1>2
<1>4. Min({i}) = i
  BY <1>3, MinOfNat
<1> QED BY <1>1, <1>2, <1>4 DEF Id

LEMMA LastEnd ==
  ASSUME NEW w \in Words, NEW s \in 0 .. Len(w), PieceEnds(w, s) # {}
  PROVE  /\ Max(PieceEnds(w, s)) \in PieceEnds(w, s)
         /\ \A e \in PieceEnds(w, s) : e <= Max(PieceEnds(w, s))
         /\ Max(PieceEnds(w, s)) \in s + 1 .. Len(w)
<1>1. Len(w) \in Nat
  BY WordFacts
<1>2. PieceEnds(w, s) \in SUBSET (0 .. Len(w))
  BY <1>1 DEF PieceEnds
<1>3. /\ Max(PieceEnds(w, s)) \in PieceEnds(w, s)
      /\ \A e \in PieceEnds(w, s) : e <= Max(PieceEnds(w, s))
  BY <1>1, <1>2, MaxOfNat
<1>4. \A e \in PieceEnds(w, s) : e \in s + 1 .. Len(w)
  BY DEF PieceEnds
<1> QED BY <1>3, <1>4

(* The tries as the readers find them *)
TrieFor(s) == IF s = 0 THEN root ELSE cont

Found(w, s) == LongestMatch(Packed(TrieFor(s)), Bytes(SubSeq(w, s + 1, Furthest(w, s))))

CharacterEnds(w, s, len) == {e \in s + 1 .. Furthest(w, s) : Off(w, e) = Off(w, s) + len}

LEMMA FoundIsBest ==
  ASSUME vocab \in Vocabularies, TriesSpell, Built, NEW w \in Words, Len(w) <= MaxInputChars,
         NEW s \in 0 .. Len(w), s # Len(w)
  PROVE  BestMatch(Found(w, s), s # 0, Len(vocab), Bytes(SubSeq(w, s + 1, Furthest(w, s))))
<1> DEFINE f == Furthest(w, s)
           bytes == Bytes(SubSeq(w, s + 1, f))
           nodes == TrieFor(s)
           c == s # 0
           n == Len(vocab)
<1>0. w \in Seq(Characters) /\ n \in Nat /\ threaded = n
  BY WordFacts, TokenText DEF Built
<1>1. f \in s + 1 .. Len(w)
  BY WithinReach
<1>2. bytes \in Seq(ByteSet)
  <2> HIDE DEF f
  <2>1. SubSeq(w, s + 1, f) \in Seq(Characters)
    BY <1>0, <1>1, PartFacts
  <2> QED BY <2>1, CharactersAreBytes
<1>3. PICK L : IsTree(nodes, L, c, n)
  <2>1. CASE s = 0
    <3>1. nodes = root /\ c = FALSE
      BY <2>1 DEF TrieFor
    <3> HIDE DEF nodes, c
    <3> QED BY <1>0, <3>1 DEF TriesSpell
  <2>2. CASE s # 0
    <3>1. nodes = cont /\ c = TRUE
      BY <2>2 DEF TrieFor
    <3> HIDE DEF nodes, c
    <3> QED BY <1>0, <3>1 DEF TriesSpell
  <2> QED BY <2>1, <2>2
<1>4. Found(w, s) = LongestMatch(Packed(nodes), bytes)
  BY DEF Found
<1> HIDE DEF nodes, bytes, c, n
<1>5. BestMatch(LongestMatch(Packed(nodes), bytes), c, n, bytes)
  BY <1>0, <1>2, <1>3, MatchFinds
<1> QED BY <1>4, <1>5 DEF bytes, c, n

(* The match is the longest piece, and it ends with a character. *)
LEMMA PieceFound ==
  ASSUME vocab \in Vocabularies, Distinct, TriesSpell, Built, NEW w \in Words, Len(w) <= MaxInputChars,
         NEW s \in 0 .. Len(w), s # Len(w), NEW m, m = Found(w, s)
  PROVE  /\ PieceEnds(w, s) = {} => m.id = None
         /\ PieceEnds(w, s) # {} =>
              /\ m.id = Id(PieceOf(w, s, Max(PieceEnds(w, s)))) /\ m.id # None
              /\ CharacterEnds(w, s, m.len) = {Max(PieceEnds(w, s))}
<1> DEFINE f == Furthest(w, s)
           bytes == Bytes(SubSeq(w, s + 1, f))
           c == s # 0
           n == Len(vocab)
           E == PieceEnds(w, s)
<1>0. w \in Seq(Characters) /\ Len(w) \in Nat /\ n \in Nat /\ DOMAIN vocab = 1 .. n
  BY WordFacts, TokenText
<1>1. f \in s + 1 .. Len(w) /\ \A e \in E : e <= f
  BY WithinReach
<1>2. BestMatch(m, c, n, bytes)
  BY FoundIsBest
<1>3. Len(bytes) = Width(w, s, f)
  BY DEF Width
<1> HIDE DEF f
<1>4. ASSUME NEW k \in 1 .. Len(bytes), NEW i \in 1 .. n, Matches(c, n, bytes, k, i)
      PROVE  \E e \in E : vocab[i] = PieceOf(w, s, e) /\ Width(w, s, e) = k
  <2>1. vocab[i] \in Seq(Characters) /\ (Continues(vocab[i]) <=> s # 0) /\ Key(vocab[i]) = SubSeq(bytes, 1, k)
    BY <1>0, <1>4, TokenText DEF Matches
  <2> DEFINE t == vocab[i]
  <2>2. PICK e \in s + 1 .. f : t = PieceOf(w, s, e) /\ Width(w, s, e) = k
    <3>1. t \in Seq(Characters) /\ (Continues(t) <=> s # 0) /\ Key(t) = SubSeq(Bytes(SubSeq(w, s + 1, f)), 1, k)
      BY <2>1
    <3>2. k \in 1 .. Width(w, s, f)
      BY <1>3
    <3> HIDE DEF t, bytes
    <3> QED BY <1>1, <3>1, <3>2, KeyIsPiece
  <2>3. e \in s + 1 .. Len(w)
    BY <1>0, <1>1
  <2>4. e \in E
    BY <1>0, <2>2, <2>3 DEF PieceEnds
  <2> QED BY <2>2, <2>4
<1>5. ASSUME NEW e \in E
      PROVE  /\ e \in s + 1 .. Len(w) /\ f \in e .. Len(w)
             /\ Width(w, s, e) \in 1 .. Len(bytes)
             /\ \E i \in 1 .. n : vocab[i] = PieceOf(w, s, e) /\ Matches(c, n, bytes, Width(w, s, e), i)
  <2>1. e \in s + 1 .. Len(w) /\ \E i \in DOMAIN vocab : vocab[i] = PieceOf(w, s, e)
    BY DEF PieceEnds
  <2>2. PICK i \in 1 .. n : vocab[i] = PieceOf(w, s, e)
    BY <1>0, <2>1
  <2>3. f \in e .. Len(w)
    BY <1>0, <1>1, <2>1
  <2>4. /\ Width(w, s, e) \in Nat \ {0} /\ Width(w, s, f) \in Nat /\ Width(w, s, e) <= Width(w, s, f)
        /\ Bytes(SubSeq(w, s + 1, e)) = SubSeq(Bytes(SubSeq(w, s + 1, f)), 1, Width(w, s, e))
    BY <1>0, <2>1, <2>3, Widths
  <2>5. (Continues(vocab[i]) <=> s # 0) /\ Key(vocab[i]) = Bytes(SubSeq(w, s + 1, e))
    BY <2>1, <2>2, PieceKey
  <2>6. Continues(vocab[i]) = c
    BY <2>5 DEF Continues, IsPrefix
  <2> HIDE DEF bytes, c
  <2>7. Matches(c, n, bytes, Width(w, s, e), i)
    BY <2>4, <2>5, <2>6 DEF Matches, bytes
  <2>8. Width(w, s, e) \in 1 .. Len(bytes)
    BY <1>3, <2>4
  <2> QED BY <2>1, <2>2, <2>3, <2>7, <2>8
<1> HIDE DEF bytes, c, n
<1>6. CASE E = {}
  <2>1. m.id = None
    <3> SUFFICES ASSUME m.len \in 1 .. Len(bytes), Matches(c, n, bytes, m.len, m.id) PROVE FALSE
      BY <1>2 DEF BestMatch
    <3>1. m.id \in 1 .. n
      BY DEF Matches
    <3> QED BY <1>4, <1>6, <3>1
  <2> QED BY <1>6, <2>1
<1>7. CASE E # {}
  <2> DEFINE e == Max(E)
             k == Width(w, s, e)
  <2>1. e \in E /\ \A d \in E : d <= e
    BY <1>7, LastEnd
  <2> HIDE DEF e, E
  <2>2. PICK i \in 1 .. n : vocab[i] = PieceOf(w, s, e) /\ Matches(c, n, bytes, k, i)
    BY <1>5, <2>1
  <2>3. k \in 1 .. Len(bytes)
    BY <1>5, <2>1
  <2>4. /\ m.len \in 1 .. Len(bytes) /\ m.id # None /\ Matches(c, n, bytes, m.len, m.id)
        /\ \A j \in m.len + 1 .. Len(bytes) : \A h \in 1 .. n : ~Matches(c, n, bytes, j, h)
    BY <1>2, <2>2, <2>3 DEF BestMatch
  <2>5. m.id \in 1 .. n
    BY <2>4 DEF Matches
  <2>6. PICK d \in E : vocab[m.id] = PieceOf(w, s, d) /\ Width(w, s, d) = m.len
    BY <1>4, <2>4, <2>5
  <2>7. /\ e \in s + 1 .. Len(w) /\ f \in e .. Len(w) /\ d \in s + 1 .. Len(w) /\ d <= e
        /\ Len(bytes) \in Nat
    <3>1. Len(bytes) \in Nat
      <4>1. f \in s + 1 .. Len(w) /\ f \in f .. Len(w)
        BY <1>0, <1>1
      <4>2. Width(w, s, f) \in Nat
        BY <1>0, <4>1, Widths
      <4> QED BY <1>3, <4>2
    <3> QED BY <1>5, <2>1, <2>6, <3>1
  <2>8. ~(m.len < k)
    <3> SUFFICES ASSUME m.len < k PROVE FALSE
      OBVIOUS
    <3>1. k \in m.len + 1 .. Len(bytes)
      BY <2>3, <2>4, <2>7
    <3> QED BY <2>2, <2>4, <3>1
  <2>9. d = e
    <3> SUFFICES ASSUME d < e PROVE FALSE
      BY <2>7
    <3>1. e \in d .. Len(w)
      BY <1>0, <2>7
    <3>2. Width(w, s, d) < Width(w, s, e)
      BY <1>0, <2>7, <3>1, Widths
    <3> QED BY <2>6, <2>8, <3>2
  <2>10. m.id = Id(PieceOf(w, s, e))
    <3>1. m.id \in DOMAIN vocab /\ vocab[m.id] = PieceOf(w, s, e)
      BY <1>0, <2>5, <2>6, <2>9 DEF n
    <3> DEFINE i0 == m.id
               t == PieceOf(w, s, e)
    <3> HIDE DEF i0, t
    <3>2. i0 \in DOMAIN vocab /\ vocab[i0] = t
      BY <3>1 DEF i0, t
    <3>3. Id(t) = i0
      BY <3>2, IdIs
    <3> QED BY <3>3 DEF i0, t
  <2>11. ASSUME NEW h \in s + 1 .. f, Off(w, h) = Off(w, s) + m.len PROVE h = e
    <3>1. h \in s + 1 .. Len(w) /\ h \in h .. Len(w)
      BY <1>0, <1>1
    <3>2. Off(w, s) \in Nat /\ Off(w, h) = Off(w, s) + Width(w, s, h) /\ Width(w, s, h) \in Nat
      BY <1>0, <3>1, Widths
    <3>3. Width(w, s, h) = Width(w, s, e)
      BY <2>4, <2>6, <2>9, <2>11, <3>2
    <3>4. ~(h < e)
      <4> SUFFICES ASSUME h < e PROVE FALSE
        OBVIOUS
      <4>1. e \in h .. Len(w)
        BY <1>0, <2>7, <3>1
      <4>2. Width(w, s, h) < Width(w, s, e)
        BY <1>0, <3>1, <4>1, Widths
      <4> QED BY <3>2, <3>3, <4>2
    <3>5. ~(e < h)
      <4> SUFFICES ASSUME e < h PROVE FALSE
        OBVIOUS
      <4>1. h \in e .. Len(w)
        BY <1>0, <2>7, <3>1
      <4>2. Width(w, s, e) < Width(w, s, h)
        BY <1>0, <2>7, <4>1, Widths
      <4> QED BY <3>2, <3>3, <4>2
    <3> QED BY <1>0, <2>7, <3>1, <3>4, <3>5
  <2>12. e \in s + 1 .. f /\ Off(w, e) = Off(w, s) + m.len
    <3>1. e \in e .. Len(w)
      BY <1>0, <2>7
    <3>2. Off(w, e) = Off(w, s) + Width(w, s, e)
      BY <1>0, <2>7, <3>1, Widths
    <3>3. e \in s + 1 .. f
      BY <1>0, <1>1, <2>7
    <3> QED BY <2>6, <2>9, <3>2, <3>3
  <2>13. CharacterEnds(w, s, m.len) = {e}
    BY <2>11, <2>12 DEF CharacterEnds, f
  <2> QED BY <1>7, <2>4, <2>10, <2>13 DEF e, E
<1> QED BY <1>6, <1>7 DEF E

-----------------------------------------------------------------------------
(* The ids of a word, from every place on: as wordpiece finds them and as  *)
(* the reference does                                                      *)

WordTurn(h, word) ==
  [s \in 0 .. Len(word) |->
     IF s = Len(word) THEN <<>>
     ELSE IF Found(word, s).id = None THEN <<None>>
     ELSE IF CharacterEnds(word, s, Found(word, s).len) = {} THEN <<Misaligned>>
     ELSE <<Found(word, s).id>> \o h[Min(CharacterEnds(word, s, Found(word, s).len))]]

WordIds(h, word) == h = WordTurn(h, word)

RefTurn(h, word) ==
  [s \in 0 .. Len(word) |->
     IF s = Len(word) THEN <<>>
     ELSE IF PieceEnds(word, s) = {} THEN <<None>>
     ELSE <<Id(PieceOf(word, s, Max(PieceEnds(word, s))))>> \o h[Max(PieceEnds(word, s))]]

RefIds(h, word) == h = RefTurn(h, word)

LEMMA WordPieceIs ==
  ASSUME NEW w
  PROVE  WordPiece(w) =
           LET ids == CHOOSE h : WordIds(h, w)
               exact == IF Len(w) <= MaxTokenChars THEN Lookup(Bytes(w)) ELSE None
           IN IF Len(w) > MaxInputChars THEN <<Unk>>
              ELSE IF exact # None THEN <<exact>>
              ELSE IF None \in ToSet(ids[0]) THEN <<Unk>> ELSE ids[0]
BY DEF WordPiece, WordIds, WordTurn, Found, TrieFor, CharacterEnds, Off, Furthest

LEMMA ReferenceIs ==
  ASSUME NEW w
  PROVE  ReferencePieces(w) =
           LET ids == CHOOSE h : RefIds(h, w)
           IN IF Len(w) > MaxInputChars \/ None \in ToSet(ids[0]) THEN <<Unk>> ELSE ids[0]
BY DEF ReferencePieces, RefIds, RefTurn, PieceEnds, PieceOf

(* Both go the same way. *)
LEMMA TurnsAgree ==
  ASSUME vocab \in Vocabularies, Distinct, TriesSpell, Built, NEW w \in Words, Len(w) <= MaxInputChars,
         NEW h
  PROVE  WordTurn(h, w) = RefTurn(h, w)
<1> SUFFICES ASSUME NEW s \in 0 .. Len(w) PROVE WordTurn(h, w)[s] = RefTurn(h, w)[s]
  BY DEF WordTurn, RefTurn
<1>1. CASE s = Len(w)
  BY <1>1 DEF WordTurn, RefTurn
<1>2. CASE s # Len(w)
  <2> DEFINE m == Found(w, s)
             E == PieceEnds(w, s)
             C == CharacterEnds(w, s, m.len)
             e == Max(E)
             x == Id(PieceOf(w, s, e))
  <2>1. /\ E = {} => m.id = None
        /\ E # {} => m.id = x /\ m.id # None /\ C = {e}
    BY <1>2, PieceFound
  <2>2. /\ WordTurn(h, w)[s] = IF m.id = None THEN <<None>> ELSE IF C = {} THEN <<Misaligned>>
                               ELSE <<m.id>> \o h[Min(C)]
        /\ RefTurn(h, w)[s] = IF E = {} THEN <<None>> ELSE <<x>> \o h[e]
    BY <1>2 DEF WordTurn, RefTurn
  <2>3. E # {} => e \in s + 1 .. Len(w)
    BY LastEnd
  <2>4. E # {} => Min({e}) = e
    <3> SUFFICES ASSUME E # {} PROVE Min({e}) = e
      OBVIOUS
    <3>1. Len(w) \in Nat
      BY WordFacts
    <3>2. e \in Nat
      BY <2>3, <3>1
    <3> HIDE DEF e
    <3>3. {e} \in SUBSET Nat /\ {e} # {}
      BY <3>2
    <3> QED BY <3>3, MinOfNat
  <2> HIDE DEF m, E, C, e, x
  <2> QED BY <2>1, <2>2, <2>4
<1> QED BY <1>1, <1>2

LEMMA IdsAgree ==
  ASSUME vocab \in Vocabularies, Distinct, TriesSpell, Built, NEW w \in Words, Len(w) <= MaxInputChars
  PROVE  (CHOOSE h : WordIds(h, w)) = (CHOOSE h : RefIds(h, w))
<1>1. \A h : WordIds(h, w) <=> RefIds(h, w)
  BY TurnsAgree DEF WordIds, RefIds
<1> QED BY <1>1

(* The reference comes to an end: every piece is behind the one before.    *)
LEMMA RefIdsExist ==
  ASSUME NEW w \in Words
  PROVE  \E h : RefIds(h, w)
<1> DEFINE N == Len(w)
           Turn(h) == RefTurn(h, w)
           Upto(h, n) == \A s \in 0 .. N : s >= N - n => h[s] = Turn(h)[s]
           P == {n \in Nat : \E h : Upto(h, n)}
<1>0. N \in Nat
  BY WordFacts
<1>n. ASSUME NEW h, NEW n \in Nat, Upto(h, n), NEW s \in 0 .. N, s >= N - (n + 1)
      PROVE  Turn(h)[s] = Turn(Turn(h))[s]
  <2>1. CASE s = N
    BY <2>1 DEF RefTurn
  <2>2. CASE s # N /\ PieceEnds(w, s) = {}
    BY <2>2 DEF RefTurn
  <2>3. CASE s # N /\ PieceEnds(w, s) # {}
    <3> DEFINE e == Max(PieceEnds(w, s))
    <3>1. e \in s + 1 .. N
      BY <2>3, LastEnd
    <3> HIDE DEF e
    <3>2. e \in 0 .. N /\ e >= N - n
      BY <1>0, <1>n, <3>1
    <3>3. h[e] = Turn(h)[e]
      BY <3>2, <1>n
    <3> DEFINE k == Turn(h)
    <3> HIDE DEF k
    <3>4. RefTurn(h, w)[s] = <<Id(PieceOf(w, s, e))>> \o h[e]
      BY <2>3 DEF RefTurn, e
    <3>5. RefTurn(k, w)[s] = <<Id(PieceOf(w, s, e))>> \o k[e]
      BY <2>3 DEF RefTurn, e
    <3> QED BY <3>3, <3>4, <3>5 DEF k
  <2> QED BY <2>1, <2>2, <2>3
<1>1. 0 \in P
  <2> DEFINE z == [s \in 0 .. N |-> <<>>]
  <2>1. Upto(z, 0)
    <3> SUFFICES ASSUME NEW s \in 0 .. N, s >= N - 0 PROVE z[s] = Turn(z)[s]
      OBVIOUS
    <3>1. s = N
      BY <1>0
    <3> QED BY <3>1 DEF RefTurn
  <2> HIDE DEF Upto, z
  <2> QED BY <2>1
<1>2. \A n \in P : n + 1 \in P
  <2> TAKE n \in P
  <2>1. PICK h : Upto(h, n)
    OBVIOUS
  <2>2. Upto(Turn(h), n + 1)
    BY <1>n, <2>1
  <2> HIDE DEF Turn, Upto
  <2>3. \E k : Upto(k, n + 1)
    BY <2>2, Zenon
  <2> QED BY <2>3
<1>3. P = Nat
  <2> HIDE DEF P
  <2>1. P \in SUBSET Nat
    BY DEF P
  <2> QED BY <2>1, <1>1, <1>2, NatInduct
<1>4. PICK h : Upto(h, N)
  BY <1>0, <1>3
<1>5. \A s \in 0 .. N : Turn(h)[s] = Turn(Turn(h))[s]
  <2> TAKE s \in 0 .. N
  <2>1. s >= N - (N + 1)
    BY <1>0
  <2> HIDE DEF Turn, Upto
  <2> QED BY <1>0, <1>4, <1>n, <2>1
<1>6. Turn(h) = Turn(Turn(h))
  BY <1>5 DEF RefTurn
<1> QED BY <1>6 DEF RefIds

(* What the hash table says of a word: its id, if it is a token.           *)
LEMMA LookupIs ==
  ASSUME TypeOK, EveryTokenFound, hashed = Len(vocab), NEW w \in Words
  PROVE  \/ Lookup(Bytes(w)) = None /\ \A i \in DOMAIN vocab : vocab[i] # w
         \/ Lookup(Bytes(w)) \in DOMAIN vocab /\ vocab[Lookup(Bytes(w))] = w
<1> DEFINE bytes == Bytes(w)
           S == Stops(bytes, maxProbe)
           k == Min(S)
           i == slots[At(bytes, k)]
<1>0. vocab \in Vocabularies /\ Size \in Nat \ {0} /\ Len(vocab) \in Nat /\ DOMAIN vocab = 1 .. Len(vocab)
  BY SizeIsPositive DEF TypeOK
<1>1. CASE \E j \in DOMAIN vocab : vocab[j] = w
  <2>1. PICK j \in 1 .. hashed : vocab[j] = w
    BY <1>0, <1>1
  <2>2. Lookup(bytes) = j
    BY <2>1 DEF EveryTokenFound
  <2> QED BY <1>0, <2>1, <2>2
<1>2. CASE ~\E j \in DOMAIN vocab : vocab[j] = w
  <2>1. CASE S = {}
    BY <1>2, <2>1 DEF Lookup
  <2>2. CASE S # {}
    <3>1. S \in SUBSET Nat
      BY DEF Stops, TypeOK
    <3>2. k \in S
      BY <2>2, <3>1, MinOfNat
    <3>3. k \in Nat /\ (i = None \/ Same(i, bytes))
      BY <3>1, <3>2 DEF Stops
    <3>4. Lookup(bytes) = i
      BY <2>2 DEF Lookup
    <3>5. At(bytes, k) \in 0 .. Size - 1
      <4>1. Hash(bytes) \in Nat
        BY HashAssumption DEF HashAssumption
      <4>2. \A x \in Nat, n \in Nat \ {0} : x % n \in 0 .. n - 1
        OBVIOUS
      <4> HIDE DEF k, bytes
      <4>3. Hash(bytes) + k \in Nat
        BY <3>3, <4>1
      <4> QED BY <1>0, <4>2, <4>3 DEF At
    <3>6. i \in 0 .. Len(vocab)
      BY <3>5 DEF TypeOK
    <3> HIDE DEF i
    <3>7. i = None
      <4> SUFFICES ASSUME i # None PROVE FALSE
        OBVIOUS
      <4>1. i \in DOMAIN vocab
        BY <1>0, <3>6 DEF None
      <4>2. Bytes(vocab[i]) = Bytes(w)
        BY <3>3 DEF Same
      <4>3. vocab[i] \in Seq(Characters) /\ w \in Seq(Characters)
        BY <1>0, <4>1, TokenText, WordFacts
      <4>4. vocab[i] = w
        BY <4>2, <4>3, BytesInjective
      <4> QED BY <1>2, <4>1, <4>4
    <3> QED BY <1>2, <3>4, <3>7
  <2> QED BY <2>1, <2>2
<1> QED BY <1>1, <1>2

(* A word that is a token is one piece for the reference. *)
LEMMA WholeWord ==
  ASSUME vocab \in Vocabularies, Distinct, NEW w \in Words, Len(w) <= MaxInputChars,
         NEW i \in DOMAIN vocab, vocab[i] = w
  PROVE  ReferencePieces(w) = <<i>> /\ Len(w) <= MaxTokenChars
<1> DEFINE N == Len(w)
           E == PieceEnds(w, 0)
           h == CHOOSE g : RefIds(g, w)
<1>0. N \in Nat \ {0} /\ w \in Seq(Characters) /\ N \in 0 + 1 .. Len(w) /\ 0 \in 0 .. Len(w) /\ N \in 1 .. Len(w)
  BY WordFacts
<1>1. SubSeq(w, 1, N) = w
  BY <1>0
<1>2. PieceOf(w, 0, N) = w
  BY <1>0, <1>1, BeginningIs
<1>3. N \in E
  BY <1>0, <1>2 DEF PieceEnds
<1>4. Max(E) = N
  <2>1. Max(E) \in 0 + 1 .. Len(w) /\ N <= Max(E)
    BY <1>0, <1>3, LastEnd
  <2> QED BY <1>0, <2>1
<1>5. RefIds(h, w)
  BY RefIdsExist
<1>6. h[N] = <<>>
  <2>1. RefTurn(h, w)[N] = <<>>
    BY <1>0 DEF RefTurn
  <2> HIDE DEF h, N
  <2> QED BY <1>5, <2>1 DEF RefIds
<1>7. Id(w) = i /\ i # None
  BY IdIs
<1>8. h[0] = <<i>> \o <<>>
  <2>1. RefTurn(h, w)[0] = <<Id(PieceOf(w, 0, Max(E)))>> \o h[Max(E)]
    BY <1>0, <1>3 DEF RefTurn
  <2>2. h[0] = <<Id(PieceOf(w, 0, Max(E)))>> \o h[Max(E)]
    BY <1>5, <2>1 DEF RefIds
  <2> QED BY <1>2, <1>4, <1>6, <1>7, <2>2
<1>9. h[0] = <<i>> /\ None \notin ToSet(h[0])
  <2>1. h[0] = <<i>>
    BY <1>8
  <2> QED BY <1>7, <2>1 DEF ToSet
<1> HIDE DEF h
<1>10. ReferencePieces(w) = IF Len(w) > MaxInputChars \/ None \in ToSet(h[0]) THEN <<Unk>> ELSE h[0]
  BY ReferenceIs DEF h
<1>11. ~(Len(w) > MaxInputChars)
  BY WordFacts
<1>12. Len(w) <= MaxTokenChars
  <2>1. BodyOf(w) = N - 0
    BY <1>0, <1>2, PieceBody
  <2>2. BodyOf(w) <= MaxTokenChars \/ MaxTokenChars = MaxInputChars
    BY WordFacts, MaxTokenFacts
  <2> QED BY <1>0, <2>1, <2>2
<1> QED BY <1>9, <1>10, <1>11, <1>12

(* A list that is built names every token once, and so do the two indexes. *)
LEMMA BuiltFacts ==
  ASSUME TypeOK, NoDuplicateStored, TableFirst, Built
  PROVE  Distinct /\ hashed = Len(vocab)
<1>0. vocab \in Vocabularies /\ Len(vocab) \in Nat /\ DOMAIN vocab = 1 .. Len(vocab)
  BY TokenText DEF TypeOK
<1>1. hashed = Len(vocab)
  <2>1. hashed \in 0 .. Len(vocab) /\ threaded = Len(vocab)
    BY DEF TypeOK, Built
  <2> DEFINE n == Len(vocab)
  <2>2. n \in Nat /\ hashed \in 0 .. n /\ threaded = n /\ (threaded > 0 => hashed = n)
    BY <1>0, <2>1 DEF TableFirst
  <2> HIDE DEF n
  <2>3. hashed = n
    BY <2>2
  <2> QED BY <2>3 DEF n
<1>2. Distinct
  BY <1>0, <1>1 DEF NoDuplicateStored, Distinct
<1> QED BY <1>1, <1>2

(* For every list of tokens, every hash function and every word: the whole *)
(* word from the hash table or its pieces from the tries are the pieces of *)
(* the reference, and no match ends inside a character.                    *)
THEOREM PiecesAgree == Spec => []WordPieceIsReference
<1>1. TypeOK /\ EveryTokenFound /\ NoDuplicateStored /\ TableFirst /\ TriesSpell => WordPieceIsReference
  <2> SUFFICES ASSUME TypeOK, EveryTokenFound, NoDuplicateStored, TableFirst, TriesSpell, Built,
                      NEW w \in Words
               PROVE  WordPiece(w) = ReferencePieces(w)
    BY DEF WordPieceIsReference
  <2>1. vocab \in Vocabularies /\ Distinct /\ hashed = Len(vocab)
    BY BuiltFacts DEF TypeOK
  <2> DEFINE ids == CHOOSE h : RefIds(h, w)
             exact == IF Len(w) <= MaxTokenChars THEN Lookup(Bytes(w)) ELSE None
  <2>2. ReferencePieces(w) = IF Len(w) > MaxInputChars \/ None \in ToSet(ids[0]) THEN <<Unk>> ELSE ids[0]
    BY ReferenceIs
  <2>3. Len(w) <= MaxInputChars =>
          WordPiece(w) = IF Len(w) > MaxInputChars THEN <<Unk>>
                         ELSE IF exact # None THEN <<exact>>
                         ELSE IF None \in ToSet(ids[0]) THEN <<Unk>> ELSE ids[0]
    <3> DEFINE found == CHOOSE h : WordIds(h, w)
    <3>1. WordPiece(w) = IF Len(w) > MaxInputChars THEN <<Unk>>
                         ELSE IF exact # None THEN <<exact>>
                         ELSE IF None \in ToSet(found[0]) THEN <<Unk>> ELSE found[0]
      BY WordPieceIs
    <3>2. Len(w) <= MaxInputChars => found = ids
      BY <2>1, IdsAgree
    <3> HIDE DEF found, ids, exact
    <3> QED BY <3>1, <3>2
  <2>4. Len(w) > MaxInputChars => WordPiece(w) = <<Unk>>
    BY WordPieceIs
  <2>5. Len(w) \in Nat /\ MaxInputChars \in Nat
    BY WordFacts
  <2>6. CASE Len(w) > MaxInputChars
    BY <2>2, <2>4, <2>6
  <2>7. CASE Len(w) <= MaxInputChars /\ \A i \in DOMAIN vocab : vocab[i] # w
    <3>1. Lookup(Bytes(w)) = None
      BY <2>1, <2>7, LookupIs
    <3>2. exact = None
      BY <3>1
    <3>3. ~(Len(w) > MaxInputChars)
      BY <2>5, <2>7
    <3> HIDE DEF ids, exact
    <3> QED BY <2>2, <2>3, <2>7, <3>2, <3>3
  <2>8. CASE Len(w) <= MaxInputChars /\ \E i \in DOMAIN vocab : vocab[i] = w
    <3> DEFINE i == Lookup(Bytes(w))
    <3>1. i \in DOMAIN vocab /\ vocab[i] = w
      BY <2>1, <2>8, LookupIs
    <3> HIDE DEF i
    <3>2. ReferencePieces(w) = <<i>> /\ Len(w) <= MaxTokenChars
      BY <2>1, <2>8, <3>1, WholeWord
    <3>3. i # None
      BY <2>1, <3>1, TokenText DEF None
    <3>4. exact = i
      BY <3>2 DEF i
    <3>5. ~(Len(w) > MaxInputChars)
      BY <2>5, <2>8
    <3> HIDE DEF ids, exact
    <3> QED BY <2>3, <2>8, <3>2, <3>3, <3>4, <3>5
  <2> QED BY <2>5, <2>6, <2>7, <2>8
<1> QED BY <1>1, TypeCorrect, TokensFound, NoDuplicates, TableComesFirst, TriesHold, PTL

=============================================================================
