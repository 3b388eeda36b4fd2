----------------------------- MODULE MCVocabulary -----------------------------
(* Instances of Vocabulary: characters of one and two bytes, two of which  *)
(* share their first byte, nodes of as many edges as each search of the    *)
(* tries is for, and a hash that makes chains meet and wrap.               *)
EXTENDS Vocabulary

a == <<1>>
b == <<2>>
d == <<3>>
e1 == <<9, 5>>
e2 == <<9, 6>>
hash == <<4>>
u == <<7>>

MCPrefix == <<hash, hash>>
MCUnk == <<u>>
MCHash(bytes) == IF Len(bytes) < 2 THEN 7 ELSE 6 + (bytes[Len(bytes)] % 2)

Tokens ==
  {MCUnk, <<>>, <<a>>, <<a, b>>, <<e1>>, <<b, e2>>, MCPrefix,
   MCPrefix \o <<a>>, MCPrefix \o <<b>>, MCPrefix \o <<b, e1>>, MCPrefix \o <<e2>>}
Small ==
  {v \in UNION {[1 .. n -> Tokens] : n \in 1 .. 4} : \E i \in DOMAIN v : v[i] = MCUnk}

(* Lists whose root tries have from one edge to eleven, and those of the   *)
(* continuations up to ten, with the missing letters anywhere among them.  *)
Alphabet == <<<<12>>, d, <<14>>, a, <<11>>, b, <<6>>, <<13>>, <<5>>, <<8>>>>
Wide(S) ==
  LET letters == SelectSeq(Alphabet, LAMBDA x : x \in S)
  IN <<MCUnk>> \o [i \in DOMAIN letters |-> <<letters[i]>>]
       \o [i \in DOMAIN letters |-> MCPrefix \o <<letters[i]>>]
Missing == {S \in SUBSET ToSet(Alphabet) : Cardinality(S) \in {0, 1, 2, 8, 9}}

MCCharacters == {e1, e2, hash, u} \cup ToSet(Alphabet)
MCVocabularies == Small \cup {Wide(ToSet(Alphabet) \ S) : S \in Missing}

Letters == {a, b, e1, e2}
MCWords ==
  UNION {[1 .. n -> Letters] : n \in 1 .. 3} \cup {<<a, b, a, b>>, <<hash>>}
    \cup {<<x, x>> : x \in ToSet(Alphabet)}
=============================================================================
