------------------------------ MODULE Vocabulary ------------------------------
(***************************************************************************)
(* The vocabulary of a model file: the hash table and the two tries that   *)
(* the Ruby writer builds from a list of tokens (format/hash_table.rb,     *)
(* format/trie.rb), the checks of the loader, and the C code that finds    *)
(* the pieces of a word in them (se_format.c, wordpiece).                  *)
(*                                                                         *)
(* A token is a sequence of characters and a character the sequence of its *)
(* bytes.  Its id is its place in the list, from 1 here; None is the       *)
(* 0xFFFFFFFF of an empty slot.  The string blob is left out: the bytes of *)
(* a slot are those of the token with its id.                              *)
(***************************************************************************)
EXTENDS Integers, SequencesExt

CONSTANTS
  Characters,     \* the characters, each as its bytes in UTF-8
  Vocabularies,   \* the token lists a conversion may be given
  Words,          \* what the segmenter may ask for
  Prefix,         \* subword_prefix
  UnkToken,       \* [UNK], which every list has
  Hash(_),        \* FNV-1a of a sequence of bytes
  PowersOfTwo,    \* bound: the table sizes there are
  LinearEdges,    \* more edges of a node than these are bisected; 8
  MaxInputChars   \* max_input_chars_per_word

Bytes(token) == FlattenSeq(token)

(* next_power_of_two of the length over a load factor of 0.7, and one.     *)
Needed(n) == (10 * n + 6) \div 7 + 1

ASSUME HashAssumption ==
  /\ \A v \in Vocabularies : \A i \in DOMAIN v : Hash(Bytes(v[i])) \in Nat
  /\ \A w \in Words : Hash(Bytes(w)) \in Nat

(* Tokens are UTF-8: the bytes alone say where a character ends.  The       *)
(* importer has looked [UNK] up, and some table size is large enough.      *)
ASSUME VocabularyAssumption ==
  /\ PowersOfTwo \subseteq Nat \ {0}
  /\ Characters \subseteq Seq(0 .. 255) \ {<<>>}
  /\ \A x, y \in Characters : IsPrefix(x, y) => x = y
  /\ Prefix \in Seq(Characters)
  /\ \A v \in Vocabularies :
       /\ v \in Seq(Seq(Characters))
       /\ \E i \in DOMAIN v : v[i] = UnkToken
       /\ \E p \in PowersOfTwo : p >= Needed(Len(v))

(* The segmenter cuts no empty word, and punctuation, of which the prefix  *)
(* is made, into words of one character.                                   *)
ASSUME WordAssumption ==
  /\ LinearEdges \in Nat /\ MaxInputChars \in Nat
  /\ \A w \in Words : w \in Seq(Characters) \ {<<>>} /\ ~IsPrefix(Prefix, w)

VARIABLES
  vocab,      \* the tokens
  slots,      \* the hash table: ids by position
  maxProbe,   \* max_probe
  hashed,     \* tokens in the hash table
  root, cont, \* the nodes of the two tries
  threaded,   \* tokens that went through a trie
  raised      \* the writer gave up

vars == <<vocab, slots, maxProbe, hashed, root, cont, threaded, raised>>

None == 0

-----------------------------------------------------------------------------
(* The hash table *)

TableSizeUnloaded(n) == Min({p \in PowersOfTwo : p >= n + 1})
TableSize(n) == Min({p \in PowersOfTwo : p >= Needed(n)})

Size == TableSize(Len(vocab))

(* The k-th slot a chain visits, from 0. *)
At(bytes, k) == (Hash(bytes) + k) % Size

SameHash(id, bytes) ==
  Hash(Bytes(vocab[id])) = Hash(bytes) /\ Len(Bytes(vocab[id])) = Len(bytes)

(* Hash, length and bytes agree. *)
Same(id, bytes) == Bytes(vocab[id]) = bytes

(* Where a search over the first n slots of a chain may stop: at an empty  *)
(* slot, or at the token itself.                                           *)
Stops(bytes, n) ==
  {k \in 0 .. n - 1 :
     slots[At(bytes, k)] = None \/ Same(slots[At(bytes, k)], bytes)}

(* se_vocab_lookup *)
Lookup(bytes) ==
  IF Stops(bytes, maxProbe) = {} THEN None
  ELSE slots[At(bytes, Min(Stops(bytes, maxProbe)))]

ProbesFromZero(k) == k
(* insert counts the slot it ends at. *)
Probes(k) == k + 1

Total(max, probe) == max + probe
(* build keeps the longest chain. *)
Longest(max, probe) == IF probe > max THEN probe ELSE max

PlaceAtFirstHole(bytes) == {k \in 0 .. Size - 1 : slots[At(bytes, k)] = None}
Place(bytes) == Stops(bytes, Size)

(* HashTable.insert of the next token.  A chain without an empty slot      *)
(* would be followed for ever.                                             *)
InsertHash ==
  /\ ~raised /\ hashed < Len(vocab)
  /\ LET bytes == Bytes(vocab[hashed + 1])
         k == Min(Place(bytes))
     IN /\ Place(bytes) # {}
        /\ IF slots[At(bytes, k)] = None
           THEN /\ slots' = [slots EXCEPT ![At(bytes, k)] = hashed + 1]
                /\ maxProbe' = Longest(maxProbe, Probes(k))
                /\ hashed' = hashed + 1
                /\ UNCHANGED raised
           ELSE /\ raised' = TRUE
                /\ UNCHANGED <<slots, maxProbe, hashed>>
  /\ UNCHANGED <<vocab, root, cont, threaded>>

-----------------------------------------------------------------------------
(* The tries *)

Leaf == [terminal |-> None, children |-> <<>>]

(* One turn of Trie#insert: the child for a byte, appended if there is none. *)
Follow(s, byte) ==
  LET children == s.nodes[s.at].children
      added == [b \in DOMAIN children \cup {byte} |->
                  IF b = byte THEN Len(s.nodes) + 1 ELSE children[b]]
  IN IF byte \in DOMAIN children
     THEN [nodes |-> s.nodes, at |-> children[byte]]
     ELSE [nodes |-> Append([s.nodes EXCEPT ![s.at].children = added], Leaf),
           at |-> Len(s.nodes) + 1]

(* Trie#insert follows the bytes from the root, node 1. *)
Path(nodes, bytes) == FoldLeft(Follow, [nodes |-> nodes, at |-> 1], bytes)

Threaded(nodes, bytes, id) ==
  LET end == Path(nodes, bytes)
  IN IF bytes = <<>> THEN nodes
     ELSE [end.nodes EXCEPT ![end.at].terminal = id]

Taken(nodes, bytes) ==
  LET end == Path(nodes, bytes)
  IN bytes # <<>> /\ end.nodes[end.at].terminal # None

Continues(token) ==
  /\ Bytes(Prefix) # <<>> /\ Bytes(token) # Bytes(Prefix)
  /\ IsPrefix(Bytes(Prefix), Bytes(token))

(* What a trie stores of a token: continuations go without their prefix.   *)
Key(token) ==
  IF Continues(token)
  THEN SubSeq(Bytes(token), Len(Bytes(Prefix)) + 1, Len(Bytes(token)))
  ELSE Bytes(token)

(* WordPieceTrie.build, one token of it. *)
InsertTrie ==
  /\ ~raised /\ hashed = Len(vocab) /\ threaded < Len(vocab)
  /\ LET token == vocab[threaded + 1]
         trie == IF Continues(token) THEN cont ELSE root
         grown == Threaded(trie, Key(token), threaded + 1)
     IN IF Taken(trie, Key(token))
        THEN raised' = TRUE /\ UNCHANGED <<root, cont, threaded>>
        ELSE /\ root' = IF Continues(token) THEN root ELSE grown
             /\ cont' = IF Continues(token) THEN grown ELSE cont
             /\ threaded' = threaded + 1
             /\ UNCHANGED raised
  /\ UNCHANGED <<vocab, slots, maxProbe, hashed>>

Init ==
  /\ vocab \in Vocabularies
  /\ slots = [p \in 0 .. Size - 1 |-> None]
  /\ maxProbe = 0
  /\ hashed = 0
  /\ root = <<Leaf>>
  /\ cont = <<Leaf>>
  /\ threaded = 0
  /\ raised = FALSE

Built == threaded = Len(vocab)

(* The writer has packed the tables, or raised. *)
Over == (raised \/ Built) /\ UNCHANGED vars

Next == InsertHash \/ InsertTrie \/ Over

Spec == Init /\ [][Next]_vars

-----------------------------------------------------------------------------
(* The tables as the file holds them, and their readers *)

(* A set of numbers in ascending order *)
Ascending(S) ==
  [k \in 1 .. Cardinality(S) |-> CHOOSE b \in S : Cardinality({c \in S : c < b}) = k - 1]

(* Trie#pack: the edges of all nodes in one array, sorted by byte within a *)
(* node.                                                                   *)
Packed(nodes) ==
  LET sorted(n) == Ascending(DOMAIN nodes[n].children)
      start[n \in 1 .. Len(nodes) + 1] ==
        IF n = 1 THEN 0 ELSE start[n - 1] + Len(sorted(n - 1))
  IN [edges |-> FlattenSeq([n \in DOMAIN nodes |->
                  [k \in DOMAIN sorted(n) |->
                     [byte |-> sorted(n)[k], child |-> nodes[n].children[sorted(n)[k]]]]]),
      nodes |-> [n \in DOMAIN nodes |->
                   [start |-> start[n], count |-> Len(sorted(n)),
                    terminal |-> nodes[n].terminal]]]

BisectShort(edges, first, last, byte) ==
  LET search[r \in [lo : first .. last + 1, hi : first .. last + 1]] ==
        IF r.lo >= r.hi THEN r.lo
        ELSE LET mid == r.lo + (r.hi - r.lo) \div 2
             IN IF edges[mid].byte <= byte THEN search[[r EXCEPT !.lo = mid + 1]]
                ELSE search[[r EXCEPT !.hi = mid]]
  IN search[[lo |-> first, hi |-> last + 1]]

(* The first place of first .. last + 1 that has no smaller byte. *)
Bisect(edges, first, last, byte) ==
  LET search[r \in [lo : first .. last + 1, hi : first .. last + 1]] ==
        IF r.lo >= r.hi THEN r.lo
        ELSE LET mid == r.lo + (r.hi - r.lo) \div 2
             IN IF edges[mid].byte < byte THEN search[[r EXCEPT !.lo = mid + 1]]
                ELSE search[[r EXCEPT !.hi = mid]]
  IN search[[lo |-> first, hi |-> last + 1]]

(* One or two edges are compared one by one. *)
Compare(edges, first, last, byte) == {k \in first .. last : edges[k].byte = byte}

(* The loop over a few edges, which gives up at a greater byte. *)
Scan(edges, first, last, byte) ==
  {k \in first .. last :
     edges[k].byte = byte /\ \A j \in first .. k - 1 : edges[j].byte < byte}

(* trie_find_child *)
FindChild(trie, n, byte) ==
  LET first == trie.nodes[n].start + 1
      last == trie.nodes[n].start + trie.nodes[n].count
      at == Bisect(trie.edges, first, last, byte)
      count == trie.nodes[n].count
      hits == IF count <= 2 THEN Compare(trie.edges, first, last, byte)
              ELSE IF count <= LinearEdges THEN Scan(trie.edges, first, last, byte)
              ELSE {k \in {at} : at <= last /\ trie.edges[at].byte = byte}
  IN IF hits = {} THEN None ELSE trie.edges[Min(hits)].child

(* se_trie_longest_match: id and length of the longest key bytes begins with *)
LongestMatch(trie, bytes) ==
  LET step(s, byte) ==
        LET child == IF s.node = None THEN None ELSE FindChild(trie, s.node, byte)
            id == IF child = None THEN None ELSE trie.nodes[child].terminal
        IN [node |-> child, read |-> s.read + 1,
            id |-> IF id = None THEN s.id ELSE id,
            len |-> IF id = None THEN s.len ELSE s.read + 1]
  IN FoldLeft(step, [node |-> 1, read |-> 0, id |-> None, len |-> 0], bytes)

(* max_token_chars, with the bound the loader puts on it. *)
MaxTokenChars ==
  LET body(t) == IF IsPrefix(Prefix, t) THEN Len(t) - Len(Prefix) ELSE Len(t)
      most == Max({1} \cup {body(vocab[i]) : i \in DOMAIN vocab})
  IN IF most > MaxInputChars THEN MaxInputChars ELSE most

Id(token) == Min({i \in DOMAIN vocab : vocab[i] = token})
Unk == Id(UnkToken)

(* wordpiece: the word whole from the hash table, else its pieces from the *)
(* tries.  A match that ends inside a character is an error, Misaligned.   *)
Misaligned == -1

WordPiece(word) ==
  LET trie(s) == Packed(IF s = 0 THEN root ELSE cont)
      off(s) == Len(Bytes(SubSeq(word, 1, s)))
      furthest(s) == IF s + MaxTokenChars < Len(word) THEN s + MaxTokenChars ELSE Len(word)
      ids[s \in 0 .. Len(word)] ==
        IF s = Len(word) THEN <<>>
        ELSE LET m == LongestMatch(trie(s), Bytes(SubSeq(word, s + 1, furthest(s))))
                 ends == {e \in s + 1 .. furthest(s) : off(e) = off(s) + m.len}
             IN IF m.id = None THEN <<None>>
                ELSE IF ends = {} THEN <<Misaligned>>
                ELSE <<m.id>> \o ids[Min(ends)]
      exact == IF Len(word) <= MaxTokenChars THEN Lookup(Bytes(word)) ELSE None
  IN IF Len(word) > MaxInputChars THEN <<Unk>>
     ELSE IF exact # None THEN <<exact>>
     ELSE IF None \in ToSet(ids[0]) THEN <<Unk>> ELSE ids[0]

(* Reference#wordpiece: shorter and shorter pieces, each looked up in the  *)
(* list of tokens.                                                         *)
ReferencePieces(word) ==
  LET piece(s, e) == (IF s = 0 THEN <<>> ELSE Prefix) \o SubSeq(word, s + 1, e)
      ends(s) == {e \in s + 1 .. Len(word) : \E i \in DOMAIN vocab : vocab[i] = piece(s, e)}
      ids[s \in 0 .. Len(word)] ==
        IF s = Len(word) THEN <<>>
        ELSE IF ends(s) = {} THEN <<None>>
        ELSE <<Id(piece(s, Max(ends(s))))>> \o ids[Max(ends(s))]
  IN IF Len(word) > MaxInputChars \/ None \in ToSet(ids[0]) THEN <<Unk>> ELSE ids[0]

-----------------------------------------------------------------------------
(* The loader *)

(* validate, validate_vocab_hash, validate_hash_probe_limits.  The other   *)
(* added tokens are looked up as [UNK] is.                                 *)
TableLoads ==
  LET filled == {p \in DOMAIN slots : slots[p] # None}
      home(p) == Hash(Bytes(vocab[slots[p]])) % Size
  IN /\ Len(vocab) < Size /\ Len(vocab) * 100 <= Size * 70
     /\ maxProbe \in 1 .. Size
     /\ {slots[p] : p \in filled} = DOMAIN vocab
     /\ \A p, q \in filled : slots[p] = slots[q] => p = q
     /\ Lookup(Bytes(UnkToken)) = Unk
     /\ \A p \in filled : Probes((p - home(p)) % Size) <= maxProbe

(* parse_trie *)
TrieLoads(trie) ==
  \A n \in DOMAIN trie.nodes :
    LET node == trie.nodes[n]
    IN /\ node.terminal <= Len(vocab)
       /\ node.start + node.count <= Len(trie.edges)
       /\ \A k \in node.start + 1 .. node.start + node.count :
            /\ trie.edges[k].byte <= 255
            /\ trie.edges[k].child \in DOMAIN trie.nodes
            /\ k > node.start + 1 => trie.edges[k - 1].byte < trie.edges[k].byte

-----------------------------------------------------------------------------
(* Properties *)

(* Every variable has its type; a recorded probe never exceeds the table,  *)
(* and the table holds only ids of the list.                               *)
TypeOK ==
  /\ vocab \in Vocabularies
  /\ slots \in [0 .. Size - 1 -> 0 .. Len(vocab)]
  /\ maxProbe \in 0 .. Size
  /\ hashed \in 0 .. Len(vocab)
  /\ threaded \in 0 .. Len(vocab)
  /\ raised \in BOOLEAN

(* At every moment of the build, a lookup that stops at an empty slot or   *)
(* after max_probe slots finds every token that is in, under its id: later *)
(* insertions neither cut a chain nor outgrow the recorded probe.          *)
EveryTokenFound ==
  \A i \in 1 .. hashed : Lookup(Bytes(vocab[i])) = i

(* No token is in twice, wherever its copies stand in the list and         *)
(* whatever came between them in the table.                                *)
NoDuplicateStored ==
  \A i, j \in 1 .. hashed : Bytes(vocab[i]) = Bytes(vocab[j]) => i = j

(* The writer raises for duplicates only; in particular the tries accept   *)
(* whatever the hash table has accepted.                                   *)
OnlyDuplicatesRaise ==
  raised => \E i, j \in DOMAIN vocab : i # j /\ vocab[i] = vocab[j]

(* What the writer built, the loader accepts. *)
WriterSatisfiesLoader ==
  Built => TableLoads /\ TrieLoads(Packed(root)) /\ TrieLoads(Packed(cont))

(* The two indexes together give every word the pieces of the reference    *)
(* implementation, which knows only the list of tokens; no match ends      *)
(* inside a character.                                                     *)
WordPieceIsReference ==
  Built => \A w \in Words : WordPiece(w) = ReferencePieces(w)

=============================================================================
