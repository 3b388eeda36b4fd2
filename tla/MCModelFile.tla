---------------------------- MODULE MCModelFile ----------------------------
(* Instance of ModelFile: small matrices of every kind of payload, chunks   *)
(* that end inside their rows, and pairs of conversions on one path.        *)
EXTENDS ModelFile

MCSectionSizes ==
  [vocab_strings |-> 1, vocab_hash |-> 2, norm_tables |-> 1, provenance |-> 1,
   root_trie |-> 1, continuation_trie |-> 1]

Matrix(name, vocab, rows, dim, out, weighted, mapping) ==
  [matrix |-> name, vocab |-> vocab, rows |-> rows, dim |-> dim, out |-> out,
   weighted |-> weighted, mapping |-> mapping]

Job(m, present) == [model |-> m, present |-> present]
Alone(m, present, failures, when) ==
  [jobs |-> [w \in {"c1"} |-> Job(m, present)], buffered |-> TRUE,
   outages |-> failures, load |-> when]
Both(m, n, buffered, failures) ==
  [jobs |-> [w \in {"c1", "c2"} |->
               IF w = "c1" THEN Job(m, SourceSize(m)) ELSE Job(n, SourceSize(n))],
   buffered |-> buffered, outages |-> failures, load |-> "after"]

Kinds ==
  {Matrix("a", "v", 3, dim, out, weighted, mapping) :
     dim \in 1 .. 3, out \in 1 .. 3, weighted \in BOOLEAN,
     mapping \in {<<>>, <<2>>, <<1, 1, 0, 2, 0>>}}

Small == Matrix("a", "v", 1, 2, 2, FALSE, <<>>)
SameShape == Matrix("b", "v", 1, 2, 2, FALSE, <<>>)
Other == Matrix("b", "u", 1, 2, 1, TRUE, <<>>)

MCPlans ==
  {Alone(m, SourceSize(m) - missing, 0, "never") :
     m \in {k \in Kinds : k.out <= k.dim}, missing \in {0, 1, 2}}
    \cup {Both(Small, SameShape, TRUE, 0), Both(Small, Other, FALSE, 1)}
    \cup {Alone(Small, 2, 1, "ever")}
=============================================================================
