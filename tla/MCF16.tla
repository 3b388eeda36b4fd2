------------------------------- MODULE MCF16 -------------------------------
(* Instance of F16 with narrow fields: every float alone, vectors of the   *)
(* floats that carry, overflow or flush, and every half.                   *)
EXTENDS F16

(* Rounds to infinity, rounds up to the first normal half, is half of the  *)
(* smallest one, is a NaN the cut would make infinite, is a tie.           *)
Edge == {[s |-> 0, e |-> 10, m |-> 63], [s |-> 1, e |-> 4, m |-> 63],
         [s |-> 0, e |-> 1, m |-> 0], [s |-> 1, e |-> 15, m |-> 1],
         [s |-> 0, e |-> 9, m |-> 4]}

MCVectors == {<<>>} \cup {<<f>> : f \in Float} \cup [1 .. 3 -> Edge]
MCBlobs == {<<h>> : h \in Half} \cup
           {<<g, h>> : g \in {x \in Half : x.e = 0}, h \in {x \in Half : x.e # 1}}
=============================================================================
