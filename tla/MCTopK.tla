-------------------------------- MODULE MCTopK --------------------------------
(* Instances of TopK: every matrix of up to four rows. *)
EXTENDS TopK

MCMatrices == UNION {[1 .. n -> Scores] : n \in 0 .. 4}
=============================================================================
