---------------------------- MODULE MCModelCalls ----------------------------
(* ModelCalls for TLC: callers are model values, and interchangeable. *)
EXTENDS ModelCalls, TLC

Symmetry == Permutations(Callers)

=============================================================================
