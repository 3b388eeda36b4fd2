----------------------------- MODULE ModelHandle -----------------------------
(***************************************************************************)
(* What the native extension promises about one model file mapping: it is  *)
(* opened once, calls hold it while they are active, only a holder's       *)
(* native job reads it, and it is released only when nobody holds it.      *)
(*                                                                         *)
(* This is the abstract specification; ModelCalls implements it with an    *)
(* `open' flag and an `active_ops' counter under Ruby's GVL.               *)
(***************************************************************************)

CONSTANT Callers    \* threads or fibers that call methods of the model

VARIABLES
  mapping,          \* "none", "mapped" or "released"
  holders,          \* callers with an operation in progress
  readers           \* callers whose native job is reading the mapping

vars == <<mapping, holders, readers>>

Init ==
  /\ mapping = "none"
  /\ holders = {}
  /\ readers = {}

Map ==
  /\ mapping = "none"
  /\ mapping' = "mapped"
  /\ UNCHANGED <<holders, readers>>

Hold(c) ==
  /\ mapping = "mapped"
  /\ c \notin holders
  /\ holders' = holders \union {c}
  /\ UNCHANGED <<mapping, readers>>

StartReading(c) ==
  /\ c \in holders \ readers
  /\ readers' = readers \union {c}
  /\ UNCHANGED <<mapping, holders>>

StopReading(c) ==
  /\ c \in readers
  /\ readers' = readers \ {c}
  /\ UNCHANGED <<mapping, holders>>

Drop(c) ==
  /\ c \in holders \ readers
  /\ holders' = holders \ {c}
  /\ UNCHANGED <<mapping, readers>>

Release ==
  /\ mapping = "mapped"
  /\ holders = {}
  /\ mapping' = "released"
  /\ UNCHANGED <<holders, readers>>

Next ==
  \/ Map
  \/ Release
  \/ \E c \in Callers : Hold(c) \/ StartReading(c) \/ StopReading(c) \/ Drop(c)

Spec == Init /\ [][Next]_vars

=============================================================================
