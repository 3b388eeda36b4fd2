------------------------ MODULE PrefixWindow_proofs ------------------------
(***************************************************************************)
(* Proofs about PrefixWindow, for batches of any length, texts of any      *)
(* size and any tables.  Those about the loop rest on the bookkeeping of   *)
(* the rounds; those about the rows follow the tokenizer through a slice   *)
(* and through its text, turn by turn, to the place where BoundaryLen cut. *)
(***************************************************************************)
EXTENDS PrefixWindow, Facts, TLAPS

-----------------------------------------------------------------------------
(* The window of one text *)

ByteSeq == Seq(CodePoints \cup {Cont})

(* A cut is inside the target. *)
LEMMA CutInTarget ==
  ASSUME NEW text \in ByteSeq, NEW n \in Nat, NEW target \in Nat, n < target,
         target < Len(text), Decodes(text, n)
  PROVE  Cut(text, n, target) \in 0 .. target
<1>1. text[n + 1] \in CodePoints
  BY DEF Decodes
<1>2. Width[text[n + 1]] \in Nat
  BY <1>1, TablesAssumption DEF TablesAssumption
<1> QED
  BY <1>2 DEF Cut

(* A boundary is never outside the text. *)
LEMMA BoundaryInText ==
  ASSUME NEW text \in ByteSeq, NEW target \in Nat, NEW backscan \in Nat
  PROVE  BoundaryLen(text, target, backscan) \in 0 .. Len(text)
<1> DEFINE floor == IF target > backscan THEN target - backscan ELSE 0
           heads == {n \in floor .. target - 1 : text[n + 1] # Cont}
           ends == {n \in heads : ~Decodes(text, n) \/ Cut(text, n, target) # 0}
<1>0. Len(text) \in Nat
  BY DEF ByteSeq
<1>1. CASE target >= Len(text)
  BY <1>0, <1>1 DEF BoundaryLen
<1>2. CASE target < Len(text) /\ (target = 0 \/ ends = {})
  BY <1>0, <1>2 DEF BoundaryLen
<1>3. CASE target < Len(text) /\ target # 0 /\ ends # {}
  <2>1. floor \in Nat /\ ends \in SUBSET (0 .. target) /\ ends # {}
    BY <1>3
  <2>2. Max(ends) \in ends
    BY <2>1, MaxOfNat
  <2>3. Max(ends) \in Nat /\ Max(ends) < target
    BY <2>1, <2>2
  <2>4. BoundaryLen(text, target, backscan) =
          IF Decodes(text, Max(ends)) THEN Cut(text, Max(ends), target) ELSE 0
    BY <1>0, <1>3 DEF BoundaryLen
  <2>5. CASE Decodes(text, Max(ends))
    BY <1>0, <1>3, <2>3, <2>4, <2>5, CutInTarget
  <2>6. CASE ~Decodes(text, Max(ends))
    BY <1>0, <2>4, <2>6
  <2> QED
    BY <2>5, <2>6
<1> QED
  BY <1>0, <1>1, <1>2, <1>3

(* What resolving a slice leaves: a target that is the whole text, or one  *)
(* inside it that still has a boundary below it.                           *)
LEMMA ResolveFacts ==
  ASSUME NEW text \in ByteSeq, NEW target \in Nat, NEW m \in Nat
  PROVE  LET r == ResolveTarget(text, target, m)
         IN /\ r \in 0 .. Len(text)
            /\ target < Len(text) => target <= r
            /\ r < Len(text) => r # 0 /\ m # 0
            /\ CopyLen(text, r) \in 0 .. Len(text)
            /\ CopyLen(text, r) < Len(text) => r < Len(text)
<1> DEFINE r == ResolveTarget(text, target, m)
           G == {g \in Grown(target, Len(text)) :
                   g = Len(text) \/ BoundaryLen(text, g, Backscan) # 0}
<1>0. Len(text) \in Nat
  BY DEF ByteSeq
<1>1. r \in 0 .. Len(text) /\ (target < Len(text) => target <= r)
      /\ (r < Len(text) => r # 0 /\ m # 0)
  <2>1. CASE m = 0 \/ target = 0 \/ target >= Len(text)
    BY <1>0, <2>1 DEF ResolveTarget
  <2>2. CASE ~(m = 0 \/ target = 0 \/ target >= Len(text))
    <3>1. G \in SUBSET Nat /\ Len(text) \in G
      BY <1>0, <2>2 DEF Grown
    <3>2. Min(G) \in G
      BY <3>1, MinOfNat
    <3>3. r = Min(G)
      BY <2>2 DEF ResolveTarget
    <3>4. Min(G) \in target .. Len(text)
      BY <3>2 DEF Grown
    <3> QED
      BY <1>0, <2>2, <3>3, <3>4
  <2> QED
    BY <2>1, <2>2
<1>2. Backscan \in Nat
  BY WindowAssumption DEF WindowAssumption
<1> HIDE DEF r
<1>a. BoundaryLen(text, r, Backscan) \in 0 .. Len(text)
  <2>1. r \in Nat
    BY <1>0, <1>1
  <2> QED
    BY <1>2, <2>1, BoundaryInText
<1>3. CopyLen(text, r) \in 0 .. Len(text)
  BY <1>0, <1>a DEF CopyLen
<1>4. CopyLen(text, r) < Len(text) => r < Len(text)
  BY <1>0, <1>1 DEF CopyLen
<1> QED
  BY <1>1, <1>3, <1>4 DEF r

(* Growing a target that is inside its text widens it, at most to the whole. *)
LEMMA GrowWidens ==
  ASSUME NEW target \in Nat, NEW full \in Nat
  PROVE  /\ GrowTarget(target, full) \in Nat
         /\ 0 < target /\ target < full =>
              /\ target < GrowTarget(target, full)
              /\ GrowTarget(target, full) <= full
  BY DEF GrowTarget

-----------------------------------------------------------------------------
(* Type correctness *)

(* The tables of a call fit its batch. *)
LEMMA BatchShape ==
  ASSUME batch \in Seq(ByteSeq)
  PROVE  /\ Texts = 1 .. Len(batch)
         /\ \A i \in Texts : batch[i] \in ByteSeq /\ Full(i) \in Nat
BY DEF Texts, Full, ByteSeq

\* The first target is a natural number.
LEMMA InitialTargetType ==
  ASSUME NEW m \in Nat
  PROVE  InitialTarget(m) \in Nat
BY WindowAssumption DEF InitialTarget, WindowAssumption

(* The pending texts are texts. *)
LEMMA PendingInTexts ==
  ASSUME TypeOK
  PROVE  ToSet(pending) \subseteq Texts
BY DEF TypeOK, ToSet

(* The initial states have their types. *)
LEMMA InitTypeOK == Init => TypeOK
<1> SUFFICES ASSUME Init PROVE TypeOK
  OBVIOUS
<1>1. batch \in Seq(ByteSeq) /\ max \in Nat
  BY WindowAssumption DEF Init, WindowAssumption, ByteSeq
<1>2. Texts = 1 .. Len(batch) /\ \A i \in Texts : Full(i) \in Nat
  BY <1>1, BatchShape
<1>3. InitialTarget(max) \in Nat
  BY <1>1, InitialTargetType
<1>4. pending \in Seq(Texts)
  <2>1. pending = [i \in 1 .. Len(batch) |-> i]
    BY <1>2 DEF Init
  <2>2. Len(batch) \in Nat
    BY <1>1
  <2> QED
    BY <1>2, <2>1, <2>2
<1>5. Len(pending) \in Nat
  BY <1>4
<1> QED
  BY <1>1, <1>2, <1>3, <1>4, <1>5 DEF Init, TypeOK, ByteSeq

(* Every step keeps them: one step below for each action. *)
LEMMA NextTypeOK == TypeOK /\ [Next]_vars => TypeOK'
<1> SUFFICES ASSUME TypeOK, [Next]_vars PROVE TypeOK'
  OBVIOUS
<1>0. /\ batch \in Seq(ByteSeq) /\ max \in Nat /\ Len(pending) \in Nat
      /\ Texts = 1 .. Len(batch)
      /\ \A i \in Texts : batch[i] \in ByteSeq /\ Full(i) \in Nat
      /\ ToSet(pending) \subseteq Texts
  <2>1. batch \in Seq(ByteSeq) /\ max \in Nat /\ Len(pending) \in Nat
    BY WindowAssumption DEF TypeOK, WindowAssumption, ByteSeq
  <2> QED
    BY <2>1, BatchShape, PendingInTexts
<1>1. CASE Resolve
  <2>1. \A i \in Texts : targets'[i] \in Nat /\ copied'[i] \in Nat /\ copied'[i] <= Full(i)
    <3> TAKE i \in Texts
    <3>1. CASE i \in ToSet(pending)
      <4>1. targets'[i] = ResolveTarget(batch[i], targets[i], max)
            /\ copied'[i] = CopyLen(batch[i], targets'[i])
        BY <1>1, <3>1 DEF Resolve
      <4>2. batch[i] \in ByteSeq /\ targets[i] \in Nat
        BY <1>0 DEF TypeOK
      <4>3. /\ ResolveTarget(batch[i], targets[i], max) \in 0 .. Len(batch[i])
            /\ CopyLen(batch[i], ResolveTarget(batch[i], targets[i], max))
                 \in 0 .. Len(batch[i])
        BY <1>0, <4>2, ResolveFacts
      <4> QED
        BY <1>0, <4>1, <4>3 DEF Full
    <3>2. CASE i \notin ToSet(pending)
      BY <1>1, <3>2 DEF Resolve, TypeOK
    <3> QED
      BY <3>1, <3>2
  <2>2. targets' \in [Texts -> Nat] /\ copied' \in [Texts -> Nat]
    BY <1>1, <2>1 DEF Resolve
  <2> QED
    BY <1>1, <2>1, <2>2 DEF Resolve, TypeOK, Texts, Full
<1>2. CASE RunJob
  <2>1. failed' \in 0 .. Len(pending)
    <3> DEFINE bad == {j \in DOMAIN pending : Outcome(pending[j]).status # "ok"}
    <3>1. CASE bad = {}
      BY <1>0, <1>2, <3>1 DEF RunJob, FirstFailure, Failures
    <3>2. CASE bad # {}
      <4>1. bad \in SUBSET Nat /\ bad # {} /\ DOMAIN pending = 1 .. Len(pending)
        BY <3>2 DEF TypeOK
      <4>2. \E j \in bad : \A k \in bad : j <= k
        BY <4>1, MinOfNat
      <4>3. failed' = CHOOSE j \in bad : \A k \in bad : j <= k
        BY <1>2, <3>2 DEF RunJob, FirstFailure, Failures
      <4>4. failed' \in bad
        BY <4>2, <4>3
      <4> QED
        BY <1>0, <4>1, <4>4
    <3> QED
      BY <3>1, <3>2
  <2> QED
    BY <1>2, <2>1 DEF RunJob, TypeOK, Texts, Full
<1>3. CASE WidenInvalid
  <2>1. \A i \in Texts : GrowTarget(targets[i], Full(i)) \in Nat
    BY <1>0, GrowWidens DEF TypeOK
  <2>2. targets' \in [Texts -> Nat]
    BY <1>3, <2>1 DEF WidenInvalid, TypeOK
  <2> QED
    BY <1>0, <1>3, <2>2 DEF WidenInvalid, TypeOK, Texts, Full
<1>4. CASE Raise
  BY <1>4 DEF Raise, TypeOK, Texts, Full
<1>5. CASE Settle
  <2>1. \A i \in Texts : GrowTarget(targets[i], Full(i)) \in Nat
    BY <1>0, GrowWidens DEF TypeOK
  <2>2. targets' \in [Texts -> Nat]
    BY <1>5, <2>1 DEF Settle, TypeOK
  <2>3. PICK n \in 0 .. Len(pending) : pending' \in [1 .. n -> Texts]
    BY <1>5 DEF Settle
  <2>4. pending' \in Seq(Texts) /\ Len(pending') \in Nat /\ failed' = 0
    BY <1>0, <1>5, <2>3 DEF Settle
  <2> QED
    BY <1>5, <2>2, <2>4 DEF Settle, TypeOK, Texts, Full
<1>6. CASE Finish
  BY <1>6 DEF Finish, TypeOK, Texts, Full
<1>7. CASE Over \/ UNCHANGED vars
  BY <1>7 DEF Over, vars, TypeOK, Texts, Full
<1> QED
  BY <1>1, <1>2, <1>3, <1>4, <1>5, <1>6, <1>7 DEF Next

(* A call's tables stay well formed, and no slice is longer than its text:  *)
(* staging the input copies no byte a string does not have.                 *)
THEOREM TypeCorrect == Spec => []TypeOK
<1>1. Init => TypeOK
  BY InitTypeOK
<1>2. TypeOK /\ [Next]_vars => TypeOK'
  BY NextTypeOK
<1> QED
  BY <1>1, <1>2, PTL DEF Spec

-----------------------------------------------------------------------------
(* The bounds of the windows *)

(* A slice that is shorter than its text has a target inside the text.     *)
WindowBounds ==
  phase \in {"run", "settle", "raised"} =>
    \A i \in ToSet(pending) :
      copied[i] < Full(i) => 0 < targets[i] /\ targets[i] < Full(i)

(* What TypeOK says, in the form the steps below use. *)
LEMMA Shapes ==
  ASSUME TypeOK
  PROVE  /\ batch \in Seq(ByteSeq) /\ max \in Nat /\ Len(pending) \in Nat
         /\ Texts = 1 .. Len(batch)
         /\ \A i \in Texts : batch[i] \in ByteSeq /\ Full(i) \in Nat
         /\ ToSet(pending) \subseteq Texts
         /\ DOMAIN pending = 1 .. Len(pending)
         /\ \A i \in Texts : targets[i] \in Nat /\ copied[i] \in 0 .. Full(i)
<1>1. batch \in Seq(ByteSeq) /\ max \in Nat /\ Len(pending) \in Nat
      /\ DOMAIN pending = 1 .. Len(pending)
  BY WindowAssumption DEF TypeOK, WindowAssumption, ByteSeq
<1>2. \A i \in Texts : batch[i] \in ByteSeq /\ Full(i) \in Nat
  BY <1>1, BatchShape
<1>3. \A i \in Texts : targets[i] \in Nat /\ copied[i] \in 0 .. Full(i)
  BY <1>2 DEF TypeOK
<1> QED
  BY <1>1, <1>2, <1>3, BatchShape, PendingInTexts

\* The bounds of the window survive every step.
LEMMA NextWindowBounds ==
  TypeOK /\ WindowBounds /\ [Next]_vars => WindowBounds'
<1> SUFFICES ASSUME TypeOK, WindowBounds, [Next]_vars PROVE WindowBounds'
  OBVIOUS
<1>1. CASE Resolve
  <2>1. \A i \in ToSet(pending) :
          copied'[i] < Full(i) => 0 < targets'[i] /\ targets'[i] < Full(i)
    <3> TAKE i \in ToSet(pending)
    <3>1. i \in Texts /\ batch[i] \in ByteSeq /\ targets[i] \in Nat /\ max \in Nat
      BY Shapes
    <3>2. targets'[i] = ResolveTarget(batch[i], targets[i], max)
          /\ copied'[i] = CopyLen(batch[i], targets'[i])
      BY <1>1, <3>1 DEF Resolve
    <3> DEFINE r == ResolveTarget(batch[i], targets[i], max)
    <3>3. /\ r \in 0 .. Len(batch[i])
          /\ r < Len(batch[i]) => r # 0
          /\ CopyLen(batch[i], r) < Len(batch[i]) => r < Len(batch[i])
      BY <3>1, ResolveFacts
    <3> HIDE DEF r
    <3>4. Len(batch[i]) \in Nat
      BY <3>1 DEF ByteSeq
    <3> QED
      BY <3>2, <3>3, <3>4 DEF Full, r
  <2> QED
    BY <1>1, <2>1 DEF Resolve, WindowBounds, Full
<1>2. CASE RunJob
  BY <1>2 DEF RunJob, WindowBounds, Full
<1>3. CASE WidenInvalid
  BY <1>3 DEF WidenInvalid, WindowBounds, Full
<1>4. CASE Raise
  BY <1>4 DEF Raise, WindowBounds, Full
<1>5. CASE Settle
  BY <1>5 DEF Settle, WindowBounds, Full
<1>6. CASE Finish
  BY <1>6 DEF Finish, WindowBounds, Full
<1>7. CASE Over \/ UNCHANGED vars
  BY <1>7 DEF Over, vars, WindowBounds, Full
<1> QED
  BY <1>1, <1>2, <1>3, <1>4, <1>5, <1>6, <1>7 DEF Next

\* So they hold in every state.
LEMMA WindowBoundsHolds == Spec => []WindowBounds
<1>1. Init => WindowBounds
  BY DEF Init, WindowBounds
<1>2. TypeOK /\ WindowBounds /\ [Next]_vars => WindowBounds'
  BY NextWindowBounds
<1> QED
  BY <1>1, <1>2, TypeCorrect, PTL DEF Spec

-----------------------------------------------------------------------------
(* Termination: the measure of the loop *)

RoundWidens ==
  phase = "settle" /\ phase' = "resolve" /\ pending' # <<>> =>
    /\ \E i \in ToSet(pending') : targets[i] < targets'[i] /\ targets'[i] <= Full(i)
    /\ \A i \in Texts : targets[i] <= targets'[i]

\* A round that goes again has widened a slice.
LEMMA StepWidens ==
  TypeOK /\ WindowBounds /\ [Next]_vars => RoundWidens
<1> SUFFICES ASSUME TypeOK, WindowBounds, [Next]_vars,
                    phase = "settle", phase' = "resolve", pending' # <<>>
             PROVE  /\ \E i \in ToSet(pending') :
                         targets[i] < targets'[i] /\ targets'[i] <= Full(i)
                    /\ \A i \in Texts : targets[i] <= targets'[i]
  BY DEF RoundWidens
<1>0. \A i \in ToSet(pending) : i \in Texts /\ targets[i] \in Nat /\ Full(i) \in Nat
  BY Shapes
<1>a. \A i \in ToSet(pending) : copied[i] < Full(i) =>
        /\ targets[i] < GrowTarget(targets[i], Full(i))
        /\ GrowTarget(targets[i], Full(i)) <= Full(i)
  BY <1>0, GrowWidens DEF WindowBounds
<1>1. CASE WidenInvalid
  <2>1. Blamed \in ToSet(pending) /\ Blamed \in Texts
    BY <1>0, <1>1 DEF WidenInvalid, Blamed, TypeOK, ToSet
  <2>2. targets' = [targets EXCEPT ![Blamed] = GrowTarget(@, Full(Blamed))]
        /\ pending' = pending /\ copied[Blamed] < Full(Blamed)
    BY <1>1 DEF WidenInvalid
  <2>3. \A i \in Texts : targets'[i] =
          IF i = Blamed THEN GrowTarget(targets[i], Full(i)) ELSE targets[i]
    BY <2>1, <2>2 DEF TypeOK
  <2>4. \A i \in Texts : targets[i] \in Nat
    BY DEF TypeOK
  <2> HIDE DEF Blamed
  <2>5. targets[Blamed] < targets'[Blamed] /\ targets'[Blamed] <= Full(Blamed)
    BY <1>a, <2>1, <2>2, <2>3
  <2>6. \A i \in Texts : targets[i] <= targets'[i]
    <3> TAKE i \in Texts
    <3>1. CASE i = Blamed
      <4>1. targets'[i] \in Nat
        BY <1>0, <2>1, <2>3, <3>1, GrowWidens
      <4> QED
        BY <2>4, <2>5, <3>1, <4>1
    <3>2. CASE i # Blamed
      BY <2>3, <2>4, <3>2
    <3> QED
      BY <3>1, <3>2
  <2> QED
    BY <2>1, <2>2, <2>5, <2>6
<1>2. CASE Settle
  <2>1. \A i \in Texts : targets'[i] =
          IF i \in ToSet(pending) /\ TooShort(i)
          THEN GrowTarget(targets[i], Full(i)) ELSE targets[i]
    BY <1>2 DEF Settle
  <2>2. PICK n \in 0 .. Len(pending) :
          /\ pending' \in [1 .. n -> Texts]
          /\ ToSet(pending') = {i \in ToSet(pending) : TooShort(i)}
    BY <1>2 DEF Settle
  <2>3. \A i \in ToSet(pending') :
          i \in ToSet(pending) /\ i \in Texts /\ TooShort(i) /\ copied[i] < Full(i)
    BY <1>0, <2>2 DEF TooShort
  <2>4. ToSet(pending') # {}
    <3>1. n # 0
      BY <2>2
    <3>2. 1 \in 1 .. n
      BY <3>1
    <3> QED
      BY <2>2, <3>2 DEF ToSet
  <2>5. \A i \in ToSet(pending') : targets[i] < targets'[i] /\ targets'[i] <= Full(i)
    BY <1>a, <2>1, <2>3
  <2>6. \A i \in Texts : targets[i] <= targets'[i]
    <3> TAKE i \in Texts
    <3>1. CASE i \in ToSet(pending) /\ TooShort(i)
      <4>1. copied[i] < Full(i)
        BY <3>1 DEF TooShort
      <4>2. GrowTarget(targets[i], Full(i)) \in Nat
        BY <1>0, <3>1, GrowWidens
      <4> QED
        BY <1>0, <1>a, <2>1, <3>1, <4>1, <4>2
    <3>2. CASE ~(i \in ToSet(pending) /\ TooShort(i))
      BY <2>1, <3>2 DEF TypeOK
    <3> QED
      BY <3>1, <3>2
  <2> QED
    BY <2>4, <2>5, <2>6
<1>3. CASE Resolve \/ RunJob \/ Raise \/ Finish \/ Over \/ UNCHANGED vars
  BY <1>3 DEF Resolve, RunJob, Raise, Finish, Over, vars
<1> QED
  BY <1>1, <1>2, <1>3 DEF Next

(* Every round that runs again widens the slice of a text it runs, never    *)
(* beyond the text: embed_texts_internal cannot go round for ever.          *)
THEOREM RoundsWiden == Spec => EveryRoundWidens
<1>1. TypeOK /\ WindowBounds /\ [Next]_vars => [RoundWidens]_vars
  BY StepWidens
<1>2. Spec => [][RoundWidens]_vars
  BY <1>1, TypeCorrect, WindowBoundsHolds, PTL DEF Spec
<1> QED
  BY <1>2 DEF EveryRoundWidens, RoundWidens
-----------------------------------------------------------------------------
(* States of the tokenizer *)

(* s is a record with the fields of a state. *)
State(s) ==
  /\ s = [at |-> s.at, ids |-> s.ids, unk |-> s.unk, seg |-> s.seg,
          truncated |-> s.truncated, bad |-> s.bad]
  /\ s.at \in Nat /\ s.truncated \in BOOLEAN /\ s.bad \in BOOLEAN

(* r is s after ids were added or cut off. *)
Same(s, r) ==
  /\ State(r) /\ r.at = s.at /\ r.bad = s.bad
  /\ s.truncated => r.truncated

LEMMA StartState == State(Start) /\ Start.at = 0 /\ ~Start.truncated /\ ~Start.bad
BY DEF State, Start

LEMMA CapKeeps ==
  ASSUME NEW s, State(s), NEW m, NEW u
  PROVE  Same(s, CapAfterAppend(s, m, u)) /\ CapAfterAppend(s, m, u).seg = s.seg
<1> DEFINE r == CapAfterAppend(s, m, u)
<1>1. CASE m = 0 \/ LimitedCount(s, u) <= m
  BY <1>1 DEF CapAfterAppend, Same
<1>2. CASE ~(m = 0 \/ LimitedCount(s, u) <= m)
  <2>1. ASSUME NEW ids, NEW unk,
               r = [s EXCEPT !.ids = ids, !.unk = unk, !.truncated = TRUE]
        PROVE  Same(s, r) /\ r.seg = s.seg
    <3> HIDE DEF r
    <3> QED BY <2>1 DEF State, Same
  <2>2. CASE ~u \/ ~DropUnk
    BY <1>2, <2>1, <2>2 DEF CapAfterAppend
  <2>3. CASE ~(~u \/ ~DropUnk)
    BY <1>2, <2>1, <2>3 DEF CapAfterAppend
  <2> QED BY <2>2, <2>3
<1> QED BY <1>1, <1>2

LEMMA AppendKeeps ==
  ASSUME NEW s, State(s), NEW ids, NEW m, NEW u
  PROVE  /\ Same(s, Append1(s, ids, m, u)) /\ Append1(s, ids, m, u).seg = s.seg
         /\ Same(s, AppendUncapped(s, ids, m, u)) /\ AppendUncapped(s, ids, m, u).seg = s.seg
         /\ s.truncated => AppendUncapped(s, ids, m, u) = s
<1> DEFINE n == s.unk + Unknowns(ids)
           l == s.ids \o ids
           r == [s EXCEPT !.ids = l, !.unk = n]
<1>1. Same(s, r) /\ r.seg = s.seg
  <2>1. ASSUME NEW ids2, NEW unk2, NEW q, q = [s EXCEPT !.ids = ids2, !.unk = unk2]
        PROVE  Same(s, q) /\ q.seg = s.seg
    BY <2>1 DEF State, Same
  <2> QED BY <2>1
<1>2. Append1(s, ids, m, u) = CapAfterAppend(r, m, u)
  BY DEF Append1
<1> HIDE DEF r
<1>3. Same(r, CapAfterAppend(r, m, u)) /\ CapAfterAppend(r, m, u).seg = r.seg
  BY <1>1, CapKeeps DEF Same
<1>4. Same(s, Append1(s, ids, m, u)) /\ Append1(s, ids, m, u).seg = s.seg
  BY <1>1, <1>2, <1>3 DEF Same
<1>5. Same(s, s)
  BY DEF Same
<1> QED BY <1>4, <1>5 DEF AppendUncapped

LEMMA FlushKeeps ==
  ASSUME NEW s, State(s), NEW m, NEW u
  PROVE  /\ Same(s, Flush(s, m, u)) /\ Flush(s, m, u).seg = <<>>
         /\ s.seg = <<>> => Flush(s, m, u) = s
<1>1. CASE s.seg = <<>>
  BY <1>1 DEF Flush, Same
<1>2. CASE s.seg # <<>>
  <2> DEFINE r == Append1(s, WordPiece(s.seg), m, u)
  <2>1. Same(s, r)
    BY AppendKeeps
  <2>2. Flush(s, m, u) = [r EXCEPT !.seg = <<>>]
    BY <1>2 DEF Flush
  <2> HIDE DEF r
  <2>3. State([r EXCEPT !.seg = <<>>]) /\ [r EXCEPT !.seg = <<>>].at = r.at
        /\ [r EXCEPT !.seg = <<>>].bad = r.bad /\ [r EXCEPT !.seg = <<>>].seg = <<>>
        /\ [r EXCEPT !.seg = <<>>].truncated = r.truncated
    BY <2>1 DEF State, Same
  <2> QED BY <1>2, <2>1, <2>2, <2>3 DEF Same
<1> QED BY <1>1, <1>2

(* A state the tokenizer stopped at stays; a break closes the open word. *)
LEMMA FeedKeeps ==
  ASSUME NEW s, State(s), NEW cp, NEW m, NEW u
  PROVE  /\ Same(s, Feed(s, cp, m, u))
         /\ s.truncated => Feed(s, cp, m, u) = s
         /\ ~s.truncated /\ cp \in Space \cup Punct => Feed(s, cp, m, u).seg = <<>>
         /\ ~s.truncated /\ cp \in Space => Feed(s, cp, m, u) = Flush(s, m, u)
<1>1. CASE s.truncated
  BY <1>1 DEF Feed, Same
<1>2. CASE ~s.truncated /\ cp \in Space
  BY <1>2, FlushKeeps DEF Feed
<1>3. CASE ~s.truncated /\ cp \notin Space /\ cp \in Punct
  <2> DEFINE f == Flush(s, m, u)
  <2>1. Same(s, f) /\ f.seg = <<>>
    BY FlushKeeps
  <2>2. Feed(s, cp, m, u) = AppendUncapped(f, WordPiece(<<cp>>), m, u)
    BY <1>3 DEF Feed
  <2> HIDE DEF f
  <2>3. State(f)
    BY <2>1 DEF Same
  <2>4. Same(f, Feed(s, cp, m, u)) /\ Feed(s, cp, m, u).seg = <<>>
    BY <2>1, <2>2, <2>3, AppendKeeps
  <2> QED BY <1>3, <2>1, <2>4 DEF Same
<1>4. CASE ~s.truncated /\ cp \notin Space \cup Punct
  <2> DEFINE g == Append(s.seg, cp)
  <2>1. Feed(s, cp, m, u) = [s EXCEPT !.seg = g]
    BY <1>4 DEF Feed
  <2> HIDE DEF g
  <2>2. State([s EXCEPT !.seg = g]) /\ [s EXCEPT !.seg = g].at = s.at
        /\ [s EXCEPT !.seg = g].bad = s.bad /\ [s EXCEPT !.seg = g].truncated = s.truncated
    BY DEF State
  <2> QED BY <1>4, <2>1, <2>2 DEF Same
<1> QED BY <1>1, <1>2, <1>3, <1>4

-----------------------------------------------------------------------------
(* What one code point feeds *)

IsFold(g, s, cps, m, u) ==
  g = [S \in SUBSET (DOMAIN cps) |->
         IF S = {} THEN s ELSE Feed(g[S \ {Max(S)}], cps[Max(S)], m, u)]

LEMMA FeedAllIsFold ==
  ASSUME NEW s, NEW cps, NEW m, NEW u, \E g : IsFold(g, s, cps, m, u)
  PROVE  \E g : IsFold(g, s, cps, m, u) /\ FeedAll(s, cps, m, u) = g[DOMAIN cps]
<1> DEFINE h == CHOOSE g : IsFold(g, s, cps, m, u)
<1>1. IsFold(h, s, cps, m, u)
  OBVIOUS
<1>2. FeedAll(s, cps, m, u) = h[DOMAIN cps]
  BY DEF FeedAll, FoldLeft, MapThenFoldSet, IsFold
<1> QED BY <1>1, <1>2

LEMMA FoldExists ==
  ASSUME NEW s, NEW cps, Len(cps) \in Nat, DOMAIN cps = 1 .. Len(cps), NEW m, NEW u
  PROVE  \E g : IsFold(g, s, cps, m, u)
<1> DEFINE D == DOMAIN cps
           Turn(g) == [S \in SUBSET D |->
                         IF S = {} THEN s ELSE Feed(g[S \ {Max(S)}], cps[Max(S)], m, u)]
           Upto(g, n) == \A S \in SUBSET D : S \subseteq 1 .. n => g[S] = Turn(g)[S]
           P == {n \in Nat : \E g : Upto(g, n)}
<1>m. ASSUME NEW n \in Nat, NEW S \in SUBSET D, S \subseteq 1 .. n + 1, S # {}
      PROVE  S \ {Max(S)} \in SUBSET D /\ S \ {Max(S)} \subseteq 1 .. n
  <2>1. n + 1 \in Nat /\ S # {} /\ \A x \in S : x \in 0 .. n + 1
    BY <1>m
  <2>2. Max(S) \in S /\ \A x \in S : x <= Max(S)
    BY <2>1, MaxOfNat
  <2> DEFINE top == Max(S)
  <2> HIDE DEF top
  <2>3. top \in S /\ \A x \in S : x <= top
    BY <2>2 DEF top
  <2>4. \A x \in S : x \in 1 .. n + 1
    BY <1>m
  <2>5. \A x \in S \ {top} : x \in 1 .. n
    BY <2>3, <2>4
  <2>6. S \ {top} \in SUBSET D
    OBVIOUS
  <2> QED BY <2>5, <2>6 DEF top
<1>n. ASSUME NEW g, NEW n \in Nat, Upto(g, n)
      PROVE  \A S \in SUBSET D : S \subseteq 1 .. n + 1 => Turn(g)[S] = Turn(Turn(g))[S]
  <2> TAKE S \in SUBSET D
  <2> HAVE S \subseteq 1 .. n + 1
  <2>1. CASE S = {}
    BY <2>1
  <2>2. CASE S # {}
    <3> DEFINE r == S \ {Max(S)}
    <3>1. r \in SUBSET D /\ r \subseteq 1 .. n
      BY <1>m, <2>2
    <3>2. g[r] = Turn(g)[r]
      BY <3>1, <1>n
    <3> QED BY <2>2, <3>2
  <2> QED BY <2>1, <2>2
<1>1. 0 \in P
  <2> DEFINE z == [S \in SUBSET D |-> s]
  <2>1. Upto(z, 0)
    <3> SUFFICES ASSUME NEW S \in SUBSET D, S \subseteq 1 .. 0 PROVE z[S] = Turn(z)[S]
      OBVIOUS
    <3>1. S = {}
      OBVIOUS
    <3> QED BY <3>1
  <2> QED BY <2>1
<1>2. \A n \in P : n + 1 \in P
  <2> TAKE n \in P
  <2>1. PICK g : Upto(g, n)
    OBVIOUS
  <2>2. Upto(Turn(g), n + 1)
    BY <1>n, <2>1
  <2> HIDE DEF Turn, Upto
  <2>3. \E k : Upto(k, n + 1)
    BY <2>2, Zenon
  <2> QED BY <2>3
<1>3. P = Nat
  <2> HIDE DEF P
  <2>1. P \in SUBSET Nat
    BY DEF P
  <2> QED BY <2>1, <1>1, <1>2, NatInduct
<1>4. PICK g : Upto(g, Len(cps))
  BY <1>3
<1>6. Turn(g) = Turn(Turn(g))
  <2>1. \A S \in SUBSET D : S \subseteq 1 .. Len(cps) + 1
    OBVIOUS
  <2>2. \A S \in SUBSET D : Turn(g)[S] = Turn(Turn(g))[S]
    BY <1>4, <1>n, <2>1
  <2> QED BY <2>2
<1> QED BY <1>6 DEF IsFold

(* The states in between, one a code point *)
Fed(f, s, cps, m, u) ==
  f[0] = s /\ \A k \in 1 .. Len(cps) : f[k] = Feed(f[k - 1], cps[k], m, u)

LEMMA FeedAllIs ==
  ASSUME NEW s, NEW cps, Len(cps) \in Nat, DOMAIN cps = 1 .. Len(cps), NEW m, NEW u
  PROVE  \E f : Fed(f, s, cps, m, u) /\ FeedAll(s, cps, m, u) = f[Len(cps)]
<1>1. PICK g : IsFold(g, s, cps, m, u) /\ FeedAll(s, cps, m, u) = g[DOMAIN cps]
  BY FoldExists, FeedAllIsFold
<1> DEFINE D == DOMAIN cps
           f == [k \in 0 .. Len(cps) |-> g[1 .. k]]
<1>g. \A S \in SUBSET D :
        g[S] = IF S = {} THEN s ELSE Feed(g[S \ {Max(S)}], cps[Max(S)], m, u)
  BY <1>1 DEF IsFold
<1>2. f[0] = s
  <2>1. 1 .. 0 = {} /\ 0 \in 0 .. Len(cps)
    OBVIOUS
  <2>2. g[{}] = s
    BY <1>g
  <2> QED BY <2>1, <2>2
<1>3. ASSUME NEW k \in 1 .. Len(cps)
      PROVE  f[k] = Feed(f[k - 1], cps[k], m, u)
  <2>1. Max(1 .. k) = k
    <3> DEFINE S == 1 .. k
    <3>1. k \in Nat /\ k \in S /\ S # {} /\ \A x \in S : x \in 0 .. k
      OBVIOUS
    <3>2. \A x \in S : x \in Nat /\ x <= k
      OBVIOUS
    <3> HIDE DEF S
    <3>3. Max(S) \in S /\ \A x \in S : x <= Max(S)
      BY <3>1, MaxOfNat
    <3>4. Max(S) \in Nat /\ Max(S) <= k /\ k <= Max(S) /\ k \in Nat
      BY <3>1, <3>2, <3>3
    <3>5. Max(S) = k
      BY <3>4
    <3> QED BY <3>5 DEF S
  <2>2. (1 .. k) \ {k} = 1 .. k - 1
    OBVIOUS
  <2>3. 1 .. k \in SUBSET D /\ 1 .. k # {}
    <3>1. \A x \in 1 .. k : x \in D
      OBVIOUS
    <3>2. k \in 1 .. k
      OBVIOUS
    <3> QED BY <3>1, <3>2
  <2>4. g[1 .. k] = Feed(g[1 .. k - 1], cps[k], m, u)
    BY <1>g, <2>1, <2>2, <2>3
  <2> QED BY <2>4
<1>4. f[Len(cps)] = g[DOMAIN cps]
  OBVIOUS
<1>5. Fed(f, s, cps, m, u)
  BY <1>2, <1>3 DEF Fed
<1> QED BY <1>1, <1>4, <1>5

(* From the first to the last of them *)
LEMMA FedKeeps ==
  ASSUME NEW s, State(s), NEW cps, Len(cps) \in Nat, NEW m, NEW u, NEW f, Fed(f, s, cps, m, u),
         NEW j \in 0 .. Len(cps)
  PROVE  \A k \in j .. Len(cps) :
           /\ Same(s, f[j]) /\ Same(f[j], f[k])
           /\ f[j].truncated => f[k] = f[j]
<1> DEFINE P == {n \in Nat : n <= Len(cps) =>
                   \A i \in 0 .. n : /\ Same(s, f[i]) /\ Same(f[i], f[n])
                                     /\ f[i].truncated => f[n] = f[i]}
<1>1. 0 \in P
  BY DEF Fed, Same
<1>2. ASSUME NEW n \in P PROVE n + 1 \in P
  <2> SUFFICES ASSUME n + 1 <= Len(cps), NEW i \in 0 .. n + 1
               PROVE  /\ Same(s, f[i]) /\ Same(f[i], f[n + 1])
                      /\ f[i].truncated => f[n + 1] = f[i]
    OBVIOUS
  <2>1. f[n + 1] = Feed(f[n], cps[n + 1], m, u)
    <3>1. n + 1 \in 1 .. Len(cps) /\ n + 1 - 1 = n
      OBVIOUS
    <3> QED BY <3>1 DEF Fed
  <2>2. n \in 0 .. n /\ n <= Len(cps)
    OBVIOUS
  <2>3. Same(s, f[n])
    BY <2>2
  <2>4. State(f[n])
    BY <2>3 DEF Same
  <2>5. Same(f[n], f[n + 1]) /\ (f[n].truncated => f[n + 1] = f[n])
    BY <2>1, <2>4, FeedKeeps
  <2>6. Same(s, f[n + 1]) /\ Same(f[n + 1], f[n + 1])
    BY <2>3, <2>5 DEF Same
  <2>7. CASE i = n + 1
    BY <2>6, <2>7
  <2>8. CASE i \in 0 .. n
    <3>1. Same(s, f[i]) /\ Same(f[i], f[n]) /\ (f[i].truncated => f[n] = f[i])
      BY <2>2, <2>8
    <3> QED BY <2>5, <3>1 DEF Same
  <2> QED BY <2>7, <2>8
<1>3. P = Nat
  <2> HIDE DEF P
  <2>1. P \in SUBSET Nat
    BY DEF P
  <2> QED BY <2>1, <1>1, <1>2, NatInduct
<1> QED BY <1>3

LEMMA FeedAllKeeps ==
  ASSUME NEW s, State(s), NEW cps \in Seq(CodePoints), NEW m, NEW u
  PROVE  /\ Same(s, FeedAll(s, cps, m, u))
         /\ s.truncated => FeedAll(s, cps, m, u) = s
<1>1. Len(cps) \in Nat /\ DOMAIN cps = 1 .. Len(cps)
  OBVIOUS
<1>2. PICK f : Fed(f, s, cps, m, u) /\ FeedAll(s, cps, m, u) = f[Len(cps)]
  BY <1>1, FeedAllIs
<1>3. 0 \in 0 .. Len(cps) /\ Len(cps) \in 0 .. Len(cps) /\ f[0] = s
  BY <1>1, <1>2 DEF Fed
<1>4. Same(f[0], f[Len(cps)]) /\ (f[0].truncated => f[Len(cps)] = f[0])
  BY <1>1, <1>2, <1>3, FedKeeps
<1> QED BY <1>2, <1>3, <1>4

(* A break at the end leaves no open word. *)
LEMMA FeedAllCloses ==
  ASSUME NEW s, State(s), NEW cps \in Seq(CodePoints), Len(cps) > 0,
         cps[Len(cps)] \in Space \cup Punct, NEW m, NEW u
  PROVE  FeedAll(s, cps, m, u).truncated \/ FeedAll(s, cps, m, u).seg = <<>>
<1>1. Len(cps) \in Nat /\ DOMAIN cps = 1 .. Len(cps)
  OBVIOUS
<1>2. PICK f : Fed(f, s, cps, m, u) /\ FeedAll(s, cps, m, u) = f[Len(cps)]
  BY <1>1, FeedAllIs
<1> DEFINE n == Len(cps)
<1>3. n - 1 \in 0 .. n /\ n \in 1 .. n
  BY <1>1
<1>4. State(f[n - 1])
  <2>1. Same(s, f[n - 1])
    BY <1>1, <1>2, <1>3, FedKeeps
  <2> QED BY <2>1 DEF Same
<1>5. f[n] = Feed(f[n - 1], cps[n], m, u)
  BY <1>2, <1>3 DEF Fed
<1>6. CASE f[n - 1].truncated
  BY <1>2, <1>4, <1>5, <1>6, FeedKeeps
<1>7. CASE ~f[n - 1].truncated
  BY <1>2, <1>4, <1>5, <1>7, FeedKeeps
<1> QED BY <1>6, <1>7

(* A space at the beginning closes the word that is open; nothing follows  *)
(* if that reaches the cap.                                                *)
LEMMA FeedAllFlushes ==
  ASSUME NEW s, State(s), NEW cps \in Seq(CodePoints), Len(cps) > 0,
         cps[1] \in Space, NEW m, NEW u, ~s.truncated, Flush(s, m, u).truncated
  PROVE  FeedAll(s, cps, m, u) = Flush(s, m, u)
<1>1. Len(cps) \in Nat /\ DOMAIN cps = 1 .. Len(cps)
  OBVIOUS
<1>2. PICK f : Fed(f, s, cps, m, u) /\ FeedAll(s, cps, m, u) = f[Len(cps)]
  BY <1>1, FeedAllIs
<1>3. 1 \in 0 .. Len(cps) /\ 1 \in 1 .. Len(cps) /\ Len(cps) \in 1 .. Len(cps)
  BY <1>1
<1>4. f[1] = Flush(s, m, u)
  <2>1. f[0] = s /\ f[1] = Feed(f[1 - 1], cps[1], m, u)
    BY <1>2, <1>3 DEF Fed
  <2>2. f[1] = Feed(s, cps[1], m, u)
    BY <2>1
  <2> QED BY <2>2, FeedKeeps
<1>5. f[Len(cps)] = f[1]
  BY <1>1, <1>2, <1>3, <1>4, FedKeeps
<1> QED BY <1>2, <1>4, <1>5

-----------------------------------------------------------------------------
(* What a code point is cleaned to *)

LEMMA FlattenIn ==
  ASSUME NEW X, NEW seqs \in Seq(Seq(X))
  PROVE  FlattenSeq(seqs) \in Seq(X)
<1> DEFINE D == 1 .. Len(seqs)
           Turn(g) == [i \in D |-> IF i = 1 THEN seqs[i] ELSE g[i - 1] \o seqs[i]]
           Upto(g, n) == \A i \in D : i <= n => g[i] = Turn(g)[i] /\ g[i] \in Seq(X)
           P == {n \in Nat : \E g : Upto(g, n)}
<1>0. Len(seqs) \in Nat /\ \A i \in D : seqs[i] \in Seq(X)
  OBVIOUS
<1>n. ASSUME NEW g, NEW n \in Nat, Upto(g, n)
      PROVE  \A i \in D : i <= n + 1 =>
               Turn(g)[i] = Turn(Turn(g))[i] /\ Turn(g)[i] \in Seq(X)
  <2> TAKE i \in D
  <2> HAVE i <= n + 1
  <2>1. CASE i = 1
    BY <1>0, <2>1
  <2>2. CASE i # 1
    <3>1. i - 1 \in D /\ i - 1 <= n
      BY <2>2
    <3>2. g[i - 1] = Turn(g)[i - 1] /\ g[i - 1] \in Seq(X)
      BY <3>1, <1>n
    <3>3. Turn(g)[i] = g[i - 1] \o seqs[i] /\ Turn(Turn(g))[i] = Turn(g)[i - 1] \o seqs[i]
      BY <2>2
    <3> HIDE DEF Turn
    <3> QED BY <1>0, <3>2, <3>3
  <2> QED BY <2>1, <2>2
<1>1. 0 \in P
  <2> DEFINE z == [i \in D |-> <<>>]
  <2>1. Upto(z, 0)
    OBVIOUS
  <2> QED BY <2>1
<1>2. \A n \in P : n + 1 \in P
  <2> TAKE n \in P
  <2>1. PICK g : Upto(g, n)
    OBVIOUS
  <2>2. Upto(Turn(g), n + 1)
    BY <1>n, <2>1
  <2> HIDE DEF Turn, Upto
  <2>3. \E k : Upto(k, n + 1)
    BY <2>2, Zenon
  <2> QED BY <2>3
<1>3. P = Nat
  <2> HIDE DEF P
  <2>1. P \in SUBSET Nat
    BY DEF P
  <2> QED BY <2>1, <1>1, <1>2, NatInduct
<1>4. PICK g : Upto(g, Len(seqs))
  BY <1>0, <1>3
<1> DEFINE IsFlat(h) == h = [i \in D |-> IF i = 1 THEN seqs[i] ELSE h[i - 1] \o seqs[i]]
           flat == CHOOSE h : IsFlat(h)
<1>5. IsFlat(Turn(g))
  <2>0. \A i \in D : i <= Len(seqs) + 1
    BY <1>0
  <2>1. \A i \in D : Turn(g)[i] = Turn(Turn(g))[i]
    <3> HIDE DEF Turn, D
    <3> QED BY <2>0, <1>0, <1>4, <1>n
  <2>2. Turn(g) = Turn(Turn(g))
    BY <2>1
  <2> QED BY <2>2
<1>6. IsFlat(flat)
  <2> HIDE DEF Turn, IsFlat
  <2> QED BY <1>5
<1>7. FlattenSeq(seqs) = IF Len(seqs) = 0 THEN seqs ELSE flat[Len(seqs)]
  BY DEF FlattenSeq
<1> HIDE DEF flat
<1> DEFINE Q == {n \in Nat : n + 1 \in D => flat[n + 1] \in Seq(X)}
<1>8. 0 \in Q
  BY <1>0, <1>6
<1>9. ASSUME NEW n \in Q PROVE n + 1 \in Q
  <2> SUFFICES ASSUME n + 1 + 1 \in D PROVE flat[n + 1 + 1] \in Seq(X)
    OBVIOUS
  <2>1. n + 1 \in D /\ n + 1 + 1 # 1 /\ n + 1 + 1 - 1 = n + 1
    OBVIOUS
  <2>2. \A i \in D : i # 1 => flat[i] = flat[i - 1] \o seqs[i]
    BY <1>6
  <2> DEFINE k == n + 1 + 1
  <2>3. k \in D /\ k # 1 /\ k - 1 = n + 1
    BY <2>1
  <2> HIDE DEF k
  <2>4. flat[k] = flat[n + 1] \o seqs[k]
    BY <2>2, <2>3
  <2>5. flat[n + 1] \in Seq(X) /\ seqs[k] \in Seq(X)
    BY <1>0, <2>1, <2>3
  <2>6. flat[k] \in Seq(X)
    BY <2>4, <2>5
  <2> QED BY <2>6 DEF k
<1>10. Q = Nat
  <2> HIDE DEF Q
  <2>1. Q \in SUBSET Nat
    BY DEF Q
  <2> QED BY <2>1, <1>8, <1>9, NatInduct
<1>11. CASE Len(seqs) = 0
  <2>1. seqs = <<>>
    BY <1>11
  <2> QED BY <1>7, <1>11, <2>1
<1>12. CASE Len(seqs) # 0
  <2>1. Len(seqs) - 1 \in Nat /\ Len(seqs) - 1 + 1 = Len(seqs) /\ Len(seqs) \in D
    BY <1>0, <1>12
  <2>2. flat[Len(seqs)] \in Seq(X)
    BY <1>10, <2>1
  <2> QED BY <1>7, <1>12, <2>2
<1> QED BY <1>11, <1>12

LEMMA BlankIn == Blank \in CodePoints /\ Blank \in Space
BY TablesAssumption

LEMMA CleanedIn ==
  ASSUME NEW cp \in CodePoints
  PROVE  Stripped(cp) \in Seq(CodePoints) /\ Cleaned(cp) \in Seq(CodePoints)
<1>1. \A c \in CodePoints : Lowered(c) \in Seq(CodePoints)
  BY TablesAssumption DEF Lowered
<1>2. <<>> \in Seq(CodePoints)
  OBVIOUS
<1>3. Stripped(cp) \in Seq(CodePoints)
  <2>1. CASE cp \in DOMAIN Nfd
    <3> DEFINE seqs == [k \in DOMAIN Nfd[cp] |->
                          IF Nfd[cp][k] \in Mark THEN <<>> ELSE Lowered(Nfd[cp][k])]
    <3>1. Nfd[cp] \in Seq(CodePoints)
      BY <2>1, TablesAssumption
    <3>2. \A k \in DOMAIN Nfd[cp] : Nfd[cp][k] \in CodePoints
      BY <3>1
    <3>3. \A k \in DOMAIN Nfd[cp] : seqs[k] \in Seq(CodePoints)
      BY <1>1, <1>2, <3>2
    <3>4. DOMAIN Nfd[cp] = 1 .. Len(Nfd[cp]) /\ Len(Nfd[cp]) \in Nat
      BY <3>1
    <3>5. seqs \in Seq(Seq(CodePoints))
      <4>1. DOMAIN seqs = 1 .. Len(Nfd[cp]) /\ seqs = [k \in 1 .. Len(Nfd[cp]) |-> seqs[k]]
        BY <3>4
      <4> HIDE DEF seqs
      <4> QED BY <3>3, <3>4, <4>1
    <3>6. Stripped(cp) = FlattenSeq(seqs)
      BY <2>1 DEF Stripped
    <3> QED BY <3>5, <3>6, FlattenIn
  <2>2. CASE cp \notin DOMAIN Nfd
    BY <1>1, <1>2, <2>2 DEF Stripped
  <2> QED BY <2>1, <2>2
<1>4. <<Blank>> \in Seq(CodePoints)
  BY BlankIn
<1> QED BY <1>2, <1>3, <1>4 DEF Cleaned

(* A code point to cut behind ends in a break; a CJK one begins with one. *)
LEMMA BreakCleaned ==
  ASSUME NEW cp \in (Cjk \cup Space \cup Punct) \ Control, Stable(cp)
  PROVE  /\ Cleaned(cp) \in Seq(CodePoints) /\ Len(Cleaned(cp)) > 0
         /\ Cleaned(cp)[Len(Cleaned(cp))] \in Space \cup Punct
         /\ cp \in Cjk => Cleaned(cp)[1] \in Space
<1>1. cp \in CodePoints /\ cp \notin Control
  BY TablesAssumption
<1>2. Stripped(cp) \in Seq(CodePoints) /\ Cleaned(cp) \in Seq(CodePoints)
  BY <1>1, CleanedIn
<1>3. CASE cp \in Space
  BY <1>1, <1>2, <1>3, BlankIn DEF Cleaned
<1>4. CASE cp \notin Space /\ cp \in Cjk
  <2> DEFINE w == Stripped(cp)
             c == <<Blank>> \o w \o <<Blank>>
  <2>1. Cleaned(cp) = c
    BY <1>1, <1>4 DEF Cleaned
  <2>2. w \in Seq(CodePoints)
    BY <1>2
  <2> HIDE DEF w
  <2>3. Len(c) = Len(w) + 2 /\ c[1] = Blank /\ c[Len(w) + 2] = Blank /\ Len(w) \in Nat
    BY <2>2, BlankIn
  <2> HIDE DEF c
  <2> QED BY <1>2, <2>1, <2>3, BlankIn
<1>5. CASE cp \notin Space /\ cp \notin Cjk
  <2>1. cp \notin DOMAIN Lower \cup DOMAIN Nfd \cup Mark
    BY <1>5, TablesAssumption DEF Stable
  <2>2. Cleaned(cp) = <<cp>>
    BY <1>1, <1>5, <2>1 DEF Cleaned, Stripped, Lowered
  <2> QED BY <1>1, <1>5, <2>2
<1> QED BY <1>3, <1>4, <1>5

-----------------------------------------------------------------------------
(* One turn of the loop *)

AddedAt(text, n) == {t \in DOMAIN Added : StartsWith(text, n, t)}
Goes(text, s) == State(s) /\ ~s.truncated /\ ~s.bad /\ s.at < Len(text)

LEMMA StepStops ==
  ASSUME NEW text, NEW s, NEW m, NEW u, s.truncated \/ s.bad \/ s.at = Len(text)
  PROVE  Step(text, s, m, u) = s
BY DEF Step

LEMMA StepAdded ==
  ASSUME NEW text \in ByteSeq, NEW s, Goes(text, s), NEW m, NEW u, AddedAt(text, s.at) # {}
  PROVE  LET r == Step(text, s, m, u)
         IN /\ State(r) /\ r.at > s.at /\ r.at <= Len(text) /\ ~r.bad
            /\ r.seg = <<>>
<1> DEFINE t == CHOOSE t \in AddedAt(text, s.at) : TRUE
           f == Flush(s, m, u)
           a == AppendUncapped(f, <<Added[t]>>, m, u)
           r == [a EXCEPT !.at = @ + Len(t)]
<1>1. Step(text, s, m, u) = r
  BY DEF Step, Goes, AddedAt
<1>2. t \in DOMAIN Added /\ StartsWith(text, s.at, t)
  BY DEF AddedAt
<1>3. Len(t) \in Nat /\ Len(t) > 0 /\ s.at + Len(t) <= Len(text) /\ s.at \in Nat
  BY <1>2, TablesAssumption DEF StartsWith, Goes, State
<1> HIDE DEF t
<1>4. Same(s, f) /\ f.seg = <<>>
  BY FlushKeeps DEF Goes
<1> HIDE DEF f
<1>5. Same(f, a) /\ a.seg = <<>>
  BY <1>4, AppendKeeps DEF Same
<1>6. State(a) /\ a.at = s.at /\ ~a.bad
  BY <1>4, <1>5 DEF Same, Goes
<1> HIDE DEF a
<1>7. State(r) /\ r.at = a.at + Len(t) /\ r.bad = a.bad /\ r.seg = a.seg
  BY <1>3, <1>6 DEF State
<1> HIDE DEF r
<1> QED BY <1>1, <1>3, <1>5, <1>6, <1>7

LEMMA StepBad ==
  ASSUME NEW text \in ByteSeq, NEW s, Goes(text, s), NEW m, NEW u,
         AddedAt(text, s.at) = {}, ~Decodes(text, s.at)
  PROVE  LET r == Step(text, s, m, u)
         IN State(r) /\ r.at = s.at /\ r.bad /\ ~r.truncated /\ r.ids = s.ids
<1>1. Step(text, s, m, u) = [s EXCEPT !.bad = TRUE]
  BY DEF Step, Goes, AddedAt
<1> QED BY <1>1 DEF Goes, State

LEMMA StepReads ==
  ASSUME NEW text \in ByteSeq, NEW s, Goes(text, s), NEW m, NEW u,
         AddedAt(text, s.at) = {}, Decodes(text, s.at)
  PROVE  LET r == Step(text, s, m, u)
             cp == text[s.at + 1]
             q == [s EXCEPT !.at = s.at + Width[cp]]
         IN /\ State(r) /\ r.at > s.at /\ r.at <= Len(text) /\ ~r.bad
            /\ r.at = s.at + Width[cp] /\ cp \in CodePoints
            /\ State(q) /\ q.ids = s.ids /\ q.seg = s.seg /\ ~q.truncated
            /\ r = FeedAll(q, Cleaned(cp), m, u)
<1> DEFINE cp == text[s.at + 1]
           q == [s EXCEPT !.at = s.at + Width[cp]]
           r == FeedAll(q, Cleaned(cp), m, u)
<1>1. Step(text, s, m, u) = r
  BY DEF Step, Goes, AddedAt
<1>2. cp \in CodePoints /\ s.at + Width[cp] <= Len(text)
  BY DEF Decodes
<1>3. Width[cp] \in Nat /\ Width[cp] > 0 /\ s.at \in Nat
  BY <1>2, TablesAssumption DEF Goes, State
<1> HIDE DEF cp
<1>4. State(q) /\ q.at = s.at + Width[cp] /\ q.bad = s.bad /\ q.truncated = s.truncated
      /\ q.ids = s.ids /\ q.seg = s.seg
  BY <1>3 DEF State, Goes
<1> HIDE DEF q
<1>5. Same(q, r)
  BY <1>2, <1>4, CleanedIn, FeedAllKeeps
<1> HIDE DEF r
<1>6. State(r) /\ r.at = s.at + Width[cp] /\ ~r.bad
  BY <1>4, <1>5 DEF Same, Goes
<1> QED BY <1>1, <1>2, <1>3, <1>4, <1>6 DEF cp, q, r, Goes

(* Every turn goes on in the text or stops. *)
LEMMA StepGoes ==
  ASSUME NEW text \in ByteSeq, NEW s, Goes(text, s), NEW m, NEW u
  PROVE  LET r == Step(text, s, m, u)
         IN /\ State(r) /\ r.at <= Len(text) /\ ~(r.bad /\ r.truncated)
            /\ r.bad \/ r.at > s.at
<1>1. Len(text) \in Nat /\ s.at < Len(text)
  BY DEF Goes, ByteSeq
<1>2. CASE AddedAt(text, s.at) # {}
  BY <1>2, StepAdded
<1>3. CASE AddedAt(text, s.at) = {} /\ Decodes(text, s.at)
  BY <1>3, StepReads
<1>4. CASE AddedAt(text, s.at) = {} /\ ~Decodes(text, s.at)
  BY <1>1, <1>4, StepBad DEF Goes, State
<1> QED BY <1>2, <1>3, <1>4

-----------------------------------------------------------------------------
(* Cuts *)

Breaks(text, p) ==
  /\ Decodes(text, p)
  /\ Stable(text[p + 1])
  /\ text[p + 1] \in Cjk \cup Space \cup Punct

(* Where the window may cut: behind a break, or before a CJK character. *)
IsCut(text, n) ==
  /\ n \in 1 .. Len(text) - 1
  /\ ~SplitsAdded(text, n)
  /\ \E p \in 0 .. n :
       /\ Breaks(text, p)
       /\ n = p + Width[text[p + 1]] \/ (n = p /\ text[p + 1] \in Cjk)

(* No code point that breaks is a control, which normalisation drops:      *)
(* U+0085 is the only one the tables of the converter make both.           *)
BreaksKept(text) ==
  \A k \in DOMAIN text : text[k] \notin (Cjk \cup Space \cup Punct) \cap Control

EveryBreakKept == \A b \in Batches : \A i \in DOMAIN b : BreaksKept(b[i])

LEMMA WidthIn ==
  ASSUME NEW cp \in CodePoints
  PROVE  Width[cp] \in Nat /\ Width[cp] > 0
BY TablesAssumption

LEMMA BreakKept ==
  ASSUME NEW text \in ByteSeq, BreaksKept(text), NEW p \in Nat, Breaks(text, p)
  PROVE  text[p + 1] \notin Control
<1>1. p + 1 \in DOMAIN text
  <2>1. p + Width[text[p + 1]] <= Len(text) /\ Width[text[p + 1]] \in Nat
        /\ Width[text[p + 1]] > 0
    BY WidthIn DEF Breaks, Decodes
  <2> QED BY <2>1 DEF ByteSeq
<1> QED BY <1>1 DEF BreaksKept, Breaks

LEMMA BoundaryIsCut ==
  ASSUME NEW text \in ByteSeq, NEW target \in Nat, NEW backscan \in Nat,
         target < Len(text), BoundaryLen(text, target, backscan) # 0
  PROVE  IsCut(text, BoundaryLen(text, target, backscan))
<1> DEFINE floor == IF target > backscan THEN target - backscan ELSE 0
           heads == {n \in floor .. target - 1 : text[n + 1] # Cont}
           ends == {n \in heads : ~Decodes(text, n) \/ Cut(text, n, target) # 0}
           p == Max(ends)
<1>0. Len(text) \in Nat
  BY DEF ByteSeq
<1>1. target # 0 /\ ends # {} /\ Decodes(text, p)
      /\ BoundaryLen(text, target, backscan) = Cut(text, p, target)
  BY <1>0 DEF BoundaryLen
<1>2. floor \in Nat /\ ends \in SUBSET (0 .. target)
  OBVIOUS
<1>3. p \in ends
  BY <1>1, <1>2, MaxOfNat
<1>4. p \in Nat /\ p < target
  BY <1>2, <1>3
<1> HIDE DEF p
<1> DEFINE cp == text[p + 1]
<1>5. Width[cp] \in Nat /\ Width[cp] > 0 /\ cp \in CodePoints
  BY <1>1, WidthIn DEF Decodes
<1>6. Cut(text, p, target) # 0
  BY <1>1
<1>7. CASE Stable(cp) /\ cp \in Cjk \cup Space \cup Punct /\ p + Width[cp] <= target
           /\ ~SplitsAdded(text, p + Width[cp])
  <2>1. Cut(text, p, target) = p + Width[cp]
    BY <1>7 DEF Cut
  <2>2. p + Width[cp] \in 1 .. Len(text) - 1 /\ p \in 0 .. p + Width[cp]
    BY <1>0, <1>4, <1>5, <1>7
  <2> QED BY <1>1, <1>7, <2>1, <2>2 DEF IsCut, Breaks
<1>8. CASE ~(Stable(cp) /\ cp \in Cjk \cup Space \cup Punct /\ p + Width[cp] <= target
             /\ ~SplitsAdded(text, p + Width[cp]))
  <2>1. Cut(text, p, target) =
          IF Stable(cp) /\ cp \in Cjk /\ ~SplitsAdded(text, p) THEN p ELSE 0
    BY <1>8 DEF Cut
  <2>2. Stable(cp) /\ cp \in Cjk /\ ~SplitsAdded(text, p) /\ Cut(text, p, target) = p /\ p # 0
    BY <1>6, <2>1
  <2>3. p \in 1 .. Len(text) - 1 /\ p \in 0 .. p
    BY <1>0, <1>4, <2>2
  <2> QED BY <1>1, <2>2, <2>3 DEF IsCut, Breaks
<1> QED BY <1>7, <1>8

-----------------------------------------------------------------------------
(* A slice and its text *)

LEMMA SliceSeq ==
  ASSUME NEW text \in ByteSeq, NEW n \in 0 .. Len(text)
  PROVE  /\ SubSeq(text, 1, n) \in ByteSeq /\ Len(SubSeq(text, 1, n)) = n
         /\ \A k \in 1 .. n : SubSeq(text, 1, n)[k] = text[k]
         /\ \A a, b \in Nat : a + b <= n =>
              SubSeq(SubSeq(text, 1, n), a + 1, a + b) = SubSeq(text, a + 1, a + b)
BY DEF ByteSeq

(* The same added tokens start before a cut in both. *)
LEMMA SliceAdded ==
  ASSUME NEW text \in ByteSeq, NEW n, IsCut(text, n), NEW a \in 0 .. n - 1
  PROVE  AddedAt(SubSeq(text, 1, n), a) = AddedAt(text, a)
<1> DEFINE slice == SubSeq(text, 1, n)
<1>1. Len(text) \in Nat /\ n \in 0 .. Len(text) /\ n \in 1 .. Len(text) - 1
  BY DEF IsCut, ByteSeq
<1>2. Len(slice) = n
      /\ \A i, b \in Nat : i + b <= n => SubSeq(slice, i + 1, i + b) = SubSeq(text, i + 1, i + b)
  BY <1>1, SliceSeq
<1> HIDE DEF slice
<1>3. ASSUME NEW t \in DOMAIN Added
      PROVE  StartsWith(slice, a, t) <=> StartsWith(text, a, t)
  <2>1. Len(t) \in Nat /\ a \in Nat
    BY TablesAssumption
  <2>2. CASE a + Len(t) <= n
    <3>1. SubSeq(slice, a + 1, a + Len(t)) = SubSeq(text, a + 1, a + Len(t))
      BY <1>2, <2>1, <2>2
    <3>2. a + Len(t) <= Len(slice) /\ a + Len(t) <= Len(text)
      BY <1>1, <1>2, <2>1, <2>2
    <3> QED BY <3>1, <3>2 DEF StartsWith
  <2>3. CASE a + Len(t) > n
    <3>1. ~StartsWith(slice, a, t)
      BY <1>1, <1>2, <2>1, <2>3 DEF StartsWith
    <3>2. n - a \in 1 .. Len(t) - 1 /\ n - a <= n /\ n - (n - a) = a
      BY <1>1, <2>1, <2>3
    <3>3. ~SplitsAdded(text, n)
      BY DEF IsCut
    <3>4. ~StartsWith(text, n - (n - a), t)
      BY <3>2, <3>3 DEF SplitsAdded
    <3> QED BY <3>1, <3>2, <3>4
  <2> QED BY <1>1, <2>1, <2>2, <2>3
<1> QED BY <1>3 DEF AddedAt, slice

(* No code point lies across a cut. *)
LEMMA NothingCrosses ==
  ASSUME NEW text \in ByteSeq, NEW n, IsCut(text, n), NEW a \in 0 .. n - 1, Decodes(text, a)
  PROVE  a + Width[text[a + 1]] <= n
<1>1. Len(text) \in Nat /\ n \in 1 .. Len(text) - 1 /\ a \in Nat
  BY DEF IsCut, ByteSeq
<1>2. PICK p \in 0 .. n : Breaks(text, p)
                          /\ (n = p + Width[text[p + 1]] \/ (n = p /\ text[p + 1] \in Cjk))
  BY DEF IsCut
<1> DEFINE w == Width[text[a + 1]]
           v == Width[text[p + 1]]
<1>3. text[a + 1] # Cont /\ text[p + 1] # Cont /\ w \in Nat /\ v \in Nat /\ v > 0
  BY <1>2, WidthIn, TablesAssumption DEF Decodes, Breaks
<1>4. \A k \in a + 2 .. a + w : text[k] = Cont
  BY DEF Decodes
<1>5. \A k \in p + 2 .. p + v : text[k] = Cont
  BY <1>2 DEF Decodes, Breaks
<1>6. n = p \/ n = p + v
  BY <1>2
<1>7. a = p => n = p + v
  BY <1>1, <1>6
<1>8. a = p => a + w <= n
  <2> SUFFICES ASSUME a = p PROVE a + w <= n
    OBVIOUS
  <2>1. w = v /\ n = p + v
    BY <1>7
  <2> HIDE DEF w, v
  <2> QED BY <1>1, <2>1
<1> HIDE DEF w, v
<1> SUFFICES ASSUME a + w > n PROVE FALSE
  BY <1>1, <1>3 DEF w
<1>9. CASE a < p
  <2>1. p + 1 \in a + 2 .. a + w
    BY <1>1, <1>3, <1>6, <1>9
  <2> QED BY <1>3, <1>4, <2>1
<1>10. CASE a > p
  <2>1. a + 1 \in p + 2 .. p + v
    BY <1>1, <1>3, <1>6, <1>10
  <2> QED BY <1>3, <1>5, <2>1
<1> QED BY <1>1, <1>3, <1>8, <1>9, <1>10

LEMMA SliceDecodes ==
  ASSUME NEW text \in ByteSeq, NEW n, IsCut(text, n), NEW a \in 0 .. n - 1
  PROVE  /\ SubSeq(text, 1, n)[a + 1] = text[a + 1]
         /\ Decodes(SubSeq(text, 1, n), a) <=> Decodes(text, a)
<1> DEFINE slice == SubSeq(text, 1, n)
           w == Width[text[a + 1]]
<1>1. Len(text) \in Nat /\ n \in 0 .. Len(text) /\ n \in 1 .. Len(text) - 1 /\ a \in Nat
  BY DEF IsCut, ByteSeq
<1>2. Len(slice) = n /\ \A k \in 1 .. n : slice[k] = text[k]
  BY <1>1, SliceSeq
<1> HIDE DEF slice
<1>3. slice[a + 1] = text[a + 1]
  BY <1>1, <1>2
<1>4. ASSUME text[a + 1] \in CodePoints, a + w <= n
      PROVE  Decodes(slice, a) <=> Decodes(text, a)
  <2>1. w \in Nat
    BY <1>4, WidthIn
  <2> HIDE DEF w
  <2>2. \A k \in a + 2 .. a + w : k \in 1 .. n
    BY <1>1, <1>4, <2>1
  <2>3. a + w <= Len(text) /\ a + w <= Len(slice)
    BY <1>1, <1>2, <1>4, <2>1
  <2> QED BY <1>2, <1>3, <1>4, <2>2, <2>3 DEF Decodes, w
<1>5. Decodes(text, a) => text[a + 1] \in CodePoints /\ a + w <= n
  BY NothingCrosses DEF Decodes
<1>6. Decodes(slice, a) => text[a + 1] \in CodePoints /\ a + w <= n
  BY <1>2, <1>3 DEF Decodes
<1> QED BY <1>3, <1>4, <1>5, <1>6 DEF slice

(* Before a cut both are read alike. *)
LEMMA SliceStep ==
  ASSUME NEW text \in ByteSeq, NEW n, IsCut(text, n), NEW s, State(s), s.at < n,
         NEW m, NEW u
  PROVE  Step(SubSeq(text, 1, n), s, m, u) = Step(text, s, m, u)
<1> DEFINE slice == SubSeq(text, 1, n)
<1>1. Len(text) \in Nat /\ n \in 0 .. Len(text) /\ n \in 1 .. Len(text) - 1
  BY DEF IsCut, ByteSeq
<1>2. s.at \in 0 .. n - 1 /\ s.at # Len(text)
  BY <1>1 DEF State
<1>3. Len(slice) = n
  BY <1>1, SliceSeq
<1>4. AddedAt(slice, s.at) = AddedAt(text, s.at)
  BY <1>2, SliceAdded
<1>5. slice[s.at + 1] = text[s.at + 1] /\ (Decodes(slice, s.at) <=> Decodes(text, s.at))
  BY <1>2, SliceDecodes
<1> HIDE DEF slice
<1>6. s.at # Len(slice)
  BY <1>1, <1>2, <1>3
<1>7. {t \in DOMAIN Added : StartsWith(slice, s.at, t)}
        = {t \in DOMAIN Added : StartsWith(text, s.at, t)}
  BY <1>4 DEF AddedAt
<1>8. Step(slice, s, m, u) = Step(text, s, m, u)
  <2>1. CASE s.truncated \/ s.bad
    BY <2>1 DEF Step
  <2>2. CASE ~(s.truncated \/ s.bad) /\ AddedAt(text, s.at) # {}
    BY <1>2, <1>6, <1>7, <2>2 DEF Step, AddedAt
  <2>3. CASE ~(s.truncated \/ s.bad) /\ AddedAt(text, s.at) = {} /\ ~Decodes(text, s.at)
    BY <1>2, <1>5, <1>6, <1>7, <2>3 DEF Step, AddedAt
  <2>4. CASE ~(s.truncated \/ s.bad) /\ AddedAt(text, s.at) = {} /\ Decodes(text, s.at)
    BY <1>2, <1>5, <1>6, <1>7, <2>4 DEF Step, AddedAt
  <2> QED BY <2>1, <2>2, <2>3, <2>4
<1> QED BY <1>8 DEF slice

-----------------------------------------------------------------------------
(* Runs of the loop *)

Stopped(text, s) == s.truncated \/ s.bad \/ s.at = Len(text)

IsRun(g, text, m, u) ==
  g = [k \in 0 .. Len(text) |-> IF k = 0 THEN Start ELSE Step(text, g[k - 1], m, u)]

LEMMA RunExists ==
  ASSUME NEW text \in ByteSeq, NEW m, NEW u
  PROVE  \E g : IsRun(g, text, m, u)
<1> DEFINE D == 0 .. Len(text)
           Turn(g) == [k \in D |-> IF k = 0 THEN Start ELSE Step(text, g[k - 1], m, u)]
           Upto(g, n) == \A k \in D : k <= n => g[k] = Turn(g)[k]
           P == {n \in Nat : \E g : Upto(g, n)}
<1>0. Len(text) \in Nat
  BY DEF ByteSeq
<1>n. ASSUME NEW g, NEW n \in Nat, Upto(g, n)
      PROVE  \A k \in D : k <= n + 1 => Turn(g)[k] = Turn(Turn(g))[k]
  <2> TAKE k \in D
  <2> HAVE k <= n + 1
  <2>1. CASE k = 0
    BY <2>1
  <2>2. CASE k # 0
    <3>1. k - 1 \in D /\ k - 1 <= n
      BY <2>2, <1>0
    <3>2. g[k - 1] = Turn(g)[k - 1]
      BY <3>1, <1>n
    <3> QED BY <2>2, <3>2
  <2> QED BY <2>1, <2>2
<1>1. 0 \in P
  <2> DEFINE z == [k \in D |-> Start]
  <2>1. Upto(z, 0)
    OBVIOUS
  <2> QED BY <2>1
<1>2. \A n \in P : n + 1 \in P
  <2> TAKE n \in P
  <2>1. PICK g : Upto(g, n)
    OBVIOUS
  <2>2. Upto(Turn(g), n + 1)
    BY <1>n, <2>1
  <2> HIDE DEF Turn, Upto
  <2>3. \E k : Upto(k, n + 1)
    BY <2>2, Zenon
  <2> QED BY <2>3
<1>3. P = Nat
  <2> HIDE DEF P
  <2>1. P \in SUBSET Nat
    BY DEF P
  <2> QED BY <2>1, <1>1, <1>2, NatInduct
<1>4. PICK g : Upto(g, Len(text))
  BY <1>0, <1>3
<1>5. \A k \in D : k <= Len(text) + 1
  BY <1>0
<1>6. \A k \in D : Turn(g)[k] = Turn(Turn(g))[k]
  <2> HIDE DEF Turn, D
  <2> QED BY <1>0, <1>4, <1>5, <1>n
<1>7. Turn(g) = Turn(Turn(g))
  BY <1>6
<1> QED BY <1>7 DEF IsRun

LEMMA TokenizeIsRun ==
  ASSUME NEW text \in ByteSeq, NEW m, NEW u
  PROVE  \E g : IsRun(g, text, m, u) /\ Tokenize(text, m, u) = Finished(g[Len(text)], m, u)
<1> DEFINE h == CHOOSE g : IsRun(g, text, m, u)
<1>1. IsRun(h, text, m, u)
  BY RunExists
<1>2. Tokenize(text, m, u) = Finished(h[Len(text)], m, u)
  BY DEF Tokenize, IsRun
<1> QED BY <1>1, <1>2

LEMMA RunTurns ==
  ASSUME NEW text \in ByteSeq, NEW m, NEW u, NEW g, IsRun(g, text, m, u)
  PROVE  /\ g[0] = Start
         /\ \A k \in 0 .. Len(text) - 1 : g[k + 1] = Step(text, g[k], m, u)
<1>1. Len(text) \in Nat
  BY DEF ByteSeq
<1>2. \A k \in 0 .. Len(text) : g[k] = IF k = 0 THEN Start ELSE Step(text, g[k - 1], m, u)
  BY DEF IsRun
<1>3. ASSUME NEW k \in 0 .. Len(text) - 1 PROVE g[k + 1] = Step(text, g[k], m, u)
  <2>1. k + 1 \in 0 .. Len(text) /\ k + 1 # 0 /\ k + 1 - 1 = k
    BY <1>1
  <2> QED BY <1>2, <2>1
<1> QED BY <1>1, <1>2, <1>3

(* What holds of the state after any number of turns. *)
Sound(text, s, k) ==
  /\ State(s) /\ s.at <= Len(text) /\ ~(s.bad /\ s.truncated)
  /\ Stopped(text, s) \/ s.at >= k

LEMMA RunSound ==
  ASSUME NEW text \in ByteSeq, NEW m, NEW u, NEW g, IsRun(g, text, m, u)
  PROVE  \A k \in 0 .. Len(text) : Sound(text, g[k], k)
<1> DEFINE P == {k \in Nat : k <= Len(text) => Sound(text, g[k], k)}
<1>0. Len(text) \in Nat
  BY DEF ByteSeq
<1>1. 0 \in P
  BY <1>0, RunTurns, StartState DEF Sound
<1>2. ASSUME NEW k \in P PROVE k + 1 \in P
  <2> SUFFICES ASSUME k + 1 <= Len(text) PROVE Sound(text, g[k + 1], k + 1)
    OBVIOUS
  <2>1. Sound(text, g[k], k) /\ k \in 0 .. Len(text) - 1 /\ k \in Nat
    BY <1>0
  <2>2. g[k + 1] = Step(text, g[k], m, u)
    BY <2>1, RunTurns
  <2>3. CASE Stopped(text, g[k])
    BY <2>1, <2>2, <2>3, StepStops DEF Sound, Stopped
  <2>4. CASE ~Stopped(text, g[k])
    <3> DEFINE s == g[k]
               r == Step(text, s, m, u)
    <3>1. s.at \in Nat /\ s.at >= k /\ s.at < Len(text) /\ Goes(text, s)
      BY <1>0, <2>1, <2>4 DEF Sound, Stopped, Goes, State
    <3>2. /\ State(r) /\ r.at <= Len(text) /\ ~(r.bad /\ r.truncated)
          /\ r.bad \/ r.at > s.at
      BY <3>1, StepGoes
    <3> HIDE DEF r, s
    <3>3. r.at \in Nat
      BY <3>2 DEF State
    <3>4. Sound(text, r, k + 1)
      BY <2>1, <3>1, <3>2, <3>3 DEF Sound, Stopped
    <3> QED BY <2>2, <3>4 DEF r, s
  <2> QED BY <2>3, <2>4
<1>3. P = Nat
  <2> HIDE DEF P
  <2>1. P \in SUBSET Nat
    BY DEF P
  <2> QED BY <2>1, <1>1, <1>2, NatInduct
<1> QED BY <1>0, <1>3

(* A run that has stopped stays where it is. *)
LEMMA RunStays ==
  ASSUME NEW text \in ByteSeq, NEW m, NEW u, NEW g, IsRun(g, text, m, u),
         NEW j \in 0 .. Len(text), Stopped(text, g[j])
  PROVE  g[Len(text)] = g[j]
<1> DEFINE P == {k \in Nat : j <= k /\ k <= Len(text) => g[k] = g[j]}
<1>0. Len(text) \in Nat
  BY DEF ByteSeq
<1>1. 0 \in P
  BY <1>0
<1>2. ASSUME NEW k \in P PROVE k + 1 \in P
  <2> SUFFICES ASSUME j <= k + 1, k + 1 <= Len(text) PROVE g[k + 1] = g[j]
    OBVIOUS
  <2>1. CASE j = k + 1
    BY <2>1
  <2>2. CASE j # k + 1
    <3>1. j <= k /\ k \in 0 .. Len(text) - 1
      BY <1>0, <2>2
    <3>2. g[k] = g[j] /\ g[k + 1] = Step(text, g[k], m, u)
      BY <1>0, <3>1, RunTurns
    <3> QED BY <3>2, StepStops DEF Stopped
  <2> QED BY <2>1, <2>2
<1>3. P = Nat
  <2> HIDE DEF P
  <2>1. P \in SUBSET Nat
    BY DEF P
  <2> QED BY <2>1, <1>1, <1>2, NatInduct
<1>4. Len(text) \in P
  BY <1>0, <1>3
<1> QED BY <1>0, <1>4

(* The loop reads every byte or stops before. *)
LEMMA RunStops ==
  ASSUME NEW text \in ByteSeq, NEW m, NEW u, NEW g, IsRun(g, text, m, u)
  PROVE  Stopped(text, g[Len(text)])
<1>1. Len(text) \in Nat
  BY DEF ByteSeq
<1>2. Sound(text, g[Len(text)], Len(text))
  BY <1>1, RunSound
<1> QED BY <1>1, <1>2 DEF Sound, Stopped, State

(* The runs over a slice and over its text agree until the slice is over.  *)
LEMMA RunsMeet ==
  ASSUME NEW text \in ByteSeq, NEW n, IsCut(text, n), NEW m, NEW u,
         NEW g, IsRun(g, SubSeq(text, 1, n), m, u), NEW h, IsRun(h, text, m, u)
  PROVE  \E k \in 1 .. n :
           /\ g[n] = h[k] /\ Stopped(SubSeq(text, 1, n), h[k])
           /\ ~Stopped(SubSeq(text, 1, n), h[k - 1]) /\ h[k - 1].at < n
           /\ h[k] = Step(text, h[k - 1], m, u)
<1> DEFINE slice == SubSeq(text, 1, n)
           S == {k \in 0 .. n : Stopped(slice, g[k])}
           K == Min(S)
<1>0. Len(text) \in Nat /\ n \in 0 .. Len(text) /\ n \in 1 .. Len(text) - 1
  BY DEF IsCut, ByteSeq
<1>1. slice \in ByteSeq /\ Len(slice) = n
  BY <1>0, SliceSeq
<1>s. \A s : State(s) /\ s.at < n => Step(slice, s, m, u) = Step(text, s, m, u)
  BY SliceStep
<1>g. IsRun(g, slice, m, u)
  OBVIOUS
<1> HIDE DEF slice
<1>2. n \in S
  BY <1>0, <1>1, <1>g, RunStops
<1>3. K \in S /\ \A k \in S : K <= k
  <2>1. S \in SUBSET Nat /\ S # {}
    BY <1>0, <1>2
  <2> QED BY <2>1, MinOfNat
<1> HIDE DEF K
<1>4. K \in 0 .. n /\ Stopped(slice, g[K])
  BY <1>3
<1>5. \A k \in 0 .. n : k < K => ~Stopped(slice, g[k]) /\ g[k].at < n /\ State(g[k])
  <2> TAKE k \in 0 .. n
  <2> HAVE k < K
  <2>1. ~Stopped(slice, g[k])
    BY <1>0, <1>3, <1>4
  <2>2. Sound(slice, g[k], k)
    BY <1>1, <1>g, RunSound
  <2> QED BY <1>0, <1>1, <2>1, <2>2 DEF Sound, Stopped, State
<1> HIDE DEF S
<1>6. \A k \in 0 .. n : k <= K => g[k] = h[k]
  <2> DEFINE P == {k \in Nat : k <= K => g[k] = h[k]}
  <2>1. 0 \in P
    BY <1>1, <1>g, RunTurns
  <2>2. ASSUME NEW k \in P PROVE k + 1 \in P
    <3> SUFFICES ASSUME k + 1 <= K PROVE g[k + 1] = h[k + 1]
      OBVIOUS
    <3>1. k \in 0 .. n /\ k < K /\ k \in 0 .. n - 1 /\ k \in 0 .. Len(text) - 1
      BY <1>0, <1>4
    <3>2. g[k] = h[k]
      <4>1. k <= K
        BY <1>4
      <4> QED BY <4>1
    <3>3. g[k + 1] = Step(slice, g[k], m, u)
      BY <1>1, <1>g, <3>1, RunTurns
    <3>4. h[k + 1] = Step(text, h[k], m, u)
      BY <3>1, RunTurns
    <3> QED BY <1>5, <1>s, <3>1, <3>2, <3>3, <3>4
  <2>3. P = Nat
    <3> HIDE DEF P
    <3>1. P \in SUBSET Nat
      BY DEF P
    <3> QED BY <3>1, <2>1, <2>2, NatInduct
  <2> QED BY <2>3
<1>7. K # 0
  <2>1. g[0] = Start
    BY <1>1, <1>g, RunTurns
  <2>2. ~Stopped(slice, Start)
    BY <1>0, <1>1, StartState DEF Stopped
  <2> QED BY <1>4, <2>1, <2>2
<1>8. K \in 1 .. n /\ K - 1 \in 0 .. n /\ K - 1 < K /\ K - 1 \in 0 .. Len(text) - 1
      /\ K - 1 + 1 = K
  BY <1>0, <1>4, <1>7
<1>9. g[n] = g[K]
  BY <1>0, <1>1, <1>4, <1>g, RunStays
<1>10. g[K] = h[K] /\ g[K - 1] = h[K - 1]
  BY <1>4, <1>6, <1>8
<1>11. h[K] = Step(text, h[K - 1], m, u)
  BY <1>8, RunTurns
<1>12. ~Stopped(slice, h[K - 1]) /\ h[K - 1].at < n
  BY <1>5, <1>8, <1>10
<1> QED BY <1>4, <1>8, <1>9, <1>10, <1>11, <1>12 DEF slice

-----------------------------------------------------------------------------
(* Behind a cut *)

(* States that differ in the bytes read only. *)
Alike(s, r) ==
  /\ State(s) /\ State(r)
  /\ s.ids = r.ids /\ s.unk = r.unk /\ s.seg = r.seg
  /\ s.truncated = r.truncated /\ s.bad = r.bad

LEMMA CapAlike ==
  ASSUME NEW s, NEW r, Alike(s, r), NEW m, NEW u
  PROVE  Alike(CapAfterAppend(s, m, u), CapAfterAppend(r, m, u))
<1>1. LimitedCount(s, u) = LimitedCount(r, u)
  BY DEF Alike, LimitedCount
<1>2. ASSUME NEW ids, NEW unk,
             NEW a, a = [s EXCEPT !.ids = ids, !.unk = unk, !.truncated = TRUE],
             NEW b, b = [r EXCEPT !.ids = ids, !.unk = unk, !.truncated = TRUE]
      PROVE  Alike(a, b)
  BY <1>2 DEF Alike, State
<1>3. CASE m = 0 \/ LimitedCount(s, u) <= m
  BY <1>1, <1>3 DEF CapAfterAppend
<1>4. CASE ~(m = 0 \/ LimitedCount(s, u) <= m) /\ (~u \/ ~DropUnk)
  <2> DEFINE i == SubSeq(s.ids, 1, m)
             k == s.unk - Unknowns(SubSeq(s.ids, m + 1, Len(s.ids)))
  <2>1. CapAfterAppend(s, m, u) = [s EXCEPT !.ids = i, !.unk = k, !.truncated = TRUE]
    BY <1>4 DEF CapAfterAppend
  <2>2. CapAfterAppend(r, m, u) = [r EXCEPT !.ids = i, !.unk = k, !.truncated = TRUE]
    <3>1. r.ids = s.ids /\ r.unk = s.unk
      BY DEF Alike
    <3>2. CapAfterAppend(r, m, u) =
            [r EXCEPT !.ids = SubSeq(r.ids, 1, m),
                      !.unk = r.unk - Unknowns(SubSeq(r.ids, m + 1, Len(r.ids))),
                      !.truncated = TRUE]
      BY <1>1, <1>4 DEF CapAfterAppend
    <3> QED BY <3>1, <3>2
  <2> HIDE DEF i, k
  <2> QED BY <1>2, <2>1, <2>2
<1>5. CASE ~(m = 0 \/ LimitedCount(s, u) <= m) /\ ~(~u \/ ~DropUnk)
  <2> DEFINE keep == UsablePrefix(s.ids, m)
             i == SubSeq(s.ids, 1, keep)
             k == keep - m
  <2>1. CapAfterAppend(s, m, u) = [s EXCEPT !.ids = i, !.unk = k, !.truncated = TRUE]
    BY <1>5 DEF CapAfterAppend
  <2>2. CapAfterAppend(r, m, u) = [r EXCEPT !.ids = i, !.unk = k, !.truncated = TRUE]
    <3>1. r.ids = s.ids
      BY DEF Alike
    <3>2. CapAfterAppend(r, m, u) =
            [r EXCEPT !.ids = SubSeq(r.ids, 1, UsablePrefix(r.ids, m)),
                      !.unk = UsablePrefix(r.ids, m) - m,
                      !.truncated = TRUE]
      BY <1>1, <1>5 DEF CapAfterAppend
    <3> QED BY <3>1, <3>2
  <2> HIDE DEF i, k
  <2> QED BY <1>2, <2>1, <2>2
<1> QED BY <1>3, <1>4, <1>5

LEMMA AppendAlike ==
  ASSUME NEW s, NEW r, Alike(s, r), NEW ids, NEW m, NEW u
  PROVE  Alike(Append1(s, ids, m, u), Append1(r, ids, m, u))
<1> DEFINE i == s.ids \o ids
           k == s.unk + Unknowns(ids)
<1>1. s.ids = r.ids /\ s.unk = r.unk
  BY DEF Alike
<1>2. Append1(s, ids, m, u) = CapAfterAppend([s EXCEPT !.ids = i, !.unk = k], m, u)
  BY DEF Append1
<1>3. Append1(r, ids, m, u) = CapAfterAppend([r EXCEPT !.ids = i, !.unk = k], m, u)
  BY <1>1 DEF Append1
<1> HIDE DEF i, k
<1>4. Alike([s EXCEPT !.ids = i, !.unk = k], [r EXCEPT !.ids = i, !.unk = k])
  <2>1. ASSUME NEW a, a = [s EXCEPT !.ids = i, !.unk = k],
               NEW b, b = [r EXCEPT !.ids = i, !.unk = k]
        PROVE  Alike(a, b)
    BY <2>1 DEF Alike, State
  <2> QED BY <2>1
<1> QED BY <1>2, <1>3, <1>4, CapAlike

LEMMA FlushAlike ==
  ASSUME NEW s, NEW r, Alike(s, r), NEW m, NEW u
  PROVE  Alike(Flush(s, m, u), Flush(r, m, u))
<1>1. s.seg = r.seg
  BY DEF Alike
<1>2. CASE s.seg = <<>>
  BY <1>1, <1>2 DEF Flush
<1>3. CASE s.seg # <<>>
  <2> DEFINE a == Append1(s, WordPiece(s.seg), m, u)
             b == Append1(r, WordPiece(s.seg), m, u)
  <2>1. Alike(a, b)
    BY AppendAlike
  <2>2. Flush(s, m, u) = [a EXCEPT !.seg = <<>>] /\ Flush(r, m, u) = [b EXCEPT !.seg = <<>>]
    BY <1>1, <1>3 DEF Flush
  <2> HIDE DEF a, b
  <2>3. Alike([a EXCEPT !.seg = <<>>], [b EXCEPT !.seg = <<>>])
    BY <2>1 DEF Alike, State
  <2> QED BY <2>2, <2>3
<1> QED BY <1>2, <1>3

(* Two code points that end at the same byte begin at the same. *)
LEMMA SameEnd ==
  ASSUME NEW text, NEW a \in Nat, Decodes(text, a), NEW p \in Nat, Decodes(text, p),
         a + Width[text[a + 1]] = p + Width[text[p + 1]]
  PROVE  a = p
<1> DEFINE w == Width[text[a + 1]]
           v == Width[text[p + 1]]
<1>1. text[a + 1] # Cont /\ text[p + 1] # Cont /\ w \in Nat /\ v \in Nat /\ w > 0 /\ v > 0
  BY WidthIn, TablesAssumption DEF Decodes
<1>2. (\A k \in a + 2 .. a + w : text[k] = Cont) /\ (\A k \in p + 2 .. p + v : text[k] = Cont)
  BY DEF Decodes
<1>3. a + w = p + v
  OBVIOUS
<1> HIDE DEF w, v
<1>4. CASE a < p
  <2>1. p + 1 \in a + 2 .. a + w
    BY <1>1, <1>3, <1>4
  <2> QED BY <1>1, <1>2, <2>1
<1>5. CASE a > p
  <2>1. a + 1 \in p + 2 .. p + v
    BY <1>1, <1>3, <1>5
  <2> QED BY <1>1, <1>2, <2>1
<1> QED BY <1>4, <1>5

(* A turn that ends behind a break leaves no open word. *)
LEMMA CutCloses ==
  ASSUME NEW text \in ByteSeq, BreaksKept(text), NEW s, Goes(text, s), NEW m, NEW u,
         NEW p \in Nat, Breaks(text, p),
         Step(text, s, m, u).at = p + Width[text[p + 1]], ~Step(text, s, m, u).bad
  PROVE  Step(text, s, m, u).truncated \/ Step(text, s, m, u).seg = <<>>
<1>1. CASE AddedAt(text, s.at) # {}
  BY <1>1, StepAdded
<1>2. CASE AddedAt(text, s.at) = {} /\ ~Decodes(text, s.at)
  BY <1>2, StepBad
<1>3. CASE AddedAt(text, s.at) = {} /\ Decodes(text, s.at)
  <2> DEFINE cp == text[s.at + 1]
             q == [s EXCEPT !.at = s.at + Width[cp]]
             r == Step(text, s, m, u)
  <2>1. r.at = s.at + Width[cp] /\ cp \in CodePoints /\ State(q)
        /\ r = FeedAll(q, Cleaned(cp), m, u)
    BY <1>3, StepReads
  <2>2. s.at = p
    <3>1. s.at \in Nat
      BY DEF Goes, State
    <3> QED BY <1>3, <2>1, <3>1, SameEnd DEF Breaks
  <2>3. cp \in (Cjk \cup Space \cup Punct) \ Control /\ Stable(cp)
    BY <2>2, BreakKept DEF Breaks
  <2> HIDE DEF cp, q, r
  <2>4. /\ Cleaned(cp) \in Seq(CodePoints) /\ Len(Cleaned(cp)) > 0
        /\ Cleaned(cp)[Len(Cleaned(cp))] \in Space \cup Punct
    BY <2>3, BreakCleaned
  <2>5. r.truncated \/ r.seg = <<>>
    BY <2>1, <2>4, FeedAllCloses
  <2> QED BY <2>5 DEF r
<1> QED BY <1>1, <1>2, <1>3

(* Before a CJK character the word that is open is taken; if that reaches  *)
(* the cap nothing follows.                                                *)
LEMMA CutFlushes ==
  ASSUME NEW text \in ByteSeq, BreaksKept(text), NEW s, Goes(text, s), NEW m, NEW u,
         Breaks(text, s.at), text[s.at + 1] \in Cjk, Flush(s, m, u).truncated
  PROVE  Alike(Flush(s, m, u), Step(text, s, m, u))
<1> DEFINE f == Flush(s, m, u)
<1>1. Same(s, f) /\ State(f) /\ f.truncated
  BY FlushKeeps DEF Goes, Same
<1>2. CASE AddedAt(text, s.at) # {}
  <2> DEFINE t == CHOOSE t \in AddedAt(text, s.at) : TRUE
             l == Len(t)
             a == AppendUncapped(f, <<Added[t]>>, m, u)
  <2>1. Step(text, s, m, u) = [a EXCEPT !.at = @ + l]
    BY <1>2 DEF Step, Goes, AddedAt
  <2>2. a = f
    BY <1>1 DEF AppendUncapped
  <2>3. Step(text, s, m, u) = [f EXCEPT !.at = f.at + l]
    BY <2>1, <2>2
  <2>4. l \in Nat
    BY <1>2, TablesAssumption DEF AddedAt
  <2> HIDE DEF l, f
  <2>5. f.at + l \in Nat
    BY <1>1, <2>4 DEF State
  <2>6. ASSUME NEW b \in Nat, NEW v, v = [f EXCEPT !.at = b] PROVE Alike(f, v)
    BY <1>1, <2>6 DEF Alike, State
  <2> QED BY <2>3, <2>5, <2>6 DEF f
<1>3. CASE AddedAt(text, s.at) = {}
  <2> DEFINE cp == text[s.at + 1]
             q == [s EXCEPT !.at = s.at + Width[cp]]
             r == Step(text, s, m, u)
  <2>1. State(q) /\ ~q.truncated /\ r = FeedAll(q, Cleaned(cp), m, u)
    BY <1>3, StepReads DEF Breaks
  <2>2. Alike(s, q)
    <3>1. \A b : [s EXCEPT !.at = b].ids = s.ids /\ [s EXCEPT !.at = b].unk = s.unk
                 /\ [s EXCEPT !.at = b].seg = s.seg /\ [s EXCEPT !.at = b].bad = s.bad
                 /\ [s EXCEPT !.at = b].truncated = s.truncated
      BY DEF Goes, State
    <3> QED BY <2>1, <3>1 DEF Alike, Goes
  <2>3. cp \in Cjk \ Control /\ Stable(cp)
    <3>1. s.at \in Nat
      BY DEF Goes, State
    <3> QED BY <3>1, BreakKept DEF Breaks
  <2> HIDE DEF cp, q, r
  <2>4. /\ Cleaned(cp) \in Seq(CodePoints) /\ Len(Cleaned(cp)) > 0
        /\ Cleaned(cp)[1] \in Space
    BY <2>3, BreakCleaned
  <2>5. Alike(f, Flush(q, m, u))
    BY <2>2, FlushAlike
  <2>6. Flush(q, m, u).truncated
    BY <1>1, <2>5 DEF Alike
  <2>7. r = Flush(q, m, u)
    BY <2>1, <2>4, <2>6, FeedAllFlushes
  <2> QED BY <2>5, <2>7 DEF r
<1> QED BY <1>2, <1>3

(* A slice that reaches the cap decides its text. *)
LEMMA CutDecides ==
  ASSUME NEW text \in ByteSeq, BreaksKept(text), NEW n, IsCut(text, n), NEW m, NEW u,
         Tokenize(SubSeq(text, 1, n), m, u).truncated
  PROVE  Tokenize(text, m, u) = Tokenize(SubSeq(text, 1, n), m, u)
         \/ Alike(Tokenize(SubSeq(text, 1, n), m, u), Tokenize(text, m, u))
<1> DEFINE slice == SubSeq(text, 1, n)
<1>0. Len(text) \in Nat /\ n \in 0 .. Len(text) /\ n \in 1 .. Len(text) - 1
  BY DEF IsCut, ByteSeq
<1>1. slice \in ByteSeq /\ Len(slice) = n
  BY <1>0, SliceSeq
<1>2. PICK g : IsRun(g, slice, m, u) /\ Tokenize(slice, m, u) = Finished(g[n], m, u)
  BY <1>1, TokenizeIsRun
<1>3. PICK h : IsRun(h, text, m, u) /\ Tokenize(text, m, u) = Finished(h[Len(text)], m, u)
  BY TokenizeIsRun
<1>4. PICK k \in 1 .. n :
        /\ g[n] = h[k] /\ Stopped(slice, h[k])
        /\ ~Stopped(slice, h[k - 1]) /\ h[k - 1].at < n
        /\ h[k] = Step(text, h[k - 1], m, u)
  BY <1>2, <1>3, RunsMeet
<1>5. k \in 0 .. Len(text) /\ k - 1 \in 0 .. Len(text) /\ k \in 0 .. Len(text) - 1
      /\ k + 1 \in 0 .. Len(text)
  BY <1>0
<1> DEFINE q == h[k]
           e == Tokenize(slice, m, u)
<1>6. State(q) /\ e = Finished(q, m, u) /\ e.truncated
  BY <1>2, <1>3, <1>4, <1>5, RunSound DEF Sound
<1> HIDE DEF e, slice
<1>7. CASE q.truncated \/ q.bad
  <2>1. h[Len(text)] = q
    BY <1>3, <1>5, <1>7, RunStays DEF Stopped
  <2> QED BY <1>3, <1>6, <2>1 DEF e, slice
<1>8. CASE ~q.truncated /\ ~q.bad
  <2>1. q.at = n
    BY <1>1, <1>4, <1>8 DEF Stopped
  <2>2. e = Flush(q, m, u) /\ Flush(q, m, u).truncated
    BY <1>6, <1>8 DEF Finished
  <2>3. q.seg # <<>>
    BY <1>6, <1>8, <2>2, FlushKeeps
  <2>4. PICK p \in 0 .. n : Breaks(text, p)
          /\ (n = p + Width[text[p + 1]] \/ (n = p /\ text[p + 1] \in Cjk))
    BY DEF IsCut
  <2>5. Goes(text, h[k - 1])
    <3>1. State(h[k - 1]) /\ h[k - 1].at \in Nat
      BY <1>3, <1>5, RunSound DEF Sound, State
    <3> QED BY <1>0, <1>4, <3>1 DEF Goes, Stopped
  <2>6. ~(n = p + Width[text[p + 1]])
    BY <1>4, <1>8, <2>1, <2>3, <2>4, <2>5, CutCloses
  <2>7. n = p /\ text[n + 1] \in Cjk /\ Breaks(text, n)
    BY <2>4, <2>6
  <2>8. Goes(text, q)
    BY <1>0, <1>6, <1>8, <2>1 DEF Goes
  <2>9. Alike(e, h[k + 1])
    <3>1. h[k + 1] = Step(text, q, m, u)
      BY <1>3, <1>5, RunTurns
    <3> QED BY <2>1, <2>2, <2>7, <2>8, <3>1, CutFlushes
  <2>10. h[k + 1].truncated
    BY <1>6, <2>9 DEF Alike
  <2>11. h[Len(text)] = h[k + 1]
    BY <1>3, <1>5, <2>10, RunStays DEF Stopped
  <2>12. Tokenize(text, m, u) = h[k + 1]
    BY <1>3, <2>10, <2>11 DEF Finished
  <2> QED BY <2>9, <2>12 DEF e, slice
<1> QED BY <1>7, <1>8

LEMMA CutRow ==
  ASSUME NEW text \in ByteSeq, BreaksKept(text), NEW n, IsCut(text, n), NEW m, NEW u,
         EmbedOne(text, n, m, u).truncated
  PROVE  EmbedOne(text, n, m, u) = EmbedOne(text, Len(text), m, u)
<1> DEFINE a == Tokenize(SubSeq(text, 1, n), m, u)
           b == Tokenize(text, m, u)
<1>1. SubSeq(text, 1, Len(text)) = text
  BY DEF ByteSeq
<1>2. EmbedOne(text, n, m, u) = Embedded(a) /\ EmbedOne(text, Len(text), m, u) = Embedded(b)
  BY <1>1 DEF EmbedOne
<1>3. a.truncated
  BY <1>2 DEF Embedded, Malformed, Pooled
<1>4. b = a \/ Alike(a, b)
  BY <1>3, CutDecides
<1> HIDE DEF a, b
<1>5. Embedded(a) = Embedded(b)
  <2>1. CASE a.bad
    BY <1>4, <2>1 DEF Embedded, Alike
  <2>2. CASE ~a.bad
    BY <1>4, <2>2 DEF Embedded, Alike
  <2> QED BY <2>1, <2>2
<1> QED BY <1>2, <1>5

-----------------------------------------------------------------------------
(* The ids *)

Ids == {Unk} \cup (BOOLEAN \X Seq(CodePoints)) \cup {Added[t] : t \in DOMAIN Added}

(* The ends of the pieces a word may go on with from the s-th code point. *)
Ends(word, s) ==
  {e \in s .. Len(word) :
     /\ e - s < MaxTokenChars
     /\ SubSeq(word, s, e) \in IF s = 1 THEN Vocab ELSE ContVocab}

IsSplit(g, word) ==
  g = [s \in 1 .. Len(word) + 1 |->
         IF s > Len(word) THEN {<<>>}
         ELSE IF Ends(word, s) = {} THEN {}
         ELSE {<< <<s > 1, SubSeq(word, s, Max(Ends(word, s)))>> >> \o rest :
                 rest \in g[Max(Ends(word, s)) + 1]}]

LEMMA PiecesAreSplit ==
  ASSUME NEW word, \E g : IsSplit(g, word)
  PROVE  \E g : IsSplit(g, word) /\ PiecesFrom(word) = g[1]
<1> DEFINE h == CHOOSE g : IsSplit(g, word)
<1>1. IsSplit(h, word)
  OBVIOUS
<1>2. PiecesFrom(word) = h[1]
  BY DEF PiecesFrom, IsSplit, Ends
<1> QED BY <1>1, <1>2

LEMMA EndIn ==
  ASSUME NEW word \in Seq(CodePoints), NEW s \in 1 .. Len(word), Ends(word, s) # {}
  PROVE  Max(Ends(word, s)) \in s .. Len(word)
<1>1. Len(word) \in Nat /\ Ends(word, s) \in SUBSET (0 .. Len(word))
  BY DEF Ends
<1>2. Max(Ends(word, s)) \in Ends(word, s)
  BY <1>1, MaxOfNat
<1> QED BY <1>2 DEF Ends

LEMMA SplitExists ==
  ASSUME NEW word \in Seq(CodePoints)
  PROVE  \E g : IsSplit(g, word)
<1> DEFINE D == 1 .. Len(word) + 1
           top(s) == Max(Ends(word, s))
           Turn(g) == [s \in D |->
             IF s > Len(word) THEN {<<>>}
             ELSE IF Ends(word, s) = {} THEN {}
             ELSE {<< <<s > 1, SubSeq(word, s, Max(Ends(word, s)))>> >> \o rest :
                     rest \in g[Max(Ends(word, s)) + 1]}]
           Upto(g, n) == \A s \in D : Len(word) + 1 - s <= n => g[s] = Turn(g)[s]
           P == {n \in Nat : \E g : Upto(g, n)}
<1>0. Len(word) \in Nat
  OBVIOUS
<1>n. ASSUME NEW g, NEW n \in Nat, Upto(g, n)
      PROVE  \A s \in D : Len(word) + 1 - s <= n + 1 => Turn(g)[s] = Turn(Turn(g))[s]
  <2> TAKE s \in D
  <2> HAVE Len(word) + 1 - s <= n + 1
  <2>1. CASE s > Len(word) \/ Ends(word, s) = {}
    BY <2>1
  <2>2. CASE ~(s > Len(word)) /\ Ends(word, s) # {}
    <3> DEFINE e == Max(Ends(word, s))
               piece == << <<s > 1, SubSeq(word, s, e)>> >>
    <3>1. s \in 1 .. Len(word)
      BY <1>0, <2>2
    <3>2. e \in s .. Len(word)
      BY <2>2, <3>1, EndIn
    <3>3. Turn(g)[s] = {piece \o rest : rest \in g[e + 1]}
          /\ Turn(Turn(g))[s] = {piece \o rest : rest \in Turn(g)[e + 1]}
      BY <2>2
    <3> HIDE DEF e, piece
    <3>4. e + 1 \in D /\ Len(word) + 1 - (e + 1) <= n
      BY <1>0, <3>1, <3>2
    <3>5. g[e + 1] = Turn(g)[e + 1]
      BY <3>4, <1>n
    <3> HIDE DEF Turn
    <3> QED BY <3>3, <3>5
  <2> QED BY <2>1, <2>2
<1>1. 0 \in P
  <2> DEFINE z == [s \in D |-> {<<>>}]
  <2>1. Upto(z, 0)
    BY <1>0
  <2> QED BY <2>1
<1>2. \A n \in P : n + 1 \in P
  <2> TAKE n \in P
  <2>1. PICK g : Upto(g, n)
    OBVIOUS
  <2>2. Upto(Turn(g), n + 1)
    BY <1>n, <2>1
  <2> HIDE DEF Turn, Upto
  <2>3. \E k : Upto(k, n + 1)
    BY <2>2, Zenon
  <2> QED BY <2>3
<1>3. P = Nat
  <2> HIDE DEF P
  <2>1. P \in SUBSET Nat
    BY DEF P
  <2> QED BY <2>1, <1>1, <1>2, NatInduct
<1>4. PICK g : Upto(g, Len(word))
  BY <1>0, <1>3
<1>5. \A s \in D : Len(word) + 1 - s <= Len(word) + 1
  BY <1>0
<1>6. \A s \in D : Turn(g)[s] = Turn(Turn(g))[s]
  <2> HIDE DEF Turn, D
  <2> QED BY <1>0, <1>4, <1>5, <1>n
<1>7. Turn(g) = Turn(Turn(g))
  BY <1>6
<1> QED BY <1>7 DEF IsSplit

LEMMA WordPieceIn ==
  ASSUME NEW word \in Seq(CodePoints)
  PROVE  WordPiece(word) \in Seq(Ids)
<1>1. PICK g : IsSplit(g, word) /\ PiecesFrom(word) = g[1]
  BY SplitExists, PiecesAreSplit
<1> DEFINE D == 1 .. Len(word) + 1
           P == {n \in Nat : \A s \in D : Len(word) + 1 - s <= n => g[s] \subseteq Seq(Ids)}
<1>0. Len(word) \in Nat
  OBVIOUS
<1>g. \A s \in D : g[s] =
         IF s > Len(word) THEN {<<>>}
         ELSE IF Ends(word, s) = {} THEN {}
         ELSE {<< <<s > 1, SubSeq(word, s, Max(Ends(word, s)))>> >> \o rest :
                 rest \in g[Max(Ends(word, s)) + 1]}
  BY <1>1 DEF IsSplit
<1>2. 0 \in P
  <2> SUFFICES ASSUME NEW s \in D, Len(word) + 1 - s <= 0 PROVE g[s] \subseteq Seq(Ids)
    OBVIOUS
  <2>1. s > Len(word)
    BY <1>0
  <2>2. g[s] = {<<>>}
    BY <1>g, <2>1
  <2> QED BY <2>2
<1>3. ASSUME NEW n \in P PROVE n + 1 \in P
  <2> SUFFICES ASSUME NEW s \in D, Len(word) + 1 - s <= n + 1, NEW ids \in g[s]
               PROVE  ids \in Seq(Ids)
    OBVIOUS
  <2>1. CASE s > Len(word)
    <3>1. ids = <<>>
      BY <1>g, <2>1
    <3> QED BY <3>1
  <2>2. CASE ~(s > Len(word))
    <3> DEFINE e == Max(Ends(word, s))
               piece == <<s > 1, SubSeq(word, s, e)>>
    <3>1. Ends(word, s) # {} /\ ids \in {<<piece>> \o rest : rest \in g[e + 1]}
      BY <1>g, <2>2
    <3>2. PICK rest \in g[e + 1] : ids = <<piece>> \o rest
      BY <3>1
    <3>3. e \in s .. Len(word)
      <4>1. s \in 1 .. Len(word)
        BY <1>0, <2>2
      <4> QED BY <3>1, <4>1, EndIn
    <3>4. e + 1 \in D /\ Len(word) + 1 - (e + 1) <= n
      BY <1>0, <3>3
    <3>5. rest \in Seq(Ids)
      BY <3>2, <3>4
    <3>6. piece \in Ids
      <4>1. SubSeq(word, s, e) \in Seq(CodePoints)
        BY <1>0, <3>3
      <4>2. \A b \in BOOLEAN, w \in Seq(CodePoints) : <<b, w>> \in Ids
        BY DEF Ids
      <4>3. (s > 1) \in BOOLEAN
        OBVIOUS
      <4> HIDE DEF e
      <4> QED BY <4>1, <4>2, <4>3
    <3> HIDE DEF piece
    <3> QED BY <3>2, <3>5, <3>6
  <2> QED BY <2>1, <2>2
<1>4. P = Nat
  <2> HIDE DEF P
  <2>1. P \in SUBSET Nat
    BY DEF P
  <2> QED BY <2>1, <1>2, <1>3, NatInduct
<1>5. PiecesFrom(word) \subseteq Seq(Ids)
  <2>1. Len(word) \in P /\ 1 \in D /\ Len(word) + 1 - 1 <= Len(word)
    BY <1>0, <1>4
  <2> QED BY <1>1, <2>1
<1>6. <<Unk>> \in Seq(Ids)
  BY DEF Ids
<1> QED BY <1>5, <1>6 DEF WordPiece

-----------------------------------------------------------------------------
(* Counting unknown ids *)

IsSelected(g, ids) ==
  g = [k \in 0 .. Len(ids) |->
         IF k = 0 THEN <<>>
         ELSE IF IsUnk(ids[k]) THEN Append(g[k - 1], ids[k]) ELSE g[k - 1]]

LEMMA UnknownsAreSelected ==
  ASSUME NEW ids, \E g : IsSelected(g, ids)
  PROVE  \E g : IsSelected(g, ids) /\ Unknowns(ids) = Len(g[Len(ids)])
<1> DEFINE h == CHOOSE g : IsSelected(g, ids)
<1>1. IsSelected(h, ids)
  OBVIOUS
<1>2. SelectSeq(ids, IsUnk) = h[Len(ids)]
  BY DEF SelectSeq, IsSelected
<1> QED BY <1>1, <1>2 DEF Unknowns

LEMMA SelectedExists ==
  ASSUME NEW ids \in Seq(Ids)
  PROVE  \E g : IsSelected(g, ids)
<1> DEFINE D == 0 .. Len(ids)
           Turn(g) == [k \in D |->
             IF k = 0 THEN <<>>
             ELSE IF IsUnk(ids[k]) THEN Append(g[k - 1], ids[k]) ELSE g[k - 1]]
           Upto(g, n) == \A k \in D : k <= n => g[k] = Turn(g)[k]
           P == {n \in Nat : \E g : Upto(g, n)}
<1>0. Len(ids) \in Nat
  OBVIOUS
<1>n. ASSUME NEW g, NEW n \in Nat, Upto(g, n)
      PROVE  \A k \in D : k <= n + 1 => Turn(g)[k] = Turn(Turn(g))[k]
  <2> TAKE k \in D
  <2> HAVE k <= n + 1
  <2>1. CASE k = 0
    BY <2>1
  <2>2. CASE k # 0
    <3>1. k - 1 \in D /\ k - 1 <= n
      BY <2>2, <1>0
    <3>2. g[k - 1] = Turn(g)[k - 1]
      BY <3>1, <1>n
    <3> QED BY <2>2, <3>2
  <2> QED BY <2>1, <2>2
<1>1. 0 \in P
  <2> DEFINE z == [k \in D |-> <<>>]
  <2>1. Upto(z, 0)
    OBVIOUS
  <2> QED BY <2>1
<1>2. \A n \in P : n + 1 \in P
  <2> TAKE n \in P
  <2>1. PICK g : Upto(g, n)
    OBVIOUS
  <2>2. Upto(Turn(g), n + 1)
    BY <1>n, <2>1
  <2> HIDE DEF Turn, Upto
  <2>3. \E k : Upto(k, n + 1)
    BY <2>2, Zenon
  <2> QED BY <2>3
<1>3. P = Nat
  <2> HIDE DEF P
  <2>1. P \in SUBSET Nat
    BY DEF P
  <2> QED BY <2>1, <1>1, <1>2, NatInduct
<1>4. PICK g : Upto(g, Len(ids))
  BY <1>0, <1>3
<1>5. \A k \in D : k <= Len(ids) + 1
  BY <1>0
<1>6. \A k \in D : Turn(g)[k] = Turn(Turn(g))[k]
  <2> HIDE DEF Turn, D
  <2> QED BY <1>0, <1>4, <1>5, <1>n
<1>7. Turn(g) = Turn(Turn(g))
  BY <1>6
<1> QED BY <1>7 DEF IsSelected

(* c[k] of the first k ids are unknown. *)
Counts(c, ids) ==
  /\ \A k \in 0 .. Len(ids) : c[k] \in Nat
  /\ c[0] = 0
  /\ \A k \in 1 .. Len(ids) : c[k] = IF ids[k] = Unk THEN c[k - 1] + 1 ELSE c[k - 1]

LEMMA UnknownsCount ==
  ASSUME NEW ids \in Seq(Ids)
  PROVE  \E c : Counts(c, ids) /\ Unknowns(ids) = c[Len(ids)]
<1>1. PICK g : IsSelected(g, ids) /\ Unknowns(ids) = Len(g[Len(ids)])
  BY SelectedExists, UnknownsAreSelected
<1> DEFINE D == 0 .. Len(ids)
           P == {n \in Nat : n \in D => g[n] \in Seq(Ids)}
           c == [k \in D |-> Len(g[k])]
<1>0. Len(ids) \in Nat
  OBVIOUS
<1>g. \A k \in D : g[k] = IF k = 0 THEN <<>>
                          ELSE IF IsUnk(ids[k]) THEN Append(g[k - 1], ids[k]) ELSE g[k - 1]
  BY <1>1 DEF IsSelected
<1>2. 0 \in P
  <2>1. g[0] = <<>>
    BY <1>0, <1>g
  <2>2. <<>> \in Seq(Ids)
    OBVIOUS
  <2>3. g[0] \in Seq(Ids)
    BY <2>1, <2>2, Zenon
  <2> QED BY <2>3
<1>3. ASSUME NEW n \in P PROVE n + 1 \in P
  <2> SUFFICES ASSUME n + 1 \in D PROVE g[n + 1] \in Seq(Ids)
    OBVIOUS
  <2>1. n \in D /\ n + 1 # 0 /\ n + 1 - 1 = n /\ n + 1 \in 1 .. Len(ids)
    BY <1>0
  <2>2. g[n + 1] = IF IsUnk(ids[n + 1]) THEN Append(g[n], ids[n + 1]) ELSE g[n]
    BY <1>g, <2>1
  <2>3. g[n] \in Seq(Ids) /\ ids[n + 1] \in Ids
    BY <2>1
  <2> QED BY <2>2, <2>3
<1>4. P = Nat
  <2> HIDE DEF P
  <2>1. P \in SUBSET Nat
    BY DEF P
  <2> QED BY <2>1, <1>2, <1>3, NatInduct
<1>5. \A k \in D : g[k] \in Seq(Ids)
  BY <1>0, <1>4
<1>6. \A k \in D : c[k] \in Nat
  BY <1>5
<1>7. c[0] = 0
  BY <1>0, <1>g
<1>8. ASSUME NEW k \in 1 .. Len(ids)
      PROVE  c[k] = IF ids[k] = Unk THEN c[k - 1] + 1 ELSE c[k - 1]
  <2>1. k \in D /\ k - 1 \in D /\ k # 0
    BY <1>0
  <2>2. g[k] = IF IsUnk(ids[k]) THEN Append(g[k - 1], ids[k]) ELSE g[k - 1]
    BY <1>g, <2>1
  <2>3. g[k - 1] \in Seq(Ids) /\ c[k] = Len(g[k]) /\ c[k - 1] = Len(g[k - 1])
    BY <1>5, <2>1
  <2> HIDE DEF c
  <2> QED BY <2>2, <2>3 DEF IsUnk
<1>9. Unknowns(ids) = c[Len(ids)]
  BY <1>0, <1>1
<1>10. Counts(c, ids)
  BY <1>6, <1>7, <1>8 DEF Counts
<1> QED BY <1>9, <1>10

LEMMA CountsAgree ==
  ASSUME NEW a \in Seq(Ids), NEW b \in Seq(Ids), NEW c, Counts(c, a), NEW d, Counts(d, b),
         NEW n \in Nat, n <= Len(a), n <= Len(b), \A k \in 1 .. n : a[k] = b[k]
  PROVE  \A k \in 0 .. n : c[k] = d[k]
<1> DEFINE P == {k \in Nat : k <= n => c[k] = d[k]}
<1>0. Len(a) \in Nat /\ Len(b) \in Nat
  OBVIOUS
<1>1. 0 \in P
  BY DEF Counts
<1>2. ASSUME NEW k \in P PROVE k + 1 \in P
  <2> SUFFICES ASSUME k + 1 <= n PROVE c[k + 1] = d[k + 1]
    OBVIOUS
  <2>1. k + 1 \in 1 .. Len(a) /\ k + 1 \in 1 .. Len(b) /\ k + 1 - 1 = k /\ k <= n
        /\ k + 1 \in 1 .. n
    BY <1>0
  <2>2. c[k + 1] = IF a[k + 1] = Unk THEN c[k] + 1 ELSE c[k]
    BY <2>1 DEF Counts
  <2>3. d[k + 1] = IF b[k + 1] = Unk THEN d[k] + 1 ELSE d[k]
    BY <2>1 DEF Counts
  <2> QED BY <2>1, <2>2, <2>3
<1>3. P = Nat
  <2> HIDE DEF P
  <2>1. P \in SUBSET Nat
    BY DEF P
  <2> QED BY <2>1, <1>1, <1>2, NatInduct
<1> QED BY <1>3

LEMMA CountsPrefix ==
  ASSUME NEW ids \in Seq(Ids), NEW c, Counts(c, ids), NEW k \in 0 .. Len(ids)
  PROVE  Unknowns(SubSeq(ids, 1, k)) = c[k]
<1> DEFINE a == SubSeq(ids, 1, k)
<1>1. a \in Seq(Ids) /\ Len(a) = k /\ \A i \in 1 .. k : a[i] = ids[i]
  OBVIOUS
<1> HIDE DEF a
<1>2. PICK d : Counts(d, a) /\ Unknowns(a) = d[Len(a)]
  BY <1>1, UnknownsCount
<1>3. k \in Nat /\ k <= Len(a) /\ k <= Len(ids) /\ k \in 0 .. k
  BY <1>1
<1>4. d[k] = c[k]
  BY <1>1, <1>2, <1>3, CountsAgree
<1> QED BY <1>1, <1>2, <1>4 DEF a

LEMMA CountsWhole ==
  ASSUME NEW ids \in Seq(Ids), NEW c, Counts(c, ids)
  PROVE  Unknowns(ids) = c[Len(ids)]
<1>1. SubSeq(ids, 1, Len(ids)) = ids /\ Len(ids) \in 0 .. Len(ids)
  OBVIOUS
<1> QED BY <1>1, CountsPrefix

LEMMA UnknownsOfNone == Unknowns(<<>>) = 0
<1>1. <<>> \in Seq(Ids) /\ Len(<<>>) = 0
  OBVIOUS
<1> QED BY <1>1, UnknownsCount DEF Counts

LEMMA UnknownsConcat ==
  ASSUME NEW a \in Seq(Ids), NEW b \in Seq(Ids)
  PROVE  Unknowns(a \o b) = Unknowns(a) + Unknowns(b)
<1> DEFINE l == a \o b
           n == Len(a)
           p == Len(b)
<1>1. l \in Seq(Ids) /\ Len(l) = n + p /\ n \in Nat /\ p \in Nat
      /\ (\A k \in 1 .. n : l[k] = a[k]) /\ (\A k \in 1 .. p : l[n + k] = b[k])
  OBVIOUS
<1> HIDE DEF l
<1>2. PICK c : Counts(c, l) /\ Unknowns(l) = c[Len(l)]
  BY <1>1, UnknownsCount
<1>3. PICK d : Counts(d, b) /\ Unknowns(b) = d[Len(b)]
  BY UnknownsCount
<1>4. PICK e : Counts(e, a) /\ Unknowns(a) = e[Len(a)]
  BY UnknownsCount
<1>5. e[n] = c[n]
  <2>1. n \in Nat /\ n <= Len(a) /\ n <= Len(l) /\ n \in 0 .. n
    BY <1>1
  <2>2. \A k \in 1 .. n : a[k] = l[k]
    BY <1>1
  <2> HIDE DEF n
  <2> QED BY <1>1, <1>2, <1>4, <2>1, <2>2, CountsAgree
<1> HIDE DEF n, p
<1> DEFINE P == {k \in Nat : k <= p => c[n + k] = c[n] + d[k]}
<1>n. c[n] \in Nat /\ \A k \in 0 .. p : d[k] \in Nat
  BY <1>1, <1>2, <1>3 DEF Counts, p
<1>6. 0 \in P
  BY <1>1, <1>3, <1>n DEF Counts
<1>7. ASSUME NEW k \in P PROVE k + 1 \in P
  <2> SUFFICES ASSUME k + 1 <= p PROVE c[n + (k + 1)] = c[n] + d[k + 1]
    OBVIOUS
  <2>1. n + (k + 1) \in 1 .. Len(l) /\ k + 1 \in 1 .. p /\ k + 1 - 1 = k /\ k <= p
        /\ n + (k + 1) - 1 = n + k /\ k \in 0 .. p /\ k \in Nat
    BY <1>1
  <2>2. c[n + (k + 1)] = IF l[n + (k + 1)] = Unk THEN c[n + k] + 1 ELSE c[n + k]
    <3>1. \A i \in 1 .. Len(l) : c[i] = IF l[i] = Unk THEN c[i - 1] + 1 ELSE c[i - 1]
      BY <1>2 DEF Counts
    <3> DEFINE i == n + (k + 1)
    <3>2. i \in 1 .. Len(l) /\ i - 1 = n + k
      BY <1>1, <2>1
    <3> HIDE DEF i
    <3>3. c[i] = IF l[i] = Unk THEN c[n + k] + 1 ELSE c[n + k]
      BY <3>1, <3>2
    <3> QED BY <3>3 DEF i
  <2>3. d[k + 1] = IF b[k + 1] = Unk THEN d[k] + 1 ELSE d[k]
    BY <1>3, <2>1 DEF Counts, p
  <2>4. l[n + (k + 1)] = b[k + 1] /\ c[n + k] = c[n] + d[k] /\ d[k] \in Nat
    BY <1>1, <1>n, <2>1
  <2> QED BY <1>n, <2>2, <2>3, <2>4
<1>8. P = Nat
  <2> HIDE DEF P
  <2>1. P \in SUBSET Nat
    BY DEF P
  <2> QED BY <2>1, <1>6, <1>7, NatInduct
<1>9. c[n + p] = c[n] + d[p]
  <2>1. p \in P
    BY <1>1, <1>8
  <2> QED BY <1>1, <2>1
<1> QED BY <1>1, <1>2, <1>3, <1>4, <1>5, <1>9 DEF l, n, p

(* Known ids among the first k: one more id adds at most one. *)
LEMMA CountsGrow ==
  ASSUME NEW ids \in Seq(Ids), NEW c, Counts(c, ids),
         NEW j \in 0 .. Len(ids)
  PROVE  \A k \in j .. Len(ids) : c[j] <= c[k] /\ c[k] - c[j] <= k - j
<1> DEFINE P == {k \in Nat : j <= k /\ k <= Len(ids) => c[j] <= c[k] /\ c[k] - c[j] <= k - j}
<1>0. Len(ids) \in Nat /\ \A k \in 0 .. Len(ids) : c[k] \in Nat
  BY DEF Counts
<1>1. 0 \in P
  <2> SUFFICES ASSUME j <= 0 PROVE c[j] <= c[0] /\ c[0] - c[j] <= 0 - j
    OBVIOUS
  <2>1. j = 0
    BY <1>0
  <2> QED BY <1>0, <2>1
<1>2. ASSUME NEW k \in P PROVE k + 1 \in P
  <2> SUFFICES ASSUME j <= k + 1, k + 1 <= Len(ids)
               PROVE  c[j] <= c[k + 1] /\ c[k + 1] - c[j] <= k + 1 - j
    OBVIOUS
  <2>0. c[j] \in Nat /\ c[k + 1] \in Nat /\ c[k] \in Nat
    BY <1>0
  <2>1. CASE j = k + 1
    BY <2>0, <2>1
  <2>2. CASE j # k + 1
    <3>1. j <= k /\ k <= Len(ids) /\ k + 1 \in 1 .. Len(ids) /\ k + 1 - 1 = k
      BY <1>0, <2>2
    <3>2. c[k + 1] = IF ids[k + 1] = Unk THEN c[k] + 1 ELSE c[k]
      BY <3>1 DEF Counts
    <3>3. c[j] <= c[k] /\ c[k] - c[j] <= k - j
      BY <3>1
    <3> QED BY <2>0, <3>2, <3>3
  <2> QED BY <2>1, <2>2
<1>3. P = Nat
  <2> HIDE DEF P
  <2>1. P \in SUBSET Nat
    BY DEF P
  <2> QED BY <2>1, <1>1, <1>2, NatInduct
<1> QED BY <1>0, <1>3

(* The shortest prefix with m known ids is there if there are that many,   *)
(* and more ids do not change it.                                          *)
LEMMA UsableIs ==
  ASSUME NEW ids \in Seq(Ids), NEW m \in Nat \ {0}, Len(ids) - Unknowns(ids) >= m
  PROVE  LET k == UsablePrefix(ids, m)
         IN /\ k \in 1 .. Len(ids)
            /\ k - Unknowns(SubSeq(ids, 1, k)) = m
            /\ \A j \in 1 .. Len(ids) : j - Unknowns(SubSeq(ids, 1, j)) = m => k <= j
<1> DEFINE S == {k \in 1 .. Len(ids) : k - Unknowns(SubSeq(ids, 1, k)) = m}
           known(c, k) == k - c[k]
<1>0. Len(ids) \in Nat
  OBVIOUS
<1>1. PICK c : Counts(c, ids) /\ Unknowns(ids) = c[Len(ids)]
  BY UnknownsCount
<1>c. \A k \in 0 .. Len(ids) : c[k] \in Nat
  BY <1>1 DEF Counts
<1>2. \A k \in 1 .. Len(ids) : Unknowns(SubSeq(ids, 1, k)) = c[k]
  <2>1. \A k \in 1 .. Len(ids) : k \in 0 .. Len(ids)
    OBVIOUS
  <2> QED BY <1>1, <2>1, CountsPrefix
<1> DEFINE T == {k \in 0 .. Len(ids) : known(c, k) >= m}
           K == Min(T)
<1>3. T \in SUBSET Nat /\ Len(ids) \in T
  BY <1>0, <1>1
<1>4. K \in T /\ \A k \in T : K <= k
  BY <1>3, MinOfNat
<1> HIDE DEF K
<1>5. K # 0
  BY <1>1, <1>4 DEF Counts
<1>6. K \in 1 .. Len(ids) /\ K - 1 \in 0 .. Len(ids) /\ K - 1 \notin T
  BY <1>0, <1>4, <1>5
<1>7. c[K] = IF ids[K] = Unk THEN c[K - 1] + 1 ELSE c[K - 1]
  BY <1>1, <1>6 DEF Counts
<1>8. known(c, K) = m
  <2>1. K - c[K] >= m /\ ~(K - 1 - c[K - 1] >= m) /\ c[K] \in Nat /\ c[K - 1] \in Nat
    BY <1>c, <1>4, <1>6
  <2> QED BY <1>6, <1>7, <2>1
<1>9. K \in S
  BY <1>2, <1>6, <1>8
<1>10. S \in SUBSET Nat /\ S # {}
  BY <1>9
<1>11. Min(S) \in S /\ \A k \in S : Min(S) <= k
  BY <1>10, MinOfNat
<1>12. UsablePrefix(ids, m) = Min(S)
  BY DEF UsablePrefix
<1> QED BY <1>11, <1>12

LEMMA UsableStays ==
  ASSUME NEW a \in Seq(Ids), NEW b \in Seq(Ids), NEW m \in Nat \ {0},
         Len(a) - Unknowns(a) >= m, Len(a) <= Len(b), \A k \in 1 .. Len(a) : b[k] = a[k]
  PROVE  /\ UsablePrefix(b, m) = UsablePrefix(a, m)
         /\ Len(b) - Unknowns(b) >= Len(a) - Unknowns(a)
<1>0. Len(a) \in Nat /\ Len(b) \in Nat
  OBVIOUS
<1>1. PICK c : Counts(c, a) /\ Unknowns(a) = c[Len(a)]
  BY UnknownsCount
<1>2. PICK d : Counts(d, b) /\ Unknowns(b) = d[Len(b)]
  BY UnknownsCount
<1>3. \A k \in 0 .. Len(a) : c[k] = d[k]
  BY <1>0, <1>1, <1>2, CountsAgree
<1>4. Len(b) - Unknowns(b) >= Len(a) - Unknowns(a)
  <2>1. Len(a) \in 0 .. Len(b) /\ Len(b) \in Len(a) .. Len(b) /\ Len(a) \in 0 .. Len(a)
    BY <1>0
  <2>2. d[Len(b)] - d[Len(a)] <= Len(b) - Len(a)
    BY <1>2, <2>1, CountsGrow
  <2>3. d[Len(b)] \in Nat /\ d[Len(a)] \in Nat /\ d[Len(a)] = c[Len(a)]
    BY <1>2, <1>3, <2>1 DEF Counts
  <2> QED BY <1>0, <1>1, <1>2, <2>2, <2>3
<1> DEFINE i == UsablePrefix(a, m)
           j == UsablePrefix(b, m)
<1>5. i \in 1 .. Len(a) /\ i - Unknowns(SubSeq(a, 1, i)) = m
      /\ \A k \in 1 .. Len(a) : k - Unknowns(SubSeq(a, 1, k)) = m => i <= k
  BY UsableIs
<1>6. j \in 1 .. Len(b) /\ j - Unknowns(SubSeq(b, 1, j)) = m
      /\ \A k \in 1 .. Len(b) : k - Unknowns(SubSeq(b, 1, k)) = m => j <= k
  <2>1. Unknowns(a) \in Nat /\ Unknowns(b) \in Nat
    <3>1. Len(a) \in 0 .. Len(a) /\ Len(b) \in 0 .. Len(b)
      BY <1>0
    <3> QED BY <1>1, <1>2, <3>1 DEF Counts
  <2>2. Len(b) - Unknowns(b) >= m
    BY <1>0, <1>4, <2>1
  <2> QED BY <2>2, UsableIs
<1> HIDE DEF i, j
<1>7. \A k \in 1 .. Len(a) : Unknowns(SubSeq(a, 1, k)) = Unknowns(SubSeq(b, 1, k))
  <2> TAKE k \in 1 .. Len(a)
  <2>1. k \in 0 .. Len(a) /\ k \in 0 .. Len(b)
    BY <1>0
  <2> QED BY <1>1, <1>2, <1>3, <2>1, CountsPrefix
<1>8. j <= i
  BY <1>0, <1>5, <1>6, <1>7
<1>9. i <= j
  BY <1>0, <1>5, <1>6, <1>7, <1>8
<1> QED BY <1>4, <1>5, <1>6, <1>8, <1>9 DEF i, j

-----------------------------------------------------------------------------
(* Without a limit *)

(* A state without a limit, and one that has at least the ids of another. *)
Typed(s) ==
  /\ State(s) /\ ~s.truncated
  /\ s.ids \in Seq(Ids) /\ s.seg \in Seq(CodePoints)
  /\ s.unk = Unknowns(s.ids)

More(s, r) ==
  /\ Typed(s) /\ Typed(r)
  /\ Len(s.ids) <= Len(r.ids)
  /\ \A k \in 1 .. Len(s.ids) : r.ids[k] = s.ids[k]

LEMMA MoreIsOrder ==
  /\ \A s : Typed(s) => More(s, s)
  /\ \A s, q, r : More(s, q) /\ More(q, r) => More(s, r)
<1>1. \A s : Typed(s) => Len(s.ids) \in Nat
  BY DEF Typed
<1>2. ASSUME NEW s, NEW q, NEW r, More(s, q), More(q, r) PROVE More(s, r)
  <2>1. Typed(s) /\ Typed(q) /\ Typed(r)
    BY <1>2 DEF More
  <2>2. Len(s.ids) \in Nat /\ Len(q.ids) \in Nat /\ Len(r.ids) \in Nat
    BY <1>1, <2>1
  <2> QED BY <1>2, <2>1, <2>2 DEF More
<1> QED BY <1>1, <1>2 DEF More

LEMMA MoreIsPrefix ==
  ASSUME NEW s, NEW r, More(s, r)
  PROVE  IsPrefix(s.ids, r.ids)
<1> DEFINE a == s.ids
           b == r.ids
<1>1. a \in Seq(Ids) /\ b \in Seq(Ids) /\ Len(a) <= Len(b) /\ \A k \in 1 .. Len(a) : b[k] = a[k]
  BY DEF More, Typed
<1> HIDE DEF a, b
<1>2. SubSeq(a, 1, Len(a)) = a
  BY <1>1
<1>3. SubSeq(b, 1, Len(a)) = a
  BY <1>1
<1> QED BY <1>1, <1>2, <1>3 DEF IsPrefix, a, b

-----------------------------------------------------------------------------
(* Without a limit ids are only added. *)

LEMMA AppendMore ==
  ASSUME NEW s, Typed(s), NEW ids \in Seq(Ids), NEW u
  PROVE  /\ More(s, Append1(s, ids, 0, u)) /\ Append1(s, ids, 0, u).seg = s.seg
         /\ More(s, AppendUncapped(s, ids, 0, u)) /\ AppendUncapped(s, ids, 0, u).seg = s.seg
<1> DEFINE l == s.ids \o ids
           k == s.unk + Unknowns(ids)
<1>1. s.ids \in Seq(Ids) /\ State(s) /\ s.seg \in Seq(CodePoints)
      /\ ~s.truncated /\ s.unk = Unknowns(s.ids)
  BY DEF Typed
<1>k. k = Unknowns(l)
  BY <1>1, UnknownsConcat
<1>2. /\ l \in Seq(Ids) /\ Len(s.ids) <= Len(l) /\ \A i \in 1 .. Len(s.ids) : l[i] = s.ids[i]
  BY <1>1
<1>3. Append1(s, ids, 0, u) = [s EXCEPT !.ids = l, !.unk = k]
  BY DEF Append1, CapAfterAppend
<1> HIDE DEF l, k
<1>4. ASSUME NEW r, r = [s EXCEPT !.ids = l, !.unk = k]
      PROVE  State(r) /\ r.ids = l /\ r.seg = s.seg /\ r.unk = k /\ ~r.truncated
  BY <1>1, <1>4 DEF State
<1>5. ASSUME NEW r, r = [s EXCEPT !.ids = l, !.unk = k]
      PROVE  More(s, r) /\ r.seg = s.seg
  BY <1>1, <1>2, <1>4, <1>5, <1>k DEF More, Typed
<1> QED BY <1>3, <1>5, MoreIsOrder DEF AppendUncapped

LEMMA FlushMore ==
  ASSUME NEW s, Typed(s), NEW u
  PROVE  More(s, Flush(s, 0, u))
<1>1. CASE s.seg = <<>>
  BY <1>1, MoreIsOrder DEF Flush
<1>2. CASE s.seg # <<>>
  <2> DEFINE a == Append1(s, WordPiece(s.seg), 0, u)
  <2>1. More(s, a)
    BY AppendMore, WordPieceIn DEF Typed
  <2>2. Flush(s, 0, u) = [a EXCEPT !.seg = <<>>]
    BY <1>2 DEF Flush
  <2> HIDE DEF a
  <2>3. <<>> \in Seq(CodePoints)
    OBVIOUS
  <2>4. ASSUME NEW b \in Seq(CodePoints), NEW r, r = [a EXCEPT !.seg = b] PROVE More(s, r)
    <3>1. State(a) /\ a.ids \in Seq(Ids) /\ ~a.truncated /\ a.unk = Unknowns(a.ids)
      BY <2>1 DEF More, Typed
    <3>2. State(r) /\ r.ids = a.ids /\ r.seg = b /\ r.unk = a.unk /\ ~r.truncated
      BY <2>4, <3>1 DEF State
    <3> QED BY <2>1, <2>4, <3>1, <3>2 DEF More, Typed
  <2> QED BY <2>2, <2>3, <2>4
<1> QED BY <1>1, <1>2

LEMMA FeedMore ==
  ASSUME NEW s, Typed(s), NEW cp \in CodePoints, NEW u
  PROVE  More(s, Feed(s, cp, 0, u))
<1>1. CASE s.truncated
  BY <1>1, MoreIsOrder DEF Feed
<1>2. CASE ~s.truncated /\ cp \in Space
  BY <1>2, FlushMore DEF Feed
<1>3. CASE ~s.truncated /\ cp \notin Space /\ cp \in Punct
  <2>1. More(s, Flush(s, 0, u)) /\ Typed(Flush(s, 0, u))
    BY FlushMore DEF More
  <2>2. <<cp>> \in Seq(CodePoints)
    OBVIOUS
  <2>3. More(Flush(s, 0, u), AppendUncapped(Flush(s, 0, u), WordPiece(<<cp>>), 0, u))
    BY <2>1, <2>2, WordPieceIn, AppendMore
  <2>4. Feed(s, cp, 0, u) = AppendUncapped(Flush(s, 0, u), WordPiece(<<cp>>), 0, u)
    BY <1>3 DEF Feed
  <2> QED BY <2>1, <2>3, <2>4, MoreIsOrder
<1>4. CASE ~s.truncated /\ cp \notin Space \cup Punct
  <2> DEFINE l == Append(s.seg, cp)
  <2>1. Feed(s, cp, 0, u) = [s EXCEPT !.seg = l]
    BY <1>4 DEF Feed
  <2>2. l \in Seq(CodePoints)
    BY DEF Typed
  <2> HIDE DEF l
  <2>3. ASSUME NEW r, r = [s EXCEPT !.seg = l] PROVE More(s, r)
    <3>1. State(r) /\ r.ids = s.ids /\ r.seg = l /\ r.unk = s.unk /\ ~r.truncated
      BY <2>3 DEF State, Typed
    <3>2. Len(s.ids) \in Nat
      BY DEF Typed
    <3> QED BY <2>2, <3>1, <3>2 DEF More, Typed
  <2> QED BY <2>1, <2>3
<1> QED BY <1>1, <1>2, <1>3, <1>4

LEMMA FedMore ==
  ASSUME NEW s, Typed(s), NEW cps \in Seq(CodePoints), NEW u, NEW f, Fed(f, s, cps, 0, u),
         NEW j \in 0 .. Len(cps)
  PROVE  Typed(f[j]) /\ \A k \in j .. Len(cps) : More(f[j], f[k])
<1> DEFINE P == {n \in Nat : n <= Len(cps) =>
                   Typed(f[n]) /\ \A i \in 0 .. n : More(f[i], f[n])}
<1>0. Len(cps) \in Nat
  OBVIOUS
<1>1. 0 \in P
  BY MoreIsOrder DEF Fed
<1>2. ASSUME NEW n \in P PROVE n + 1 \in P
  <2> SUFFICES ASSUME n + 1 <= Len(cps)
               PROVE  Typed(f[n + 1]) /\ \A i \in 0 .. n + 1 : More(f[i], f[n + 1])
    OBVIOUS
  <2>0. n + 1 \in 1 .. Len(cps) /\ n + 1 - 1 = n /\ n <= Len(cps)
    BY <1>0
  <2>1. f[n + 1] = Feed(f[n], cps[n + 1], 0, u)
    BY <2>0 DEF Fed
  <2>2. Typed(f[n]) /\ cps[n + 1] \in CodePoints
    BY <2>0
  <2>3. More(f[n], f[n + 1])
    BY <2>1, <2>2, FeedMore
  <2>4. Typed(f[n + 1])
    BY <2>3 DEF More
  <2>5. ASSUME NEW i \in 0 .. n + 1 PROVE More(f[i], f[n + 1])
    <3>1. CASE i = n + 1
      BY <2>4, <3>1, MoreIsOrder
    <3>2. CASE i # n + 1
      <4>1. i \in 0 .. n
        BY <3>2
      <4>2. More(f[i], f[n])
        BY <2>0, <4>1
      <4> QED BY <2>3, <4>2, MoreIsOrder
    <3> QED BY <3>1, <3>2
  <2> QED BY <2>4, <2>5
<1>3. P = Nat
  <2> HIDE DEF P
  <2>1. P \in SUBSET Nat
    BY DEF P
  <2> QED BY <2>1, <1>1, <1>2, NatInduct
<1>4. j \in P /\ j <= Len(cps)
  BY <1>0, <1>3
<1>5. \A k \in j .. Len(cps) : k \in P /\ k <= Len(cps) /\ j \in 0 .. k
  BY <1>0, <1>3
<1> QED BY <1>4, <1>5

LEMMA FeedAllMore ==
  ASSUME NEW s, Typed(s), NEW cps \in Seq(CodePoints), NEW u
  PROVE  More(s, FeedAll(s, cps, 0, u))
<1>1. Len(cps) \in Nat /\ DOMAIN cps = 1 .. Len(cps)
  OBVIOUS
<1>2. PICK f : Fed(f, s, cps, 0, u) /\ FeedAll(s, cps, 0, u) = f[Len(cps)]
  BY <1>1, FeedAllIs DEF Typed
<1>3. f[0] = s
  BY <1>2 DEF Fed
<1>4. 0 \in 0 .. Len(cps) /\ Len(cps) \in 0 .. Len(cps)
  BY <1>1
<1> QED BY <1>2, <1>3, <1>4, FedMore

(* A space at the beginning takes the word that is open. *)
LEMMA FeedAllTakes ==
  ASSUME NEW s, Typed(s), ~s.truncated, NEW cps \in Seq(CodePoints), Len(cps) > 0,
         cps[1] \in Space, NEW u
  PROVE  More(Flush(s, 0, u), FeedAll(s, cps, 0, u))
<1>1. Len(cps) \in Nat /\ DOMAIN cps = 1 .. Len(cps)
  OBVIOUS
<1>2. PICK f : Fed(f, s, cps, 0, u) /\ FeedAll(s, cps, 0, u) = f[Len(cps)]
  BY <1>1, FeedAllIs
<1>3. 1 \in 0 .. Len(cps) /\ 1 \in 1 .. Len(cps) /\ Len(cps) \in 1 .. Len(cps)
  BY <1>1
<1>4. f[1] = Flush(s, 0, u)
  <2>1. f[0] = s /\ f[1] = Feed(f[1 - 1], cps[1], 0, u)
    BY <1>2, <1>3 DEF Fed
  <2>2. f[1] = Feed(s, cps[1], 0, u)
    BY <2>1
  <2> QED BY <2>2, FeedKeeps DEF Typed
<1>5. More(f[1], f[Len(cps)])
  BY <1>2, <1>3, FedMore
<1> QED BY <1>2, <1>4, <1>5

LEMMA AddedIn ==
  ASSUME NEW t \in DOMAIN Added
  PROVE  <<Added[t]>> \in Seq(Ids)
<1>1. Added[t] \in Ids
  BY DEF Ids
<1> QED BY <1>1

(* Reading on moves no id. *)
LEMMA AtMore ==
  ASSUME NEW s, NEW a, More(s, a), NEW b \in Nat, NEW r, r = [a EXCEPT !.at = b]
  PROVE  More(s, r)
<1>1. /\ State(a) /\ a.ids \in Seq(Ids) /\ a.seg \in Seq(CodePoints)
      /\ ~a.truncated /\ a.unk = Unknowns(a.ids)
  BY DEF More, Typed
<1>2. State(r) /\ r.ids = a.ids /\ r.seg = a.seg /\ r.unk = a.unk /\ ~r.truncated
  BY <1>1 DEF State
<1> QED BY <1>1, <1>2 DEF More, Typed

LEMMA StepMore ==
  ASSUME NEW text \in ByteSeq, NEW s, Typed(s), s.at <= Len(text), NEW u
  PROVE  More(s, Step(text, s, 0, u))
<1>0. State(s) /\ Len(text) \in Nat /\ s.at \in Nat
  BY DEF Typed, State, ByteSeq
<1>1. CASE Stopped(text, s)
  BY <1>1, StepStops, MoreIsOrder DEF Stopped
<1>2. CASE ~Stopped(text, s) /\ AddedAt(text, s.at) # {}
  <2> DEFINE t == CHOOSE t \in AddedAt(text, s.at) : TRUE
             f == Flush(s, 0, u)
             a == AppendUncapped(f, <<Added[t]>>, 0, u)
             r == [a EXCEPT !.at = @ + Len(t)]
  <2>1. Step(text, s, 0, u) = r
    BY <1>2 DEF Step, Stopped, AddedAt
  <2>2. t \in DOMAIN Added /\ Len(t) \in Nat
    BY <1>2, TablesAssumption DEF AddedAt
  <2> HIDE DEF t
  <2>3. More(s, f) /\ Typed(f)
    BY FlushMore DEF More
  <2> HIDE DEF f
  <2>4. More(s, a)
    BY <2>2, <2>3, AddedIn, AppendMore, MoreIsOrder
  <2>5. a.at \in Nat
    BY <2>4 DEF More, Typed, State
  <2> HIDE DEF a
  <2>6. r = [a EXCEPT !.at = a.at + Len(t)] /\ a.at + Len(t) \in Nat
    BY <2>2, <2>5
  <2> HIDE DEF r
  <2> QED BY <2>1, <2>4, <2>6, AtMore
<1>3. CASE ~Stopped(text, s) /\ AddedAt(text, s.at) = {} /\ ~Decodes(text, s.at)
  <2>1. Step(text, s, 0, u) = [s EXCEPT !.bad = TRUE]
    BY <1>3 DEF Step, Stopped, AddedAt
  <2>2. ASSUME NEW r, r = [s EXCEPT !.bad = TRUE] PROVE More(s, r)
    <3>1. State(r) /\ r.ids = s.ids /\ r.seg = s.seg /\ r.unk = s.unk /\ ~r.truncated
      BY <1>0, <2>2 DEF State, Typed
    <3>2. Len(s.ids) \in Nat
      BY DEF Typed
    <3> QED BY <3>1, <3>2 DEF More, Typed
  <2> QED BY <2>1, <2>2
<1>4. CASE ~Stopped(text, s) /\ AddedAt(text, s.at) = {} /\ Decodes(text, s.at)
  <2> DEFINE cp == text[s.at + 1]
             b == s.at + Width[cp]
             q == [s EXCEPT !.at = b]
  <2>1. Goes(text, s)
    BY <1>0, <1>4 DEF Goes, Stopped
  <2>2. cp \in CodePoints /\ State(q) /\ Step(text, s, 0, u) = FeedAll(q, Cleaned(cp), 0, u)
    BY <1>4, <2>1, StepReads
  <2>3. b \in Nat
    BY <1>0, <2>2, WidthIn
  <2> HIDE DEF cp, b
  <2>4. More(s, q)
    BY <2>3, AtMore, MoreIsOrder
  <2> HIDE DEF q
  <2>5. More(q, FeedAll(q, Cleaned(cp), 0, u))
    BY <2>2, <2>4, CleanedIn, FeedAllMore DEF More
  <2> QED BY <2>2, <2>4, <2>5, MoreIsOrder
<1> QED BY <1>1, <1>2, <1>3, <1>4

LEMMA RunMore ==
  ASSUME NEW text \in ByteSeq, NEW u, NEW g, IsRun(g, text, 0, u)
  PROVE  \A k \in 0 .. Len(text) : Typed(g[k]) /\ \A j \in 0 .. k : More(g[j], g[k])
<1> DEFINE P == {k \in Nat : k <= Len(text) =>
                   Typed(g[k]) /\ \A j \in 0 .. k : More(g[j], g[k])}
<1>0. Len(text) \in Nat
  BY DEF ByteSeq
<1>1. 0 \in P
  <2>1. Typed(Start)
    BY StartState, UnknownsOfNone DEF Typed, Start
  <2> QED BY <2>1, RunTurns, MoreIsOrder
<1>2. ASSUME NEW k \in P PROVE k + 1 \in P
  <2> SUFFICES ASSUME k + 1 <= Len(text)
               PROVE  Typed(g[k + 1]) /\ \A j \in 0 .. k + 1 : More(g[j], g[k + 1])
    OBVIOUS
  <2>0. k \in 0 .. Len(text) - 1 /\ k \in 0 .. Len(text) /\ k <= Len(text)
    BY <1>0
  <2>1. g[k + 1] = Step(text, g[k], 0, u)
    BY <2>0, RunTurns
  <2>2. Typed(g[k]) /\ g[k].at <= Len(text)
    BY <2>0, RunSound DEF Sound
  <2>3. More(g[k], g[k + 1])
    BY <2>1, <2>2, StepMore
  <2>4. Typed(g[k + 1])
    BY <2>3 DEF More
  <2>5. ASSUME NEW j \in 0 .. k + 1 PROVE More(g[j], g[k + 1])
    <3>1. CASE j = k + 1
      BY <2>4, <3>1, MoreIsOrder
    <3>2. CASE j # k + 1
      <4>1. j \in 0 .. k
        BY <3>2
      <4>2. More(g[j], g[k])
        BY <2>0, <4>1
      <4> QED BY <2>3, <4>2, MoreIsOrder
    <3> QED BY <3>1, <3>2
  <2> QED BY <2>4, <2>5
<1>3. P = Nat
  <2> HIDE DEF P
  <2>1. P \in SUBSET Nat
    BY DEF P
  <2> QED BY <2>1, <1>1, <1>2, NatInduct
<1> QED BY <1>0, <1>3

(* Before a CJK character the word that is open is taken. *)
LEMMA CutTakes ==
  ASSUME NEW text \in ByteSeq, BreaksKept(text), NEW s, Typed(s), Goes(text, s), NEW u,
         Breaks(text, s.at), text[s.at + 1] \in Cjk
  PROVE  \E b : Flush(s, 0, u).ids = b.ids /\ More(b, Step(text, s, 0, u))
<1>0. State(s) /\ s.at \in Nat
  BY DEF Typed, State
<1>1. CASE AddedAt(text, s.at) # {}
  <2> DEFINE t == CHOOSE t \in AddedAt(text, s.at) : TRUE
             f == Flush(s, 0, u)
             a == AppendUncapped(f, <<Added[t]>>, 0, u)
             r == [a EXCEPT !.at = @ + Len(t)]
  <2>1. Step(text, s, 0, u) = r
    BY <1>1 DEF Step, Goes, AddedAt
  <2>2. t \in DOMAIN Added /\ Len(t) \in Nat
    BY <1>1, TablesAssumption DEF AddedAt
  <2> HIDE DEF t
  <2>3. Typed(f)
    BY FlushMore DEF More
  <2> HIDE DEF f
  <2>4. More(f, a)
    BY <2>2, <2>3, AddedIn, AppendMore
  <2>5. a.at \in Nat
    BY <2>4 DEF More, Typed, State
  <2> HIDE DEF a
  <2>6. r = [a EXCEPT !.at = a.at + Len(t)] /\ a.at + Len(t) \in Nat
    BY <2>2, <2>5
  <2> HIDE DEF r
  <2>7. More(f, r)
    BY <2>4, <2>6, AtMore
  <2> QED BY <2>1, <2>7 DEF f
<1>2. CASE AddedAt(text, s.at) = {}
  <2> DEFINE cp == text[s.at + 1]
             b == s.at + Width[cp]
             q == [s EXCEPT !.at = b]
  <2>1. cp \in CodePoints /\ ~q.truncated
        /\ Step(text, s, 0, u) = FeedAll(q, Cleaned(cp), 0, u)
    BY <1>2, StepReads DEF Breaks
  <2>2. b \in Nat
    BY <1>0, <2>1, WidthIn
  <2>3. cp \in Cjk \ Control /\ Stable(cp)
    BY <1>0, BreakKept DEF Breaks
  <2> HIDE DEF cp, b
  <2>4. /\ Cleaned(cp) \in Seq(CodePoints) /\ Len(Cleaned(cp)) > 0
        /\ Cleaned(cp)[1] \in Space
    BY <2>3, BreakCleaned
  <2>5. More(s, q)
    BY <2>2, AtMore, MoreIsOrder
  <2>6. q.ids = s.ids /\ q.unk = s.unk /\ q.seg = s.seg
        /\ q.truncated = s.truncated /\ q.bad = s.bad
    BY <1>0 DEF State
  <2> HIDE DEF q
  <2>7. Typed(q)
    BY <2>5 DEF More
  <2>8. Alike(s, q)
    BY <1>0, <2>6, <2>7 DEF Alike, Typed
  <2>9. Flush(s, 0, u).ids = Flush(q, 0, u).ids
    BY <2>8, FlushAlike DEF Alike
  <2>10. More(Flush(q, 0, u), FeedAll(q, Cleaned(cp), 0, u))
    BY <2>1, <2>4, <2>7, FeedAllTakes
  <2> QED BY <2>1, <2>9, <2>10
<1> QED BY <1>1, <1>2

(* So the stream of a slice begins that of its text. *)
LEMMA CutStream ==
  ASSUME NEW text \in ByteSeq, BreaksKept(text), NEW n, IsCut(text, n), NEW u
  PROVE  IsPrefix(Tokenize(SubSeq(text, 1, n), 0, u).ids, Tokenize(text, 0, u).ids)
<1> DEFINE slice == SubSeq(text, 1, n)
<1>0. Len(text) \in Nat /\ n \in 0 .. Len(text) /\ n \in 1 .. Len(text) - 1
  BY DEF IsCut, ByteSeq
<1>1. slice \in ByteSeq /\ Len(slice) = n
  BY <1>0, SliceSeq
<1>2. PICK g : IsRun(g, slice, 0, u) /\ Tokenize(slice, 0, u) = Finished(g[n], 0, u)
  BY <1>1, TokenizeIsRun
<1>3. PICK h : IsRun(h, text, 0, u) /\ Tokenize(text, 0, u) = Finished(h[Len(text)], 0, u)
  BY TokenizeIsRun
<1>4. PICK k \in 1 .. n :
        /\ g[n] = h[k] /\ Stopped(slice, h[k])
        /\ ~Stopped(slice, h[k - 1]) /\ h[k - 1].at < n
        /\ h[k] = Step(text, h[k - 1], 0, u)
  BY <1>2, <1>3, RunsMeet
<1>5. k \in 0 .. Len(text) /\ k - 1 \in 0 .. Len(text) /\ k \in 0 .. Len(text) - 1
      /\ k + 1 \in 0 .. Len(text) /\ Len(text) \in 0 .. Len(text)
      /\ k \in 0 .. Len(text) /\ k + 1 \in 0 .. Len(text)
  BY <1>0
<1> DEFINE q == h[k]
           e == Tokenize(slice, 0, u)
           z == h[Len(text)]
<1>6. Typed(q) /\ Typed(z) /\ More(q, z) /\ More(h[k + 1], z) /\ State(q)
  BY <1>3, <1>5, RunMore DEF Typed
<1>7. e = Finished(q, 0, u)
  BY <1>2, <1>4
<1>8. More(z, Finished(z, 0, u))
  BY <1>6, FlushMore, MoreIsOrder DEF Finished
<1> HIDE DEF e, slice, z
<1>9. CASE q.truncated \/ q.bad
  <2>1. e = q
    BY <1>7, <1>9 DEF Finished
  <2>2. More(e, Finished(z, 0, u))
    BY <1>6, <1>8, <2>1, MoreIsOrder
  <2> QED BY <1>3, <2>2, MoreIsPrefix DEF e, slice, z
<1>10. CASE ~q.truncated /\ ~q.bad
  <2>1. q.at = n
    BY <1>1, <1>4, <1>10 DEF Stopped
  <2>2. e = Flush(q, 0, u)
    BY <1>7, <1>10 DEF Finished
  <2>4. PICK p \in 0 .. n : Breaks(text, p)
          /\ (n = p + Width[text[p + 1]] \/ (n = p /\ text[p + 1] \in Cjk))
    BY DEF IsCut
  <2>5. CASE n = p + Width[text[p + 1]]
    <3>1. Goes(text, h[k - 1])
      <4>1. State(h[k - 1]) /\ h[k - 1].at \in Nat
        BY <1>3, <1>5, RunSound DEF Sound, State
      <4> QED BY <1>0, <1>4, <4>1 DEF Goes, Stopped
    <3>2. q.seg = <<>>
      BY <1>4, <1>10, <2>1, <2>4, <2>5, <3>1, CutCloses
    <3>3. e = q
      BY <2>2, <3>2 DEF Flush
    <3>4. More(e, Finished(z, 0, u))
      BY <1>6, <1>8, <3>3, MoreIsOrder
    <3> QED BY <1>3, <3>4, MoreIsPrefix DEF e, slice, z
  <2>6. CASE n = p /\ text[p + 1] \in Cjk
    <3>1. Goes(text, q) /\ Breaks(text, q.at) /\ text[q.at + 1] \in Cjk
      BY <1>0, <1>6, <1>10, <2>1, <2>4, <2>6 DEF Goes
    <3>2. h[k + 1] = Step(text, q, 0, u)
      BY <1>3, <1>5, RunTurns
    <3>3. IsPrefix(e.ids, Finished(z, 0, u).ids)
      <4>1. PICK b : e.ids = b.ids /\ More(b, h[k + 1])
        BY <1>6, <2>2, <3>1, <3>2, CutTakes
      <4>2. More(b, Finished(z, 0, u))
        BY <1>6, <1>8, <4>1, MoreIsOrder
      <4> QED BY <4>1, <4>2, MoreIsPrefix
    <3> QED BY <1>3, <3>3 DEF e, slice, z
  <2> QED BY <2>4, <2>5, <2>6
<1> QED BY <1>9, <1>10

LEMMA StreamTyped ==
  ASSUME NEW text \in ByteSeq, NEW u
  PROVE  Typed(Tokenize(text, 0, u))
<1>1. PICK h : IsRun(h, text, 0, u) /\ Tokenize(text, 0, u) = Finished(h[Len(text)], 0, u)
  BY TokenizeIsRun
<1>2. Len(text) \in 0 .. Len(text)
  BY DEF ByteSeq
<1>3. Typed(h[Len(text)])
  BY <1>1, <1>2, RunMore
<1> QED BY <1>1, <1>3, FlushMore DEF Finished, More

-----------------------------------------------------------------------------
(* Capping ids as they come and afterwards *)

(* How many ids embed_token_ids_value keeps, and whether it drops any. *)
Kept(ids, m, u) ==
  IF m = 0 THEN Len(ids)
  ELSE IF DropUnk /\ u
  THEN IF Len(ids) - Unknowns(ids) > m THEN UsablePrefix(ids, m) ELSE Len(ids)
  ELSE Min({Len(ids), m})

Counted(ids, u) == IF u /\ DropUnk THEN Len(ids) - Unknowns(ids) ELSE Len(ids)
Exceeds(ids, m, u) == m # 0 /\ ~(Counted(ids, u) <= m)

LEMMA UnknownsNat ==
  ASSUME NEW ids \in Seq(Ids)
  PROVE  Unknowns(ids) \in Nat
<1>1. Len(ids) \in 0 .. Len(ids)
  OBVIOUS
<1> QED BY <1>1, UnknownsCount DEF Counts

LEMMA KeptIs ==
  ASSUME NEW ids \in Seq(Ids), NEW m \in Nat, NEW u
  PROVE  /\ Kept(ids, m, u) \in 0 .. Len(ids)
         /\ ~Exceeds(ids, m, u) => Kept(ids, m, u) = Len(ids)
         /\ Exceeds(ids, m, u) =>
              /\ Kept(ids, m, u) < Len(ids)
              /\ u /\ DropUnk => /\ Kept(ids, m, u) = UsablePrefix(ids, m)
                                 /\ Len(ids) - Unknowns(ids) >= m
                                 /\ Unknowns(SubSeq(ids, 1, Kept(ids, m, u))) = Kept(ids, m, u) - m
              /\ ~(u /\ DropUnk) => Kept(ids, m, u) = m
<1>0. Len(ids) \in Nat /\ Unknowns(ids) \in Nat
  BY UnknownsNat
<1>1. CASE m = 0
  BY <1>0, <1>1 DEF Kept, Exceeds
<1>2. CASE m # 0 /\ u /\ DropUnk
  <2>1. CASE Len(ids) - Unknowns(ids) > m
    <3> DEFINE k == UsablePrefix(ids, m)
    <3>1. k \in 1 .. Len(ids) /\ k - Unknowns(SubSeq(ids, 1, k)) = m
      BY <1>0, <1>2, <2>1, UsableIs
    <3>2. Kept(ids, m, u) = k /\ Exceeds(ids, m, u)
      BY <1>0, <1>2, <2>1 DEF Kept, Exceeds, Counted
    <3> HIDE DEF k
    <3>3. Unknowns(SubSeq(ids, 1, k)) \in Nat
      <4>1. SubSeq(ids, 1, k) \in Seq(Ids)
        BY <3>1
      <4> QED BY <4>1, UnknownsNat
    <3>4. ASSUME k = Len(ids) PROVE FALSE
      <4>1. SubSeq(ids, 1, Len(ids)) = ids
        OBVIOUS
      <4>2. Len(ids) - Unknowns(ids) = m
        BY <3>1, <3>4, <4>1
      <4> QED BY <1>0, <2>1, <4>2
    <3>5. k \in 0 .. Len(ids) /\ k < Len(ids) /\ Unknowns(SubSeq(ids, 1, k)) = k - m
          /\ Len(ids) - Unknowns(ids) >= m
      BY <1>0, <2>1, <3>1, <3>3, <3>4
    <3> QED BY <1>2, <3>2, <3>5 DEF k
  <2>2. CASE ~(Len(ids) - Unknowns(ids) > m)
    BY <1>0, <1>2, <2>2 DEF Kept, Exceeds, Counted
  <2> QED BY <2>1, <2>2
<1>3. CASE m # 0 /\ ~(u /\ DropUnk)
  <2> DEFINE S == {Len(ids), m}
  <2>1. Min(S) \in S /\ \A y \in S : Min(S) <= y
    <3>1. S \in SUBSET Nat /\ S # {}
      BY <1>0
    <3> HIDE DEF S
    <3> QED BY <3>1, MinOfNat
  <2>2. Kept(ids, m, u) = Min(S)
    BY <1>3 DEF Kept
  <2>3. Exceeds(ids, m, u) <=> Len(ids) > m
    BY <1>0, <1>3 DEF Exceeds, Counted
  <2> QED BY <1>0, <1>3, <2>1, <2>2, <2>3
<1> QED BY <1>1, <1>2, <1>3

(* Ids behind those that are kept change nothing. *)
LEMMA KeptStays ==
  ASSUME NEW a \in Seq(Ids), NEW b \in Seq(Ids), NEW m \in Nat, NEW u, Exceeds(a, m, u),
         Len(a) <= Len(b), \A k \in 1 .. Len(a) : b[k] = a[k]
  PROVE  /\ Exceeds(b, m, u)
         /\ SubSeq(b, 1, Kept(b, m, u)) = SubSeq(a, 1, Kept(a, m, u))
<1>0. Len(a) \in Nat /\ Len(b) \in Nat /\ Unknowns(a) \in Nat /\ Unknowns(b) \in Nat /\ m # 0
  BY UnknownsNat DEF Exceeds
<1>1. Exceeds(b, m, u) /\ Kept(b, m, u) = Kept(a, m, u)
  <2>1. CASE u /\ DropUnk
    <3>1. Len(a) - Unknowns(a) >= m /\ Len(a) - Unknowns(a) > m
      BY <1>0, <2>1 DEF Exceeds, Counted
    <3>2. /\ UsablePrefix(b, m) = UsablePrefix(a, m)
          /\ Len(b) - Unknowns(b) >= Len(a) - Unknowns(a)
      BY <1>0, <3>1, UsableStays
    <3>3. Exceeds(b, m, u)
      BY <1>0, <2>1, <3>1, <3>2 DEF Exceeds, Counted
    <3>4. Kept(a, m, u) = UsablePrefix(a, m)
      BY <2>1, KeptIs
    <3>5. Kept(b, m, u) = UsablePrefix(b, m)
      BY <2>1, <3>3, KeptIs
    <3> QED BY <3>2, <3>3, <3>4, <3>5
  <2>2. CASE ~(u /\ DropUnk)
    <3>1. Exceeds(b, m, u)
      BY <1>0, <2>2 DEF Exceeds, Counted
    <3>2. Kept(a, m, u) = m
      BY <2>2, KeptIs
    <3>3. Kept(b, m, u) = m
      BY <2>2, <3>1, KeptIs
    <3> QED BY <3>1, <3>2, <3>3
  <2> QED BY <2>1, <2>2
<1> DEFINE n == Kept(a, m, u)
<1>2. n \in 0 .. Len(a)
  BY KeptIs
<1> HIDE DEF n
<1>3. SubSeq(b, 1, n) = SubSeq(a, 1, n)
  <2>1. SubSeq(a, 1, n) \in Seq(Ids) /\ Len(SubSeq(a, 1, n)) = n
        /\ \A k \in 1 .. n : SubSeq(a, 1, n)[k] = a[k]
    BY <1>2
  <2>2. SubSeq(b, 1, n) \in Seq(Ids) /\ Len(SubSeq(b, 1, n)) = n
        /\ \A k \in 1 .. n : SubSeq(b, 1, n)[k] = b[k]
    BY <1>0, <1>2
  <2>3. \A k \in 1 .. n : a[k] = b[k]
    BY <1>0, <1>2
  <2> QED BY <2>1, <2>2, <2>3, SeqEqual
<1> QED BY <1>1, <1>3 DEF n

(* s is the state under a cap where r is the one without. *)
CapOf(s, r, m, u) ==
  /\ Typed(r)
  /\ \/ s = r /\ ~Exceeds(r.ids, m, u)
     \/ /\ State(s) /\ s.truncated /\ ~s.bad
        /\ Exceeds(r.ids, m, u)
        /\ s.ids = SubSeq(r.ids, 1, Kept(r.ids, m, u))
        /\ s.unk = Unknowns(s.ids)

LEMMA CapOfShape ==
  ASSUME NEW s, NEW r, NEW m, NEW u, CapOf(s, r, m, u)
  PROVE  Typed(r) /\ State(r) /\ ~r.truncated /\ State(s) /\ (~s.truncated => s = r)
BY DEF CapOf, Typed

LEMMA CapOfGrows ==
  ASSUME NEW s, NEW r, NEW m \in Nat, NEW u, CapOf(s, r, m, u), s.truncated,
         NEW q, More(r, q)
  PROVE  CapOf(s, q, m, u)
<1>1. Exceeds(r.ids, m, u) /\ State(s) /\ ~s.bad
      /\ s.ids = SubSeq(r.ids, 1, Kept(r.ids, m, u)) /\ s.unk = Unknowns(s.ids)
  BY DEF CapOf, Typed
<1>2. r.ids \in Seq(Ids) /\ q.ids \in Seq(Ids) /\ Typed(q) /\ Len(r.ids) <= Len(q.ids)
      /\ \A k \in 1 .. Len(r.ids) : q.ids[k] = r.ids[k]
  BY DEF More, Typed
<1>3. /\ Exceeds(q.ids, m, u)
      /\ SubSeq(q.ids, 1, Kept(q.ids, m, u)) = SubSeq(r.ids, 1, Kept(r.ids, m, u))
  BY <1>1, <1>2, KeptStays
<1> QED BY <1>1, <1>2, <1>3 DEF CapOf

LEMMA CutInTwo ==
  ASSUME NEW l \in Seq(Ids), NEW m \in 0 .. Len(l)
  PROVE  /\ SubSeq(l, 1, m) \in Seq(Ids) /\ SubSeq(l, m + 1, Len(l)) \in Seq(Ids)
         /\ l = SubSeq(l, 1, m) \o SubSeq(l, m + 1, Len(l))
<1> DEFINE a == SubSeq(l, 1, m)
           b == SubSeq(l, m + 1, Len(l))
           c == a \o b
<1>0. Len(l) \in Nat /\ m \in Nat /\ m <= Len(l)
  OBVIOUS
<1>1. a \in Seq(Ids) /\ Len(a) = m /\ \A k \in 1 .. m : a[k] = l[k]
  BY <1>0
<1>2. b \in Seq(Ids) /\ Len(b) = Len(l) - m /\ \A k \in 1 .. Len(l) - m : b[k] = l[m + k]
  BY <1>0
<1> HIDE DEF a, b
<1>3. c \in Seq(Ids) /\ Len(c) = Len(l)
      /\ \A k \in 1 .. Len(l) : c[k] = IF k <= m THEN a[k] ELSE b[k - m]
  BY <1>0, <1>1, <1>2
<1> HIDE DEF c
<1>4. ASSUME NEW k \in 1 .. Len(l) PROVE c[k] = l[k]
  <2>1. CASE k <= m
    BY <1>0, <1>1, <1>3, <2>1
  <2>2. CASE ~(k <= m)
    <3> DEFINE i == k - m
    <3>1. i \in 1 .. Len(l) - m /\ m + i = k
      BY <1>0, <2>2
    <3>2. c[k] = b[i]
      BY <1>3, <2>2
    <3> HIDE DEF i
    <3> QED BY <1>2, <3>1, <3>2
  <2> QED BY <2>1, <2>2
<1>5. c = l
  BY <1>3, <1>4, SeqEqual
<1> QED BY <1>1, <1>2, <1>5 DEF a, b, c

LEMMA CapOfCap ==
  ASSUME NEW r, Typed(r), ~r.bad, NEW m \in Nat, NEW u
  PROVE  CapOf(CapAfterAppend(r, m, u), r, m, u)
<1>0. r.ids \in Seq(Ids) /\ State(r) /\ r.unk = Unknowns(r.ids) /\ Len(r.ids) \in Nat
  BY DEF Typed
<1>1. LimitedCount(r, u) = Counted(r.ids, u)
  BY <1>0 DEF LimitedCount, Counted
<1>2. CASE ~Exceeds(r.ids, m, u)
  BY <1>1, <1>2 DEF CapAfterAppend, Exceeds, CapOf
<1>3. ASSUME Exceeds(r.ids, m, u), NEW k, k = Kept(r.ids, m, u),
             NEW ids, ids = SubSeq(r.ids, 1, k), NEW unk, unk = Unknowns(ids),
             NEW s, s = [r EXCEPT !.ids = ids, !.unk = unk, !.truncated = TRUE]
      PROVE  CapOf(s, r, m, u)
  <2>1. State(s) /\ s.truncated /\ ~s.bad /\ s.ids = ids /\ s.unk = unk
    BY <1>0, <1>3 DEF State
  <2> QED BY <1>3, <2>1 DEF CapOf
<1>4. CASE Exceeds(r.ids, m, u) /\ ~(u /\ DropUnk)
  <2> DEFINE a == SubSeq(r.ids, 1, m)
             b == SubSeq(r.ids, m + 1, Len(r.ids))
             n == r.unk - Unknowns(b)
  <2>1. Kept(r.ids, m, u) = m /\ m \in 0 .. Len(r.ids)
    BY <1>0, <1>4, KeptIs
  <2>2. n = Unknowns(a)
    <3>1. a \in Seq(Ids) /\ b \in Seq(Ids) /\ r.ids = a \o b
      BY <1>0, <2>1, CutInTwo
    <3> HIDE DEF a, b
    <3>2. r.unk = Unknowns(a) + Unknowns(b)
      BY <1>0, <3>1, UnknownsConcat
    <3>3. Unknowns(a) \in Nat /\ Unknowns(b) \in Nat
      BY <3>1, UnknownsNat
    <3> QED BY <3>2, <3>3
  <2>3. CapAfterAppend(r, m, u) = [r EXCEPT !.ids = a, !.unk = n, !.truncated = TRUE]
    BY <1>1, <1>4 DEF CapAfterAppend, Exceeds
  <2>4. Kept(r.ids, m, u) = m /\ a = SubSeq(r.ids, 1, m)
    BY <2>1
  <2> HIDE DEF a, n
  <2> QED BY <1>3, <1>4, <2>2, <2>3, <2>4
<1>5. CASE Exceeds(r.ids, m, u) /\ u /\ DropUnk
  <2> DEFINE keep == UsablePrefix(r.ids, m)
             a == SubSeq(r.ids, 1, keep)
             n == keep - m
  <2>1. Kept(r.ids, m, u) = keep /\ Unknowns(SubSeq(r.ids, 1, keep)) = keep - m
    BY <1>0, <1>5, KeptIs
  <2>2. n = Unknowns(a)
    BY <2>1
  <2>3. CapAfterAppend(r, m, u) = [r EXCEPT !.ids = a, !.unk = n, !.truncated = TRUE]
    BY <1>1, <1>5 DEF CapAfterAppend, Exceeds
  <2>4. Kept(r.ids, m, u) = keep /\ a = SubSeq(r.ids, 1, keep)
    BY <2>1
  <2>5. Exceeds(r.ids, m, u)
    BY <1>5
  <2> HIDE DEF keep, a, n
  <2>6. CapOf([r EXCEPT !.ids = a, !.unk = n, !.truncated = TRUE], r, m, u)
    BY <1>3, <2>2, <2>4, <2>5
  <2> QED BY <2>3, <2>6
<1> QED BY <1>2, <1>4, <1>5

LEMMA CapOfAppend ==
  ASSUME NEW r, Typed(r), ~r.bad, NEW ids \in Seq(Ids), NEW m \in Nat, NEW u
  PROVE  CapOf(Append1(r, ids, m, u), Append1(r, ids, 0, u), m, u)
<1> DEFINE q == [r EXCEPT !.ids = @ \o ids, !.unk = @ + Unknowns(ids)]
<1>1. Append1(r, ids, m, u) = CapAfterAppend(q, m, u) /\ Append1(r, ids, 0, u) = q
  BY DEF Append1, CapAfterAppend
<1>2. Typed(Append1(r, ids, 0, u))
  BY AppendMore DEF More
<1>3. ~Append1(r, ids, 0, u).bad
  BY AppendKeeps DEF Typed, Same
<1> HIDE DEF q
<1>4. Typed(q) /\ ~q.bad
  BY <1>1, <1>2, <1>3
<1> QED BY <1>1, <1>4, CapOfCap

LEMMA CapOfUncapped ==
  ASSUME NEW s, NEW r, NEW m \in Nat, NEW u, CapOf(s, r, m, u), ~s.bad, NEW ids \in Seq(Ids)
  PROVE  CapOf(AppendUncapped(s, ids, m, u), AppendUncapped(r, ids, 0, u), m, u)
<1>0. Typed(r) /\ ~r.truncated /\ (~s.truncated => s = r)
  BY CapOfShape
<1>1. CASE s.truncated
  <2>1. More(r, AppendUncapped(r, ids, 0, u)) /\ AppendUncapped(s, ids, m, u) = s
    BY <1>0, <1>1, AppendMore DEF AppendUncapped
  <2> QED BY <1>1, <2>1, CapOfGrows
<1>2. CASE ~s.truncated
  <2>1. AppendUncapped(s, ids, m, u) = Append1(r, ids, m, u)
        /\ AppendUncapped(r, ids, 0, u) = Append1(r, ids, 0, u)
    BY <1>0, <1>2 DEF AppendUncapped
  <2>2. ~r.bad
    BY <1>0, <1>2
  <2> QED BY <1>0, <2>1, <2>2, CapOfAppend
<1> QED BY <1>1, <1>2

(* Where it is in the text and in a word does not matter. *)
LEMMA CapOfSeg ==
  ASSUME NEW s, NEW r, NEW m, NEW u, CapOf(s, r, m, u), NEW w \in Seq(CodePoints)
  PROVE  CapOf([s EXCEPT !.seg = w], [r EXCEPT !.seg = w], m, u)
<1>0. Typed(r) /\ State(r) /\ State(s)
  BY CapOfShape
<1>1. ASSUME NEW s2, s2 = [s EXCEPT !.seg = w], NEW r2, r2 = [r EXCEPT !.seg = w]
      PROVE  CapOf(s2, r2, m, u)
  <2>1. State(r2) /\ r2.ids = r.ids /\ r2.unk = r.unk /\ r2.truncated = r.truncated /\ r2.seg = w
    BY <1>0, <1>1 DEF State
  <2>2. State(s2) /\ s2.ids = s.ids /\ s2.unk = s.unk /\ s2.truncated = s.truncated
        /\ s2.bad = s.bad
    BY <1>0, <1>1 DEF State
  <2>3. s = r => s2 = r2
    BY <1>1
  <2>4. Typed(r2)
    BY <1>0, <2>1 DEF Typed
  <2> QED BY <2>1, <2>2, <2>3, <2>4 DEF CapOf
<1> QED BY <1>1

LEMMA CapOfAt ==
  ASSUME NEW s, NEW r, NEW m, NEW u, CapOf(s, r, m, u),
         NEW a \in Nat, NEW b \in Nat, s.truncated \/ a = b
  PROVE  CapOf([s EXCEPT !.at = a], [r EXCEPT !.at = b], m, u)
<1>0. Typed(r) /\ State(r) /\ State(s) /\ (~s.truncated => s = r)
  BY CapOfShape
<1>2. ASSUME NEW s2, s2 = [s EXCEPT !.at = a], NEW r2, r2 = [r EXCEPT !.at = b]
      PROVE  CapOf(s2, r2, m, u)
  <2>1. State(r2) /\ r2.ids = r.ids /\ r2.unk = r.unk /\ r2.truncated = r.truncated
        /\ r2.seg = r.seg
    BY <1>0, <1>2 DEF State
  <2>2. State(s2) /\ s2.ids = s.ids /\ s2.unk = s.unk /\ s2.truncated = s.truncated
        /\ s2.bad = s.bad
    BY <1>0, <1>2 DEF State
  <2>3. ~s.truncated => s2 = r2
    BY <1>0, <1>2
  <2>4. Typed(r2)
    BY <1>0, <2>1 DEF Typed
  <2>5. ~r.truncated
    BY <1>0 DEF Typed
  <2> QED BY <2>1, <2>2, <2>3, <2>4, <2>5 DEF CapOf
<1> QED BY <1>2

LEMMA CapOfFlush ==
  ASSUME NEW s, NEW r, NEW m \in Nat, NEW u, CapOf(s, r, m, u), ~s.bad, ~s.truncated
  PROVE  CapOf(Flush(s, m, u), Flush(r, 0, u), m, u)
<1>0. Typed(r) /\ s = r /\ r.seg \in Seq(CodePoints)
  BY CapOfShape DEF Typed
<1>1. CASE r.seg = <<>>
  BY <1>0, <1>1 DEF Flush
<1>2. CASE r.seg # <<>>
  <2> DEFINE a == Append1(r, WordPiece(r.seg), m, u)
             b == Append1(r, WordPiece(r.seg), 0, u)
  <2>1. CapOf(a, b, m, u)
    <3>1. WordPiece(r.seg) \in Seq(Ids) /\ ~r.bad
      BY <1>0, WordPieceIn
    <3> QED BY <1>0, <3>1, CapOfAppend
  <2>2. Flush(s, m, u) = [a EXCEPT !.seg = <<>>] /\ Flush(r, 0, u) = [b EXCEPT !.seg = <<>>]
    BY <1>0, <1>2 DEF Flush
  <2> HIDE DEF a, b
  <2>3. <<>> \in Seq(CodePoints)
    OBVIOUS
  <2> DEFINE w == <<>>
  <2>4. w \in Seq(CodePoints) /\ Flush(s, m, u) = [a EXCEPT !.seg = w]
        /\ Flush(r, 0, u) = [b EXCEPT !.seg = w]
    BY <2>2, <2>3
  <2> HIDE DEF w
  <2>5. CapOf([a EXCEPT !.seg = w], [b EXCEPT !.seg = w], m, u)
    BY <2>1, <2>4, CapOfSeg
  <2> QED BY <2>4, <2>5
<1> QED BY <1>1, <1>2

LEMMA CapOfFeed ==
  ASSUME NEW s, NEW r, NEW m \in Nat, NEW u, CapOf(s, r, m, u), ~s.bad, NEW cp \in CodePoints
  PROVE  /\ CapOf(Feed(s, cp, m, u), Feed(r, cp, 0, u), m, u)
         /\ ~Feed(s, cp, m, u).bad
<1>0. Typed(r) /\ State(s) /\ (~s.truncated => s = r) /\ ~r.truncated
  BY CapOfShape
<1>b. ~Feed(s, cp, m, u).bad
  BY <1>0, FeedKeeps DEF Same
<1>1. CASE s.truncated
  <2>1. Feed(s, cp, m, u) = s /\ More(r, Feed(r, cp, 0, u))
    BY <1>0, <1>1, FeedKeeps, FeedMore
  <2> QED BY <1>1, <1>b, <2>1, CapOfGrows
<1>2. CASE ~s.truncated /\ cp \in Space
  <2>1. Feed(s, cp, m, u) = Flush(s, m, u) /\ Feed(r, cp, 0, u) = Flush(r, 0, u)
    BY <1>0, <1>2 DEF Feed
  <2> QED BY <1>2, <1>b, <2>1, CapOfFlush
<1>3. CASE ~s.truncated /\ cp \notin Space /\ cp \in Punct
  <2> DEFINE a == Flush(s, m, u)
             b == Flush(r, 0, u)
             w == WordPiece(<<cp>>)
  <2>1. CapOf(a, b, m, u) /\ ~a.bad
    BY <1>0, <1>3, CapOfFlush, FlushKeeps DEF Same
  <2>2. Feed(s, cp, m, u) = AppendUncapped(a, w, m, u)
        /\ Feed(r, cp, 0, u) = AppendUncapped(b, w, 0, u)
    BY <1>0, <1>3 DEF Feed
  <2>3. w \in Seq(Ids)
    <3>1. <<cp>> \in Seq(CodePoints)
      OBVIOUS
    <3> QED BY <3>1, WordPieceIn
  <2> HIDE DEF a, b, w
  <2> QED BY <1>b, <2>1, <2>2, <2>3, CapOfUncapped
<1>4. CASE ~s.truncated /\ cp \notin Space \cup Punct
  <2> DEFINE w == Append(r.seg, cp)
  <2>1. Feed(s, cp, m, u) = [s EXCEPT !.seg = w] /\ Feed(r, cp, 0, u) = [r EXCEPT !.seg = w]
    BY <1>0, <1>4 DEF Feed
  <2>2. w \in Seq(CodePoints)
    BY <1>0 DEF Typed
  <2> HIDE DEF w
  <2> QED BY <1>b, <2>1, <2>2, CapOfSeg
<1> QED BY <1>1, <1>2, <1>3, <1>4

LEMMA CapOfFeedAll ==
  ASSUME NEW s, NEW r, NEW m \in Nat, NEW u, CapOf(s, r, m, u), ~s.bad,
         NEW cps \in Seq(CodePoints)
  PROVE  CapOf(FeedAll(s, cps, m, u), FeedAll(r, cps, 0, u), m, u)
<1>1. Len(cps) \in Nat /\ DOMAIN cps = 1 .. Len(cps)
  OBVIOUS
<1>2. PICK f : Fed(f, s, cps, m, u) /\ FeedAll(s, cps, m, u) = f[Len(cps)]
  BY <1>1, FeedAllIs
<1>3. PICK g : Fed(g, r, cps, 0, u) /\ FeedAll(r, cps, 0, u) = g[Len(cps)]
  BY <1>1, FeedAllIs
<1> DEFINE P == {k \in Nat : k <= Len(cps) => CapOf(f[k], g[k], m, u) /\ ~f[k].bad}
<1>4. 0 \in P
  BY <1>2, <1>3 DEF Fed
<1>5. ASSUME NEW k \in P PROVE k + 1 \in P
  <2> SUFFICES ASSUME k + 1 <= Len(cps)
               PROVE  CapOf(f[k + 1], g[k + 1], m, u) /\ ~f[k + 1].bad
    OBVIOUS
  <2>1. k + 1 \in 1 .. Len(cps) /\ k + 1 - 1 = k /\ k <= Len(cps)
    BY <1>1
  <2>2. f[k + 1] = Feed(f[k], cps[k + 1], m, u) /\ g[k + 1] = Feed(g[k], cps[k + 1], 0, u)
    BY <1>2, <1>3, <2>1 DEF Fed
  <2>3. CapOf(f[k], g[k], m, u) /\ ~f[k].bad /\ cps[k + 1] \in CodePoints
    BY <1>1, <2>1
  <2> QED BY <2>2, <2>3, CapOfFeed
<1>6. P = Nat
  <2> HIDE DEF P
  <2>1. P \in SUBSET Nat
    BY DEF P
  <2> QED BY <2>1, <1>4, <1>5, NatInduct
<1>7. Len(cps) \in P
  BY <1>1, <1>6
<1> QED BY <1>1, <1>2, <1>3, <1>7

LEMMA CapOfStep ==
  ASSUME NEW text \in ByteSeq, NEW s, NEW r, NEW m \in Nat, NEW u, CapOf(s, r, m, u),
         r.at <= Len(text)
  PROVE  CapOf(Step(text, s, m, u), Step(text, r, 0, u), m, u)
<1>0. Typed(r) /\ State(s) /\ State(r) /\ (~s.truncated => s = r) /\ ~r.truncated
      /\ Len(text) \in Nat /\ r.at \in Nat
  BY CapOfShape DEF Typed, State, ByteSeq
<1>1. CASE s.truncated
  <2>1. Step(text, s, m, u) = s /\ More(r, Step(text, r, 0, u))
    BY <1>0, <1>1, StepStops, StepMore
  <2> QED BY <1>1, <2>1, CapOfGrows
<1>2. CASE ~s.truncated /\ Stopped(text, r)
  BY <1>0, <1>2, StepStops DEF Stopped
<1>3. CASE ~s.truncated /\ ~Stopped(text, r) /\ AddedAt(text, r.at) # {}
  <2> DEFINE t == CHOOSE t \in AddedAt(text, r.at) : TRUE
             w == <<Added[t]>>
             f == Flush(s, m, u)
             g == Flush(r, 0, u)
             a == AppendUncapped(f, w, m, u)
             b == AppendUncapped(g, w, 0, u)
             l == Len(t)
  <2>1. Step(text, s, m, u) = [a EXCEPT !.at = @ + l]
        /\ Step(text, r, 0, u) = [b EXCEPT !.at = @ + l]
    BY <1>0, <1>3 DEF Step, Stopped, AddedAt
  <2>2. t \in DOMAIN Added /\ l \in Nat
    BY <1>3, TablesAssumption DEF AddedAt
  <2> HIDE DEF l
  <2>3. w \in Seq(Ids)
    BY <2>2, AddedIn
  <2> HIDE DEF t, w
  <2>4. CapOf(f, g, m, u) /\ ~f.bad
    <3>1. ~s.bad
      BY <1>0, <1>3 DEF Stopped
    <3> QED BY <1>0, <1>3, <3>1, CapOfFlush, FlushKeeps DEF Same
  <2> HIDE DEF f, g
  <2>5. CapOf(a, b, m, u)
    BY <2>3, <2>4, CapOfUncapped
  <2> HIDE DEF a, b
  <2>6. a.at \in Nat /\ b.at \in Nat /\ (a.truncated \/ a = b)
    BY <2>5, CapOfShape DEF State
  <2>7. a.at + l \in Nat /\ b.at + l \in Nat /\ (a.truncated \/ a.at + l = b.at + l)
    BY <2>2, <2>6
  <2>8. CapOf([a EXCEPT !.at = a.at + l], [b EXCEPT !.at = b.at + l], m, u)
    BY <2>5, <2>7, CapOfAt
  <2> QED BY <2>1, <2>8
<1>4. CASE ~s.truncated /\ ~Stopped(text, r) /\ AddedAt(text, r.at) = {} /\ ~Decodes(text, r.at)
  <2>1. Step(text, s, m, u) = Step(text, r, 0, u) /\ Step(text, r, 0, u) = [r EXCEPT !.bad = TRUE]
    BY <1>0, <1>4 DEF Step, Stopped, AddedAt
  <2>2. Typed(Step(text, r, 0, u))
    BY <1>0, StepMore DEF More
  <2>3. Step(text, r, 0, u).ids = r.ids
    BY <1>0, <2>1 DEF State
  <2>4. ~Exceeds(r.ids, m, u)
    BY <1>4 DEF CapOf
  <2> QED BY <2>1, <2>2, <2>3, <2>4 DEF CapOf
<1>5. CASE ~s.truncated /\ ~Stopped(text, r) /\ AddedAt(text, r.at) = {} /\ Decodes(text, r.at)
  <2> DEFINE cp == text[r.at + 1]
             b == r.at + Width[cp]
             q == [s EXCEPT !.at = b]
             p == [r EXCEPT !.at = b]
  <2>1. Step(text, s, m, u) = FeedAll(q, Cleaned(cp), m, u)
        /\ Step(text, r, 0, u) = FeedAll(p, Cleaned(cp), 0, u)
    BY <1>0, <1>5 DEF Step, Stopped, AddedAt
  <2>2. cp \in CodePoints /\ b \in Nat
    BY <1>0, <1>5, WidthIn DEF Decodes
  <2> HIDE DEF cp, b
  <2>4. CapOf(q, p, m, u)
    BY <2>2, CapOfAt
  <2>5. ~q.bad
    BY <1>0, <1>5 DEF Stopped, State
  <2> HIDE DEF q, p
  <2> QED BY <2>1, <2>2, <2>4, <2>5, CleanedIn, CapOfFeedAll
<1> QED BY <1>1, <1>2, <1>3, <1>4, <1>5

(* So whatever the cap, a run of the tokenizer keeps what capping the ids   *)
(* of the run without a cap would.                                          *)
LEMMA CapOfTokens ==
  ASSUME NEW text \in ByteSeq, NEW m \in Nat, NEW u
  PROVE  CapOf(Tokenize(text, m, u), Tokenize(text, 0, u), m, u)
<1>0. Len(text) \in Nat /\ Len(text) \in 0 .. Len(text)
  BY DEF ByteSeq
<1>1. PICK g : IsRun(g, text, m, u) /\ Tokenize(text, m, u) = Finished(g[Len(text)], m, u)
  BY TokenizeIsRun
<1>2. PICK h : IsRun(h, text, 0, u) /\ Tokenize(text, 0, u) = Finished(h[Len(text)], 0, u)
  BY TokenizeIsRun
<1> DEFINE P == {k \in Nat : k <= Len(text) => CapOf(g[k], h[k], m, u)}
<1>3. 0 \in P
  <2>1. g[0] = Start /\ h[0] = Start /\ Typed(h[0])
    BY <1>0, <1>1, <1>2, RunTurns, RunMore
  <2>2. ~Exceeds(Start.ids, m, u)
    <3>1. Start.ids = <<>> /\ Len(<<>>) = 0
      BY DEF Start
    <3>2. Counted(<<>>, u) = 0
      BY <3>1, UnknownsOfNone DEF Counted
    <3> QED BY <3>1, <3>2 DEF Exceeds
  <2> QED BY <2>1, <2>2 DEF CapOf
<1>4. ASSUME NEW k \in P PROVE k + 1 \in P
  <2> SUFFICES ASSUME k + 1 <= Len(text) PROVE CapOf(g[k + 1], h[k + 1], m, u)
    OBVIOUS
  <2>1. k \in 0 .. Len(text) - 1 /\ k \in 0 .. Len(text) /\ k <= Len(text)
    BY <1>0
  <2>2. g[k + 1] = Step(text, g[k], m, u) /\ h[k + 1] = Step(text, h[k], 0, u)
    BY <1>1, <1>2, <2>1, RunTurns
  <2>3. CapOf(g[k], h[k], m, u) /\ h[k].at <= Len(text)
    BY <1>2, <2>1, RunSound DEF Sound
  <2> QED BY <2>2, <2>3, CapOfStep
<1>5. P = Nat
  <2> HIDE DEF P
  <2>1. P \in SUBSET Nat
    BY DEF P
  <2> QED BY <2>1, <1>3, <1>4, NatInduct
<1> DEFINE s == g[Len(text)]
           r == h[Len(text)]
<1>6. CapOf(s, r, m, u)
  BY <1>0, <1>5
<1> HIDE DEF s, r
<1>7. CapOf(Finished(s, m, u), Finished(r, 0, u), m, u)
  <2>0. Typed(r) /\ ~r.truncated /\ (~s.truncated => s = r)
    BY <1>6, CapOfShape
  <2>1. CASE s.truncated
    <3>1. Finished(s, m, u) = s
      BY <2>1 DEF Finished
    <3>2. More(r, Finished(r, 0, u))
      BY <2>0, FlushMore, MoreIsOrder DEF Finished
    <3> QED BY <1>6, <2>1, <3>1, <3>2, CapOfGrows
  <2>2. CASE ~s.truncated /\ s.bad
    BY <1>6, <2>0, <2>2 DEF Finished
  <2>3. CASE ~s.truncated /\ ~s.bad
    BY <1>6, <2>0, <2>3, CapOfFlush DEF Finished
  <2> QED BY <2>1, <2>2, <2>3
<1> QED BY <1>1, <1>2, <1>7 DEF s, r

LEMMA TokensAgree ==
  ASSUME NEW text \in ByteSeq, NEW m \in Nat, NEW u,
         EmbedOne(text, Len(text), m, u).status # "invalid"
  PROVE  EmbedOne(text, Len(text), m, u) = EmbedTokenIds(Tokenize(text, 0, u).ids, m, u)
<1> DEFINE s == Tokenize(text, m, u)
           r == Tokenize(text, 0, u)
           kept == Kept(r.ids, m, u)
           used == SubSeq(r.ids, 1, kept)
<1>1. SubSeq(text, 1, Len(text)) = text
  BY DEF ByteSeq
<1>2. EmbedOne(text, Len(text), m, u) = Embedded(s)
  BY <1>1 DEF EmbedOne
<1>3. ~s.bad
  BY <1>2 DEF Embedded, Malformed
<1>4. CapOf(s, r, m, u)
  BY CapOfTokens
<1>5. EmbedTokenIds(r.ids, m, u) = Pooled(used, Unknowns(used), kept < Len(r.ids))
  BY DEF EmbedTokenIds, Kept
<1> HIDE DEF s, r
<1>6. Typed(r) /\ r.ids \in Seq(Ids) /\ State(s)
  BY <1>4, CapOfShape DEF Typed
<1>7. CASE s = r /\ ~Exceeds(r.ids, m, u)
  <2>1. kept = Len(r.ids)
    BY <1>6, <1>7, KeptIs
  <2> HIDE DEF kept
  <2>2. used = r.ids /\ ~(kept < Len(r.ids))
    BY <1>6, <2>1
  <2>3. s.unk = Unknowns(r.ids) /\ s.truncated = FALSE /\ (kept < Len(r.ids)) = FALSE
    BY <1>6, <1>7, <2>2 DEF Typed, State
  <2> HIDE DEF used
  <2> QED BY <1>2, <1>3, <1>5, <1>7, <2>2, <2>3 DEF Embedded, s, r
<1>8. CASE s.truncated /\ Exceeds(r.ids, m, u) /\ s.ids = used /\ s.unk = Unknowns(s.ids)
  <2>1. kept < Len(r.ids)
    BY <1>6, <1>8, KeptIs
  <2>2. s.truncated = TRUE /\ (kept < Len(r.ids)) = TRUE
    BY <1>6, <1>8, <2>1 DEF State
  <2> HIDE DEF kept, used
  <2> QED BY <1>2, <1>3, <1>5, <1>8, <2>2 DEF Embedded, s, r
<1> QED BY <1>4, <1>7, <1>8 DEF CapOf

-----------------------------------------------------------------------------
(* The slices of a call *)

(* What a slice is cut at: its whole length or a cut. *)
LEMMA CopyIsCut ==
  ASSUME NEW text \in ByteSeq, NEW target \in Nat, NEW m \in Nat,
         NEW c, c = CopyLen(text, ResolveTarget(text, target, m))
  PROVE  c = Len(text) \/ IsCut(text, c)
<1> DEFINE r == ResolveTarget(text, target, m)
           G == {g \in Grown(target, Len(text)) :
                   g = Len(text) \/ BoundaryLen(text, g, Backscan) # 0}
<1>0. Len(text) \in Nat /\ Backscan \in Nat
  BY WindowAssumption DEF ByteSeq
<1>1. r \in 0 .. Len(text)
  BY ResolveFacts
<1>2. r = Len(text) \/ BoundaryLen(text, r, Backscan) # 0
  <2>1. CASE m = 0 \/ target = 0 \/ target >= Len(text)
    BY <2>1 DEF ResolveTarget
  <2>2. CASE ~(m = 0 \/ target = 0 \/ target >= Len(text))
    <3>1. G \in SUBSET Nat /\ Len(text) \in G
      BY <1>0, <2>2 DEF Grown
    <3>2. Min(G) \in G
      BY <3>1, MinOfNat
    <3>3. r = Min(G)
      BY <2>2 DEF ResolveTarget
    <3> QED BY <3>2, <3>3
  <2> QED BY <2>1, <2>2
<1> HIDE DEF r
<1>3. CASE r = Len(text)
  BY <1>3 DEF CopyLen, r
<1>4. CASE r # Len(text)
  <2>1. r \in Nat /\ r < Len(text)
    BY <1>0, <1>1, <1>4
  <2>2. IsCut(text, BoundaryLen(text, r, Backscan))
    BY <1>0, <1>2, <1>4, <2>1, BoundaryIsCut
  <2> QED BY <1>4, <2>2 DEF CopyLen, r
<1> QED BY <1>3, <1>4

(* The slices a job runs end at cuts. *)
SlicesAreCut ==
  /\ \A i \in Texts : BreaksKept(batch[i])
  /\ phase = "run" =>
       \A i \in ToSet(pending) : copied[i] = Full(i) \/ IsCut(batch[i], copied[i])

LEMMA NextSlicesAreCut == TypeOK /\ SlicesAreCut /\ [Next]_vars => SlicesAreCut'
<1> SUFFICES ASSUME TypeOK, SlicesAreCut, [Next]_vars PROVE SlicesAreCut'
  OBVIOUS
<1>1. CASE Resolve
  <2>1. \A i \in ToSet(pending) : copied'[i] = Full(i) \/ IsCut(batch[i], copied'[i])
    <3> TAKE i \in ToSet(pending)
    <3>1. i \in Texts /\ batch[i] \in ByteSeq /\ targets[i] \in Nat /\ max \in Nat
      BY Shapes
    <3>2. copied'[i] = CopyLen(batch[i], ResolveTarget(batch[i], targets[i], max))
      BY <1>1, <3>1 DEF Resolve
    <3> QED BY <3>1, <3>2, CopyIsCut DEF Full
  <2> QED BY <1>1, <2>1 DEF Resolve, SlicesAreCut, Full, Texts
<1>2. CASE RunJob \/ WidenInvalid \/ Raise \/ Settle \/ Finish
  BY <1>2 DEF RunJob, WidenInvalid, Raise, Settle, Finish, SlicesAreCut, Texts
<1>3. CASE Over \/ UNCHANGED vars
  BY <1>3 DEF Over, vars, SlicesAreCut, Full, Texts
<1> QED BY <1>1, <1>2, <1>3 DEF Next

(* A slice that reaches the cap says all there is to say of its text, the   *)
(* test on which embed_texts_internal accepts a row.  This is for texts     *)
(* without U+0085; prefix_nel shows what that one does.                     *)
THEOREM SlicesAreFinal ==
  ASSUME EveryBreakKept
  PROVE  Spec => []SliceCapIsFinal
<1>1. Init => SlicesAreCut
  BY DEF Init, SlicesAreCut, EveryBreakKept, Texts
<1>2. TypeOK /\ SlicesAreCut /\ [Next]_vars => SlicesAreCut'
  BY NextSlicesAreCut
<1>3. TypeOK /\ SlicesAreCut => SliceCapIsFinal
  <2> SUFFICES ASSUME TypeOK, SlicesAreCut, phase = "run",
                      NEW i \in ToSet(pending), Outcome(i).truncated
               PROVE  Outcome(i) = Whole(i)
    BY DEF SliceCapIsFinal
  <2>1. i \in Texts /\ batch[i] \in ByteSeq /\ BreaksKept(batch[i])
    BY Shapes DEF SlicesAreCut
  <2>2. CASE copied[i] = Full(i)
    BY <2>2 DEF Outcome, Whole
  <2>3. CASE IsCut(batch[i], copied[i])
    BY <2>1, <2>3, CutRow DEF Outcome, Whole, Full
  <2> QED BY <2>2, <2>3 DEF SlicesAreCut
<1> QED BY <1>1, <1>2, <1>3, TypeCorrect, PTL DEF Spec

(* The token stream of a slice is a prefix of that of the text, as           *)
(* docs/ARCHITECTURE.md says of a cut at a word boundary, in texts without   *)
(* U+0085: a cut never falls where the tokenizer would have gone on.         *)
THEOREM StreamIsPrefix ==
  ASSUME EveryBreakKept
  PROVE  Spec => []SliceStreamIsPrefix
<1>1. Init => SlicesAreCut
  BY DEF Init, SlicesAreCut, EveryBreakKept, Texts
<1>2. TypeOK /\ SlicesAreCut /\ [Next]_vars => SlicesAreCut'
  BY NextSlicesAreCut
<1>3. TypeOK /\ SlicesAreCut => SliceStreamIsPrefix
  <2> SUFFICES ASSUME TypeOK, SlicesAreCut, phase = "run", NEW i \in ToSet(pending)
               PROVE  IsPrefix(StreamOf(SubSeq(batch[i], 1, copied[i])).ids,
                               StreamOf(batch[i]).ids)
    BY DEF SliceStreamIsPrefix
  <2>1. i \in Texts /\ batch[i] \in ByteSeq /\ BreaksKept(batch[i])
    BY Shapes DEF SlicesAreCut
  <2>2. CASE copied[i] = Full(i)
    <3>1. SubSeq(batch[i], 1, copied[i]) = batch[i]
      BY <2>1, <2>2 DEF Full, ByteSeq
    <3>2. IsPrefix(StreamOf(batch[i]).ids, StreamOf(batch[i]).ids)
      BY <2>1, StreamTyped, MoreIsOrder, MoreIsPrefix DEF StreamOf
    <3> QED BY <3>1, <3>2
  <2>3. CASE IsCut(batch[i], copied[i])
    BY <2>1, <2>3, CutStream DEF StreamOf
  <2> QED BY <2>2, <2>3 DEF SlicesAreCut
<1> QED BY <1>1, <1>2, <1>3, TypeCorrect, PTL DEF Spec

-----------------------------------------------------------------------------
(* The rows *)

(* Texts that are no longer pending have the row of the whole text; those   *)
(* a job has just run have the row of their slice.                          *)
RowsFinal ==
  /\ \A i \in Texts : i \notin ToSet(pending) => rows[i] = Whole(i)
  /\ phase = "settle" /\ failed = 0 =>
       \A i \in ToSet(pending) :
         /\ rows[i] = Outcome(i)
         /\ Outcome(i).truncated => Outcome(i) = Whole(i)
  /\ phase \in {"run", "settle"} =>
       \A i \in ToSet(pending) : copied[i] < Full(i) => max # 0
  /\ phase = "done" => pending = <<>>

(* Reading the whole text is the outcome of a slice that is not shorter.    *)
LEMMA FullSlice ==
  ASSUME TypeOK, NEW i \in Texts, ~(copied[i] < Full(i))
  PROVE  Outcome(i) = Whole(i)
<1>1. copied[i] = Full(i)
  BY Shapes
<1> QED
  BY <1>1 DEF Outcome, Whole

\* Rows that are no longer pending stay final across every step.
LEMMA NextRowsFinal ==
  ASSUME TypeOK, RowsFinal, SliceCapIsFinal, [Next]_vars
  PROVE  RowsFinal'
<1>0. \A i \in ToSet(pending) : i \in Texts
  BY Shapes
<1>1. CASE Resolve
  <2>1. \A i \in ToSet(pending) : copied'[i] < Full(i) => max # 0
    <3> TAKE i \in ToSet(pending)
    <3>1. i \in Texts /\ batch[i] \in ByteSeq /\ targets[i] \in Nat /\ max \in Nat
      BY Shapes
    <3>2. copied'[i] = CopyLen(batch[i], ResolveTarget(batch[i], targets[i], max))
      BY <1>1, <3>1 DEF Resolve
    <3> DEFINE r == ResolveTarget(batch[i], targets[i], max)
    <3>3. /\ r < Len(batch[i]) => max # 0
          /\ CopyLen(batch[i], r) < Len(batch[i]) => r < Len(batch[i])
      BY <3>1, ResolveFacts
    <3> QED
      BY <3>2, <3>3 DEF Full
  <2>2. \A i \in Texts : i \notin ToSet(pending) => rows'[i] = Whole(i)'
    BY <1>1 DEF Resolve, RowsFinal, Whole, Full
  <2> QED
    BY <1>1, <2>1, <2>2 DEF Resolve, RowsFinal, Texts, Full
<1>2. CASE RunJob
  <2>1. \A i \in Texts : i \notin ToSet(pending) => rows'[i] = Whole(i)'
    <3> TAKE i \in Texts
    <3> HAVE i \notin ToSet(pending)
    <3>1. ~ \E j \in DOMAIN pending : pending[j] = i
      BY DEF ToSet
    <3>2. rows'[i] = rows[i]
      BY <1>2, <3>1 DEF RunJob
    <3> QED
      BY <1>2, <3>2 DEF RunJob, RowsFinal, Whole, Full
  <2>2. failed' = 0 => \A i \in ToSet(pending) : rows'[i] = Outcome(i)
    <3> HAVE failed' = 0
    <3> TAKE i \in ToSet(pending)
    <3>1. \E j \in DOMAIN pending : pending[j] = i
      BY DEF ToSet
    <3> QED
      BY <1>0, <1>2, <3>1 DEF RunJob
  <2>3. \A i \in ToSet(pending) : Outcome(i).truncated => Outcome(i) = Whole(i)
    BY <1>2 DEF RunJob, SliceCapIsFinal
  <2>4. \A i \in Texts : Outcome(i)' = Outcome(i) /\ Whole(i)' = Whole(i)
    BY <1>2 DEF RunJob, Outcome, Whole, Full
  <2> QED
    BY <1>0, <1>2, <2>1, <2>2, <2>3, <2>4 DEF RunJob, RowsFinal, Texts, Full
<1>3. CASE WidenInvalid
  BY <1>3 DEF WidenInvalid, RowsFinal, Whole, Texts, Full
<1>4. CASE Raise
  BY <1>4 DEF Raise, RowsFinal, Whole, Texts, Full
<1>5. CASE Settle
  <2>1. PICK n \in 0 .. Len(pending) :
          ToSet(pending') = {i \in ToSet(pending) : TooShort(i)}
    BY <1>5 DEF Settle
  <2>2. \A i \in Texts : i \notin ToSet(pending') => rows[i] = Whole(i)
    <3> TAKE i \in Texts
    <3> HAVE i \notin ToSet(pending')
    <3>1. CASE i \notin ToSet(pending)
      BY <3>1 DEF RowsFinal
    <3>2. CASE i \in ToSet(pending)
      <4>1. ~TooShort(i) /\ rows[i] = Outcome(i)
            /\ (Outcome(i).truncated => Outcome(i) = Whole(i))
        BY <1>5, <2>1, <3>2 DEF Settle, RowsFinal
      <4>2. CASE copied[i] < Full(i)
        <5>1. max # 0
          BY <1>5, <3>2, <4>2 DEF Settle, RowsFinal
        <5> QED
          BY <4>1, <4>2, <5>1 DEF TooShort
      <4>3. CASE ~(copied[i] < Full(i))
        BY <4>1, <4>3, FullSlice
      <4> QED
        BY <4>2, <4>3
    <3> QED
      BY <3>1, <3>2
  <2> QED
    BY <1>5, <2>2 DEF Settle, RowsFinal, Whole, Texts, Full
<1>6. CASE Finish
  BY <1>6 DEF Finish, RowsFinal, Whole, Texts, Full
<1>7. CASE Over \/ UNCHANGED vars
  BY <1>7 DEF Over, vars, RowsFinal, Outcome, Whole, Texts, Full
<1> QED
  BY <1>1, <1>2, <1>3, <1>4, <1>5, <1>6, <1>7 DEF Next

\* Initially every text is pending.
LEMMA InitRowsFinal == Init => RowsFinal
<1> SUFFICES ASSUME Init PROVE RowsFinal
  OBVIOUS
<1>1. \A i \in Texts : i \in ToSet(pending)
  BY DEF Init, ToSet
<1> QED
  BY <1>1 DEF Init, RowsFinal

(* A call returns the rows of the whole texts: cutting, widening and        *)
(* running again are invisible, whatever the tables, in texts without U+0085. *)
THEOREM WindowInvisible ==
  ASSUME EveryBreakKept
  PROVE  Spec => []WindowIsInvisible
<1>1. Init => RowsFinal
  BY InitRowsFinal
<1>2. TypeOK /\ RowsFinal /\ SliceCapIsFinal /\ [Next]_vars => RowsFinal'
  BY NextRowsFinal
<1>3. RowsFinal => WindowIsInvisible
  <2> SUFFICES ASSUME RowsFinal, phase = "done"
               PROVE  \A i \in Texts : rows[i] = Whole(i)
    BY DEF WindowIsInvisible
  <2>1. ToSet(pending) = {}
    BY DEF RowsFinal, ToSet
  <2> QED
    BY <2>1 DEF RowsFinal
<1>4. Spec => []SliceCapIsFinal
  BY SlicesAreFinal
<1> QED
  BY <1>1, <1>2, <1>3, <1>4, TypeCorrect, PTL DEF Spec

(* A text with a final row was embedded: no row stays of a job that failed. *)
RowsEmbedded ==
  /\ \A i \in Texts : i \notin ToSet(pending) => rows[i].status = "ok"
  /\ phase = "settle" /\ failed = 0 =>
       \A i \in ToSet(pending) : rows[i].status = "ok"

LEMMA NoFailure ==
  ASSUME TypeOK, FirstFailure(Failures) = 0
  PROVE  \A i \in ToSet(pending) : Outcome(i).status = "ok"
<1>1. Failures \in SUBSET Nat /\ 0 \notin Failures
  <2>1. pending \in Seq(Texts)
    BY DEF TypeOK
  <2>2. DOMAIN pending \in SUBSET Nat /\ 0 \notin DOMAIN pending
    BY <2>1
  <2> QED BY <2>2 DEF Failures
<1>2. Failures = {}
  <2> SUFFICES ASSUME Failures # {} PROVE FALSE
    OBVIOUS
  <2>1. \E j \in Failures : \A k \in Failures : j <= k
    BY <1>1, MinOfNat
  <2>2. FirstFailure(Failures) \in Failures
    BY <2>1 DEF FirstFailure
  <2> QED BY <1>1, <2>2
<1>3. \A j \in DOMAIN pending : Outcome(pending[j]).status = "ok"
  BY <1>2 DEF Failures
<1> QED BY <1>3 DEF ToSet

LEMMA NextRowsEmbedded ==
  ASSUME TypeOK, RowsEmbedded, [Next]_vars
  PROVE  RowsEmbedded'
<1>0. \A i \in ToSet(pending) : i \in Texts
  BY Shapes
<1>1. CASE Resolve
  BY <1>1 DEF Resolve, RowsEmbedded, Texts
<1>2. CASE RunJob
  <2>1. \A i \in Texts : i \notin ToSet(pending) => rows'[i] = rows[i]
    <3> TAKE i \in Texts
    <3> HAVE i \notin ToSet(pending)
    <3>1. ~ \E j \in DOMAIN pending : pending[j] = i
      BY DEF ToSet
    <3> QED BY <1>2, <3>1 DEF RunJob
  <2>2. failed' = 0 => \A i \in ToSet(pending) : rows'[i].status = "ok"
    <3> HAVE failed' = 0
    <3> TAKE i \in ToSet(pending)
    <3>1. \E j \in DOMAIN pending : pending[j] = i
      BY DEF ToSet
    <3>2. rows'[i] = Outcome(i)
      BY <1>0, <1>2, <3>1 DEF RunJob
    <3>3. Outcome(i).status = "ok"
      BY <1>2, NoFailure DEF RunJob
    <3> QED BY <3>2, <3>3
  <2>3. Texts' = Texts /\ pending' = pending
    BY <1>2 DEF RunJob, Texts
  <2> QED BY <2>1, <2>2, <2>3 DEF RowsEmbedded
<1>3. CASE WidenInvalid
  BY <1>3 DEF WidenInvalid, RowsEmbedded, Texts
<1>4. CASE Raise
  BY <1>4 DEF Raise, RowsEmbedded, Texts
<1>5. CASE Settle
  <2>1. \A i \in Texts : rows[i].status = "ok"
    BY <1>5 DEF Settle, RowsEmbedded
  <2> QED BY <1>5, <2>1 DEF Settle, RowsEmbedded, Texts
<1>6. CASE Finish
  BY <1>6 DEF Finish, RowsEmbedded, Texts
<1>7. CASE Over \/ UNCHANGED vars
  BY <1>7 DEF Over, vars, RowsEmbedded, Texts
<1> QED
  BY <1>1, <1>2, <1>3, <1>4, <1>5, <1>6, <1>7 DEF Next

(* Embedding a text through the window and its ids through                  *)
(* embed_token_ids_value gives one row and one set of statistics, whatever  *)
(* the tables, the cap and the truncation policy, in texts without U+0085.  *)
THEOREM TokenIdsAgree ==
  ASSUME EveryBreakKept
  PROVE  Spec => []TextAndIdsAgree
<1>1. Init => RowsEmbedded
  <2> SUFFICES ASSUME Init PROVE RowsEmbedded
    OBVIOUS
  <2>1. \A i \in Texts : i \in ToSet(pending)
    BY DEF Init, ToSet
  <2> QED BY <2>1 DEF Init, RowsEmbedded
<1>2. TypeOK /\ RowsEmbedded /\ [Next]_vars => RowsEmbedded'
  BY NextRowsEmbedded
<1>3. TypeOK /\ RowsEmbedded /\ RowsFinal /\ WindowIsInvisible => TextAndIdsAgree
  <2> SUFFICES ASSUME TypeOK, RowsEmbedded, RowsFinal, WindowIsInvisible, phase = "done",
                      NEW i \in Texts
               PROVE  rows[i] = EmbedTokenIds(StreamOf(batch[i]).ids, max, usable)
    BY DEF TextAndIdsAgree
  <2>1. ToSet(pending) = {}
    BY DEF RowsFinal, ToSet
  <2>2. rows[i] = EmbedOne(batch[i], Len(batch[i]), max, usable) /\ rows[i].status = "ok"
    BY <2>1 DEF WindowIsInvisible, Whole, Full, RowsEmbedded
  <2>3. batch[i] \in ByteSeq /\ max \in Nat
    BY Shapes
  <2> QED BY <2>2, <2>3, TokensAgree DEF StreamOf
<1>4. Spec => []WindowIsInvisible
  BY WindowInvisible
<1>5. Init => RowsFinal
  BY InitRowsFinal
<1>6. TypeOK /\ RowsFinal /\ SliceCapIsFinal /\ [Next]_vars => RowsFinal'
  BY NextRowsFinal
<1>7. Spec => []SliceCapIsFinal
  BY SlicesAreFinal
<1> QED
  BY <1>1, <1>2, <1>3, <1>4, <1>5, <1>6, <1>7, TypeCorrect, PTL DEF Spec

-----------------------------------------------------------------------------
(* The errors *)

(* A failed job is one whose failed place names a slice that fails.         *)
FailureIsReal ==
  /\ phase \in {"settle", "raised"} /\ failed # 0 =>
       Outcome(pending[failed]).status # "ok"
  /\ phase = "raised" =>
       /\ failed # 0
       /\ \/ Outcome(pending[failed]).status # "invalid"
          \/ ~(copied[Blamed] < Full(Blamed))

\* The first failure is a place of the pending list whose slice fails, or 0.
LEMMA FirstFailureFacts ==
  ASSUME TypeOK, FirstFailure(Failures) # 0
  PROVE  /\ FirstFailure(Failures) \in DOMAIN pending
         /\ Outcome(pending[FirstFailure(Failures)]).status # "ok"
<1>1. /\ Failures # {}
      /\ FirstFailure(Failures) = CHOOSE j \in Failures : \A k \in Failures : j <= k
  BY DEF FirstFailure
<1>2. Failures \in SUBSET Nat
  BY Shapes DEF Failures
<1>3. \E j \in Failures : \A k \in Failures : j <= k
  BY <1>1, <1>2, MinOfNat
<1>4. FirstFailure(Failures) \in Failures
  BY <1>1, <1>3
<1> QED
  BY <1>4 DEF Failures

\* A recorded failure stays one across every step.
LEMMA NextFailureIsReal ==
  ASSUME TypeOK, FailureIsReal, [Next]_vars
  PROVE  FailureIsReal'
<1>1. CASE Resolve
  BY <1>1 DEF Resolve, FailureIsReal
<1>2. CASE RunJob
  <2>1. failed' # 0 => Outcome(pending[failed']).status # "ok"
    BY <1>2, FirstFailureFacts DEF RunJob
  <2>2. (Outcome(pending[failed]))' = Outcome(pending[failed'])
    BY <1>2 DEF RunJob, Outcome
  <2> QED
    BY <1>2, <2>1, <2>2 DEF RunJob, FailureIsReal
<1>3. CASE WidenInvalid
  BY <1>3 DEF WidenInvalid, FailureIsReal
<1>4. CASE Raise
  <2>1. ~(copied[Blamed] >= Full(Blamed)) \/ ~(copied[Blamed] < Full(Blamed))
    <3>1. Blamed \in Texts
      BY <1>4, Shapes DEF Raise, Blamed, TypeOK, ToSet
    <3> QED
      BY <3>1, Shapes
  <2> QED
    BY <1>4, <2>1 DEF Raise, FailureIsReal, Outcome, Blamed, Full
<1>5. CASE Settle
  BY <1>5 DEF Settle, FailureIsReal
<1>6. CASE Finish
  BY <1>6 DEF Finish, FailureIsReal
<1>7. CASE Over \/ UNCHANGED vars
  BY <1>7 DEF Over, vars, FailureIsReal, Outcome, Blamed, Full
<1> QED
  BY <1>1, <1>2, <1>3, <1>4, <1>5, <1>6, <1>7 DEF Next

(* When an empty result is no error, the only failure left is malformed     *)
(* UTF-8, and a call raises it only for a text it has read to the end.      *)
THEOREM ErrorsAreReal ==
  ASSUME EmptyRaises = FALSE
  PROVE  Spec => []BlamedTextFails
<1>1. Init => FailureIsReal
  BY DEF Init, FailureIsReal
<1>2. TypeOK /\ FailureIsReal /\ [Next]_vars => FailureIsReal'
  BY NextFailureIsReal
<1>3. TypeOK /\ FailureIsReal => BlamedTextFails
  <2> SUFFICES ASSUME TypeOK, FailureIsReal, phase = "raised"
               PROVE  Whole(Blamed).status = Outcome(pending[failed]).status
    BY DEF BlamedTextFails
  <2>1. Blamed = pending[failed] /\ Blamed \in Texts
    <3>1. failed \in DOMAIN pending
      BY Shapes DEF FailureIsReal, TypeOK
    <3> QED
      BY <3>1, Shapes DEF Blamed, ToSet
  <2>2. Outcome(Blamed).status \in {"ok", "invalid"}
    BY DEF Outcome, EmbedOne, Embedded, Malformed, Pooled
  <2>3. ~(copied[Blamed] < Full(Blamed))
    BY <2>1, <2>2 DEF FailureIsReal
  <2> QED
    BY <2>1, <2>3, FullSlice
<1> QED
  BY <1>1, <1>2, <1>3, TypeCorrect, PTL DEF Spec

=============================================================================
