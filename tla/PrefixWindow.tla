---------------------------- MODULE PrefixWindow ----------------------------
(***************************************************************************)
(* The round loop of embed_texts_internal (static_embeddings.c): a capped  *)
(* call embeds a leading slice of every text, takes the rows whose slice   *)
(* reached the cap, widens the slices of the others and runs those again.  *)
(* A reader of the result must not be able to tell.                        *)
(*                                                                         *)
(* A row stands for the sequence of ids that are averaged into it.  One    *)
(* job runs in one step here; ModelCalls takes it apart.                   *)
(***************************************************************************)
EXTENDS Tokenizer

CONSTANTS
  Batches,        \* the batches a call may be given: sequences of texts
  Limits,         \* the values of max_tokens; 0 is no limit
  BytesPerToken,  \* SE_PREFIX_BYTES_PER_TOKEN
  MinBytes,       \* SE_PREFIX_MIN_BYTES
  MaxBytes,       \* SE_PREFIX_MAX_BYTES
  Backscan,       \* SE_PREFIX_BACKSCAN_BYTES
  EmptyRaises,    \* empty_policy is raise
  Policies        \* truncation_policy of the model: does it count usable ids only

ASSUME WindowAssumption ==
  /\ Limits \subseteq Nat
  /\ BytesPerToken \in Nat \ {0}
  /\ MinBytes \in Nat \ {0}
  /\ MaxBytes \in Nat \ {0}
  /\ Backscan \in Nat
  /\ EmptyRaises \in BOOLEAN
  /\ Policies \subseteq BOOLEAN
  /\ \A b \in Batches : b \in Seq(Seq(CodePoints \cup {Cont}))

-----------------------------------------------------------------------------
(* One text *)

(* What embed_ids_core makes of the ids a text or a caller gave.           *)
Pooled(ids, unk, truncated) ==
  LET row == IF DropUnk THEN SelectSeq(ids, IsKnown) ELSE ids
  IN [status |-> IF row = <<>> /\ EmptyRaises THEN "empty" ELSE "ok",
      row |-> row, tokens |-> Len(ids), unk |-> unk, truncated |-> truncated]

Malformed == [status |-> "invalid", row |-> <<>>, tokens |-> 0, unk |-> 0,
              truncated |-> FALSE]

(* se_embed_one, and what it makes of the first n bytes of a text. *)
Embedded(s) == IF s.bad THEN Malformed ELSE Pooled(s.ids, s.unk, s.truncated)

EmbedOne(text, n, max, usable) ==
  Embedded(Tokenize(SubSeq(text, 1, n), max, usable))

(* embed_token_ids_value: the other way to a row, from the ids themselves. *)
EmbedTokenIds(ids, max, usable) ==
  LET kept == IF max = 0 THEN Len(ids)
              ELSE IF DropUnk /\ usable
              THEN IF Len(ids) - Unknowns(ids) > max THEN UsablePrefix(ids, max)
                   ELSE Len(ids)
              ELSE Min({Len(ids), max})
      used == SubSeq(ids, 1, kept)
  IN Pooled(used, Unknowns(used), kept < Len(ids))

-----------------------------------------------------------------------------
(* The window *)

(* prefix_initial_target *)
InitialTarget(max) ==
  IF max = 0 THEN 0
  ELSE LET target == max * BytesPerToken
           raised == IF target < MinBytes THEN MinBytes ELSE target
       IN IF raised > MaxBytes THEN MaxBytes ELSE raised

GrowTargetNoWhole(target, full) ==
  IF target = 0 \/ target > full \div 2 THEN target ELSE 2 * target

(* grow_target *)
GrowTarget(target, full) ==
  IF target = 0 \/ target > full \div 2 THEN full ELSE 2 * target

(* What doubling a target can reach, the whole text last. *)
Grown(target, full) ==
  {g \in target .. full : g = full \/ \E k \in 0 .. full : g = target * 2 ^ k}

(* resolve_copy_len: the target it leaves, and the bytes it copies for it. *)
ResolveTarget(text, target, max) ==
  IF max = 0 \/ target = 0 \/ target >= Len(text) THEN Len(text)
  ELSE Min({g \in Grown(target, Len(text)) :
              g = Len(text) \/ BoundaryLen(text, g, Backscan) # 0})

CopyLen(text, resolved) ==
  IF resolved = Len(text) THEN Len(text) ELSE BoundaryLen(text, resolved, Backscan)

-----------------------------------------------------------------------------
VARIABLES
  batch,     \* the private snapshot of the texts
  max,       \* max_tokens of the call
  usable,    \* the truncation policy of the model
  phase,     \* where the loop is: resolve, run, settle, done, raised
  targets,   \* run.targets
  pending,   \* run.pending
  copied,    \* run.copy_lens, by text
  rows,      \* run.out and run.stats, by text
  failed     \* 0, or the place in pending of job.failed_index

vars == <<batch, max, usable, phase, targets, pending, copied, rows, failed>>

Texts == DOMAIN batch

(* A row nobody has written. *)
NoRow == [Malformed EXCEPT !.status = "none"]

Full(i) == Len(batch[i])
Outcome(i) == EmbedOne(batch[i], copied[i], max, usable)

Init ==
  /\ batch \in Batches
  /\ max \in Limits
  /\ usable \in Policies
  /\ phase = "resolve"
  /\ targets = [i \in Texts |-> InitialTarget(max)]
  /\ pending = [i \in Texts |-> i]
  /\ copied = [i \in Texts |-> 0]
  /\ rows = [i \in Texts |-> NoRow]
  /\ failed = 0

(* The head of the loop: choose the slice of every pending text. *)
Resolve ==
  /\ phase = "resolve" /\ pending # <<>>
  /\ LET picked == ToSet(pending)
         resolved == [i \in Texts |->
           IF i \in picked THEN ResolveTarget(batch[i], targets[i], max) ELSE targets[i]]
     IN /\ targets' = resolved
        /\ copied' = [i \in Texts |->
             IF i \in picked THEN CopyLen(batch[i], resolved[i]) ELSE copied[i]]
  /\ phase' = "run"
  /\ UNCHANGED <<batch, max, usable, pending, rows, failed>>

Failures == {j \in DOMAIN pending : Outcome(pending[j]).status # "ok"}

FirstFailureByText(bad) ==
  IF bad = {} THEN 0 ELSE pending[CHOOSE j \in bad : \A k \in bad : j <= k]

(* The first of the places that fail, or 0. *)
FirstFailure(bad) ==
  IF bad = {} THEN 0 ELSE CHOOSE j \in bad : \A k \in bad : j <= k

(* batch_worker_run over the slices: it stops at the first that fails. *)
RunJob ==
  /\ phase = "run"
  /\ failed' = FirstFailure(Failures)
  /\ rows' = [i \in Texts |->
       IF \E j \in DOMAIN pending : pending[j] = i /\ (failed' = 0 \/ j < failed')
       THEN Outcome(i) ELSE rows[i]]
  /\ phase' = "settle"
  /\ UNCHANGED <<batch, max, usable, targets, pending, copied>>

BlamedPlace == failed

(* run.pending[sub]: the text the failed place of the job stands for. *)
Blamed == pending[failed]

(* A slice that is not valid UTF-8 may only have been cut badly: widen it  *)
(* and run every pending text again.                                       *)
WidenInvalid ==
  /\ phase = "settle" /\ failed # 0
  /\ Outcome(pending[failed]).status = "invalid"
  /\ copied[Blamed] < Full(Blamed)
  /\ targets' = [targets EXCEPT ![Blamed] = GrowTarget(@, Full(Blamed))]
  /\ failed' = 0
  /\ phase' = "resolve"
  /\ UNCHANGED <<batch, max, usable, pending, copied, rows>>

(* Any other failure is the call's. *)
Raise ==
  /\ phase = "settle" /\ failed # 0
  /\ \/ Outcome(pending[failed]).status # "invalid"
     \/ copied[Blamed] >= Full(Blamed)
  /\ phase' = "raised"
  /\ UNCHANGED <<batch, max, usable, targets, pending, copied, rows, failed>>

TooShortByCount(i) ==
  max # 0 /\ copied[i] < Full(i) /\ rows[i].tokens < max

(* The slice of a text ended before its cap was reached. *)
TooShort(i) ==
  max # 0 /\ copied[i] < Full(i) /\ ~rows[i].truncated

(* After a job without a failure: keep the rows that are final, widen the  *)
(* slices of the others, and keep those pending in the order they had.     *)
Settle ==
  /\ phase = "settle" /\ failed = 0
  /\ targets' = [i \in Texts |->
       IF i \in ToSet(pending) /\ TooShort(i)
       THEN GrowTarget(targets[i], Full(i)) ELSE targets[i]]
  /\ \E n \in 0 .. Len(pending) : \E kept \in [1 .. n -> Texts] :
       /\ ToSet(kept) = {i \in ToSet(pending) : TooShort(i)}
       /\ \A j, k \in 1 .. n : j < k => kept[j] < kept[k]
       /\ pending' = kept
  /\ phase' = "resolve"
  /\ UNCHANGED <<batch, max, usable, copied, rows, failed>>

(* Nothing is pending: the rows are packed into the result. *)
Finish ==
  /\ phase = "resolve" /\ pending = <<>>
  /\ phase' = "done"
  /\ UNCHANGED <<batch, max, usable, targets, pending, copied, rows, failed>>

(* The call has returned or raised. *)
Over == phase \in {"done", "raised"} /\ UNCHANGED vars

Next == Resolve \/ RunJob \/ WidenInvalid \/ Raise \/ Settle \/ Finish \/ Over

Spec == Init /\ [][Next]_vars

-----------------------------------------------------------------------------
(* Properties *)

Whole(i) == EmbedOne(batch[i], Full(i), max, usable)

(* Every variable keeps its shape; a slice is never longer than its text, so *)
(* build_input_indexed copies no byte the string does not have.              *)
TypeOK ==
  /\ batch \in Seq(Seq(CodePoints \cup {Cont}))
  /\ max \in Limits
  /\ usable \in Policies
  /\ phase \in {"resolve", "run", "settle", "done", "raised"}
  /\ targets \in [Texts -> Nat]
  /\ pending \in Seq(Texts)
  /\ copied \in [Texts -> Nat]
  /\ \A i \in Texts : copied[i] <= Full(i)
  /\ failed \in 0 .. Len(pending)

(* The rows a call returns are those of the whole texts: cutting, widening  *)
(* and running again is invisible in vectors and statistics alike.          *)
WindowIsInvisible ==
  phase = "done" => \A i \in Texts : rows[i] = Whole(i)

(* The text an error names fails for that reason when it is read whole: no  *)
(* error is an effect of the cut.                                           *)
BlamedTextFails ==
  phase = "raised" =>
    Whole(Blamed).status = Outcome(pending[failed]).status

(* The token stream of a slice is a prefix of that of the text: a cut never *)
(* falls where the tokenizer would have gone on with a word.                *)
StreamOf(text) == Tokenize(text, 0, usable)

SliceStreamIsPrefix ==
  phase = "run" =>
    \A i \in ToSet(pending) :
      IsPrefix(StreamOf(SubSeq(batch[i], 1, copied[i])).ids, StreamOf(batch[i]).ids)

(* A slice that reaches the cap says all there is to say of its text: the   *)
(* test on which embed_texts_internal accepts a row.                        *)
SliceCapIsFinal ==
  phase = "run" =>
    \A i \in ToSet(pending) : Outcome(i).truncated => Outcome(i) = Whole(i)

(* Embedding a text and embedding the ids of its tokens agree, row and      *)
(* statistics, whatever the cap: the tokenizer counts ids as they come and  *)
(* embed_token_ids_value counts them afterwards.                            *)
TextAndIdsAgree ==
  phase = "done" =>
    \A i \in Texts : rows[i] = EmbedTokenIds(StreamOf(batch[i]).ids, max, usable)

(* The loop ends: a round that runs again has widened the slice of a text  *)
(* it runs, which was not the whole text yet, and narrowed none.            *)
EveryRoundWidens ==
  [][phase = "settle" /\ phase' = "resolve" /\ pending' # <<>> =>
       /\ \E i \in ToSet(pending') :
            targets[i] < targets'[i] /\ targets'[i] <= Full(i)
       /\ \A i \in Texts : targets[i] <= targets'[i]]_vars

=============================================================================
