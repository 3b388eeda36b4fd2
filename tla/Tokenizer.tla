------------------------------ MODULE Tokenizer ------------------------------
(***************************************************************************)
(* se_tokenizer.c: what one text becomes under BERT-style normalisation    *)
(* and WordPiece, where the capped embedding stops, and where the prefix   *)
(* window of embed_texts_internal may cut a text.                          *)
(*                                                                         *)
(* A text is a sequence of bytes.  A code point is named by its first      *)
(* byte, which fixes its width; every other byte of it is Cont.  The       *)
(* tables of the model file (character classes, lower-casing, NFD) are     *)
(* constants, and a normalisation flag that is off is an empty table.  A   *)
(* vocabulary entry is the sequence of its code points and is its own id.  *)
(***************************************************************************)
EXTENDS Integers, SequencesExt

CONSTANTS
  Width,        \* [first bytes -> bytes of the code point]; 1 is ASCII
  Cont,         \* a continuation byte
  Blank,        \* the ASCII space
  Space, Punct, Control, Cjk, Mark,   \* classes of code points
  Lower, Nfd,   \* [rewritten code points -> what they become]
  Added,        \* [added tokens, as bytes -> their ids]
  Vocab,        \* pieces that start a word
  ContVocab,    \* pieces that continue one
  MaxTokenChars, MaxInputChars,
  Unk,          \* unk_id
  DropUnk       \* unk_policy is drop

CodePoints == DOMAIN Width

(* tokenize_ascii_run rewrites no ASCII punctuation.  The byte 0x5B of     *)
(* added tokens stands first in them and nowhere else.                     *)
ASSUME TablesAssumption ==
  /\ \A c \in CodePoints : Width[c] \in 1 .. 4
  /\ Cont \notin CodePoints
  /\ Blank \in Space /\ Width[Blank] = 1
  /\ Space \cup Punct \cup Control \cup Cjk \cup Mark \subseteq CodePoints
  /\ DOMAIN Lower \cup DOMAIN Nfd \subseteq CodePoints
  /\ \A c \in DOMAIN Lower : Lower[c] \in Seq(CodePoints)
  /\ \A c \in DOMAIN Nfd : Nfd[c] \in Seq(CodePoints)
  /\ \A c \in Punct : Width[c] = 1 => c \notin DOMAIN Lower \cup DOMAIN Nfd \cup Mark
  /\ DOMAIN Added \subseteq Seq(CodePoints)
  /\ \A t \in DOMAIN Added : Len(t) >= 2 /\ \A i \in 2 .. Len(t) : t[i] # t[1]

-----------------------------------------------------------------------------
(* Decoding *)

(* A code point starts after the first n bytes of text and is complete. *)
Decodes(text, n) ==
  /\ text[n + 1] \in CodePoints
  /\ n + Width[text[n + 1]] <= Len(text)
  /\ \A k \in n + 2 .. n + Width[text[n + 1]] : text[k] = Cont

StartsWith(text, n, t) ==
  /\ n + Len(t) <= Len(text)
  /\ SubSeq(text, n + 1, n + Len(t)) = t

-----------------------------------------------------------------------------
(* WordPiece: the longest piece first, the whole word unknown if one part  *)
(* has none.                                                               *)

PiecesFrom(word) ==
  LET ends(s) ==
        {e \in s .. Len(word) :
           /\ e - s < MaxTokenChars
           /\ SubSeq(word, s, e) \in IF s = 1 THEN Vocab ELSE ContVocab}
      split[s \in 1 .. Len(word) + 1] ==
        IF s > Len(word) THEN {<<>>}
        ELSE IF ends(s) = {} THEN {}
        ELSE LET e == Max(ends(s))
             IN {<< <<s > 1, SubSeq(word, s, e)>> >> \o rest : rest \in split[e + 1]}
  IN split[1]

(* wordpiece: the ids one word adds. *)
WordPiece(word) ==
  IF Len(word) > MaxInputChars \/ PiecesFrom(word) = {}
  THEN <<Unk>>
  ELSE CHOOSE ids \in PiecesFrom(word) : TRUE

-----------------------------------------------------------------------------
(* Capping the ids.  A state of the tokenizer is a record: at, the bytes   *)
(* read; ids, n_ids and n_unk; seg, the code points of the open word;      *)
(* truncated; bad, set by malformed UTF-8.                                 *)

Start == [at |-> 0, ids |-> <<>>, unk |-> 0, seg |-> <<>>,
          truncated |-> FALSE, bad |-> FALSE]

IsUnk(id) == id = Unk
IsKnown(id) == id # Unk

Unknowns(ids) == Len(SelectSeq(ids, IsUnk))

(* limited_token_count under a limit mode. *)
LimitedCount(s, usable) ==
  IF usable /\ DropUnk THEN Len(s.ids) - s.unk ELSE Len(s.ids)

(* The length of ids up to and with its max-th known id. *)
UsablePrefix(ids, max) ==
  Min({k \in 1 .. Len(ids) : k - Unknowns(SubSeq(ids, 1, k)) = max})

CapAfterAppendRawOnly(s, max, usable) ==
  IF max = 0 \/ LimitedCount(s, usable) <= max THEN s
  ELSE [s EXCEPT !.ids = SubSeq(s.ids, 1, max),
                 !.unk = Unknowns(SubSeq(s.ids, 1, max)),
                 !.truncated = TRUE]

(* cap_after_append.  n_unk is lowered by the unknown ids cut off in the   *)
(* raw branch and counted anew in the usable one.                          *)
CapAfterAppend(s, max, usable) ==
  IF max = 0 \/ LimitedCount(s, usable) <= max THEN s
  ELSE IF ~usable \/ ~DropUnk
  THEN [s EXCEPT !.ids = SubSeq(s.ids, 1, max),
                 !.unk = @ - Unknowns(SubSeq(s.ids, max + 1, Len(s.ids))),
                 !.truncated = TRUE]
  ELSE LET keep == UsablePrefix(s.ids, max)
       IN [s EXCEPT !.ids = SubSeq(s.ids, 1, keep),
                    !.unk = keep - max,
                    !.truncated = TRUE]

(* append_wordpiece and append_direct_id *)
Append1(s, ids, max, usable) ==
  CapAfterAppend([s EXCEPT !.ids = @ \o ids, !.unk = @ + Unknowns(ids)], max, usable)

(* Unless the word before it has reached the cap. *)
AppendUncapped(s, ids, max, usable) ==
  IF s.truncated THEN s ELSE Append1(s, ids, max, usable)

Flush(s, max, usable) ==
  IF s.seg = <<>> THEN s
  ELSE [Append1(s, WordPiece(s.seg), max, usable) EXCEPT !.seg = <<>>]

-----------------------------------------------------------------------------
(* Normalisation: what one code point of the text feeds to the segmenter. *)

Lowered(cp) == IF cp \in DOMAIN Lower THEN Lower[cp] ELSE <<cp>>

Stripped(cp) ==
  IF cp \in DOMAIN Nfd
  THEN FlattenSeq([k \in DOMAIN Nfd[cp] |->
         IF Nfd[cp][k] \in Mark THEN <<>> ELSE Lowered(Nfd[cp][k])])
  ELSE IF cp \in Mark THEN <<>> ELSE Lowered(cp)

(* emit_cleaned, and the ASCII classes of tokenize_ascii_run, which say    *)
(* the same of bytes below 0x80: a control is dropped before anyone asks   *)
(* whether it is white space.                                              *)
Cleaned(cp) ==
  IF cp \in Control THEN <<>>
  ELSE IF cp \in Space THEN <<Blank>>
  ELSE IF cp \in Cjk THEN <<Blank>> \o Stripped(cp) \o <<Blank>>
  ELSE Stripped(cp)

(* feed_token_cp *)
Feed(s, cp, max, usable) ==
  IF s.truncated THEN s
  ELSE IF cp \in Space THEN Flush(s, max, usable)
  ELSE IF cp \in Punct
  THEN AppendUncapped(Flush(s, max, usable), WordPiece(<<cp>>), max, usable)
  ELSE [s EXCEPT !.seg = Append(@, cp)]

(* What one code point was cleaned to *)
FeedAll(s, cps, max, usable) ==
  LET feed(st, cp) == Feed(st, cp, max, usable) IN FoldLeft(feed, s, cps)

(* One turn of the loops of se_tokenize and tokenize_ascii_run. *)
Step(text, s, max, usable) ==
  LET added == {t \in DOMAIN Added : StartsWith(text, s.at, t)}
  IN IF s.truncated \/ s.bad \/ s.at = Len(text) THEN s
     ELSE CASE added # {} ->
                 LET t == CHOOSE t \in added : TRUE
                 IN [AppendUncapped(Flush(s, max, usable), <<Added[t]>>, max, usable)
                       EXCEPT !.at = @ + Len(t)]
            [] added = {} /\ ~Decodes(text, s.at) -> [s EXCEPT !.bad = TRUE]
            [] OTHER ->
                 LET cp == text[s.at + 1]
                 IN FeedAll([s EXCEPT !.at = @ + Width[cp]], Cleaned(cp), max, usable)

(* After the loop the open word is still to be taken. *)
Finished(s, max, usable) ==
  IF s.bad \/ s.truncated THEN s ELSE Flush(s, max, usable)

(* se_tokenize *)
Tokenize(text, max, usable) ==
  LET state[k \in 0 .. Len(text)] ==
        IF k = 0 THEN Start ELSE Step(text, state[k - 1], max, usable)
  IN Finished(state[Len(text)], max, usable)

-----------------------------------------------------------------------------
(* Cutting a text *)

(* normalization_stable *)
Stable(cp) ==
  \/ Width[cp] = 1
  \/ cp \notin DOMAIN Lower \cup DOMAIN Nfd \cup Mark

NeverSplitsAdded(text, n) == FALSE

(* boundary_splits_added_token: the cut after n bytes is inside an added token. *)
SplitsAdded(text, n) ==
  \E t \in DOMAIN Added : \E back \in 1 .. Len(t) - 1 :
     back <= n /\ StartsWith(text, n - back, t)

CutAnywhere(text, n, target) ==
  LET after == n + Width[text[n + 1]]
  IN IF after <= target /\ ~SplitsAdded(text, after) THEN after ELSE 0

(* The cut the code point after the first n bytes offers, behind it if     *)
(* that fits and else, for CJK, before it; 0 if there is none.             *)
Cut(text, n, target) ==
  LET cp == text[n + 1]
      after == n + Width[cp]
      breaks == cp \in Cjk \cup Space \cup Punct
  IN IF Stable(cp) /\ breaks /\ after <= target /\ ~SplitsAdded(text, after)
     THEN after
     ELSE IF Stable(cp) /\ cp \in Cjk /\ ~SplitsAdded(text, n) THEN n ELSE 0

(* se_prefix_boundary_len: scan back from the target over at most backscan *)
(* bytes for a cut; 0 when there is none or a byte does not decode.        *)
BoundaryLen(text, target, backscan) ==
  LET floor == IF target > backscan THEN target - backscan ELSE 0
      heads == {n \in floor .. target - 1 : text[n + 1] # Cont}
      ends == {n \in heads : ~Decodes(text, n) \/ Cut(text, n, target) # 0}
  IN IF target >= Len(text) THEN Len(text)
     ELSE IF target = 0 \/ ends = {} THEN 0
     ELSE IF Decodes(text, Max(ends)) THEN Cut(text, Max(ends), target)
     ELSE 0

=============================================================================
