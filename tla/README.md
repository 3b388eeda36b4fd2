# static_embeddings in TLA+

A verification project for the Ruby gem `static_embeddings`: a C extension that maps a
`.semb` model file, tokenizes text (BERT normalisation and WordPiece), averages rows of
an embedding matrix and answers packed vectors, and the Ruby code that writes such files.
Paths below are relative to the repository root; `ext` stands for `ext/static_embeddings`.

## 1. The system

| Component | State it keeps | Operations | Interacts with |
|---|---|---|---|
| Model handle (`ext/static_embeddings.c`, `model_wrapper_t`) | `open`, the mapping, `active_ops` | initialize, close, free, every call that reads the model | all calls, Ruby's GVL, the garbage collector |
| Call (`embed_texts_internal`, `embed_token_ids_value`, `model_warmup`, short calls) | frame, C buffers, place of the prefix loop | rounds, unwinding, freeing | handle, job, interrupts of its thread |
| Native job (`batch_job_t`, `ids_job_t`, `warmup_job_t`) | cancel flag, next row, error, results | run inline, without the GVL, or on a fiber's worker thread | tokenizer, pooling, unblock function |
| Prefix window (`embed_texts_internal`) | targets, pending list, slice lengths, rows | choose slices, run, accept, widen | tokenizer's boundary predicate |
| Tokenizer (`ext/se_tokenizer.c`) | open word, ids, counts, truncated flag | decode, normalise, segment, WordPiece, cap | vocabulary, tables of the file, scratch |
| Pooling (`ext/se_embed.c`) | accumulator | average, normalise, empty policy | embedding matrix |
| Vocabulary (`ext/se_format.c`, `lib/.../format/hash_table.rb`, `trie.rb`) | slots, strings, trie nodes and edges | build, load checks, lookup, longest match | writer, loader, WordPiece |
| Model file (`writer.rb`, `verifier.rb`, `se_model_open`) | bytes on disk, checksum, mapping | write, patch checksum, verify, map, validate | conversion, handle |
| Scratch (`ext/se_tokenizer.c` 25-305) | one buffer set a thread, `in_use` | acquire, grow, release, trim, drop | jobs, allocation statistics |
| Allocation statistics (`ext/se_alloc_stats.c`) | current, peak and total counters | alloc, realloc, free, reset, snapshot | every allocation, from every thread |
| Top-k search (`ext/se_topk.c`) | best rows so far, cancel flag | scan, insert, cancel | matrix and query strings |
| f16 codec (`ext/se_f16.c`) | none | encode (also in place), decode | results |
| Chunked payloads, safetensors, importers, CLI (`lib/`) | file offsets, remainders | read, slice, convert | writer |

Calls reach the handle through `get_model`; what follows runs under the GVL until the
call hands a job to `rb_thread_call_without_gvl` (or to a thread of its own when a fiber
scheduler runs), which is where other threads, fibers, signal handlers, `Thread#raise`,
`Timeout` and `close` get in. Below that, one job is sequential; its only shared state is
the cancel flag and the read-only mapping. Above it, a call of `embed` may go through
several jobs, because it first looks at a leading slice of every text.

What is hard here: an interrupt in any of the half dozen places where a call can be
interrupted; a close that races a call; the release of counts and buffers on every way
out; the argument that reading a slice is as good as reading the text, which involves the
tokenizer, the cut predicate, the counting of the cap and the bookkeeping of the batch;
and data structures one program builds (Ruby) and another trusts (C).

What makes each component correct:

* handle and calls: no job reads a mapping or a buffer that is gone; the count is exact;
  a cancelled job is never taken for a finished one, and only the interrupted call is
  cancelled; an interrupted call returns;
* prefix window: rows, statistics and errors are those of the whole texts, and it ends;
* tokenizer: the ids of a slice are a prefix of those of the text, and capping while
  tokenizing equals capping afterwards;
* vocabulary: every token is found under its id, nothing else is, the hash and the tries
  agree, and what the builder writes the loader accepts;
* file: one that was cut short does not load, and one that verifies is one a writer finished;
  the streams of the matrix yield what they declare, each row with its own weight;
* f16: the nearest half, and decoding exactly undone by encoding; scratch: one owner at a
  time; statistics: never below zero, and what is read back adds up; top-k: the k best in the
  documented order, or nothing.

`PROJECT.json` lists the hazards at their lines.

## 2. Modules

| Module | Models |
|---|---|
| `ModelHandle` | abstract specification of the handle: mapped once, held by calls, read only by holders, released when nobody holds it |
| `ModelCalls` | calls, jobs and interrupts of one model; implements `ModelHandle` |
| `Tokenizer` | one text: decoding, normalisation, WordPiece, the cap, and where it may be cut |
| `PrefixWindow` | the round loop of `embed_texts_internal` over a batch; extends `Tokenizer` |
| `Vocabulary` | the hash table and tries a conversion builds, the loader's checks, and their readers in C |
| `TopK` | one top-k search with its checks, its scan and its interrupts, beside threads that write to the matrix |
| `AllocStats` | the allocation counters as several threads and a reset change them; extended by `Scratch` |
| `Scratch` | the scratch buffers of every thread: taken, grown, nested, trimmed and destroyed |
| `F16` | the f16 codec: one number, and an array encoded over itself |
| `Payload` | the chain of streams the matrix goes through: read, map and weigh, cut |
| `ModelFile` | conversions that write a file, what stops them, and a load of it; extends `Payload` |
| `MC...` | instances for TLC |
| `..._proofs` | theorems; `Facts` holds the lemmas they share: least and greatest numbers, induction over a set of numbers, division, pieces of sequences |

### ModelCalls

A caller is a Ruby thread or a fiber. `pc` names the yield points of the C code, so a step
is what happens under the GVL between two of them: `Begin` (`get_model`), `Args`
(`resolve_max_tokens` and argument checks), `Convert` (ids), `StartRound` (stage the batch
and start the job), `RegionEnd`, `RoundOver` and `IdsOver` (after the job), `JoinRaise` and
`RejoinEnd` (`fiber_worker_ensure`), `RaiseOut` (the `rb_ensure` handlers). `GvlFree`
says when another caller may step: not while one is in the round loop, which never
yields, nor while one converts arguments, unless `ArgCallbacks` lets a `to_int` run Ruby
code there. `EnterRegion`, `NextItem`, `ItemDone`, `ItemFails`, `ItemCancelled` are the
native job; they need no GVL. `Interrupt` delivers a signal handler that returns ("trap")
or an exception ("raise"), and calls the unblock function if the caller is in its region.
`interrupts` counts those of the current round: `CancelNeedsInterrupt` says with it that a flag set in one
round cancels no other. What an item is (a row, 256 ids, a group of pages) does not matter here; that an item may
fail and that the flag is looked at inside items does.

### Tokenizer and PrefixWindow

A text is a sequence of bytes. A code point is named by its first byte, whose width fixes
how many continuation bytes follow, so cuts inside a code point and malformed input are
real. Character classes, lower-casing and decomposition are constants, as they are tables
of the model file. A vocabulary entry is the sequence of its code points and its own id.
`Step` is one turn of the tokenizer's loop; `Tokenize` is a recursive function, not a
RECURSIVE operator, so that theorems can be stated about the modules that use it.
The ASCII fast path (`tokenize_ascii_run`) is taken to be the general path it duplicates;
`test/ascii_parity_test.rb` sweeps that equality over all 128 bytes.

`PrefixWindow` keeps the arrays of `embed_run_t`: `targets`, `pending`, `copied`
(`copy_lens`), `rows` (`out` and `stats`), and the failed index of the job. `Resolve`
chooses the slices, `RunJob` runs the batch up to its first failure, `WidenInvalid`,
`Raise` and `Settle` are the branches after it, `Finish` packs. A row stands for the
sequence of ids averaged into it: two equal sequences give the same floats.

### Vocabulary

The behaviour is the conversion: `InsertHash` puts the next token into the table
(`HashTable.insert`, with its probe count), `InsertTrie` into one of the two tries
(`WordPieceTrie.build`), and either may find a duplicate and raise. `Packed` sorts and lays
out the edges; `Lookup`, `FindChild`, `LongestMatch` and `WordPiece` are the C code that reads
the result; `TableLoads` and `TrieLoads` are the loader's checks. `ReferencePieces` is the Ruby
reference, which knows only the list of tokens. A character is the sequence of its bytes, so
a trie may branch inside one. `Tokenizer` has its own `WordPiece` over a set of entries; the
property `WordPieceIsReference` is what entitles it to that. The string blob is left out (a
slot's bytes are those of its token), and the size is computed with exact fractions where
Ruby divides floats: a rounding up could only make the table larger.

### TopK

`Call` is `top_k_impl` up to the scan, whose ways out (bad `k`, no rows, a matrix `topk_check_matrix`
refuses, a query of norm zero, no memory) are its disjuncts and `OutOfMemory`. `Row` is one turn of
the loop of `se_topk_execute`, `ScanOver` its end, also by a cancel. `ServeTrap`, `ServeRaise`
and `Return` are `topk_body` after the scan. `Mutate` and `Freeze` are other Ruby code,
which runs while the GVL is free (`GvlFree`). `asked` is the matrix of the call and no variable of the
code: the properties compare with it. The flag is looked at every `CheckEvery` rows and the size from which
the GVL is released is counted in rows, as every row has the same number of bytes. A row
stands for its score, since the kernels compute it from the row and the query alone.

### AllocStats and Scratch

`frames` is the stack of calls a thread is in, each at a place of `se_scratch_acquire`, of the call
itself or of `se_scratch_release`; `tls` is the set of the thread (`se_tls_scratch_t`). `MakeSlot`,
`TakeOwn`, `TakeHeap`, `Reserve` and `Acquired` are `se_scratch_acquire`, a step for each allocation;
`Use` is a call of `grow_buffer`; `Release` and `Trim`, or `Free`, are `se_scratch_release`; `Exit` and
`Destroy` are the destructor, which `se_scratch_drop_thread` calls as well. A call may be nested in another
on its thread: `ARCHITECTURE.md` promises that this works, though no path of the extension does it
today. `cps`, `cps2` and `bytes` are treated alike by the code and are one buffer, "text".

Every allocation is followed by the steps that count it, in `AllocStats`: `Add` and `Subtract` on
`current_bytes`, then the loop of `record_peak` (`LoadPeak`, `SwapPeak`). The thread goes on only then, but
other threads and `se_alloc_stats_reset` (`ResetLoad`, `ResetStore`) step in between. `used` and
`overtaken` are no variables of the code; the properties need them. The model is of builds whose
counters are atomic (GCC and clang); elsewhere they are plain reads and writes.

A reset that an allocation overtakes writes an old value over a peak raised meanwhile, and
the peak is then below what is in use until the next allocation is counted. The counters exist
for tests, which reset them when nothing runs; `PeakCovers` leaves out that time, and says that the
next allocation ends it.

### F16

A pattern is a record of sign, exponent and mantissa, and the widths of the fields are constants, as
the algorithm is the same for all; `Word` is `uint32_t`, in which the exponent of a subnormal half counts
down past zero. `EncodeSpecial`, `EncodeSmall` and `EncodeNormal` are the branches of
`se_float_to_f16_bits`, `Normalised` is the loop of its inverse. `DecodeStep` and `EncodeStep` are
one turn of the loops over an array; the bytes of `buffer` remember what was written to them, so
a float whose bytes are overwritten before it is read would show. The reference is what a
pattern is worth (`FloatValue`, `HalfValue`) and the nearest of all halves. The numbers in
`Magnitude` are exact integers, in units of the smallest float. Powers of two are a recursive
function (`Pow2`), as the provers know nothing of `^`.

### Payload and ModelFile

A stream is the state its methods keep between two chunks: how much was read, the table of
a mapped matrix, the row it has come to, and the bytes of a row that wait for the rest
(`unscaled` in `WeightedPayload`, `unsliced` in `RowPrefixPayload`). `ReadChunk` and
`MappedChunk` are what one chunk of the source, or of the table, becomes behind all stages.
The unit is a float: `F32Payload` never splits one. A float of the result says where it was read and
the rows whose weights it was multiplied with, so a weight that is lost, applied twice or taken
from another row shows.

A file is a sequence of cells, each as wide as a float; the header is two cells, the fields and the
checksum. A checksum is the cells it was computed over. `OpenFile` to `PatchChecksum` are
`Writer.write_file`: `sent` is what was written and digested, and `landed` how much of it has left
Ruby's IO buffer, which may be later (`Land`). `StreamRaises` is an exception of a stream, which
closes the file; `Die` is the end of the process, which loses some of the buffer; `Outage` is a power
failure: nobody calls `fsync`, so any page may be lost, also after the conversion has returned.
A second converter opens the same path with `"wb"`, which truncates what the first is writing; the first
goes on at its own offset and leaves a gap of zeros. `BeginLoad` to `Validate` are
`StaticEmbeddings.load`: the verifier reads the path, chunk by chunk, and `se_model_open` opens it
again. `Accepts` has the checks of where the sections are; the checks inside sections notice some
wrong cells and none of the matrix, so leaving them out accepts more. `last`, `mixed`, `wiped` and
`touched` are no variables of the code; the properties say with them which disturbances they exclude.

What the properties exclude, the code does not prevent: two conversions to one path, or a power failure,
can leave a file that loads without verification and is neither's (`mixed`, `wiped`), and a file that
changes while it is loaded may pass for the one that was verified (`touched`). `docs/LIMITATIONS.md:50`
asks its readers to write to another path and rename; `Writer` itself does not.

## 3. Runs

| Run | What it asks | Bounds |
|---|---|---|
| `calls_safe` | no use after release; the counter implements the handle; an interrupted call returns | 2 callers, 1 item, 2 rounds, 1 interrupt a round |
| `calls_yielding` | exact count, no partial answer, no leaked cancellation | 2 callers, 2 items, 2 rounds, 2 interrupts a round, arguments that run Ruby code, callers symmetric |
| `calls_second_interrupt` | finding: two interrupts break the join of the worker | 1 item, 1 round, 2 interrupts |
| `calls_arg_callback` | finding: a `to_int` closes the model under its own call | no interrupt, arguments that run Ruby code |
| `prefix_window` | slices are invisible, errors are real, the loop ends | below |
| `prefix_nel` | finding: U+0085 is cut at but not split at | texts of up to 4 code points |
| `prefix_empty` | finding: `empty_policy: raise` fires on a slice | texts of up to 5 code points |
| `vocabulary` | tables are sound, loadable, and agree with the reference | lists of up to 4 tokens out of 11, 111 lists of up to 21, 94 words |
| `topk` | what is returned ranks the matrix that was asked about | matrices of up to 4 rows, `k` 0, 1, 2 and 5, 1 interrupt |
| `scratch` | buffers have one owner, are kept within bounds and are all counted | 2 threads, calls nested 2 deep, 1 failed allocation |
| `f16` | halves are the nearest ones and no float is overwritten unread | floats of 4 and 6 bits, halves of 3 and 3, arrays of up to 3 |
| `conversion` | the file is laid out as declared, no part of one loads, a verified load is whole | up to 2 conversions, 1 outage, 1 load |

Two callers are enough for `ModelCalls`: the callers share only the mapping and the
count, so a fault needs one caller that releases and one that reads. Two items (`calls_yielding`) give a
cancellation between items, in the first and in the last; `calls_safe`, whose question is who may release what
while a job runs, needs one, and takes the fair specification as it also asks for liveness. Two rounds give the gap between
rounds in which nobody is counted. Callers are interchangeable, so `calls_yielding` takes
them as symmetric.

`prefix_window` scales the budget down (2 bytes a token, 2 to 4 bytes at first, 2 bytes of
backscan) so that texts of 3 to 6 code points go through several rounds, fall back to the
whole text, are cut before, behind and inside every kind of code point and inside an added
token; the batches are every text of up to three code points of eleven kinds (plain, ASCII
and wide white space, punctuation, control, upper case, accented, a letter that decomposes
into punctuation, CJK, a stray continuation byte), every text of up to six over the bytes
of an added token, and every pair of short texts. Caps 0, 1 and 2; both truncation policies.

`vocabulary` gives `a`, `b` and every other one-byte token one hash and the longer ones two more, in
tables of 4 to 32 slots: chains of different homes run into each other and wrap around.
Lists of four contain [UNK], duplicates in any position, the prefix itself, the empty token
and characters of two bytes that share the first. `LinearEdges` is 8, as in the code, and the lists of
`Wide` have ten letters, or all but one or two, or one or two, each alone and behind the prefix: nodes of
one, two and three edges and of eight, nine and more, with present and absent bytes at the ends and inside,
so `trie_find_child` compares, scans and bisects on both sides of its limits. Words are all of up to three
characters of four, one that is too long, and each of the ten letters twice.

`topk` has every matrix of up to four rows over two scores, NaN and minus infinity, so ties, full
and half-filled arrays all occur; the flag is looked at every second row and matrices
of three rows or more are large, so that small, large, refused and copied matrices, and
a cancel before, between and after the looks are covered. One interrupt is enough, as a second
could only set the flag again.

`scratch` scales the sizes down (1 for text, 1 reserved and 2 retained for ids) so that needs of 2 and 3
go past each of them. A behaviour begins by choosing a workload: a thread that reads large
texts with a nested call, one that uses models of two widths in nested calls, each with an allocation
that may fail anywhere, or two threads at once of which one grows and trims its ids. The
first two are about one thread, as buffers are not shared; the third is about the counters, which are.
`Word` is 64, far more than is ever in use, so a counter below zero would show.

`f16` has every float and every half of its widths alone, and every vector of three floats that carry into
the exponent, round up to the first normal half, lie halfway, overflow to infinity or are a NaN whose upper
bits are clear. The exponents of a float reach beyond those of a half on both sides, and its
mantissa is more than one bit longer, so that every branch and every tie occurs.

`conversion` begins with one of its `Plans`. Matrices of 3 rows, of every width up to 3 and cut to every
smaller one, weighted or not, mapped to fewer or to more rows or not at all, whose source may be one or two
floats too short, are read 2 floats at a time: chunks end inside rows, on their ends and across
several, and two stages may keep a remainder at once. These run without a load. A small matrix is
converted with a load at any moment and an outage at any moment, which also falls after a finished
conversion; pages of 6 cells and a verifier that reads 8 do not end with the sections. Two conversions
of one shape with different contents overlap with IO buffers, and two of different shapes with an outage
in between; there the load begins when no conversion is at work, as one that is makes no promise.
Sections of 1 and 2 cells with an alignment of 2 come with and without padding.

The configs of `ModelCalls` switch the deadlock check off, since the system really stops
once the model is freed and every call has returned; so does that of `ModelFile`, where conversions
and the load end. The others check it: in `PrefixWindow`,
`TopK` and `Vocabulary` a run that has ended steps by `Over`, and in `Vocabulary` the check says that
an insertion always meets an empty slot, so that Ruby's `loop` ends (`InsertionEnds` proves it).

## 4. Fairness

`ModelCalls!LiveSpec` assumes that a thread waiting for the GVL gets it in the end (Ruby's
queue for it is first in, first out), hence strong fairness of what a caller does inside
a call, and that a native job reaches its next look at the cancel flag. It does not assume
that an item of an embedding ever ends, since a text may be as long as memory:
`InterruptedCallReturns` rests on the flag alone. A page group of a warmup does end.

The other modules state safety only. `PrefixWindow` needs no fairness: `EveryRoundWidens` bounds the number of rounds.

## 5. Proofs

`ModelCalls_proofs` (any number of callers, items, rounds and interrupts; the only
assumption on callers is that they are finite):

* `TypeCorrect`, `CountExact`: the count is the cardinality of the calls in progress, which
  is what keeps an unsigned counter from wrapping; one lemma an action.
* `NoUseAfterReleaseHolds`, `HandleImplemented`, under `Calm` (at most one interrupt a round, no Ruby
  code in argument conversion): the two findings show that neither assumption can be dropped.
  The invariant `SafeInv` ties the phase of a job to where its caller waits; `NoUseAfterRelease`
  alone is not inductive, since whether `close` may succeed depends on the caller that has
  left its region but not yet given its count back.
* `NoPartialAnswerHolds`, `CancelNeedsInterruptHolds` with no such assumption. Their invariant `AnswerInv`
  says that a cancelled job that may still run belongs to a round that was interrupted. A flag that a
  trap set late stays in a job that is over, and only `StartRound` clears it before the next.

`PrefixWindow_proofs` (any tables, vocabulary, batches, caps and budgets that meet the
named assumptions):

* `TypeCorrect`: also that a slice is never longer than its text; `RoundsWiden`: the loop ends.
  Both rest on facts about the least and greatest element of a set of numbers (`MinOfNat`,
  `MaxOfNat`) and on `BoundaryInText`.
* `SlicesAreFinal`, `StreamIsPrefix`: what the tokenizer owes the loop. `SlicesAreCut` is the inductive
  invariant: a slice is the whole text or ends at a cut (`IsCut`), which is behind a
  code point that breaks words, or before a CJK character, and in no added token. Two runs of the tokenizer,
  over the slice and over the text, are then followed turn by turn: no code point and no added token
  lies across the cut (`NothingCrosses`), so both read the same up to it (`RunsMeet`); and
  normalising the code point there flushes the open word (`CutCloses`, `CutFlushes`), so the flush at the
  end of the slice takes nothing that the text would have gone on with. From there the text has
  stopped where the slice did (`CutDecides`), or only adds ids (`More`, `CutStream`).
* `WindowInvisible`: from `SlicesAreFinal` and `RowsFinal`, by which a text that is no longer pending
  has its final row. `WindowIsInvisible` speaks of the end only.
* `TokenIdsAgree`: `CapOf` relates a run of the tokenizer under a cap to the one without: they are equal
  until the ids exceed the cap, and from then on the capped one has what `embed_token_ids_value`
  would keep of the other's ids (`Kept`). It holds after every turn (`CapOfTokens`), under both policies;
  `UsableStays` is the reason, which says that further ids do not move the place where the cap falls.
* `ErrorsAreReal`: with `empty_policy` zero, any text an error names is bad as a whole.

The theorems about rows assume `EveryBreakKept`: no text has a code point that both breaks words and is
a control character. In the tables of the converter U+0085 is the only one, and `prefix_nel` shows what it
does; the batches of `prefix_window` meet the assumption. Of the tables they use what
`TablesAssumption` says: case folding and decomposition give code points, and ASCII punctuation is
neither folded, decomposed nor a mark, which `tokenize_ascii_run` and `normalization_stable` hard-code; the
added tokens are the special ones of the tokenizer, in whose names the first byte does not come back.

`Vocabulary_proofs` (any lists of tokens with [UNK], any words, any hash function into the natural
numbers, any limit of edges for the linear search, any table sizes of which one is large enough). A
character is any non-empty sequence of bytes that does not begin with another character, which is what
UTF-8 guarantees. The words (`WordAssumption`) are what the segmenter hands to `wordpiece`: none is empty, and none begins
with the prefix, since `bert_wordpiece.rb:86` accepts no prefix but `##` and `is_punct` makes every `#` a word of its
own:

* `TypeCorrect`; `TokensFound` and `NoDuplicates` from the invariant `ChainInv`: a token stands
  in its chain within `max_probe` slots, behind slots that hold other tokens. That a lookup
  finds it is not inductive: the slots it passes must stay filled, which holds since
  nothing is ever deleted.
* `InsertionEnds`: no id is in two slots (`DistinctIds`) and there are more slots than tokens
  (`SizeLeavesRoom`), so by the pigeonhole theorem some slot is empty; a chain visits every one
  (`StepsTo`). Ruby's `loop` therefore ends.
* `TablesLoad`: the loader accepts a finished table. The slots hold every id once, and the distance
  the loader computes from a slot back to its home is the place in the chain at which the token was put
  (`StepsBack`).
* `RaisesForDuplicates` from `TriesSpell`: a trie is a tree in which the path to a node spells a sequence
  of bytes, and a terminal is a token that went into this trie and whose key is what its node
  spells. A key that is taken is thus that of an earlier token, `KeyKeepsBytes` makes the
  two tokens the same bytes, and `NoDuplicateStored` excludes that. The property alone says nothing of the
  nodes. For the readers the tree must also be full: every node but the root is the child of one (`Rooted`), and every token
  that went in has its terminal (`Complete`).
* `WriterSatisfies`: what `Trie#pack` writes passes `parse_trie`. `AscendingFacts` is about the sort (each byte
  has its own rank, so every rank is taken), `StartIs` and `JoinedAt` say that the edges of a
  node stand between its start and its end.
* `PiecesAgree`: the two indexes give every word the pieces of the reference, which knows only the list. The
  argument climbs from an edge to a word. The bisection ends at the first byte that is not smaller (`BisectFinds`), so it, the
  scan and the comparison of two edges find the same child (`FindChildIs`); the bytes read so far lead to the node that spells them, or
  to none (`MatchReads`), so the last terminal passed is the longest key (`MatchFinds`). The first bytes of a word are the
  bytes of a token exactly when its first characters are that token (`Aligned`, `KeyIsPiece`): a match never ends inside a
  character, and equal bytes mean equal tokens (`BytesInjective`). `max_token_chars` hides no piece
  (`WithinReach`). So each turn of `wordpiece` is one of the reference (`TurnsAgree`), and a word that is a token, which
  `wordpiece` takes from the hash table, is a single piece there too (`LookupIs`, `WholeWord`).

`TopK_proofs` (any matrix, scores, `k` and interrupts; scores are integers with one that stands for
NaN, and the only fact used about them is that none but NaN is below minus infinity):

* `TypeCorrect`; `ScanUndisturbed` from `ReadsAsked`: a scan reads the matrix of the call, and
  the GVL is given up only over a frozen string.
* `BestIsRanked`, `AnswerRanks` from `RankedInv`: the array is in order with its empty slots last, and
  a row it lacks comes after its last entry. `InsertedRanks` shows that an insertion keeps this; what
  the result says up to its first empty slot follows by `RankedFilled`. `BestSoFar` is not
  inductive itself, since it does not say that the rows of a call are those being read.

`F16_proofs` (fields of any width, arrays of any length):

* `EncodedInPlace` from `InPlaceInv`: the bytes before `2 * i` are those of the halves of the first `i`
  floats, and the others are still those of the floats. `UnreadFloatsIntact` says nothing of the
  decoding that fills the buffer, so it is not inductive; the other three say nothing before the end.
* `RoundsToNearest` from `EncodeRounds`: the halves ascend (`NextHalf` gives the step from each to the next,
  also where it carries into the exponent), so a half is the nearest if neither neighbour is
  nearer (`Nearest`), and each branch of the encoder is compared with the midpoints to its neighbours:
  `NormalRounded` with and without a carry, `SmallRounded`, `FlushedRounded`, `OverflowRounded`,
  `SpecialRounded`.
* `DecodedAndBack` from `DecodeExact` and `EncodeDecoded`. `NormalisedIs` says what the loop over a subnormal
  mantissa leaves, in words that wrap (`ModOfSum`). What was decoded has the value of the half, so
  nothing is nearer than that half itself and encoding gives it back; infinity and NaN are
  followed through both functions.
* `FieldsKept`: the same lemmas bound every field.

They assume the widths of `WidthAssumption` and, in `RangeAssumption`, that the exponents of a float reach
further below those of a half than a half has bits in its mantissa (10 < 127 - 15): the encoder puts the
hidden bit before every mantissa it does not flush to zero, which is right because
no float without one is left then.

`ModelFile_proofs` (any models, any sizes of sections, any alignment, any number of conversions and
outages; a digest is the cells it was computed over):

* `LayoutLoads`: the sections `layout` places are aligned, disjoint and inside the file, and the matrix has the
  size the header gives it, so the loader accepts what the writer plans. A fact about the sizes
  alone; it rests on `AlignedUp` and on the sizes the payloads declare (`DeclaredSize`).
* `PayloadsInPlace`: the streams yield what they declare. The invariant `ChainInv` makes the state of a chain
  a function of two numbers, the floats read and the rows picked; `SplitRows` (what `split_complete_rows`
  carries over) and the lemma of each stage show that a chunk keeps to it, wherever it ends. `SentInv`
  says that what was written is the file's beginning of that length. `PayloadInPlace` alone does not
  know what a stage still holds back.
* `LoadablesAreComplete`, `FinishedFilesAreGood`: from `OwnerInv`, by which the file of the converter that
  truncated last is exactly what that one left of its buffer (`Left`), unless another wrote to it or
  an outage undid something. The loader's check of the last section then refuses every shorter file.
* `VerifiedLoads`: `FileInv` says that the second cell never holds anything but zero or the digest
  of a complete model, since the checksum is patched in behind the last section; `LoadInv` that,
  while nobody touches the file, what the verifier has read is what is there.
* `FileTypes`, with `ReadInv` and `ReaderTypes`: a chain is never ahead of its source.

They assume `ModelAssumption` (rows, widths and mappings as `extract_matrix` and the importers check
them) and `PlanAssumption` (what the jobs of a plan are).

`Scratch_proofs` (any finite number of threads, any workload, any nesting; `Word` any positive number):

* `TypeCorrect`, `OneOwnerHolds`, `RetentionHolds`, `HighWaterHolds` from `LocalInv`, a conjunction of
  three invariants of one thread. `StackInv`: only the innermost call is anywhere but at "use",
  so the mark `inUse` is that of the one owner, and a call that gave the set back still
  owns it until it is trimmed. `BoundedInv`: what is larger than it is kept belongs to a call
  that will trim it. `KeptInv`: a buffer is smaller than was needed of it only if it was
  trimmed to what is kept. None of the properties is inductive: they speak of threads between
  calls. That a doubled capacity is enough (`EnoughCapacity`) is an induction, see below.
* `CurrentCounted` from `CountInv`: `current` is `Counted` modulo `Word`, and a thread that is counting takes
  no other step, so it still has what it counts and `Counted` is a natural number. As long
  as that number is below `Word` (`Fits`; in C, that the bytes in use fit a `size_t`)
  `CurrentIsInUse` holds. Nothing bounds the workloads otherwise, so the condition is needed.
* `PeakHolds`, under `[]Fits`, from `PeakInv`: the peak covers `current`, or a thread on its way through
  `record_peak` carries a number that does; a compare-and-swap only raises the peak; and a
  reset that no allocation overtook has read no less than is in use.

Induction. The library's theorems of induction take an operator as a parameter and cannot be
used, but induction over a set can: `NatInduct` says that a set of natural numbers with 0 and each
successor is `Nat`. It follows from the least element (`MinOfNat`), and with it a recursive function
is shown to exist and to satisfy its equation (`TriesExist`, `SumExists`, `PowExists`, `LoopExists`, `SearchExists`, `RefIdsExist`):
so are the sums over threads and calls (`TotalChange` and the lemmas before it), the folds (`FoldIs`) and `FlattenSeq`
(`FlattenIs`). `SortSeq` and the operators of TLC are opaque to the provers, so `Packed` sorts by
rank (`Ascending`).

Only model-checked:

* `InterruptedCallReturns`, the liveness of an interrupted call: liveness under fairness is
  beyond the prover.

Every other property of a passing run is stated by a theorem.

## 6. Findings

* `fiber_worker_ensure` (`ext/static_embeddings.c:362`): a second interrupt ends the second join early.
* `resolve_max_tokens` (`ext/static_embeddings.c:543`): Ruby code runs between the check of `open` and the count.
* `se_prefix_boundary_len` (`ext/se_tokenizer.c:463`): cuts behind U+0085, which the tokenizer drops.
* `embed_texts_internal` (`ext/static_embeddings.c:905`): an empty slice is final under `empty_policy: raise`.

## 7. Not modelled, and the plan

Left out, with no property about them: float arithmetic and the kernels that score rows (SIMD, the
lookup table of halves), Windows paths, the formatting of errors, the bytes of the header, the JSON
header of a source, the CLI, and the importers, which read options and tokenizer files before
anything is written. The checks of single header fields are guards on constants; one of them is
tighter than the converter: `validate` takes a `dim` of at most 2^20 where `extract_matrix` takes
any of 32 bits, so `FinishedIsGood` is about widths below that.

Hazards without a property: a worker thread killed by code that enumerates `Thread.list`; strings
that a `to_int` replaces under the C code that holds their pointer, or that another thread shortens
between two rounds (the snapshot of a batch holds the caller's String objects, and the
README promises only that the Array is copied); a file that changes under `load(verify: true)`,
against which the code has nothing. In `ModelFile` a reader may also lose a mapping because its file was
truncated; `docs/LIMITATIONS.md:50` documents the `SIGBUS`, and no property is about it.

What could follow: the string blob and its offsets, which `Vocabulary` leaves out, and a proof that the
`WordPiece` of `Tokenizer`, over a set of entries, is the one of `Vocabulary`; today `PiecesAgree` and the shared
definition by longest piece connect them, not a refinement.
