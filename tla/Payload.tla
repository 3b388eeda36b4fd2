------------------------------ MODULE Payload ------------------------------
(***************************************************************************)
(* The embedding matrix on its way into a model file: a chain of streams,  *)
(* each of which takes the chunks of the one before it.  F32Payload reads  *)
(* the source, WeightedPayload maps and scales rows, RowPrefixPayload cuts *)
(* them to the output dimension.  Chunks end anywhere in a row.            *)
(*                                                                         *)
(* The unit is a float; a chunk of the source never splits one.  A model   *)
(* is what the importer read of the source before it streams the matrix.   *)
(***************************************************************************)
EXTENDS Integers, Sequences

CONSTANTS
  ChunkSize,     \* IO_CHUNK_BYTES, in floats
  RowsPerChunk   \* ROWS_PER_CHUNK

ASSUME ChunkAssumption == ChunkSize \in Nat \ {0} /\ RowsPerChunk \in Nat \ {0}

Least(x, y) == IF x < y THEN x ELSE y

(* A float of the result: where it was read and the rows whose weights it  *)
(* was multiplied with.                                                    *)
Value(m, row, col, weights) ==
  [part |-> "embeddings", matrix |-> m.matrix, row |-> row, col |-> col,
   weights |-> weights]

SourceSize(m) == m.rows * m.dim
Mapped(m) == m.mapping # <<>>
OutputRows(m) == IF Mapped(m) THEN Len(m.mapping) ELSE m.rows

(* bytesize of the whole chain, which the layout of the file relies on. *)
WeightedSize(m) ==
  IF Mapped(m) \/ m.weighted THEN OutputRows(m) * m.dim ELSE SourceSize(m)
Declared(m) ==
  IF m.out = m.dim THEN WeightedSize(m) ELSE (WeightedSize(m) \div m.dim) * m.out

(* What the loader is to find: row i of the result is a prefix of the row   *)
(* the mapping names, times weight i.                                       *)
Reference(m) ==
  [k \in 1 .. OutputRows(m) * m.out |->
     LET i == (k - 1) \div m.out + 1
     IN Value(m, IF Mapped(m) THEN m.mapping[i] ELSE i - 1, (k - 1) % m.out,
              IF m.weighted THEN <<i>> ELSE <<>>)]

-----------------------------------------------------------------------------
(* Stages: what each makes of a chunk, and what it keeps for the next. *)

(* split_complete_rows *)
WholeRows(data, width) == SubSeq(data, 1, (Len(data) \div width) * width)
Remainder(data, width) == SubSeq(data, (Len(data) \div width) * width + 1, Len(data))

(* scale, for rows whose weights follow those of the first index rows. *)
Scaled(data, width, index) ==
  [k \in DOMAIN data |->
     [data[k] EXCEPT !.weights = Append(@, index + (k - 1) \div width + 1)]]

(* slice_rows *)
Sliced(data, width, out) ==
  [k \in 1 .. (Len(data) \div width) * out |->
     data[((k - 1) \div out) * width + ((k - 1) % out) + 1]]

Begun == [read |-> 0, table |-> <<>>, index |-> 0, unscaled |-> <<>>, unsliced |-> <<>>]

(* RowPrefixPayload#each_chunk, for one chunk of its inner stream. *)
SliceStage(m, s, data) ==
  IF m.out = m.dim THEN [stream |-> s, chunk |-> data]
  ELSE LET all == s.unsliced \o data
       IN [stream |-> [s EXCEPT !.unsliced = Remainder(all, m.dim)],
           chunk |-> Sliced(WholeRows(all, m.dim), m.dim, m.out)]

WeightStageRestarting(m, s, data) ==
  IF ~m.weighted THEN SliceStage(m, s, data)
  ELSE LET all == s.unscaled \o data
           whole == WholeRows(all, m.dim)
       IN SliceStage(m, [s EXCEPT !.unscaled = Remainder(all, m.dim)],
                     Scaled(whole, m.dim, 0))

(* each_streamed_chunk *)
WeightStage(m, s, data) ==
  IF ~m.weighted THEN SliceStage(m, s, data)
  ELSE LET all == s.unscaled \o data
           whole == WholeRows(all, m.dim)
       IN SliceStage(m, [s EXCEPT !.unscaled = Remainder(all, m.dim),
                                  !.index = @ + Len(whole) \div m.dim],
                     Scaled(whole, m.dim, s.index))

(* F32Payload#each_chunk: the next chunk of the source. *)
Reading(m, s) == s.read < SourceSize(m)
ReadSize(m, s) == Least(SourceSize(m) - s.read, ChunkSize)
SourceChunk(m, s) ==
  [k \in 1 .. ReadSize(m, s) |->
     Value(m, (s.read + k - 1) \div m.dim, (s.read + k - 1) % m.dim, <<>>)]

(* A mapped table is collected as a whole and yields nothing yet. *)
ReadChunk(m, s) ==
  LET next == [s EXCEPT !.read = @ + ReadSize(m, s)]
  IN IF Mapped(m)
     THEN [stream |-> [next EXCEPT !.table = @ \o SourceChunk(m, s)], chunk |-> <<>>]
     ELSE WeightStage(m, next, SourceChunk(m, s))

(* each_mapped_chunk, once it has its table. *)
MappedChunk(m, s) ==
  LET count == Least(RowsPerChunk, OutputRows(m) - s.index)
      picked == [k \in 1 .. count * m.dim |->
                   s.table[m.mapping[s.index + (k - 1) \div m.dim + 1] * m.dim
                           + ((k - 1) % m.dim) + 1]]
  IN SliceStage(m, [s EXCEPT !.index = @ + count],
                IF m.weighted THEN Scaled(picked, m.dim, s.index) ELSE picked)

Picking(m, s) == ~Reading(m, s) /\ Mapped(m) /\ s.index < OutputRows(m)

Ended(m, s) == ~Reading(m, s) /\ ~Picking(m, s)

(* The checks at the end of both streams that keep a remainder. *)
LeftOver(s) == s.unscaled # <<>> \/ s.unsliced # <<>>

=============================================================================
