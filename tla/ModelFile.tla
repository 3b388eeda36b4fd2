----------------------------- MODULE ModelFile -----------------------------
(***************************************************************************)
(* The life of one .semb file: conversions that write it in place          *)
(* (Format::Writer), a load that may verify it first (Format::Verifier,    *)
(* se_model_open), and what stops them on the way: an error, a kill, an    *)
(* outage that takes pages nobody has synced.                              *)
(*                                                                         *)
(* A file is a sequence of cells as wide as a float; a header is two, the  *)
(* second one the checksum.  A digest is the cells it was computed over:   *)
(* SHA-256 without its collisions.                                         *)
(***************************************************************************)
EXTENDS Payload

CONSTANTS
  Alignment,    \* ALIGNMENT, in cells
  SectionSizes, \* cells of the sections that are not the matrix
  ReadAhead,    \* CHUNK_BYTES of the verifier, in cells
  PageSize,     \* cells the system writes back together
  Plans         \* what may happen, and the bounds on it: jobs, the model of
                \* each converter and the floats its source really has;
                \* buffered, whether chunks may stay in the IO buffer for
                \* a while; outages, how many there are; load, when a load
                \* may begin: "never", "ever", or with no conversion "after"

Sections == <<"vocab_strings", "vocab_hash", "embeddings", "norm_tables",
              "provenance", "root_trie", "continuation_trie">>
HeaderSize == 2

ASSUME FileAssumption ==
  /\ Alignment \in Nat \ {0}
  /\ \A k \in DOMAIN Sections :
       Sections[k] # "embeddings" => SectionSizes[Sections[k]] \in Nat
  /\ ReadAhead \in Nat \ {0} /\ PageSize \in Nat \ {0}

-----------------------------------------------------------------------------
(* The format *)

Zero == [part |-> "zero"]
Fields(m) == [part |-> "header", model |-> m]
Checksum(cells) == [part |-> "checksum", of |-> cells]

Zeros(n) == [k \in 1 .. n |-> Zero]

(* What a builder puts into a section; the vocabulary is that of the model. *)
Stamp(m, name) ==
  CASE name = "norm_tables" -> "unicode"
    [] name = "provenance" -> m.matrix
    [] OTHER -> m.vocab

SectionCell(name, stamp, k) == [part |-> name, stamp |-> stamp, place |-> k]

Size(m, name) == IF name = "embeddings" THEN Declared(m) ELSE SectionSizes[name]

Contents(m, name) ==
  IF name = "embeddings" THEN Reference(m)
  ELSE [k \in 1 .. SectionSizes[name] |-> SectionCell(name, Stamp(m, name), k)]

Aligned(n) == n + ((Alignment - (n % Alignment)) % Alignment)

Models == UNION {{p.jobs[w].model : w \in DOMAIN p.jobs} : p \in Plans}

(* What an importer has checked: extract_matrix and resolve_dimensions. *)
ASSUME ModelAssumption ==
  \A m \in Models :
    /\ m.rows \in Nat /\ m.dim \in Nat \ {0} /\ m.out \in 1 .. m.dim
    /\ m.mapping \in Seq(0 .. m.rows - 1)

ASSUME PlanAssumption ==
  \A p \in Plans : p.outages \in Nat /\ \A w \in DOMAIN p.jobs : p.jobs[w].present \in Nat

(* layout *)
Offsets ==
  [m \in Models |->
     LET After(off, name) == Aligned(off + Size(m, name))
         o1 == Aligned(HeaderSize)
         o2 == After(o1, "vocab_strings")
         o3 == After(o2, "vocab_hash")
         o4 == After(o3, "embeddings")
         o5 == After(o4, "norm_tables")
         o6 == After(o5, "provenance")
         o7 == After(o6, "root_trie")
     IN <<o1, o2, o3, o4, o5, o6, o7>>]

FileSize(m) ==
  Offsets[m][Len(Sections)] + Size(m, Sections[Len(Sections)])

(* The file that is due, but for its checksum. *)
Body ==
  [m \in Models |->
     LET Within(k) ==
           {s \in DOMAIN Sections : k - Offsets[m][s] \in 1 .. Size(m, Sections[s])}
         Cell(k, s) == Contents(m, Sections[s])[k - Offsets[m][s]]
     IN [k \in 1 .. FileSize(m) |->
           IF k = 1 THEN Fields(m)
           ELSE IF Within(k) # {} THEN Cell(k, CHOOSE s \in Within(k) : TRUE)
           ELSE Zero]]

Zeroed(cells) == [k \in DOMAIN cells |-> IF k = HeaderSize THEN Zero ELSE cells[k]]

(* Verifier.checksum against the stored one. *)
Verifies(header, rest) ==
  header[HeaderSize] = Checksum(Zeroed(header) \o rest)

WholeFile(m) == [Body[m] EXCEPT ![HeaderSize] = Checksum(Body[m])]

SectionOkUnbounded(m, s, size) ==
  LET off == Offsets[m][s]
  IN off >= HeaderSize /\ off % Alignment = 0 /\ Size(m, Sections[s]) <= size

(* section_ok *)
SectionOk(m, s, size) ==
  LET off == Offsets[m][s]
  IN /\ off >= HeaderSize
     /\ off % Alignment = 0
     /\ Size(m, Sections[s]) <= size
     /\ off <= size - Size(m, Sections[s])

(* validate_no_overlaps *)
NoOverlaps(m) ==
  \A s, t \in DOMAIN Sections :
    s < t => \/ Offsets[m][s] + Size(m, Sections[s]) <= Offsets[m][t]
             \/ Offsets[m][t] + Size(m, Sections[t]) <= Offsets[m][s]

(* validate, by its checks of the header and of where the sections are.    *)
(* Those inside a section notice some wrong cells, never one of the matrix  *)
(* or the provenance; without them more is accepted here than there.        *)
Accepts(cells) ==
  /\ Len(cells) >= HeaderSize
  /\ cells[1].part = "header"
  /\ LET m == cells[1].model
     IN /\ \A s \in DOMAIN Sections : SectionOk(m, s, Len(cells))
        /\ NoOverlaps(m)
        /\ Size(m, "embeddings") = OutputRows(m) * m.out

-----------------------------------------------------------------------------
VARIABLES
  file,      \* the cells of the file on the path; none before anybody wrote
  plan,      \* the member of Plans that is to happen
  pc,        \* where each converter is
  section,   \* the section it writes
  stream,    \* its chain of streams
  sent,      \* what it has written and digested, in order
  landed,    \* how much of that has left its IO buffer
  outages,   \* how many more outages there will be
  reader,    \* where the load is: idle, header, body, open, mapped, ...
  verify,    \* it was asked to verify
  header,    \* the header the verifier has read
  seen,      \* the cells behind it the verifier has read
  mapped     \* the length of the mapping

writerVars == <<plan, pc, section, stream, sent, landed>>
readerVars == <<reader, verify, header, seen, mapped>>

(* History, for the properties only. *)
VARIABLES
  last,      \* the converter that truncated the file last
  mixed,     \* two conversions may have written to the file since
  wiped,     \* an outage has taken cells since
  touched    \* the file has changed since the verifier read its header

historyVars == <<last, mixed, wiped, touched>>
vars == <<file, outages, writerVars, readerVars, historyVars>>

Workers == DOMAIN plan.jobs
Model(w) == plan.jobs[w].model
Nobody == "nobody"

(* A converter that has the file open, or is about to patch it. *)
Writing(w) == pc[w] \in {"header", "section", "stream", "close", "patch"}

Init ==
  /\ plan \in Plans /\ outages = plan.outages
  /\ file = <<>>
  /\ pc = [w \in Workers |-> "start"]
  /\ section = [w \in Workers |-> 1]
  /\ stream = [w \in Workers |-> Begun]
  /\ sent = [w \in Workers |-> <<>>]
  /\ landed = [w \in Workers |-> 0]
  /\ reader = "idle" /\ verify = FALSE /\ header = <<>> /\ seen = <<>> /\ mapped = 0
  /\ last = Nobody /\ mixed = FALSE /\ wiped = FALSE /\ touched = FALSE

-----------------------------------------------------------------------------
(* A conversion *)

(* Cells written at a place in the file; a gap before them reads as zeros. *)
Placed(cells, at, new) ==
  IF new = <<>> THEN cells
  ELSE LET length == IF at + Len(new) > Len(cells) THEN at + Len(new) ELSE Len(cells)
       IN [k \in 1 .. length |->
          IF k - at \in DOMAIN new THEN new[k - at]
          ELSE IF k \in DOMAIN cells THEN cells[k] ELSE Zero]

Goto(w, where) == pc' = [pc EXCEPT ![w] = where]

(* What has been written up to n leaves the IO buffer. *)
Land(w, n, all) ==
  /\ file' = Placed(file, landed[w], SubSeq(all, landed[w] + 1, n))
  /\ landed' = [landed EXCEPT ![w] = n]
  /\ touched' = (touched \/ n > landed[w])

(* write_chunk: into the digest, and into the IO, which may keep it. *)
WriteChunk(w, cells) ==
  LET all == sent[w] \o cells
  IN /\ sent' = [sent EXCEPT ![w] = all]
     /\ \E n \in {landed[w], Len(all)} :
          (n = Len(all) \/ plan.buffered) /\ Land(w, n, all)

(* File.open(path, "wb"), with the header and the layout already computed. *)
OpenFile(w) ==
  /\ pc[w] = "start"
  /\ file' = <<>>
  /\ Goto(w, "header")
  /\ last' = w
  /\ mixed' = \E v \in Workers \ {w} : Writing(v)
  /\ wiped' = FALSE
  /\ touched' = TRUE
  /\ UNCHANGED <<outages, plan, section, stream, sent, landed, readerVars>>

WriteHeader(w) ==
  /\ pc[w] = "header"
  /\ WriteChunk(w, <<Fields(Model(w)), Zero>>)
  /\ Goto(w, "section")
  /\ UNCHANGED <<outages, plan, section, stream, readerVars, last, mixed, wiped>>

(* offset: where write_file believes to be, by the sizes the payloads have *)
(* declared.                                                               *)
Offset(w) ==
  IF section[w] = 1 THEN HeaderSize
  ELSE Offsets[Model(w)][section[w] - 1] + Size(Model(w), Sections[section[w] - 1])

Padding(w) == Zeros(Offsets[Model(w)][section[w]] - Offset(w))

NextSection(w) ==
  /\ section' = [section EXCEPT ![w] = @ + 1]
  /\ Goto(w, IF section[w] = Len(Sections) THEN "close" ELSE "section")

(* A payload that is a String is one chunk; the matrix is streamed. *)
WriteSection(w) ==
  /\ pc[w] = "section"
  /\ IF Sections[section[w]] = "embeddings"
     THEN /\ WriteChunk(w, Padding(w))
          /\ Goto(w, "stream")
          /\ UNCHANGED section
     ELSE /\ WriteChunk(w, Padding(w) \o Contents(Model(w), Sections[section[w]]))
          /\ NextSection(w)
  /\ UNCHANGED <<outages, plan, stream, readerVars, last, mixed, wiped>>

Yields(w, step) ==
  /\ stream' = [stream EXCEPT ![w] = step.stream]
  /\ WriteChunk(w, step.chunk)
  /\ UNCHANGED <<outages, plan, pc, section, readerVars, last, mixed, wiped>>

StreamChunkUnchecked(w) ==
  /\ pc[w] = "stream" /\ Reading(Model(w), stream[w])
  /\ Yields(w, ReadChunk(Model(w), stream[w]))

(* The next chunk of the source goes through the chain, if it is there. *)
StreamChunk(w) ==
  /\ pc[w] = "stream" /\ Reading(Model(w), stream[w])
  /\ stream[w].read + ReadSize(Model(w), stream[w]) <= plan.jobs[w].present
  /\ Yields(w, ReadChunk(Model(w), stream[w]))

StreamRows(w) ==
  /\ pc[w] = "stream" /\ Picking(Model(w), stream[w])
  /\ Yields(w, MappedChunk(Model(w), stream[w]))

StreamEnd(w) ==
  /\ pc[w] = "stream" /\ Ended(Model(w), stream[w]) /\ ~LeftOver(stream[w])
  /\ NextSection(w)
  /\ UNCHANGED <<file, outages, plan, stream, sent, landed, readerVars, historyVars>>

(* A short read, or a row left incomplete at the end of a stream. *)
Truncated(w) ==
  \/ /\ Reading(Model(w), stream[w])
     /\ stream[w].read + ReadSize(Model(w), stream[w]) > plan.jobs[w].present
  \/ Ended(Model(w), stream[w]) /\ LeftOver(stream[w])

(* The exception closes the file on its way; what is in it stays. *)
StreamRaises(w) ==
  /\ pc[w] = "stream" /\ Truncated(w)
  /\ Land(w, Len(sent[w]), sent[w])
  /\ Goto(w, "failed")
  /\ UNCHANGED <<outages, plan, section, stream, sent, readerVars, last, mixed, wiped>>

CloseFileUnflushed(w) ==
  /\ pc[w] = "close"
  /\ Goto(w, "patch")
  /\ UNCHANGED <<file, outages, plan, section, stream, sent, landed, readerVars,
                 historyVars>>

CloseFile(w) ==
  /\ pc[w] = "close"
  /\ Land(w, Len(sent[w]), sent[w])
  /\ Goto(w, "patch")
  /\ UNCHANGED <<outages, plan, section, stream, sent, readerVars, last, mixed, wiped>>

(* File.open(path, "r+b"), seek, write the digest. *)
PatchChecksum(w) ==
  /\ pc[w] = "patch"
  /\ file' = Placed(file, HeaderSize - 1, <<Checksum(sent[w])>>)
  /\ Goto(w, "finished")
  /\ touched' = TRUE
  /\ UNCHANGED <<outages, plan, section, stream, sent, landed, readerVars,
                 last, mixed, wiped>>

(* The process is killed, or the disk is full: some of what was in the     *)
(* buffer may have left it.                                                *)
Die(w) ==
  /\ Writing(w)
  /\ \E n \in landed[w] .. Len(sent[w]) : Land(w, n, sent[w])
  /\ Goto(w, "failed")
  /\ UNCHANGED <<outages, plan, section, stream, sent, readerVars, last, mixed, wiped>>

(* Power fails.  Nothing was synced: the file keeps some length, and any of *)
(* its pages may have been lost, even after the conversion has returned.    *)
Pages == {(k - 1) \div PageSize : k \in DOMAIN file}

Outage ==
  /\ outages > 0 /\ file # <<>>
  /\ outages' = outages - 1
  /\ \E pages \in SUBSET Pages :
     \E n \in {0, Len(file)} \cup {k \in DOMAIN file : k % PageSize = 0} :
       file' = [k \in 1 .. n |->
                  IF (k - 1) \div PageSize \in pages THEN Zero ELSE file[k]]
  /\ pc' = [w \in Workers |-> IF Writing(w) THEN "failed" ELSE pc[w]]
  /\ reader' = "idle"
  /\ wiped' = TRUE /\ touched' = TRUE
  /\ UNCHANGED <<plan, section, stream, sent, landed, verify, header, seen, mapped,
                 last, mixed>>

-----------------------------------------------------------------------------
(* StaticEmbeddings.load *)

ReaderGoto(where) ==
  /\ reader' = where
  /\ UNCHANGED <<file, outages, writerVars, last, mixed, wiped>>

BeginLoad ==
  /\ reader = "idle" /\ last # Nobody
  /\ plan.load \in {"ever", "after"}
  /\ plan.load = "after" => \A w \in Workers : ~Writing(w)
  /\ verify' \in BOOLEAN
  /\ header' = <<>> /\ seen' = <<>> /\ mapped' = 0 /\ touched' = FALSE
  /\ ReaderGoto(IF verify' THEN "header" ELSE "open")

(* Format::Verifier.call: the size, the magic and the stored checksum. *)
ReadHeader ==
  /\ reader = "header"
  /\ touched' = FALSE
  /\ IF Len(file) < HeaderSize \/ file[1].part # "header"
     THEN ReaderGoto("refused") /\ UNCHANGED header
     ELSE /\ header' = SubSeq(file, 1, HeaderSize)
          /\ ReaderGoto("body")
  /\ UNCHANGED <<verify, seen, mapped>>

ReadBodyHeedless ==
  /\ reader = "body"
  /\ LET at == HeaderSize + Len(seen)
     IN IF at < Len(file)
        THEN /\ seen' = seen \o SubSeq(file, at + 1, Least(at + ReadAhead, Len(file)))
             /\ ReaderGoto("body")
        ELSE /\ ReaderGoto("open")
             /\ UNCHANGED seen
  /\ UNCHANGED <<verify, header, mapped, touched>>

(* io.read(CHUNK_BYTES): the file as it is now, up to its end. *)
ReadBody ==
  /\ reader = "body"
  /\ LET at == HeaderSize + Len(seen)
     IN IF at < Len(file)
        THEN /\ seen' = seen \o SubSeq(file, at + 1, Least(at + ReadAhead, Len(file)))
             /\ ReaderGoto("body")
        ELSE /\ ReaderGoto(IF Verifies(header, seen) THEN "open" ELSE "refused")
             /\ UNCHANGED seen
  /\ UNCHANGED <<verify, header, mapped, touched>>

(* se_model_open: the path again, its size and a mapping of that size. *)
OpenMapping ==
  /\ reader = "open"
  /\ mapped' = Len(file)
  /\ ReaderGoto(IF file = <<>> THEN "refused" ELSE "mapped")
  /\ UNCHANGED <<verify, header, seen, touched>>

(* validate; a mapping longer than its file ends the process. *)
Validate ==
  /\ reader = "mapped"
  /\ ReaderGoto(IF Len(file) < mapped THEN "killed"
                ELSE IF Accepts(SubSeq(file, 1, mapped)) THEN "loaded" ELSE "refused")
  /\ UNCHANGED <<verify, header, seen, mapped, touched>>

-----------------------------------------------------------------------------

Convert(w) ==
  \/ OpenFile(w) \/ WriteHeader(w) \/ WriteSection(w)
  \/ StreamChunk(w) \/ StreamRows(w) \/ StreamEnd(w) \/ StreamRaises(w)
  \/ CloseFile(w) \/ PatchChecksum(w) \/ Die(w)

Load == BeginLoad \/ ReadHeader \/ ReadBody \/ OpenMapping \/ Validate

Next == (\E w \in Workers : Convert(w)) \/ Outage \/ Load

Spec == Init /\ [][Next]_vars

-----------------------------------------------------------------------------
(* Properties *)

(* The life of a conversion and of a load; no chain reads more floats than  *)
(* its source has (F32Payload#each_chunk raises on a short read), picks     *)
(* more rows than the mapping has, or has more in the file than it wrote.   *)
TypeOK ==
  /\ \A w \in Workers :
       /\ pc[w] \in {"start", "header", "section", "stream", "close", "patch",
                     "finished", "failed"}
       /\ section[w] \in 1 .. Len(Sections) + 1
       /\ stream[w].read \in 0 .. plan.jobs[w].present
       /\ stream[w].index \in 0 .. OutputRows(Model(w))
       /\ landed[w] \in 0 .. Len(sent[w])
  /\ last \in Workers \cup {Nobody}
  /\ reader \in {"idle", "header", "body", "open", "mapped", "loaded", "refused", "killed"}
  /\ {verify, mixed, wiped, touched} \subseteq BOOLEAN
  /\ outages \in Nat /\ mapped \in Nat
  /\ Len(header) \in {0, HeaderSize}
  /\ header = <<>> => seen = <<>>

(* write_file pads and lays out by the sizes the payloads declare, and the  *)
(* streams, whatever chunks they get, have to keep to them: what has been   *)
(* written is always a prefix of the file that is due (each row of the      *)
(* matrix mapped, weighted and cut once, with its own weight), and a        *)
(* section is left exactly where the next one is believed to begin.         *)
PayloadInPlace ==
  \A w \in Workers :
    /\ Len(sent[w]) \in 0 .. FileSize(Model(w))
    /\ sent[w] = SubSeq(Body[Model(w)], 1, Len(sent[w]))
    /\ pc[w] \in {"section", "close", "patch", "finished"} => Len(sent[w]) = Offset(w)

(* A conversion that is stopped anywhere, by an exception or a kill, leaves *)
(* no file that a load without verification takes and that lacks anything   *)
(* but its checksum.  Opening with "wb" and the order of the sections see   *)
(* to that, together with the bounds section_ok puts on each of them.       *)
LoadableIsComplete ==
  Accepts(file) /\ ~mixed /\ ~wiped => Zeroed(file) = Body[file[1].model]

(* Unless another conversion wrote to the same path at the same time, or    *)
(* power failed after it, a conversion that returned has left the whole     *)
(* file, with a checksum Verifier confirms and a layout validate accepts.   *)
FinishedIsGood ==
  \A w \in Workers :
    pc[w] = "finished" /\ last = w /\ ~mixed /\ ~wiped =>
      /\ file = WholeFile(Model(w))
      /\ Verifies(SubSeq(file, 1, HeaderSize), SubSeq(file, HeaderSize + 1, Len(file)))
      /\ Accepts(file)

(* load(path, verify: true) of a file nobody changes while it loads gives   *)
(* the complete model its header names, after whatever conversions have     *)
(* been killed on it, overlapped on it or been undone by an outage.         *)
VerifiedLoadIsWhole ==
  reader = "loaded" /\ verify /\ ~touched => file = WholeFile(header[1].model)

=============================================================================
