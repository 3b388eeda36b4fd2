--------------------------------- MODULE TopK ---------------------------------
(***************************************************************************)
(* dot_top_k and cosine_top_k: one search over a matrix in a Ruby String,  *)
(* while other threads and signal handlers run where Ruby lets them.       *)
(*                                                                         *)
(* A row stands for its score, which the kernels compute from it: a        *)
(* number, NaN, or NegInf, a dot product that overflowed.  Rows count from *)
(* 1, and an empty slot has row 0 and the NegInf it is filled with.        *)
(***************************************************************************)
EXTENDS Integers, SequencesExt

CONSTANTS
  Scores,         \* what a row may score, NaN and NegInf included
  NaN, NegInf,
  Matrices,       \* the matrices a caller may pass
  Ks,             \* the counts it may ask for
  CheckEvery,     \* rows between two looks at the cancel flag; 1024
  LargeRows,      \* rows from which the GVL is released; 1 MiB
  MaxInterrupts   \* bound: interrupts of a call

ASSUME ScoresAssumption ==
  /\ Scores \subseteq Int /\ NaN \in Int /\ NegInf \in Int /\ NaN # NegInf
  /\ \A s \in Scores : s = NaN \/ s >= NegInf
  /\ Matrices \subseteq Seq(Scores)

ASSUME SizesAssumption ==
  /\ Ks \subseteq Int
  /\ CheckEvery \in Nat \ {0} /\ LargeRows \in Nat \ {0} /\ MaxInterrupts \in Nat

VARIABLES
  pc,         \* where the call is
  rows,       \* the matrix
  frozen,     \* of the matrix, as are
  aligned,    \*   its alignment for floats and
  allowed,    \*   the option allow_unfrozen
  zeroNorm,   \* a cosine search whose query has norm zero
  k,          \* how many rows are wanted
  copy,       \* matrix_copy, or None
  released,   \* release_gvl
  at,         \* rows read
  best,       \* best_score and best_idx
  cancelled,  \* the job's flag
  pending,    \* the interrupt the thread has not served
  interrupts, \* how many there were
  asked       \* the matrix the call was made with

job == <<copy, released, at, best, cancelled>>
options == <<frozen, aligned, allowed, zeroNorm>>
vars == <<pc, rows, options, k, job, pending, interrupts, asked>>

None == <<>>
Empty == [score |-> NegInf, row |-> 0]

Init ==
  /\ pc = "idle"
  /\ rows \in Matrices
  /\ frozen \in BOOLEAN /\ aligned \in BOOLEAN /\ allowed \in BOOLEAN
  /\ zeroNorm \in BOOLEAN
  /\ k \in Ks
  /\ copy = None /\ released = FALSE /\ at = 0 /\ best = <<>> /\ cancelled = FALSE
  /\ pending = "none" /\ interrupts = 0
  /\ asked = rows

-----------------------------------------------------------------------------
(* The arguments *)

Large == Len(rows) >= LargeRows

(* topk_check_matrix *)
Refused == Large /\ (~aligned \/ (~frozen /\ ~allowed))
NeedsCopy == ~Large /\ ~aligned

ReleasesIfLarge == Large
(* The GVL is released for a frozen matrix only. *)
Releases == Large /\ frozen

UnclippedK == k
(* No more rows than there are. *)
ClippedK == IF k > Len(rows) THEN Len(rows) ELSE k

Raise == pc' = "raised" /\ UNCHANGED <<rows, options, k, job, pending, interrupts, asked>>

(* top_k_impl up to topk_body.  An allocation may fail. *)
Call ==
  /\ pc = "idle"
  /\ \/ (k < 1 \/ (rows # <<>> /\ (Refused \/ zeroNorm))) /\ Raise
     \/ /\ k >= 1 /\ rows = <<>>
        /\ pc' = "done"
        /\ UNCHANGED <<rows, options, k, job, pending, interrupts, asked>>
     \/ /\ k >= 1 /\ rows # <<>> /\ ~Refused /\ ~zeroNorm
        /\ pc' = "scan"
        /\ k' = ClippedK
        /\ copy' = IF NeedsCopy THEN rows ELSE None
        /\ released' = Releases
        /\ best' = [p \in 1 .. ClippedK |-> Empty]
        /\ UNCHANGED <<rows, options, at, cancelled, pending, interrupts, asked>>

OutOfMemory ==
  pc = "idle" /\ k >= 1 /\ rows # <<>> /\ ~Refused /\ Raise

-----------------------------------------------------------------------------
(* The scan *)

Read == IF copy # None THEN copy ELSE rows

BeatsOrTies(score, other) == score # NaN /\ score >= other
(* A comparison with NaN is false. *)
Beats(score, other) == score # NaN /\ score > other

(* The insertion goes up while the entry above has a smaller score. *)
Slot(list, score) ==
  Min({p \in DOMAIN list : \A q \in DOMAIN list : q >= p => Beats(score, list[q].score)})

Inserted(list, score, row) ==
  IF ~Beats(score, list[Len(list)].score) THEN list
  ELSE [p \in DOMAIN list |->
          IF p < Slot(list, score) THEN list[p]
          ELSE IF p = Slot(list, score) THEN [score |-> score, row |-> row]
          ELSE list[p - 1]]

(* The flag is looked at before every CheckEvery-th row. *)
Stops == at % CheckEvery = 0 /\ cancelled

(* se_topk_execute, one row *)
Row ==
  /\ pc = "scan" /\ at < Len(Read) /\ ~Stops
  /\ best' = Inserted(best, Read[at + 1], at + 1)
  /\ at' = at + 1
  /\ UNCHANGED <<pc, rows, options, k, copy, released, cancelled, pending, interrupts, asked>>

ScanOver ==
  /\ pc = "scan" /\ (at = Len(Read) \/ Stops)
  /\ pc' = "scanned"
  /\ UNCHANGED <<rows, options, k, job, pending, interrupts, asked>>

-----------------------------------------------------------------------------
(* After the scan *)

(* rb_thread_check_ints *)
ServeRaise == pc = "scanned" /\ pending = "raise" /\ Raise

ServeTrap ==
  /\ pc = "scanned" /\ pending = "trap"
  /\ pending' = "none"
  /\ UNCHANGED <<pc, rows, options, k, job, interrupts, asked>>

ReturnAnyway ==
  /\ pc = "scanned" /\ pending = "none"
  /\ pc' = "done"
  /\ UNCHANGED <<rows, options, k, job, pending, interrupts, asked>>

(* topk_body after rb_thread_check_ints *)
Return ==
  /\ pc = "scanned" /\ pending = "none"
  /\ pc' = IF cancelled THEN "raised" ELSE "done"
  /\ UNCHANGED <<rows, options, k, job, pending, interrupts, asked>>

(* The pairs of the result, up to the first empty slot. *)
Answer ==
  SubSeq(best, 1, Min({p \in 1 .. Len(best) + 1 :
                         p = Len(best) + 1 \/ best[p].score = NegInf}) - 1)

-----------------------------------------------------------------------------
(* The others *)

(* An interrupt of the thread: a signal handler that returns, or an        *)
(* exception.  Without the GVL it calls topk_unblock_cancel.               *)
Interrupt ==
  /\ pc \in {"scan", "scanned"} /\ pending = "none" /\ interrupts < MaxInterrupts
  /\ pending' \in {"trap", "raise"}
  /\ interrupts' = interrupts + 1
  /\ cancelled' = (cancelled \/ (pc = "scan" /\ released))
  /\ UNCHANGED <<pc, rows, options, k, copy, released, at, best, asked>>

(* Other Ruby code runs: not while the call holds the GVL, which it gives  *)
(* up for a released scan and may give up in rb_thread_check_ints.  What   *)
(* runs before the call is a matter of Init.                               *)
GvlFree == pc = "scanned" \/ (pc = "scan" /\ released)

Mutate ==
  /\ GvlFree /\ ~frozen
  /\ \E p \in DOMAIN rows : \E s \in Scores : rows' = [rows EXCEPT ![p] = s]
  /\ UNCHANGED <<pc, options, k, job, pending, interrupts, asked>>

Freeze ==
  /\ GvlFree /\ ~frozen
  /\ frozen' = TRUE
  /\ UNCHANGED <<pc, rows, aligned, allowed, zeroNorm, k, job, pending, interrupts, asked>>

Over == pc \in {"done", "raised"} /\ UNCHANGED vars

Next ==
  \/ Call \/ OutOfMemory \/ Row \/ ScanOver
  \/ ServeRaise \/ ServeTrap \/ Return
  \/ Interrupt \/ Mutate \/ Freeze \/ Over

Spec == Init /\ [][Next]_vars

-----------------------------------------------------------------------------
(* Properties *)

TypeOK ==
  /\ pc \in {"idle", "scan", "scanned", "done", "raised"}
  /\ rows \in Seq(Scores) /\ asked \in Seq(Scores) /\ Len(asked) = Len(rows)
  /\ copy \in Seq(Scores) /\ (copy # None => Len(copy) = Len(rows))
  /\ frozen \in BOOLEAN /\ aligned \in BOOLEAN /\ allowed \in BOOLEAN /\ zeroNorm \in BOOLEAN
  /\ released \in BOOLEAN /\ cancelled \in BOOLEAN
  /\ k \in Int
  /\ at \in 0 .. Len(rows)
  /\ best \in Seq([score : Int, row : 0 .. Len(rows)])
  /\ pc \in {"scan", "scanned"} => k \in 1 .. Len(rows) /\ Len(best) = k
  /\ pending \in {"none", "trap", "raise"}
  /\ interrupts \in 0 .. MaxInterrupts

Real(score) == score # NaN /\ score > NegInf

(* The order of a result: greater scores first, of equal ones the earlier. *)
Precedes(a, b) == a.score > b.score \/ (a.score = b.score /\ a.row < b.row)

(* A list of size slots ranks the first n rows of scores.                  *)
Ranks(list, scores, n, size) ==
  /\ \A p \in DOMAIN list :
       list[p].row \in 1 .. n /\ list[p].score = scores[list[p].row] /\ Real(list[p].score)
  /\ \A p, q \in DOMAIN list : p < q => Precedes(list[p], list[q])
  /\ \A r \in 1 .. n :
       Real(scores[r]) =>
         \/ \E p \in DOMAIN list : list[p].row = r
         \/ Len(list) = size /\ \A p \in DOMAIN list : Precedes(list[p], [score |-> scores[r], row |-> r])

(* At every row the array holds the best rows so far in order, ties by     *)
(* position, rows that score NaN or NegInf left out, empty slots last.     *)
BestSoFar ==
  pc \in {"scan", "scanned"} =>
    /\ Ranks(Answer, asked, at, k)
    /\ \A p \in DOMAIN best : p > Len(Answer) => best[p] = Empty

(* What a call returns ranks the whole matrix as it was when the call was  *)
(* made, whatever was cancelled, copied or written meanwhile.              *)
AnswerIsTopK ==
  pc = "done" => Ranks(Answer, asked, Len(asked), k)

(* No other thread writes to the bytes a scan is reading.                  *)
ScanIsUndisturbed ==
  [][pc = "scan" => Read' = Read]_vars

=============================================================================
