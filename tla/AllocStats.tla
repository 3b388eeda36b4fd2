------------------------------ MODULE AllocStats ------------------------------
(***************************************************************************)
(* The allocation counters of a build with statistics: what the threads    *)
(* that allocate, with or without the GVL, do to them step by step, and a  *)
(* reset between two of those steps.  One category is modelled, as nothing *)
(* is reallocated from one into another.  Left out are the totals and the  *)
(* counts, which are only added to and set back to zero.                   *)
(*                                                                         *)
(* An allocation is made by an action of the module that extends this one, *)
(* together with one of the Record operators; the steps follow here.       *)
(***************************************************************************)
EXTENDS Integers, FiniteSetsExt

CONSTANTS
  Threads,     \* the threads of the operating system
  Word         \* size_t counts modulo this

ASSUME CountersAssumption == Word \in Nat \ {0} /\ IsFiniteSet(Threads)

VARIABLES
  current,     \* current_bytes
  peak,        \* peak_bytes
  recording,   \* where a thread is in record_alloc, record_realloc or record_free
  resetting,   \* what se_alloc_stats_reset read, or NoReset
  overtaken    \* the resets an allocation was counted in the middle of: the
               \* one going on ("now") and, until another allocation is
               \* counted, the one before it ("last")

counters == <<current, peak, recording, resetting, overtaken>>

NoReset == -1
NoRecord == [step |-> "none", old |-> 0, new |-> 0, top |-> 0, seen |-> 0]

CountersInit ==
  /\ current = 0 /\ peak = 0
  /\ recording = [t \in Threads |-> NoRecord]
  /\ resetting = NoReset /\ overtaken = {}

Recording(t) == recording[t].step # "none"

Record(t, rec) ==
  /\ recording' = [recording EXCEPT ![t] = rec]
  /\ UNCHANGED <<current, peak, resetting, overtaken>>

RecordAlloc(t, bytes) == Record(t, [NoRecord EXCEPT !.step = "add", !.new = bytes])

RecordRealloc(t, old, new) ==
  Record(t, [NoRecord EXCEPT !.step = "sub", !.old = old, !.new = new])

RecordFree(t, bytes) == Record(t, [NoRecord EXCEPT !.step = "free", !.old = bytes])

(* The first step of record_free, which is the last one here, and of       *)
(* record_realloc.                                                         *)
Subtract(t) ==
  /\ recording[t].step \in {"free", "sub"}
  /\ current' = (current - recording[t].old) % Word
  /\ recording' = [recording EXCEPT ![t] =
                     IF @.step = "free" THEN NoRecord ELSE [@ EXCEPT !.step = "add"]]
  /\ UNCHANGED <<peak, resetting, overtaken>>

Add(t) ==
  /\ recording[t].step = "add"
  /\ current' = (current + recording[t].new) % Word
  /\ recording' = [recording EXCEPT ![t].step = "load", ![t].top = current']
  /\ overtaken' = IF resetting = NoReset THEN {} ELSE {"now"}
  /\ UNCHANGED <<peak, resetting>>

(* record_peak reads the peak and is done if it is high enough. *)
LoadPeak(t) ==
  /\ recording[t].step = "load"
  /\ recording' = [recording EXCEPT ![t] =
                     IF @.top > peak THEN [@ EXCEPT !.step = "swap", !.seen = peak] ELSE NoRecord]
  /\ UNCHANGED <<current, peak, resetting, overtaken>>

StorePeak(t) ==
  /\ recording[t].step = "swap"
  /\ peak' = recording[t].top
  /\ recording' = [recording EXCEPT ![t] = NoRecord]
  /\ UNCHANGED <<current, resetting, overtaken>>

(* A compare and swap: when the peak is another by now, it is read again. *)
SwapPeak(t) ==
  /\ recording[t].step = "swap"
  /\ \/ peak = recording[t].seen /\ StorePeak(t)
     \/ /\ peak # recording[t].seen
        /\ recording' = [recording EXCEPT ![t].step = "load"]
        /\ UNCHANGED <<current, peak, resetting, overtaken>>

(* se_alloc_stats_reset, under the GVL: two steps of the loop. *)
ResetLoad ==
  /\ resetting = NoReset
  /\ resetting' = current
  /\ UNCHANGED <<current, peak, recording, overtaken>>

ResetStore ==
  /\ resetting # NoReset
  /\ peak' = resetting
  /\ resetting' = NoReset
  /\ overtaken' = IF "now" \in overtaken THEN {"last"} ELSE {}
  /\ UNCHANGED <<current, recording>>

-----------------------------------------------------------------------------
(* Properties *)

(* The counters are of type size_t, also while a thread counts. *)
CountersTypeOK ==
  /\ current \in 0 .. Word - 1 /\ peak \in 0 .. Word - 1
  /\ recording \in [Threads -> [step : {"none", "free", "sub", "add", "load", "swap"},
                                old : Nat, new : Nat, top : 0 .. Word - 1, seen : 0 .. Word - 1]]
  /\ resetting \in -1 .. Word - 1
  /\ overtaken \subseteq {"now", "last"}

(* What a thread has allocated or freed and not counted yet. *)
Uncounted(t) ==
  CASE recording[t].step = "free" -> - recording[t].old
    [] recording[t].step = "sub" -> recording[t].new - recording[t].old
    [] recording[t].step = "add" -> recording[t].new
    [] OTHER -> 0

(* When no thread is counting, the peak is no less than what is in use.    *)
(* A reset that an allocation overtakes breaks this, as it writes what it  *)
(* read before, and the next allocation that is counted mends it, however  *)
(* the threads and further resets meet; a lost update of record_peak would *)
(* break it too.                                                           *)
PeakCovers ==
  "last" \notin overtaken /\ (\A t \in Threads : ~Recording(t)) => peak >= current

=============================================================================
