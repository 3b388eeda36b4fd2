------------------------------- MODULE Scratch --------------------------------
(***************************************************************************)
(* The scratch buffers of the tokenizer: a set in each thread, taken by    *)
(* the call that finds it free, grown while a text is read and trimmed     *)
(* when it is given back, and a set of its own for a call nested in it.    *)
(*                                                                         *)
(* cps, cps2 and bytes differ in their sizes only and are one buffer here, *)
(* "text".  A buffer is its capacity, one byte an element.                 *)
(***************************************************************************)
EXTENDS AllocStats, Sequences

CONSTANTS
  TextKeep, IdsReserve, IdsRetain,   \* SE_SCRATCH_..._KEEP, _RESERVE, _RETAIN_MAX
  Workloads             \* bound: for each thread the widths of its models, what its texts may
                        \*   need, how deep calls may be nested and how many allocations may fail

ASSUME ScratchAssumption ==
  /\ TextKeep \in Nat \ {0} /\ IdsReserve \in Nat \ {0} /\ IdsRetain \in Nat
  /\ IdsReserve <= IdsRetain
  /\ Workloads \subseteq [Threads -> [dims : SUBSET (Nat \ {0}), text : SUBSET Nat,
                                     ids : SUBSET Nat, depth : Nat, fails : Nat]]

VARIABLES
  work,       \* the workload of the threads, chosen once
  tls,        \* the set of a thread, or None
  frames,     \* the calls of a thread, the innermost last
  failures,   \* how many allocations failed
  used        \* what the calls that had a thread's set needed of it

scratchVars == <<work, tls, frames, failures, used>>
vars == <<counters, scratchVars>>

Buffers == <<"text", "ids", "acc">>
BufferNames == {"text", "ids", "acc"}
Nothing == [b \in BufferNames |-> 0]

None == [made |-> FALSE, inUse |-> FALSE, cap |-> Nothing]
(* What se_scratch_t and se_tls_scratch_t themselves take. *)
StructBytes == 1

Init ==
  /\ CountersInit
  /\ work \in Workloads
  /\ tls = [t \in Threads |-> None]
  /\ frames = [t \in Threads |-> <<>>]
  /\ failures = 0
  /\ used = [t \in Threads |-> Nothing]

-----------------------------------------------------------------------------
(* A thread's innermost call.  It is at "slot", "reserve", "use", "trim",  *)
(* "free" or, when the thread itself ends, at "exit".                      *)

Depth(t) == Len(frames[t])
Call(t) == frames[t][Depth(t)]
At(t, place) == Depth(t) > 0 /\ Call(t).at = place /\ ~Recording(t)

GoTo(t, place) == frames' = [frames EXCEPT ![t][Depth(t)].at = place]
Pop(t) == frames' = [frames EXCEPT ![t] = SubSeq(@, 1, Len(@) - 1)]

(* The set the call works in. *)
Cap(t) == IF Call(t).own THEN tls[t].cap ELSE Call(t).cap
SetCap(t, b, n) ==
  IF Call(t).own
  THEN tls' = [tls EXCEPT ![t].cap[b] = n] /\ UNCHANGED frames
  ELSE frames' = [frames EXCEPT ![t][Depth(t)].cap[b] = n] /\ UNCHANGED tls

(* An allocation that returns NULL. *)
Fails(t) == failures < work[t].fails /\ failures' = failures + 1

(* The first of some buffers, in the order of the code. *)
First(S) == Buffers[Min({i \in DOMAIN Buffers : Buffers[i] \in S})]

(* se_next_capacity: doubled until it is enough. *)
NextCapacity(cap, need, least) ==
  LET next[i \in 0 .. need] ==
        IF i = 0 THEN IF cap > 0 THEN cap ELSE least ELSE 2 * next[i - 1]
  IN  Min({n \in {next[i] : i \in 0 .. need} : n >= need})

LeastCapacity(t, b) == IF b = "acc" THEN Call(t).dim ELSE 1
Reserved(t, b) ==
  CASE b = "text" -> TextKeep [] b = "ids" -> IdsReserve [] b = "acc" -> Call(t).dim

(* grow_buffer with success *)
Grow(t, b, need) ==
  LET next == NextCapacity(Cap(t)[b], need, LeastCapacity(t, b))
  IN  /\ SetCap(t, b, next)
      /\ IF Cap(t)[b] = 0 THEN RecordAlloc(t, next) ELSE RecordRealloc(t, Cap(t)[b], next)

-----------------------------------------------------------------------------
(* se_scratch_acquire *)

Begin(t) ==
  /\ ~Recording(t)
  /\ Depth(t) < work[t].depth
  /\ Depth(t) > 0 => Call(t).at = "use"
  /\ \E d \in work[t].dims :
       frames' = [frames EXCEPT ![t] =
         Append(@, [at |-> "slot", own |-> FALSE, cap |-> Nothing, dim |-> d, todo |-> {}])]
  /\ UNCHANGED <<counters, tls, failures, used, work>>

(* se_scratch_tls_slot makes the set of a thread that has none; the last   *)
(* case is that of a set that cannot be attached to the thread.            *)
MakeSlot(t) ==
  /\ At(t, "slot") /\ ~tls[t].made
  /\ \/ /\ tls' = [tls EXCEPT ![t].made = TRUE]
        /\ RecordAlloc(t, StructBytes)
        /\ UNCHANGED <<frames, failures>>
     \/ Fails(t) /\ Pop(t) /\ UNCHANGED <<counters, tls>>
     \/ Fails(t) /\ GoTo(t, "free") /\ RecordAlloc(t, StructBytes) /\ UNCHANGED tls
  /\ UNCHANGED <<used, work>>

TakeOwn(t) ==
  /\ At(t, "slot") /\ tls[t].made /\ ~tls[t].inUse
  /\ frames' = [frames EXCEPT ![t][Depth(t)].at = "reserve", ![t][Depth(t)].own = TRUE]
  /\ UNCHANGED <<counters, tls, failures, used, work>>

TakeHeap(t) ==
  /\ At(t, "slot") /\ tls[t].made /\ tls[t].inUse
  /\ \/ GoTo(t, "reserve") /\ RecordAlloc(t, StructBytes) /\ UNCHANGED failures
     \/ Fails(t) /\ Pop(t) /\ UNCHANGED counters
  /\ UNCHANGED <<tls, used, work>>

(* A failure leaves a thread's set as far as it got and frees another one. *)
Reserve(t) ==
  LET missing == {b \in BufferNames : Cap(t)[b] < Reserved(t, b)}
  IN  /\ At(t, "reserve") /\ missing # {}
      /\ \/ Grow(t, First(missing), Reserved(t, First(missing))) /\ UNCHANGED failures
         \/ /\ Fails(t)
            /\ IF Call(t).own THEN Pop(t) ELSE GoTo(t, "free")
            /\ UNCHANGED <<counters, tls>>
      /\ UNCHANGED <<used, work>>

Acquired(t) ==
  /\ At(t, "reserve")
  /\ \A b \in BufferNames : Cap(t)[b] >= Reserved(t, b)
  /\ GoTo(t, "use")
  /\ tls' = [tls EXCEPT ![t].inUse = @ \/ Call(t).own]
  /\ UNCHANGED <<counters, failures, used, work>>

-----------------------------------------------------------------------------
(* The call *)

Needs(t, b) == IF b = "text" THEN work[t].text ELSE work[t].ids

(* A text needs so much of a buffer, which is large enough or is grown.    *)
(* The batch asks for the reserve again before each text: it is there.     *)
Use(t) ==
  /\ At(t, "use")
  /\ \E b \in {"text", "ids"} : \E need \in Needs(t, b) :
       /\ \/ need > Cap(t)[b] /\ Grow(t, b, need) /\ UNCHANGED failures
          \/ need <= Cap(t)[b] /\ UNCHANGED <<counters, tls, frames, failures>>
       /\ used' = IF Call(t).own /\ need > used[t][b] THEN [used EXCEPT ![t][b] = need] ELSE used
  /\ UNCHANGED work

ReleasesAny(t) == [tls EXCEPT ![t].inUse = FALSE]
(* se_scratch_release: a thread's set is free at once, to be trimmed. *)
Releases(t) == IF Call(t).own THEN [tls EXCEPT ![t].inUse = FALSE] ELSE tls

TrimmedToReserve(b) == IF b = "text" THEN TextKeep ELSE IdsReserve
Retained(b) == IF b = "text" THEN TextKeep ELSE IdsRetain

TooLargeText(t) == {b \in {"text"} : tls[t].cap[b] > Retained(b)}
AtLeastKept(t) == {b \in {"text", "ids"} : tls[t].cap[b] >= Retained(b)}
TooLarge(t) == {b \in {"text", "ids"} : tls[t].cap[b] > Retained(b)}

(* The end of a call, also of one whose buffer could not be grown. *)
Release(t) ==
  /\ At(t, "use")
  /\ tls' = Releases(t)
  /\ frames' = [frames EXCEPT
        ![t][Depth(t)].at = IF Call(t).own THEN "trim" ELSE "free",
        ![t][Depth(t)].todo = IF Call(t).own THEN TooLarge(t) ELSE {}]
  /\ \/ UNCHANGED failures
     \/ Fails(t) /\ \E b \in {"text", "ids"} : \E need \in Needs(t, b) : need > Cap(t)[b]
  /\ UNCHANGED <<counters, used, work>>

(* se_scratch_trim, which ignores failures and keeps acc *)
Trim(t) ==
  /\ At(t, "trim")
  /\ LET todo == Call(t).todo
         b == First(todo)
     IN  \/ /\ todo = {}
            /\ Pop(t)
            /\ UNCHANGED <<counters, tls, failures>>
         \/ /\ todo # {}
            /\ frames' = [frames EXCEPT ![t][Depth(t)].todo = @ \ {b}]
            /\ \/ /\ tls' = [tls EXCEPT ![t].cap[b] = Retained(b)]
                  /\ RecordRealloc(t, tls[t].cap[b], Retained(b))
                  /\ UNCHANGED failures
               \/ Fails(t) /\ UNCHANGED <<counters, tls>>
  /\ UNCHANGED <<used, work>>

FreedCap(t) == {b \in BufferNames : Cap(t)[b] > 0}

FreeStruct(t) ==
  /\ At(t, "free")
  /\ Pop(t) /\ RecordFree(t, StructBytes) /\ UNCHANGED tls
  /\ UNCHANGED <<failures, used, work>>

(* se_scratch_free and the structure itself *)
Free(t) ==
  /\ At(t, "free")
  /\ IF FreedCap(t) # {}
     THEN LET b == First(FreedCap(t)) IN SetCap(t, b, 0) /\ RecordFree(t, Cap(t)[b])
     ELSE Pop(t) /\ RecordFree(t, StructBytes) /\ UNCHANGED tls
  /\ UNCHANGED <<failures, used, work>>

(* The thread ends, and se_scratch_tls_dtor runs. *)
Exit(t) ==
  /\ Depth(t) = 0 /\ tls[t].made /\ ~Recording(t)
  /\ frames' = [frames EXCEPT ![t] =
                  <<[at |-> "exit", own |-> TRUE, cap |-> Nothing, dim |-> 0, todo |-> {}]>>]
  /\ UNCHANGED <<counters, tls, failures, used, work>>

Destroy(t) ==
  /\ At(t, "exit")
  /\ IF FreedCap(t) # {}
     THEN LET b == First(FreedCap(t))
          IN  SetCap(t, b, 0) /\ RecordFree(t, Cap(t)[b]) /\ UNCHANGED used
     ELSE /\ tls' = [tls EXCEPT ![t] = None]
          /\ Pop(t)
          /\ RecordFree(t, StructBytes)
          /\ used' = [used EXCEPT ![t] = Nothing]
  /\ UNCHANGED <<failures, work>>

(* The steps of the counters, which touch no buffer *)
CountDown(t) == Subtract(t) /\ UNCHANGED scratchVars
CountUp(t) == Add(t) /\ UNCHANGED scratchVars
ReadPeak(t) == LoadPeak(t) /\ UNCHANGED scratchVars
RaisePeak(t) == SwapPeak(t) /\ UNCHANGED scratchVars
ResetReads == ResetLoad /\ UNCHANGED scratchVars
ResetWrites == ResetStore /\ UNCHANGED scratchVars

Next ==
  \/ \E t \in Threads :
       \/ Begin(t) \/ MakeSlot(t) \/ TakeOwn(t) \/ TakeHeap(t) \/ Reserve(t) \/ Acquired(t)
       \/ Use(t) \/ Release(t) \/ Trim(t) \/ Free(t) \/ Exit(t) \/ Destroy(t)
       \/ CountDown(t) \/ CountUp(t) \/ ReadPeak(t) \/ RaisePeak(t)
  \/ ResetReads \/ ResetWrites

Spec == Init /\ [][Next]_vars

-----------------------------------------------------------------------------
(* Properties *)

(* The types, and that a call trims only what is larger than it keeps. *)
TypeOK ==
  /\ CountersTypeOK
  /\ work \in Workloads
  /\ tls \in [Threads -> [made : BOOLEAN, inUse : BOOLEAN, cap : [BufferNames -> Nat]]]
  /\ \A t \in Threads : \A i \in DOMAIN frames[t] :
       frames[t][i] \in [at : {"slot", "reserve", "use", "trim", "free", "exit"}, own : BOOLEAN,
                         cap : [BufferNames -> Nat], dim : Nat, todo : SUBSET BufferNames]
  /\ \A t \in Threads : At(t, "trim") => \A b \in Call(t).todo : tls[t].cap[b] > Retained(b)
  /\ failures \in Nat
  /\ used \in [Threads -> [BufferNames -> Nat]]

(* Of the calls nested in each other on a thread at most one works in the  *)
(* thread's buffers, which are marked as long as it does; the buffers of   *)
(* the others are theirs alone.                                            *)
OneOwner ==
  \A t \in Threads :
    /\ \A i, j \in DOMAIN frames[t] : frames[t][i].own /\ frames[t][j].own => i = j
    /\ tls[t].inUse <=> \E i \in DOMAIN frames[t] : frames[t][i].own /\ frames[t][i].at = "use"

Bytes(cap) == cap["text"] + cap["ids"] + cap["acc"]
Total(f, S) == MapThenSumSet(LAMBDA x : f[x], S)

(* The buffers a call has for itself *)
Held(call) == IF call.own \/ call.at = "slot" THEN 0 ELSE StructBytes + Bytes(call.cap)

(* What a thread can still reach, and so will free. *)
InUse(t) ==
  (IF tls[t].made THEN StructBytes + Bytes(tls[t].cap) ELSE 0)
  + Total([i \in DOMAIN frames[t] |-> Held(frames[t][i])], DOMAIN frames[t])

Counted == Total([t \in Threads |-> InUse(t) - Uncounted(t)], Threads)

(* current_bytes is at every moment what the threads have in use, but for  *)
(* what they are just counting: it never wraps below zero, whatever is     *)
(* reset, fails or ends, and nothing is lost.                              *)
CurrentIsInUse == current = Counted

(* Between calls a thread keeps no more than the documented sizes, however *)
(* large the texts it read, unless an allocation failed.                   *)
RetentionBounded ==
  \A t \in Threads :
    failures = 0 /\ frames[t] = <<>> =>
      tls[t].cap["text"] <= TextKeep /\ tls[t].cap["ids"] <= IdsRetain

(* A thread's buffers stay as large as its calls needed, up to those       *)
(* sizes: repeating a call reallocates nothing.                            *)
HighWaterKept ==
  \A t \in Threads :
    frames[t] = <<>> =>
      /\ tls[t].cap["text"] >= Min({used[t]["text"], TextKeep})
      /\ tls[t].cap["ids"] >= Min({used[t]["ids"], IdsRetain})

=============================================================================
