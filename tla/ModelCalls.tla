------------------------------ MODULE ModelCalls ------------------------------
(***************************************************************************)
(* Calls of one StaticEmbeddings::Model by several Ruby threads or fibers: *)
(* embed / embed_batch (the round loop of embed_texts_internal), token     *)
(* ids, warmup, the short inline calls, close and garbage collection.      *)
(*                                                                         *)
(* A step of a caller is what the C code does between two points where it  *)
(* can lose the GVL, so it is atomic to other callers; the steps of a      *)
(* native job (batch_worker_run, se_embed_ids, se_model_warmup) run        *)
(* without the GVL and interleave with everything.                         *)
(***************************************************************************)
EXTENDS Integers, FiniteSets

CONSTANTS
  Callers,            \* threads or fibers that call methods of the model
  Items,              \* rows, blocks of 256 ids or page groups of one job
  Rounds,             \* bound: passes of the prefix loop in one call
  InterruptsPerRound, \* bound: interrupts that reach a caller in one round
  ArgCallbacks        \* whether max_tokens or an id may be an object whose
                      \* to_int runs Ruby code (and so may lose the GVL)

ASSUME CallersAssumption == IsFiniteSet(Callers)
ASSUME BoundsAssumption ==
  /\ Items \in Nat \ {0}
  /\ Rounds \in Nat \ {0}
  /\ InterruptsPerRound \in Nat
  /\ ArgCallbacks \in BOOLEAN

VARIABLES
  handle,      \* model_wrapper_t.open and the mapping behind it
  activeOps,   \* model_wrapper_t.active_ops
  pc,          \* where each caller is
  op,          \* the call it makes
  round,       \* pass of the prefix loop
  live,        \* the call's frame and C buffers exist
  answer,      \* how its last call ended
  pend,        \* interrupt the caller has not noticed yet
  interrupts,  \* those it got, or had not noticed yet, since its round began;
               \* no variable of the code
  job,         \* phase of its native job
  worker,      \* the Ruby thread that runs the job for a fiber
  cancelled,   \* job.cancelled
  failed,      \* job.failed or job.error
  rows         \* items the job has completed

callVars == <<pc, op, round, live, answer>>
intVars == <<pend, interrupts>>
jobVars == <<job, worker, cancelled, failed, rows>>
vars == <<handle, activeOps, callVars, intVars, jobVars>>

Ops == {"embed", "ids", "warmup", "short"}
PCs == {"idle", "args", "convert", "prepare", "region", "join", "rejoin", "checkints"}
Answers == {"none", "ok", "error", "cancelled", "raised", "busy", "closed"}
JobPhases == {"none", "enter", "check", "work", "returned", "dead"}

-----------------------------------------------------------------------------

\* active_ops counts this caller. embed_token_ids_body gives its count back
\* before rb_thread_check_ints, the batch path only in run_job_ensure.
Counted(c) ==
  \/ pc[c] \in {"region", "join", "rejoin"}
  \/ (pc[c] = "checkints" /\ op[c] = "embed")

\* The native code of c's job is running, outside the GVL.
Reading(c) == job[c] \in {"check", "work"}

\* Faulty variant: the loop can yield between two rounds.
GvlFreeBetweenRounds(c) ==
  \A d \in Callers \ {c} : ArgCallbacks \/ pc[d] \notin {"args", "convert"}

\* c can take the GVL: nobody is between two yield points. A caller in
\* "prepare" runs the round loop, which never yields; one that converts
\* arguments yields only inside a to_int of the caller's own.
GvlFree(c) ==
  \A d \in Callers \ {c} :
    /\ pc[d] # "prepare"
    /\ ArgCallbacks \/ pc[d] \notin {"args", "convert"}

Init ==
  /\ handle = "unopened"
  /\ activeOps = 0
  /\ pc = [c \in Callers |-> "idle"]
  /\ op = [c \in Callers |-> "short"]
  /\ round = [c \in Callers |-> 1]
  /\ live = [c \in Callers |-> FALSE]
  /\ answer = [c \in Callers |-> "none"]
  /\ pend = [c \in Callers |-> "none"]
  /\ interrupts = [c \in Callers |-> 0]
  /\ job = [c \in Callers |-> "none"]
  /\ worker = [c \in Callers |-> "none"]
  /\ cancelled = [c \in Callers |-> FALSE]
  /\ failed = [c \in Callers |-> "no"]
  /\ rows = [c \in Callers |-> 0]

-----------------------------------------------------------------------------
(* The handle. *)

\* model_initialize; a path that fails to open leaves an object no call reaches.
Open ==
  /\ handle = "unopened"
  /\ handle' = "open"
  /\ UNCHANGED <<activeOps, callVars, intVars, jobVars>>

\* Faulty variant: closes whatever is in progress.
CloseUnchecked(c) ==
  /\ pc[c] = "idle" /\ handle = "open"
  /\ handle' = "closed"
  /\ UNCHANGED <<activeOps, callVars, intVars, jobVars>>

\* model_close: refuses while active_ops is not 0, is a no-op when closed.
Close(c) ==
  /\ pc[c] = "idle"
  /\ handle = "open"
  /\ IF activeOps # 0
     THEN /\ answer' = [answer EXCEPT ![c] = "busy"]
          /\ UNCHANGED handle
     ELSE /\ handle' = "closed"
          /\ answer' = [answer EXCEPT ![c] = "none"]
  /\ UNCHANGED <<activeOps, pc, op, round, live, intVars, jobVars>>

\* model_free, once no frame refers to the object.
Collect ==
  /\ handle \in {"open", "closed"}
  /\ \A c \in Callers : pc[c] = "idle"
  /\ handle' = "freed"
  /\ UNCHANGED <<activeOps, callVars, intVars, jobVars>>

-----------------------------------------------------------------------------
(* Steps of a caller, under the GVL. *)

\* Leaves the call: rb_ensure handlers have run and the buffers are freed.
Leave(c, how) ==
  /\ pc' = [pc EXCEPT ![c] = "idle"]
  /\ live' = [live EXCEPT ![c] = FALSE]
  /\ answer' = [answer EXCEPT ![c] = how]
  /\ UNCHANGED <<op, round>>

\* Goes on to another yield point of the same call.
Goto(c, where) ==
  /\ pc' = [pc EXCEPT ![c] = where]
  /\ UNCHANGED <<op, round, live, answer>>

\* Faulty variant: the flag keeps what an earlier run left in it.
FreshJobKeepsFlag(c, phase, thread) ==
  /\ job' = [job EXCEPT ![c] = phase]
  /\ worker' = [worker EXCEPT ![c] = thread]
  /\ failed' = [failed EXCEPT ![c] = "no"]
  /\ rows' = [rows EXCEPT ![c] = 0]
  /\ UNCHANGED cancelled

\* The job record is zeroed (memset) before every run.
FreshJob(c, phase, thread) ==
  /\ job' = [job EXCEPT ![c] = phase]
  /\ worker' = [worker EXCEPT ![c] = thread]
  /\ cancelled' = [cancelled EXCEPT ![c] = FALSE]
  /\ failed' = [failed EXCEPT ![c] = "no"]
  /\ rows' = [rows EXCEPT ![c] = 0]

\* The whole job under the GVL: nothing can cancel it, an item can fail.
InlineJob(c, phase) ==
  /\ job' = [job EXCEPT ![c] = phase]
  /\ worker' = [worker EXCEPT ![c] = "none"]
  /\ cancelled' = [cancelled EXCEPT ![c] = FALSE]
  /\ \/ /\ rows' = [rows EXCEPT ![c] = Items]
        /\ failed' = [failed EXCEPT ![c] = "no"]
     \/ /\ rows' = [rows EXCEPT ![c] = 0]
        /\ failed' = [failed EXCEPT ![c] = "item"]

\* get_model: raises on a closed model. Warmup takes no argument to convert.
Begin(c, o) ==
  /\ pc[c] = "idle" /\ pend[c] = "none"
  /\ handle \in {"open", "closed"}
  /\ job[c] \in {"none", "returned", "dead"}
  /\ IF handle = "closed"
     THEN /\ answer' = [answer EXCEPT ![c] = "closed"]
          /\ UNCHANGED <<activeOps, pc, op, round, live, intVars, jobVars>>
     ELSE /\ op' = [op EXCEPT ![c] = o]
          /\ round' = [round EXCEPT ![c] = 1]
          /\ answer' = [answer EXCEPT ![c] = "none"]
          /\ interrupts' = [interrupts EXCEPT ![c] = 0]
          /\ IF o = "warmup"
             THEN /\ activeOps' = activeOps + 1
                  /\ pc' = [pc EXCEPT ![c] = "region"]
                  /\ live' = [live EXCEPT ![c] = TRUE]
                  /\ FreshJob(c, "enter", "none")
             ELSE /\ pc' = [pc EXCEPT ![c] = "args"]
                  /\ FreshJob(c, "none", "none")
                  /\ UNCHANGED <<activeOps, live>>
          /\ UNCHANGED pend
  /\ UNCHANGED handle

\* resolve_max_tokens and the checks of the texts or the id array. A short
\* call (embed_one_value below the threshold, tokenize) then runs to its end.
Args(c) ==
  /\ pc[c] = "args"
  /\ \/ Leave(c, "error") /\ UNCHANGED jobVars
     \/ /\ op[c] = "short"
        /\ InlineJob(c, "returned")
        /\ Leave(c, IF failed'[c] = "no" THEN "ok" ELSE "error")
     \/ /\ op[c] \in {"embed", "ids"}
        /\ pc' = [pc EXCEPT ![c] = IF op[c] = "embed" THEN "prepare" ELSE "convert"]
        /\ live' = [live EXCEPT ![c] = TRUE]
        /\ UNCHANGED <<op, round, answer, jobVars>>
  /\ UNCHANGED <<handle, activeOps, intVars>>

\* embed_token_ids_body: converts the ids, then runs the job; fewer than 256
\* ids run inline and are never counted.
Convert(c) ==
  /\ pc[c] = "convert"
  /\ \/ /\ Leave(c, "error")
        /\ UNCHANGED <<activeOps, jobVars>>
     \/ /\ InlineJob(c, "returned")
        /\ Goto(c, "checkints")
        /\ UNCHANGED activeOps
     \/ /\ activeOps' = activeOps + 1
        /\ FreshJob(c, "enter", "none")
        /\ Goto(c, "region")
  /\ UNCHANGED <<handle, intVars>>

\* One pass of embed_texts_internal's loop up to run_job's first yield point:
\* inline, outside the GVL, or on a thread of its own for a fiber. Staging
\* the batch or creating the thread may fail.
StartRoundWith(c, Fresh(_, _, _)) ==
  /\ pc[c] = "prepare"
  /\ \/ /\ Leave(c, "error")
        /\ UNCHANGED <<activeOps, jobVars>>
     \/ /\ activeOps' = activeOps + 1
        /\ \/ InlineJob(c, "returned") /\ Goto(c, "checkints")
           \/ Fresh(c, "enter", "none") /\ Goto(c, "region")
           \/ Fresh(c, "enter", "thread") /\ Goto(c, "join")
  /\ UNCHANGED <<handle, intVars>>

\* Faulty variant: the flag is cleared once a call, not once a round.
StartRoundKeepsFlag(c) == StartRoundWith(c, FreshJobKeepsFlag)

\* The job record is cleared for every round.
StartRound(c) == StartRoundWith(c, FreshJob)

RegionEndWith(c, count) ==
  /\ pc[c] = "region" /\ job[c] = "returned" /\ pend[c] = "none"
  /\ activeOps' = count
  /\ IF op[c] = "warmup" THEN Leave(c, "ok") ELSE Goto(c, "checkints")
  /\ UNCHANGED <<handle, intVars, jobVars>>

\* Faulty variant: a token-id call that ends well keeps its count.
RegionEndKeepsIds(c) ==
  RegionEndWith(c, IF op[c] = "warmup" THEN activeOps - 1 ELSE activeOps)

\* rb_thread_call_without_gvl returns with no interrupt pending. Only the
\* token-id path and warmup give their count back here.
RegionEnd(c) ==
  RegionEndWith(c, IF op[c] = "embed" THEN activeOps ELSE activeOps - 1)

\* The job of an embed round is over, its thread joined or its interrupts
\* checked: run_job_ensure, free_input, and what the loop does next. A prefix
\* that was cut too short, or inside malformed bytes, goes round again.
RoundOver(c) ==
  /\ op[c] = "embed"
  /\ \/ pc[c] = "checkints" /\ pend[c] = "none"
     \/ pc[c] = "join" /\ job[c] = "dead"
  /\ activeOps' = activeOps - 1
  /\ \/ /\ failed[c] = "no"
        /\ Leave(c, "ok")
        /\ UNCHANGED interrupts
     \/ /\ failed[c] # "no"
        /\ Leave(c, IF failed[c] = "item" THEN "error" ELSE "cancelled")
        /\ UNCHANGED interrupts
     \/ /\ failed[c] # "cancel"
        /\ round[c] < Rounds
        /\ round' = [round EXCEPT ![c] = @ + 1]
        /\ interrupts' = [interrupts EXCEPT ![c] = IF pend[c] = "none" THEN 0 ELSE @]
        /\ pc' = [pc EXCEPT ![c] = "prepare"]
        /\ UNCHANGED <<op, live, answer>>
  /\ UNCHANGED <<handle, pend, jobVars>>

\* The rest of embed_token_ids_body after rb_thread_check_ints.
IdsOver(c) ==
  /\ op[c] = "ids"
  /\ pc[c] = "checkints" /\ pend[c] = "none"
  /\ \/ cancelled[c] /\ Leave(c, "raised")
     \/ ~cancelled[c] /\ failed[c] # "no" /\ Leave(c, "error")
     \/ ~cancelled[c] /\ failed[c] = "no" /\ Leave(c, "ok")
  /\ UNCHANGED <<handle, activeOps, intVars, jobVars>>

\* The thread that joins its worker is interrupted: fiber_worker_ensure asks
\* the job to stop, kills the thread and joins it again.
JoinRaise(c) ==
  /\ pc[c] = "join" /\ pend[c] = "raise"
  /\ pend' = [pend EXCEPT ![c] = "none"]
  /\ Goto(c, "rejoin")
  /\ cancelled' = [cancelled EXCEPT ![c] = TRUE]
  /\ worker' = [worker EXCEPT ![c] = "killed"]
  /\ UNCHANGED <<handle, activeOps, interrupts, job, failed, rows>>

\* The second join ends with the worker, or with another interrupt; then
\* run_job_ensure, free_input and embed_run_free.
RejoinEnd(c) ==
  /\ pc[c] = "rejoin"
  /\ \/ job[c] = "dead" /\ UNCHANGED pend
     \/ pend[c] = "raise" /\ pend' = [pend EXCEPT ![c] = "none"]
  /\ activeOps' = activeOps - 1
  /\ Leave(c, "raised")
  /\ UNCHANGED <<handle, interrupts, jobVars>>

-----------------------------------------------------------------------------
(* Interrupts: a signal handler that returns ("trap"), or Thread#raise,    *)
(* Thread#kill and Timeout ("raise").                                      *)

\* Where the caller looks for interrupts: before and after the region, in
\* rb_thread_check_ints, in a join (JoinRaise, RejoinEnd take the raises).
AtCheck(c) ==
  \/ pc[c] = "region" /\ job[c] \in {"enter", "returned"}
  \/ pc[c] \in {"join", "rejoin", "checkints"}
  \/ pc[c] = "idle"

\* The unblock function runs at once when the caller is in its region
\* (warmup has none); otherwise the interrupt waits.
Interrupt(c) ==
  /\ pc[c] # "idle" /\ pend[c] = "none"
  /\ interrupts[c] < InterruptsPerRound
  /\ interrupts' = [interrupts EXCEPT ![c] = @ + 1]
  /\ \E kind \in {"trap", "raise"} : pend' = [pend EXCEPT ![c] = kind]
  /\ cancelled' = [cancelled EXCEPT ![c] =
                     \/ @
                     \/ /\ pc[c] = "region"
                        /\ op[c] # "warmup"
                        /\ job[c] \in {"check", "work", "returned"}]
  /\ UNCHANGED <<handle, activeOps, callVars, job, worker, failed, rows>>

\* The handler of a trap runs and returns; an interrupt that arrived too late
\* for the call is delivered after it.
ServeTrap(c) ==
  /\ AtCheck(c)
  /\ pend[c] = "trap" \/ (pend[c] = "raise" /\ pc[c] = "idle")
  /\ pend' = [pend EXCEPT ![c] = "none"]
  /\ UNCHANGED <<handle, activeOps, callVars, interrupts, jobVars>>

Unwind(c, count) ==
  /\ pc[c] \in {"region", "checkints"} /\ AtCheck(c)
  /\ pend[c] = "raise"
  /\ pend' = [pend EXCEPT ![c] = "none"]
  /\ activeOps' = count
  /\ Leave(c, "raised")
  /\ job' = [job EXCEPT ![c] = "none"]
  /\ UNCHANGED <<handle, interrupts, worker, cancelled, failed, rows>>

\* Faulty variant: the ensure handler does not ask run->active.
RaiseOutTwice(c) == Unwind(c, activeOps - 1)

\* A raise leaves the call through run_job_ensure, warmup_ensure or
\* embed_token_ids_ensure; a region it prevented is never entered.
RaiseOut(c) == Unwind(c, IF Counted(c) THEN activeOps - 1 ELSE activeOps)

-----------------------------------------------------------------------------
(* Steps of the native job. *)

\* Enters the region unless the thread that runs it has an interrupt
\* pending; a killed worker ends without running. The scratch may not fit.
EnterRegion(c) ==
  /\ job[c] = "enter"
  /\ worker[c] = "none" => pend[c] = "none"
  /\ IF worker[c] = "killed"
     THEN job' = [job EXCEPT ![c] = "dead"] /\ UNCHANGED failed
     ELSE \/ job' = [job EXCEPT ![c] = "check"] /\ UNCHANGED failed
          \/ /\ op[c] # "warmup"
             /\ job' = [job EXCEPT ![c] = "returned"]
             /\ failed' = [failed EXCEPT ![c] = "item"]
  /\ UNCHANGED <<handle, activeOps, callVars, intVars, worker, cancelled, rows>>

Stop(c, why) ==
  /\ job' = [job EXCEPT ![c] = "returned"]
  /\ failed' = [failed EXCEPT ![c] = why]
  /\ UNCHANGED rows

NextItemOr(c, why) ==
  /\ job[c] = "check"
  /\ IF cancelled[c] /\ (op[c] = "embed" \/ rows[c] < Items)
     THEN Stop(c, why)
     ELSE IF rows[c] = Items
          THEN Stop(c, "no")
          ELSE /\ job' = [job EXCEPT ![c] = "work"]
               /\ UNCHANGED <<failed, rows>>
  /\ UNCHANGED <<handle, activeOps, callVars, intVars, worker, cancelled>>

\* Faulty variant: a cancelled job stops without failing.
NextItemQuietStop(c) == NextItemOr(c, "no")

\* The head of the job's loop. batch_worker_run looks at the flag before it
\* looks for another row; se_embed_ids only while ids are left.
NextItem(c) == NextItemOr(c, "cancel")

\* The item is done.
ItemDone(c) ==
  /\ job[c] = "work"
  /\ job' = [job EXCEPT ![c] = "check"]
  /\ rows' = [rows EXCEPT ![c] = @ + 1]
  /\ UNCHANGED <<handle, activeOps, callVars, intVars, worker, cancelled, failed>>

\* The item cannot be embedded: malformed UTF-8, no usable token, no memory.
ItemFails(c) ==
  /\ job[c] = "work" /\ op[c] # "warmup"
  /\ Stop(c, "item")
  /\ UNCHANGED <<handle, activeOps, callVars, intVars, worker, cancelled>>

FlagSeen(c) ==
  /\ job[c] = "work" /\ op[c] # "warmup"
  /\ cancelled[c]
  /\ Stop(c, "cancel")
  /\ UNCHANGED <<handle, activeOps, callVars, intVars, worker, cancelled>>

\* Faulty variant: the tokenizer does not look at the flag.
ItemCancelledInPoolingOnly(c) == FlagSeen(c) /\ op[c] = "ids"

\* The tokenizer or the pooling loop sees the flag inside an item.
ItemCancelled(c) == FlagSeen(c)

\* fiber_thread_body returns and its thread dies.
WorkerExits(c) ==
  /\ worker[c] # "none" /\ job[c] = "returned"
  /\ job' = [job EXCEPT ![c] = "dead"]
  /\ UNCHANGED <<handle, activeOps, callVars, intVars, worker, cancelled, failed, rows>>

-----------------------------------------------------------------------------

\* What a caller, or the thread that runs its job, does of its own inside a
\* call; each of these needs the GVL.
Proceed(c) ==
  \/ Args(c) \/ Convert(c) \/ StartRound(c)
  \/ RegionEnd(c) \/ RoundOver(c) \/ IdsOver(c)
  \/ JoinRaise(c) \/ RejoinEnd(c) \/ ServeTrap(c) \/ RaiseOut(c)
  \/ EnterRegion(c) \/ WorkerExits(c)

\* Without the GVL.
JobStep(c) == NextItem(c) \/ ItemDone(c) \/ ItemFails(c) \/ ItemCancelled(c)

CallerStep(c) ==
  /\ GvlFree(c)
  /\ \/ Close(c)
     \/ \E o \in Ops : Begin(c, o)
     \/ Proceed(c)

Next ==
  \/ Open
  \/ Collect
  \/ \E c \in Callers : CallerStep(c) \/ Interrupt(c) \/ JobStep(c)

Spec == Init /\ [][Next]_vars

(***************************************************************************)
(* Fairness: Ruby's GVL has a first-in-first-out queue, so a thread that   *)
(* waits for it gets it even if others keep taking it (strong fairness),   *)
(* and the operating system runs a native job to its next look. That       *)
(* an item of an embedding ever ends is NOT assumed (a text may be as      *)
(* long as memory); a page group of a warmup does end, since nothing can   *)
(* cancel it. Callers need not begin calls, and interrupts need not come.  *)
(***************************************************************************)
Fairness ==
  \A c \in Callers :
    /\ SF_vars(GvlFree(c) /\ Proceed(c))
    /\ WF_vars(NextItem(c))
    /\ WF_vars(ItemCancelled(c))
    /\ WF_vars(op[c] = "warmup" /\ ItemDone(c))

LiveSpec == Spec /\ Fairness

-----------------------------------------------------------------------------
(* Properties. *)

CallTypeOK ==
  /\ handle \in {"unopened", "open", "closed", "freed"}
  /\ pc \in [Callers -> PCs]
  /\ op \in [Callers -> Ops]
  /\ round \in [Callers -> 1..Rounds]
  /\ live \in [Callers -> BOOLEAN]
  /\ answer \in [Callers -> Answers]
  /\ pend \in [Callers -> {"none", "trap", "raise"}]
  /\ interrupts \in [Callers -> 0..InterruptsPerRound]

JobTypeOK ==
  /\ job \in [Callers -> JobPhases]
  /\ worker \in [Callers -> {"none", "thread", "killed"}]
  /\ cancelled \in [Callers -> BOOLEAN]
  /\ failed \in [Callers -> {"no", "item", "cancel"}]
  /\ rows \in [Callers -> 0..Items]

\* Every variable has its type; active_ops, an unsigned int, never wraps.
TypeOK == activeOps \in Nat /\ CallTypeOK /\ JobTypeOK

Holders == {c \in Callers : Counted(c)}

\* active_ops is the number of calls in progress on every path: each way out
\* of a call (return, error, raise before, in or after the region) gives its
\* count back exactly once, so close is neither refused for ever nor granted
\* early.
ActiveOpsExact == activeOps = Cardinality(Holders)

\* A native job runs only on an open mapping, with the frame and buffers of
\* its call still there: neither close, nor collection, nor an interrupted
\* caller takes them away under a job that works without the GVL.
NoUseAfterRelease ==
  \A c \in Callers : Reading(c) => handle = "open" /\ live[c]

\* A call answers with vectors only when its last job went through every
\* item: an interrupted job never passes for a finished one.
NoPartialAnswer ==
  \A c \in Callers : answer[c] = "ok" => failed[c] = "no" /\ rows[c] = Items

\* A job stops as cancelled only if an interrupt reached its own caller since
\* the round began, or was still to be noticed then: the flag that a signal
\* handler sets after the last row of a round, which then ends well, does not
\* leak into the next one, nor from an earlier call or another caller.
CancelNeedsInterrupt ==
  \A c \in Callers : failed[c] = "cancel" => interrupts[c] > 0

\* The open flag and the counter implement the abstract handle: a reader is
\* a holder, and the mapping is released only when nobody holds it.
Mapping == IF handle = "unopened" THEN "none"
           ELSE IF handle = "open" THEN "mapped" ELSE "released"

Handle == INSTANCE ModelHandle WITH
  mapping <- Mapping,
  holders <- Holders,
  readers <- {c \in Callers : Reading(c)}

\* Every step of the calls is a step of the abstract handle or a stutter.
ImplementsHandle == Handle!Spec

\* A raise that reaches a call ends it, however long its text is: the job
\* sees the flag at its next check and every wait on the way out ends.
InterruptedCallReturns ==
  \A c \in Callers : pend[c] = "raise" ~> pc[c] = "idle"

=============================================================================
