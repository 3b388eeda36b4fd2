-------------------------- MODULE ModelCalls_proofs --------------------------
(***************************************************************************)
(* Proofs about ModelCalls, for any finite set of callers, any number of   *)
(* items, rounds and interrupts.                                           *)
(***************************************************************************)
EXTENDS ModelCalls, FiniteSetTheorems, TLAPS

\* What the program counter says about the call in progress.
CallShape ==
  \A c \in Callers :
    /\ pc[c] = "prepare" => op[c] = "embed"
    /\ pc[c] = "convert" => op[c] = "ids"
    /\ job[c] = "work" => rows[c] < Items

\* The inductive invariant behind TypeOK and ActiveOpsExact: that the counter
\* stays a natural number needs the counter to be exact.
CountInv == TypeOK /\ CallShape /\ ActiveOpsExact

\* The counter goes along with the set of holders.
CountStep(c) ==
  \/ Holders' = Holders /\ activeOps' = activeOps
  \/ /\ c \notin Holders
     /\ Holders' = Holders \union {c}
     /\ activeOps' = activeOps + 1
  \/ /\ c \in Holders
     /\ Holders' = Holders \ {c}
     /\ activeOps' = activeOps - 1

-----------------------------------------------------------------------------

\* The holders are finitely many, so counting them is meaningful.
LEMMA HoldersFinite == IsFiniteSet(Holders) /\ IsFiniteSet(Holders')
<1>1. Holders \subseteq Callers /\ Holders' \subseteq Callers
  BY DEF Holders
<1>2. QED
  BY <1>1, CallersAssumption, FS_Subset

\* A step that moves the counter along with the holders keeps it exact.
LEMMA CountStepExact ==
  ASSUME NEW c \in Callers, activeOps \in Nat, ActiveOpsExact, CountStep(c)
  PROVE  ActiveOpsExact' /\ activeOps' \in Nat
<1>1. CASE Holders' = Holders /\ activeOps' = activeOps
  BY <1>1 DEF ActiveOpsExact
<1>2. CASE /\ c \notin Holders
           /\ Holders' = Holders \union {c}
           /\ activeOps' = activeOps + 1
  <2>1. Cardinality(Holders \union {c}) = Cardinality(Holders) + 1
    BY <1>2, HoldersFinite, FS_AddElement
  <2>2. QED
    BY <1>2, <2>1 DEF ActiveOpsExact
<1>3. CASE /\ c \in Holders
           /\ Holders' = Holders \ {c}
           /\ activeOps' = activeOps - 1
  <2>1. Cardinality(Holders \ {c}) = Cardinality(Holders) - 1
    BY <1>3, HoldersFinite, FS_RemoveElement
  <2>2. Cardinality(Holders') \in Nat
    BY HoldersFinite, FS_CardinalityType
  <2>3. QED
    BY <1>3, <2>1, <2>2 DEF ActiveOpsExact
<1>4. QED
  BY <1>1, <1>2, <1>3 DEF CountStep

\* A step of c moves the holders by c at most: what the counter does then
\* follows from whether c is counted before and after.
LEMMA HoldersLocal ==
  ASSUME NEW c \in Callers,
         \A d \in Callers \ {c} : Counted(d)' = Counted(d),
         \/ Counted(c)' = Counted(c) /\ activeOps' = activeOps
         \/ ~Counted(c) /\ Counted(c)' /\ activeOps' = activeOps + 1
         \/ Counted(c) /\ ~Counted(c)' /\ activeOps' = activeOps - 1
  PROVE  CountStep(c)
  BY DEF Holders, CountStep

-----------------------------------------------------------------------------
(* The helpers keep the types and the shape. *)

\* The bounds hold the values the actions reset counters to.
LEMMA Bounds == 1 \in 1..Rounds /\ 0 \in 0..InterruptsPerRound /\ 0 \in 0..Items /\ Items \in 0..Items
  BY BoundsAssumption

\* A fresh job is well typed.
LEMMA FreshJobType ==
  ASSUME JobTypeOK, NEW c \in Callers, NEW p \in {"none", "enter"},
         NEW t \in {"none", "thread"}, FreshJob(c, p, t)
  PROVE  JobTypeOK'
  BY Bounds DEF JobTypeOK, FreshJob, JobPhases

\* An inline job ends well typed.
LEMMA InlineJobType ==
  ASSUME JobTypeOK, NEW c \in Callers, InlineJob(c, "returned")
  PROVE  JobTypeOK'
  BY Bounds DEF JobTypeOK, InlineJob, JobPhases

\* A stopped job is well typed.
LEMMA StopType ==
  ASSUME JobTypeOK, NEW c \in Callers, NEW why \in {"no", "item", "cancel"}, Stop(c, why),
         UNCHANGED <<worker, cancelled>>
  PROVE  JobTypeOK'
  BY DEF JobTypeOK, Stop, JobPhases

\* Leaving keeps the types of the call.
LEMMA LeaveType ==
  ASSUME CallTypeOK, NEW c \in Callers, NEW how \in Answers, Leave(c, how),
         UNCHANGED handle,
         pend' \in [Callers -> {"none", "trap", "raise"}],
         UNCHANGED interrupts
  PROVE  CallTypeOK'
  BY DEF CallTypeOK, Leave, PCs

\* Going on keeps the types of the call.
LEMMA GotoType ==
  ASSUME CallTypeOK, NEW c \in Callers, NEW where \in PCs, Goto(c, where),
         UNCHANGED handle,
         pend' \in [Callers -> {"none", "trap", "raise"}],
         UNCHANGED interrupts
  PROVE  CallTypeOK'
  BY DEF CallTypeOK, Goto

-----------------------------------------------------------------------------

\* What each step of a caller c preserves besides the exactness of the count.
StepKeeps(c) ==
  /\ CallTypeOK'
  /\ JobTypeOK'
  /\ CallShape'
  /\ CountStep(c)

\* Types and count across get_model.
LEMMA BeginKeeps ==
  ASSUME TypeOK, CallShape, NEW c \in Callers, NEW o \in Ops, Begin(c, o)
  PROVE  StepKeeps(c)
<1>1. CallTypeOK' /\ JobTypeOK'
  <2>1. CASE handle = "closed"
    BY <2>1 DEF TypeOK, CallTypeOK, JobTypeOK, Begin, Answers, callVars, intVars, jobVars
  <2>2. CASE handle # "closed"
    <3>1. JobTypeOK'
      BY <2>2, FreshJobType DEF TypeOK, Begin
    <3>2. /\ pc' \in [Callers -> PCs]
          /\ live' \in [Callers -> BOOLEAN]
      <4>1. CASE o = "warmup"
        BY <2>2, <4>1 DEF TypeOK, CallTypeOK, Begin, PCs
      <4>2. CASE o # "warmup"
        BY <2>2, <4>2 DEF TypeOK, CallTypeOK, Begin, PCs
      <4>3. QED
        BY <4>1, <4>2
    <3>3. CallTypeOK'
      BY <2>2, <3>2, Bounds DEF TypeOK, CallTypeOK, Begin, Answers
    <3>4. QED
      BY <3>1, <3>3
  <2>3. QED
    BY <2>1, <2>2
<1>2. CallShape'
  BY DEF CallShape, TypeOK, CallTypeOK, JobTypeOK, Begin, FreshJob, Ops, callVars, intVars, jobVars
<1>3. CountStep(c)
  BY HoldersLocal DEF TypeOK, CallTypeOK, Begin, Counted, Ops, callVars, intVars, jobVars
<1>4. QED
  BY <1>1, <1>2, <1>3 DEF StepKeeps

\* Types and count across model_close.
LEMMA CloseKeeps ==
  ASSUME TypeOK, CallShape, NEW c \in Callers, Close(c)
  PROVE  StepKeeps(c)
<1>1. CallTypeOK'
  BY Bounds DEF TypeOK, CallTypeOK, PCs, Answers, Close, callVars, intVars, jobVars
<1>2. JobTypeOK'
  BY Bounds DEF TypeOK, JobTypeOK, JobPhases, Close, callVars, intVars, jobVars
<1>3. CallShape'
  BY DEF CallShape, TypeOK, CallTypeOK, JobTypeOK, Close, callVars, intVars, jobVars
<1>4. CountStep(c)
  BY HoldersLocal DEF CallShape, TypeOK, CallTypeOK, Counted, Close, callVars, intVars, jobVars
<1>5. QED
  BY <1>1, <1>2, <1>3, <1>4 DEF StepKeeps

\* Types and count across the argument checks.
LEMMA ArgsKeeps ==
  ASSUME TypeOK, CallShape, NEW c \in Callers, Args(c)
  PROVE  StepKeeps(c)
<1>1. CallTypeOK'
  BY Bounds DEF TypeOK, CallTypeOK, PCs, Answers, Args, Leave, InlineJob, callVars, intVars, jobVars
<1>2. JobTypeOK'
  BY InlineJobType, FreshJobType DEF TypeOK, JobTypeOK, Args, Leave, callVars, intVars, jobVars
<1>3. CallShape'
  BY DEF CallShape, TypeOK, CallTypeOK, JobTypeOK, Args, Leave, InlineJob, callVars, intVars, jobVars
<1>4. CountStep(c)
  BY HoldersLocal DEF CallShape, TypeOK, CallTypeOK, Counted, Args, Leave, InlineJob, callVars, intVars, jobVars
<1>5. QED
  BY <1>1, <1>2, <1>3, <1>4 DEF StepKeeps

\* Types and count across embed_token_ids_body before its job.
LEMMA ConvertKeeps ==
  ASSUME TypeOK, CallShape, NEW c \in Callers, Convert(c)
  PROVE  StepKeeps(c)
<1>1. CallTypeOK'
  BY Bounds DEF TypeOK, CallTypeOK, PCs, Answers, Convert, Leave, Goto, InlineJob, FreshJob, callVars, intVars, jobVars
<1>2. JobTypeOK'
  BY InlineJobType, FreshJobType DEF TypeOK, JobTypeOK, Convert, Leave, Goto, callVars, intVars, jobVars
<1>3. CallShape'
  BY DEF CallShape, TypeOK, CallTypeOK, JobTypeOK, Convert, Leave, Goto, InlineJob, FreshJob, callVars, intVars, jobVars
<1>4. CountStep(c)
  BY HoldersLocal DEF CallShape, TypeOK, CallTypeOK, Counted, Convert, Leave, Goto, InlineJob, FreshJob, callVars, intVars, jobVars
<1>5. QED
  BY <1>1, <1>2, <1>3, <1>4 DEF StepKeeps

\* Types and count across the start of a round.
LEMMA StartRoundKeeps ==
  ASSUME TypeOK, CallShape, NEW c \in Callers, StartRound(c)
  PROVE  StepKeeps(c)
<1>1. CallTypeOK'
  BY Bounds DEF TypeOK, CallTypeOK, PCs, Answers, StartRound, StartRoundWith, Leave, Goto, InlineJob, FreshJob, callVars, intVars, jobVars
<1>2. JobTypeOK'
  BY InlineJobType, FreshJobType DEF TypeOK, JobTypeOK, StartRound, StartRoundWith, Leave, Goto, callVars, intVars, jobVars
<1>3. CallShape'
  BY DEF CallShape, TypeOK, CallTypeOK, JobTypeOK, StartRound, StartRoundWith, Leave, Goto, InlineJob, FreshJob, callVars, intVars, jobVars
<1>4. CountStep(c)
  BY HoldersLocal DEF CallShape, TypeOK, CallTypeOK, Counted, StartRound, StartRoundWith, Leave, Goto, InlineJob, FreshJob, callVars, intVars, jobVars
<1>5. QED
  BY <1>1, <1>2, <1>3, <1>4 DEF StepKeeps

\* Types and count across the end of a region.
LEMMA RegionEndKeeps ==
  ASSUME TypeOK, CallShape, NEW c \in Callers, RegionEnd(c)
  PROVE  StepKeeps(c)
<1>1. CallTypeOK'
  BY Bounds DEF TypeOK, CallTypeOK, PCs, Answers, RegionEnd, RegionEndWith, Leave, Goto, callVars, intVars, jobVars
<1>2. JobTypeOK'
  BY Bounds DEF TypeOK, JobTypeOK, JobPhases, RegionEnd, RegionEndWith, Leave, Goto, callVars, intVars, jobVars
<1>3. CallShape'
  BY DEF CallShape, TypeOK, CallTypeOK, JobTypeOK, RegionEnd, RegionEndWith, Leave, Goto, callVars, intVars, jobVars
<1>4. CountStep(c)
  BY HoldersLocal DEF CallShape, TypeOK, CallTypeOK, Counted, RegionEnd, RegionEndWith, Leave, Goto, callVars, intVars, jobVars
<1>5. QED
  BY <1>1, <1>2, <1>3, <1>4 DEF StepKeeps

\* Types and count across the end of a round.
LEMMA RoundOverKeeps ==
  ASSUME TypeOK, CallShape, NEW c \in Callers, RoundOver(c)
  PROVE  StepKeeps(c)
<1>1. CallTypeOK'
  <2>1. CASE /\ UNCHANGED <<op, live, answer>> /\ round[c] < Rounds /\ round' = [round EXCEPT ![c] = @ + 1]
             /\ interrupts' = [interrupts EXCEPT ![c] = IF pend[c] = "none" THEN 0 ELSE @]
             /\ pc' = [pc EXCEPT ![c] = "prepare"]
    <3>1. round[c] + 1 \in 1..Rounds
      BY <2>1, BoundsAssumption DEF TypeOK, CallTypeOK
    <3>2. UNCHANGED <<handle, pend>>
      BY DEF RoundOver
    <3>3. interrupts' \in [Callers -> 0..InterruptsPerRound]
      BY <2>1, Bounds DEF TypeOK, CallTypeOK
    <3>4. QED
      BY <2>1, <3>1, <3>2, <3>3 DEF TypeOK, CallTypeOK, PCs
  <2>2. CASE UNCHANGED interrupts /\ \E how \in {"ok", "error", "cancelled"} : Leave(c, how)
    BY <2>2 DEF TypeOK, CallTypeOK, PCs, Answers, RoundOver, Leave
  <2>3. QED
    BY <2>1, <2>2 DEF RoundOver
<1>2. JobTypeOK'
  BY Bounds DEF TypeOK, JobTypeOK, JobPhases, RoundOver, Leave, callVars, intVars, jobVars
<1>3. CallShape'
  BY DEF CallShape, TypeOK, CallTypeOK, JobTypeOK, RoundOver, Leave, callVars, intVars, jobVars
<1>4. CountStep(c)
  BY HoldersLocal DEF CallShape, TypeOK, CallTypeOK, Counted, RoundOver, Leave, callVars, intVars, jobVars
<1>5. QED
  BY <1>1, <1>2, <1>3, <1>4 DEF StepKeeps

\* Types and count across the end of a token-id call.
LEMMA IdsOverKeeps ==
  ASSUME TypeOK, CallShape, NEW c \in Callers, IdsOver(c)
  PROVE  StepKeeps(c)
<1>1. CallTypeOK'
  BY Bounds DEF TypeOK, CallTypeOK, PCs, Answers, IdsOver, Leave, callVars, intVars, jobVars
<1>2. JobTypeOK'
  BY Bounds DEF TypeOK, JobTypeOK, JobPhases, IdsOver, Leave, callVars, intVars, jobVars
<1>3. CallShape'
  BY DEF CallShape, TypeOK, CallTypeOK, JobTypeOK, IdsOver, Leave, callVars, intVars, jobVars
<1>4. CountStep(c)
  BY HoldersLocal DEF CallShape, TypeOK, CallTypeOK, Counted, IdsOver, Leave, callVars, intVars, jobVars
<1>5. QED
  BY <1>1, <1>2, <1>3, <1>4 DEF StepKeeps

\* Types and count across the interrupted join.
LEMMA JoinRaiseKeeps ==
  ASSUME TypeOK, CallShape, NEW c \in Callers, JoinRaise(c)
  PROVE  StepKeeps(c)
<1>1. CallTypeOK'
  BY Bounds DEF TypeOK, CallTypeOK, PCs, Answers, JoinRaise, Goto
<1>2. JobTypeOK'
  BY Bounds DEF TypeOK, JobTypeOK, JobPhases, JoinRaise, Goto
<1>3. CallShape'
  BY DEF CallShape, TypeOK, CallTypeOK, JobTypeOK, JoinRaise, Goto
<1>4. CountStep(c)
  BY HoldersLocal DEF CallShape, TypeOK, CallTypeOK, Counted, JoinRaise, Goto
<1>5. QED
  BY <1>1, <1>2, <1>3, <1>4 DEF StepKeeps

\* Types and count across the second join.
LEMMA RejoinEndKeeps ==
  ASSUME TypeOK, CallShape, NEW c \in Callers, RejoinEnd(c)
  PROVE  StepKeeps(c)
<1>1. CallTypeOK'
  BY Bounds DEF TypeOK, CallTypeOK, PCs, Answers, RejoinEnd, Leave, callVars, intVars, jobVars
<1>2. JobTypeOK'
  BY Bounds DEF TypeOK, JobTypeOK, JobPhases, RejoinEnd, Leave, callVars, intVars, jobVars
<1>3. CallShape'
  BY DEF CallShape, TypeOK, CallTypeOK, JobTypeOK, RejoinEnd, Leave, callVars, intVars, jobVars
<1>4. CountStep(c)
  BY HoldersLocal DEF CallShape, TypeOK, CallTypeOK, Counted, RejoinEnd, Leave, callVars, intVars, jobVars
<1>5. QED
  BY <1>1, <1>2, <1>3, <1>4 DEF StepKeeps

\* Types and count across a signal handler.
LEMMA ServeTrapKeeps ==
  ASSUME TypeOK, CallShape, NEW c \in Callers, ServeTrap(c)
  PROVE  StepKeeps(c)
<1>1. CallTypeOK'
  BY Bounds DEF TypeOK, CallTypeOK, PCs, Answers, ServeTrap, callVars, intVars, jobVars
<1>2. JobTypeOK'
  BY Bounds DEF TypeOK, JobTypeOK, JobPhases, ServeTrap, callVars, intVars, jobVars
<1>3. CallShape'
  BY DEF CallShape, TypeOK, CallTypeOK, JobTypeOK, ServeTrap, callVars, intVars, jobVars
<1>4. CountStep(c)
  BY HoldersLocal DEF CallShape, TypeOK, CallTypeOK, Counted, ServeTrap, callVars, intVars, jobVars
<1>5. QED
  BY <1>1, <1>2, <1>3, <1>4 DEF StepKeeps

\* Types and count across a raise out of the call.
LEMMA RaiseOutKeeps ==
  ASSUME TypeOK, CallShape, NEW c \in Callers, RaiseOut(c)
  PROVE  StepKeeps(c)
<1>1. CallTypeOK'
  BY Bounds DEF TypeOK, CallTypeOK, PCs, Answers, RaiseOut, Unwind, AtCheck, Leave, callVars, intVars, jobVars
<1>2. JobTypeOK'
  BY Bounds DEF TypeOK, JobTypeOK, JobPhases, RaiseOut, Unwind, AtCheck, Leave, callVars, intVars, jobVars
<1>3. CallShape'
  BY DEF CallShape, TypeOK, CallTypeOK, JobTypeOK, RaiseOut, Unwind, AtCheck, Leave, callVars, intVars, jobVars
<1>4. CountStep(c)
  BY HoldersLocal DEF CallShape, TypeOK, CallTypeOK, Counted, RaiseOut, Unwind, AtCheck, Leave, callVars, intVars, jobVars
<1>5. QED
  BY <1>1, <1>2, <1>3, <1>4 DEF StepKeeps

\* Types and count across an interrupt.
LEMMA InterruptKeeps ==
  ASSUME TypeOK, CallShape, NEW c \in Callers, Interrupt(c)
  PROVE  StepKeeps(c)
<1>1. CallTypeOK'
  <2>1. interrupts[c] + 1 \in 0..InterruptsPerRound
    BY BoundsAssumption DEF TypeOK, CallTypeOK, Interrupt
  <2>2. PICK kind \in {"trap", "raise"} : pend' = [pend EXCEPT ![c] = kind]
    BY DEF Interrupt
  <2>3. QED
    BY <2>1, <2>2 DEF TypeOK, CallTypeOK, Interrupt, callVars
<1>2. JobTypeOK'
  BY Bounds DEF TypeOK, JobTypeOK, JobPhases, Interrupt, callVars, intVars, jobVars
<1>3. CallShape'
  BY DEF CallShape, TypeOK, CallTypeOK, JobTypeOK, Interrupt, callVars, intVars, jobVars
<1>4. CountStep(c)
  BY HoldersLocal DEF CallShape, TypeOK, CallTypeOK, Counted, Interrupt, callVars, intVars, jobVars
<1>5. QED
  BY <1>1, <1>2, <1>3, <1>4 DEF StepKeeps

\* Types and count across the entry of the region.
LEMMA EnterRegionKeeps ==
  ASSUME TypeOK, CallShape, NEW c \in Callers, EnterRegion(c)
  PROVE  StepKeeps(c)
<1>1. CallTypeOK'
  BY Bounds DEF TypeOK, CallTypeOK, PCs, Answers, EnterRegion, callVars, intVars, jobVars
<1>2. JobTypeOK'
  BY Bounds DEF TypeOK, JobTypeOK, JobPhases, EnterRegion, callVars, intVars, jobVars
<1>3. CallShape'
  BY DEF CallShape, TypeOK, CallTypeOK, JobTypeOK, EnterRegion, callVars, intVars, jobVars
<1>4. CountStep(c)
  BY HoldersLocal DEF CallShape, TypeOK, CallTypeOK, Counted, EnterRegion, callVars, intVars, jobVars
<1>5. QED
  BY <1>1, <1>2, <1>3, <1>4 DEF StepKeeps

\* Types and count across the head of the job's loop.
LEMMA NextItemKeeps ==
  ASSUME TypeOK, CallShape, NEW c \in Callers, NextItem(c)
  PROVE  StepKeeps(c)
<1>1. CallTypeOK'
  BY Bounds DEF TypeOK, CallTypeOK, PCs, Answers, NextItem, NextItemOr, Stop, callVars, intVars, jobVars
<1>2. JobTypeOK'
  BY Bounds DEF TypeOK, JobTypeOK, JobPhases, NextItem, NextItemOr, Stop, callVars, intVars, jobVars
<1>3. CallShape'
  <2>1. UNCHANGED <<pc, op>>
    BY DEF NextItem, NextItemOr, callVars
  <2>2. ASSUME NEW d \in Callers, job'[d] = "work"
        PROVE  rows'[d] < Items
    <3>1. CASE d # c
      BY <2>2, <3>1 DEF CallShape, TypeOK, JobTypeOK, NextItem, NextItemOr, Stop
    <3>2. CASE d = c
      <4>1. rows[c] # Items /\ rows' = rows
        BY <2>2, <3>2 DEF TypeOK, JobTypeOK, NextItem, NextItemOr, Stop
      <4>2. rows[c] \in 0..Items
        BY DEF TypeOK, JobTypeOK
      <4>3. QED
        BY <3>2, <4>1, <4>2, BoundsAssumption
    <3>3. QED
      BY <3>1, <3>2
  <2>3. QED
    BY <2>1, <2>2 DEF CallShape
<1>4. CountStep(c)
  BY HoldersLocal DEF CallShape, TypeOK, CallTypeOK, Counted, NextItem, NextItemOr, Stop, callVars, intVars, jobVars
<1>5. QED
  BY <1>1, <1>2, <1>3, <1>4 DEF StepKeeps

\* Types and count across a finished item.
LEMMA ItemDoneKeeps ==
  ASSUME TypeOK, CallShape, NEW c \in Callers, ItemDone(c)
  PROVE  StepKeeps(c)
<1>1. CallTypeOK'
  BY Bounds DEF TypeOK, CallTypeOK, PCs, Answers, ItemDone, callVars, intVars, jobVars
<1>2. JobTypeOK'
  <2>1. rows[c] + 1 \in 0..Items
    BY BoundsAssumption DEF TypeOK, JobTypeOK, CallShape, ItemDone
  <2>2. QED
    BY <2>1 DEF TypeOK, JobTypeOK, JobPhases, ItemDone
<1>3. CallShape'
  BY DEF CallShape, TypeOK, CallTypeOK, JobTypeOK, ItemDone, callVars, intVars, jobVars
<1>4. CountStep(c)
  BY HoldersLocal DEF CallShape, TypeOK, CallTypeOK, Counted, ItemDone, callVars, intVars, jobVars
<1>5. QED
  BY <1>1, <1>2, <1>3, <1>4 DEF StepKeeps

\* Types and count across a failing item.
LEMMA ItemFailsKeeps ==
  ASSUME TypeOK, CallShape, NEW c \in Callers, ItemFails(c)
  PROVE  StepKeeps(c)
<1>1. CallTypeOK'
  BY Bounds DEF TypeOK, CallTypeOK, PCs, Answers, ItemFails, Stop, callVars, intVars, jobVars
<1>2. JobTypeOK'
  BY Bounds DEF TypeOK, JobTypeOK, JobPhases, ItemFails, Stop, callVars, intVars, jobVars
<1>3. CallShape'
  BY DEF CallShape, TypeOK, CallTypeOK, JobTypeOK, ItemFails, Stop, callVars, intVars, jobVars
<1>4. CountStep(c)
  BY HoldersLocal DEF CallShape, TypeOK, CallTypeOK, Counted, ItemFails, Stop, callVars, intVars, jobVars
<1>5. QED
  BY <1>1, <1>2, <1>3, <1>4 DEF StepKeeps

\* Types and count across a cancelled item.
LEMMA ItemCancelledKeeps ==
  ASSUME TypeOK, CallShape, NEW c \in Callers, ItemCancelled(c)
  PROVE  StepKeeps(c)
<1>1. CallTypeOK'
  BY Bounds DEF TypeOK, CallTypeOK, PCs, Answers, ItemCancelled, FlagSeen, Stop, callVars, intVars, jobVars
<1>2. JobTypeOK'
  BY Bounds DEF TypeOK, JobTypeOK, JobPhases, ItemCancelled, FlagSeen, Stop, callVars, intVars, jobVars
<1>3. CallShape'
  BY DEF CallShape, TypeOK, CallTypeOK, JobTypeOK, ItemCancelled, FlagSeen, Stop, callVars, intVars, jobVars
<1>4. CountStep(c)
  BY HoldersLocal DEF CallShape, TypeOK, CallTypeOK, Counted, ItemCancelled, FlagSeen, Stop, callVars, intVars, jobVars
<1>5. QED
  BY <1>1, <1>2, <1>3, <1>4 DEF StepKeeps

\* Types and count across the end of the worker thread.
LEMMA WorkerExitsKeeps ==
  ASSUME TypeOK, CallShape, NEW c \in Callers, WorkerExits(c)
  PROVE  StepKeeps(c)
<1>1. CallTypeOK'
  BY Bounds DEF TypeOK, CallTypeOK, PCs, Answers, WorkerExits, callVars, intVars, jobVars
<1>2. JobTypeOK'
  BY Bounds DEF TypeOK, JobTypeOK, JobPhases, WorkerExits, callVars, intVars, jobVars
<1>3. CallShape'
  BY DEF CallShape, TypeOK, CallTypeOK, JobTypeOK, WorkerExits, callVars, intVars, jobVars
<1>4. CountStep(c)
  BY HoldersLocal DEF CallShape, TypeOK, CallTypeOK, Counted, WorkerExits, callVars, intVars, jobVars
<1>5. QED
  BY <1>1, <1>2, <1>3, <1>4 DEF StepKeeps

-----------------------------------------------------------------------------
(* The count is exact. *)

\* The steps of one caller, case by case.
LEMMA CallersKeep ==
  ASSUME TypeOK, CallShape, NEW c \in Callers,
         CallerStep(c) \/ Interrupt(c) \/ JobStep(c)
  PROVE  StepKeeps(c)
<1>1. CASE Close(c) \/ \E o \in Ops : Begin(c, o)
  BY <1>1, CloseKeeps, BeginKeeps
<1>2. CASE Proceed(c)
  BY <1>2, ArgsKeeps, ConvertKeeps, StartRoundKeeps, RegionEndKeeps, RoundOverKeeps,
     IdsOverKeeps, JoinRaiseKeeps, RejoinEndKeeps, ServeTrapKeeps, RaiseOutKeeps,
     EnterRegionKeeps, WorkerExitsKeeps
  DEF Proceed
<1>3. CASE Interrupt(c)
  BY <1>3, InterruptKeeps
<1>4. CASE JobStep(c)
  BY <1>4, NextItemKeeps, ItemDoneKeeps, ItemFailsKeeps, ItemCancelledKeeps DEF JobStep
<1>5. QED
  BY <1>1, <1>2, <1>3, <1>4 DEF CallerStep

\* A step that changes the handle only leaves the calls and the count alone.
LEMMA HandleOnly ==
  ASSUME CountInv, handle' \in {"unopened", "open", "closed", "freed"},
         UNCHANGED <<activeOps, callVars, intVars, jobVars>>
  PROVE  CountInv'
<1>1. TypeOK'
  BY DEF CountInv, TypeOK, CallTypeOK, JobTypeOK, callVars, intVars, jobVars
<1>2. CallShape'
  BY DEF CountInv, CallShape, callVars, jobVars
<1>3. Holders' = Holders
  BY DEF Holders, Counted, callVars
<1>4. QED
  BY <1>1, <1>2, <1>3 DEF CountInv, ActiveOpsExact

\* The count survives every step.
LEMMA CountInductive == CountInv /\ [Next]_vars => CountInv'
<1> SUFFICES ASSUME CountInv, [Next]_vars PROVE CountInv'
  OBVIOUS
<1>1. CASE Open \/ Collect \/ UNCHANGED vars
  BY <1>1, HandleOnly DEF CountInv, TypeOK, CallTypeOK, Open, Collect, vars
<1>2. ASSUME NEW c \in Callers, CallerStep(c) \/ Interrupt(c) \/ JobStep(c)
      PROVE  CountInv'
  <2>1. StepKeeps(c)
    BY <1>2, CallersKeep DEF CountInv
  <2>2. ActiveOpsExact' /\ activeOps' \in Nat
    BY <2>1, CountStepExact DEF CountInv, TypeOK, StepKeeps
  <2>3. QED
    BY <2>1, <2>2 DEF CountInv, TypeOK, StepKeeps
<1>3. QED
  BY <1>1, <1>2 DEF Next

\* Initially nobody is counted.
LEMMA CountInit == Init => CountInv
<1> SUFFICES ASSUME Init PROVE CountInv
  OBVIOUS
<1>1. TypeOK
  BY Bounds DEF Init, TypeOK, CallTypeOK, JobTypeOK, PCs, Ops, Answers, JobPhases
<1>2. CallShape
  BY DEF Init, CallShape
<1>3. Holders = {}
  BY DEF Init, Holders, Counted
<1>4. QED
  BY <1>1, <1>2, <1>3, FS_EmptySet DEF CountInv, ActiveOpsExact, Init

\* So the count is exact in every state.
LEMMA CountAlways == Spec => []CountInv
  BY CountInit, CountInductive, PTL DEF Spec

\* Every variable keeps its type; in particular active_ops, an unsigned int
\* that every ensure handler decrements, never goes below zero.
THEOREM TypeCorrect == Spec => []TypeOK
<1>1. CountInv => TypeOK
  BY DEF CountInv
<1>2. QED
  BY <1>1, CountAlways, PTL

\* active_ops is the number of calls in progress, whatever the interleaving
\* of callers, jobs and interrupts: no way out of a call forgets its count or
\* gives it back twice.
THEOREM CountExact == Spec => []ActiveOpsExact
<1>1. CountInv => ActiveOpsExact
  BY DEF CountInv
<1>2. QED
  BY <1>1, CountAlways, PTL

-----------------------------------------------------------------------------
(* No use after release. *)

\* At most one interrupt reaches a round of a call, and converting arguments runs no Ruby
\* code. Without either the property fails, as the runs second_interrupt and
\* arg_callback show.
Calm == InterruptsPerRound <= 1 /\ ~ArgCallbacks

\* A job that may run belongs to a caller that waits for it; a caller that
\* holds the model, or is on the way to it, has it open; and the thread that
\* joins a killed worker has used up its interrupt.
SafeAt(c) ==
  /\ job[c] \in {"enter", "check", "work"} => pc[c] \in {"region", "join", "rejoin"}
  /\ pc[c] \in {"args", "convert", "prepare"} => handle = "open"
  /\ Counted(c) => handle = "open"
  /\ pc[c] \notin {"idle", "args"} => live[c]
  /\ pend[c] # "none" /\ pc[c] # "idle" => interrupts[c] >= 1
  /\ pc[c] = "rejoin" => pend[c] = "none" /\ interrupts[c] >= 1

SafeInv == \A c \in Callers : SafeAt(c)

\* A step of c leaves the others as they are.
Frame(c) ==
  \A d \in Callers \ {c} :
    /\ pc'[d] = pc[d] /\ op'[d] = op[d] /\ live'[d] = live[d] /\ job'[d] = job[d]
    /\ pend'[d] = pend[d] /\ interrupts'[d] = interrupts[d]

\* What it takes to check for a step that does not touch the handle.
StepSafe(c) == UNCHANGED handle /\ Frame(c) /\ SafeAt(c)'

\* A step that touches nothing the invariant reads keeps it.
LEMMA StepSafeKeeps ==
  ASSUME SafeInv, NEW c \in Callers, StepSafe(c)
  PROVE  SafeInv'
<1>1. ASSUME NEW d \in Callers \ {c} PROVE SafeAt(d)'
  BY <1>1 DEF SafeInv, SafeAt, StepSafe, Frame, Counted
<1>2. QED
  BY <1>1 DEF SafeInv, StepSafe

\* The safety invariant across the argument checks.
LEMMA ArgsSafe ==
  ASSUME TypeOK, CallShape, SafeInv, Calm, NEW c \in Callers, Args(c)
  PROVE  StepSafe(c)
<1>1. UNCHANGED handle /\ Frame(c)
  BY DEF TypeOK, CallTypeOK, JobTypeOK, Frame, Args, Leave, InlineJob, callVars, intVars, jobVars
<1>2. SafeAt(c)'
  BY DEF TypeOK, CallTypeOK, JobTypeOK, CallShape, Calm, SafeInv, SafeAt, Counted, Args, Leave, InlineJob, callVars, intVars, jobVars
<1>3. QED
  BY <1>1, <1>2 DEF StepSafe

\* The safety invariant across embed_token_ids_body before its job.
LEMMA ConvertSafe ==
  ASSUME TypeOK, CallShape, SafeInv, Calm, NEW c \in Callers, Convert(c)
  PROVE  StepSafe(c)
<1>1. UNCHANGED handle /\ Frame(c)
  BY DEF TypeOK, CallTypeOK, JobTypeOK, Frame, Convert, Leave, Goto, InlineJob, FreshJob, callVars, intVars, jobVars
<1>2. SafeAt(c)'
  BY DEF TypeOK, CallTypeOK, JobTypeOK, CallShape, Calm, SafeInv, SafeAt, Counted, Convert, Leave, Goto, InlineJob, FreshJob, callVars, intVars, jobVars
<1>3. QED
  BY <1>1, <1>2 DEF StepSafe

\* The safety invariant across the start of a round.
LEMMA StartRoundSafe ==
  ASSUME TypeOK, CallShape, SafeInv, Calm, NEW c \in Callers, StartRound(c)
  PROVE  StepSafe(c)
<1>1. UNCHANGED handle /\ Frame(c)
  BY DEF TypeOK, CallTypeOK, JobTypeOK, Frame, StartRound, StartRoundWith, Leave, Goto, InlineJob, FreshJob, callVars, intVars, jobVars
<1>2. SafeAt(c)'
  BY DEF TypeOK, CallTypeOK, JobTypeOK, CallShape, Calm, SafeInv, SafeAt, Counted, StartRound, StartRoundWith, Leave, Goto, InlineJob, FreshJob, callVars, intVars, jobVars
<1>3. QED
  BY <1>1, <1>2 DEF StepSafe

\* The safety invariant across the end of a region.
LEMMA RegionEndSafe ==
  ASSUME TypeOK, CallShape, SafeInv, Calm, NEW c \in Callers, RegionEnd(c)
  PROVE  StepSafe(c)
<1>1. UNCHANGED handle /\ Frame(c)
  BY DEF TypeOK, CallTypeOK, JobTypeOK, Frame, RegionEnd, RegionEndWith, Leave, Goto, callVars, intVars, jobVars
<1>2. SafeAt(c)'
  BY DEF TypeOK, CallTypeOK, JobTypeOK, CallShape, Calm, SafeInv, SafeAt, Counted, RegionEnd, RegionEndWith, Leave, Goto, callVars, intVars, jobVars
<1>3. QED
  BY <1>1, <1>2 DEF StepSafe

\* The safety invariant across the end of a round.
LEMMA RoundOverSafe ==
  ASSUME TypeOK, CallShape, SafeInv, Calm, NEW c \in Callers, RoundOver(c)
  PROVE  StepSafe(c)
<1>1. UNCHANGED handle /\ Frame(c)
  BY DEF TypeOK, CallTypeOK, JobTypeOK, Frame, RoundOver, Leave, callVars, intVars, jobVars
<1>2. SafeAt(c)'
  BY DEF TypeOK, CallTypeOK, JobTypeOK, CallShape, Calm, SafeInv, SafeAt, Counted, RoundOver, Leave, callVars, intVars, jobVars
<1>3. QED
  BY <1>1, <1>2 DEF StepSafe

\* The safety invariant across the end of a token-id call.
LEMMA IdsOverSafe ==
  ASSUME TypeOK, CallShape, SafeInv, Calm, NEW c \in Callers, IdsOver(c)
  PROVE  StepSafe(c)
<1>1. UNCHANGED handle /\ Frame(c)
  BY DEF TypeOK, CallTypeOK, JobTypeOK, Frame, IdsOver, Leave, callVars, intVars, jobVars
<1>2. SafeAt(c)'
  BY DEF TypeOK, CallTypeOK, JobTypeOK, CallShape, Calm, SafeInv, SafeAt, Counted, IdsOver, Leave, callVars, intVars, jobVars
<1>3. QED
  BY <1>1, <1>2 DEF StepSafe

\* The safety invariant across the interrupted join.
LEMMA JoinRaiseSafe ==
  ASSUME TypeOK, CallShape, SafeInv, Calm, NEW c \in Callers, JoinRaise(c)
  PROVE  StepSafe(c)
<1>1. UNCHANGED handle /\ Frame(c)
  BY DEF TypeOK, CallTypeOK, JobTypeOK, Frame, JoinRaise, Goto
<1>2. SafeAt(c)'
  BY DEF TypeOK, CallTypeOK, JobTypeOK, CallShape, Calm, SafeInv, SafeAt, Counted, JoinRaise, Goto
<1>3. QED
  BY <1>1, <1>2 DEF StepSafe

\* The safety invariant across the second join.
LEMMA RejoinEndSafe ==
  ASSUME TypeOK, CallShape, SafeInv, Calm, NEW c \in Callers, RejoinEnd(c)
  PROVE  StepSafe(c)
<1>1. UNCHANGED handle /\ Frame(c)
  BY DEF TypeOK, CallTypeOK, JobTypeOK, Frame, RejoinEnd, Leave, callVars, intVars, jobVars
<1>2. SafeAt(c)'
  BY DEF TypeOK, CallTypeOK, JobTypeOK, CallShape, Calm, SafeInv, SafeAt, Counted, RejoinEnd, Leave, callVars, intVars, jobVars
<1>3. QED
  BY <1>1, <1>2 DEF StepSafe

\* The safety invariant across a signal handler.
LEMMA ServeTrapSafe ==
  ASSUME TypeOK, CallShape, SafeInv, Calm, NEW c \in Callers, ServeTrap(c)
  PROVE  StepSafe(c)
<1>1. UNCHANGED handle /\ Frame(c)
  BY DEF TypeOK, CallTypeOK, JobTypeOK, Frame, ServeTrap, callVars, intVars, jobVars
<1>2. SafeAt(c)'
  BY DEF TypeOK, CallTypeOK, JobTypeOK, CallShape, Calm, SafeInv, SafeAt, Counted, ServeTrap, callVars, intVars, jobVars
<1>3. QED
  BY <1>1, <1>2 DEF StepSafe

\* The safety invariant across a raise out of the call.
LEMMA RaiseOutSafe ==
  ASSUME TypeOK, CallShape, SafeInv, Calm, NEW c \in Callers, RaiseOut(c)
  PROVE  StepSafe(c)
<1>1. UNCHANGED handle /\ Frame(c)
  BY DEF TypeOK, CallTypeOK, JobTypeOK, Frame, RaiseOut, Unwind, AtCheck, Leave, callVars, intVars, jobVars
<1>2. SafeAt(c)'
  BY DEF TypeOK, CallTypeOK, JobTypeOK, CallShape, Calm, SafeInv, SafeAt, Counted, RaiseOut, Unwind, AtCheck, Leave, callVars, intVars, jobVars
<1>3. QED
  BY <1>1, <1>2 DEF StepSafe

\* The safety invariant across the entry of the region.
LEMMA EnterRegionSafe ==
  ASSUME TypeOK, CallShape, SafeInv, Calm, NEW c \in Callers, EnterRegion(c)
  PROVE  StepSafe(c)
<1>1. UNCHANGED handle /\ Frame(c)
  BY DEF TypeOK, CallTypeOK, JobTypeOK, Frame, EnterRegion, callVars, intVars, jobVars
<1>2. SafeAt(c)'
  BY DEF TypeOK, CallTypeOK, JobTypeOK, CallShape, Calm, SafeInv, SafeAt, Counted, EnterRegion, callVars, intVars, jobVars
<1>3. QED
  BY <1>1, <1>2 DEF StepSafe

\* The safety invariant across the head of the job's loop.
LEMMA NextItemSafe ==
  ASSUME TypeOK, CallShape, SafeInv, Calm, NEW c \in Callers, NextItem(c)
  PROVE  StepSafe(c)
<1>1. UNCHANGED handle /\ Frame(c)
  BY DEF TypeOK, CallTypeOK, JobTypeOK, Frame, NextItem, NextItemOr, Stop, callVars, intVars, jobVars
<1>2. SafeAt(c)'
  BY DEF TypeOK, CallTypeOK, JobTypeOK, CallShape, Calm, SafeInv, SafeAt, Counted, NextItem, NextItemOr, Stop, callVars, intVars, jobVars
<1>3. QED
  BY <1>1, <1>2 DEF StepSafe

\* The safety invariant across a finished item.
LEMMA ItemDoneSafe ==
  ASSUME TypeOK, CallShape, SafeInv, Calm, NEW c \in Callers, ItemDone(c)
  PROVE  StepSafe(c)
<1>1. UNCHANGED handle /\ Frame(c)
  BY DEF TypeOK, CallTypeOK, JobTypeOK, Frame, ItemDone, callVars, intVars, jobVars
<1>2. SafeAt(c)'
  BY DEF TypeOK, CallTypeOK, JobTypeOK, CallShape, Calm, SafeInv, SafeAt, Counted, ItemDone, callVars, intVars, jobVars
<1>3. QED
  BY <1>1, <1>2 DEF StepSafe

\* The safety invariant across a failing item.
LEMMA ItemFailsSafe ==
  ASSUME TypeOK, CallShape, SafeInv, Calm, NEW c \in Callers, ItemFails(c)
  PROVE  StepSafe(c)
<1>1. UNCHANGED handle /\ Frame(c)
  BY DEF TypeOK, CallTypeOK, JobTypeOK, Frame, ItemFails, Stop, callVars, intVars, jobVars
<1>2. SafeAt(c)'
  BY DEF TypeOK, CallTypeOK, JobTypeOK, CallShape, Calm, SafeInv, SafeAt, Counted, ItemFails, Stop, callVars, intVars, jobVars
<1>3. QED
  BY <1>1, <1>2 DEF StepSafe

\* The safety invariant across a cancelled item.
LEMMA ItemCancelledSafe ==
  ASSUME TypeOK, CallShape, SafeInv, Calm, NEW c \in Callers, ItemCancelled(c)
  PROVE  StepSafe(c)
<1>1. UNCHANGED handle /\ Frame(c)
  BY DEF TypeOK, CallTypeOK, JobTypeOK, Frame, ItemCancelled, FlagSeen, Stop, callVars, intVars, jobVars
<1>2. SafeAt(c)'
  BY DEF TypeOK, CallTypeOK, JobTypeOK, CallShape, Calm, SafeInv, SafeAt, Counted, ItemCancelled, FlagSeen, Stop, callVars, intVars, jobVars
<1>3. QED
  BY <1>1, <1>2 DEF StepSafe

\* The safety invariant across the end of the worker thread.
LEMMA WorkerExitsSafe ==
  ASSUME TypeOK, CallShape, SafeInv, Calm, NEW c \in Callers, WorkerExits(c)
  PROVE  StepSafe(c)
<1>1. UNCHANGED handle /\ Frame(c)
  BY DEF TypeOK, CallTypeOK, JobTypeOK, Frame, WorkerExits, callVars, intVars, jobVars
<1>2. SafeAt(c)'
  BY DEF TypeOK, CallTypeOK, JobTypeOK, CallShape, Calm, SafeInv, SafeAt, Counted, WorkerExits, callVars, intVars, jobVars
<1>3. QED
  BY <1>1, <1>2 DEF StepSafe

\* The safety invariant across an interrupt.
LEMMA InterruptSafe ==
  ASSUME TypeOK, SafeInv, Calm, NEW c \in Callers, Interrupt(c)
  PROVE  StepSafe(c)
<1>1. UNCHANGED <<handle, pc, op, live, job>>
  BY DEF Interrupt, callVars
<1>2. interrupts' = [interrupts EXCEPT ![c] = @ + 1] /\ interrupts[c] \in Nat
  BY BoundsAssumption DEF Interrupt, TypeOK, CallTypeOK
<1>3. PICK kind \in {"trap", "raise"} : pend' = [pend EXCEPT ![c] = kind]
  BY DEF Interrupt
<1>4. Frame(c)
  BY <1>1, <1>2, <1>3 DEF Frame, TypeOK, CallTypeOK
<1>5. interrupts'[c] >= 1
  BY <1>2 DEF TypeOK, CallTypeOK
<1>6. pc[c] # "rejoin"
  BY <1>2, BoundsAssumption DEF SafeInv, SafeAt, Calm, Interrupt
<1>7. SafeAt(c)'
  BY <1>1, <1>5, <1>6 DEF SafeInv, SafeAt, Counted
<1>8. QED
  BY <1>1, <1>4, <1>7 DEF StepSafe

\* The safety invariant across get_model.
LEMMA BeginSafe ==
  ASSUME TypeOK, SafeInv, Calm, NEW c \in Callers, NEW o \in Ops, Begin(c, o)
  PROVE  StepSafe(c)
<1>1. CASE handle = "closed"
  BY <1>1 DEF SafeInv, SafeAt, StepSafe, Frame, Counted, Begin, callVars, intVars, jobVars
<1>2. CASE handle # "closed" /\ o = "warmup"
  BY <1>2 DEF TypeOK, CallTypeOK, JobTypeOK, SafeInv, SafeAt, StepSafe, Frame, Counted, Begin, FreshJob
<1>3. CASE handle # "closed" /\ o # "warmup"
  BY <1>3 DEF TypeOK, CallTypeOK, JobTypeOK, SafeInv, SafeAt, StepSafe, Frame, Counted, Begin, FreshJob
<1>4. QED
  BY <1>1, <1>2, <1>3

\* Opening or closing: nobody is in the middle of anything that needs the
\* model when close finds the count at zero.
LEMMA CloseSafe ==
  ASSUME CountInv, SafeInv, Calm, NEW c \in Callers, Close(c), GvlFree(c)
  PROVE  SafeInv'
<1>1. UNCHANGED <<pc, op, live, job, pend, interrupts>>
  BY DEF Close, intVars, jobVars
<1>2. CASE activeOps # 0
  BY <1>1, <1>2 DEF Close, SafeInv, SafeAt, Counted
<1>3. CASE activeOps = 0
  <2>1. Holders = {}
    BY <1>3, HoldersFinite, FS_EmptySet DEF CountInv, ActiveOpsExact
  <2>2. \A d \in Callers : ~Counted(d)
    BY <2>1 DEF Holders
  <2>3. \A d \in Callers : pc[d] \notin {"args", "convert", "prepare"}
    BY DEF Close, GvlFree, Calm
  <2>4. QED
    BY <1>1, <2>2, <2>3 DEF SafeInv, SafeAt, Counted
<1>4. QED
  BY <1>2, <1>3

\* The safety invariant across opening and collection.
LEMMA OpenCollectSafe ==
  ASSUME SafeInv, Open \/ Collect
  PROVE  SafeInv'
<1>1. UNCHANGED <<pc, op, live, job, pend, interrupts>>
  BY DEF Open, Collect, callVars, intVars, jobVars
<1>2. CASE Open
  BY <1>1, <1>2 DEF Open, SafeInv, SafeAt, Counted
<1>3. CASE Collect
  BY <1>1, <1>3 DEF Collect, SafeInv, SafeAt, Counted
<1>4. QED
  BY <1>2, <1>3

\* The safety invariant across the steps of a caller.
LEMMA CallersSafe ==
  ASSUME CountInv, SafeInv, Calm, NEW c \in Callers,
         CallerStep(c) \/ Interrupt(c) \/ JobStep(c)
  PROVE  SafeInv'
<1> USE DEF CountInv
<1>1. CASE GvlFree(c) /\ Close(c)
  BY <1>1, CloseSafe
<1>2. CASE \E o \in Ops : Begin(c, o)
  BY <1>2, BeginSafe, StepSafeKeeps
<1>3. CASE Proceed(c)
  <2>1. StepSafe(c)
    BY <1>3, ArgsSafe, ConvertSafe, StartRoundSafe, RegionEndSafe, RoundOverSafe,
       IdsOverSafe, JoinRaiseSafe, RejoinEndSafe, ServeTrapSafe, RaiseOutSafe,
       EnterRegionSafe, WorkerExitsSafe
    DEF Proceed
  <2>2. QED
    BY <2>1, StepSafeKeeps
<1>4. CASE Interrupt(c) \/ JobStep(c)
  <2>1. StepSafe(c)
    BY <1>4, InterruptSafe, NextItemSafe, ItemDoneSafe, ItemFailsSafe, ItemCancelledSafe
    DEF JobStep
  <2>2. QED
    BY <2>1, StepSafeKeeps
<1>5. QED
  BY <1>1, <1>2, <1>3, <1>4 DEF CallerStep

\* The safety invariant survives every step.
LEMMA SafeInductive == Calm /\ CountInv /\ SafeInv /\ [Next]_vars => SafeInv'
<1> SUFFICES ASSUME Calm, CountInv, SafeInv, [Next]_vars PROVE SafeInv'
  OBVIOUS
<1>1. CASE Open \/ Collect
  BY <1>1, OpenCollectSafe
<1>2. CASE UNCHANGED vars
  BY <1>2 DEF SafeInv, SafeAt, Counted, vars, callVars, intVars, jobVars
<1>3. ASSUME NEW c \in Callers, CallerStep(c) \/ Interrupt(c) \/ JobStep(c)
      PROVE  SafeInv'
  BY <1>3, CallersSafe
<1>4. QED
  BY <1>1, <1>2, <1>3 DEF Next

\* So it holds in every state of a calm system.
LEMMA SafeAlways == ASSUME Calm PROVE Spec => []SafeInv
<1>1. Init => SafeInv
  BY DEF Init, SafeInv, SafeAt, Counted
<1>2. CountInv /\ SafeInv /\ [Next]_vars => SafeInv'
  BY SafeInductive
<1>3. QED
  BY <1>1, <1>2, CountAlways, PTL DEF Spec

\* While a job works outside the GVL its mapping stays open and its call's
\* frame and buffers stay allocated, for any number of callers.
THEOREM NoUseAfterReleaseHolds == ASSUME Calm PROVE Spec => []NoUseAfterRelease
<1>1. SafeInv => NoUseAfterRelease
  BY DEF SafeInv, SafeAt, NoUseAfterRelease, Reading, Counted
<1>2. QED
  BY <1>1, SafeAlways, PTL

-----------------------------------------------------------------------------
(* The refinement. *)

\* How a step of c that keeps the mapping may change c's standing: not at
\* all, hold, drop, or start or stop reading as a holder.
Moves(c) ==
  \/ Counted(c)' = Counted(c) /\ Reading(c)' = Reading(c)
  \/ /\ Mapping = "mapped"
     /\ ~Counted(c) /\ Counted(c)' /\ Reading(c)' = Reading(c)
  \/ Counted(c) /\ ~Counted(c)' /\ ~Reading(c) /\ ~Reading(c)'
  \/ Counted(c) /\ Counted(c)' /\ Reading(c)' # Reading(c)

\* Each of those is a step of the abstract handle, or a stutter.
LEMMA HandleStep ==
  ASSUME NEW c \in Callers, UNCHANGED handle, Frame(c), Moves(c)
  PROVE  [Handle!Next]_Handle!vars
<1> DEFINE R == {d \in Callers : Reading(d)}
<1>0. UNCHANGED Mapping
  BY DEF Mapping
<1>1. \A d \in Callers \ {c} : Counted(d)' = Counted(d) /\ Reading(d)' = Reading(d)
  BY DEF Frame, Counted, Reading
<1>2. CASE Counted(c)' = Counted(c) /\ Reading(c)' = Reading(c)
  <2>1. Holders' = Holders /\ R' = R
    BY <1>1, <1>2 DEF Holders
  <2>2. QED
    BY <1>0, <2>1 DEF Handle!vars
<1>3. CASE /\ Mapping = "mapped"
           /\ ~Counted(c) /\ Counted(c)' /\ Reading(c)' = Reading(c)
  <2>1. Holders' = Holders \union {c} /\ R' = R /\ c \notin Holders
    BY <1>1, <1>3 DEF Holders
  <2>2. QED
    BY <1>0, <1>3, <2>1 DEF Handle!Next, Handle!Hold
<1>4. CASE Counted(c) /\ ~Counted(c)' /\ ~Reading(c) /\ ~Reading(c)'
  <2>1. Holders' = Holders \ {c} /\ R' = R /\ c \in Holders \ R
    BY <1>1, <1>4 DEF Holders
  <2>2. QED
    BY <1>0, <2>1 DEF Handle!Next, Handle!Drop
<1>5. CASE Counted(c) /\ Counted(c)' /\ Reading(c)' /\ ~Reading(c)
  <2>1. Holders' = Holders /\ R' = R \union {c} /\ c \in Holders \ R
    BY <1>1, <1>5 DEF Holders
  <2>2. QED
    BY <1>0, <2>1 DEF Handle!Next, Handle!StartReading
<1>6. CASE Counted(c) /\ Counted(c)' /\ ~Reading(c)' /\ Reading(c)
  <2>1. Holders' = Holders /\ R' = R \ {c} /\ c \in R
    BY <1>1, <1>6 DEF Holders
  <2>2. QED
    BY <1>0, <2>1 DEF Handle!Next, Handle!StopReading
<1>7. Reading(c) \in BOOLEAN /\ Reading(c)' \in BOOLEAN
  BY DEF Reading
<1>8. QED
  BY <1>2, <1>3, <1>4, <1>5, <1>6, <1>7 DEF Moves

\* What the argument checks does to the abstract handle.
LEMMA ArgsMoves ==
  ASSUME TypeOK, CallShape, SafeInv, Calm, NEW c \in Callers, Args(c)
  PROVE  Moves(c)
  BY DEF TypeOK, CallTypeOK, JobTypeOK, CallShape, SafeInv, SafeAt, Calm, Moves, Mapping,
         Counted, Reading, Args, Leave, InlineJob, callVars, intVars, jobVars

\* What embed_token_ids_body before its job does to the abstract handle.
LEMMA ConvertMoves ==
  ASSUME TypeOK, CallShape, SafeInv, Calm, NEW c \in Callers, Convert(c)
  PROVE  Moves(c)
  BY DEF TypeOK, CallTypeOK, JobTypeOK, CallShape, SafeInv, SafeAt, Calm, Moves, Mapping,
         Counted, Reading, Convert, Leave, Goto, InlineJob, FreshJob, callVars, intVars, jobVars

\* What the start of a round does to the abstract handle.
LEMMA StartRoundMoves ==
  ASSUME TypeOK, CallShape, SafeInv, Calm, NEW c \in Callers, StartRound(c)
  PROVE  Moves(c)
  BY DEF TypeOK, CallTypeOK, JobTypeOK, CallShape, SafeInv, SafeAt, Calm, Moves, Mapping,
         Counted, Reading, StartRound, StartRoundWith, Leave, Goto, InlineJob, FreshJob, callVars, intVars, jobVars

\* What the end of a region does to the abstract handle.
LEMMA RegionEndMoves ==
  ASSUME TypeOK, CallShape, SafeInv, Calm, NEW c \in Callers, RegionEnd(c)
  PROVE  Moves(c)
  BY DEF TypeOK, CallTypeOK, JobTypeOK, CallShape, SafeInv, SafeAt, Calm, Moves, Mapping,
         Counted, Reading, RegionEnd, RegionEndWith, Leave, Goto, callVars, intVars, jobVars

\* What the end of a round does to the abstract handle.
LEMMA RoundOverMoves ==
  ASSUME TypeOK, CallShape, SafeInv, Calm, NEW c \in Callers, RoundOver(c)
  PROVE  Moves(c)
  BY DEF TypeOK, CallTypeOK, JobTypeOK, CallShape, SafeInv, SafeAt, Calm, Moves, Mapping,
         Counted, Reading, RoundOver, Leave, callVars, intVars, jobVars

\* What the end of a token-id call does to the abstract handle.
LEMMA IdsOverMoves ==
  ASSUME TypeOK, CallShape, SafeInv, Calm, NEW c \in Callers, IdsOver(c)
  PROVE  Moves(c)
  BY DEF TypeOK, CallTypeOK, JobTypeOK, CallShape, SafeInv, SafeAt, Calm, Moves, Mapping,
         Counted, Reading, IdsOver, Leave, callVars, intVars, jobVars

\* What the interrupted join does to the abstract handle.
LEMMA JoinRaiseMoves ==
  ASSUME TypeOK, CallShape, SafeInv, Calm, NEW c \in Callers, JoinRaise(c)
  PROVE  Moves(c)
  BY DEF TypeOK, CallTypeOK, JobTypeOK, CallShape, SafeInv, SafeAt, Calm, Moves, Mapping,
         Counted, Reading, JoinRaise, Goto

\* What the second join does to the abstract handle.
LEMMA RejoinEndMoves ==
  ASSUME TypeOK, CallShape, SafeInv, Calm, NEW c \in Callers, RejoinEnd(c)
  PROVE  Moves(c)
  BY DEF TypeOK, CallTypeOK, JobTypeOK, CallShape, SafeInv, SafeAt, Calm, Moves, Mapping,
         Counted, Reading, RejoinEnd, Leave, callVars, intVars, jobVars

\* What a signal handler does to the abstract handle.
LEMMA ServeTrapMoves ==
  ASSUME TypeOK, CallShape, SafeInv, Calm, NEW c \in Callers, ServeTrap(c)
  PROVE  Moves(c)
  BY DEF TypeOK, CallTypeOK, JobTypeOK, CallShape, SafeInv, SafeAt, Calm, Moves, Mapping,
         Counted, Reading, ServeTrap, callVars, intVars, jobVars

\* What a raise out of the call does to the abstract handle.
LEMMA RaiseOutMoves ==
  ASSUME TypeOK, CallShape, SafeInv, Calm, NEW c \in Callers, RaiseOut(c)
  PROVE  Moves(c)
  BY DEF TypeOK, CallTypeOK, JobTypeOK, CallShape, SafeInv, SafeAt, Calm, Moves, Mapping,
         Counted, Reading, RaiseOut, Unwind, AtCheck, Leave, callVars, intVars, jobVars

\* What the entry of the region does to the abstract handle.
LEMMA EnterRegionMoves ==
  ASSUME TypeOK, CallShape, SafeInv, Calm, NEW c \in Callers, EnterRegion(c)
  PROVE  Moves(c)
  BY DEF TypeOK, CallTypeOK, JobTypeOK, CallShape, SafeInv, SafeAt, Calm, Moves, Mapping,
         Counted, Reading, EnterRegion, callVars, intVars, jobVars

\* What the head of the job's loop does to the abstract handle.
LEMMA NextItemMoves ==
  ASSUME TypeOK, CallShape, SafeInv, Calm, NEW c \in Callers, NextItem(c)
  PROVE  Moves(c)
  BY DEF TypeOK, CallTypeOK, JobTypeOK, CallShape, SafeInv, SafeAt, Calm, Moves, Mapping,
         Counted, Reading, NextItem, NextItemOr, Stop, callVars, intVars, jobVars

\* What a finished item does to the abstract handle.
LEMMA ItemDoneMoves ==
  ASSUME TypeOK, CallShape, SafeInv, Calm, NEW c \in Callers, ItemDone(c)
  PROVE  Moves(c)
  BY DEF TypeOK, CallTypeOK, JobTypeOK, CallShape, SafeInv, SafeAt, Calm, Moves, Mapping,
         Counted, Reading, ItemDone, callVars, intVars, jobVars

\* What a failing item does to the abstract handle.
LEMMA ItemFailsMoves ==
  ASSUME TypeOK, CallShape, SafeInv, Calm, NEW c \in Callers, ItemFails(c)
  PROVE  Moves(c)
  BY DEF TypeOK, CallTypeOK, JobTypeOK, CallShape, SafeInv, SafeAt, Calm, Moves, Mapping,
         Counted, Reading, ItemFails, Stop, callVars, intVars, jobVars

\* What a cancelled item does to the abstract handle.
LEMMA ItemCancelledMoves ==
  ASSUME TypeOK, CallShape, SafeInv, Calm, NEW c \in Callers, ItemCancelled(c)
  PROVE  Moves(c)
  BY DEF TypeOK, CallTypeOK, JobTypeOK, CallShape, SafeInv, SafeAt, Calm, Moves, Mapping,
         Counted, Reading, ItemCancelled, FlagSeen, Stop, callVars, intVars, jobVars

\* What the end of the worker thread does to the abstract handle.
LEMMA WorkerExitsMoves ==
  ASSUME TypeOK, CallShape, SafeInv, Calm, NEW c \in Callers, WorkerExits(c)
  PROVE  Moves(c)
  BY DEF TypeOK, CallTypeOK, JobTypeOK, CallShape, SafeInv, SafeAt, Calm, Moves, Mapping,
         Counted, Reading, WorkerExits, callVars, intVars, jobVars

\* What an interrupt does to the abstract handle.
LEMMA InterruptMoves ==
  ASSUME TypeOK, CallShape, SafeInv, Calm, NEW c \in Callers, Interrupt(c)
  PROVE  Moves(c)
  BY DEF TypeOK, CallTypeOK, JobTypeOK, CallShape, SafeInv, SafeAt, Calm, Moves, Mapping,
         Counted, Reading, Interrupt, callVars, intVars, jobVars

\* What get_model does to the abstract handle.
LEMMA BeginMoves ==
  ASSUME TypeOK, SafeInv, NEW c \in Callers, NEW o \in Ops, Begin(c, o)
  PROVE  Moves(c)
<1>1. CASE handle = "closed"
  BY <1>1 DEF Moves, Counted, Reading, Begin, jobVars
<1>2. CASE handle # "closed" /\ o = "warmup"
  BY <1>2 DEF TypeOK, CallTypeOK, JobTypeOK, SafeInv, SafeAt, Moves, Mapping, Counted,
              Reading, Begin, FreshJob
<1>3. CASE handle # "closed" /\ o # "warmup"
  BY <1>3 DEF TypeOK, CallTypeOK, JobTypeOK, SafeInv, SafeAt, Moves, Mapping, Counted,
              Reading, Begin, FreshJob
<1>4. QED
  BY <1>1, <1>2, <1>3

\* A step that only touches the handle: it maps, or it releases what nobody
\* holds, or it changes nothing the abstraction sees.
LEMMA HandleChange ==
  ASSUME UNCHANGED <<pc, op, job>>,
         \/ UNCHANGED Mapping
         \/ Mapping = "none" /\ Mapping' = "mapped"
         \/ Mapping = "mapped" /\ Mapping' = "released" /\ Holders = {}
  PROVE  [Handle!Next]_Handle!vars
<1> DEFINE R == {d \in Callers : Reading(d)}
<1>1. Holders' = Holders /\ R' = R
  BY DEF Holders, Counted, Reading
<1>2. QED
  BY <1>1 DEF Handle!Next, Handle!Map, Handle!Release, Handle!vars

\* A step of a caller is a step of the handle or a stutter.
LEMMA CallersImplement ==
  ASSUME CountInv, SafeInv, Calm, NEW c \in Callers,
         CallerStep(c) \/ Interrupt(c) \/ JobStep(c)
  PROVE  [Handle!Next]_Handle!vars
<1> USE DEF CountInv
<1>1. CASE Close(c)
  <2>1. UNCHANGED <<pc, op, job>>
    BY <1>1 DEF Close, jobVars
  <2>2. CASE activeOps # 0
    BY <1>1, <2>1, <2>2, HandleChange DEF Close, Mapping
  <2>3. CASE activeOps = 0
    <3>1. Holders = {}
      BY <2>3, HoldersFinite, FS_EmptySet DEF ActiveOpsExact
    <3>2. Mapping = "mapped" /\ Mapping' = "released"
      BY <1>1, <2>3 DEF Close, Mapping
    <3>3. QED
      BY <2>1, <3>1, <3>2, HandleChange
  <2>4. QED
    BY <2>2, <2>3
<1>2. CASE \E o \in Ops : Begin(c, o)
  BY <1>2, BeginSafe, BeginMoves, HandleStep DEF StepSafe
<1>3. CASE Proceed(c)
  <2>1. StepSafe(c)
    BY <1>3, ArgsSafe, ConvertSafe, StartRoundSafe, RegionEndSafe, RoundOverSafe,
       IdsOverSafe, JoinRaiseSafe, RejoinEndSafe, ServeTrapSafe, RaiseOutSafe,
       EnterRegionSafe, WorkerExitsSafe
    DEF Proceed
  <2>2. Moves(c)
    BY <1>3, ArgsMoves, ConvertMoves, StartRoundMoves, RegionEndMoves, RoundOverMoves,
       IdsOverMoves, JoinRaiseMoves, RejoinEndMoves, ServeTrapMoves, RaiseOutMoves,
       EnterRegionMoves, WorkerExitsMoves
    DEF Proceed
  <2>3. QED
    BY <2>1, <2>2, HandleStep DEF StepSafe
<1>4. CASE Interrupt(c) \/ JobStep(c)
  <2>1. StepSafe(c)
    BY <1>4, InterruptSafe, NextItemSafe, ItemDoneSafe, ItemFailsSafe, ItemCancelledSafe
    DEF JobStep
  <2>2. Moves(c)
    BY <1>4, InterruptMoves, NextItemMoves, ItemDoneMoves, ItemFailsMoves,
       ItemCancelledMoves
    DEF JobStep
  <2>3. QED
    BY <2>1, <2>2, HandleStep DEF StepSafe
<1>5. QED
  BY <1>1, <1>2, <1>3, <1>4 DEF CallerStep

\* So is every step of the calls.
LEMMA StepImplements ==
  Calm /\ CountInv /\ SafeInv /\ [Next]_vars => [Handle!Next]_Handle!vars
<1> SUFFICES ASSUME Calm, CountInv, SafeInv, [Next]_vars
             PROVE  [Handle!Next]_Handle!vars
  OBVIOUS
<1>1. CASE Open
  BY <1>1, HandleChange DEF Open, Mapping, callVars, jobVars
<1>2. CASE Collect
  <2>1. Holders = {}
    BY <1>2 DEF Collect, Holders, Counted
  <2>2. QED
    BY <1>2, <2>1, HandleChange DEF Collect, Mapping, callVars, jobVars
<1>3. CASE UNCHANGED vars
  BY <1>3, HandleChange DEF Mapping, vars, callVars, jobVars
<1>4. ASSUME NEW c \in Callers, CallerStep(c) \/ Interrupt(c) \/ JobStep(c)
      PROVE  [Handle!Next]_Handle!vars
  BY <1>4, CallersImplement
<1>5. QED
  BY <1>1, <1>2, <1>3, <1>4 DEF Next

\* The flag, the counter and the places where the GVL can be lost implement
\* the abstract handle: close releases the mapping only between calls, and
\* only a holder's job ever reads it.
THEOREM HandleImplemented == ASSUME Calm PROVE Spec => ImplementsHandle
<1>1. Init => Handle!Init
  BY DEF Init, Handle!Init, Mapping, Holders, Counted, Reading
<1>2. CountInv /\ SafeInv /\ [Next]_vars => [Handle!Next]_Handle!vars
  BY StepImplements
<1>3. QED
  BY <1>1, <1>2, CountAlways, SafeAlways, PTL DEF Spec, ImplementsHandle, Handle!Spec

-----------------------------------------------------------------------------
(* Answers. *)

\* What relates the flag, the job's end and the answer, for any interrupts and
\* callbacks: a job that returned without failing went through every item, and
\* a caller reads its job's result only when the job is over and not killed.
AnswerAt(c) ==
  /\ failed[c] = "cancel" \/ pend[c] # "none" => interrupts[c] > 0
  /\ cancelled[c] /\ job[c] \in {"enter", "check", "work"} => interrupts[c] > 0
  /\ pc[c] = "region" /\ op[c] = "warmup" => ~cancelled[c] /\ failed[c] = "no"
  /\ job[c] = "returned" /\ failed[c] = "no" => rows[c] = Items
  /\ job[c] = "dead" /\ failed[c] = "no" /\ worker[c] = "thread" => rows[c] = Items
  /\ pc[c] = "join" => worker[c] = "thread"
  /\ pc[c] \in {"region", "checkints"} => worker[c] = "none"
  /\ pc[c] = "checkints" => job[c] = "returned"
  /\ answer[c] = "ok" =>
       /\ pc[c] = "idle" /\ job[c] \in {"none", "returned", "dead"}
       /\ failed[c] = "no" /\ rows[c] = Items

AnswerInv == \A c \in Callers : AnswerAt(c)

\* A step of c leaves the others' calls and jobs as they are.
Others(c) ==
  \A d \in Callers \ {c} :
    /\ pc'[d] = pc[d] /\ op'[d] = op[d] /\ answer'[d] = answer[d]
    /\ pend'[d] = pend[d] /\ interrupts'[d] = interrupts[d]
    /\ job'[d] = job[d] /\ worker'[d] = worker[d] /\ cancelled'[d] = cancelled[d]
    /\ failed'[d] = failed[d] /\ rows'[d] = rows[d]

StepAnswers(c) == Others(c) /\ AnswerAt(c)'

\* A step that touches nothing the invariant reads keeps it.
LEMMA StepAnswersKeeps ==
  ASSUME AnswerInv, NEW c \in Callers, StepAnswers(c)
  PROVE  AnswerInv'
<1>1. ASSUME NEW d \in Callers \ {c} PROVE AnswerAt(d)'
  BY <1>1 DEF AnswerInv, AnswerAt, StepAnswers, Others
<1>2. QED
  BY <1>1 DEF AnswerInv, StepAnswers

\* The invariant of answers across model_close.
LEMMA CloseAnswers ==
  ASSUME TypeOK, CallShape, AnswerInv, NEW c \in Callers, Close(c)
  PROVE  StepAnswers(c)
<1>1. Others(c)
  BY DEF TypeOK, CallTypeOK, JobTypeOK, Others, Close, callVars, intVars, jobVars
<1>2. AnswerAt(c)'
  BY BoundsAssumption DEF TypeOK, CallTypeOK, JobTypeOK, CallShape, AnswerInv, AnswerAt, Close, callVars, intVars, jobVars
<1>3. QED
  BY <1>1, <1>2 DEF StepAnswers

\* The invariant of answers across the argument checks.
LEMMA ArgsAnswers ==
  ASSUME TypeOK, CallShape, AnswerInv, NEW c \in Callers, Args(c)
  PROVE  StepAnswers(c)
<1>1. Others(c)
  BY DEF TypeOK, CallTypeOK, JobTypeOK, Others, Args, Leave, InlineJob, callVars, intVars, jobVars
<1>2. AnswerAt(c)'
  BY BoundsAssumption DEF TypeOK, CallTypeOK, JobTypeOK, CallShape, AnswerInv, AnswerAt, Args, Leave, InlineJob, callVars, intVars, jobVars
<1>3. QED
  BY <1>1, <1>2 DEF StepAnswers

\* The invariant of answers across embed_token_ids_body before its job.
LEMMA ConvertAnswers ==
  ASSUME TypeOK, CallShape, AnswerInv, NEW c \in Callers, Convert(c)
  PROVE  StepAnswers(c)
<1>1. Others(c)
  BY DEF TypeOK, CallTypeOK, JobTypeOK, Others, Convert, Leave, Goto, InlineJob, FreshJob, callVars, intVars, jobVars
<1>2. AnswerAt(c)'
  BY BoundsAssumption DEF TypeOK, CallTypeOK, JobTypeOK, CallShape, AnswerInv, AnswerAt, Convert, Leave, Goto, InlineJob, FreshJob, callVars, intVars, jobVars
<1>3. QED
  BY <1>1, <1>2 DEF StepAnswers

\* The invariant of answers across the start of a round.
LEMMA StartRoundAnswers ==
  ASSUME TypeOK, CallShape, AnswerInv, NEW c \in Callers, StartRound(c)
  PROVE  StepAnswers(c)
<1>1. Others(c)
  BY DEF TypeOK, CallTypeOK, JobTypeOK, Others, StartRound, StartRoundWith, Leave, Goto, InlineJob, FreshJob, callVars, intVars, jobVars
<1>2. AnswerAt(c)'
  BY BoundsAssumption DEF TypeOK, CallTypeOK, JobTypeOK, CallShape, AnswerInv, AnswerAt, StartRound, StartRoundWith, Leave, Goto, InlineJob, FreshJob, callVars, intVars, jobVars
<1>3. QED
  BY <1>1, <1>2 DEF StepAnswers

\* The invariant of answers across the end of a region.
LEMMA RegionEndAnswers ==
  ASSUME TypeOK, CallShape, AnswerInv, NEW c \in Callers, RegionEnd(c)
  PROVE  StepAnswers(c)
<1>1. Others(c)
  BY DEF TypeOK, CallTypeOK, JobTypeOK, Others, RegionEnd, RegionEndWith, Leave, Goto, callVars, intVars, jobVars
<1>2. AnswerAt(c)'
  BY BoundsAssumption DEF TypeOK, CallTypeOK, JobTypeOK, CallShape, AnswerInv, AnswerAt, RegionEnd, RegionEndWith, Leave, Goto, callVars, intVars, jobVars
<1>3. QED
  BY <1>1, <1>2 DEF StepAnswers

\* The invariant of answers across the end of a round.
LEMMA RoundOverAnswers ==
  ASSUME TypeOK, CallShape, AnswerInv, NEW c \in Callers, RoundOver(c)
  PROVE  StepAnswers(c)
<1>1. Others(c)
  BY DEF TypeOK, CallTypeOK, JobTypeOK, Others, RoundOver, Leave, callVars, intVars, jobVars
<1>2. AnswerAt(c)'
  BY BoundsAssumption DEF TypeOK, CallTypeOK, JobTypeOK, CallShape, AnswerInv, AnswerAt, RoundOver, Leave, callVars, intVars, jobVars
<1>3. QED
  BY <1>1, <1>2 DEF StepAnswers

\* The invariant of answers across the end of a token-id call.
LEMMA IdsOverAnswers ==
  ASSUME TypeOK, CallShape, AnswerInv, NEW c \in Callers, IdsOver(c)
  PROVE  StepAnswers(c)
<1>1. Others(c)
  BY DEF TypeOK, CallTypeOK, JobTypeOK, Others, IdsOver, Leave, callVars, intVars, jobVars
<1>2. AnswerAt(c)'
  BY BoundsAssumption DEF TypeOK, CallTypeOK, JobTypeOK, CallShape, AnswerInv, AnswerAt, IdsOver, Leave, callVars, intVars, jobVars
<1>3. QED
  BY <1>1, <1>2 DEF StepAnswers

\* The invariant of answers across the interrupted join.
LEMMA JoinRaiseAnswers ==
  ASSUME TypeOK, CallShape, AnswerInv, NEW c \in Callers, JoinRaise(c)
  PROVE  StepAnswers(c)
<1>1. Others(c)
  BY DEF TypeOK, CallTypeOK, JobTypeOK, Others, JoinRaise, Goto
<1>2. AnswerAt(c)'
  BY BoundsAssumption DEF TypeOK, CallTypeOK, JobTypeOK, CallShape, AnswerInv, AnswerAt, JoinRaise, Goto
<1>3. QED
  BY <1>1, <1>2 DEF StepAnswers

\* The invariant of answers across the second join.
LEMMA RejoinEndAnswers ==
  ASSUME TypeOK, CallShape, AnswerInv, NEW c \in Callers, RejoinEnd(c)
  PROVE  StepAnswers(c)
<1>1. Others(c)
  BY DEF TypeOK, CallTypeOK, JobTypeOK, Others, RejoinEnd, Leave, callVars, intVars, jobVars
<1>2. AnswerAt(c)'
  BY BoundsAssumption DEF TypeOK, CallTypeOK, JobTypeOK, CallShape, AnswerInv, AnswerAt, RejoinEnd, Leave, callVars, intVars, jobVars
<1>3. QED
  BY <1>1, <1>2 DEF StepAnswers

\* The invariant of answers across a signal handler.
LEMMA ServeTrapAnswers ==
  ASSUME TypeOK, CallShape, AnswerInv, NEW c \in Callers, ServeTrap(c)
  PROVE  StepAnswers(c)
<1>1. Others(c)
  BY DEF TypeOK, CallTypeOK, JobTypeOK, Others, ServeTrap, callVars, intVars, jobVars
<1>2. AnswerAt(c)'
  BY BoundsAssumption DEF TypeOK, CallTypeOK, JobTypeOK, CallShape, AnswerInv, AnswerAt, ServeTrap, callVars, intVars, jobVars
<1>3. QED
  BY <1>1, <1>2 DEF StepAnswers

\* The invariant of answers across a raise out of the call.
LEMMA RaiseOutAnswers ==
  ASSUME TypeOK, CallShape, AnswerInv, NEW c \in Callers, RaiseOut(c)
  PROVE  StepAnswers(c)
<1>1. Others(c)
  BY DEF TypeOK, CallTypeOK, JobTypeOK, Others, RaiseOut, Unwind, AtCheck, Leave, callVars, intVars, jobVars
<1>2. AnswerAt(c)'
  BY BoundsAssumption DEF TypeOK, CallTypeOK, JobTypeOK, CallShape, AnswerInv, AnswerAt, RaiseOut, Unwind, AtCheck, Leave, callVars, intVars, jobVars
<1>3. QED
  BY <1>1, <1>2 DEF StepAnswers

\* The invariant of answers across the entry of the region.
LEMMA EnterRegionAnswers ==
  ASSUME TypeOK, CallShape, AnswerInv, NEW c \in Callers, EnterRegion(c)
  PROVE  StepAnswers(c)
<1>1. Others(c)
  BY DEF TypeOK, CallTypeOK, JobTypeOK, Others, EnterRegion, callVars, intVars, jobVars
<1>2. AnswerAt(c)'
  BY BoundsAssumption DEF TypeOK, CallTypeOK, JobTypeOK, CallShape, AnswerInv, AnswerAt, EnterRegion, callVars, intVars, jobVars
<1>3. QED
  BY <1>1, <1>2 DEF StepAnswers

\* The invariant of answers across the head of the job's loop.
LEMMA NextItemAnswers ==
  ASSUME TypeOK, CallShape, AnswerInv, NEW c \in Callers, NextItem(c)
  PROVE  StepAnswers(c)
<1>1. Others(c)
  BY DEF TypeOK, CallTypeOK, JobTypeOK, Others, NextItem, NextItemOr, Stop, callVars, intVars, jobVars
<1>2. AnswerAt(c)'
  BY BoundsAssumption DEF TypeOK, CallTypeOK, JobTypeOK, CallShape, AnswerInv, AnswerAt, NextItem, NextItemOr, Stop, callVars, intVars, jobVars
<1>3. QED
  BY <1>1, <1>2 DEF StepAnswers

\* The invariant of answers across a finished item.
LEMMA ItemDoneAnswers ==
  ASSUME TypeOK, CallShape, AnswerInv, NEW c \in Callers, ItemDone(c)
  PROVE  StepAnswers(c)
<1>1. Others(c)
  BY DEF TypeOK, CallTypeOK, JobTypeOK, Others, ItemDone, callVars, intVars, jobVars
<1>2. AnswerAt(c)'
  BY BoundsAssumption DEF TypeOK, CallTypeOK, JobTypeOK, CallShape, AnswerInv, AnswerAt, ItemDone, callVars, intVars, jobVars
<1>3. QED
  BY <1>1, <1>2 DEF StepAnswers

\* The invariant of answers across a failing item.
LEMMA ItemFailsAnswers ==
  ASSUME TypeOK, CallShape, AnswerInv, NEW c \in Callers, ItemFails(c)
  PROVE  StepAnswers(c)
<1>1. Others(c)
  BY DEF TypeOK, CallTypeOK, JobTypeOK, Others, ItemFails, Stop, callVars, intVars, jobVars
<1>2. AnswerAt(c)'
  BY BoundsAssumption DEF TypeOK, CallTypeOK, JobTypeOK, CallShape, AnswerInv, AnswerAt, ItemFails, Stop, callVars, intVars, jobVars
<1>3. QED
  BY <1>1, <1>2 DEF StepAnswers

\* The invariant of answers across a cancelled item.
LEMMA ItemCancelledAnswers ==
  ASSUME TypeOK, CallShape, AnswerInv, NEW c \in Callers, ItemCancelled(c)
  PROVE  StepAnswers(c)
<1>1. Others(c)
  BY DEF TypeOK, CallTypeOK, JobTypeOK, Others, ItemCancelled, FlagSeen, Stop, callVars, intVars, jobVars
<1>2. AnswerAt(c)'
  BY BoundsAssumption DEF TypeOK, CallTypeOK, JobTypeOK, CallShape, AnswerInv, AnswerAt, ItemCancelled, FlagSeen, Stop, callVars, intVars, jobVars
<1>3. QED
  BY <1>1, <1>2 DEF StepAnswers

\* The invariant of answers across the end of the worker thread.
LEMMA WorkerExitsAnswers ==
  ASSUME TypeOK, CallShape, AnswerInv, NEW c \in Callers, WorkerExits(c)
  PROVE  StepAnswers(c)
<1>1. Others(c)
  BY DEF TypeOK, CallTypeOK, JobTypeOK, Others, WorkerExits, callVars, intVars, jobVars
<1>2. AnswerAt(c)'
  BY BoundsAssumption DEF TypeOK, CallTypeOK, JobTypeOK, CallShape, AnswerInv, AnswerAt, WorkerExits, callVars, intVars, jobVars
<1>3. QED
  BY <1>1, <1>2 DEF StepAnswers

\* The invariant of answers across an interrupt.
LEMMA InterruptAnswers ==
  ASSUME TypeOK, AnswerInv, NEW c \in Callers, Interrupt(c)
  PROVE  StepAnswers(c)
<1>1. UNCHANGED <<pc, op, answer, job, worker, failed, rows>>
  BY DEF Interrupt, callVars
<1>2. interrupts' = [interrupts EXCEPT ![c] = @ + 1] /\ interrupts[c] \in Nat
  BY BoundsAssumption DEF Interrupt, TypeOK, CallTypeOK
<1>3. PICK kind \in {"trap", "raise"} : pend' = [pend EXCEPT ![c] = kind]
  BY DEF Interrupt
<1>4. /\ \A d \in Callers \ {c} : cancelled'[d] = cancelled[d]
      /\ op[c] = "warmup" => cancelled'[c] = cancelled[c]
  BY DEF Interrupt, TypeOK, JobTypeOK
<1>5. Others(c)
  BY <1>1, <1>2, <1>3, <1>4 DEF Others, TypeOK, CallTypeOK
<1>6. interrupts'[c] > 0
  BY <1>2 DEF TypeOK, CallTypeOK
<1>7. AnswerAt(c)'
  BY <1>1, <1>4, <1>6 DEF AnswerInv, AnswerAt
<1>8. QED
  BY <1>5, <1>7 DEF StepAnswers

\* The invariant of answers across get_model.
LEMMA BeginAnswers ==
  ASSUME TypeOK, AnswerInv, NEW c \in Callers, NEW o \in Ops, Begin(c, o)
  PROVE  StepAnswers(c)
<1>1. CASE handle = "closed"
  BY <1>1 DEF TypeOK, CallTypeOK, AnswerInv, AnswerAt, StepAnswers, Others, Begin,
              callVars, intVars, jobVars
<1>2. CASE handle # "closed" /\ o = "warmup"
  BY <1>2 DEF TypeOK, CallTypeOK, JobTypeOK, AnswerInv, AnswerAt, StepAnswers, Others,
              Begin, FreshJob
<1>3. CASE handle # "closed" /\ o # "warmup"
  BY <1>3 DEF TypeOK, CallTypeOK, JobTypeOK, AnswerInv, AnswerAt, StepAnswers, Others,
              Begin, FreshJob
<1>4. QED
  BY <1>1, <1>2, <1>3

\* The invariant of answers survives every step.
LEMMA AnswerInductive == CountInv /\ AnswerInv /\ [Next]_vars => AnswerInv'
<1> SUFFICES ASSUME CountInv, AnswerInv, [Next]_vars PROVE AnswerInv'
  OBVIOUS
<1> USE DEF CountInv
<1>1. CASE Open \/ Collect \/ UNCHANGED vars
  BY <1>1 DEF Open, Collect, AnswerInv, AnswerAt, vars, callVars, intVars, jobVars
<1>2. ASSUME NEW c \in Callers, CallerStep(c) \/ Interrupt(c) \/ JobStep(c)
      PROVE  AnswerInv'
  <2>1. CASE Close(c) \/ \E o \in Ops : Begin(c, o)
    BY <2>1, CloseAnswers, BeginAnswers, StepAnswersKeeps
  <2>2. CASE Proceed(c)
    <3>1. StepAnswers(c)
      BY <2>2, ArgsAnswers, ConvertAnswers, StartRoundAnswers, RegionEndAnswers,
         RoundOverAnswers, IdsOverAnswers, JoinRaiseAnswers, RejoinEndAnswers,
         ServeTrapAnswers, RaiseOutAnswers, EnterRegionAnswers, WorkerExitsAnswers
      DEF Proceed
    <3>2. QED
      BY <3>1, StepAnswersKeeps
  <2>3. CASE Interrupt(c) \/ JobStep(c)
    <3>1. StepAnswers(c)
      BY <2>3, InterruptAnswers, NextItemAnswers, ItemDoneAnswers, ItemFailsAnswers,
         ItemCancelledAnswers
      DEF JobStep
    <3>2. QED
      BY <3>1, StepAnswersKeeps
  <2>4. QED
    BY <1>2, <2>1, <2>2, <2>3 DEF CallerStep
<1>3. QED
  BY <1>1, <1>2 DEF Next

\* So it holds in every state.
LEMMA AnswerAlways == Spec => []AnswerInv
<1>1. Init => AnswerInv
  BY DEF Init, AnswerInv, AnswerAt
<1>2. QED
  BY <1>1, AnswerInductive, CountAlways, PTL DEF Spec

\* Vectors are handed out only by a call whose last job went through every
\* item, however callers, jobs, interrupts and killed workers interleave.
THEOREM NoPartialAnswerHolds == Spec => []NoPartialAnswer
<1>1. AnswerInv => NoPartialAnswer
  BY DEF AnswerInv, AnswerAt, NoPartialAnswer
<1>2. QED
  BY <1>1, AnswerAlways, PTL

\* A job is cancelled only in a round in which its own caller was interrupted:
\* the flag of an earlier round is cleared before the next one starts.
THEOREM CancelNeedsInterruptHolds == Spec => []CancelNeedsInterrupt
<1>1. AnswerInv => CancelNeedsInterrupt
  BY DEF AnswerInv, AnswerAt, CancelNeedsInterrupt
<1>2. QED
  BY <1>1, AnswerAlways, PTL

=============================================================================
