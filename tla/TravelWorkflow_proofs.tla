----------------------- MODULE TravelWorkflow_proofs -----------------------
(***************************************************************************)
(* The workflow runs the ledger's own steps, so the ledger's theorems hold *)
(* under it; and travel_lock makes the ledger's calls exclusive.           *)
(***************************************************************************)
EXTENDS TravelWorkflow, TravelLedger_proofs

LEMMA AuthorityStep == authority \in BOOLEAN /\ [Next]_vars => authority' \in BOOLEAN
<1> SUFFICES ASSUME authority \in BOOLEAN, [Next]_vars
             PROVE  authority' \in BOOLEAN
  OBVIOUS
<1>1. CASE \E c \in Callers : Call(c)
  <2>1. PICK c \in Callers : Call(c)
    BY <1>1
  <2>2. authority' = authority
    BY <2>1 DEF Call, SelectGet, SelectSave, QuoteGet, QuoteFence, QuoteAnswer, QuoteSave,
       BookGet, BookRefresh, BookReget, BookFence, BookSend, BookConfirmed, BookRejected,
       BookUncertain, ReconcileGet, ReconcileExpire, ReconcileClaim, ReconcileRead,
       RecordVerified, RecordUnverified, Lose
  <2> QED BY <2>2
<1>2. CASE \E d \in Dispatches : Provider(d)
  BY <1>2 DEF Provider, ProviderBooks, ProviderRefuses, ProviderConfirms
<1>3. CASE Begin \/ Stop \/ ResumeReconciliation \/ AuthorityChanges \/ BackoffElapses
           \/ WindowCloses \/ UNCHANGED vars
  BY <1>3 DEF Begin, Stop, ResumeReconciliation, AuthorityChanges, BackoffElapses,
     WindowCloses, vars
<1> QED BY <1>1, <1>2, <1>3 DEF Next

\* Every step of the workflow is a step of the ledger or leaves it alone.
LEMMA LedgerStep ==
    authority \in BOOLEAN /\ [WorkflowNext]_allVars => [Next]_vars
<1> SUFFICES ASSUME authority \in BOOLEAN, [WorkflowNext]_allVars
             PROVE  [Next]_vars
  OBVIOUS
<1>1. ASSUME NEW c \in Callers, Handle(c)
      PROVE  [Next]_vars
  <2>1. CASE LedgerCall(c)
    <3>1. Start(c) \/ Advance(c)
      BY <2>1 DEF LedgerCall
    <3>2. Call(c)
      BY <3>1 DEF Start, Advance, Call
    <3> QED BY <3>2 DEF Next
  <2>2. CASE InsertRow(c)
    BY <2>2 DEF InsertRow, Next
  <2>3. CASE Fail(c) \/ Drop(c)
    <3>1. UNCHANGED vars \/ Lose(c)
      BY <2>3 DEF Fail, Drop
    <3> QED BY <3>1 DEF Next, Call
  <2>4. CASE \/ \E op \in Ops, owner, tracked \in BOOLEAN : Admit(c, op, owner, tracked)
             \/ ReadRequest(c) \/ ReadRow(c) \/ SetStage(c) \/ Search(c) \/ Compare(c)
             \/ RecordSelected(c) \/ RecordFailure(c) \/ Answer(c) \/ CheckRetry(c)
             \/ Approve(c)
    BY <2>4 DEF Admit, ReadRequest, ReadRow, SetStage, Search, Compare, RecordSelected,
       RecordFailure, Answer, CheckRetry, Approve
  <2> QED BY <1>1, <2>1, <2>2, <2>3, <2>4 DEF Handle
<1>2. CASE StopWork
  <2>1. CASE Stop
    BY <2>1 DEF Next
  <2>2. CASE /\ authority' \in {authority, FALSE}
             /\ UNCHANGED <<row, spend, pc, snap, cont, wire, resumes>>
    <3>1. CASE authority' = authority
      BY <2>2, <3>1 DEF vars
    <3>2. CASE authority' # authority
      <4>1. authority' = ~authority
        BY <2>2, <3>2
      <4> QED BY <2>2, <4>1 DEF Next, AuthorityChanges
    <3> QED BY <3>1, <3>2
  <2> QED BY <1>2, <2>1, <2>2 DEF StopWork
<1>3. CASE World
  BY <1>3 DEF World, Next
<1>4. CASE UNCHANGED allVars
  BY <1>4 DEF allVars
<1> QED BY <1>1, <1>2, <1>3, <1>4 DEF WorkflowNext

\* The workflow implements the ledger: whatever the handlers, Stop, redelivery and
\* dropped futures do, the rows only change as TravelLedger lets them.
THEOREM WorkflowKeepsLedger == WorkflowSpec => LedgerSpec
<1>1. WorkflowInit => Init /\ authority \in BOOLEAN
  BY DEF WorkflowInit, Init
<1>2. authority \in BOOLEAN /\ [WorkflowNext]_allVars => (authority \in BOOLEAN)'
  BY LedgerStep, AuthorityStep
<1>3. authority \in BOOLEAN /\ [WorkflowNext]_allVars => [Next]_vars
  BY LedgerStep
<1> QED BY <1>1, <1>2, <1>3, PTL DEF WorkflowSpec, LedgerSpec, Spec

\* Under the workflow, too, at most one booking write may be outstanding.
THEOREM WorkflowOneLiveWrite == WorkflowSpec => []AtMostOneLiveWrite
BY WorkflowKeepsLedger, OneLiveWrite, PTL DEF LedgerSpec

\* Under the workflow, too, money is held for every write that may take effect.
THEOREM WorkflowHoldIsKept == WorkflowSpec => []HoldCoversLiveWrite
BY WorkflowKeepsLedger, HoldIsKept, PTL DEF LedgerSpec
-----------------------------------------------------------------------------
(* Types.                                                                  *)

\* A proven rejection is a rejection of some write.
FailedIsWritten == row.state = "booking_failed" => row.body.dispatch # 0

\* What a retry that passed its check is about.
ApprovalsNameWrites == \A c \in Callers : job[c].step = "approve" => row.body.dispatch # 0

LEMMA WrittenStaysWritten ==
    Inv /\ [Next]_vars => (row.body.dispatch # 0 => row'.body.dispatch # 0)
<1> SUFFICES ASSUME Inv, [Next]_vars, row.body.dispatch # 0
             PROVE  row'.body.dispatch # 0
  OBVIOUS
<1>1. CASE row.state \in Held
  BY <1>1, BodyStep DEF BodyMove, SameKey
<1>2. CASE row.state \notin Held
  <2>r. row \in Rows /\ row.body \in Bodies
    BY DEF Inv, TypeOK, Rows
  <2>1. ASSUME NEW c \in Callers, Call(c)
        PROVE  row'.body.dispatch # 0
    <3>1. CASE BookFence(c)
      BY <2>1, <3>1, <2>r DEF BookFence, Dispatches, Bodies, Rows
    <3>2. CASE SelectSave(c) \/ QuoteFence(c) \/ QuoteSave(c)
      <4>1. CASE SelectSave(c)
        BY <4>1, <2>r DEF SelectSave, Bodies, Rows
      <4>2. CASE QuoteFence(c)
        <5>1. snap[c].body = row.body
          BY <4>2 DEF QuoteFence, Unchanged
        <5>2. row'.body = [row.body EXCEPT !.fence = @ + 1, !.quote = 0]
          BY <4>2, <5>1, <2>r DEF QuoteFence, Rows
        <5> QED BY <5>2, <2>r DEF Bodies
      <4>3. CASE QuoteSave(c)
        <5>1. row'.body = [row.body EXCEPT !.quote = row.body.fence]
          BY <4>3, <2>r DEF QuoteSave, Rows
        <5> QED BY <5>1, <2>r DEF Bodies
      <4> QED BY <3>2, <4>1, <4>2, <4>3
    <3>3. CASE BookConfirmed(c) \/ BookRejected(c) \/ BookUncertain(c) \/ ReconcileExpire(c)
               \/ ReconcileClaim(c) \/ RecordVerified(c) \/ RecordUnverified(c)
      <4>1. row'.body = row.body
        BY <3>3, <1>2, <2>r DEF BookConfirmed, BookRejected, BookUncertain, ReconcileExpire,
           ReconcileClaim, RecordVerified, RecordUnverified, Claimed, Held, Rows
      <4> QED BY <4>1
    <3>4. CASE SelectGet(c) \/ QuoteGet(c) \/ QuoteAnswer(c) \/ BookGet(c) \/ BookRefresh(c)
               \/ BookReget(c) \/ BookSend(c) \/ ReconcileGet(c) \/ ReconcileRead(c) \/ Lose(c)
      BY <3>4 DEF SelectGet, QuoteGet, QuoteAnswer, BookGet, BookRefresh, BookReget, BookSend,
         ReconcileGet, ReconcileRead, Lose
    <3> QED BY <2>1, <3>1, <3>2, <3>3, <3>4 DEF Call
  <2>2. CASE \E d \in Dispatches : Provider(d)
    BY <2>2 DEF Provider, ProviderBooks, ProviderRefuses, ProviderConfirms
  <2>3. CASE Begin \/ Stop \/ ResumeReconciliation \/ AuthorityChanges \/ BackoffElapses
             \/ WindowCloses \/ UNCHANGED vars
    BY <2>3, <2>r DEF Begin, Stop, ResumeReconciliation, AuthorityChanges, BackoffElapses,
       WindowCloses, vars, Rows
  <2> QED BY <2>1, <2>2, <2>3 DEF Next
<1> QED BY <1>1, <1>2

LEMMA FailedStep == Inv /\ FailedIsWritten /\ [Next]_vars => FailedIsWritten'
<1> SUFFICES ASSUME Inv, FailedIsWritten, [Next]_vars, row'.state = "booking_failed"
             PROVE  row'.body.dispatch # 0
  BY DEF FailedIsWritten
<1>r. row \in Rows
  BY DEF Inv, TypeOK
<1>1. CASE row.state = "booking_failed"
  BY <1>1, WrittenStaysWritten DEF FailedIsWritten
<1>2. CASE row.state # "booking_failed"
  <2>1. ASSUME NEW c \in Callers, Call(c)
        PROVE  row'.body.dispatch # 0
    <3>1. BookRejected(c)
      <4>1. CASE SelectSave(c) \/ QuoteFence(c) \/ QuoteSave(c) \/ BookFence(c)
        BY <4>1, <1>2, <1>r DEF SelectSave, QuoteFence, QuoteSave, BookFence, Rows
      <4>2. CASE BookConfirmed(c) \/ BookUncertain(c) \/ ReconcileExpire(c) \/ ReconcileClaim(c)
                 \/ RecordVerified(c) \/ RecordUnverified(c)
        BY <4>2, <1>2, <1>r DEF BookConfirmed, BookUncertain, ReconcileExpire, ReconcileClaim,
           RecordVerified, RecordUnverified, Rows
      <4>3. CASE SelectGet(c) \/ QuoteGet(c) \/ QuoteAnswer(c) \/ BookGet(c) \/ BookRefresh(c)
                 \/ BookReget(c) \/ BookSend(c) \/ ReconcileGet(c) \/ ReconcileRead(c) \/ Lose(c)
        BY <4>3, <1>2 DEF SelectGet, QuoteGet, QuoteAnswer, BookGet, BookRefresh, BookReget,
           BookSend, ReconcileGet, ReconcileRead, Lose
      <4> QED BY <2>1, <4>1, <4>2, <4>3 DEF Call
    <3>2. OwnsWrite(c)
      BY <3>1 DEF BookRejected, Booking, Inv, BookingOwnsWrite
    <3>3. row'.body.dispatch = snap[c].body.dispatch
      <4>1. snap[c].body \in Bodies
        BY DEF Inv, TypeOK, Rows
      <4>2. row.state \in {"booking_dispatched", "booking_uncertain"}
        BY <3>1, <1>2 DEF BookRejected
      <4>3. PICK ok \in BOOLEAN : row'.body = [snap[c].body EXCEPT !.retryAllowed = ok]
        BY <3>1, <4>2, <1>r DEF BookRejected, Rows
      <4> QED BY <4>1, <4>3 DEF Bodies
    <3> QED BY <3>2, <3>3 DEF OwnsWrite, Dispatches
  <2>2. CASE \E d \in Dispatches : Provider(d)
    BY <2>2, <1>2 DEF Provider, ProviderBooks, ProviderRefuses, ProviderConfirms
  <2>3. CASE Begin \/ Stop \/ ResumeReconciliation \/ AuthorityChanges \/ BackoffElapses
             \/ WindowCloses \/ UNCHANGED vars
    BY <2>3, <1>2, <1>r DEF Begin, Stop, ResumeReconciliation, AuthorityChanges, BackoffElapses,
       WindowCloses, vars, Rows
  <2> QED BY <2>1, <2>2, <2>3 DEF Next
<1> QED BY <1>1, <1>2

LEMMA NoJobIsAJob == NewRequest \in Requests /\ NoJob \in Jobs
<1>1. NewRequest \in Requests
  BY DEF NewRequest, Requests, Stages
<1> QED BY <1>1 DEF NoJob, Jobs, JobSteps, Ops

LEMMA WorkflowTypeInit == WorkflowInit => WorkflowTypeOK
<1> SUFFICES ASSUME WorkflowInit
             PROVE  WorkflowTypeOK
  OBVIOUS
<1>1. request \in Requests /\ job \in [Callers -> Jobs]
  BY NoJobIsAJob DEF WorkflowInit
<1>2. action \in [op : Ops, status : {"none", "open", "done"}]
  BY DEF WorkflowInit, NoAction, Ops
<1> QED BY <1>1, <1>2 DEF WorkflowInit, WorkflowTypeOK

LEMMA WorkflowTypeStep ==
    Inv /\ WorkflowTypeOK /\ ApprovalsNameWrites /\ [WorkflowNext]_allVars => WorkflowTypeOK'
<1> SUFFICES ASSUME Inv, WorkflowTypeOK, ApprovalsNameWrites, [WorkflowNext]_allVars
             PROVE  WorkflowTypeOK'
  OBVIOUS
<1> USE DEF WorkflowTypeOK
<1>1. ASSUME NEW c \in Callers, Handle(c)
      PROVE  WorkflowTypeOK'
  <2>j. job[c] \in Jobs /\ job[c].saved \in Requests /\ NewRequest \in Requests
    BY DEF Jobs, NewRequest, Requests, Stages
  <2>l. Leave(c) => job' \in [Callers -> Jobs] /\ lock' \in Callers \union {Free}
    BY DEF Leave, NoJob, NewRequest, Jobs, JobSteps, Ops, WorkerOps, Requests, Stages
  <2>g. \A step \in JobSteps : GoOn(c, step) => job' \in [Callers -> Jobs]
    BY <2>j DEF GoOn, Jobs
  <2>s. \A r \in Requests : SetRequest(r) => request' \in Requests
    BY DEF SetRequest
  <2>v. ASSUME NEW op \in Ops, NEW step \in JobSteps, Resolve(c, op, step)
        PROVE  job' \in [Callers -> Jobs]
    <3>1. [job[c] EXCEPT !.saved = NewRequest, !.op = op, !.step = step] \in Jobs
      BY <2>j DEF Jobs
    <3>2. job' = [job EXCEPT ![c] = [job[c] EXCEPT !.saved = NewRequest, !.op = op,
                                                   !.step = step]]
      BY <2>v DEF Resolve
    <3> QED BY <3>1, <3>2
  <2>1. ASSUME NEW op \in Ops, NEW owner \in BOOLEAN, NEW tracked \in BOOLEAN,
               Admit(c, op, owner, tracked)
        PROVE  WorkflowTypeOK'
    BY <2>1, <2>j DEF Admit, NoJob, Jobs, JobSteps
  <2>2. CASE ReadRequest(c)
    BY <2>2, <2>j DEF ReadRequest, Jobs, JobSteps
  <2>3. CASE InsertRow(c)
    BY <2>3 DEF InsertRow, workflow
  <2>4. CASE ReadRow(c)
    <3>1. job[c].op \in Ops /\ "reconcile" \in Ops
      BY <2>j DEF Jobs, Ops, WorkerOps
    <3>2. job' \in [Callers -> Jobs]
      BY <2>4, <2>v, <3>1 DEF ReadRow, JobSteps
    <3> QED BY <2>4, <3>2 DEF ReadRow
  <2>5. CASE SetStage(c)
    <3>1. job' \in [Callers -> Jobs]
      BY <2>5, <2>g DEF SetStage, JobSteps
    <3>2. request' \in Requests
      BY <2>5 DEF SetStage, SetRequest, Requests, Stages
    <3> QED BY <2>5, <3>1, <3>2 DEF SetStage
  <2>6. CASE Search(c)
    BY <2>6, <2>g DEF Search, JobSteps
  <2>7. CASE Compare(c)
    <3>1. job' \in [Callers -> Jobs]
      BY <2>7, <2>g DEF Compare, JobSteps
    <3>2. request' \in Requests
      BY <2>7 DEF Compare, SetRequest, Requests, Stages
    <3> QED BY <2>7, <3>1, <3>2 DEF Compare
  <2>8. CASE LedgerCall(c)
    BY <2>8, <2>g DEF LedgerCall, JobSteps
  <2>9. CASE RecordSelected(c)
    <3>1. job' \in [Callers -> Jobs]
      BY <2>9, <2>j DEF RecordSelected, Jobs, JobSteps, Ops
    <3>2. request' \in Requests
      BY <2>9 DEF RecordSelected, SetRequest, Requests, Stages
    <3> QED BY <2>9, <3>1, <3>2 DEF RecordSelected
  <2>10. CASE Fail(c)
    BY <2>10, <2>g, <2>l DEF Fail, JobSteps
  <2>11. CASE RecordFailure(c)
    <3>1. job' \in [Callers -> Jobs] /\ lock' \in Callers \union {Free}
      BY <2>11, <2>g, <2>l DEF RecordFailure, JobSteps
    <3>2. request' \in Requests
      BY <2>11 DEF RecordFailure, SetRequest, Requests, Stages
    <3> QED BY <2>11, <3>1, <3>2 DEF RecordFailure
  <2>12. CASE Answer(c)
    BY <2>12, <2>l DEF Answer
  <2>13. CASE Drop(c)
    BY <2>13, <2>l DEF Drop
  <2>14. CASE CheckRetry(c)
    BY <2>14, <2>g DEF CheckRetry, JobSteps
  <2>15. CASE Approve(c)
    <3>1. row.body.dispatch \in Dispatches
      BY <2>15, LedgerAssumption DEF Approve, ApprovalsNameWrites, Inv, TypeOK, Rows, Bodies,
         Dispatches
    <3>2. request' \in Requests
      BY <2>15 DEF Approve, Requests, Stages
    <3> QED BY <2>15, <2>l, <3>1, <3>2 DEF Approve
  <2> QED BY <1>1, <2>1, <2>2, <2>3, <2>4, <2>5, <2>6, <2>7, <2>8, <2>9, <2>10, <2>11, <2>12,
             <2>13, <2>14, <2>15 DEF Handle
<1>2. CASE StopWork
  BY <1>2 DEF StopWork, Requests, Stages
<1>3. CASE World \/ UNCHANGED allVars
  BY <1>3 DEF World, workflow, allVars
<1> QED BY <1>1, <1>2, <1>3 DEF WorkflowNext
-----------------------------------------------------------------------------
(* The lock.                                                               *)

HandlersHoldLock == \A c \in Callers : job[c].step # "idle" => lock = c

CallsAreHandled == \A c \in Callers : pc[c] # "idle" => job[c].step = "ledger"

\* A tracked handler is carrying out the action, which has no answer yet.
TrackedIsOpen ==
    \A c \in Callers : job[c].tracked => job[c].step # "idle" /\ action.status = "open"

\* What every handler may rely on, whoever else runs, stops or is dropped.
WInv ==
    /\ WorkflowTypeOK
    /\ FailedIsWritten
    /\ ApprovalsNameWrites
    /\ HandlersHoldLock
    /\ CallsAreHandled
    /\ TrackedIsOpen
    /\ RejectionFindsItsRow

LEMMA WInvInit == WorkflowInit => WInv
<1> SUFFICES ASSUME WorkflowInit
             PROVE  WInv
  OBVIOUS
<1>1. \A c \in Callers : job[c].step = "idle" /\ job[c].tracked = FALSE /\ pc[c] = "idle"
  BY DEF WorkflowInit, Init, NoJob
<1>2. row.state = "absent"
  BY DEF WorkflowInit, Init, EmptyRow
<1> QED BY <1>1, <1>2, WorkflowTypeInit DEF WInv, FailedIsWritten, ApprovalsNameWrites,
    HandlersHoldLock, CallsAreHandled, TrackedIsOpen, RejectionFindsItsRow

\* A ledger call moves nobody else's program counter.
LEMMA CallFrame ==
    ASSUME NEW c \in Callers, NEW e \in Callers, e # c, pc \in [Callers -> Steps], Call(c)
    PROVE  pc'[e] = pc[e]
BY DEF Call, SelectGet, SelectSave, QuoteGet, QuoteFence, QuoteAnswer, QuoteSave, BookGet,
   BookRefresh, BookReget, BookFence, BookSend, BookConfirmed, BookRejected, BookUncertain,
   ReconcileGet, ReconcileExpire, ReconcileClaim, ReconcileRead, RecordVerified,
   RecordUnverified, Lose, Goto, Return

\* A handler changes nobody else's job.
LEMMA JobFrame ==
    ASSUME NEW c \in Callers, NEW e \in Callers, e # c, job \in [Callers -> Jobs], Handle(c)
    PROVE  job'[e] = job[e]
BY DEF Handle, Admit, ReadRequest, InsertRow, ReadRow, SetStage, Search, Compare, LedgerCall,
   RecordSelected, Fail, RecordFailure, Answer, Drop, CheckRetry, Approve, GoOn, Leave, Resolve,
   workflow

\* Steps of Stop, of the provider, of the clock and of the operator.
LEMMA OthersStep ==
    ASSUME StopWork \/ World \/ UNCHANGED allVars
    PROVE  pc' = pc /\ job' = job /\ lock' = lock /\ action' = action
BY DEF StopWork, World, Stop, Provider, ProviderBooks, ProviderRefuses, ProviderConfirms,
   ResumeReconciliation, AuthorityChanges, BackoffElapses, WindowCloses, workflow, allVars, vars

\* Every step of a handler enters, goes on, or leaves.
Enters(c) ==
    /\ lock = Free /\ lock' = c
    /\ job[c].step = "idle" /\ job'[c].step \in {"request", "row"}
    /\ pc'[c] = pc[c] /\ row' = row
    /\ IF job'[c].tracked THEN action'.status = "open" ELSE action' = action
GoesOn(c) ==
    /\ job[c].step # "idle" /\ job'[c].step # "idle"
    /\ job'[c].tracked => job[c].tracked
    /\ lock' = lock /\ action' = action
    /\ pc'[c] # "idle" => job'[c].step = "ledger"
Leaves(c) ==
    /\ job[c].step # "idle" /\ job'[c] = NoJob
    /\ lock' = (IF lock = c THEN Free ELSE lock)
    /\ pc'[c] = "idle"
    /\ action' # action => job[c].tracked

LEMMA HandlerShape ==
    ASSUME TypeOK, WorkflowTypeOK, CallsAreHandled, NEW c \in Callers, Handle(c)
    PROVE  Enters(c) \/ GoesOn(c) \/ Leaves(c)
<1>j. job[c] \in Jobs /\ job \in [Callers -> Jobs] /\ pc \in [Callers -> Steps]
  BY DEF WorkflowTypeOK, TypeOK
<1>p. job[c].step # "ledger" => pc[c] = "idle"
  BY DEF CallsAreHandled
<1>l. ASSUME IF pc[c] = "idle" THEN UNCHANGED vars ELSE Lose(c)
      PROVE  pc'[c] = "idle"
  BY <1>l, <1>j DEF Lose, Return, Goto, vars
<1>g. ASSUME NEW step, GoOn(c, step)
      PROVE  job'[c].step = step /\ (job'[c].tracked => job[c].tracked)
  <2>1. job' = [job EXCEPT ![c] = [job[c] EXCEPT !.step = step]]
    BY <1>g DEF GoOn
  <2>2. job'[c] = [job[c] EXCEPT !.step = step]
    BY <2>1, <1>j
  <2> QED BY <2>2, <1>j DEF Jobs
<1>v. Leave(c) => job'[c] = NoJob
  BY <1>j DEF Leave
<1>1. ASSUME NEW op \in Ops, NEW owner \in BOOLEAN, NEW tracked \in BOOLEAN,
             Admit(c, op, owner, tracked)
      PROVE  Enters(c)
  <2>1. job'[c] = [NoJob EXCEPT !.op = op, !.owner = owner, !.tracked = tracked,
                                !.step = IF op = "retry" THEN "row" ELSE "request"]
    BY <1>1, <1>j DEF Admit
  <2> QED BY <1>1, <2>1 DEF Admit, MayEnter, Enters, NoJob, vars
<1>2. CASE SetStage(c) \/ Search(c) \/ Compare(c) \/ CheckRetry(c)
  <2>1. PICK step \in {"search", "ledger", "compare", "answer", "approve"} : GoOn(c, step)
    BY <1>2 DEF SetStage, Search, Compare, CheckRetry
  <2> QED BY <1>2, <2>1, <1>g, <1>p DEF SetStage, Search, Compare, CheckRetry, GoesOn, vars
<1>3. CASE ReadRequest(c) \/ RecordSelected(c)
  <2>1. ASSUME ReadRequest(c)
        PROVE  job'[c].step \in {"failed", "row"} /\ job'[c].tracked = job[c].tracked
    <3>1. PICK step \in {"failed", "row"} :
               job' = [job EXCEPT ![c] = [job[c] EXCEPT !.saved = request, !.step = step]]
      BY <2>1 DEF ReadRequest
    <3>2. job'[c] = [job[c] EXCEPT !.saved = request, !.step = step]
      BY <3>1, <1>j
    <3> QED BY <3>2, <1>j DEF Jobs
  <2>2. ASSUME RecordSelected(c)
        PROVE  job'[c].step = "ledger" /\ job'[c].tracked = job[c].tracked
    <3>1. job' = [job EXCEPT ![c] = [job[c] EXCEPT !.op = "quote", !.step = "ledger"]]
      BY <2>2 DEF RecordSelected
    <3>2. job'[c] = [job[c] EXCEPT !.op = "quote", !.step = "ledger"]
      BY <3>1, <1>j
    <3> QED BY <3>2, <1>j DEF Jobs
  <2>3. CASE ReadRequest(c)
    BY <2>1, <2>3, <1>p DEF ReadRequest, GoesOn, vars
  <2>4. CASE RecordSelected(c)
    BY <2>2, <2>4, <1>p DEF RecordSelected, GoesOn, vars
  <2> QED BY <1>3, <2>3, <2>4
<1>4. CASE InsertRow(c)
  BY <1>4, <1>p DEF InsertRow, Begin, workflow, GoesOn
<1>5. CASE ReadRow(c)
  <2>0. job[c].op \in Ops /\ "reconcile" \in Ops
    BY <1>j DEF Jobs, Ops, WorkerOps
  <2>1. PICK op \in Ops, step \in {"answer", "stage", "failed", "ledger"} : Resolve(c, op, step)
    BY <1>5, <2>0 DEF ReadRow
  <2>2. job'[c].step = step /\ job'[c].tracked = job[c].tracked
    <3>1. job' = [job EXCEPT ![c] = [job[c] EXCEPT !.saved = NewRequest, !.op = op,
                                                   !.step = step]]
      BY <2>1 DEF Resolve
    <3>2. job'[c] = [job[c] EXCEPT !.saved = NewRequest, !.op = op, !.step = step]
      BY <3>1, <1>j
    <3> QED BY <3>2, <1>j DEF Jobs
  <2> QED BY <1>5, <1>p, <2>2 DEF ReadRow, GoesOn, vars
<1>6. CASE LedgerCall(c)
  <2>1. PICK step \in {"ledger", "failed", "selected", "answer"} :
             GoOn(c, step) /\ (pc'[c] # "idle" => step = "ledger")
    BY <1>6 DEF LedgerCall
  <2> QED BY <1>6, <2>1, <1>g DEF LedgerCall, GoesOn
<1>7. CASE Fail(c)
  <2>1. pc'[c] = "idle"
    BY <1>7, <1>l DEF Fail
  <2>2. CASE Leave(c)
    BY <1>7, <2>1, <2>2, <1>v DEF Fail, Leave, Leaves
  <2>3. CASE GoOn(c, "failed") /\ UNCHANGED lock
    BY <1>7, <2>1, <2>3, <1>g DEF Fail, GoesOn
  <2> QED BY <1>7, <2>2, <2>3 DEF Fail
<1>8. CASE RecordFailure(c)
  <2>1. job[c].step = "failed" /\ action' = action /\ pc'[c] = "idle"
    BY <1>8, <1>p DEF RecordFailure, vars
  <2>2. CASE Leave(c)
    BY <2>1, <2>2, <1>v DEF Leave, Leaves
  <2>3. CASE GoOn(c, "answer") /\ UNCHANGED lock
    BY <2>1, <2>3, <1>g DEF GoesOn
  <2> QED BY <1>8, <2>2, <2>3 DEF RecordFailure
<1>9. CASE Answer(c) \/ Approve(c)
  BY <1>9, <1>v, <1>p DEF Answer, Approve, Leave, Leaves, vars
<1>10. CASE Drop(c)
  <2>1. pc'[c] = "idle"
    BY <1>10, <1>l DEF Drop
  <2> QED BY <1>10, <2>1, <1>v DEF Drop, Leave, Leaves
<1> QED BY <1>1, <1>2, <1>3, <1>4, <1>5, <1>6, <1>7, <1>8, <1>9, <1>10 DEF Handle

LEMMA PcFrame ==
    ASSUME TypeOK, NEW c \in Callers, NEW e \in Callers, e # c, Handle(c)
    PROVE  pc'[e] = pc[e]
<1>1. CASE LedgerCall(c)
  <2>1. Start(c) \/ Advance(c)
    BY <1>1 DEF LedgerCall
  <2>2. Call(c)
    BY <2>1 DEF Start, Advance, Call
  <2> QED BY <2>2, CallFrame DEF TypeOK
<1>2. CASE InsertRow(c)
  BY <1>2 DEF InsertRow, Begin
<1>3. CASE Fail(c) \/ Drop(c)
  <2>1. UNCHANGED vars \/ Lose(c)
    BY <1>3 DEF Fail, Drop
  <2> QED BY <2>1, CallFrame DEF TypeOK, Call, vars
<1>4. CASE \/ \E op \in Ops, owner, tracked \in BOOLEAN : Admit(c, op, owner, tracked)
           \/ ReadRequest(c) \/ ReadRow(c) \/ SetStage(c) \/ Search(c) \/ Compare(c)
           \/ RecordSelected(c) \/ RecordFailure(c) \/ Answer(c) \/ CheckRetry(c)
           \/ Approve(c)
  BY <1>4 DEF Admit, ReadRequest, ReadRow, SetStage, Search, Compare,
     RecordSelected, RecordFailure, Answer, CheckRetry, Approve, vars
<1> QED BY <1>1, <1>2, <1>3, <1>4 DEF Handle

LEMMA LockStep ==
    Inv /\ WInv /\ [WorkflowNext]_allVars =>
        HandlersHoldLock' /\ CallsAreHandled' /\ TrackedIsOpen'
<1> SUFFICES ASSUME Inv, WInv, [WorkflowNext]_allVars
             PROVE  HandlersHoldLock' /\ CallsAreHandled' /\ TrackedIsOpen'
  OBVIOUS
<1> USE DEF HandlersHoldLock, CallsAreHandled, TrackedIsOpen
<1>t. TypeOK /\ WorkflowTypeOK /\ HandlersHoldLock /\ CallsAreHandled /\ TrackedIsOpen
  BY DEF Inv, WInv
<1>1. ASSUME NEW c \in Callers, Handle(c)
      PROVE  HandlersHoldLock' /\ CallsAreHandled' /\ TrackedIsOpen'
  <2>f. \A e \in Callers : e # c => job'[e] = job[e] /\ pc'[e] = pc[e]
    BY <1>1, <1>t, JobFrame, PcFrame DEF WorkflowTypeOK
  <2>1. CASE Enters(c)
    <3>1. \A e \in Callers : job[e].step = "idle"
      BY <2>1, <1>t, WorkflowAssumption DEF Enters
    <3>2. \A e \in Callers : ~job[e].tracked /\ pc[e] = "idle"
      BY <3>1, <1>t
    <3> QED BY <2>1, <2>f, <3>1, <3>2 DEF Enters
  <2>2. CASE GoesOn(c)
    <3>1. lock = c
      BY <2>2, <1>t DEF GoesOn
    <3> QED BY <2>2, <2>f, <3>1, <1>t DEF GoesOn
  <2>3. CASE Leaves(c)
    <3>1. lock = c /\ job'[c].step = "idle" /\ ~job'[c].tracked
      BY <2>3, <1>t DEF Leaves, NoJob
    <3>2. \A e \in Callers : e # c => job[e].step = "idle" /\ ~job[e].tracked /\ pc[e] = "idle"
      BY <3>1, <1>t
    <3> QED BY <2>3, <2>f, <3>1, <3>2 DEF Leaves
  <2> QED BY <1>1, <1>t, <2>1, <2>2, <2>3, HandlerShape
<1>2. CASE StopWork \/ World \/ UNCHANGED allVars
  BY <1>2, <1>t, OthersStep
<1> QED BY <1>1, <1>2 DEF WorkflowNext

LEMMA RejectionStep == Inv /\ WInv /\ [WorkflowNext]_allVars => RejectionFindsItsRow'
<1> SUFFICES ASSUME Inv, WInv, [WorkflowNext]_allVars,
                    NEW e \in Callers, pc'[e] \in {"book_send", "book_wire"}
             PROVE  row'.state \in {"booking_dispatched", "booking_uncertain"}
  BY DEF RejectionFindsItsRow
<1>t. /\ row \in Rows /\ pc \in [Callers -> Steps] /\ TypeOK /\ WorkflowTypeOK
      /\ HandlersHoldLock /\ CallsAreHandled
  BY DEF Inv, TypeOK, WInv
<1>0. pc[e] = pc'[e] => row.state \in {"booking_dispatched", "booking_uncertain"}
  BY DEF WInv, RejectionFindsItsRow
<1>1. ASSUME NEW c \in Callers, Handle(c)
      PROVE  row'.state \in {"booking_dispatched", "booking_uncertain"}
  <2>1. CASE e # c
    <3>1. pc[e] = pc'[e] /\ job[e].step = "ledger" /\ lock = e
      BY <1>1, <1>t, <2>1, PcFrame DEF CallsAreHandled, HandlersHoldLock
    <3>2. job[c].step = "idle" /\ Enters(c)
      BY <1>1, <1>t, <2>1, <3>1, HandlerShape DEF HandlersHoldLock, GoesOn, Leaves
    <3> QED BY <3>1, <3>2, <1>0 DEF Enters
  <2>2. CASE e = c
    <3>1. CASE LedgerCall(c)
      <4>1. Start(c) \/ Advance(c)
        BY <3>1 DEF LedgerCall
      <4>2. CASE BookFence(c)
        BY <4>2, <1>t DEF BookFence, Rows
      <4>3. CASE BookSend(c)
        BY <4>3, <2>2, <1>t DEF BookSend, WInv, RejectionFindsItsRow
      <4>4. CASE SelectGet(c) \/ SelectSave(c) \/ QuoteGet(c) \/ QuoteFence(c) \/ QuoteAnswer(c)
                 \/ BookGet(c) \/ BookRefresh(c) \/ BookReget(c) \/ BookConfirmed(c)
                 \/ BookRejected(c) \/ BookUncertain(c) \/ ReconcileGet(c) \/ ReconcileExpire(c)
                 \/ ReconcileClaim(c) \/ ReconcileRead(c) \/ RecordVerified(c)
                 \/ RecordUnverified(c)
        <5>1. pc'[c] \notin {"book_send", "book_wire"}
          BY <4>4, <1>t DEF SelectGet, SelectSave, QuoteGet, QuoteFence, QuoteAnswer, BookGet,
             BookRefresh, BookReget, BookConfirmed, BookRejected, BookUncertain, ReconcileGet,
             ReconcileExpire, ReconcileClaim, ReconcileRead, RecordVerified, RecordUnverified,
             Goto, Return
        <5> QED BY <5>1, <2>2
      <4>5. CASE QuoteSave(c)
        <5>1. cont[c] \in {"idle", "book_reget"}
          BY DEF Inv, TypeOK
        <5>2. pc'[c] \notin {"book_send", "book_wire"}
          BY <4>5, <5>1, <1>t DEF QuoteSave, Goto
        <5> QED BY <5>2, <2>2
      <4> QED BY <4>1, <4>2, <4>3, <4>4, <4>5 DEF Start, Advance
    <3>2. CASE InsertRow(c)
      BY <3>2, <2>2, <1>0 DEF InsertRow, Begin
    <3>3. CASE Fail(c) \/ Drop(c)
      BY <3>3, <2>2, <1>0, <1>t DEF Fail, Drop, Lose, Return, Goto, vars
    <3>4. CASE \/ \E op \in Ops, owner, tracked \in BOOLEAN : Admit(c, op, owner, tracked)
               \/ ReadRequest(c) \/ ReadRow(c) \/ SetStage(c) \/ Search(c) \/ Compare(c)
               \/ RecordSelected(c) \/ RecordFailure(c) \/ Answer(c) \/ CheckRetry(c)
               \/ Approve(c)
      BY <3>4, <1>0 DEF Admit, ReadRequest, ReadRow, SetStage, Search, Compare,
         RecordSelected, RecordFailure, Answer, CheckRetry, Approve, vars
    <3> QED BY <1>1, <3>1, <3>2, <3>3, <3>4 DEF Handle
  <2> QED BY <2>1, <2>2
<1>2. CASE StopWork
  BY <1>2, <1>0, <1>t, OthersStep DEF StopWork, Stop, Rows, Open
<1>3. CASE World \/ UNCHANGED allVars
  BY <1>3, <1>0, <1>t, OthersStep DEF World, Provider, ProviderBooks, ProviderRefuses,
     ProviderConfirms, ResumeReconciliation, AuthorityChanges, BackoffElapses, WindowCloses,
     allVars, vars, Rows
<1> QED BY <1>1, <1>2, <1>3 DEF WorkflowNext

LEMMA ApprovalsStep ==
    Inv /\ WInv /\ [Next]_vars /\ [WorkflowNext]_allVars => ApprovalsNameWrites'
<1> SUFFICES ASSUME Inv, WInv, [Next]_vars, [WorkflowNext]_allVars,
                    NEW e \in Callers, job'[e].step = "approve"
             PROVE  row'.body.dispatch # 0
  BY DEF ApprovalsNameWrites
<1>t. job \in [Callers -> Jobs] /\ job[e] \in Jobs
  BY DEF WInv, WorkflowTypeOK
<1>1. CASE job[e].step = "approve"
  BY <1>1, WrittenStaysWritten DEF WInv, ApprovalsNameWrites
<1>2. CASE job[e].step # "approve"
  <2>1. PICK c \in Callers : Handle(c)
    BY <1>2, OthersStep DEF WorkflowNext
  <2>2. e = c
    BY <2>1, <1>2, <1>t, JobFrame
  <2>3. CASE CheckRetry(c)
    BY <2>3 DEF CheckRetry, WInv, FailedIsWritten, vars
  <2>4. ASSUME NEW step \in JobSteps \ {"approve"}, GoOn(c, step)
        PROVE  FALSE
    <3>1. job' = [job EXCEPT ![c] = [job[c] EXCEPT !.step = step]]
      BY <2>4 DEF GoOn
    <3>2. job'[c] = [job[c] EXCEPT !.step = step]
      BY <3>1, <1>t
    <3> QED BY <3>2, <1>t, <2>2 DEF Jobs
  <2>5. ASSUME NEW op \in Ops, NEW step \in JobSteps \ {"approve"}, Resolve(c, op, step)
        PROVE  FALSE
    <3>1. job' = [job EXCEPT ![c] = [job[c] EXCEPT !.saved = NewRequest, !.op = op,
                                                   !.step = step]]
      BY <2>5 DEF Resolve
    <3>2. job'[c] = [job[c] EXCEPT !.saved = NewRequest, !.op = op, !.step = step]
      BY <3>1, <1>t
    <3> QED BY <3>2, <1>t, <2>2 DEF Jobs
  <2>6. CASE Leave(c)
    BY <2>2, <2>6, <1>t DEF Leave, NoJob
  <2>7. CASE SetStage(c) \/ Search(c) \/ Compare(c) \/ LedgerCall(c) \/ Fail(c)
             \/ RecordFailure(c) \/ Answer(c) \/ Drop(c) \/ Approve(c)
    <3>1. Leave(c) \/ \E step \in JobSteps \ {"approve"} : GoOn(c, step)
      BY <2>7 DEF SetStage, Search, Compare, LedgerCall, Fail, RecordFailure, Answer, Drop,
         Approve, JobSteps
    <3> QED BY <3>1, <2>4, <2>6
  <2>8. CASE ReadRow(c)
    <3>1. job[c].op \in Ops /\ "reconcile" \in Ops
      BY <1>t, <2>2 DEF Jobs, Ops, WorkerOps
    <3>2. \E op \in Ops, step \in JobSteps \ {"approve"} : Resolve(c, op, step)
      BY <2>8, <3>1 DEF ReadRow, JobSteps
    <3> QED BY <3>2, <2>5
  <2>9. CASE \E op \in Ops, owner, tracked \in BOOLEAN : Admit(c, op, owner, tracked)
    <3>1. Enters(c)
      BY <2>1, <2>9, HandlerShape, <1>t DEF Inv, WInv, Admit, GoesOn, Leaves
    <3> QED BY <3>1, <2>2 DEF Enters
  <2>10. CASE ReadRequest(c)
    <3>1. PICK step \in {"failed", "row"} :
               job' = [job EXCEPT ![c] = [job[c] EXCEPT !.saved = request, !.step = step]]
      BY <2>10 DEF ReadRequest
    <3>2. job'[c] = [job[c] EXCEPT !.saved = request, !.step = step]
      BY <3>1, <1>t
    <3> QED BY <3>2, <1>t, <2>2 DEF Jobs
  <2>11. CASE RecordSelected(c)
    <3>1. job' = [job EXCEPT ![c] = [job[c] EXCEPT !.op = "quote", !.step = "ledger"]]
      BY <2>11 DEF RecordSelected
    <3>2. job'[c] = [job[c] EXCEPT !.op = "quote", !.step = "ledger"]
      BY <3>1, <1>t
    <3> QED BY <3>2, <1>t, <2>2 DEF Jobs
  <2>12. CASE InsertRow(c)
    BY <2>12, <1>2 DEF InsertRow, workflow
  <2> QED BY <2>1, <2>3, <2>7, <2>8, <2>9, <2>10, <2>11, <2>12 DEF Handle
<1> QED BY <1>1, <1>2

LEMMA WInvStep == Inv /\ WInv /\ [Next]_vars /\ [WorkflowNext]_allVars => WInv'
BY WorkflowTypeStep, FailedStep, ApprovalsStep, LockStep, RejectionStep DEF WInv

\* What holds of the ledger and of the workflow in every state.
THEOREM WorkflowInvariant == WorkflowSpec => []WInv
<1>1. WorkflowInit => WInv
  BY WInvInit
<1>2. Inv /\ WInv /\ [Next]_vars /\ [WorkflowNext]_allVars => WInv'
  BY WInvStep
<1>3. WorkflowSpec => []Inv /\ [][Next]_vars
  BY WorkflowKeepsLedger, InvHolds, PTL DEF LedgerSpec, Spec
<1> QED BY <1>1, <1>2, <1>3, PTL DEF WorkflowSpec

\* The workflow's rows, copies and histories keep their types.
THEOREM WorkflowTypes == WorkflowSpec => []WorkflowTypeOK
<1>1. WInv => WorkflowTypeOK
  BY DEF WInv
<1> QED BY <1>1, WorkflowInvariant, PTL

\* travel_lock keeps reconciliations away from a booking in flight, so the
\* answer "rejected" finds its row and the hold is given back.
THEOREM RejectionFound == WorkflowSpec => []RejectionFindsItsRow
<1>1. WInv => RejectionFindsItsRow
  BY DEF WInv
<1> QED BY <1>1, WorkflowInvariant, PTL

\* A redelivered action never runs next to its first delivery, nor after its
\* answer is saved.
THEOREM ActionsRunAlone == WorkflowSpec => []ActionRunsAlone
<1>1. WInv => ActionRunsAlone
  <2> SUFFICES ASSUME WInv
               PROVE  ActionRunsAlone
    OBVIOUS
  <2>1. \A c \in Callers : job[c].tracked => lock = c /\ action.status = "open"
    BY DEF WInv, TrackedIsOpen, HandlersHoldLock
  <2> QED BY <2>1 DEF ActionRunsAlone
<1> QED BY <1>1, WorkflowInvariant, PTL
-----------------------------------------------------------------------------
(* The lock is given back.                                                 *)

\* Nobody holds the lock who is not at work: no error, no dropped future and no
\* death of a handler keeps the lock from the next command.
LockIsHeld == lock # Free => job[lock].step # "idle"

LEMMA LockHeldStep ==
    Inv /\ WInv /\ LockIsHeld /\ [WorkflowNext]_allVars => LockIsHeld'
<1> SUFFICES ASSUME Inv, WInv, LockIsHeld, [WorkflowNext]_allVars, lock' # Free
             PROVE  job'[lock'].step # "idle"
  BY DEF LockIsHeld
<1>t. TypeOK /\ WorkflowTypeOK /\ CallsAreHandled /\ HandlersHoldLock
  BY DEF Inv, WInv
<1>1. ASSUME NEW c \in Callers, Handle(c)
      PROVE  job'[lock'].step # "idle"
  <2>1. CASE Enters(c)
    BY <2>1 DEF Enters
  <2>2. CASE GoesOn(c)
    BY <2>2, <1>t DEF GoesOn, HandlersHoldLock
  <2>3. CASE Leaves(c)
    BY <2>3, <1>t DEF Leaves, HandlersHoldLock
  <2> QED BY <1>1, <1>t, <2>1, <2>2, <2>3, HandlerShape
<1>2. CASE StopWork \/ World \/ UNCHANGED allVars
  BY <1>2, OthersStep DEF LockIsHeld
<1> QED BY <1>1, <1>2 DEF WorkflowNext

\* travel_lock is held exactly by the one handler at work: it is never taken by
\* two, and never left behind by one that failed or was dropped.
THEOREM LockFollowsWork ==
    WorkflowSpec => [](LockIsHeld /\ \A c \in Callers : lock = c <=> job[c].step # "idle")
<1>1. WorkflowInit => LockIsHeld
  BY DEF WorkflowInit, LockIsHeld
<1>2. Inv /\ WInv /\ LockIsHeld /\ [WorkflowNext]_allVars => LockIsHeld'
  BY LockHeldStep
<1>3. WInv /\ LockIsHeld => \A c \in Callers : lock = c <=> job[c].step # "idle"
  BY WorkflowAssumption DEF WInv, HandlersHoldLock, LockIsHeld
<1>4. WorkflowSpec => []Inv
  BY WorkflowKeepsLedger, InvHolds, PTL DEF LedgerSpec
<1> QED BY <1>1, <1>2, <1>3, <1>4, WorkflowInvariant, PTL DEF WorkflowSpec
=============================================================================
