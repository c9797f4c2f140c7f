----------------------- MODULE TravelApprovals_proofs -----------------------
(***************************************************************************)
(* What the owner's two decisions mean: a retry needs an approval of the   *)
(* refusal before it, and a Stop is never undone, also when it comes before *)
(* there is a ledger row to stop.                                          *)
(***************************************************************************)
EXTENDS TravelWorkflow_proofs

Fresh == {"researching", "quoting", "quoted"}

\* What the handler in the ledger may rely on.
Commanded(c) ==
    /\ job[c].op = "select" => pc[c] \in {"idle", "select_save"}
    /\ pc[c] = "select_save" => job[c].op = "select"
    /\ job[c].op = "select" /\ row.state = "booking_failed" => row.body.dispatch \in approved
    /\ job[c].op = "quote" =>
         ~request.retry /\ (pc[c] = "idle" => row.state \in {"researching", "stopped"})
    /\ pc[c] \in {"quote_get", "quote_fence"} =>
         ~request.retry /\ row.state \in Fresh \union {"stopped"}
    /\ pc[c] = "reconcile_expire" => row.state \in Held

\* The row as the handler finds it.
Orderly(c) ==
    /\ job[c].step = "row" /\ job[c].saved.retry => row.body.dispatch \in approved
    /\ job[c].step = "approve" => row.state \in {"booking_failed", "stopped"}
    /\ job[c].step = "selected" => row.state \in {"researching", "stopped"}
    /\ job[c].step = "stage" => job[c].op \in {"research", "book", "reconcile"}
    /\ job[c].step = "ledger" => Commanded(c)

HandlersAreOrderly == \A c \in Callers : Orderly(c)

\* A row open to a new quote has no refusal the owner has not answered.
FreshIsApproved ==
    row.state \in Fresh \union {"absent"} => row.body.dispatch \in approved \union {0}

\* An approval in the request is about the row's latest write, and is spent
\* before that row is quoted again.
RetryIsApproved ==
    request.retry => /\ row.state \in {"booking_failed", "researching", "stopped"}
                     /\ row.body.dispatch \in approved

StageTellsStop == request.stage = "stopped" => stopAsked /\ ~request.retry

StoppedRow == row.stopped => row.state \notin Fresh \union {"absent"}

\* Before the row exists no handler has got past reading it.
BeforeRow ==
    row.state = "absent" =>
        /\ ~request.compared
        /\ \A c \in Callers :
             /\ job[c].step \in {"idle", "request", "row", "failed", "answer"}
             /\ job[c].step = "row" => ~job[c].saved.compared

\* A Stop that found no row: the request alone must keep every handler from
\* selecting, quoting and booking.
EarlyStop ==
    stopAsked /\ ~row.stopped =>
        /\ row.state \in {"absent", "researching"}
        /\ request.stage = "stopped"
        /\ \A c \in Callers :
             /\ pc[c] = "idle"
             /\ job[c].step \notin {"selected", "approve"}
             /\ job[c].step = "row" /\ job[c].op = "select" => ~job[c].saved.compared
             /\ job[c].step = "ledger" => job[c].op \in {"book", "reconcile"}

Decisions ==
    /\ HandlersAreOrderly
    /\ FreshIsApproved
    /\ RetryIsApproved
    /\ WritesAreApproved
    /\ StageTellsStop
    /\ StoppedRow
    /\ BeforeRow
    /\ EarlyStop

LEMMA DecisionsInit == WorkflowInit => Decisions
<1> SUFFICES ASSUME WorkflowInit
             PROVE  Decisions
  OBVIOUS
<1>1. \A c \in Callers : job[c].step = "idle"
  BY DEF WorkflowInit, NoJob
<1>2. row.state = "absent" /\ row.body.dispatch = 0 /\ row.stopped = FALSE
  BY DEF WorkflowInit, Init, EmptyRow, EmptyBody
<1>3. request.stage = "waiting" /\ request.retry = FALSE /\ request.compared = FALSE
  BY DEF WorkflowInit, NewRequest
<1>4. stopAsked = FALSE
  BY DEF WorkflowInit
<1>5. HandlersAreOrderly
  BY <1>1 DEF HandlersAreOrderly, Orderly
<1>6. WritesAreApproved
  BY <1>2 DEF WritesAreApproved, Dispatches
<1> QED BY <1>1, <1>2, <1>3, <1>4, <1>5, <1>6 DEF Decisions, FreshIsApproved, RetryIsApproved,
    StageTellsStop, StoppedRow, BeforeRow, EarlyStop, Fresh
-----------------------------------------------------------------------------
(* How the row moves.                                                      *)

SameWrite == row'.body.dispatch = row.body.dispatch

\* The steps of one ledger call, as far as the owner's decisions are concerned.
CallMoves(c) ==
    \/ SameWrite /\ row'.state = row.state
    \/ /\ pc[c] = "select_save" /\ pc'[c] = "idle" /\ ~row.stopped
       /\ SameWrite /\ row.state \in Open /\ row'.state = "researching"
    \/ /\ pc[c] = "quote_fence" /\ ~row.stopped
       /\ SameWrite /\ row.state \in Open /\ row'.state = "quoting"
    \/ /\ ~row.stopped
       /\ SameWrite /\ row.state = "quoting" /\ row'.state = "quoted"
    \/ /\ pc[c] = "book_fence" /\ ~row.stopped
       /\ row.state = "quoted" /\ row'.state = "booking_dispatched"
       /\ row'.body.dispatch = row.body.dispatch + 1
    \/ /\ SameWrite /\ row.state \in Held /\ row'.state \in Held \union {"booking_failed"}
       /\ row'.state = "booking_failed" => pc'[c] = "idle"
    \/ /\ pc[c] = "reconcile_expire"
       /\ SameWrite /\ row'.state = "unresolved_needs_attention"

LEMMA CallMovesRow ==
    ASSUME Inv, NEW c \in Callers, Call(c)
    PROVE  CallMoves(c) /\ row'.stopped = row.stopped
<1>r. /\ row \in Rows /\ row.body \in Bodies /\ pc \in [Callers -> Steps]
      /\ snap[c] \in Rows /\ snap[c].body \in Bodies
  BY DEF Inv, TypeOK, Rows
<1>b. row.state \in Held => SameWrite
  BY BodyStep DEF Next, BodyMove, SameKey, SameWrite
<1>1. CASE SelectSave(c)
  <2>1. Unchanged(c) => row.state \in Open /\ ~row.stopped
    BY <1>1 DEF SelectSave, Unchanged, Inv, OpenCopies, OpenCopy
  <2>2. pc'[c] = "idle"
    BY <1>1, <1>r DEF SelectSave, Return, Goto
  <2> QED BY <1>1, <1>r, <2>1, <2>2 DEF SelectSave, CallMoves, SameWrite, Rows, Bodies
<1>2. CASE QuoteFence(c)
  <2>1. row.state \in Open /\ ~row.stopped /\ snap[c].body = row.body
    BY <1>2 DEF QuoteFence, Unchanged, Inv, OpenCopies, OpenCopy
  <2>2. row' = [row EXCEPT !.state = "quoting",
                           !.body = [row.body EXCEPT !.fence = @ + 1, !.quote = 0]]
    BY <1>2, <2>1 DEF QuoteFence
  <2>3. row'.state = "quoting" /\ row'.stopped = row.stopped /\ SameWrite
    BY <2>2, <1>r DEF Rows, Bodies, SameWrite
  <2> QED BY <1>2, <2>1, <2>3 DEF QuoteFence, CallMoves
<1>3. CASE QuoteSave(c)
  <2>1. row' = [row EXCEPT !.state = "quoted",
                           !.body = [row.body EXCEPT !.quote = row.body.fence]]
    BY <1>3 DEF QuoteSave
  <2>2. row'.state = "quoted" /\ row'.stopped = row.stopped /\ SameWrite
    BY <2>1, <1>r DEF Rows, Bodies, SameWrite
  <2> QED BY <1>3, <2>2 DEF QuoteSave, CallMoves
<1>4. CASE BookFence(c)
  <2>1. row' = [row EXCEPT !.state = "booking_dispatched",
                           !.body = [row.body EXCEPT !.dispatch = row.body.dispatch + 1]]
    BY <1>4 DEF BookFence
  <2>2. /\ row'.state = "booking_dispatched" /\ row'.stopped = row.stopped
        /\ row'.body.dispatch = row.body.dispatch + 1
    BY <2>1, <1>r DEF Rows, Bodies
  <2> QED BY <1>4, <2>2 DEF BookFence, CallMoves
<1>5. CASE BookConfirmed(c)
  <2>1. CASE row.state \in {"booking_dispatched", "booking_uncertain"}
    <3>1. row.state \in Held
      BY <2>1 DEF Held
    <3>2. row'.state = "booking_uncertain" /\ row'.stopped = row.stopped
      BY <1>5, <2>1, <1>r DEF BookConfirmed, Rows
    <3> QED BY <3>1, <3>2, <1>b DEF CallMoves, Held
  <2>2. CASE row.state \notin {"booking_dispatched", "booking_uncertain"}
    BY <1>5, <2>2 DEF BookConfirmed, CallMoves, SameWrite
  <2> QED BY <2>1, <2>2
<1>6. CASE BookRejected(c)
  <2>1. CASE row.state \in {"booking_dispatched", "booking_uncertain"}
    <3>1. row.state \in Held
      BY <2>1 DEF Held
    <3>2. row'.state = "booking_failed" /\ row'.stopped = row.stopped
      BY <1>6, <2>1, <1>r DEF BookRejected, Rows
    <3>3. pc'[c] = "idle"
      BY <1>6, <1>r DEF BookRejected, Return, Goto
    <3> QED BY <3>1, <3>2, <3>3, <1>b DEF CallMoves
  <2>2. CASE row.state \notin {"booking_dispatched", "booking_uncertain"}
    BY <1>6, <2>2 DEF BookRejected, CallMoves, SameWrite
  <2> QED BY <2>1, <2>2
<1>7. CASE BookUncertain(c) \/ ReconcileClaim(c) \/ RecordVerified(c) \/ RecordUnverified(c)
  <2>1. ReconcileClaim(c) => row.state \in Held
    BY DEF ReconcileClaim, Inv, VerifyingCopies, Verifying, CopyIsPast, Reconcilable
  <2>2. CASE row' = row
    BY <2>2 DEF CallMoves, SameWrite
  <2>3. CASE row' # row
    <3>1. row.state \in Held
      BY <1>7, <2>1, <2>3 DEF BookUncertain, RecordVerified, RecordUnverified, Claimed, Held
    <3>2. PICK s \in Held : row'.state = s /\ row'.stopped = row.stopped
      BY <1>7, <2>3, <1>r DEF BookUncertain, ReconcileClaim, RecordVerified, RecordUnverified,
         Rows, Held
    <3> QED BY <3>1, <3>2, <1>b DEF CallMoves, Held
  <2> QED BY <2>2, <2>3
<1>8. CASE ReconcileExpire(c)
  <2>1. row' = row \/ row' = [row EXCEPT !.state = "unresolved_needs_attention"]
    BY <1>8 DEF ReconcileExpire
  <2> QED BY <1>8, <2>1, <1>r DEF ReconcileExpire, CallMoves, SameWrite, Rows
<1>9. CASE SelectGet(c) \/ QuoteGet(c) \/ QuoteAnswer(c) \/ BookGet(c) \/ BookRefresh(c)
           \/ BookReget(c) \/ BookSend(c) \/ ReconcileGet(c) \/ ReconcileRead(c) \/ Lose(c)
  <2>1. row' = row
    BY <1>9 DEF SelectGet, QuoteGet, QuoteAnswer, BookGet, BookRefresh, BookReget, BookSend,
       ReconcileGet, ReconcileRead, Lose
  <2> QED BY <2>1 DEF CallMoves, SameWrite
<1> QED BY <1>1, <1>2, <1>3, <1>4, <1>5, <1>6, <1>7, <1>8, <1>9 DEF Call

Keeps == SameWrite /\ row'.state = row.state /\ row'.stopped = row.stopped

\* A ledger call that moves the row, with what its handler knows of it.
CallAdvances(c) ==
    /\ job[c].step = "ledger"
    /\ UNCHANGED <<request, stopAsked, approved>>
    /\ row'.stopped = row.stopped
    /\ \/ /\ pc[c] = "select_save" /\ job[c].op = "select" /\ ~row.stopped
          /\ SameWrite /\ row.state \in Open /\ row'.state = "researching"
       \/ /\ ~request.retry /\ ~row.stopped
          /\ SameWrite /\ row.state \in Fresh /\ row'.state \in {"quoting", "quoted"}
       \/ /\ ~row.stopped /\ row.state = "quoted" /\ row'.state = "booking_dispatched"
          /\ row'.body.dispatch = row.body.dispatch + 1
       \/ /\ SameWrite /\ row.state \in Held /\ row'.state \in Held \union {"booking_failed"}
          /\ row'.state = "booking_failed" => pc'[c] = "idle"

Begins ==
    /\ SameWrite /\ row.state = "absent" /\ row'.state = "researching"
    /\ row'.stopped = row.stopped
    /\ UNCHANGED workflow

Resumes ==
    /\ SameWrite /\ row.state \in Held /\ row'.state \in Held
    /\ row'.stopped = row.stopped
    /\ UNCHANGED workflow

StopsRow ==
    /\ StopWork
    /\ SameWrite /\ row'.stopped /\ row.state # "absent"
    /\ IF row.state \in Open THEN row'.state = "stopped"
       ELSE IF row.state \in Held THEN row'.state \in Held
       ELSE row'.state = row.state

LEMMA CallAdvancesRow ==
    ASSUME Inv, WInv, Decisions, NEW c \in Callers, LedgerCall(c)
    PROVE  Keeps \/ CallAdvances(c)
<1>1. Start(c) \/ Advance(c)
  BY DEF LedgerCall
<1>2. Call(c)
  BY <1>1 DEF Start, Advance, Call
<1>3. CallMoves(c) /\ row'.stopped = row.stopped
  BY <1>2, CallMovesRow
<1>4. job[c].step = "ledger" /\ UNCHANGED <<request, stopAsked, approved>> /\ Commanded(c)
  BY DEF LedgerCall, Decisions, HandlersAreOrderly, Orderly
<1>5. request.retry => row.state \in {"booking_failed", "researching", "stopped"}
  BY DEF Decisions, RetryIsApproved
<1>6. CASE pc[c] = "quote_fence" /\ row.state \in Open
  <2>1. ~request.retry /\ row.state \in Fresh
    BY <1>4, <1>6 DEF Commanded, Open, Fresh
  <2> QED BY <1>3, <1>4, <1>5, <1>6, <2>1 DEF CallMoves, CallAdvances, Keeps, Fresh, Open, Held,
          Commanded
<1>7. CASE ~(pc[c] = "quote_fence" /\ row.state \in Open)
  BY <1>3, <1>4, <1>5, <1>7 DEF CallMoves, CallAdvances, Keeps, Fresh, Open, Held, Commanded
<1> QED BY <1>6, <1>7

LEMMA OtherMoves ==
    ASSUME Inv, StopWork \/ World \/ UNCHANGED allVars
    PROVE  Keeps \/ Resumes \/ StopsRow
<1>r. row \in Rows /\ row.state \in States
  BY DEF Inv, TypeOK, Rows
<1>1. CASE StopWork
  <2>1. CASE Stop
    BY <1>1, <2>1, <1>r DEF Stop, StopsRow, SameWrite, Rows, States, Open, Held
  <2>2. CASE row' = row
    BY <2>2 DEF Keeps, SameWrite
  <2> QED BY <1>1, <2>1, <2>2 DEF StopWork
<1>2. CASE World
  BY <1>2, <1>r DEF World, Provider, ProviderBooks, ProviderRefuses, ProviderConfirms,
     ResumeReconciliation, AuthorityChanges, BackoffElapses, WindowCloses, Resumes, Keeps,
     SameWrite, Rows, Held
<1>3. CASE UNCHANGED allVars
  BY <1>3 DEF allVars, vars, Keeps, SameWrite
<1> QED BY <1>1, <1>2, <1>3

LEMMA RowMoves ==
    ASSUME Inv, WInv, Decisions, [WorkflowNext]_allVars
    PROVE  \/ Keeps \/ Begins \/ Resumes \/ StopsRow
           \/ \E c \in Callers : CallAdvances(c)
<1>r. row \in Rows
  BY DEF Inv, TypeOK
<1>1. ASSUME NEW c \in Callers, Handle(c)
      PROVE  Keeps \/ Begins \/ CallAdvances(c)
  <2>1. CASE LedgerCall(c)
    BY <2>1, CallAdvancesRow
  <2>2. CASE InsertRow(c)
    BY <2>2, <1>r DEF InsertRow, Begin, Begins, SameWrite, Rows
  <2>3. CASE ~LedgerCall(c) /\ ~InsertRow(c)
    <3>1. row' = row
      BY <1>1, <2>3 DEF Handle, Admit, ReadRequest, ReadRow, SetStage, Search, Compare,
         RecordSelected, Fail, RecordFailure, Answer, Drop, CheckRetry, Approve, Lose, vars
    <3> QED BY <3>1 DEF Keeps, SameWrite
  <2> QED BY <2>1, <2>2, <2>3
<1> QED BY <1>1, OtherMoves DEF WorkflowNext

\* Who writes the request.
LEMMA RequestMoves ==
    ASSUME WInv, [WorkflowNext]_allVars
    PROVE  /\ approved \subseteq approved'
           /\ stopAsked => stopAsked'
           /\ stopAsked' => stopAsked \/ StopWork
           /\ request'.retry => request.retry \/ \E c \in Callers : Approve(c)
           /\ request'.compared => request.compared \/ \E c \in Callers : Compare(c)
           /\ request'.stage = "stopped" =>
                request' = request \/ StopWork
           /\ request.stage = "stopped" =>
                request' = request \/ StopWork \/ \E c \in Callers : Approve(c)
<1>t. request \in Requests
  BY DEF WInv, WorkflowTypeOK
<1>1. ASSUME NEW c \in Callers, Handle(c), request' # request
      PROVE  /\ approved \subseteq approved' /\ stopAsked' = stopAsked
             /\ request'.retry => request.retry \/ Approve(c)
             /\ request'.compared => request.compared \/ Compare(c)
             /\ request'.stage # "stopped"
             /\ request.stage # "stopped" \/ Approve(c)
  <2>1. CASE SetStage(c)
    <3>1. PICK s \in Stages \ {"stopped"} : SetRequest([request EXCEPT !.stage = s])
      BY <2>1 DEF SetStage, Stages
    <3> QED BY <1>1, <1>t, <2>1, <3>1 DEF SetStage, SetRequest, Requests
  <2>2. CASE Compare(c)
    BY <1>1, <1>t, <2>2 DEF Compare, SetRequest, Requests
  <2>3. CASE RecordSelected(c)
    BY <1>1, <1>t, <2>3 DEF RecordSelected, SetRequest, Requests
  <2>4. CASE RecordFailure(c)
    <3>1. PICK s \in {"outside_mandate", "provider_failure"} :
               SetRequest([request EXCEPT !.stage = s])
      BY <1>1, <2>4 DEF RecordFailure
    <3> QED BY <1>1, <1>t, <2>4, <3>1 DEF RecordFailure, SetRequest, Requests
  <2>5. CASE Approve(c)
    BY <1>t, <2>5 DEF Approve, Requests
  <2> QED BY <1>1, <2>1, <2>2, <2>3, <2>4, <2>5 DEF Handle, Admit, ReadRequest, InsertRow, ReadRow,
          Search, LedgerCall, Fail, Answer, Drop, CheckRetry, workflow
<1>2. ASSUME NEW c \in Callers, Handle(c), request' = request
      PROVE  approved \subseteq approved' /\ stopAsked' = stopAsked
  BY <1>2 DEF Handle, Admit, ReadRequest, InsertRow, ReadRow, SetStage, Search, Compare,
     LedgerCall, RecordSelected, Fail, RecordFailure, Answer, Drop, CheckRetry, Approve, workflow
<1>3. CASE StopWork
  BY <1>3, <1>t DEF StopWork, Requests
<1>4. CASE World \/ UNCHANGED allVars
  BY <1>4 DEF World, workflow, allVars
<1> QED BY <1>1, <1>2, <1>3, <1>4 DEF WorkflowNext

\* An approval is about the row's latest write.
LEMMA ApproveFacts ==
    ASSUME WInv, Decisions, NEW c \in Callers, Approve(c)
    PROVE  /\ row' = row /\ row.state \in {"booking_failed", "stopped"}
           /\ row.body.dispatch \in approved'
BY DEF Approve, Decisions, HandlersAreOrderly, Orderly, vars

LEMMA ApprovedStep ==
    ASSUME Inv, WInv, Decisions, [WorkflowNext]_allVars
    PROVE  FreshIsApproved' /\ RetryIsApproved' /\ WritesAreApproved' /\ StoppedRow'
<1>t. row.body.dispatch \in Nat
  BY LedgerAssumption DEF Inv, TypeOK, Rows, Bodies
<1>d. FreshIsApproved /\ RetryIsApproved /\ WritesAreApproved /\ StoppedRow
  BY DEF Decisions
<1>a. approved \subseteq approved'
  BY RequestMoves
<1>1. CASE Keeps
  <2>1. FreshIsApproved' /\ WritesAreApproved' /\ StoppedRow'
    BY <1>1, <1>a, <1>d DEF Keeps, SameWrite, FreshIsApproved, WritesAreApproved, StoppedRow
  <2>2. CASE \E c \in Callers : Approve(c)
    BY <2>1, <2>2, ApproveFacts DEF RetryIsApproved
  <2>3. CASE ~\E c \in Callers : Approve(c)
    BY <1>1, <1>a, <1>d, <2>1, <2>3, RequestMoves DEF Keeps, SameWrite, RetryIsApproved
  <2> QED BY <2>2, <2>3
<1>2. CASE Begins \/ Resumes
  <2>1. request' = request /\ approved' = approved
    BY <1>2 DEF Begins, Resumes, workflow
  <2> QED BY <1>2, <1>d, <2>1 DEF Begins, Resumes, SameWrite, FreshIsApproved, RetryIsApproved,
          WritesAreApproved, StoppedRow, Fresh, Held
<1>3. CASE StopsRow
  <2>1. request'.retry = FALSE
    BY <1>3 DEF StopsRow, StopWork, WInv, WorkflowTypeOK, Requests
  <2>2. WritesAreApproved'
    BY <1>3, <1>a, <1>d DEF StopsRow, SameWrite, WritesAreApproved
  <2>3. row'.state \notin Fresh \union {"absent"}
    BY <1>3, <1>d DEF StopsRow, Fresh, Open, Held, Inv, TypeOK, Rows, States
  <2> QED BY <2>1, <2>2, <2>3 DEF FreshIsApproved, RetryIsApproved, StoppedRow
<1>4. ASSUME NEW c \in Callers, CallAdvances(c)
      PROVE  FreshIsApproved' /\ RetryIsApproved' /\ WritesAreApproved' /\ StoppedRow'
  <2>1. CASE SameWrite
    <3>1. WritesAreApproved'
      BY <1>a, <1>d, <2>1 DEF SameWrite, WritesAreApproved
    <3>2. StoppedRow'
      BY <1>4, <1>d, <2>1 DEF CallAdvances, StoppedRow, Held, Fresh
    <3>3. RetryIsApproved'
      BY <1>4, <1>d, <2>1 DEF CallAdvances, SameWrite, RetryIsApproved, Held, Fresh, Open
    <3>4. FreshIsApproved'
      <4>1. job[c].op = "select" /\ row.state = "booking_failed" => row.body.dispatch \in approved
        BY <1>4 DEF CallAdvances, Decisions, HandlersAreOrderly, Orderly, Commanded
      <4> QED BY <1>4, <1>d, <2>1, <4>1 DEF CallAdvances, SameWrite, FreshIsApproved, Held,
              Fresh, Open
    <3> QED BY <3>1, <3>2, <3>3, <3>4
  <2>2. CASE ~SameWrite
    <3>1. /\ row.state = "quoted" /\ row'.state = "booking_dispatched"
          /\ row'.body.dispatch = row.body.dispatch + 1
          /\ request' = request /\ approved' = approved
      BY <1>4, <2>2 DEF CallAdvances
    <3>2. row.body.dispatch \in approved \union {0}
      BY <1>d, <3>1 DEF FreshIsApproved, Fresh
    <3>3. WritesAreApproved'
      <4> SUFFICES ASSUME NEW d \in Dispatches, d < row.body.dispatch + 1
                   PROVE  d \in approved
        BY <3>1 DEF WritesAreApproved
      <4>1. d \in Nat \ {0}
        BY LedgerAssumption DEF Dispatches
      <4>2. CASE d < row.body.dispatch
        BY <4>2, <1>d DEF WritesAreApproved
      <4>3. CASE d = row.body.dispatch
        BY <4>1, <4>3, <3>2
      <4> QED BY <1>t, <4>1, <4>2, <4>3
    <3>4. ~request.retry
      BY <1>d, <3>1 DEF RetryIsApproved
    <3> QED BY <3>1, <3>3, <3>4 DEF FreshIsApproved, RetryIsApproved, StoppedRow, Fresh
  <2> QED BY <2>1, <2>2
<1> QED BY <1>1, <1>2, <1>3, <1>4, RowMoves
-----------------------------------------------------------------------------
(* The handlers.                                                           *)

\* While a handler steps the others are out.
LEMMA OthersIdle ==
    ASSUME Inv, WInv, NEW c \in Callers, NEW e \in Callers, e # c, Handle(c)
    PROVE  /\ job[e].step = "idle" /\ job'[e].step = "idle"
           /\ pc[e] = "idle" /\ pc'[e] = "idle"
<1>t. TypeOK /\ WorkflowTypeOK /\ HandlersHoldLock /\ CallsAreHandled
  BY DEF Inv, WInv
<1>1. job[e].step = "idle"
  BY <1>t, HandlerShape, WorkflowAssumption DEF Enters, GoesOn, Leaves, HandlersHoldLock
<1>2. pc[e] = "idle"
  BY <1>1, <1>t DEF CallsAreHandled
<1> QED BY <1>1, <1>2, <1>t, JobFrame, PcFrame DEF WorkflowTypeOK

\* What the simple steps leave in the handler's job.
LEMMA JobFacts ==
    ASSUME WInv, NEW c \in Callers
    PROVE  /\ \A step : GoOn(c, step) =>
                /\ job'[c].step = step /\ job'[c].op = job[c].op
                /\ job'[c].saved = job[c].saved
           /\ \A op, step : Resolve(c, op, step) =>
                /\ job'[c].step = step /\ job'[c].op = op /\ job'[c].saved = NewRequest
           /\ Leave(c) => job'[c] = NoJob
           /\ ReadRequest(c) => job'[c].op = job[c].op /\ job'[c].saved = request
           /\ RecordSelected(c) => job'[c].op = "quote" /\ job'[c].step = "ledger"
           /\ \A op, owner, tracked : Admit(c, op, owner, tracked) =>
                /\ job'[c].step = (IF op = "retry" THEN "row" ELSE "request")
                /\ job'[c].saved = NewRequest
                /\ job'[c].op = op
<1>t. job \in [Callers -> Jobs] /\ job[c] \in Jobs
  BY DEF WInv, WorkflowTypeOK
<1>1. ASSUME NEW step, GoOn(c, step)
      PROVE  /\ job'[c].step = step /\ job'[c].op = job[c].op
             /\ job'[c].saved = job[c].saved
  <2>1. job'[c] = [job[c] EXCEPT !.step = step]
    BY <1>1, <1>t DEF GoOn
  <2> QED BY <2>1, <1>t DEF Jobs
<1>2. ASSUME NEW op, NEW step, Resolve(c, op, step)
      PROVE  job'[c].step = step /\ job'[c].op = op /\ job'[c].saved = NewRequest
  <2>1. job'[c] = [job[c] EXCEPT !.saved = NewRequest, !.op = op, !.step = step]
    BY <1>2, <1>t DEF Resolve
  <2> QED BY <2>1, <1>t DEF Jobs
<1>3. Leave(c) => job'[c] = NoJob
  BY <1>t DEF Leave
<1>4. ASSUME ReadRequest(c)
      PROVE  job'[c].op = job[c].op /\ job'[c].saved = request
  <2>1. PICK step : job'[c] = [job[c] EXCEPT !.saved = request, !.step = step]
    BY <1>4, <1>t DEF ReadRequest
  <2> QED BY <2>1, <1>t DEF Jobs
<1>5. ASSUME RecordSelected(c)
      PROVE  job'[c].op = "quote" /\ job'[c].step = "ledger"
  <2>1. job'[c] = [job[c] EXCEPT !.op = "quote", !.step = "ledger"]
    BY <1>5, <1>t DEF RecordSelected
  <2> QED BY <2>1, <1>t DEF Jobs
<1>6. ASSUME NEW op, NEW owner, NEW tracked, Admit(c, op, owner, tracked)
      PROVE  /\ job'[c].step = (IF op = "retry" THEN "row" ELSE "request")
             /\ job'[c].saved = NewRequest
             /\ job'[c].op = op
  <2>1. job'[c] = [NoJob EXCEPT !.op = op, !.owner = owner, !.tracked = tracked,
                                !.step = IF op = "retry" THEN "row" ELSE "request"]
    BY <1>6, <1>t DEF Admit
  <2> QED BY <2>1 DEF NoJob
<1> QED BY <1>1, <1>2, <1>3, <1>4, <1>5, <1>6

LEMMA CommandStep ==
    ASSUME Inv, WInv, Decisions, NEW c \in Callers, LedgerCall(c)
    PROVE  Orderly(c)'
<1>t. pc \in [Callers -> Steps] /\ cont[c] \in {"idle", "book_reget"} /\ row \in Rows
  BY DEF Inv, TypeOK
<1>d. Commanded(c) /\ RetryIsApproved
  BY DEF LedgerCall, Decisions, HandlersAreOrderly, Orderly
<1>o. job'[c].op = job[c].op /\ UNCHANGED <<request, approved>>
  BY JobFacts DEF LedgerCall
<1>g. \A s, r : Goto(c, s, r) => pc'[c] = s
  BY <1>t DEF Goto
<1>1. CASE pc[c] = "idle" /\ Start(c)
  <2>1. CASE job[c].op = "select" /\ SelectGet(c)
    <3>1. pc'[c] = "select_save" /\ row' = row
      BY <2>1, <1>g DEF SelectGet
    <3>2. job'[c].step = "ledger"
      BY <3>1, JobFacts DEF LedgerCall
    <3> QED BY <2>1, <3>1, <3>2, <1>d, <1>o DEF Orderly, Commanded
  <2>2. CASE job[c].op = "quote" /\ QuoteGet(c)
    <3>1. pc'[c] = "quote_fence" /\ row' = row
      BY <2>2, <1>g DEF QuoteGet
    <3>2. job'[c].step = "ledger"
      BY <3>1, JobFacts DEF LedgerCall
    <3> QED BY <1>1, <2>2, <3>1, <3>2, <1>d, <1>o DEF Orderly, Commanded, Fresh
  <2>3. CASE job[c].op = "book" /\ (BookGet(c) \/ BookRefresh(c))
    <3>1. pc'[c] \in {"book_fence", "quote_get"} /\ row' = row /\ row.state = "quoted"
      BY <2>3, <1>g DEF BookGet, BookRefresh
    <3>2. job'[c].step = "ledger"
      BY <3>1, JobFacts DEF LedgerCall
    <3>3. ~request.retry
      BY <3>1, <1>d DEF RetryIsApproved
    <3> QED BY <2>3, <3>1, <3>2, <3>3, <1>o DEF Orderly, Commanded, Fresh
  <2>4. CASE job[c].op = "reconcile" /\ ReconcileGet(c)
    <3>1. /\ pc'[c] \in {"reconcile_expire", "reconcile_claim"} /\ row' = row
          /\ row.state \in Held
      BY <2>4, <1>g DEF ReconcileGet, Reconcilable
    <3>2. job'[c].step = "ledger"
      BY <3>1, JobFacts DEF LedgerCall
    <3> QED BY <2>4, <3>1, <3>2, <1>o DEF Orderly, Commanded
  <2> QED BY <1>1, <2>1, <2>2, <2>3, <2>4 DEF Start
<1>2. CASE pc[c] # "idle" /\ Advance(c)
  <2>1. CASE SelectSave(c)
    <3>1. pc'[c] = "idle" /\ job[c].op = "select"
      BY <2>1, <1>d, <1>g DEF SelectSave, Return, Commanded
    <3>2. job'[c].step = (IF Conflicts(c) THEN "failed" ELSE "selected")
      BY <3>1, JobFacts DEF LedgerCall
    <3>3. ~Conflicts(c) => row'.state = "researching"
      BY <2>1, <1>t DEF SelectSave, Conflicts, Rows
    <3> QED BY <3>2, <3>3 DEF Orderly
  <2>2. CASE ~SelectSave(c)
    <3>1. job[c].op # "select"
      <4>1. pc[c] # "select_save"
        BY <1>2, <2>2 DEF Advance, QuoteGet, QuoteFence, QuoteAnswer, QuoteSave, BookReget,
           BookFence, BookSend, BookConfirmed, BookRejected, BookUncertain, ReconcileGet,
           ReconcileExpire, ReconcileClaim, ReconcileRead, RecordVerified, RecordUnverified
      <4> QED BY <1>2, <4>1, <1>d DEF Commanded
    <3>2. /\ job'[c].step \in {"ledger", "failed", "answer"}
          /\ job'[c].step = "ledger" => pc'[c] # "idle"
      BY <3>1, JobFacts DEF LedgerCall
    <3>3. CASE QuoteGet(c)
      <4>1. pc'[c] = "quote_fence" /\ row' = row /\ pc[c] = "quote_get"
        BY <1>2, <3>3, <1>g DEF QuoteGet
      <4> QED BY <3>1, <3>2, <4>1, <1>d, <1>o DEF Orderly, Commanded
    <3>4. CASE ReconcileGet(c)
      <4>1. /\ pc'[c] \in {"reconcile_expire", "reconcile_claim"} /\ row' = row
            /\ row.state \in Held
        BY <3>4, <1>g DEF ReconcileGet, Reconcilable
      <4> QED BY <3>1, <3>2, <4>1, <1>d, <1>o DEF Orderly, Commanded
    <3>5. CASE ~QuoteGet(c) /\ ~ReconcileGet(c)
      <4>1. pc'[c] \notin {"select_save", "quote_get", "quote_fence", "reconcile_expire"}
        BY <1>2, <2>2, <3>5, <1>g, <1>t DEF Advance, QuoteFence, QuoteAnswer, QuoteSave, BookReget,
           BookFence, BookSend, BookConfirmed, BookRejected, BookUncertain, ReconcileExpire,
           ReconcileClaim, ReconcileRead, RecordVerified, RecordUnverified, Return
      <4> QED BY <3>1, <3>2, <4>1, <1>d, <1>o DEF Orderly, Commanded
    <3> QED BY <3>3, <3>4, <3>5
  <2> QED BY <2>1, <2>2
<1> QED BY <1>1, <1>2 DEF LedgerCall

\* What else a handler does to its own part.
LEMMA HandlerStep ==
    ASSUME Inv, WInv, Decisions, NEW c \in Callers, Handle(c), ~LedgerCall(c)
    PROVE  Orderly(c)'
<1>t. pc \in [Callers -> Steps] /\ row \in Rows /\ request \in Requests
  BY DEF Inv, TypeOK, WInv, WorkflowTypeOK
<1>d. Orderly(c) /\ RetryIsApproved /\ StageTellsStop
  BY DEF Decisions, HandlersAreOrderly
<1>p. job[c].step # "ledger" => pc[c] = "idle"
  BY DEF WInv, CallsAreHandled
<1>v. Leave(c) => Orderly(c)'
  BY JobFacts DEF NoJob, Orderly
<1>g. \A step \in {"search", "compare", "answer", "failed"} : GoOn(c, step) => Orderly(c)'
  BY JobFacts DEF Orderly
<1>1. ASSUME NEW op \in Ops, NEW owner \in BOOLEAN, NEW tracked \in BOOLEAN,
             Admit(c, op, owner, tracked)
      PROVE  Orderly(c)'
  <2>1. job'[c].step \in {"row", "request"} /\ job'[c].saved.retry = FALSE
    BY <1>1, JobFacts DEF NewRequest
  <2> QED BY <2>1 DEF Orderly
<1>2. CASE ReadRequest(c)
  <2>1. job'[c].step \in {"failed", "row"}
    <3>1. PICK step \in {"failed", "row"} :
               job' = [job EXCEPT ![c] = [job[c] EXCEPT !.saved = request, !.step = step]]
      BY <1>2 DEF ReadRequest
    <3>2. job'[c] = [job[c] EXCEPT !.saved = request, !.step = step]
      BY <3>1 DEF WInv, WorkflowTypeOK
    <3> QED BY <3>2 DEF WInv, WorkflowTypeOK, Jobs
  <2>2. job'[c].saved = request /\ row' = row /\ approved' = approved
    BY <1>2, JobFacts DEF ReadRequest, vars
  <2> QED BY <2>1, <2>2, <1>d DEF Orderly, RetryIsApproved
<1>3. CASE InsertRow(c)
  <2>1. /\ job' = job /\ approved' = approved /\ job[c].step = "row"
        /\ row'.body = row.body
    BY <1>3, <1>t DEF InsertRow, Begin, workflow, Rows
  <2> QED BY <2>1, <1>d DEF Orderly
<1>4. CASE ReadRow(c)
  <2>1. UNCHANGED <<row, pc, approved>> /\ pc[c] = "idle" /\ job[c].step = "row"
    BY <1>4, <1>p DEF ReadRow, vars
  <2>2. CASE Resolve(c, job[c].op, "answer") \/ Resolve(c, job[c].op, "failed")
    BY <2>2, JobFacts DEF Orderly
  <2>3. CASE Resolve(c, "reconcile", "stage")
    BY <2>3, JobFacts DEF Orderly
  <2>4. CASE job[c].op \in {"research", "book"} /\ Resolve(c, job[c].op, "stage")
    BY <2>4, JobFacts DEF Orderly
  <2>5. CASE /\ job[c].op = "select" /\ Resolve(c, job[c].op, "ledger")
             /\ ~Refuses(job[c].op, job[c].saved, row)
    <3>1. job'[c].op = "select" /\ job'[c].step = "ledger"
      BY <2>5, JobFacts
    <3>2. row.state = "booking_failed" => row.body.dispatch \in approved
      BY <2>1, <2>5, <1>d DEF Refuses, Approved, Orderly
    <3> QED BY <2>1, <3>1, <3>2 DEF Orderly, Commanded
  <2> QED BY <1>4, <2>2, <2>3, <2>4, <2>5 DEF ReadRow
<1>5. CASE SetStage(c)
  <2>1. /\ UNCHANGED <<row, pc, approved>> /\ pc[c] = "idle"
        /\ job[c].op \in {"research", "book", "reconcile"}
    BY <1>5, <1>p, <1>d DEF SetStage, vars, Orderly
  <2>2. job'[c].op = job[c].op /\ job'[c].step \in {"search", "ledger"}
    BY <1>5, JobFacts DEF SetStage
  <2> QED BY <2>1, <2>2 DEF Orderly, Commanded
<1>6. CASE RecordSelected(c)
  <2>1. /\ UNCHANGED <<row, pc, approved>> /\ pc[c] = "idle"
        /\ row.state \in {"researching", "stopped"}
    BY <1>6, <1>p, <1>d DEF RecordSelected, vars, Orderly
  <2>2. job'[c].op = "quote" /\ job'[c].step = "ledger"
    BY <1>6, JobFacts
  <2>3. ~request'.retry
    BY <1>6, <1>t, <1>d DEF RecordSelected, SetRequest, Requests, StageTellsStop
  <2> QED BY <2>1, <2>2, <2>3 DEF Orderly, Commanded
<1>7. CASE CheckRetry(c)
  BY <1>7, JobFacts DEF CheckRetry, Orderly, vars
<1>8. CASE Search(c) \/ Compare(c) \/ Fail(c) \/ RecordFailure(c) \/ Answer(c) \/ Drop(c)
           \/ Approve(c)
  BY <1>8, <1>g, <1>v DEF Search, Compare, Fail, RecordFailure, Answer, Drop, Approve
<1> QED BY <1>1, <1>2, <1>3, <1>4, <1>5, <1>6, <1>7, <1>8 DEF Handle

LEMMA OrderlyStep ==
    ASSUME Inv, WInv, Decisions, [WorkflowNext]_allVars
    PROVE  HandlersAreOrderly'
<1> SUFFICES ASSUME NEW e \in Callers
             PROVE  Orderly(e)'
  BY DEF HandlersAreOrderly
<1>1. ASSUME NEW c \in Callers, Handle(c)
      PROVE  Orderly(e)'
  <2>1. CASE e = c
    BY <1>1, <2>1, CommandStep, HandlerStep
  <2>2. CASE e # c
    BY <1>1, <2>2, OthersIdle DEF Orderly
  <2> QED BY <2>1, <2>2
<1>2. CASE StopWork \/ World \/ UNCHANGED allVars
  <2>1. pc' = pc /\ job' = job /\ approved' = approved /\ (request'.retry => request.retry)
    BY <1>2, OthersStep DEF StopWork, World, workflow, allVars, WInv, WorkflowTypeOK, Requests
  <2>2. Keeps \/ Resumes \/ StopsRow
    BY <1>2, OtherMoves
  <2>3. /\ row'.body.dispatch = row.body.dispatch
        /\ row'.state = "booking_failed" => row.state = "booking_failed"
        /\ row.state \in {"booking_failed", "stopped"} =>
             row'.state \in {"booking_failed", "stopped"}
        /\ row.state \in {"researching", "stopped"} => row'.state \in {"researching", "stopped"}
        /\ row.state \in Fresh \union {"stopped"} => row'.state \in Fresh \union {"stopped"}
        /\ row.state \in Held => row'.state \in Held
    BY <2>2 DEF Keeps, Resumes, StopsRow, SameWrite, Fresh, Held, Open
  <2>4. Orderly(e)
    BY DEF Decisions, HandlersAreOrderly
  <2> QED BY <2>1, <2>3, <2>4 DEF Orderly, Commanded
<1> QED BY <1>1, <1>2 DEF WorkflowNext

-----------------------------------------------------------------------------
(* Stop.                                                                   *)

LEMMA StageStep ==
    ASSUME WInv, Decisions, [WorkflowNext]_allVars
    PROVE  StageTellsStop'
<1>1. CASE StopWork
  BY <1>1 DEF StopWork, StageTellsStop, WInv, WorkflowTypeOK, Requests
<1>2. CASE request' = request
  BY <1>2, RequestMoves DEF StageTellsStop, Decisions
<1> QED BY <1>1, <1>2, RequestMoves DEF StageTellsStop

LEMMA BeforeRowStep ==
    ASSUME Inv, WInv, Decisions, [WorkflowNext]_allVars
    PROVE  BeforeRow'
<1> SUFFICES ASSUME row'.state = "absent"
             PROVE  /\ ~request'.compared
                    /\ \A e \in Callers :
                         /\ job'[e].step \in {"idle", "request", "row", "failed", "answer"}
                         /\ job'[e].step = "row" => ~job'[e].saved.compared
  BY DEF BeforeRow
<1>1. row.state = "absent"
  BY RowMoves DEF Keeps, Begins, Resumes, StopsRow, CallAdvances, SameWrite, Fresh, Open, Held
<1>2. /\ ~request.compared
      /\ \A e \in Callers :
           /\ job[e].step \in {"idle", "request", "row", "failed", "answer"}
           /\ job[e].step = "row" => ~job[e].saved.compared
  BY <1>1 DEF Decisions, BeforeRow
<1>3. ~request'.compared
  BY <1>2, RequestMoves DEF Compare
<1>4. ASSUME NEW c \in Callers, Handle(c), NEW e \in Callers
      PROVE  /\ job'[e].step \in {"idle", "request", "row", "failed", "answer"}
             /\ job'[e].step = "row" => ~job'[e].saved.compared
  <2>1. CASE e # c
    BY <1>4, <2>1, OthersIdle
  <2>2. CASE e = c
    <3>1. ASSUME NEW op \in Ops, NEW owner \in BOOLEAN, NEW tracked \in BOOLEAN,
                 Admit(c, op, owner, tracked)
          PROVE  /\ job'[c].step \in {"row", "request"} /\ job'[c].saved.compared = FALSE
      BY <3>1, JobFacts DEF NewRequest
    <3>2. CASE ReadRequest(c)
      <4>1. PICK step \in {"failed", "row"} :
                 job' = [job EXCEPT ![c] = [job[c] EXCEPT !.saved = request, !.step = step]]
        BY <3>2 DEF ReadRequest
      <4>2. job'[c] = [job[c] EXCEPT !.saved = request, !.step = step]
        BY <4>1 DEF WInv, WorkflowTypeOK
      <4>3. job'[c].step = step /\ job'[c].saved = request
        BY <4>2 DEF WInv, WorkflowTypeOK, Jobs
      <4> QED BY <4>3, <2>2, <1>2
    <3>3. CASE Fail(c) \/ RecordFailure(c) \/ Answer(c) \/ Drop(c)
      <4>1. GoOn(c, "failed") \/ GoOn(c, "answer") \/ Leave(c)
        BY <3>3 DEF Fail, RecordFailure, Answer, Drop
      <4>2. job'[c].step \in {"failed", "answer", "idle"}
        BY <4>1, JobFacts DEF NoJob
      <4> QED BY <4>2, <2>2
    <3>4. ~InsertRow(c)
      BY <1>1 DEF InsertRow, Begin, Inv, TypeOK, Rows
    <3>5. ~ReadRow(c) /\ ~CheckRetry(c)
      BY <1>1 DEF ReadRow, CheckRetry
    <3>6. /\ ~SetStage(c) /\ ~Search(c) /\ ~Compare(c) /\ ~LedgerCall(c) /\ ~RecordSelected(c)
          /\ ~Approve(c)
      BY <1>2 DEF SetStage, Search, Compare, LedgerCall, RecordSelected, Approve
    <3> QED BY <1>4, <2>2, <3>1, <3>2, <3>3, <3>4, <3>5, <3>6 DEF Handle
  <2> QED BY <2>1, <2>2
<1>5. CASE StopWork \/ World \/ UNCHANGED allVars
  BY <1>2, <1>3, <1>5, OthersStep
<1> QED BY <1>3, <1>4, <1>5 DEF WorkflowNext

\* A handler that found no row before the Stop reaches no statement of the ledger
\* that does anything.
LEMMA EarlyHandler ==
    ASSUME Inv, WInv, Decisions, stopAsked, ~row.stopped, NEW c \in Callers, Handle(c)
    PROVE  /\ row' = row \/ InsertRow(c)
           /\ request' = request
           /\ pc'[c] = "idle"
           /\ job'[c].step \notin {"selected", "approve"}
           /\ job'[c].step = "row" /\ job'[c].op = "select" => ~job'[c].saved.compared
           /\ job'[c].step = "ledger" => job'[c].op \in {"book", "reconcile"}
<1> DEFINE Quiet ==
      /\ job'[c].step \notin {"selected", "approve"}
      /\ job'[c].step = "row" /\ job'[c].op = "select" => ~job'[c].saved.compared
      /\ job'[c].step = "ledger" => job'[c].op \in {"book", "reconcile"}
<1>e. /\ row.state \in {"absent", "researching"}
      /\ request.stage = "stopped"
      /\ pc[c] = "idle"
      /\ job[c].step \notin {"selected", "approve"}
      /\ job[c].step = "row" /\ job[c].op = "select" => ~job[c].saved.compared
      /\ job[c].step = "ledger" => job[c].op \in {"book", "reconcile"}
  BY DEF Decisions, EarlyStop
<1>r. ~RecordSelected(c) /\ ~Approve(c) /\ ~CheckRetry(c)
  BY <1>e DEF RecordSelected, Approve, CheckRetry
<1>l. ~LedgerCall(c)
  <2>1. LedgerCall(c) => \/ job[c].op = "book" /\ (BookGet(c) \/ BookRefresh(c))
                         \/ job[c].op = "reconcile" /\ ReconcileGet(c)
    BY <1>e DEF LedgerCall, Start
  <2> QED BY <2>1, <1>e DEF BookGet, BookRefresh, ReconcileGet, Reconcilable, Held
<1>q. request' = request
  BY <1>e, <1>r, <1>l DEF Handle, Admit, ReadRequest, InsertRow, ReadRow, SetStage, Search, Compare,
     Fail, RecordFailure, Answer, Drop, SetRequest, workflow
<1>p. (row' = row \/ InsertRow(c)) /\ pc'[c] = "idle"
  <2>1. CASE InsertRow(c)
    BY <2>1, <1>e DEF InsertRow, Begin
  <2>2. CASE ~InsertRow(c)
    BY <2>2, <1>e, <1>r, <1>l DEF Handle, Admit, ReadRequest, ReadRow, SetStage, Search, Compare,
       Fail, RecordFailure, Answer, Drop, vars
  <2> QED BY <2>1, <2>2
<1>j. Quiet
  <2>g. \A step \in {"search", "compare", "answer", "failed"} : GoOn(c, step) => Quiet
    BY JobFacts
  <2>v. Leave(c) => Quiet
    BY JobFacts DEF NoJob
  <2>1. ASSUME NEW op \in Ops, NEW owner \in BOOLEAN, NEW tracked \in BOOLEAN,
               Admit(c, op, owner, tracked)
        PROVE  Quiet
    <3>1. job'[c].step \in {"row", "request"} /\ job'[c].saved.compared = FALSE
      BY <2>1, JobFacts DEF NewRequest
    <3> QED BY <3>1
  <2>2. CASE ReadRequest(c)
    <3>1. PICK step \in {"failed", "row"} :
               /\ step = "row" => job[c].op = "reconcile"
               /\ job' = [job EXCEPT ![c] = [job[c] EXCEPT !.saved = request, !.step = step]]
      BY <2>2, <1>e DEF ReadRequest
    <3>2. job'[c] = [job[c] EXCEPT !.saved = request, !.step = step]
      BY <3>1 DEF WInv, WorkflowTypeOK
    <3>3. job'[c].step = step /\ job'[c].op = job[c].op
      BY <3>2 DEF WInv, WorkflowTypeOK, Jobs
    <3> QED BY <3>1, <3>3
  <2>3. CASE InsertRow(c)
    BY <2>3, <1>e DEF InsertRow, workflow
  <2>4. CASE ReadRow(c)
    <3>0. job[c].op \in Ops /\ "reconcile" \in Ops
      BY DEF WInv, WorkflowTypeOK, Jobs, Ops, WorkerOps
    <3>1. PICK op \in Ops, step \in {"answer", "stage", "failed"} : Resolve(c, op, step)
      BY <2>4, <3>0, <1>e DEF ReadRow, Refuses
    <3> QED BY <3>1, JobFacts
  <2>5. CASE SetStage(c)
    <3>1. job[c].op \in {"research", "book", "reconcile"}
      BY <2>5 DEF SetStage, Decisions, HandlersAreOrderly, Orderly
    <3>2. CASE job[c].op = "research"
      BY <2>5, <3>2, <2>g DEF SetStage
    <3>3. CASE job[c].op # "research"
      <4>1. job'[c].step = "ledger" /\ job'[c].op = job[c].op
        BY <2>5, <3>3, JobFacts DEF SetStage
      <4> QED BY <4>1, <3>1, <3>3
    <3> QED BY <3>2, <3>3
  <2>6. CASE Search(c) \/ Compare(c) \/ Fail(c) \/ RecordFailure(c) \/ Answer(c) \/ Drop(c)
    BY <2>6, <2>g, <2>v DEF Search, Compare, Fail, RecordFailure, Answer, Drop
  <2> QED BY <1>r, <1>l, <2>1, <2>2, <2>3, <2>4, <2>5, <2>6 DEF Handle
<1> QED BY <1>q, <1>p, <1>j

LEMMA EarlyStep ==
    ASSUME Inv, WInv, Decisions, [Next]_vars, [WorkflowNext]_allVars
    PROVE  EarlyStop'
<1> SUFFICES ASSUME stopAsked', ~row'.stopped
             PROVE  /\ row'.state \in {"absent", "researching"}
                    /\ request'.stage = "stopped"
                    /\ \A e \in Callers :
                         /\ pc'[e] = "idle"
                         /\ job'[e].step \notin {"selected", "approve"}
                         /\ job'[e].step = "row" /\ job'[e].op = "select"
                              => ~job'[e].saved.compared
                         /\ job'[e].step = "ledger" => job'[e].op \in {"book", "reconcile"}
  BY DEF EarlyStop
<1>0. ~row.stopped
  BY CompletionStep DEF CompletedStays
<1>1. CASE StopWork
  <2>1. row.state = "absent" /\ row' = row
    BY <1>1 DEF StopWork, Stop, Inv, TypeOK, Rows
  <2>2. request'.stage = "stopped"
    BY <1>1 DEF StopWork, WInv, WorkflowTypeOK, Requests
  <2>3. \A e \in Callers :
          /\ job[e].step \in {"idle", "request", "row", "failed", "answer"}
          /\ job[e].step = "row" => ~job[e].saved.compared
          /\ pc[e] = "idle"
    BY <2>1 DEF Decisions, BeforeRow, WInv, CallsAreHandled
  <2> QED BY <1>1, <2>1, <2>2, <2>3, OthersStep
<1>2. CASE ~StopWork
  <2>1. stopAsked
    BY <1>2, RequestMoves
  <2>2. /\ row.state \in {"absent", "researching"}
        /\ request.stage = "stopped"
        /\ \A e \in Callers :
             /\ pc[e] = "idle"
             /\ job[e].step \notin {"selected", "approve"}
             /\ job[e].step = "row" /\ job[e].op = "select" => ~job[e].saved.compared
             /\ job[e].step = "ledger" => job[e].op \in {"book", "reconcile"}
    BY <1>0, <2>1 DEF Decisions, EarlyStop
  <2>3. ASSUME NEW c \in Callers, Handle(c)
        PROVE  /\ row'.state \in {"absent", "researching"}
               /\ request'.stage = "stopped"
               /\ \A e \in Callers :
                    /\ pc'[e] = "idle"
                    /\ job'[e].step \notin {"selected", "approve"}
                    /\ job'[e].step = "row" /\ job'[e].op = "select"
                         => ~job'[e].saved.compared
                    /\ job'[e].step = "ledger" => job'[e].op \in {"book", "reconcile"}
    <3>1. \A e \in Callers : e # c => job'[e].step = "idle" /\ pc'[e] = "idle"
      BY <2>3, OthersIdle
    <3>2. row'.state \in {"absent", "researching"}
      BY <2>1, <2>2, <2>3, <1>0, EarlyHandler DEF InsertRow, Begin, Inv, TypeOK, Rows
    <3> QED BY <3>1, <3>2, <2>1, <2>2, <2>3, <1>0, EarlyHandler
  <2>4. CASE World \/ UNCHANGED allVars
    <3>1. request' = request /\ job' = job /\ pc' = pc
      BY <2>4, OthersStep DEF World, workflow, allVars
    <3>2. row'.state = row.state
      BY <2>2, <2>4, <1>2, OtherMoves DEF Keeps, Resumes, StopsRow, Held
    <3> QED BY <2>2, <3>1, <3>2
  <2> QED BY <1>2, <2>3, <2>4 DEF WorkflowNext
<1> QED BY <1>1, <1>2

LEMMA DecisionsStep ==
    Inv /\ WInv /\ Decisions /\ [Next]_vars /\ [WorkflowNext]_allVars => Decisions'
BY OrderlyStep, ApprovedStep, StageStep, BeforeRowStep, EarlyStep DEF Decisions

\* The decisions of the owner are respected in every state, for any number of
\* handlers, quotes and writes.
THEOREM DecisionsHold == WorkflowSpec => []Decisions
<1>1. WorkflowInit => Decisions
  BY DecisionsInit
<1>2. Inv /\ WInv /\ Decisions /\ [Next]_vars /\ [WorkflowNext]_allVars => Decisions'
  BY DecisionsStep
<1>3. WorkflowSpec => []Inv /\ [][Next]_vars
  BY WorkflowKeepsLedger, InvHolds, PTL DEF LedgerSpec, Spec
<1> QED BY <1>1, <1>2, <1>3, WorkflowInvariant, PTL DEF WorkflowSpec

\* Every write but the last has been refused and its retry approved by the owner
\* after that refusal: no handler books again on its own.
THEOREM RetriesAreApproved == WorkflowSpec => []WritesAreApproved
<1>1. Decisions => WritesAreApproved
  BY DEF Decisions
<1> QED BY <1>1, DecisionsHold, PTL

\* Once a Stop is committed no write is fenced: not by a handler already under
\* way, not before there is a row, not after a crossing approval.
THEOREM StopEndsBooking == WorkflowSpec => NothingBookedAfterStop
<1>1. Inv /\ Decisions /\ [Next]_vars =>
        [stopAsked => row'.body.dispatch = row.body.dispatch]_allVars
  <2> SUFFICES ASSUME Inv, Decisions, [Next]_vars, stopAsked
               PROVE  row'.body.dispatch = row.body.dispatch
    OBVIOUS
  <2>1. CASE row.stopped
    BY <2>1, CompletionStep DEF CompletedStays
  <2>2. CASE ~row.stopped
    BY <2>2, BodyStep DEF BodyMove, Decisions, EarlyStop
  <2> QED BY <2>1, <2>2
<1>2. WorkflowSpec => []Inv /\ [][Next]_vars
  BY WorkflowKeepsLedger, InvHolds, PTL DEF LedgerSpec, Spec
<1> QED BY <1>1, <1>2, DecisionsHold, PTL DEF NothingBookedAfterStop

\* What the owner reads as over is over, and "stopped" is never taken back.
THEOREM ShownStaysHonest == WorkflowSpec => ShownIsHonest
<1>1. Inv /\ WInv /\ Decisions /\ [Next]_vars /\ [WorkflowNext]_allVars =>
        [/\ Shown \in {"stopped", "provider_failure", "outside_mandate"} => Live = {}
         /\ Shown = "stopped" => Shown' = "stopped"]_allVars
  <2> SUFFICES ASSUME Inv, WInv, Decisions, [Next]_vars, [WorkflowNext]_allVars
               PROVE  /\ Shown \in {"stopped", "provider_failure", "outside_mandate"} => Live = {}
                      /\ Shown = "stopped" => Shown' = "stopped"
    OBVIOUS
  <2>1. Shown \in {"stopped", "provider_failure", "outside_mandate"} => row.state \notin Held
    BY DEF Shown, Held
  <2>2. row.state \notin Held => Live = {}
    BY DEF Inv, RowKeepsLiveWrite, Live
  <2>3. CASE row.state = "stopped"
    <3>1. row'.state = "stopped"
      BY <2>3, RowMoves DEF Keeps, Begins, Resumes, StopsRow, CallAdvances, Fresh, Open, Held
    <3> QED BY <3>1, <2>1, <2>2 DEF Shown
  <2>4. CASE row.state # "stopped" /\ Shown = "stopped"
    <3>1. request.stage = "stopped" /\ row.state \notin Held
      BY <2>4, <2>1 DEF Shown
    <3>2. stopAsked /\ ~request.retry
      BY <3>1 DEF Decisions, StageTellsStop
    <3>3. row.state \in Fresh \union {"absent"}
      BY <2>4, <3>1, <3>2 DEF Shown, Inv, TypeOK, Rows, States, Open, Fresh
    <3>4. ~row.stopped
      BY <3>3 DEF Decisions, StoppedRow
    <3>5. stopAsked' /\ EarlyStop'
      BY <3>2, EarlyStep, RequestMoves
    <3>6. CASE ~row'.stopped
      BY <2>1, <2>2, <3>5, <3>6 DEF EarlyStop, Shown
    <3>7. CASE row'.stopped
      <4>1. row'.state = "stopped"
        BY <3>3, <3>4, <3>7, RowMoves DEF Keeps, Begins, Resumes, StopsRow, CallAdvances,
           Fresh, Open
      <4> QED BY <2>1, <2>2, <4>1 DEF Shown
    <3> QED BY <3>6, <3>7
  <2> QED BY <2>1, <2>2, <2>3, <2>4
<1>2. WorkflowSpec => []Inv /\ [][Next]_vars
  BY WorkflowKeepsLedger, InvHolds, PTL DEF LedgerSpec, Spec
<1> QED BY <1>1, <1>2, WorkflowInvariant, DecisionsHold, PTL DEF ShownIsHonest, WorkflowSpec
=============================================================================
