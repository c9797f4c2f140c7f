--------------------------- MODULE TravelWorkflow ---------------------------
(***************************************************************************)
(* The travel workflow over the ledger,                                    *)
(* server/src/api/burrow/travel/workflow.rs: the handlers that Pi (the     *)
(* worker's /travel command) and the owner (retry, reconcile, Stop) reach, *)
(* the burrow_travel_requests row they keep, and the action rows that make *)
(* a worker's command durable.                                             *)
(*                                                                         *)
(* Every handler but Stop runs under travel_lock.  A handler reads the     *)
(* request, then the transaction, then acts on both copies; Stop commits   *)
(* between any two of its steps, and its future may be dropped anywhere.   *)
(* The ledger calls are TravelLedger's own steps, so this module also      *)
(* implements that one (LedgerSpec).                                       *)
(***************************************************************************)
EXTENDS TravelLedger

VARIABLES
    request,    \* the burrow_travel_requests row
    action,     \* one durable action of the worker, followed through redelivery
    lock,       \* travel_lock: the handler that holds it, or Free
    job,        \* what each handler is doing
    stopAsked,  \* history: a Stop has been committed
    approved    \* history: writes after whose refusal the owner approved a retry

CONSTANT Free   \* nobody holds the lock

ASSUME WorkflowAssumption == Free \notin Callers

workflow == <<request, action, lock, job, stopAsked, approved>>
allVars == <<vars, workflow>>
-----------------------------------------------------------------------------
Stages == {"waiting", "researching", "comparing", "quoting", "booking", "verifying",
           "outside_mandate", "provider_failure", "stopped"}
Requests == [stage : Stages, retry : BOOLEAN, compared : BOOLEAN, selected : BOOLEAN]

\* Operations of the worker; "quote" is the second ledger call of select.
WorkerOps == {"research", "select", "book", "reconcile"}
Ops == WorkerOps \union {"none", "quote", "retry"}

JobSteps == {"idle", "request", "row", "stage", "search", "compare", "ledger", "selected",
             "approve", "failed", "answer"}

\* saved is the handler's copy of the request, until it has read the transaction.
Jobs == [op : Ops, step : JobSteps, saved : Requests, tracked : BOOLEAN, owner : BOOLEAN]

NoAction == [op |-> "none", status |-> "none"]
NewRequest == [stage |-> "waiting", retry |-> FALSE, compared |-> FALSE, selected |-> FALSE]
NoJob == [op |-> "none", step |-> "idle", saved |-> NewRequest, tracked |-> FALSE,
          owner |-> FALSE]

WorkflowInit ==
    /\ Init
    /\ request = NewRequest
    /\ action = NoAction
    /\ lock = Free
    /\ job = [c \in Callers |-> NoJob]
    /\ stopAsked = FALSE
    /\ approved = {}
-----------------------------------------------------------------------------
GoOn(c, step) == job' = [job EXCEPT ![c].step = step]

\* The handler ends: the guard is dropped with it.
Leave(c) ==
    /\ job' = [job EXCEPT ![c] = NoJob]
    /\ lock' = IF lock = c THEN Free ELSE lock

\* The updates that carry the guard stage != 'stopped'.
SetRequest(r) == request' = IF request.stage = "stopped" THEN request ELSE r
-----------------------------------------------------------------------------
(* The entries: the worker's command, the owner's retry and reconcile.     *)

\* MUTANT of MayEnter: the handlers do not serialise on travel_lock.
MayAlwaysEnter(op, owner) == TRUE

MayEnter(op, owner) == lock = Free

\* A handler gets the lock.  A worker's command then inserts its action row, or
\* finds it: with an answer it only repeats the answer, without one (its first
\* delivery was lost) it runs again.
Admit(c, op, owner, tracked) ==
    /\ job[c].step = "idle"
    /\ MayEnter(op, owner)
    /\ op \in IF owner THEN {"retry", "reconcile"} ELSE WorkerOps
    /\ tracked => ~owner /\ action \in {NoAction, [op |-> op, status |-> "open"]}
    /\ action' = IF tracked THEN [op |-> op, status |-> "open"] ELSE action
    /\ lock' = c
    /\ job' = [job EXCEPT ![c] = [NoJob EXCEPT !.op = op, !.owner = owner, !.tracked = tracked,
                                    !.step = IF op = "retry" THEN "row" ELSE "request"]]
    /\ UNCHANGED <<vars, request, stopAsked, approved>>

\* execute() reads the request before the transaction.
ReadRequest(c) ==
    /\ job[c].step = "request"
    /\ job' = [job EXCEPT ![c].saved = request,
                 ![c].step = IF request.stage = "stopped" /\ job[c].op # "reconcile"
                             THEN "failed" ELSE "row"]
    /\ UNCHANGED <<vars, request, action, lock, stopAsked, approved>>

\* ensure_transaction(): the first handler inserts the ledger row.
InsertRow(c) ==
    /\ job[c].step = "row"
    /\ Begin
    /\ UNCHANGED workflow

\* A reconciliation is attempted when its time has come or its window is over.
Due(t) == ~t.backoff \/ t.window = "over"

\* A booking that may have been sent is looked for, not sent again.
Reconciles(op, t) ==
    \/ op = "reconcile"
    \/ op = "book" /\ t.state \in {"booking_dispatched", "booking_uncertain", "reconciling"}

\* MUTANT of Approved: a rejected booking is retried without the owner.
ApprovedAnyway(saved) == TRUE

Approved(saved) == saved.retry

\* "Stopped", "needs attention", not admitted inventory, or retry not approved.
Refuses(op, saved, t) ==
    \/ t.stopped
    \/ saved.stage \in {"outside_mandate", "provider_failure"}
    \/ op = "select" /\ ~saved.compared
    \/ op = "select" /\ t.state = "booking_failed" /\ ~Approved(saved)

\* Nothing left to do: compared already, or the rate asked for is the quoted one.
Repeats(op, saved, t) ==
    \/ op = "research" /\ saved.compared
    \/ op = "select" /\ t.state = "quoted" /\ saved.selected

Resolve(c, op, step) ==
    job' = [job EXCEPT ![c].saved = NewRequest, ![c].op = op, ![c].step = step]

\* With the transaction read, execute() decides on its two copies.
ReadRow(c) ==
    LET op == job[c].op
        saved == job[c].saved
        over == row.state \in {"completed", "unresolved_needs_attention"}
    IN  /\ job[c].step = "row" /\ op # "retry"
        /\ row.state # "absent"
        /\ IF Reconciles(op, row)
           THEN IF over \/ ~Due(row) THEN Resolve(c, op, "answer")
                                     ELSE Resolve(c, "reconcile", "stage")
           ELSE \/ row.state = "completed" /\ Resolve(c, op, "answer")
                \/ row.state # "completed" /\ Refuses(op, saved, row) /\ Resolve(c, op, "failed")
                \/ /\ row.state # "completed" /\ ~Refuses(op, saved, row)
                   /\ \/ Repeats(op, saved, row) /\ Resolve(c, op, "answer")
                      \/ op = "research" /\ ~saved.compared /\ Resolve(c, op, "stage")
                      \/ op = "select" /\ Resolve(c, op, "ledger")
                      \/ op = "book" /\ Resolve(c, op, "stage")
        /\ UNCHANGED <<vars, request, action, lock, stopAsked, approved>>

\* stage(): what the owner is told before the work starts.
SetStage(c) ==
    LET stage == CASE job[c].op = "research" -> "researching"
                   [] job[c].op = "book" -> "booking"
                   [] OTHER -> "verifying"
    IN  /\ job[c].step = "stage"
        /\ SetRequest([request EXCEPT !.stage = stage])
        /\ GoOn(c, IF job[c].op = "research" THEN "search" ELSE "ledger")
        /\ UNCHANGED <<vars, action, lock, stopAsked, approved>>
-----------------------------------------------------------------------------
(* research                                                                *)

\* search() and rates() only read; active() is checked after each answer.
Search(c) ==
    /\ job[c].step = "search"
    /\ Active(row)
    /\ GoOn(c, "compare")
    /\ UNCHANGED <<vars, request, action, lock, stopAsked, approved>>

Compare(c) ==
    /\ job[c].step = "compare"
    /\ SetRequest([request EXCEPT !.compared = TRUE, !.stage = "comparing"])
    /\ GoOn(c, "answer")
    /\ UNCHANGED <<vars, action, lock, stopAsked, approved>>
-----------------------------------------------------------------------------
(* The ledger calls of select, book and reconcile.                         *)

Start(c) ==
    \/ job[c].op = "select" /\ SelectGet(c)
    \/ job[c].op = "quote" /\ QuoteGet(c)
    \/ job[c].op = "book" /\ (BookGet(c) \/ BookRefresh(c))
    \/ job[c].op = "reconcile" /\ ReconcileGet(c)

Advance(c) ==
    \/ SelectSave(c)
    \/ QuoteGet(c) \/ QuoteFence(c) \/ QuoteAnswer(c) \/ QuoteSave(c)
    \/ BookReget(c) \/ BookFence(c) \/ BookSend(c)
    \/ BookConfirmed(c) \/ BookRejected(c) \/ BookUncertain(c)
    \/ ReconcileGet(c) \/ ReconcileExpire(c) \/ ReconcileClaim(c) \/ ReconcileRead(c)
    \/ RecordVerified(c) \/ RecordUnverified(c)

\* The statement that ends this call finds the row changed: Err(Conflict).
Conflicts(c) ==
    \/ pc[c] = "select_save" /\ ~Unchanged(c)
    \/ pc[c] = "record_verified" /\ ~Claimed(c)

\* A rejected or uncertain booking is an Ok answer of book().
LedgerCall(c) ==
    /\ job[c].step = "ledger"
    /\ IF pc[c] = "idle" THEN Start(c) ELSE Advance(c)
    /\ GoOn(c, CASE pc'[c] # "idle" -> "ledger"
                 [] pc'[c] = "idle" /\ Conflicts(c) -> "failed"
                 [] pc'[c] = "idle" /\ ~Conflicts(c) ->
                      IF job[c].op = "select" THEN "selected" ELSE "answer")
    /\ UNCHANGED <<request, action, lock, stopAsked, approved>>

\* The selection is noted and the approval spent before the rate is quoted.
RecordSelected(c) ==
    /\ job[c].step = "selected"
    /\ SetRequest([request EXCEPT !.selected = TRUE, !.stage = "quoting", !.retry = FALSE])
    /\ job' = [job EXCEPT ![c].op = "quote", ![c].step = "ledger"]
    /\ UNCHANGED <<vars, action, lock, stopAsked, approved>>
-----------------------------------------------------------------------------
(* How a handler ends.                                                     *)

\* Some statement, policy or provider call returned an error.
Fail(c) ==
    /\ job[c].step \in {"request", "row", "stage", "search", "compare", "ledger", "selected"}
    /\ IF pc[c] = "idle" THEN UNCHANGED vars ELSE Lose(c)
    /\ IF job[c].op = "retry" THEN Leave(c) ELSE GoOn(c, "failed") /\ UNCHANGED lock
    /\ UNCHANGED <<request, action, stopAsked, approved>>

\* command() turns an error into a stage: a policy error means outside_mandate,
\* any other provider_failure.  The owner's reconcile only returns it.
RecordFailure(c) ==
    /\ job[c].step = "failed"
    /\ IF job[c].owner
       THEN Leave(c) /\ UNCHANGED request
       ELSE /\ \E s \in {"outside_mandate", "provider_failure"} :
                 SetRequest([request EXCEPT !.stage = s])
            /\ GoOn(c, "answer") /\ UNCHANGED lock
    /\ UNCHANGED <<vars, action, stopAsked, approved>>

\* The answer is saved with the action row and the lock given back.
Answer(c) ==
    /\ job[c].step = "answer"
    /\ action' = IF job[c].tracked THEN [action EXCEPT !.status = "done"] ELSE action
    /\ Leave(c)
    /\ UNCHANGED <<vars, request, stopAsked, approved>>

\* The client is gone or the process dies: rows stay, copies and lock do not.
Drop(c) ==
    /\ job[c].step # "idle"
    /\ IF pc[c] = "idle" THEN UNCHANGED vars ELSE Lose(c)
    /\ Leave(c)
    /\ UNCHANGED <<request, action, stopAsked, approved>>
-----------------------------------------------------------------------------
(* retry() and Stop.                                                       *)

\* MUTANT of CheckRetry: the rejection is not looked at.
CheckRetryAnyState(c) ==
    /\ job[c].step = "row" /\ job[c].op = "retry"
    /\ ~row.stopped
    /\ GoOn(c, "approve")
    /\ UNCHANGED <<vars, request, action, lock, stopAsked, approved>>

\* The owner may approve a retry of a proven, retryable rejection ...
CheckRetry(c) ==
    /\ job[c].step = "row" /\ job[c].op = "retry"
    /\ row.state = "booking_failed" /\ row.body.retryAllowed /\ ~row.stopped
    /\ GoOn(c, "approve")
    /\ UNCHANGED <<vars, request, action, lock, stopAsked, approved>>

\* ... and this update does not look at the stage again: a Stop committed since
\* the check is written over in the request (the ledger row stays stopped).
Approve(c) ==
    /\ job[c].step = "approve"
    /\ request' = [request EXCEPT !.retry = TRUE, !.stage = "comparing"]
    /\ approved' = approved \union {row.body.dispatch}
    /\ Leave(c)
    /\ UNCHANGED <<vars, action, stopAsked>>

\* MUTANT of StopWork: Stop marks the request but not the ledger row.
StopWorkRequestOnly ==
    /\ request' = [request EXCEPT !.stage = "stopped", !.retry = FALSE]
    /\ stopAsked' = TRUE
    /\ UNCHANGED <<vars, action, lock, job, approved>>

\* MUTANT of StopWork: Stop gives the money back.
StopWorkReleasing ==
    /\ request' = [request EXCEPT !.stage = "stopped", !.retry = FALSE]
    /\ stopAsked' = TRUE
    /\ row' = [row EXCEPT !.stopped = TRUE]
    /\ spend' = "released"
    /\ UNCHANGED <<authority, pc, snap, cont, wire, resumes, action, lock, job, approved>>

\* stop_in(), in the transaction of the owner's Stop or of the worker's stop; it
\* takes no lock, and finds no ledger row before the first command.
StopWork ==
    /\ request' = [request EXCEPT !.stage = "stopped", !.retry = FALSE]
    /\ stopAsked' = TRUE
    /\ \/ Stop
       \/ /\ row.state = "absent"
          /\ authority' \in {authority, FALSE}
          /\ UNCHANGED <<row, spend, pc, snap, cont, wire, resumes>>
    /\ UNCHANGED <<action, lock, job, approved>>
-----------------------------------------------------------------------------
Handle(c) ==
    \/ \E op \in Ops, owner, tracked \in BOOLEAN : Admit(c, op, owner, tracked)
    \/ ReadRequest(c) \/ InsertRow(c) \/ ReadRow(c) \/ SetStage(c)
    \/ Search(c) \/ Compare(c) \/ LedgerCall(c) \/ RecordSelected(c)
    \/ Fail(c) \/ RecordFailure(c) \/ Answer(c) \/ Drop(c)
    \/ CheckRetry(c) \/ Approve(c)

\* The provider, the clock, the operator and the agent bridge.
World ==
    /\ \/ \E d \in Dispatches : Provider(d)
       \/ ResumeReconciliation \/ AuthorityChanges \/ BackoffElapses \/ WindowCloses
    /\ UNCHANGED workflow

WorkflowNext == (\E c \in Callers : Handle(c)) \/ StopWork \/ World

WorkflowSpec == WorkflowInit /\ [][WorkflowNext]_allVars
-----------------------------------------------------------------------------
(* Properties.                                                             *)

WorkflowTypeOK ==
    /\ request \in Requests
    /\ action \in [op : Ops, status : {"none", "open", "done"}]
    /\ lock \in Callers \union {Free}
    /\ job \in [Callers -> Jobs]
    /\ stopAsked \in BOOLEAN
    /\ approved \subseteq Dispatches

\* A write after a refused one is fenced only when the owner has approved it
\* after that refusal: "Only the human retry route can allow another quote after
\* documented 503 rejection".
WritesAreApproved ==
    \A d \in Dispatches : d < row.body.dispatch => d \in approved

\* After a Stop no further write is fenced, neither by a handler that read its
\* copies before it, nor when the ledger row did not exist yet, nor when a
\* crossing retry has written over the request's stopped stage.
NothingBookedAfterStop ==
    [][stopAsked => row'.body.dispatch = row.body.dispatch]_allVars

\* The lock keeps reconciliations away from a booking in flight, so that the
\* answer "rejected" always finds its row and gives the money back.
RejectionFindsItsRow ==
    \A c \in Callers : pc[c] \in {"book_send", "book_wire"} =>
        row.state \in {"booking_dispatched", "booking_uncertain"}

\* MUTANT of Shown: a stored final stage hides the ledger's.
ShownStored ==
    IF request.stage \in {"stopped", "provider_failure", "outside_mandate"} THEN request.stage
    ELSE IF row.state \in Open THEN request.stage ELSE row.state

\* snapshot(): the stage the owner and the worker read.
Shown ==
    CASE row.state = "completed" -> "completed"
      [] row.state \in {"booking_dispatched", "booking_uncertain", "reconciling"} ->
           "booking_uncertain"
      [] row.state = "unresolved_needs_attention" -> "unresolved_needs_attention"
      [] row.state = "stopped" -> "stopped"
      [] row.state = "booking_failed" /\ ~request.retry -> "provider_failure"
      [] OTHER -> request.stage

\* What the owner reads as over is over: with "stopped", "provider_failure" and
\* "outside_mandate" no write is outstanding, and "stopped" ("No new booking
\* will be sent") never turns into something else.
ShownIsHonest ==
    [][/\ Shown \in {"stopped", "provider_failure", "outside_mandate"} => Live = {}
       /\ Shown = "stopped" => Shown' = "stopped"]_allVars

\* One action of the worker is never carried out by two deliveries at a time,
\* nor again once its answer is saved.
ActionRunsAlone ==
    /\ \A c, e \in Callers : job[c].tracked /\ job[e].tracked => c = e
    /\ action.status = "done" => \A c \in Callers : ~job[c].tracked

\* The workflow's runs are runs of the ledger, so everything shown of the ledger
\* holds here.
LedgerSpec == Spec
=============================================================================
