---------------------------- MODULE TravelLedger ----------------------------
(***************************************************************************)
(* The durable hotel-booking ledger of the Burrow travel slice,            *)
(* server/src/api/burrow/travel/ledger.rs: one row of                      *)
(* burrow_travel_transactions (a goal owns at most one), its spend row,    *)
(* the callers that run the ledger's async methods against it, and the     *)
(* hotel provider (Duffel Stays) those methods write to.                   *)
(*                                                                         *)
(* Each method is split where the code awaits.  A SQLite statement, or a   *)
(* BEGIN IMMEDIATE ... COMMIT block, is one step.  Between two steps of a  *)
(* call any other call, the owner's Stop, the operator and the provider    *)
(* may act, and the call itself may be lost (client gone, process killed). *)
(* Not in the state: evidence rows, the read-only search and rates calls,  *)
(* money, dates and guests (Mandate::evaluate is a Boolean outcome).       *)
(***************************************************************************)
EXTENDS Naturals

CONSTANTS
    Callers,        \* concurrent calls into the ledger
    MaxReads,       \* reconciliation attempts per window (6 in the code)
    MaxFences,      \* bound: quote requests made
    MaxDispatches,  \* bound: booking writes fenced
    MaxResumes      \* bound: windows an operator opens

ASSUME LedgerAssumption ==
    /\ MaxReads \in Nat \ {0}
    /\ MaxFences \in Nat /\ MaxDispatches \in Nat /\ MaxResumes \in Nat

VARIABLES
    row,        \* the burrow_travel_transactions row
    spend,      \* state of its burrow_travel_spend row
    authority,  \* the Pi run is attached and has no live Stop command
    pc,         \* where each caller is
    snap,       \* the Transaction value each caller holds in memory
    cont,       \* where a caller's quote() returns to: its caller or book()
    wire,       \* the provider's side of every booking write
    resumes     \* windows opened by the operator so far

vars == <<row, spend, authority, pc, snap, cont, wire, resumes>>
-----------------------------------------------------------------------------
Dispatches == 1..MaxDispatches

\* States in which nothing consequential is outstanding (TransactionState).
Open == {"researching", "quoting", "quoted", "booking_failed"}

\* States in which a booking write may have taken effect.
Held == {"booking_dispatched", "booking_uncertain", "reconciling", "completed",
         "unresolved_needs_attention"}

States == Open \union Held \union {"absent", "stopped"}

\* MUTANT of Reconcilable: a row whose last reader died is not picked up again.
ReconcilableIdle == Held \ {"completed", "reconciling"}

\* Rows a reconcile() call accepts.
Reconcilable == Held \ {"completed"}

\* TransactionData as far as the control depends on it.  Quotes are named by
\* the quote_request_id they answer, bookings and dispatched_at by the number
\* of the write; 0 is None.
Bodies == [fence : 0..MaxFences, quote : 0..MaxFences, booking : 0..MaxDispatches,
           dispatch : 0..MaxDispatches, retryAllowed : BOOLEAN]

\* window is reconcile_started_at against the 900 s limit, backoff is
\* "reconcile_next_at lies in the future".
Rows == [state : States, stopped : BOOLEAN, body : Bodies, reads : 0..MaxReads,
         window : {"unset", "open", "over"}, backoff : BOOLEAN]

\* What the provider made of a write: not fenced yet, fenced but not on the
\* socket, on the socket, booked (not yet or already confirmed), proven not
\* booked for now (503) or for good (422, fraud).
Outcomes == {"none", "fenced", "sent", "pending", "confirmed", "unavailable", "refused"}
NotBooked == {"unavailable", "refused"}
Booked == {"pending", "confirmed"}

Steps == {"idle", "select_save", "quote_get", "quote_fence", "quote_wire", "quote_save",
          "book_reget", "book_fence", "book_send", "book_wire",
          "reconcile_get", "reconcile_expire", "reconcile_claim", "reconcile_read",
          "record_verified", "record_ambiguous", "record_nothing"}

EmptyBody == [fence |-> 0, quote |-> 0, booking |-> 0, dispatch |-> 0, retryAllowed |-> FALSE]
EmptyRow == [state |-> "absent", stopped |-> FALSE, body |-> EmptyBody, reads |-> 0,
             window |-> "unset", backoff |-> FALSE]

Init ==
    /\ row = EmptyRow
    /\ spend = "none"
    /\ authority = TRUE
    /\ pc = [c \in Callers |-> "idle"]
    /\ snap = [c \in Callers |-> EmptyRow]
    /\ cont = [c \in Callers |-> "idle"]
    /\ wire = [d \in Dispatches |-> [outcome |-> "none", quote |-> 0]]
    /\ resumes = 0
-----------------------------------------------------------------------------
(* Helpers: control of a caller.                                           *)

\* The caller goes on at step s, holding row value r.
Goto(c, s, r) ==
    /\ pc' = [pc EXCEPT ![c] = s]
    /\ snap' = [snap EXCEPT ![c] = r]

\* The call returns, fails or is dropped.
Return(c) ==
    /\ Goto(c, "idle", EmptyRow)
    /\ cont' = [cont EXCEPT ![c] = "idle"]

\* MUTANT of Active: the retry flag of a rejected booking is not looked at.
ActiveIgnoringRefusal(r) == ~r.stopped /\ r.state \in Open /\ authority

\* active(): new travel work is allowed on this row.
Active(r) ==
    /\ ~r.stopped
    /\ r.state \in Open
    /\ r.state = "booking_failed" => r.body.retryAllowed
    /\ authority

\* MUTANT of Unchanged: the update is keyed on the Stop flag alone.
UnchangedStopOnly(c) == ~row.stopped

\* The compare-and-set guard shared by record_selection, quote and book.
Unchanged(c) ==
    /\ row.state = snap[c].state
    /\ row.body = snap[c].body
    /\ ~row.stopped
-----------------------------------------------------------------------------
(* begin() and record_selection().                                         *)

\* UNIQUE(root_goal_id): only the first insert of a goal succeeds.
Begin ==
    /\ row.state = "absent"
    /\ row' = [row EXCEPT !.state = "researching"]
    /\ UNCHANGED <<spend, authority, pc, snap, cont, wire, resumes>>

SelectGet(c) ==
    /\ pc[c] = "idle"
    /\ Active(row)
    /\ Goto(c, "select_save", row)
    /\ UNCHANGED <<row, spend, authority, cont, wire, resumes>>

SelectSave(c) ==
    /\ pc[c] = "select_save"
    /\ row' = IF Unchanged(c)
              THEN [row EXCEPT !.state = "researching", !.body.quote = 0]
              ELSE row
    /\ Return(c)
    /\ UNCHANGED <<spend, authority, wire, resumes>>
-----------------------------------------------------------------------------
(* quote(), called on its own or by book() to refresh an expired quote.    *)

QuoteGet(c) ==
    /\ pc[c] \in {"idle", "quote_get"}
    /\ Active(row)
    /\ Goto(c, "quote_fence", row)
    /\ UNCHANGED <<row, spend, authority, cont, wire, resumes>>

\* A fresh quote_request_id goes into the body, so a later answer to an older
\* request cannot match it.
QuoteFence(c) ==
    LET fenced == [snap[c].body EXCEPT !.fence = @ + 1, !.quote = 0]
    IN  /\ pc[c] = "quote_fence"
        /\ Unchanged(c)
        /\ row.body.fence < MaxFences
        /\ row' = [row EXCEPT !.state = "quoting", !.body = fenced]
        /\ Goto(c, "quote_wire", [snap[c] EXCEPT !.body = fenced])
        /\ UNCHANGED <<spend, authority, cont, wire, resumes>>

\* The provider answered with a quote inside the mandate and work is still
\* allowed.  (Any other answer is an error return: Lose.)
QuoteAnswer(c) ==
    /\ pc[c] = "quote_wire"
    /\ Active(row)
    /\ Goto(c, "quote_save", snap[c])
    /\ UNCHANGED <<row, spend, authority, cont, wire, resumes>>

\* MUTANT of QuoteSave: the answer is saved without its quote_request_id fence.
QuoteSaveUnfenced(c) ==
    /\ pc[c] = "quote_save"
    /\ row.state = "quoting"
    /\ ~row.stopped
    /\ row' = [row EXCEPT !.state = "quoted",
                          !.body = [snap[c].body EXCEPT !.quote = snap[c].body.fence]]
    /\ Goto(c, cont[c], EmptyRow)
    /\ cont' = [cont EXCEPT ![c] = "idle"]
    /\ UNCHANGED <<spend, authority, wire, resumes>>

QuoteSave(c) ==
    /\ pc[c] = "quote_save"
    /\ row.state = "quoting"
    /\ row.body = snap[c].body
    /\ ~row.stopped
    /\ row' = [row EXCEPT !.state = "quoted",
                          !.body = [snap[c].body EXCEPT !.quote = snap[c].body.fence]]
    /\ Goto(c, cont[c], EmptyRow)
    /\ cont' = [cont EXCEPT ![c] = "idle"]
    /\ UNCHANGED <<spend, authority, wire, resumes>>
-----------------------------------------------------------------------------
(* book().                                                                 *)

\* A quote that is still fresh goes to the dispatch fence ...
BookGet(c) ==
    /\ pc[c] = "idle"
    /\ Active(row)
    /\ row.state = "quoted"
    /\ row.body.quote # 0
    /\ Goto(c, "book_fence", row)
    /\ UNCHANGED <<row, spend, authority, cont, wire, resumes>>

\* ... an expired one is quoted again first.
BookRefresh(c) ==
    /\ pc[c] = "idle"
    /\ Active(row)
    /\ row.state = "quoted"
    /\ row.body.quote # 0
    /\ Goto(c, "quote_get", row)
    /\ cont' = [cont EXCEPT ![c] = "book_reget"]
    /\ UNCHANGED <<row, spend, authority, wire, resumes>>

\* The reload after a refresh; its unwrap() panics when a selection made in
\* between has cleared the quote (Lose).
BookReget(c) ==
    /\ pc[c] = "book_reget"
    /\ row.body.quote # 0
    /\ Goto(c, "book_fence", row)
    /\ UNCHANGED <<row, spend, authority, cont, wire, resumes>>

\* MUTANT of BookFence: the spend insert does nothing on a conflict.
BookFenceKeepingSpend(c) ==
    LET d == snap[c].body.dispatch + 1
        body == [snap[c].body EXCEPT !.dispatch = d]
    IN  /\ pc[c] = "book_fence"
        /\ d \in Dispatches
        /\ row.state = "quoted"
        /\ row.body = snap[c].body
        /\ ~row.stopped
        /\ authority
        /\ row' = [row EXCEPT !.state = "booking_dispatched", !.body = body]
        /\ spend' = IF spend = "none" THEN "reserved" ELSE spend
        /\ wire' = [wire EXCEPT ![d] = [outcome |-> "fenced", quote |-> body.quote]]
        /\ Goto(c, "book_send", [snap[c] EXCEPT !.body = body])
        /\ UNCHANGED <<authority, cont, resumes>>

\* The dispatch fence: Stop, the run's authority, the row and the spend
\* reservation in one write transaction.  The spend upsert only overwrites a
\* released hold.
BookFence(c) ==
    LET d == snap[c].body.dispatch + 1
        body == [snap[c].body EXCEPT !.dispatch = d]
    IN  /\ pc[c] = "book_fence"
        /\ d \in Dispatches
        /\ row.state = "quoted"
        /\ row.body = snap[c].body
        /\ ~row.stopped
        /\ authority
        /\ row' = [row EXCEPT !.state = "booking_dispatched", !.body = body]
        /\ spend' = IF spend \in {"none", "released"} THEN "reserved" ELSE spend
        /\ wire' = [wire EXCEPT ![d] = [outcome |-> "fenced", quote |-> body.quote]]
        /\ Goto(c, "book_send", [snap[c] EXCEPT !.body = body])
        /\ UNCHANGED <<authority, cont, resumes>>

\* The POST leaves the process.
BookSend(c) ==
    LET d == snap[c].body.dispatch
    IN  /\ pc[c] = "book_send"
        /\ wire' = [wire EXCEPT ![d].outcome = "sent"]
        /\ Goto(c, "book_wire", snap[c])
        /\ UNCHANGED <<row, spend, authority, cont, resumes>>

\* WriteOutcome::Confirmed: remember the booking, then verify it by reconcile().
BookConfirmed(c) ==
    LET d == snap[c].body.dispatch
    IN  /\ pc[c] = "book_wire"
        /\ wire[d].outcome \in Booked
        /\ row' = IF row.state \in {"booking_dispatched", "booking_uncertain"}
                  THEN [row EXCEPT !.state = "booking_uncertain",
                                   !.body = [snap[c].body EXCEPT !.booking = d]]
                  ELSE row
        /\ Goto(c, "reconcile_get", EmptyRow)
        /\ UNCHANGED <<spend, authority, cont, wire, resumes>>

\* WriteOutcome::Rejected: proven not booked, so the hold is released, unless a
\* reconciliation has moved the row on.
BookRejected(c) ==
    LET o == wire[snap[c].body.dispatch].outcome
    IN  /\ pc[c] = "book_wire"
        /\ o \in NotBooked
        /\ IF row.state \in {"booking_dispatched", "booking_uncertain"}
           THEN /\ row' = [row EXCEPT !.state = "booking_failed",
                               !.body = [snap[c].body EXCEPT !.retryAllowed = (o = "unavailable")]]
                /\ spend' = "released"
           ELSE UNCHANGED <<row, spend>>
        /\ Return(c)
        /\ UNCHANGED <<authority, wire, resumes>>

\* MUTANT of BookUncertain: a timeout is taken for a retryable rejection.
BookUncertainRetried(c) ==
    /\ pc[c] = "book_wire"
    /\ row' = IF row.state = "booking_dispatched"
              THEN [row EXCEPT !.state = "booking_failed", !.body.retryAllowed = TRUE]
              ELSE row
    /\ Return(c)
    /\ UNCHANGED <<spend, authority, wire, resumes>>

\* MUTANT of BookUncertain: the hold is given back although nothing is proven.
BookUncertainReleased(c) ==
    /\ pc[c] = "book_wire"
    /\ row' = IF row.state = "booking_dispatched"
              THEN [row EXCEPT !.state = "booking_uncertain"]
              ELSE row
    /\ spend' = "released"
    /\ Return(c)
    /\ UNCHANGED <<authority, wire, resumes>>

\* WriteOutcome::Uncertain: timeout, lost answer, 5xx, malformed success.
BookUncertain(c) ==
    /\ pc[c] = "book_wire"
    /\ row' = IF row.state = "booking_dispatched"
              THEN [row EXCEPT !.state = "booking_uncertain"]
              ELSE row
    /\ Return(c)
    /\ UNCHANGED <<spend, authority, wire, resumes>>
-----------------------------------------------------------------------------
(* stop() and resume_reconciliation().                                     *)

\* MUTANT of Stop: a dispatched booking is shown as stopped.
StopForgettingDispatch ==
    /\ row.state # "absent"
    /\ row' = [row EXCEPT !.stopped = TRUE,
                          !.state = IF row.state \in Open \union {"booking_dispatched"}
                                    THEN "stopped" ELSE row.state]
    /\ authority' \in {authority, FALSE}
    /\ UNCHANGED <<spend, pc, snap, cont, wire, resumes>>

\* The owner's Stop command ends the run's authority in the same transaction
\* (control in agent.rs); a Stop the worker asks for does not.
Stop ==
    /\ row.state # "absent"
    /\ row' = [row EXCEPT !.stopped = TRUE,
                          !.state = CASE row.state \in Open -> "stopped"
                                      [] row.state = "booking_dispatched" -> "booking_uncertain"
                                      [] OTHER -> row.state]
    /\ authority' \in {authority, FALSE}
    /\ UNCHANGED <<spend, pc, snap, cont, wire, resumes>>

ResumeReconciliation ==
    /\ row.state = "unresolved_needs_attention"
    /\ resumes < MaxResumes
    /\ row' = [row EXCEPT !.state = "booking_uncertain", !.reads = 0,
                          !.window = "unset", !.backoff = FALSE]
    /\ resumes' = resumes + 1
    /\ UNCHANGED <<spend, authority, pc, snap, cont, wire>>
-----------------------------------------------------------------------------
(* reconcile().                                                            *)

\* MUTANT of WindowOver: only the clock ends a window, not the attempts.
WindowOverByClock(r) == r.window = "over"

WindowOver(r) == r.reads >= MaxReads \/ r.window = "over"

ReconcileGet(c) ==
    /\ pc[c] \in {"idle", "reconcile_get"}
    /\ row.state \in Reconcilable
    /\ \/ WindowOver(row) /\ Goto(c, "reconcile_expire", row)
       \/ ~WindowOver(row) /\ ~row.backoff /\ Goto(c, "reconcile_claim", row)
    /\ UNCHANGED <<row, spend, authority, cont, wire, resumes>>

\* MUTANT of ReconcileExpire: the deadline update has no state guard.
ReconcileExpireAny(c) ==
    /\ pc[c] = "reconcile_expire"
    /\ row' = [row EXCEPT !.state = "unresolved_needs_attention"]
    /\ Return(c)
    /\ UNCHANGED <<spend, authority, wire, resumes>>

\* The deadline update is guarded by state != 'completed' only.
ReconcileExpire(c) ==
    /\ pc[c] = "reconcile_expire"
    /\ row' = IF row.state # "completed"
              THEN [row EXCEPT !.state = "unresolved_needs_attention"]
              ELSE row
    /\ Return(c)
    /\ UNCHANGED <<spend, authority, wire, resumes>>

\* The attempt is counted before the provider is read.
ReconcileClaim(c) ==
    /\ pc[c] = "reconcile_claim"
    /\ row.state = snap[c].state
    /\ row.reads = snap[c].reads
    /\ ~row.backoff
    /\ row' = [row EXCEPT !.state = "reconciling", !.reads = @ + 1, !.backoff = TRUE,
                          !.window = IF @ = "unset" THEN "open" ELSE @]
    /\ Goto(c, "reconcile_read", snap[c])
    /\ UNCHANGED <<spend, authority, cont, wire, resumes>>

\* MUTANT of Matching: a booking the provider has not confirmed is accepted.
MatchingPending(t) ==
    {d \in Dispatches : /\ wire[d].outcome \in Booked
                        /\ t.quote # 0 /\ wire[d].quote = t.quote
                        /\ t.dispatch # 0
                        /\ t.booking # 0 => d = t.booking}

\* The owned bookings whose fingerprint matches the caller's copy of the row: a
\* known booking is retrieved, otherwise the bookings are listed.
Matching(t) ==
    {d \in Dispatches : /\ wire[d].outcome = "confirmed"
                        /\ t.quote # 0 /\ wire[d].quote = t.quote
                        /\ t.dispatch # 0
                        /\ t.booking # 0 => d = t.booking}

\* Exactly one match and a complete scan verify the booking.  A look-alike of
\* another account or a truncated list is ambiguous; an error, an empty or a
\* late list finds nothing.
ReconcileRead(c) ==
    /\ pc[c] = "reconcile_read"
    /\ \/ Goto(c, "record_nothing", snap[c])
       \/ Goto(c, "record_ambiguous", snap[c])
       \/ \E d \in Dispatches :
            /\ Matching(snap[c].body) = {d}
            /\ Goto(c, "record_verified", [snap[c] EXCEPT !.body.booking = d])
    /\ UNCHANGED <<row, spend, authority, cont, wire, resumes>>

\* The claim this caller made is still the row's latest.
Claimed(c) == row.state = "reconciling" /\ row.reads = snap[c].reads + 1

RecordVerified(c) ==
    /\ pc[c] = "record_verified"
    /\ IF Claimed(c)
       THEN /\ row' = [row EXCEPT !.state = "completed", !.body = snap[c].body]
            /\ spend' = "committed"
       ELSE UNCHANGED <<row, spend>>
    /\ Return(c)
    /\ UNCHANGED <<authority, wire, resumes>>

RecordUnverified(c) ==
    /\ pc[c] \in {"record_ambiguous", "record_nothing"}
    /\ LET next == IF pc[c] = "record_ambiguous" \/ snap[c].reads + 1 >= MaxReads
                   THEN "unresolved_needs_attention"
                   ELSE "booking_uncertain"
       IN  row' = IF Claimed(c) THEN [row EXCEPT !.state = next] ELSE row
    /\ Return(c)
    /\ UNCHANGED <<spend, authority, wire, resumes>>
-----------------------------------------------------------------------------
(* What can happen to a call, and the world around the ledger.             *)

\* The future is dropped, the process dies, a provider read fails or a
\* compare-and-set finds the row changed: the call ends, the rows stay.
Lose(c) ==
    /\ pc[c] # "idle"
    /\ Return(c)
    /\ UNCHANGED <<row, spend, authority, wire, resumes>>

ProviderBooks(d) ==
    /\ wire[d].outcome = "sent"
    /\ \E o \in Booked : wire' = [wire EXCEPT ![d].outcome = o]
    /\ UNCHANGED <<row, spend, authority, pc, snap, cont, resumes>>

ProviderRefuses(d) ==
    /\ wire[d].outcome = "sent"
    /\ \E o \in NotBooked : wire' = [wire EXCEPT ![d].outcome = o]
    /\ UNCHANGED <<row, spend, authority, pc, snap, cont, resumes>>

ProviderConfirms(d) ==
    /\ wire[d].outcome = "pending"
    /\ wire' = [wire EXCEPT ![d].outcome = "confirmed"]
    /\ UNCHANGED <<row, spend, authority, pc, snap, cont, resumes>>

\* The agent bridge attaches or loses the run, queues or discards a Stop.
AuthorityChanges ==
    /\ authority' = ~authority
    /\ UNCHANGED <<row, spend, pc, snap, cont, wire, resumes>>

BackoffElapses ==
    /\ row.backoff
    /\ row' = [row EXCEPT !.backoff = FALSE]
    /\ UNCHANGED <<spend, authority, pc, snap, cont, wire, resumes>>

WindowCloses ==
    /\ row.window = "open"
    /\ row' = [row EXCEPT !.window = "over"]
    /\ UNCHANGED <<spend, authority, pc, snap, cont, wire, resumes>>
-----------------------------------------------------------------------------
Call(c) ==
    \/ SelectGet(c) \/ SelectSave(c)
    \/ QuoteGet(c) \/ QuoteFence(c) \/ QuoteAnswer(c) \/ QuoteSave(c)
    \/ BookGet(c) \/ BookRefresh(c) \/ BookReget(c) \/ BookFence(c) \/ BookSend(c)
    \/ BookConfirmed(c) \/ BookRejected(c) \/ BookUncertain(c)
    \/ ReconcileGet(c) \/ ReconcileExpire(c) \/ ReconcileClaim(c) \/ ReconcileRead(c)
    \/ RecordVerified(c) \/ RecordUnverified(c)
    \/ Lose(c)

Provider(d) == ProviderBooks(d) \/ ProviderRefuses(d) \/ ProviderConfirms(d)

Next ==
    \/ Begin \/ Stop \/ ResumeReconciliation
    \/ \E c \in Callers : Call(c)
    \/ \E d \in Dispatches : Provider(d)
    \/ AuthorityChanges \/ BackoffElapses \/ WindowCloses

Spec == Init /\ [][Next]_vars

\* The Pi caller must call reconcile whenever it is due, also after a restart;
\* its single steps may be lost any number of times but not for ever.
\* A call in progress ends: every provider request has a 45 s timeout.
Reconciling(c) ==
    \/ ReconcileGet(c) \/ ReconcileExpire(c) \/ ReconcileClaim(c)
Finishing(c) ==
    \/ BookSend(c) \/ BookUncertain(c) \/ ReconcileRead(c)
    \/ RecordVerified(c) \/ RecordUnverified(c) \/ Lose(c)

FairSpec ==
    /\ Spec
    /\ WF_vars(BackoffElapses)
    /\ \A c \in Callers : /\ SF_vars(ReconcileGet(c))
                          /\ SF_vars(ReconcileExpire(c))
                          /\ SF_vars(ReconcileClaim(c))
                          /\ WF_vars(Finishing(c))
-----------------------------------------------------------------------------
(* Properties.                                                             *)

TypeOK ==
    /\ row \in Rows
    /\ spend \in {"none", "reserved", "released", "committed"}
    /\ authority \in BOOLEAN
    /\ pc \in [Callers -> Steps]
    /\ snap \in [Callers -> Rows]
    /\ cont \in [Callers -> {"idle", "book_reget"}]
    /\ wire \in [Dispatches -> [outcome : Outcomes, quote : 0..MaxFences]]
    /\ resumes \in 0..MaxResumes

\* Writes that are fenced or on the socket, or booked: only a refusal by the
\* provider ends this.
Live == {d \in Dispatches : wire[d].outcome \notin {"none"} \union NotBooked}

\* At most one booking write of a goal can ever charge the account: whatever
\* was lost, replayed or stopped, a second create is fenced only when the
\* provider has refused the first ("never replay create").
AtMostOneLiveWrite ==
    \A d, e \in Live : d = e

\* While a write may have taken effect the money stays held: "Holds survive
\* Stop, 500/502/504, timeout, malformed success, 202 and lost futures".
HoldCoversLiveWrite ==
    Live # {} => spend \in {"reserved", "committed"}

\* Reconciliation compares bookings with the row's own quote and write number,
\* so nothing may overwrite them while a write is live: neither a late save by
\* the booking call nor a stale copy written by a reconciliation.
RowKeepsLiveWrite ==
    \A d \in Live : /\ row.state \in Held
                    /\ row.body.dispatch = d
                    /\ row.body.quote = wire[d].quote

\* A completed goal is one booking, confirmed at the provider, for the quote the
\* row holds, and exactly then its spend is committed.
CompletedIsVerified ==
    /\ spend = "committed" <=> row.state = "completed"
    /\ row.state = "completed" =>
         /\ row.body.booking \in Live
         /\ wire[row.body.booking] = [outcome |-> "confirmed", quote |-> row.body.quote]

\* A quote that may be booked answers the latest quote request, and no answer to
\* a superseded request ever takes the row back to the older one.
QuoteIsCurrent ==
    [][/\ row'.body.fence >= row.body.fence
       /\ row'.body.quote # 0 => row'.body.quote = row'.body.fence]_vars

\* A goal shown as stopped before booking has no write that could still book.
StoppedIsClean ==
    row.state = "stopped" => Live = {} /\ spend \in {"none", "released"}

\* A final rejection (422, fraud) is final: no later quote, selection or write.
FinalRefusalIsFinal ==
    [][(row.state = "booking_failed" /\ ~row.body.retryAllowed)
         => /\ row'.state \in {"booking_failed", "stopped", "unresolved_needs_attention"}
            /\ row'.body = row.body]_vars

\* Completion survives everything: stale reconciliations, a late answer of the
\* booking call, the deadline update, Stop and the operator.  Stop is never undone.
CompletionIsFinal ==
    [][/\ row.state = "completed" =>
            row'.state = "completed" /\ row'.body = row.body /\ spend' = spend
       /\ row.stopped => row'.stopped /\ row'.body.dispatch = row.body.dispatch]_vars

\* Losing a reconciliation at any point cannot wedge the goal: a crashed read is
\* counted, so the state leaves the uncertain ones after at most MaxReads.
ReconciliationEnds ==
    row.state \in {"booking_dispatched", "booking_uncertain", "reconciling"}
        ~> row.state \notin {"booking_dispatched", "booking_uncertain", "reconciling"}

\* The ledger implements the abstract booking promise.
Promise == INSTANCE BookOnce WITH Writes <- Dispatches, hold <- spend, live <- Live
PromiseSpec == Promise!Spec
=============================================================================
