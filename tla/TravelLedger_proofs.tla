------------------------ MODULE TravelLedger_proofs ------------------------
(***************************************************************************)
(* The ledger's safety for any number of callers, reads, quotes and        *)
(* booking writes.  Inv strengthens the properties of TravelLedger: it     *)
(* says what a call in progress still knows for certain.                   *)
(***************************************************************************)
EXTENDS TravelLedger, TLAPS

\* Write numbers are used in order, and the row carries the latest.
WritesInOrder ==
    \A d \in Dispatches : wire[d].outcome = "none" <=> d > row.body.dispatch

\* Money is committed by completion only, free unless the row is held, and has
\* been reserved once when the row knows of a write.
SpendFollowsState ==
    /\ spend = "committed" <=> row.state = "completed"
    /\ row.state \notin Held => spend \in {"none", "released"}
    /\ row.body.dispatch # 0 => spend # "none"

CompletedBooking ==
    row.state = "completed" =>
        /\ row.body.booking \in Dispatches
        /\ wire[row.body.booking] = [outcome |-> "confirmed", quote |-> row.body.quote]

\* A quote always answers the request recorded next to it.
QuotesAnswer ==
    /\ row.body.quote # 0 => row.body.quote = row.body.fence
    /\ \A c \in Callers : snap[c].body.quote # 0 => snap[c].body.quote = snap[c].body.fence

\* The one call that owns the live write holds the row's data in memory, and
\* the row cannot become bookable behind its back.
Booking(c) == pc[c] \in {"book_send", "book_wire"}
OwnsWrite(c) ==
    /\ row.state \in Held
    /\ snap[c].body.dispatch \in Dispatches
    /\ snap[c].body.dispatch = row.body.dispatch
    /\ snap[c].body.quote = row.body.quote
    /\ snap[c].body.fence = row.body.fence
    /\ wire[snap[c].body.dispatch].quote = snap[c].body.quote
    /\ pc[c] = "book_send" => wire[snap[c].body.dispatch].outcome = "fenced"
    /\ pc[c] = "book_wire" => wire[snap[c].body.dispatch].outcome \notin {"none", "fenced"}
BookingOwnsWrite ==
    /\ \A c \in Callers : Booking(c) => OwnsWrite(c)
    /\ \A c, e \in Callers : Booking(c) /\ Booking(e) => c = e

\* A reconciliation's copy of the row is never newer than the row; with the
\* same quote request it knows the same write, and no bookable quote is as old.
Verifying(c) == pc[c] \in {"reconcile_claim", "reconcile_read", "record_verified"}
CopyIsPast(c) ==
    /\ snap[c].body.fence <= row.body.fence
    /\ snap[c].body.fence = row.body.fence => snap[c].body.dispatch = row.body.dispatch
    /\ row.state \in {"quoting", "quoted"} => snap[c].body.fence < row.body.fence
    /\ pc[c] = "reconcile_claim" => snap[c].reads < MaxReads /\ snap[c].state \in Reconcilable
VerifyingCopies ==
    \A c \in Callers : Verifying(c) => CopyIsPast(c)

\* Selections and quotes were started on a row open to them.
OpenCopy(c) ==
    /\ snap[c].state \in Open
    /\ snap[c].state = "booking_failed" => snap[c].body.retryAllowed
OpenCopies ==
    \A c \in Callers : pc[c] \in {"select_save", "quote_fence"} => OpenCopy(c)

\* A verdict "verified" names a booking the provider has confirmed.
VerdictsTrue ==
    \A c \in Callers : pc[c] = "record_verified" =>
        /\ snap[c].body.booking \in Dispatches
        /\ snap[c].body.quote # 0
        /\ wire[snap[c].body.booking] = [outcome |-> "confirmed", quote |-> snap[c].body.quote]

Inv ==
    /\ TypeOK
    /\ WritesInOrder
    /\ RowKeepsLiveWrite
    /\ HoldCoversLiveWrite
    /\ SpendFollowsState
    /\ CompletedBooking
    /\ QuotesAnswer
    /\ BookingOwnsWrite
    /\ VerifyingCopies
    /\ OpenCopies
    /\ VerdictsTrue
-----------------------------------------------------------------------------
\* Every row a call can write is a row of the table.
LEMMA TypeInit == Init => TypeOK
BY LedgerAssumption DEF Init, TypeOK, EmptyRow, EmptyBody, Rows, Bodies, States, Open, Held,
   Steps, Outcomes, Dispatches

LEMMA ControlType ==
    ASSUME TypeOK, NEW c \in Callers, NEW s \in Steps, NEW r \in Rows, Goto(c, s, r)
    PROVE  pc' \in [Callers -> Steps] /\ snap' \in [Callers -> Rows]
BY DEF TypeOK, Goto

LEMMA ReturnType ==
    ASSUME TypeOK, NEW c \in Callers, Return(c)
    PROVE  /\ pc' \in [Callers -> Steps] /\ snap' \in [Callers -> Rows]
           /\ cont' \in [Callers -> {"idle", "book_reget"}]
<1>1. EmptyRow \in Rows
  BY LedgerAssumption DEF EmptyRow, EmptyBody, Rows, Bodies, States
<1>2. "idle" \in Steps
  BY DEF Steps
<1>3. cont' \in [Callers -> {"idle", "book_reget"}]
  BY DEF Return, TypeOK
<1> QED BY <1>1, <1>2, <1>3, ControlType DEF Return

LEMMA TypeStep == TypeOK /\ VerifyingCopies /\ [Next]_vars => TypeOK'
<1> SUFFICES ASSUME TypeOK, VerifyingCopies, [Next]_vars PROVE TypeOK'
  OBVIOUS
<1> USE LedgerAssumption
<1>e. EmptyRow \in Rows
  BY DEF EmptyRow, EmptyBody, Rows, Bodies, States
<1>1. CASE Begin
  BY <1>1 DEF Begin, TypeOK, Rows, States, Open
<1>2. CASE Stop
  BY <1>2 DEF Stop, TypeOK, Rows, States, Open, Held
<1>3. CASE ResumeReconciliation
  <2>1. row' \in Rows
    <3>1. row \in Rows /\ 0 \in 0..MaxReads
      BY DEF TypeOK
    <3>2. "booking_uncertain" \in States
      BY DEF States, Held
    <3> QED BY <3>1, <3>2, <1>3 DEF ResumeReconciliation, Rows
  <2>2. resumes' \in 0..MaxResumes
    BY <1>3 DEF ResumeReconciliation, TypeOK
  <2> QED BY <2>1, <2>2, <1>3 DEF ResumeReconciliation, TypeOK
<1>4. CASE AuthorityChanges \/ BackoffElapses \/ WindowCloses \/ UNCHANGED vars
  BY <1>4 DEF AuthorityChanges, BackoffElapses, WindowCloses, vars, TypeOK, Rows
<1>5. ASSUME NEW d \in Dispatches, Provider(d) PROVE TypeOK'
  BY <1>5 DEF Provider, ProviderBooks, ProviderRefuses, ProviderConfirms, TypeOK, Outcomes,
     Booked, NotBooked
<1>6. ASSUME NEW c \in Callers, Call(c) PROVE TypeOK'
  <2> DEFINE Ctl == pc' \in [Callers -> Steps] /\ snap' \in [Callers -> Rows]
  <2>0. snap[c] \in Rows /\ row \in Rows /\ cont[c] \in Steps
    BY DEF TypeOK, Steps
  <2>1. CASE SelectGet(c) \/ QuoteGet(c) \/ BookGet(c) \/ BookReget(c)
    BY <2>1, <2>0, ControlType DEF SelectGet, QuoteGet, BookGet, BookReget, TypeOK, Steps
  <2>2. CASE SelectSave(c)
    <3>1. [row.body EXCEPT !.quote = 0] \in Bodies
      BY <2>0 DEF Rows, Bodies
    <3>2. row' \in Rows
      BY <3>1, <2>0, <2>2 DEF SelectSave, Rows, States, Open
    <3> QED BY <3>2, <2>2, ReturnType DEF SelectSave, TypeOK
  <2>3. CASE QuoteFence(c)
    <3> DEFINE fenced == [snap[c].body EXCEPT !.fence = @ + 1, !.quote = 0]
    <3>1. fenced \in Bodies
      <4>1. snap[c].body \in Bodies /\ snap[c].body.fence < MaxFences
        BY <2>3, <2>0 DEF QuoteFence, Unchanged, Rows
      <4>2. snap[c].body.fence + 1 \in 0..MaxFences /\ 0 \in 0..MaxFences
        BY <4>1 DEF Bodies
      <4> QED BY <4>1, <4>2 DEF Bodies
    <3>2. [snap[c] EXCEPT !.body = fenced] \in Rows /\ "quote_wire" \in Steps
      BY <3>1, <2>0 DEF Rows, Steps
    <3>3. Ctl
      BY <3>2, <2>3, ControlType DEF QuoteFence
    <3> QED BY <3>1, <3>3, <2>3 DEF QuoteFence, TypeOK, Rows, States, Open
  <2>4. CASE QuoteAnswer(c)
    BY <2>4, <2>0, ControlType DEF QuoteAnswer, TypeOK, Steps
  <2>5. CASE QuoteSave(c)
    <3>1. Ctl
      BY <2>5, <2>0, <1>e, ControlType DEF QuoteSave
    <3>2. [snap[c].body EXCEPT !.quote = snap[c].body.fence] \in Bodies
      BY <2>0 DEF Rows, Bodies
    <3> QED BY <3>1, <3>2, <2>5 DEF QuoteSave, TypeOK, Rows, States, Open
  <2>6. CASE BookRefresh(c)
    BY <2>6, <2>0, ControlType DEF BookRefresh, TypeOK, Steps
  <2>7. CASE BookFence(c)
    <3> DEFINE body == [snap[c].body EXCEPT !.dispatch = snap[c].body.dispatch + 1]
    <3>1. body \in Bodies
      BY <2>7, <2>0 DEF BookFence, Dispatches, Rows, Bodies
    <3>2. [snap[c] EXCEPT !.body = body] \in Rows /\ "book_send" \in Steps
      BY <3>1, <2>0 DEF Rows, Steps
    <3>3. Ctl
      BY <3>2, <2>7, ControlType DEF BookFence
    <3>4. row' \in Rows
      BY <3>1, <2>0, <2>7 DEF BookFence, Rows, States, Held
    <3>5. wire' \in [Dispatches -> [outcome : Outcomes, quote : 0..MaxFences]]
      <4>1. body.quote \in 0..MaxFences /\ "fenced" \in Outcomes
        BY <3>1 DEF Bodies, Outcomes
      <4> QED BY <4>1, <2>7 DEF BookFence, TypeOK
    <3> QED BY <3>3, <3>4, <3>5, <2>7 DEF BookFence, TypeOK
  <2>8. CASE BookSend(c)
    BY <2>8, <2>0, ControlType DEF BookSend, TypeOK, Steps, Outcomes
  <2>9. CASE BookConfirmed(c)
    <3>1. Ctl
      BY <2>9, <1>e, ControlType DEF BookConfirmed, Steps
    <3>2. [snap[c].body EXCEPT !.booking = snap[c].body.dispatch] \in Bodies
      BY <2>0 DEF Rows, Bodies
    <3>3. row' \in Rows
      BY <3>2, <2>9, <2>0 DEF BookConfirmed, Rows, States, Held
    <3> QED BY <3>1, <3>3, <2>9 DEF BookConfirmed, TypeOK
  <2>10. CASE BookRejected(c)
    <3>1. Ctl /\ cont' \in [Callers -> {"idle", "book_reget"}]
      BY <2>10, ReturnType DEF BookRejected
    <3>2. \A b \in BOOLEAN : [snap[c].body EXCEPT !.retryAllowed = b] \in Bodies
      BY <2>0 DEF Rows, Bodies
    <3>3. row' \in Rows
      BY <3>2, <2>10, <2>0 DEF BookRejected, Rows, States, Open
    <3> QED BY <3>1, <3>3, <2>10 DEF BookRejected, TypeOK
  <2>11. CASE BookUncertain(c)
    BY <2>11, ReturnType DEF BookUncertain, TypeOK, Rows, States, Held
  <2>12. CASE ReconcileGet(c)
    BY <2>12, <2>0, ControlType DEF ReconcileGet, TypeOK, Steps
  <2>13. CASE ReconcileExpire(c)
    BY <2>13, ReturnType DEF ReconcileExpire, TypeOK, Rows, States, Held
  <2>14. CASE ReconcileClaim(c)
    <3>1. Ctl
      BY <2>14, <2>0, ControlType DEF ReconcileClaim, Steps
    <3>2. row.reads + 1 \in 0..MaxReads
      BY <2>14, <2>0 DEF ReconcileClaim, VerifyingCopies, Verifying, CopyIsPast, Rows
    <3>3. row' \in Rows
      BY <3>2, <2>0, <2>14 DEF ReconcileClaim, Rows, States, Held
    <3> QED BY <3>1, <3>3, <2>14 DEF ReconcileClaim, TypeOK
  <2>15. CASE ReconcileRead(c)
    <3>1. CASE \E d \in Dispatches :
                 Goto(c, "record_verified", [snap[c] EXCEPT !.body.booking = d])
      <4> PICK d \in Dispatches :
                 Goto(c, "record_verified", [snap[c] EXCEPT !.body.booking = d])
        BY <3>1
      <4>1. [snap[c] EXCEPT !.body.booking = d] \in Rows
        BY <2>0 DEF Rows, Bodies, Dispatches
      <4> QED BY <4>1, <2>15, ControlType DEF ReconcileRead, TypeOK, Steps
    <3>2. CASE Goto(c, "record_nothing", snap[c]) \/ Goto(c, "record_ambiguous", snap[c])
      BY <3>2, <2>0, <2>15, ControlType DEF ReconcileRead, TypeOK, Steps
    <3> QED BY <3>1, <3>2, <2>15 DEF ReconcileRead
  <2>16. CASE RecordVerified(c)
    <3>1. Ctl /\ cont' \in [Callers -> {"idle", "book_reget"}]
      BY <2>16, ReturnType DEF RecordVerified
    <3>2. row' \in Rows
      BY <2>0, <2>16 DEF RecordVerified, Rows, States, Held
    <3> QED BY <3>1, <3>2, <2>16 DEF RecordVerified, TypeOK
  <2>17. CASE RecordUnverified(c)
    <3>1. Ctl /\ cont' \in [Callers -> {"idle", "book_reget"}]
      BY <2>17, ReturnType DEF RecordUnverified
    <3>2. row' \in Rows
      BY <2>0, <2>17 DEF RecordUnverified, Rows, States, Held
    <3> QED BY <3>1, <3>2, <2>17 DEF RecordUnverified, TypeOK
  <2>18. CASE Lose(c)
    BY <2>18, ReturnType DEF Lose, TypeOK
  <2> QED BY <1>6, <2>1, <2>2, <2>3, <2>4, <2>5, <2>6, <2>7, <2>8, <2>9, <2>10, <2>11, <2>12,
             <2>13, <2>14, <2>15, <2>16, <2>17, <2>18 DEF Call
<1> QED BY <1>1, <1>2, <1>3, <1>4, <1>5, <1>6 DEF Next
-----------------------------------------------------------------------------
\* The part of Inv that speaks of the stored rows and the provider only.
Store ==
    /\ WritesInOrder
    /\ RowKeepsLiveWrite
    /\ HoldCoversLiveWrite
    /\ SpendFollowsState
    /\ CompletedBooking

LEMMA GotoFacts ==
    ASSUME TypeOK, NEW c \in Callers, NEW s, NEW r, Goto(c, s, r)
    PROVE  /\ pc'[c] = s /\ snap'[c] = r
           /\ \A e \in Callers : e # c => pc'[e] = pc[e] /\ snap'[e] = snap[e]
BY DEF TypeOK, Goto

\* A step that keeps the row's data, the hold and the provider's side keeps the
\* stored facts when it neither leaves the held states nor enters or leaves
\* "completed".
LEMMA StateMove ==
    ASSUME Store, row'.body = row.body, spend' = spend, wire' = wire,
           row.state \in Held => row'.state \in Held,
           row.state = "completed" <=> row'.state = "completed"
    PROVE  Store'
<1>1. WritesInOrder'
  BY DEF Store, WritesInOrder
<1>2. RowKeepsLiveWrite' /\ HoldCoversLiveWrite'
  BY DEF Store, RowKeepsLiveWrite, HoldCoversLiveWrite, Live
<1>3. SpendFollowsState' /\ CompletedBooking'
  BY DEF Store, SpendFollowsState, CompletedBooking
<1> QED BY <1>1, <1>2, <1>3 DEF Store

\* No write is live while the row can still be quoted or has never been held.
LEMMA OpenIsUnbooked ==
    ASSUME Store, row.state \notin Held
    PROVE  Live = {}
BY DEF Store, RowKeepsLiveWrite, Live

\* The provider never changes the quote of a write, nor un-fences it.
LEMMA ProviderStep ==
    ASSUME Inv, NEW d \in Dispatches, Provider(d)
    PROVE  /\ wire[d].outcome \in {"sent", "pending"}
           /\ wire'[d].outcome \in Booked \union NotBooked
           /\ wire[d].outcome = "pending" => wire'[d].outcome = "confirmed"
           /\ wire'[d].quote = wire[d].quote
           /\ \A e \in Dispatches : e # d => wire'[e] = wire[e]
           /\ UNCHANGED <<row, spend, authority, pc, snap, cont, resumes>>
BY DEF Inv, TypeOK, Provider, ProviderBooks, ProviderRefuses, ProviderConfirms, Booked, NotBooked

LEMMA StoreStep == Inv /\ [Next]_vars => Store'
<1> SUFFICES ASSUME Inv, [Next]_vars PROVE Store'
  OBVIOUS
<1>s. Store /\ TypeOK /\ row \in Rows /\ row.body \in Bodies
  BY DEF Inv, Store, TypeOK, Rows
<1>1. CASE Begin \/ Stop \/ ResumeReconciliation \/ BackoffElapses \/ WindowCloses
  <2>1. CASE Begin
    BY <1>s, <2>1, StateMove DEF Begin, Rows, Held
  <2>2. CASE Stop
    BY <1>s, <2>2, StateMove DEF Stop, Rows, Held, Open
  <2>3. CASE ResumeReconciliation
    BY <1>s, <2>3, StateMove DEF ResumeReconciliation, Rows, Held
  <2>4. CASE BackoffElapses \/ WindowCloses
    BY <1>s, <2>4, StateMove DEF BackoffElapses, WindowCloses, Rows
  <2> QED BY <1>1, <2>1, <2>2, <2>3, <2>4
<1>2. CASE AuthorityChanges \/ UNCHANGED vars
  BY <1>s, <1>2, StateMove DEF AuthorityChanges, vars
<1>3. ASSUME NEW d \in Dispatches, Provider(d) PROVE Store'
  <2>1. Live' \subseteq Live /\ (wire[d].outcome = "pending" => d \in Live')
    BY <1>3, ProviderStep DEF Live, Booked, NotBooked
  <2>2. WritesInOrder'
    BY <1>s, <1>3, ProviderStep DEF Store, WritesInOrder, Booked, NotBooked
  <2>3. RowKeepsLiveWrite' /\ HoldCoversLiveWrite'
    BY <1>s, <1>3, <2>1, ProviderStep DEF Store, RowKeepsLiveWrite, HoldCoversLiveWrite, Live
  <2>4. SpendFollowsState' /\ CompletedBooking'
    BY <1>s, <1>3, ProviderStep DEF Store, SpendFollowsState, CompletedBooking
  <2> QED BY <2>2, <2>3, <2>4 DEF Store
<1>4. ASSUME NEW c \in Callers, Call(c) PROVE Store'
  <2>o. Booking(c) => OwnsWrite(c)
    BY DEF Inv, BookingOwnsWrite
  <2>t. snap[c] \in Rows /\ snap[c].body \in Bodies
    BY DEF Inv, TypeOK, Rows
  <2>1. CASE SelectGet(c) \/ QuoteGet(c) \/ QuoteAnswer(c) \/ BookGet(c) \/ BookRefresh(c)
             \/ BookReget(c) \/ ReconcileGet(c) \/ ReconcileRead(c) \/ Lose(c)
    BY <1>s, <2>1, StateMove DEF SelectGet, QuoteGet, QuoteAnswer, BookGet, BookRefresh,
       BookReget, ReconcileGet, ReconcileRead, Lose
  <2>2. CASE SelectSave(c) \/ QuoteFence(c) \/ QuoteSave(c)
    <3>1. SelectSave(c) /\ ~Unchanged(c) => Store'
      BY <1>s, StateMove DEF SelectSave
    <3>2. CASE \/ SelectSave(c) /\ Unchanged(c)
               \/ QuoteFence(c) \/ QuoteSave(c)
      <4>1. row.state \in Open
        BY <3>2 DEF SelectSave, QuoteFence, QuoteSave, Unchanged, Open, Inv, OpenCopies, OpenCopy
      <4>2. row'.state \in Open /\ row'.body.dispatch = row.body.dispatch
        <5>1. CASE SelectSave(c) /\ Unchanged(c)
          BY <5>1, <1>s DEF SelectSave, Rows, Bodies, Open
        <5>2. CASE QuoteFence(c)
          BY <5>2, <1>s, <2>t DEF QuoteFence, Unchanged, Rows, Bodies, Open
        <5>3. CASE QuoteSave(c)
          BY <5>3, <1>s, <2>t DEF QuoteSave, Rows, Bodies, Open
        <5> QED BY <3>2, <5>1, <5>2, <5>3
      <4>3. spend' = spend /\ wire' = wire
        BY <3>2 DEF SelectSave, QuoteFence, QuoteSave
      <4>4. Live = {} /\ Live' = {}
        BY <4>1, <4>3, <1>s, OpenIsUnbooked DEF Open, Held, Live
      <4> QED BY <4>1, <4>2, <4>3, <4>4, <1>s DEF Store, WritesInOrder, RowKeepsLiveWrite,
              HoldCoversLiveWrite, SpendFollowsState, CompletedBooking, Open, Held
    <3> QED BY <2>2, <3>1, <3>2
  <2>3. CASE BookFence(c)
    <3> DEFINE d == snap[c].body.dispatch + 1
    <3>1. /\ row.state = "quoted" /\ row.body.dispatch = snap[c].body.dispatch
          /\ d \in Dispatches /\ row'.state = "booking_dispatched"
          /\ row'.body.dispatch = d /\ row'.body.quote = snap[c].body.quote
          /\ spend' = IF spend \in {"none", "released"} THEN "reserved" ELSE spend
          /\ wire'[d] = [outcome |-> "fenced", quote |-> snap[c].body.quote]
          /\ \A e \in Dispatches : e # d => wire'[e] = wire[e]
      BY <2>3, <1>s, <2>t DEF BookFence, Rows, Bodies, Inv, TypeOK
    <3>2. Live = {} /\ spend \in {"none", "released"}
      BY <3>1, <1>s, OpenIsUnbooked DEF Held, Store, SpendFollowsState
    <3>3. Live' = {d}
      BY <3>1, <3>2 DEF Live, NotBooked
    <3>4. WritesInOrder'
      <4>1. snap[c].body.dispatch \in Nat /\ row.body.dispatch \in Nat
        BY <2>t, <1>s DEF Bodies
      <4> QED BY <3>1, <4>1, <1>s DEF Store, WritesInOrder, Dispatches
    <3>5. RowKeepsLiveWrite' /\ HoldCoversLiveWrite' /\ SpendFollowsState' /\ CompletedBooking'
      BY <3>1, <3>2, <3>3 DEF RowKeepsLiveWrite, HoldCoversLiveWrite, SpendFollowsState,
         CompletedBooking, Held
    <3> QED BY <3>4, <3>5 DEF Store
  <2>4. CASE BookSend(c)
    <3> DEFINE d == snap[c].body.dispatch
    <3>1. OwnsWrite(c) /\ pc[c] = "book_send"
      BY <2>4, <2>o DEF BookSend, Booking
    <3>2. /\ d \in Dispatches /\ wire[d].outcome = "fenced"
          /\ wire'[d].outcome = "sent" /\ wire'[d].quote = wire[d].quote
          /\ \A e \in Dispatches : e # d => wire'[e] = wire[e]
          /\ row' = row /\ spend' = spend
      BY <2>4, <3>1, <1>s DEF BookSend, OwnsWrite, TypeOK
    <3>3. Live' = Live
      BY <3>2 DEF Live, NotBooked
    <3> QED BY <3>2, <3>3, <1>s DEF Store, WritesInOrder, RowKeepsLiveWrite,
            HoldCoversLiveWrite, SpendFollowsState, CompletedBooking, Live
  <2>5. CASE BookConfirmed(c)
    <3>1. CASE row' = row
      BY <3>1, <2>5, <1>s, StateMove DEF BookConfirmed
    <3>2. CASE row' # row
      <4>1. /\ row.state \in {"booking_dispatched", "booking_uncertain"}
            /\ row'.state = "booking_uncertain"
            /\ row'.body.dispatch = snap[c].body.dispatch
            /\ row'.body.quote = snap[c].body.quote
            /\ spend' = spend /\ wire' = wire
        BY <3>2, <2>5, <2>t, <1>s DEF BookConfirmed, Rows, Bodies
      <4>2. row'.body.dispatch = row.body.dispatch /\ row'.body.quote = row.body.quote
        BY <2>5, <2>o, <4>1 DEF BookConfirmed, Booking, OwnsWrite
      <4> QED BY <4>1, <4>2, <1>s DEF Store, WritesInOrder, RowKeepsLiveWrite,
              HoldCoversLiveWrite, SpendFollowsState, CompletedBooking, Live, Held
    <3> QED BY <3>1, <3>2
  <2>6. CASE BookRejected(c)
    <3>1. CASE row.state \notin {"booking_dispatched", "booking_uncertain"}
      BY <3>1, <2>6, <1>s, StateMove DEF BookRejected
    <3>2. CASE row.state \in {"booking_dispatched", "booking_uncertain"}
      <4>1. /\ row'.state = "booking_failed" /\ spend' = "released" /\ wire' = wire
            /\ row'.body.dispatch = snap[c].body.dispatch
        <5> DEFINE body(x) == [snap[c].body EXCEPT !.retryAllowed = x]
        <5>1. \A x : body(x).dispatch = snap[c].body.dispatch
          BY <2>t DEF Bodies
        <5>2. \E x : row' = [row EXCEPT !.state = "booking_failed", !.body = body(x)]
          BY <3>2, <2>6 DEF BookRejected
        <5>3. row'.state = "booking_failed" /\ row'.body.dispatch = snap[c].body.dispatch
          <6> PICK x : row' = [row EXCEPT !.state = "booking_failed", !.body = body(x)]
            BY <5>2
          <6>1. row'.state = "booking_failed" /\ row'.body = body(x)
            BY <1>s DEF Rows
          <6> QED BY <6>1, <5>1
        <5> QED BY <5>3, <3>2, <2>6 DEF BookRejected
      <4>2. row.body.dispatch = snap[c].body.dispatch
        BY <2>6, <2>o DEF BookRejected, Booking, OwnsWrite
      <4>3. Live = {}
        BY <2>6, <4>2, <1>s DEF BookRejected, Live, Store, RowKeepsLiveWrite
      <4> QED BY <4>1, <4>2, <4>3, <1>s DEF Store, WritesInOrder, RowKeepsLiveWrite,
              HoldCoversLiveWrite, SpendFollowsState, CompletedBooking, Live, Held
    <3> QED BY <3>1, <3>2
  <2>7. CASE BookUncertain(c)
    BY <2>7, <1>s, StateMove DEF BookUncertain, Held, Rows
  <2>8. CASE ReconcileExpire(c)
    BY <2>8, <1>s, StateMove DEF ReconcileExpire, Held, Rows
  <2>9. CASE ReconcileClaim(c)
    <3>1. row.state \in Reconcilable
      BY <2>9 DEF ReconcileClaim, Inv, VerifyingCopies, Verifying, CopyIsPast
    <3>2. row'.state = "reconciling" /\ row'.body = row.body
      BY <2>9, <1>s DEF ReconcileClaim, Rows
    <3> QED BY <3>1, <3>2, <2>9, <1>s, StateMove DEF ReconcileClaim, Held, Reconcilable
  <2>10. CASE RecordUnverified(c)
    BY <2>10, <1>s, StateMove DEF RecordUnverified, Claimed, Held, Rows
  <2>11. CASE RecordVerified(c)
    <3>1. CASE ~Claimed(c)
      BY <3>1, <2>11, <1>s, StateMove DEF RecordVerified
    <3>2. CASE Claimed(c)
      <4> DEFINE b == snap[c].body.booking
      <4>1. /\ b \in Dispatches /\ snap[c].body.quote # 0
            /\ wire[b] = [outcome |-> "confirmed", quote |-> snap[c].body.quote]
        BY <2>11 DEF RecordVerified, Inv, VerdictsTrue
      <4>2. /\ row'.state = "completed" /\ row'.body = snap[c].body
            /\ spend' = "committed" /\ wire' = wire
        BY <3>2, <2>11, <1>s DEF RecordVerified, Rows
      <4>3. b \in Live
        BY <4>1 DEF Live, NotBooked
      <4>4. row.body.dispatch = b /\ row.body.quote = snap[c].body.quote
        BY <4>1, <4>3, <1>s DEF Store, RowKeepsLiveWrite
      <4>5. snap[c].body.fence = row.body.fence
        BY <4>1, <4>4 DEF Inv, QuotesAnswer
      <4>6. snap[c].body.dispatch = row.body.dispatch
        BY <4>5, <2>11 DEF RecordVerified, Inv, VerifyingCopies, Verifying, CopyIsPast
      <4> QED BY <4>1, <4>2, <4>3, <4>4, <4>6, <1>s DEF Store, WritesInOrder,
              RowKeepsLiveWrite, HoldCoversLiveWrite, SpendFollowsState, CompletedBooking,
              Live, Held
    <3> QED BY <3>1, <3>2
  <2> QED BY <1>4, <2>1, <2>2, <2>3, <2>4, <2>5, <2>6, <2>7, <2>8, <2>9, <2>10, <2>11 DEF Call
<1> QED BY <1>1, <1>2, <1>3, <1>4 DEF Next
-----------------------------------------------------------------------------
\* How one step can change the data the callers' copies are compared with.
SameKey ==
    /\ row'.body.fence = row.body.fence
    /\ row'.body.quote = row.body.quote
    /\ row'.body.dispatch = row.body.dispatch
BodyMove ==
    /\ row'.body.fence >= row.body.fence
    /\ row'.body.quote # 0 => row'.body.quote = row'.body.fence
    /\ row'.body.dispatch # row.body.dispatch => row.state = "quoted"
    /\ row'.state \in {"quoting", "quoted"} =>
         row.state \in {"quoting", "quoted"} \/ row'.body.fence > row.body.fence
    /\ row.state \in Held => SameKey

LEMMA BodyStep == Inv /\ [Next]_vars => BodyMove
<1> SUFFICES ASSUME Inv, [Next]_vars PROVE BodyMove
  OBVIOUS
<1>s. /\ row \in Rows /\ row.body \in Bodies /\ row.body.fence \in Nat /\ MaxFences \in Nat
      /\ row.body.quote # 0 => row.body.quote = row.body.fence
  BY LedgerAssumption DEF Inv, TypeOK, Rows, Bodies, QuotesAnswer
<1>k. ASSUME row'.body = row.body,
             row'.state \in {"quoting", "quoted"} => row.state \in {"quoting", "quoted"}
      PROVE  BodyMove
  BY <1>k, <1>s DEF BodyMove, SameKey
<1>1. CASE Begin \/ Stop \/ ResumeReconciliation \/ BackoffElapses \/ WindowCloses
  BY <1>1, <1>s, <1>k DEF Begin, Stop, ResumeReconciliation, BackoffElapses, WindowCloses,
     Rows, Open
<1>2. CASE AuthorityChanges \/ UNCHANGED vars
  BY <1>2, <1>k DEF AuthorityChanges, vars
<1>3. ASSUME NEW d \in Dispatches, Provider(d) PROVE BodyMove
  BY <1>3, <1>k, ProviderStep
<1>4. ASSUME NEW c \in Callers, Call(c) PROVE BodyMove
  <2>t. snap[c] \in Rows /\ snap[c].body \in Bodies
    BY DEF Inv, TypeOK, Rows
  <2>o. Booking(c) => OwnsWrite(c)
    BY DEF Inv, BookingOwnsWrite
  <2>1. CASE \/ SelectGet(c) \/ QuoteGet(c) \/ QuoteAnswer(c) \/ BookGet(c) \/ BookRefresh(c)
             \/ BookReget(c) \/ BookSend(c) \/ ReconcileGet(c) \/ ReconcileRead(c) \/ Lose(c)
    BY <2>1, <1>k DEF SelectGet, QuoteGet, QuoteAnswer, BookGet, BookRefresh, BookReget,
       BookSend, ReconcileGet, ReconcileRead, Lose
  <2>2. CASE BookUncertain(c) \/ ReconcileExpire(c) \/ RecordUnverified(c) \/ ReconcileClaim(c)
    BY <2>2, <1>s, <1>k DEF BookUncertain, ReconcileExpire, RecordUnverified, ReconcileClaim, Rows
  <2>3. CASE SelectSave(c)
    <3>1. CASE ~Unchanged(c)
      BY <3>1, <2>3, <1>k DEF SelectSave
    <3>2. CASE Unchanged(c)
      <4>1. row.state \notin Held
        BY <3>2, <2>3 DEF SelectSave, Unchanged, Inv, OpenCopies, OpenCopy, Open, Held
      <4>2. /\ row'.state = "researching" /\ row'.body.fence = row.body.fence
            /\ row'.body.dispatch = row.body.dispatch /\ row'.body.quote = 0
        BY <3>2, <2>3, <1>s DEF SelectSave, Rows, Bodies
      <4> QED BY <4>1, <4>2, <1>s DEF BodyMove
    <3> QED BY <3>1, <3>2
  <2>4. CASE QuoteFence(c)
    <3>1. row.state \notin Held
      BY <2>4 DEF QuoteFence, Unchanged, Inv, OpenCopies, OpenCopy, Open, Held
    <3>2. /\ row'.body.fence = row.body.fence + 1 /\ row'.body.quote = 0
          /\ row'.body.dispatch = row.body.dispatch
      BY <2>4, <2>t, <1>s DEF QuoteFence, Unchanged, Rows, Bodies
    <3> QED BY <3>1, <3>2, <1>s DEF BodyMove
  <2>5. CASE QuoteSave(c)
    <3>1. /\ row.state = "quoting" /\ row'.body.fence = row.body.fence
          /\ row'.body.quote = row'.body.fence /\ row'.body.dispatch = row.body.dispatch
      BY <2>5, <2>t, <1>s DEF QuoteSave, Rows, Bodies
    <3> QED BY <3>1, <1>s DEF BodyMove, Held
  <2>6. CASE BookFence(c)
    <3>1. /\ row.state = "quoted" /\ row'.state = "booking_dispatched"
          /\ row'.body.fence = row.body.fence /\ row'.body.quote = row.body.quote
      BY <2>6, <2>t, <1>s DEF BookFence, Rows, Bodies
    <3> QED BY <3>1, <1>s DEF BodyMove, Held
  <2>7. CASE BookConfirmed(c)
    <3>1. CASE row' = row
      BY <3>1, <1>k
    <3>2. CASE row' # row
      <4>1. /\ row'.state = "booking_uncertain"
            /\ row'.body = [snap[c].body EXCEPT !.booking = snap[c].body.dispatch]
        BY <3>2, <2>7, <1>s DEF BookConfirmed, Rows
      <4>2. OwnsWrite(c)
        BY <2>7, <2>o DEF BookConfirmed, Booking
      <4>3. SameKey
        BY <4>1, <4>2, <2>t DEF SameKey, OwnsWrite, Bodies
      <4> QED BY <4>1, <4>3, <1>s DEF BodyMove, SameKey
    <3> QED BY <3>1, <3>2
  <2>8. CASE BookRejected(c)
    <3> DEFINE body(x) == [snap[c].body EXCEPT !.retryAllowed = x]
    <3>1. CASE row.state \notin {"booking_dispatched", "booking_uncertain"}
      BY <3>1, <2>8, <1>k DEF BookRejected
    <3>2. CASE row.state \in {"booking_dispatched", "booking_uncertain"}
      <4> PICK x : row' = [row EXCEPT !.state = "booking_failed", !.body = body(x)]
        BY <3>2, <2>8 DEF BookRejected
      <4>1. row'.state = "booking_failed" /\ row'.body = body(x)
        BY <1>s DEF Rows
      <4>2. OwnsWrite(c)
        BY <2>8, <2>o DEF BookRejected, Booking
      <4>3. /\ row'.body.fence = snap[c].body.fence /\ row'.body.quote = snap[c].body.quote
            /\ row'.body.dispatch = snap[c].body.dispatch
        BY <4>1, <2>t DEF Bodies
      <4> QED BY <4>1, <4>2, <4>3, <1>s DEF BodyMove, SameKey, OwnsWrite
    <3> QED BY <3>1, <3>2
  <2>9. CASE RecordVerified(c)
    <3>1. CASE ~Claimed(c)
      BY <3>1, <2>9, <1>k DEF RecordVerified
    <3>2. CASE Claimed(c)
      <4>1. row'.state = "completed" /\ row'.body = snap[c].body
        BY <3>2, <2>9, <1>s DEF RecordVerified, Rows
      <4>2. SameKey
        <5> DEFINE b == snap[c].body.booking
        <5>1. /\ b \in Dispatches /\ snap[c].body.quote # 0
              /\ wire[b] = [outcome |-> "confirmed", quote |-> snap[c].body.quote]
          BY <2>9 DEF RecordVerified, Inv, VerdictsTrue
        <5>2. row.body.quote = snap[c].body.quote
          BY <5>1 DEF Live, NotBooked, Inv, RowKeepsLiveWrite
        <5>3. snap[c].body.fence = row.body.fence
          BY <5>1, <5>2 DEF Inv, QuotesAnswer
        <5>4. snap[c].body.dispatch = row.body.dispatch
          BY <5>3, <2>9 DEF RecordVerified, Inv, VerifyingCopies, Verifying, CopyIsPast
        <5> QED BY <4>1, <5>2, <5>3, <5>4 DEF SameKey
      <4> QED BY <4>1, <4>2, <1>s DEF BodyMove, SameKey
    <3> QED BY <3>1, <3>2
  <2> QED BY <1>4, <2>1, <2>2, <2>3, <2>4, <2>5, <2>6, <2>7, <2>8, <2>9 DEF Call
<1> QED BY <1>1, <1>2, <1>3, <1>4 DEF Next

\* What the provider has confirmed stays as it is, whoever acts.
LEMMA ConfirmedStays ==
    ASSUME Inv, [Next]_vars, NEW b \in Dispatches, wire[b].outcome = "confirmed"
    PROVE  wire'[b] = wire[b]
<1>1. ASSUME NEW d \in Dispatches, Provider(d) PROVE wire'[b] = wire[b]
  BY <1>1, ProviderStep
<1>2. ASSUME NEW c \in Callers, Call(c) PROVE wire'[b] = wire[b]
  <2>1. CASE BookFence(c)
    <3> DEFINE d == snap[c].body.dispatch + 1
    <3>1. d \in Dispatches /\ row.body.dispatch = snap[c].body.dispatch
      BY <2>1 DEF BookFence
    <3>2. wire[d].outcome = "none"
      <4>1. row.body.dispatch \in Nat
        BY DEF Inv, TypeOK, Rows, Bodies
      <4> QED BY <3>1, <4>1 DEF Inv, WritesInOrder, Dispatches
    <3> QED BY <2>1, <3>1, <3>2 DEF BookFence, Inv, TypeOK
  <2>2. CASE BookSend(c)
    <3>1. wire[snap[c].body.dispatch].outcome = "fenced"
      BY <2>2 DEF BookSend, Inv, BookingOwnsWrite, Booking, OwnsWrite
    <3> QED BY <2>2, <3>1 DEF BookSend, Inv, TypeOK
  <2>3. CASE ~BookFence(c) /\ ~BookSend(c)
    BY <1>2, <2>3 DEF Call, SelectGet, SelectSave, QuoteGet, QuoteFence, QuoteAnswer, QuoteSave,
       BookGet, BookRefresh, BookReget, BookConfirmed, BookRejected, BookUncertain, ReconcileGet,
       ReconcileExpire, ReconcileClaim, ReconcileRead, RecordVerified, RecordUnverified, Lose
  <2> QED BY <2>1, <2>2, <2>3
<1>3. CASE ~\E c \in Callers : Call(c)
  <2>1. CASE ~\E d \in Dispatches : Provider(d)
    BY <1>3, <2>1 DEF Next, vars, Begin, Stop, ResumeReconciliation, AuthorityChanges,
       BackoffElapses, WindowCloses
  <2> QED BY <1>1, <2>1
<1> QED BY <1>2, <1>3
-----------------------------------------------------------------------------
\* Only the booking call itself, on a proven rejection, takes a row out of the
\* held states.
LEMMA HeldStays ==
    ASSUME Inv, [Next]_vars, row.state \in Held, \A c \in Callers : ~BookRejected(c)
    PROVE  row'.state \in Held
<1>s. row \in Rows /\ row.state \notin Open \union {"absent", "stopped"}
  BY DEF Inv, TypeOK, Open, Held
<1>1. ASSUME NEW c \in Callers, Call(c) PROVE row'.state \in Held
  <2>1. CASE SelectSave(c) \/ QuoteFence(c)
    BY <2>1, <1>s DEF SelectSave, QuoteFence, Unchanged, Inv, OpenCopies, OpenCopy
  <2>2. CASE QuoteSave(c) \/ BookFence(c)
    BY <2>2, <1>s DEF QuoteSave, BookFence, Open
  <2>3. CASE BookConfirmed(c) \/ BookUncertain(c) \/ ReconcileExpire(c) \/ ReconcileClaim(c)
             \/ RecordVerified(c) \/ RecordUnverified(c)
    BY <2>3, <1>s DEF BookConfirmed, BookUncertain, ReconcileExpire, ReconcileClaim,
       RecordVerified, RecordUnverified, Held, Rows
  <2>4. CASE \/ SelectGet(c) \/ QuoteGet(c) \/ QuoteAnswer(c) \/ BookGet(c) \/ BookRefresh(c)
             \/ BookReget(c) \/ BookSend(c) \/ ReconcileGet(c) \/ ReconcileRead(c) \/ Lose(c)
    BY <2>4 DEF SelectGet, QuoteGet, QuoteAnswer, BookGet, BookRefresh, BookReget, BookSend,
       ReconcileGet, ReconcileRead, Lose
  <2> QED BY <1>1, <2>1, <2>2, <2>3, <2>4 DEF Call
<1>2. CASE Begin \/ Stop \/ ResumeReconciliation \/ BackoffElapses \/ WindowCloses
  BY <1>2, <1>s DEF Begin, Stop, ResumeReconciliation, BackoffElapses, WindowCloses, Rows, Held
<1>3. CASE AuthorityChanges \/ UNCHANGED vars \/ \E d \in Dispatches : Provider(d)
  BY <1>3, ProviderStep DEF AuthorityChanges, vars
<1> QED BY <1>1, <1>2, <1>3 DEF Next

\* Writes change only by the booking call that owns them and by the provider.
LEMMA OwnedWrite ==
    ASSUME Inv, [Next]_vars, NEW d \in Dispatches, wire[d].outcome # "none",
           \A c \in Callers : BookSend(c) => snap[c].body.dispatch # d
    PROVE  /\ wire'[d].quote = wire[d].quote
           /\ wire[d].outcome = "fenced" => wire'[d].outcome = "fenced"
           /\ wire[d].outcome # "fenced" => wire'[d].outcome \notin {"none", "fenced"}
<1>1. ASSUME NEW e \in Dispatches, Provider(e)
      PROVE  /\ wire'[d].quote = wire[d].quote
             /\ wire[d].outcome = "fenced" => wire'[d].outcome = "fenced"
             /\ wire[d].outcome # "fenced" => wire'[d].outcome \notin {"none", "fenced"}
  BY <1>1, ProviderStep DEF Booked, NotBooked
<1>2. ASSUME NEW c \in Callers, Call(c) PROVE wire'[d] = wire[d]
  <2>1. CASE BookFence(c)
    <3>1. row.body.dispatch \in Nat
      BY DEF Inv, TypeOK, Rows, Bodies
    <3>2. d # snap[c].body.dispatch + 1
      BY <2>1, <3>1 DEF BookFence, Inv, WritesInOrder, Dispatches
    <3> QED BY <2>1, <3>2 DEF BookFence, Inv, TypeOK
  <2>2. CASE BookSend(c)
    BY <2>2 DEF BookSend, Inv, TypeOK
  <2>3. CASE ~BookFence(c) /\ ~BookSend(c)
    BY <1>2, <2>3 DEF Call, SelectGet, SelectSave, QuoteGet, QuoteFence, QuoteAnswer, QuoteSave,
       BookGet, BookRefresh, BookReget, BookConfirmed, BookRejected, BookUncertain, ReconcileGet,
       ReconcileExpire, ReconcileClaim, ReconcileRead, RecordVerified, RecordUnverified, Lose
  <2> QED BY <2>1, <2>2, <2>3
<1>3. CASE /\ ~\E c \in Callers : Call(c)
           /\ ~\E e \in Dispatches : Provider(e)
  BY <1>3 DEF Next, vars, Begin, Stop, ResumeReconciliation, AuthorityChanges,
     BackoffElapses, WindowCloses
<1> QED BY <1>1, <1>2, <1>3

\* What a call knows stays true while the call itself does not move.
LEMMA WaitingCall ==
    ASSUME Inv, [Next]_vars, NEW e \in Callers, pc'[e] = pc[e], snap'[e] = snap[e]
    PROVE  /\ Booking(e) => OwnsWrite(e)'
           /\ Verifying(e) => CopyIsPast(e)'
           /\ pc[e] = "record_verified" =>
                /\ snap[e].body.booking \in Dispatches
                /\ snap[e].body.quote # 0
                /\ wire'[snap[e].body.booking] =
                     [outcome |-> "confirmed", quote |-> snap[e].body.quote]
<1>b. BodyMove
  BY BodyStep
<1>t. /\ row.body.fence \in Nat /\ row'.body.fence \in Nat /\ snap[e].body.fence \in Nat
      /\ pc \in [Callers -> Steps] /\ snap \in [Callers -> Rows]
  BY TypeStep, LedgerAssumption DEF Inv, TypeOK, Rows, Bodies
<1>1. ASSUME Booking(e) PROVE OwnsWrite(e)'
  <2> DEFINE d == snap[e].body.dispatch
  <2>1. OwnsWrite(e)
    BY <1>1 DEF Inv, BookingOwnsWrite
  <2>2. \A c \in Callers : BookRejected(c) \/ BookSend(c) => c = e
    BY <1>1 DEF BookRejected, BookSend, Booking, Inv, BookingOwnsWrite
  <2>3. ~BookRejected(e) /\ ~BookSend(e)
    BY <1>t DEF BookRejected, BookSend, Return, Goto
  <2>4. row'.state \in Held /\ SameKey
    BY <2>1, <2>2, <2>3, <1>b, HeldStays DEF OwnsWrite, BodyMove
  <2>5. d \in Dispatches /\ wire[d].outcome # "none"
    BY <1>1, <2>1 DEF OwnsWrite, Booking
  <2>6. /\ wire'[d].quote = wire[d].quote
        /\ wire[d].outcome = "fenced" => wire'[d].outcome = "fenced"
        /\ wire[d].outcome # "fenced" => wire'[d].outcome \notin {"none", "fenced"}
    BY <2>2, <2>3, <2>5, OwnedWrite
  <2> QED BY <2>1, <2>4, <2>5, <2>6 DEF OwnsWrite, SameKey
<1>2. ASSUME Verifying(e) PROVE CopyIsPast(e)'
  <2>1. CopyIsPast(e)
    BY <1>2 DEF Inv, VerifyingCopies
  <2> QED BY <2>1, <1>b, <1>t DEF CopyIsPast, BodyMove
<1>3. ASSUME pc[e] = "record_verified"
      PROVE  wire'[snap[e].body.booking] = wire[snap[e].body.booking]
  <2>1. snap[e].body.booking \in Dispatches /\ wire[snap[e].body.booking].outcome = "confirmed"
    <3>1. VerdictsTrue
      BY DEF Inv
    <3>2. /\ snap[e].body.booking \in Dispatches
          /\ wire[snap[e].body.booking] = [outcome |-> "confirmed", quote |-> snap[e].body.quote]
      BY <1>3, <3>1, Zenon DEF VerdictsTrue
    <3> QED BY <3>2
  <2> QED BY <2>1, ConfirmedStays
<1> QED BY <1>1, <1>2, <1>3 DEF Inv, VerdictsTrue
-----------------------------------------------------------------------------
\* What Inv says of the calls.
Calls ==
    /\ \A c \in Callers : snap[c].body.quote # 0 => snap[c].body.quote = snap[c].body.fence
    /\ BookingOwnsWrite
    /\ VerifyingCopies
    /\ OpenCopies
    /\ VerdictsTrue

\* The same for one call.
CallOK(c) ==
    /\ snap[c].body.quote # 0 => snap[c].body.quote = snap[c].body.fence
    /\ Booking(c) => OwnsWrite(c)
    /\ Verifying(c) => CopyIsPast(c)
    /\ pc[c] \in {"select_save", "quote_fence"} => OpenCopy(c)
    /\ pc[c] = "record_verified" =>
         /\ snap[c].body.booking \in Dispatches
         /\ snap[c].body.quote # 0
         /\ wire[snap[c].body.booking] = [outcome |-> "confirmed", quote |-> snap[c].body.quote]

LEMMA WaitingCallOK ==
    ASSUME Inv, [Next]_vars, NEW e \in Callers, pc'[e] = pc[e], snap'[e] = snap[e]
    PROVE  CallOK(e)'
<1>1. /\ snap[e].body.quote # 0 => snap[e].body.quote = snap[e].body.fence
      /\ pc[e] \in {"select_save", "quote_fence"} => OpenCopy(e)
  BY DEF Inv, QuotesAnswer, OpenCopies
<1> QED BY <1>1, WaitingCall DEF CallOK, OpenCopy, Booking, Verifying

\* A call that goes to a step Inv says nothing special about.
LEMMA PlainCallOK ==
    ASSUME TypeOK, NEW c \in Callers, NEW s, NEW r, Goto(c, s, r),
           s \notin {"book_send", "book_wire", "reconcile_claim", "reconcile_read",
                     "record_verified", "select_save", "quote_fence"},
           r.body.quote # 0 => r.body.quote = r.body.fence
    PROVE  CallOK(c)'
<1>1. pc'[c] = s /\ snap'[c] = r
  BY GotoFacts
<1> QED BY <1>1 DEF CallOK, Booking, Verifying

LEMMA ReturnOK ==
    ASSUME TypeOK, NEW c \in Callers, Return(c)
    PROVE  CallOK(c)'
<1>1. Goto(c, "idle", EmptyRow)
  BY DEF Return
<1>2. EmptyRow.body.quote = 0
  BY DEF EmptyRow, EmptyBody
<1> QED BY <1>1, <1>2, PlainCallOK

LEMMA ActingCallOK ==
    ASSUME Inv, NEW c \in Callers, Call(c)
    PROVE  CallOK(c)'
<1>n. [Next]_vars
  BY DEF Next
<1>s. /\ TypeOK /\ row \in Rows /\ row.body \in Bodies
      /\ snap[c] \in Rows /\ snap[c].body \in Bodies
      /\ row.body.quote # 0 => row.body.quote = row.body.fence
      /\ snap[c].body.quote # 0 => snap[c].body.quote = snap[c].body.fence
  BY DEF Inv, TypeOK, Rows, QuotesAnswer
<1>e. EmptyRow.body.quote = 0
  BY DEF EmptyRow, EmptyBody
<1>1. CASE SelectGet(c)
  <2>1. pc'[c] = "select_save" /\ snap'[c] = row
    BY <1>1, <1>s, GotoFacts DEF SelectGet
  <2> QED BY <2>1, <1>1, <1>s DEF SelectGet, Active, CallOK, OpenCopy, Booking, Verifying
<1>2. CASE QuoteGet(c)
  <2>1. pc'[c] = "quote_fence" /\ snap'[c] = row
    BY <1>2, <1>s, GotoFacts DEF QuoteGet
  <2> QED BY <2>1, <1>2, <1>s DEF QuoteGet, Active, CallOK, OpenCopy, Booking, Verifying
<1>3. CASE SelectSave(c) \/ BookRejected(c) \/ BookUncertain(c) \/ ReconcileExpire(c)
           \/ RecordVerified(c) \/ RecordUnverified(c) \/ Lose(c)
  BY <1>3, <1>s, ReturnOK DEF SelectSave, BookRejected, BookUncertain, ReconcileExpire,
     RecordVerified, RecordUnverified, Lose
<1>4. CASE QuoteFence(c)
  <2> DEFINE r == [snap[c] EXCEPT !.body = [snap[c].body EXCEPT !.fence = @ + 1, !.quote = 0]]
  <2>1. r.body.quote = 0
    BY <1>s DEF Rows, Bodies
  <2>2. Goto(c, "quote_wire", r)
    BY <1>4 DEF QuoteFence
  <2> HIDE DEF r
  <2> QED BY <2>1, <2>2, <1>s, PlainCallOK
<1>5. CASE QuoteAnswer(c)
  BY <1>5, <1>s, PlainCallOK DEF QuoteAnswer
<1>6. CASE QuoteSave(c)
  <2>1. cont[c] \in {"idle", "book_reget"}
    BY <1>s DEF TypeOK
  <2> QED BY <2>1, <1>6, <1>s, <1>e, PlainCallOK DEF QuoteSave
<1>7. CASE BookGet(c) \/ BookRefresh(c) \/ BookReget(c)
  BY <1>7, <1>s, PlainCallOK DEF BookGet, BookRefresh, BookReget
<1>8. CASE BookFence(c)
  <2> DEFINE d == snap[c].body.dispatch + 1
             body == [snap[c].body EXCEPT !.dispatch = d]
  <2>1. pc'[c] = "book_send" /\ snap'[c].body = body
    <3>1. pc'[c] = "book_send" /\ snap'[c] = [snap[c] EXCEPT !.body = body]
      BY <1>8, <1>s, GotoFacts DEF BookFence
    <3> QED BY <3>1, <1>s DEF Rows
  <2>2. body.dispatch = d /\ body.quote = snap[c].body.quote /\ body.fence = snap[c].body.fence
    BY <1>s DEF Bodies
  <2>3. row'.state = "booking_dispatched" /\ row'.body = body /\ d \in Dispatches
    BY <1>8, <1>s DEF BookFence, Rows
  <2>4. wire'[d] = [outcome |-> "fenced", quote |-> body.quote]
    BY <1>8, <2>3, <1>s DEF BookFence, TypeOK
  <2> HIDE DEF body
  <2>5. OwnsWrite(c)'
    BY <2>1, <2>2, <2>3, <2>4 DEF OwnsWrite, Held
  <2> QED BY <2>1, <2>2, <2>5, <1>s DEF CallOK, Booking, Verifying
<1>9. CASE BookSend(c)
  <2>1. OwnsWrite(c)
    BY <1>9 DEF BookSend, Booking, Inv, BookingOwnsWrite
  <2>2. pc'[c] = "book_wire" /\ snap'[c] = snap[c] /\ row' = row
    BY <1>9, <1>s, GotoFacts DEF BookSend
  <2>3. /\ wire'[snap[c].body.dispatch].outcome = "sent"
        /\ wire'[snap[c].body.dispatch].quote = wire[snap[c].body.dispatch].quote
    BY <1>9, <2>1, <1>s DEF BookSend, OwnsWrite, TypeOK
  <2>4. OwnsWrite(c)'
    BY <2>1, <2>2, <2>3 DEF OwnsWrite
  <2> QED BY <2>2, <2>4, <1>s DEF CallOK, Booking, Verifying
<1>10. CASE BookConfirmed(c)
  BY <1>10, <1>s, <1>e, PlainCallOK DEF BookConfirmed
<1>11. CASE ReconcileGet(c)
  <2>1. CASE Goto(c, "reconcile_expire", row)
    BY <2>1, <1>s, PlainCallOK
  <2>2. CASE ~WindowOver(row) /\ Goto(c, "reconcile_claim", row)
    <3>1. pc'[c] = "reconcile_claim" /\ snap'[c] = row /\ row' = row
      BY <2>2, <1>11, <1>s, GotoFacts DEF ReconcileGet
    <3>2. CopyIsPast(c)'
      BY <3>1, <2>2, <1>11, <1>s, LedgerAssumption DEF CopyIsPast, WindowOver, ReconcileGet,
         Rows, Bodies, Reconcilable, Held
    <3> QED BY <3>1, <3>2, <1>s DEF CallOK, Booking, Verifying
  <2> QED BY <1>11, <2>1, <2>2 DEF ReconcileGet
<1>12. CASE ReconcileClaim(c)
  <2>1. pc'[c] = "reconcile_read" /\ snap'[c] = snap[c]
    BY <1>12, <1>s, GotoFacts DEF ReconcileClaim
  <2>2. row'.state = "reconciling" /\ row'.body = row.body
    BY <1>12, <1>s DEF ReconcileClaim, Rows
  <2>3. CopyIsPast(c)
    BY <1>12 DEF ReconcileClaim, Inv, VerifyingCopies, Verifying
  <2>4. CopyIsPast(c)'
    BY <2>1, <2>2, <2>3 DEF CopyIsPast
  <2> QED BY <2>1, <2>4, <1>s DEF CallOK, Booking, Verifying
<1>13. CASE ReconcileRead(c)
  <2>1. CASE Goto(c, "record_nothing", snap[c]) \/ Goto(c, "record_ambiguous", snap[c])
    BY <2>1, <1>s, PlainCallOK
  <2>2. ASSUME NEW d \in Dispatches, Matching(snap[c].body) = {d},
               Goto(c, "record_verified", [snap[c] EXCEPT !.body.booking = d])
        PROVE  CallOK(c)'
    <3>1. pc'[c] = "record_verified" /\ snap'[c] = [snap[c] EXCEPT !.body.booking = d]
      BY <2>2, <1>s, GotoFacts
    <3>2. snap'[c].body = [snap[c].body EXCEPT !.booking = d]
      BY <3>1, <1>s DEF Rows
    <3>3. /\ snap'[c].body.booking = d /\ snap'[c].body.quote = snap[c].body.quote
          /\ snap'[c].body.fence = snap[c].body.fence
          /\ snap'[c].body.dispatch = snap[c].body.dispatch
      BY <3>2, <1>s DEF Bodies
    <3>4. /\ wire[d].outcome = "confirmed" /\ wire[d].quote = snap[c].body.quote
          /\ snap[c].body.quote # 0
      BY <2>2 DEF Matching
    <3>5. wire[d] = [outcome |-> "confirmed", quote |-> snap[c].body.quote]
      BY <3>4, <1>s DEF TypeOK
    <3>6. CopyIsPast(c)
      BY <1>13 DEF ReconcileRead, Inv, VerifyingCopies, Verifying
    <3>7. row' = row /\ wire' = wire
      BY <1>13 DEF ReconcileRead
    <3>8. CopyIsPast(c)'
      BY <3>1, <3>3, <3>6, <3>7 DEF CopyIsPast
    <3> QED BY <3>1, <3>3, <3>4, <3>5, <3>7, <3>8, <1>s DEF CallOK, Booking, Verifying
  <2> QED BY <2>1, <2>2, <1>13 DEF ReconcileRead
<1> QED BY <1>1, <1>2, <1>3, <1>4, <1>5, <1>6, <1>7, <1>8, <1>9, <1>10, <1>11, <1>12, <1>13
        DEF Call
-----------------------------------------------------------------------------
LEMMA CallsStep == Inv /\ [Next]_vars => Calls' /\ QuotesAnswer'
<1> SUFFICES ASSUME Inv, [Next]_vars PROVE Calls' /\ QuotesAnswer'
  OBVIOUS
<1>t. TypeOK
  BY DEF Inv
<1>1. ASSUME NEW e \in Callers PROVE CallOK(e)'
  <2>1. CASE Call(e)
    BY <2>1, ActingCallOK
  <2>2. ASSUME NEW c \in Callers, c # e, Call(c) PROVE pc'[e] = pc[e] /\ snap'[e] = snap[e]
    <3>1. \A s, r : Goto(c, s, r) => pc'[e] = pc[e] /\ snap'[e] = snap[e]
      BY <1>t, <2>2, GotoFacts
    <3>2. Return(c) => pc'[e] = pc[e] /\ snap'[e] = snap[e]
      BY <3>1 DEF Return
    <3> QED BY <2>2, <3>1, <3>2 DEF Call, SelectGet, SelectSave, QuoteGet, QuoteFence,
            QuoteAnswer, QuoteSave, BookGet, BookRefresh, BookReget, BookFence, BookSend,
            BookConfirmed, BookRejected, BookUncertain, ReconcileGet, ReconcileExpire,
            ReconcileClaim, ReconcileRead, RecordVerified, RecordUnverified, Lose
  <2>3. ASSUME ~\E c \in Callers : Call(c) PROVE pc' = pc /\ snap' = snap
    BY <2>3, ProviderStep DEF Next, vars, Begin, Stop, ResumeReconciliation, AuthorityChanges,
       BackoffElapses, WindowCloses
  <2> QED BY <2>1, <2>2, <2>3, WaitingCallOK
<1>2. ASSUME NEW c \in Callers, NEW e \in Callers, Booking(c)', Booking(e)', c # e PROVE FALSE
  <2>1. ASSUME NEW f \in Callers, Booking(f)', ~Booking(f) PROVE BookFence(f)
    <3>1. \A g \in Callers : \A s, r : Goto(g, s, r) =>
             /\ pc'[g] = s
             /\ f # g => pc'[f] = pc[f]
      BY <1>t, GotoFacts
    <3>2. \A g \in Callers : Return(g) => pc'[g] = "idle" /\ (f # g => pc'[f] = pc[f])
      BY <3>1 DEF Return
    <3>3. pc'[f] # pc[f]
      BY <2>1 DEF Booking
    <3>4. ASSUME NEW g \in Callers, Call(g) PROVE BookFence(f)
      <4>1. g = f
        BY <3>1, <3>2, <3>3, <3>4 DEF Call, SelectGet, SelectSave, QuoteGet, QuoteFence,
           QuoteAnswer, QuoteSave, BookGet, BookRefresh, BookReget, BookFence, BookSend,
           BookConfirmed, BookRejected, BookUncertain, ReconcileGet, ReconcileExpire,
           ReconcileClaim, ReconcileRead, RecordVerified, RecordUnverified, Lose
      <4>2. CASE QuoteSave(f)
        <5>1. cont[f] \in {"idle", "book_reget"}
          BY <1>t DEF TypeOK
        <5> QED BY <4>2, <5>1, <3>1, <2>1 DEF QuoteSave, Booking
      <4>3. ~BookSend(f)
        BY <2>1 DEF BookSend, Booking
      <4>4. /\ ~Return(f)
            /\ \A s, r : Goto(f, s, r) => s \in {"book_send", "book_wire"}
        BY <3>1, <3>2, <2>1 DEF Booking
      <4>5. /\ ~SelectSave(f) /\ ~BookRejected(f) /\ ~BookUncertain(f) /\ ~ReconcileExpire(f)
            /\ ~RecordVerified(f) /\ ~RecordUnverified(f) /\ ~Lose(f)
        BY <4>4 DEF SelectSave, BookRejected, BookUncertain, ReconcileExpire, RecordVerified,
           RecordUnverified, Lose
      <4>6. /\ ~SelectGet(f) /\ ~QuoteGet(f) /\ ~QuoteFence(f) /\ ~QuoteAnswer(f)
            /\ ~BookGet(f) /\ ~BookRefresh(f) /\ ~BookReget(f) /\ ~BookConfirmed(f)
        BY <4>4 DEF SelectGet, QuoteGet, QuoteFence, QuoteAnswer, BookGet, BookRefresh,
           BookReget, BookConfirmed
      <4>7. ~ReconcileGet(f) /\ ~ReconcileClaim(f)
        BY <4>4 DEF ReconcileGet, ReconcileClaim
      <4>8. ~ReconcileRead(f)
        <5>1. \A r : /\ ~Goto(f, "record_nothing", r) /\ ~Goto(f, "record_ambiguous", r)
                     /\ ~Goto(f, "record_verified", r)
          BY <4>4
        <5> QED BY <5>1 DEF ReconcileRead
      <4> QED BY <4>1, <4>2, <4>3, <4>5, <4>6, <4>7, <4>8, <3>4 DEF Call
    <3>5. CASE ~\E g \in Callers : Call(g)
      BY <3>5, <3>3, ProviderStep DEF Next, vars, Begin, Stop, ResumeReconciliation,
         AuthorityChanges, BackoffElapses, WindowCloses
    <3> QED BY <3>4, <3>5
  <2>2. ASSUME NEW f \in Callers, NEW g \in Callers, BookFence(f), g # f PROVE ~Booking(g)'
    <3>1. pc'[g] = pc[g]
      BY <2>2, <1>t, GotoFacts DEF BookFence
    <3>2. ~Booking(g)
      BY <2>2 DEF BookFence, Inv, BookingOwnsWrite, OwnsWrite, Held
    <3> QED BY <3>1, <3>2 DEF Booking
  <2>3. Booking(c) /\ Booking(e)
    BY <1>2, <2>1, <2>2
  <2> QED BY <1>2, <2>3 DEF Inv, BookingOwnsWrite
<1>3. Calls'
  BY <1>1, <1>2 DEF Calls, CallOK, BookingOwnsWrite, VerifyingCopies, OpenCopies, OpenCopy,
     VerdictsTrue
<1>4. QuotesAnswer'
  BY <1>3, BodyStep DEF Calls, BodyMove, QuotesAnswer
<1> QED BY <1>3, <1>4
-----------------------------------------------------------------------------
LEMMA InvInit == Init => Inv
<1> SUFFICES ASSUME Init PROVE Inv
  OBVIOUS
<1>1. TypeOK
  BY TypeInit
<1>2. /\ row = EmptyRow /\ spend = "none" /\ Live = {}
      /\ \A d \in Dispatches : wire[d].outcome = "none"
      /\ \A c \in Callers : pc[c] = "idle" /\ snap[c] = EmptyRow
  BY DEF Init, Live
<1>3. EmptyRow.state = "absent" /\ EmptyRow.body.quote = 0 /\ EmptyRow.body.dispatch = 0
  BY DEF EmptyRow, EmptyBody
<1> QED BY <1>1, <1>2, <1>3 DEF Inv, WritesInOrder, RowKeepsLiveWrite, HoldCoversLiveWrite,
        SpendFollowsState, CompletedBooking, QuotesAnswer, BookingOwnsWrite, Booking,
        VerifyingCopies, Verifying, OpenCopies, VerdictsTrue, Held, Dispatches

LEMMA InvStep == Inv /\ [Next]_vars => Inv'
<1> SUFFICES ASSUME Inv, [Next]_vars PROVE Inv'
  OBVIOUS
<1>1. TypeOK'
  BY TypeStep DEF Inv
<1> QED BY <1>1, StoreStep, CallsStep DEF Inv, Store, Calls

\* Inv holds in every reachable state, for any number of callers, reads,
\* quotes, writes and resumed windows.
THEOREM InvHolds == Spec => []Inv
BY InvInit, InvStep, PTL DEF Spec

\* The rows, the spend record and the callers' copies keep their types.
THEOREM TypeCorrect == Spec => []TypeOK
<1>1. Inv => TypeOK
  BY DEF Inv
<1> QED BY <1>1, InvHolds, PTL

\* A second booking write is never fenced while an earlier one may still charge.
THEOREM OneLiveWrite == Spec => []AtMostOneLiveWrite
<1>1. Inv => AtMostOneLiveWrite
  BY DEF Inv, RowKeepsLiveWrite, AtMostOneLiveWrite
<1> QED BY <1>1, InvHolds, PTL

\* No money is freed while a write may have taken effect.
THEOREM HoldIsKept == Spec => []HoldCoversLiveWrite
<1>1. Inv => HoldCoversLiveWrite
  BY DEF Inv
<1> QED BY <1>1, InvHolds, PTL

\* No late save and no stale copy overwrites the data of a live write.
THEOREM LiveWriteIsKept == Spec => []RowKeepsLiveWrite
<1>1. Inv => RowKeepsLiveWrite
  BY DEF Inv
<1> QED BY <1>1, InvHolds, PTL

\* Only a booking the provider has confirmed for the row's own quote completes
\* the goal, and exactly then the money is committed.
THEOREM CompletionIsVerified == Spec => []CompletedIsVerified
<1>1. Inv => CompletedIsVerified
  BY DEF Inv, SpendFollowsState, CompletedBooking, CompletedIsVerified, Live, NotBooked
<1> QED BY <1>1, InvHolds, PTL

\* A goal shown as stopped has no write that could still book, and no hold.
THEOREM StopIsClean == Spec => []StoppedIsClean
<1>1. Inv => StoppedIsClean
  BY DEF Inv, RowKeepsLiveWrite, SpendFollowsState, StoppedIsClean, Live, Held
<1> QED BY <1>1, InvHolds, PTL

\* The quote the row offers for booking is always the answer to its latest
\* request.
THEOREM QuotesAreCurrent == Spec => QuoteIsCurrent
<1>1. Inv /\ [Next]_vars =>
        [/\ row'.body.fence >= row.body.fence
         /\ row'.body.quote # 0 => row'.body.quote = row'.body.fence]_vars
  BY BodyStep DEF BodyMove
<1> QED BY <1>1, InvHolds, PTL DEF Spec, QuoteIsCurrent
-----------------------------------------------------------------------------
\* Completed rows are left alone, whoever was still at work on them.
CompletedStays ==
    /\ row.state = "completed" =>
         row'.state = "completed" /\ row'.body = row.body /\ spend' = spend
    /\ row.stopped => row'.stopped /\ row'.body.dispatch = row.body.dispatch

LEMMA CompletionStep == Inv /\ [Next]_vars => CompletedStays
<1> SUFFICES ASSUME Inv, [Next]_vars PROVE CompletedStays
  OBVIOUS
<1>s. TypeOK /\ row \in Rows /\ row.body \in Bodies
  BY DEF Inv, TypeOK, Rows
<1>1. ASSUME NEW c \in Callers, Call(c) PROVE CompletedStays
  <2>1. CASE SelectSave(c) \/ QuoteFence(c)
    <3>1. Unchanged(c) => row.state # "completed" /\ ~row.stopped
      BY <2>1 DEF SelectSave, QuoteFence, Unchanged, Inv, OpenCopies, OpenCopy, Open
    <3> QED BY <2>1, <3>1, <1>s DEF SelectSave, QuoteFence, CompletedStays
  <2>2. CASE QuoteSave(c) \/ BookFence(c)
    BY <2>2 DEF QuoteSave, BookFence, CompletedStays
  <2>3. CASE BookConfirmed(c) \/ BookRejected(c) \/ RecordVerified(c)
    <3>1. row.state = "completed" => row' = row /\ spend' = spend
      BY <2>3 DEF BookConfirmed, BookRejected, RecordVerified, Claimed
    <3>2. row'.stopped = row.stopped
      BY <2>3, <1>s DEF BookConfirmed, BookRejected, RecordVerified, Rows
    <3>3. row'.body.dispatch = row.body.dispatch \/ row.state = "quoted"
      BY BodyStep DEF BodyMove
    <3>4. row.state = "quoted" => row' = row
      BY <2>3 DEF BookConfirmed, BookRejected, RecordVerified, Claimed
    <3> QED BY <3>1, <3>2, <3>3, <3>4 DEF CompletedStays
  <2>4. CASE ReconcileClaim(c)
    <3>1. row.state # "completed"
      BY <2>4 DEF ReconcileClaim, Inv, VerifyingCopies, Verifying, CopyIsPast, Reconcilable
    <3> QED BY <2>4, <3>1, <1>s DEF ReconcileClaim, CompletedStays, Rows
  <2>5. CASE BookUncertain(c) \/ ReconcileExpire(c) \/ RecordUnverified(c)
    BY <2>5, <1>s DEF BookUncertain, ReconcileExpire, RecordUnverified, Claimed, CompletedStays,
       Rows
  <2>6. CASE \/ SelectGet(c) \/ QuoteGet(c) \/ QuoteAnswer(c) \/ BookGet(c) \/ BookRefresh(c)
             \/ BookReget(c) \/ BookSend(c) \/ ReconcileGet(c) \/ ReconcileRead(c) \/ Lose(c)
    BY <2>6 DEF SelectGet, QuoteGet, QuoteAnswer, BookGet, BookRefresh, BookReget, BookSend,
       ReconcileGet, ReconcileRead, Lose, CompletedStays
  <2> QED BY <1>1, <2>1, <2>2, <2>3, <2>4, <2>5, <2>6 DEF Call
<1>2. CASE Begin \/ Stop \/ ResumeReconciliation \/ BackoffElapses \/ WindowCloses
  BY <1>2, <1>s DEF Begin, Stop, ResumeReconciliation, BackoffElapses, WindowCloses, Rows,
     Open, CompletedStays
<1>3. CASE AuthorityChanges \/ UNCHANGED vars \/ \E d \in Dispatches : Provider(d)
  BY <1>3, ProviderStep DEF AuthorityChanges, vars, CompletedStays
<1> QED BY <1>1, <1>2, <1>3 DEF Next

\* A completed booking and a Stop survive every stale call.
THEOREM CompletionIsKept == Spec => CompletionIsFinal
<1>1. Inv /\ [Next]_vars =>
        [/\ row.state = "completed" =>
              row'.state = "completed" /\ row'.body = row.body /\ spend' = spend
         /\ row.stopped => row'.stopped /\ row'.body.dispatch = row.body.dispatch]_vars
  BY CompletionStep DEF CompletedStays
<1> QED BY <1>1, InvHolds, PTL DEF Spec, CompletionIsFinal

\* A final rejection is left alone, also by calls that started before it.
RefusalStays ==
    (row.state = "booking_failed" /\ ~row.body.retryAllowed)
      => /\ row'.state \in {"booking_failed", "stopped", "unresolved_needs_attention"}
         /\ row'.body = row.body

LEMMA RefusalStep == Inv /\ [Next]_vars => RefusalStays
<1> SUFFICES ASSUME Inv, [Next]_vars, row.state = "booking_failed", ~row.body.retryAllowed
             PROVE  /\ row'.state \in {"booking_failed", "stopped", "unresolved_needs_attention"}
                    /\ row'.body = row.body
  BY DEF RefusalStays
<1>s. TypeOK /\ row \in Rows
  BY DEF Inv, TypeOK
<1>1. ASSUME NEW c \in Callers, Call(c), row' # row
      PROVE  row'.state = "unresolved_needs_attention" /\ row'.body = row.body
  <2>1. ~QuoteFence(c) /\ (SelectSave(c) => row' = row)
    <3>1. pc[c] \in {"select_save", "quote_fence"} => ~Unchanged(c)
      BY DEF Unchanged, Inv, OpenCopies, OpenCopy
    <3> QED BY <3>1 DEF SelectSave, QuoteFence
  <2>2. ~ReconcileClaim(c)
    BY DEF ReconcileClaim, Inv, VerifyingCopies, Verifying, CopyIsPast, Reconcilable, Held
  <2>3. ReconcileExpire(c)
    BY <1>1, <2>1, <2>2 DEF Call, SelectGet, QuoteGet, QuoteAnswer, QuoteSave, BookGet,
       BookRefresh, BookReget, BookFence, BookSend, BookConfirmed, BookRejected, BookUncertain,
       ReconcileGet, ReconcileRead, RecordVerified, RecordUnverified, Claimed, Lose
  <2> QED BY <2>3, <1>s DEF ReconcileExpire, Rows
<1>2. CASE Begin \/ Stop \/ ResumeReconciliation \/ BackoffElapses \/ WindowCloses
  BY <1>2, <1>s DEF Begin, Stop, ResumeReconciliation, BackoffElapses, WindowCloses, Rows, Open
<1>3. CASE AuthorityChanges \/ UNCHANGED vars \/ \E d \in Dispatches : Provider(d)
  BY <1>3, ProviderStep DEF AuthorityChanges, vars
<1>4. CASE row' = row
  BY <1>4
<1> QED BY <1>1, <1>2, <1>3, <1>4 DEF Next

\* After a final rejection nothing is quoted, selected or written again.
THEOREM RefusalIsKept == Spec => FinalRefusalIsFinal
<1>1. Inv /\ [Next]_vars =>
        [(row.state = "booking_failed" /\ ~row.body.retryAllowed)
           => /\ row'.state \in {"booking_failed", "stopped", "unresolved_needs_attention"}
              /\ row'.body = row.body]_vars
  BY RefusalStep DEF RefusalStays
<1> QED BY <1>1, InvHolds, PTL DEF Spec, FinalRefusalIsFinal
-----------------------------------------------------------------------------
\* The attempts of a window only go up, and the provider is read only by a call that has
\* just counted one of the MaxReads: with the reset at a resume, a goal is read at most
\* MaxReads times per window, whatever is lost or interleaved.
AttemptsAreCounted ==
    [][/\ resumes' = resumes => row'.reads >= row.reads
       /\ \A c \in Callers : pc[c] # "reconcile_read" /\ pc'[c] = "reconcile_read" =>
            row.reads < MaxReads /\ row'.reads = row.reads + 1 /\ resumes' = resumes]_vars

LEMMA AttemptStep ==
    ASSUME Inv, [Next]_vars
    PROVE  /\ resumes' = resumes => row'.reads >= row.reads
           /\ \A c \in Callers : pc[c] # "reconcile_read" /\ pc'[c] = "reconcile_read" =>
                ReconcileClaim(c)
<1>s. TypeOK /\ row \in Rows /\ row.reads \in Nat
  BY LedgerAssumption DEF Inv, TypeOK, Rows
<1>1. ASSUME NEW c \in Callers, Call(c)
      PROVE  row'.reads >= row.reads
  <2>1. CASE SelectSave(c)
    BY <1>s, <2>1 DEF SelectSave, Rows
  <2>2. CASE QuoteFence(c)
    BY <1>s, <2>2 DEF QuoteFence, Rows
  <2>3. CASE QuoteSave(c)
    BY <1>s, <2>3 DEF QuoteSave, Rows
  <2>4. CASE BookFence(c)
    BY <1>s, <2>4 DEF BookFence, Rows
  <2>5. CASE BookConfirmed(c)
    BY <1>s, <2>5 DEF BookConfirmed, Rows
  <2>6. CASE BookRejected(c)
    <3>1. row' = row \/ \E st, b : row' = [row EXCEPT !.state = st, !.body = b]
      BY <2>6 DEF BookRejected
    <3>2. \A st, b : [row EXCEPT !.state = st, !.body = b].reads = row.reads
      BY <1>s DEF Rows
    <3>3. row'.reads = row.reads
      BY <3>1, <3>2
    <3> QED BY <1>s, <3>3
  <2>7. CASE BookUncertain(c)
    BY <1>s, <2>7 DEF BookUncertain, Rows
  <2>8. CASE ReconcileExpire(c)
    BY <1>s, <2>8 DEF ReconcileExpire, Rows
  <2>9. CASE ReconcileClaim(c)
    BY <1>s, <2>9 DEF ReconcileClaim, Rows
  <2>10. CASE RecordVerified(c)
    <3>1. row' = row \/ \E st, b : row' = [row EXCEPT !.state = st, !.body = b]
      BY <2>10 DEF RecordVerified
    <3>2. \A st, b : [row EXCEPT !.state = st, !.body = b].reads = row.reads
      BY <1>s DEF Rows
    <3>3. row'.reads = row.reads
      BY <3>1, <3>2
    <3> QED BY <1>s, <3>3
  <2>11. CASE RecordUnverified(c)
    BY <1>s, <2>11 DEF RecordUnverified, Rows
  <2>12. CASE row' = row
    BY <1>s, <2>12
  <2> QED BY <1>1, <2>1, <2>2, <2>3, <2>4, <2>5, <2>6,
             <2>7, <2>8, <2>9, <2>10, <2>11, <2>12
          DEF Call, SelectGet, QuoteGet, QuoteAnswer, BookGet, BookRefresh, BookReget, BookSend,
              ReconcileGet, ReconcileRead, Lose
<1>2. ASSUME NEW c \in Callers, Call(c), NEW e \in Callers,
             pc[e] # "reconcile_read", pc'[e] = "reconcile_read"
      PROVE  ReconcileClaim(e)
  <2>1. \/ ReconcileClaim(c)
        \/ \E to, r : to # "reconcile_read" /\ Goto(c, to, r)
    <3>1. CASE \/ SelectSave(c) \/ BookRejected(c) \/ BookUncertain(c)
               \/ ReconcileExpire(c) \/ RecordVerified(c) \/ RecordUnverified(c) \/ Lose(c)
      <4>1. CASE Return(c)
        BY <4>1 DEF Return
      <4> QED BY <3>1, <4>1 DEF SelectSave, BookRejected, BookUncertain,
                 ReconcileExpire, RecordVerified, RecordUnverified, Lose
    <3>2. CASE QuoteSave(c)
      <4>1. cont[c] # "reconcile_read" /\ Goto(c, cont[c], EmptyRow)
        BY <1>s, <3>2 DEF QuoteSave, TypeOK
      <4> QED BY <4>1
    <3> QED BY <1>2, <3>1, <3>2 DEF Call, SelectGet, QuoteGet, QuoteFence, QuoteAnswer, BookGet,
               BookRefresh, BookReget, BookFence, BookSend, BookConfirmed, ReconcileGet,
               ReconcileRead
  <2>2. CASE ReconcileClaim(c)
    BY <1>2, <1>s, <2>2, GotoFacts DEF ReconcileClaim
  <2>3. ASSUME NEW to, NEW r, to # "reconcile_read", Goto(c, to, r)
        PROVE  FALSE
    BY <1>2, <1>s, <2>3, GotoFacts
  <2> QED BY <2>1, <2>2, <2>3
<1>3. CASE Begin \/ Stop \/ BackoffElapses \/ WindowCloses
  <2>1. pc' = pc
    BY <1>3 DEF Begin, Stop, BackoffElapses, WindowCloses
  <2>2. CASE Begin \/ BackoffElapses \/ WindowCloses
    BY <1>s, <2>1, <2>2 DEF Begin, BackoffElapses, WindowCloses, Rows
  <2>3. CASE Stop
    BY <1>s, <2>1, <2>3 DEF Stop, Rows
  <2> QED BY <1>3, <2>2, <2>3
<1>4. CASE ResumeReconciliation
  BY <1>4, <1>s, LedgerAssumption DEF ResumeReconciliation, Inv, TypeOK
<1>5. CASE AuthorityChanges \/ UNCHANGED vars \/ \E d \in Dispatches : Provider(d)
  BY <1>5, <1>s, ProviderStep DEF AuthorityChanges, vars
<1> QED BY <1>1, <1>2, <1>3, <1>4, <1>5 DEF Next

\* Every read of the provider is one of the MaxReads attempts of its window, counted before
\* it is made; only a resume starts the count anew.
THEOREM ReadsAreCounted == Spec => AttemptsAreCounted
<1>1. Inv /\ Inv' /\ [Next]_vars =>
        [/\ resumes' = resumes => row'.reads >= row.reads
         /\ \A c \in Callers : pc[c] # "reconcile_read" /\ pc'[c] = "reconcile_read" =>
              row.reads < MaxReads /\ row'.reads = row.reads + 1 /\ resumes' = resumes]_vars
  <2> SUFFICES ASSUME Inv, Inv', [Next]_vars, NEW c \in Callers,
                      pc[c] # "reconcile_read", pc'[c] = "reconcile_read"
               PROVE  row.reads < MaxReads /\ row'.reads = row.reads + 1 /\ resumes' = resumes
    BY AttemptStep
  <2>1. ReconcileClaim(c)
    BY AttemptStep
  <2>2. row \in Rows /\ row' \in Rows
    BY DEF Inv, TypeOK
  <2>3. row.reads \in 0 .. MaxReads /\ row'.reads \in 0 .. MaxReads
    BY <2>2 DEF Rows
  <2>4. row'.reads = row.reads + 1 /\ resumes' = resumes
    BY <2>1, <2>2 DEF ReconcileClaim, Rows
  <2> QED BY <2>3, <2>4, LedgerAssumption
<1> QED BY <1>1, InvHolds, PTL DEF Spec, AttemptsAreCounted
-----------------------------------------------------------------------------
\* Where a write can start or be settled, the money is reserved.
LEMMA ReservedWhileOpen ==
    ASSUME Inv, NEW d \in Live, wire[d].outcome # "confirmed"
    PROVE  spend = "reserved"
<1>1. spend \in {"reserved", "committed"}
  BY DEF Inv, HoldCoversLiveWrite
<1>2. ASSUME spend = "committed" PROVE FALSE
  <2> DEFINE b == row.body.booking
  <2>1. b \in Dispatches /\ wire[b] = [outcome |-> "confirmed", quote |-> row.body.quote]
    BY <1>2 DEF Inv, SpendFollowsState, CompletedBooking
  <2>2. wire[b].outcome = "confirmed"
    BY <2>1
  <2>3. b \in Live
    BY <2>1, <2>2 DEF Live, NotBooked
  <2>4. b = d
    BY <2>3 DEF Inv, RowKeepsLiveWrite
  <2> QED BY <2>2, <2>4
<1> QED BY <1>1, <1>2

\* Every ledger step is a step of the promise or leaves the hold and the live
\* writes alone.
LEMMA PromiseStep == Inv /\ [Next]_vars => [Promise!Next]_<<spend, Live>>
<1> SUFFICES ASSUME Inv, [Next]_vars PROVE Promise!Next \/ (spend' = spend /\ Live' = Live)
  OBVIOUS
<1>s. Store /\ TypeOK /\ row \in Rows
  BY DEF Inv, Store, TypeOK
<1>l. wire' = wire => Live' = Live
  BY DEF Live
<1>1. ASSUME NEW d \in Dispatches, Provider(d)
      PROVE  Promise!Next \/ (spend' = spend /\ Live' = Live)
  <2>1. d \in Live /\ spend = "reserved"
    <3>1. d \in Live /\ wire[d].outcome # "confirmed"
      BY <1>1, ProviderStep DEF Live, NotBooked
    <3> QED BY <3>1, ReservedWhileOpen
  <2>2. CASE wire'[d].outcome \in Booked
    <3>1. Live' = Live
      BY <1>1, <2>1, <2>2, ProviderStep DEF Live, Booked, NotBooked
    <3> QED BY <3>1, <1>1, ProviderStep
  <2>3. CASE wire'[d].outcome \in NotBooked
    <3>1. Live' = Live \ {d}
      BY <1>1, <2>3, ProviderStep DEF Live, NotBooked
    <3>2. Promise!Refuse(d)
      BY <3>1, <2>1, <1>1, ProviderStep DEF Promise!Refuse
    <3> QED BY <3>2 DEF Promise!Next
  <2> QED BY <2>2, <2>3, <1>1, ProviderStep
<1>2. ASSUME NEW c \in Callers, Call(c)
      PROVE  Promise!Next \/ (spend' = spend /\ Live' = Live)
  <2>t. snap[c] \in Rows /\ snap[c].body \in Bodies
    BY DEF Inv, TypeOK, Rows
  <2>o. Booking(c) => OwnsWrite(c)
    BY DEF Inv, BookingOwnsWrite
  <2>1. CASE BookFence(c)
    <3> DEFINE d == snap[c].body.dispatch + 1
    <3>1. /\ row.state = "quoted" /\ d \in Dispatches
          /\ spend' = IF spend \in {"none", "released"} THEN "reserved" ELSE spend
          /\ wire'[d].outcome = "fenced"
          /\ \A e \in Dispatches : e # d => wire'[e] = wire[e]
      BY <2>1, <2>t, <1>s DEF BookFence, TypeOK
    <3>2. Live = {} /\ spend \in {"none", "released"}
      BY <3>1, <1>s, OpenIsUnbooked DEF Held, Store, SpendFollowsState
    <3>3. Live' = {d}
      BY <3>1, <3>2 DEF Live, NotBooked
    <3> QED BY <3>1, <3>2, <3>3 DEF Promise!Next, Promise!Dispatch
  <2>2. CASE BookSend(c)
    <3> DEFINE d == snap[c].body.dispatch
    <3>1. /\ d \in Dispatches /\ wire[d].outcome = "fenced"
          /\ wire'[d].outcome = "sent" /\ spend' = spend
          /\ \A e \in Dispatches : e # d => wire'[e] = wire[e]
      BY <2>2, <2>o, <1>s DEF BookSend, Booking, OwnsWrite, TypeOK
    <3>2. Live' = Live
      BY <3>1 DEF Live, NotBooked
    <3> QED BY <3>1, <3>2
  <2>3. CASE BookRejected(c) /\ spend' # spend
    <3>1. /\ row.state \in {"booking_dispatched", "booking_uncertain"}
          /\ spend' = "released" /\ wire' = wire
      BY <2>3 DEF BookRejected
    <3>2. OwnsWrite(c)
      BY <2>3, <2>o DEF BookRejected, Booking
    <3>3. Live = {}
      BY <2>3, <3>2, <1>s DEF BookRejected, OwnsWrite, Live, Store, RowKeepsLiveWrite
    <3>4. spend # "committed"
      BY <3>1, <1>s DEF Store, SpendFollowsState
    <3>5. spend # "none"
      <4>1. row.body.dispatch \in Dispatches
        BY <3>2 DEF OwnsWrite
      <4> QED BY <4>1, <1>s DEF Store, SpendFollowsState, Dispatches
    <3>6. spend = "reserved"
      BY <3>1, <3>4, <3>5, <2>3, <1>s DEF TypeOK
    <3> QED BY <3>1, <3>3, <3>6, <1>l DEF Promise!Next, Promise!Release
  <2>4. CASE RecordVerified(c) /\ spend' # spend
    <3>1. Claimed(c) /\ spend' = "committed" /\ wire' = wire
      BY <2>4 DEF RecordVerified
    <3>2. snap[c].body.booking \in Live
      <4> DEFINE b == snap[c].body.booking
      <4>1. b \in Dispatches /\ wire[b] = [outcome |-> "confirmed", quote |-> snap[c].body.quote]
        BY <2>4 DEF RecordVerified, Inv, VerdictsTrue
      <4> QED BY <4>1 DEF Live, NotBooked
    <3>3. spend = "reserved"
      BY <3>1, <3>2, <1>s DEF Claimed, Store, HoldCoversLiveWrite, SpendFollowsState
    <3> QED BY <3>1, <3>2, <3>3, <1>l DEF Promise!Next, Promise!Commit
  <2>5. CASE ~BookFence(c) /\ ~BookSend(c) /\ spend' = spend
    BY <1>2, <2>5, <1>l DEF Call, SelectGet, SelectSave, QuoteGet, QuoteFence, QuoteAnswer,
       QuoteSave, BookGet, BookRefresh, BookReget, BookConfirmed, BookRejected, BookUncertain,
       ReconcileGet, ReconcileExpire, ReconcileClaim, ReconcileRead, RecordVerified,
       RecordUnverified, Lose
  <2>6. CASE ~BookFence(c) /\ ~BookRejected(c) /\ ~RecordVerified(c)
    <3>1. spend' = spend
      BY <1>2, <2>6 DEF Call, SelectGet, SelectSave, QuoteGet, QuoteFence, QuoteAnswer, QuoteSave,
         BookGet, BookRefresh, BookReget, BookSend, BookConfirmed, BookUncertain, ReconcileGet,
         ReconcileExpire, ReconcileClaim, ReconcileRead, RecordUnverified, Lose
    <3> QED BY <3>1, <2>2, <2>5, <2>6
  <2>7. BookSend(c) => spend' = spend
    BY DEF BookSend
  <2> QED BY <2>1, <2>2, <2>3, <2>4, <2>5, <2>6, <2>7
<1>3. CASE Begin \/ Stop \/ ResumeReconciliation \/ BackoffElapses \/ WindowCloses
           \/ AuthorityChanges \/ UNCHANGED vars
  BY <1>3, <1>l DEF Begin, Stop, ResumeReconciliation, BackoffElapses, WindowCloses,
     AuthorityChanges, vars
<1> QED BY <1>1, <1>2, <1>3 DEF Next

\* The ledger implements BookOnce: money is reserved with the write, released
\* only when no write is live, committed only for a live one, and a second write
\* never overlaps the first.
THEOREM LedgerKeepsPromise == Spec => PromiseSpec
<1>1. Init => Promise!Init
  BY DEF Init, Promise!Init, Live
<1>2. Inv /\ [Next]_vars => [Promise!Next]_<<spend, Live>>
  BY PromiseStep
<1> QED BY <1>1, <1>2, InvHolds, PTL DEF Spec, PromiseSpec, Promise!Spec
=============================================================================
