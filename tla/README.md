# Ohiyo in TLA+

Ohiyo is a group-chat service: a Rust server (axum, SQLite) under `server/`, a
React client under `client/`, a Tauri desktop shell under `client/src-tauri/`
and a Pi agent worker under `worker/`.  This directory models the parts of the
server and of the client whose control is hard to test, checks them with TLC on
small instances and proves theorems about them with TLAPS.

Paths below are relative to the repository.

## 1. The system

Every request is an axum handler on a multi-threaded Tokio runtime.  Four
things shape the system's behaviour:

- **The database is the only memory that survives.**  A handler runs a few SQL
  statements; each statement (or `BEGIN IMMEDIATE ... COMMIT` block) is atomic,
  and anything may happen between two of them.
- **A handler can disappear at any await.**  When the client hangs up, axum
  drops the future; when the process dies, so do all handlers, all locks and all
  in-memory sessions.
- **Some partners cannot be undone.**  The hotel provider, the payment provider,
  the machine provider and the Pi worker act on a call whether or not the answer
  arrives.
- **The client is one thread with many awaits.**  A handler of the app runs
  alone until it awaits the network, the browser's storage or its cryptography;
  then live events, clicks and other handlers run, and what it read may be old
  when it goes on.  A reload leaves it with what it had stored.

### Components

| Component | State | Operations | Talks to |
|---|---|---|---|
| Travel booking ledger (`api/burrow/travel/ledger.rs`) | one transaction row per goal, one spend row, evidence | begin, record_selection, quote, book, reconcile, resume_reconciliation, stop | Duffel, agent bridge (authority) |
| Duffel client (`travel/duffel.rs`) | none | quote, create, list, read | the provider |
| Travel workflow (`travel/workflow.rs`) | request row, durable action rows, `travel_lock` | admit, command (research, select, book, reconcile, status, stop), retry, reconcile, stop, snapshot | ledger, bridge |
| Mandate and rules (`travel/rules.rs`, `travel/model.rs`) | none | evaluate a quote | workflow |
| Agent bridge (`api/burrow/agent.rs`) | run row, command rows, task row | start, control, the 2-second tick, publish, recover | Pi worker, workflow |
| Burrow tasks, research, context, routing | task rows, documents, credentials | drafts, runs, feedback | model providers |
| Pi worker (`worker/`) | durable session and command records | start, control, status, stop | bridge, workflow |
| Instance billing (`billing/mod.rs`) | checkout and subscription columns, stray subscriptions | checkout, webhooks, release, reconcile | Creem, provisioning |
| Instance provisioning (`provision/`, `api/instances.rs`) | instance rows, lifecycle lock | create, sleep, wake, tier, delete | machine provider |
| DM and group calls (`api/calls.rs`) | in-memory call per chat, log message | start, join, leave, decline, ring timeout, sweep | gateway |
| Gateway (`gateway/mod.rs`) | connections, presence, voice seats, tickets | connect, disconnect, join/leave voice, reads, privacy | every client |
| Signal prekeys (`api/signal.rs`) | devices, tombstones, one-time prekeys | publish, fetch, remove | clients |
| Client E2E (`client/src/lib/senderKeys.ts`, `encryptedSend.ts`, `signal.ts`, ...) | our sender key and the copies of others', the distribution tracker, pairwise sessions | mint, rotate, distribute, encrypt, decrypt | server, the other clients |
| Client outbox and open chat (`lib/outbox.ts`, `lib/catchUp.ts`, `App.tsx`) | unsent messages, the list on screen, loads and sends in flight | open a chat, send, retry, discard, flush, catch up, live events | server, gateway |
| Client calls (`hooks/useWebRTC*.ts`, `lib/dmCall.ts`) | the call this device is in, peer connections | join, hang up, negotiate | server, gateway |
| Accounts, messages, spaces, invites, events, files, voice, bootstrap | SQL rows | mostly one statement per operation | |

`PROJECT.json` lists all of them with their status, and under `hazards` the
lines where each can go wrong in a way a test hardly reaches.

### What makes each one correct

- **Ledger**: the provider is asked for at most one booking that can still take
  effect; money stays reserved while such a write is outstanding; what is called
  completed was confirmed by reading the provider; what is called stopped has no
  outstanding write; a reconciliation ends.
- **Workflow**: a worker's command is carried out once whatever the number of its
  deliveries; a write after a refusal has the owner's approval; after Stop nothing
  is booked; the stage the owner reads never hides an outstanding write.
- **Bridge**: an instruction is submitted to the worker at most once, across
  crashes; one workspace has one non-Pi run; Stop discards what was not sent; a
  finished run has no work running at the worker.
- **Billing and provisioning**: no payment without a machine or a cancellation; no
  machine without a row; out-of-order webhooks converge on the provider's state.
- **Calls**: a timer or a late leave ends only its own call; each call's log is
  closed once; seats never exceed the cap.
- **Gateway**: presence follows the connection set; logged-out sessions receive
  nothing; evicted users hold no seat.
- **Prekeys**: a one-time prekey is handed out once; a removed identity never
  returns under its old device.
- **Client E2E**: who left a group gets no newer key; a step of a chain encrypts one
  message; a send ends, whatever fails on its way; a rotated key stays rotated.
- **Outbox and open chat**: no written message is lost; the list shows the chat that is
  open, and the outbox as it is; a catch-up takes nothing away.

## 2. Plan

| # | Modules | Abstract specification | Status |
|---|---|---|---|
| 1 | `TravelLedger`, `TravelLedger_proofs` | `BookOnce` | done |
| 2 | `TravelWorkflow` (composes 1 by EXTENDS), `TravelWorkflow_proofs`, `TravelApprovals_proofs` | the ledger's `Spec` | done |
| 3 | `AgentBridge`, `AgentBridge_proofs` | `DeliverOnce` | done |
| 4 | `GroupKeys`, `GroupKeys_proofs`, `GroupKeysCounts_proofs` (the sender keys of a group, end to end) | | done |
| 5 | `OpenChat`, `OpenChat_proofs` (the outbox and the list on screen) | | done |
| 6 | `DmCalls`, `DmCalls_proofs` (with the voice seats and the connections) | | done |
| 7 | `InstanceBilling` (with provisioning) | a subscription/machine ledger: nobody pays for nothing | left |
| 8 | `GatewaySessions` (tickets, logout everywhere, presence) | presence is a function of the connection set | left |
| 9 | `PrekeyDirectory` | a one-time key is handed out once | left |

The order follows the cost of a mistake: first money (1, 2), then unattended
agents (3), then what people say to each other and who can read it (4-6).

## 3. The travel slice

### TravelLedger

`row` is the `burrow_travel_transactions` row of one goal (the goal column is
UNIQUE), `spend` the state of its spend row, `authority` the fact that the Pi run
is attached and has no live Stop command (read through the bridge's tables).
`pc`, `snap` and `cont` are the async methods in progress: where each awaits, the
copy of the row it holds, and whether its `quote` is called by `book`.  `wire` is
the provider's side of each booking write; `resumes` counts the windows an
operator opened.

A method is split at each await: `BookGet` reads, `BookRefresh`/`QuoteFence`/
`QuoteAnswer`/`QuoteSave` make a fresh quote, `BookReget` and `BookFence` commit the
dispatch fence (state, spend reservation, dispatch id in one transaction),
`BookSend` puts the request on the socket and `BookConfirmed`/`BookRejected`/
`BookUncertain` are the three answers.  `Lose(c)` drops a method anywhere.
`Unchanged` is the compare-and-set in the WHERE clause of the updates, `Claimed`
that of the reconciliation's.  The clock is abstracted to two facts about the
row: `window` (unset, open, over: the 900 s limit) and `backoff` (the next read is
not due).  A mandate check is a Boolean outcome.

`BookOnce` is what the ledger promises: a money box with `free`, `reserved`,
`spent`-like states, in which at most one write is outstanding and a hold is given
back only when that write is proven not to have taken effect.  `PromiseSpec` is
the instance of it under the ledger's mapping.

### TravelWorkflow

Adds the request row, one durable action of the worker followed through all its
deliveries, `travel_lock` and a record per handler.  A handler reads the request
first and the transaction later (`ReadRequest`, `ReadRow`), decides on its two
copies (`Refuses`, `Repeats`, `Reconciles`), and then makes the ledger's own steps
(`LedgerCall` is a disjunction of TravelLedger's actions), so every behaviour
of this module is one of `TravelLedger` (`LedgerSpec`, checked as a property).
`StopWork` takes no lock and may commit between any two steps of any handler.

## 4. The agent bridge

### AgentBridge

Burrow keeps three tables for its agents: the task (`task` is its `state` column),
one run per task (`run`: its phase, and whether a `runtime_id` is saved) and the
run's commands in rowid order (`cmds`, each with an action and a phase).  The
owner's requests `start()` and `control()` are single `BEGIN IMMEDIATE`
transactions under `instance_lifecycle`, hence single actions (`StartRun`,
`Control`).  A request repeated with the same id changes nothing and is a stutter.

`tick()` is one task behind `try_lock`, so `bridge` holds one position: the await it
stands at, the runs it has listed and not yet visited (with the phase they had
*then*), the run it visits, and the command and the status it remembers.  Its steps
are cut at every await that separates two decisions:

| Action | Code (`agent.rs`) |
|---|---|
| `ListRuns` | the query of queued and attached runs |
| `ClaimRun` | the compare-and-set queued -> dispatching, with the workspace check |
| `Submit`, `Acknowledged`, `Unconfirmed` | the call to the worker and its answer or error |
| `TakeRun`, `CheckRun`, `ReadStatus` | `reconcile()`: doubtful commands, the first queued command, the status call |
| `ClaimCommand` | the compare-and-set queued -> dispatching of the remembered command |
| `Publish` | the watch call, the events and `publish()` of the status read before them |
| `GiveUp`, `Abort` | an error returned by `reconcile()` or by `tick()` |
| `Restart` | the death of the process and `recover()`; `main.rs` runs it before it serves or spawns anything, so the two are one step |

The rows are visited in any order, which includes the code's rowid order.  `net`
holds submissions that may still reach the worker, also after the bridge has
given them up; `acked` those it has carried out.  `worker` is the status the worker
reports (`runtime.mjs`, or an external Orb when `pi` is false): `WorkerHandles` is its
`start()` and `controlRun()`, `WorkerMoves` its own progress.  `pi` chooses the
deployment once: with Pi, runs work side by side; an Orb is one workspace shared by
all runs.  `Mandated` tasks, a Pi feature, have a travel mandate: their shown state
comes from the workflow's snapshot, here any of the values it can have.

A task that no unfinished run manages can also be drafted by one model call
(`burrow.rs`, `run()`: `StartDraft`).  The call shares only the task's row with the
bridge, and its save (`SaveDraft`) counts while the row still has the version the
draft began with.  `draft` says so: `writing` while it would count, `overtaken` once
the task's state was written by somebody else (`Control`, `publish()`), `lost` when
the save failed or when notes, which are saved in every state, raised the version.
A task with a lost draft says "working" until a restart; `TaskTellsTheRun` names this
exception.

`Authority` is what `TravelLedger` asks of the bridge's tables (`ledger.rs:324`);
there it is the variable `authority`, which changes at any time.  `StopEndsAuthority`
says here what the ledger cannot: an accepted Stop ends it for good.

`DeliverOnce` is what the bridge promises of *one* run: letters (letter 0 is the start,
the others are the instructions in the order given) that are kept, taken, handed over,
and then settled, in doubt, or withdrawn by a Stop.  A letter is handed over at most
once, after everything before it was settled or withdrawn, never after it was
withdrawn, and not over one in doubt; only what the worker has carried out is settled as
delivered.  It knows no tick, no await, no status call and no restart.  The mapping
(`Delivery(t)`) reads a letter off the rows (`LetterOf`: the run's phase and `runtime_id` for
the start, the command's phase for the others), the copies off the history `sends`, and
what was carried out off `acked`.  `DeliversOnce` says that every run's image starts and
steps as `DeliverOnce` does.  `\A t : Delivery(t)!Spec` is the same formula; it is written
`Init /\ [][\A t : Step]` because TLC takes the box only outside of the quantifier.

## 5. The client's conversations

### GroupKeys

In an encrypted group every member has a sender key: a chain that encrypts its
messages, a copy of which each other member keeps.  The module follows *one*
member's key, on one device (`senderKeys.ts`, `encryptedSend.ts`, `App.tsx`), the
server that announces membership changes and relays distributions (`users.rs`,
`messages.rs`), and the other members' copies.  Members' keys do not interact, so
one is enough.  A key is abstracted to the three numbers that tell chains apart:
its id (counting mints), its epoch and its iteration.

| Variables | Code |
|---|---|
| `members`, `epoch`, `unannounced` | `dm_participants`; `channels.epoch`; a membership change committed whose handler has not reached `bump_rekey_epoch` yet |
| `known`, `own`, `rotations` | `kc:sk:epoch` and `kc:sk:own` in IndexedDB; calls of `setGroupEpoch` that are generating a key |
| `tracker`, `runs` | the closure of `createDistributionTracker` and its distributions in flight, each with the member list and the key it read |
| `sends`, `chain` | `handleSend`/`encryptOutgoing` of each message; the promise chain of `encryptChains` |
| `skdms`, `mail`, `copy`, `opening` | envelopes and messages on their way, `kc:sk:peer`, and `groupDecrypt` calls between read and write |

A run is listed, built (and, the first time, minted) and relayed in separate steps,
since each awaits; `RunDone` is the relay with what follows its answer, and includes
the microtasks that let the waiting sends call `groupEncrypt`.  The head of the chain
reads our key in the step that makes it the head (`Turn`), and writes it back in
`EncryptEnd`.  A lost connection loses the notices on their way; Ready brings the
current epoch.  `Reload` keeps IndexedDB and drops everything else.

Left out: that the member itself is removed; a second tab on the same storage; the
re-key that follows the removal of a *device* (`signal.rs`); `resetGroup`, which nothing
calls; the null key in `groupEncrypt`, which `encryptOutgoing` rules out.

### OpenChat

What one device shows of the open chat, and its outbox.  `shown` and `temps` are the
two parts of `messages` (posts of the server, unsent messages of this device), `outbox`
is `kc:outbox`, `loads` the page loads and catch-ups in flight (asked, then read by
the server), `calls` the `sendMessage` requests in flight, at most one of each origin
(the user, the flush) per message, `queue` what the running flush has still to do.

Every writer of the list is there: opening a chat (`Select`, `PageRead`,
`SelectShown`/`SelectFails`), catching up after each Ready but the first (`Ready`,
`CatchUpShown`/`CatchUpFails`), live events (`MessageCreate`, `MessageDelete`), sending,
retrying, discarding and flushing.  `StillOpen` is the test every load makes before it
shows anything.  `Ended` ends a send: in a flush the next message's retry begins in
the same step, as in the `for` loop.  `Reload` is a crash: calls under way have been
accepted by the server, or never are, and startup's `reconcileStalePending` turns what
was pending into failed.

The server stores and announces a message in one step here (it awaits in between;
what the client can tell is only whether the event comes before the answer, and both
orders happen).  A connection that falls behind is a loss followed by Ready.  A chat,
once open, is never closed to none.

## 6. Calls

### DmCalls

One chat's call: `call` is `state.calls`, `room` the voice room (which connection holds
each person's seat), `log` the `call_log` of each call's message, `conns` the connection
tasks with the frames they have not read.  A request to ring (`starts`), a call's
end (`ending`, the rest of `finish()` after the session is removed) and the sweep
(`sweep`) are tasks of their own.  Each person has one device: `link` is its
connection, `inCall` that its app is in the call, `told` that a CallEnded is on its way.

A step is what runs between two awaits; two locks taken one after the other without an
await are one step (splitting them too exceeded the checker's reach, and no
property looks in between).  The ring timer is `call.armed`: the timer of a call that is
over finds another id and does nothing.  `STALE_LOG_AFTER_SECS`, which keeps the sweep
from a log whose call is about to be registered, is the guard of `SweepReads`.  The
sweep compares and writes a row at a time, `WHERE call_log = ?`, as in the code.

A device loses its connection at any time; the server notices later (`gone`, then
`closing`), and may or may not have received the last frames.  `Restart` loses all but
the logs.

## 7. Runs

| Run | Instance | Question |
|---|---|---|
| `ledger_safety` | 2 callers, 2 reads, 2 fences, 2 writes, 1 resume | Is any safety property broken when two ledger methods interleave without the workflow's lock? |
| `ledger_live` | 1 caller, 6 reads (the code's), 2 writes, 1 resume | Does every outstanding write end as completed, refused or "needs attention"? |
| `workflow_safety` | 2 handlers, 2 writes, Stop anywhere | Does the workflow keep its promises, and is it a ledger run? |
| `bridge_instructions` | 1 plain task, 3 commands, fairness | Does the bridge deliver as `DeliverOnce` says: nothing repeated, reordered, sent although discarded, or called delivered when it was not? Is an instruction passed over? Can a stopped run regain authority? Are queued runs and instructions taken? |
| `bridge_tasks` | 2 tasks (one with a mandate), 1 command each | Do the runs respect the workspace, and does the task tell the truth about its run? |
| `bridge_stop_request` | 1 task, 2 commands, fairness | Is every accepted Stop requested from the worker or discarded? (No: see the findings.) |
| `group_keys` | 1 peer, 1 change, 2 sends, 2 distributions, 1 upset, fairness | Does a leaver get a newer key? Is a step of the chain used twice? Does every send end? |
| `group_keys_rotation` | 1 peer, 1 change, 1 send, no upset | Does a rotated key stay rotated? (No: see the findings.) |
| `open_chat` | 2 chats, 2 messages, 2 loads, 2 posts, 1 deletion, 1 upset | Is a written message lost, or stored more often than failures explain? Does the list show another chat, or something else than the outbox? |
| `open_chat_catch_up` | 1 chat, 1 message, 1 load, 2 posts, 1 upset | Does a catch-up take a message away? (Yes: see the findings.) |
| `dm_calls` | 2 people, 1 call, 1 connection and 1 unread frame each, 1 upset, fairness | Is a seat held by a dead connection? Is the log of a live call closed? Does every other log close? |
| `dm_calls_reconnect` | the same with 2 connections | Does a reconnect keep the seat? (No: see the findings.) |

**Bounds.**  In the ledger, two callers are enough for every pairwise race, and the
properties relate at most two writes: `MaxDispatches = 2` is a refused write and its
retry, `MaxFences = 2` a stale quote and its replacement.  `MaxReads = 2` separates the
first, a middle and the last read of a window; the liveness run has the code's
six.  `MaxResumes = 1` gives a second window.  In `workflow_safety` windows are one
read long and not resumed: resumption is an operator's tool that no route of the
server reaches, and `ledger_safety` checks it.  A bounded counter disables the
step that would exceed it; steps that lead out of the state always stay enabled.

The bridge's properties of instructions are about one run, and three commands give a
claimed one, one waiting behind it, and a Stop or a continuation; those that relate runs
need two of them and one command each.  (Two tasks with two commands each exceed
eight million states.)  `MaxCommands` stands for the code's 200, `MaxActive` for its 3.

`GroupKeys`: two sends are what a chain's step can be shared by; one membership change
gives every order of change, notice, rotation, distribution and encryption.  (Without
the liveness property two changes were checked too, 4.8 million states.)  `OpenChat`: two
chats for a load that comes too late, two messages for a flush that overlaps with a retry,
one upset for one lost answer, reload or lost connection; the page is never longer than
the server's limit.  With two posts the run reaches a second copy of a message, and says
that it takes a failure; the third copy, which one failure can cost (the user retries
while a flush has the message in its list), needs a third post.  A smaller instance
(one chat, one load, four posts) was checked too and reaches it, so the factor in
`CopiesAreBounded` is not slack; for every bound it is proved.  `DmCalls`: one call and one connection at a time reach every
property's hazard but the end of one call overtaking the next; with two of either the
run exceeds ten million states.  The reconnect is checked with two connections in its
own run, and the overtaking is covered by the proof.  These runs stop where the
bounds or the people stop them, hence `CHECK_DEADLOCK FALSE`.

**Fairness.**  `FairSpec` of the ledger assumes that (a) an HTTP call to the
provider ends: the client has a 45 s timeout and no retry (`duffel.rs:107-110`);
(b) the clock passes; (c) a reconciliation that stays due is attempted again and
is not dropped for ever: the worker's instructions are to call reconcile whenever
it is due (`docs/BURROW-DUFFEL.md`), and the owner can.  It does not assume that
the provider books, answers truthfully soon, or that any one attempt survives.

`FairBridgeSpec` assumes that a tick starts when the last one has ended (`spawn`
loops with a sleep of 2 s), that a visit goes on (every call has a 30 s timeout), and
that a step of the visit that is possible again and again is made some time, that is,
that the database and the worker's status do not fail every single time (strong
fairness of the reads and statements, since `GiveUp`, `Abort` and `Restart` compete
with them).  Nothing is assumed of the worker, of its acknowledgements, or of the
owner.

`FairGroupKeysSpec` assumes that a request is answered or fails, and that the browser's
cryptography and storage end, well or badly.  `FairDmCallsSpec` assumes that the server's
tasks run to their end or die with the server, that a ring timer fires, and that the
sweep comes round (it is a loop with a sleep).  Nothing is asked of people, devices or the
network.

**Symmetry** is used in runs without temporal properties only: over the callers of the
ledger and the workflow, and over the chats, messages and loads of `OpenChat`.

## 8. Proofs

`TravelLedger_proofs` proves for every set of callers and every bound:

- `TypeCorrect`: the type invariant;
- `OneLiveWrite`, `HoldIsKept`, `LiveWriteIsKept`, `CompletionIsVerified`,
  `StopIsClean`: the five safety invariants of `ledger_safety`;
- `QuotesAreCurrent`, `CompletionIsKept`, `RefusalIsKept`: its action properties;
- `ReadsAreCounted`: a caller that goes on to read the provider has counted an attempt in
  that step, and there were fewer than `MaxReads`; the count goes down at a resume only.
  This is what `ReconciliationEnds` rests on besides fairness;
- `LedgerKeepsPromise`: `Spec => PromiseSpec`, the refinement of `BookOnce`.

The argument.  None of the properties is inductive alone, because a caller acts on
a copy (`snap`) taken before other callers moved the row.  The inductive invariant
`Inv` therefore says what each copy is still worth at each `pc`: a caller
that passed the dispatch fence owns the current dispatch number and its write is
the only one not proven refused; a copy whose `body` equals the row's agrees with it on
everything the compare-and-set protects; while a write may have taken effect the
row is in `Held` and the spend is reserved or committed.  The proof has one step
per action, under it one per conjunct the action can disturb; action properties and
the refinement follow from the invariant step by step.  The only assumption on the
constants is `LedgerAssumption` (natural-number bounds, at least one read).

`TravelWorkflow_proofs` adds, again for any callers and bounds:

- `WorkflowKeepsLedger`: `WorkflowSpec => LedgerSpec`.  Every step of a handler, of
  Stop and of the world is a step of the ledger or leaves it alone.  By it the
  ledger's theorems hold of the workflow (`WorkflowOneLiveWrite` and
  `WorkflowHoldIsKept` are the two that matter most);
- `WorkflowInvariant`: the inductive invariant `WInv`.  `RejectionFindsItsRow` and
  `ActionRunsAlone` need it: they hold because whoever is at work holds the lock
  (`HandlersHoldLock`) and a ledger call in progress belongs to a handler
  (`CallsAreHandled`), which no property says.  The type invariant needs two more
  parts: a refused row and an approval in progress name a write
  (`FailedIsWritten`, `ApprovalsNameWrites`), else the history `approved` could not
  be typed.  The proof uses the ledger's `Inv` at every step: it is available because
  the refinement is proved first;
- `LockFollowsWork`: `travel_lock` is held by a handler exactly while that handler is at
  work, the converse of `HandlersHoldLock` included: no failure, Stop or dropped future
  leaves the lock behind;
- `WorkflowTypes`, `RejectionFound`, `ActionsRunAlone`: the three properties that
  follow from it.  The only further assumption is that `Free` is no caller.

Every handler step is classified once (`HandlerShape`: it enters, goes on or leaves);
the lock lemmas argue about the three classes and not about fifteen actions.

`TravelApprovals_proofs` proves what the owner's two decisions mean, the remaining
properties of `travel_workflow`: `RetriesAreApproved` (`WritesAreApproved`),
`StopEndsBooking` (`NothingBookedAfterStop`) and `ShownStaysHonest` (`ShownIsHonest`).
Their invariant is `Decisions` (`DecisionsHold`):

- an approval in the request is about the row's latest write and is spent before the row is
  quoted again (`RetryIsApproved`), and a row that may be quoted has no refusal the owner
  has not answered (`FreshIsApproved`).  Both rest on what the copies of the one handler at
  work are worth at each of its steps (`HandlersAreOrderly`): a selection of a rejected row
  read an approval, a quote starts on a selected or quoted row, and the unguarded update
  of `ReconcileExpire` finds a row that was dispatched;
- a Stop is easy when it finds the row: the row keeps its flag.  `EarlyStop` is about
  the Stop committed before the first handler has inserted it.  Then only the
  request says "stopped", a handler may be past reading it, and the row is inserted
  afterwards, not stopped.  Still no handler reaches a statement that does
  anything: those already past the request read it before any comparison
  (`BeforeRow`), so a selection refuses, and a booking finds nothing quoted.

`Decisions` held on the instance of `travel_workflow` before it was proved.  How the row
can move in one step is stated once (`RowMoves`); each part argues about these moves.

`AgentBridge_proofs` proves, for any tasks, either deployment and any bound on the
instructions, every safety and action property of the two passing bridge runs: `BridgeTypes`,
`NothingRepeated`, `WorkspaceHasOneRun`, `FinishedLeavesNoWork`, `InstructionsAreHeard`,
`StopIsFinal`, `TaskIsHonest`, `EveryLetterOnce`; and two statements no run repeats because
`DeliversOnce` implies them, `OrderIsKept` and `StoppedIsUnsent`.  The invariant
`BInv` (`BridgeInvariant`) has two halves:

- what holds of a run whatever the bridge is doing: only an attached run has a command on
  its way and only one in review has one in doubt (`RunOK`); an item is submitted once,
  and is then on the wire or carried out or lost, and one that is still queued or was discarded
  was never submitted (`SentOK`); a run that is over is over at the worker (`WorkOK`);
  a later Stop discards an earlier one but stays itself (`StopOK`); and what the draft
  and the run say of the task (`TellOK`);
- what the bridge remembers at each await is still worth.  The visited run is still
  attached, or still claimed, and is visited once in a tick (`VisitedRun`); the
  command remembered before the status call is the oldest one queued, or was discarded,
  and once claimed was not yet submitted (`VisitedCommand`); while a status is read and
  published, no command of that run is on its way or in doubt (`VisitedStatus`).  Without this
  half a restart or a request between two awaits would break the first.

A lemma per action family (`RunSteps`, `VisitShape`, `ControlShape`, `RestartShape`) says
what can become of a run, position by position in its list of commands; the
preservation lemmas argue about these shapes.

`EveryLetterOnce` is the refinement of `DeliverOnce`: every step of the bridge, of the owner
and of the worker is, for each run, one of the promise's seven steps or leaves its image alone
(`StepKeepsPromise`).  `BInv` is needed where the code looks at less than the promise does:
`HandOver` asks that the letter is taken and was never handed over, and `submit` does not look
(`HandingOver`, from `SentOK`, `VisitedRun` and `VisitedCommand`); `Take` asks that the start
and everything before the letter is settled or withdrawn, and the claim of a command looks
at its own row only (`TakeSteps`, from `VisitedCommand` and `VisitedStatus`); a restart looks at
the starts under way and at the commands under way separately, and the promise puts in
doubt whatever is (`DoubtSteps`, from `RunOK`).  The only assumption is
`BridgeAssumption` (a finite set of tasks is not needed: a workspace is held by at most
one run, so `Busy` is empty or a singleton).

`OpenChat_proofs` proves, for any chats, messages, loads and bounds, with the user's
messages a finite set (the flush walks a sequence of them):

- `OpenChatTypes`, `NoMessageLost`, `ListOfTheOpenChat`, `OutboxShown`, `CopiesBounded`: every
  invariant of `open_chat`;
- `OpenChatInvariant`: the conjunction that is inductive.  To the four it adds that a
  message not yet written is nowhere (`UnwrittenIsNowhere`), that one the server accepted
  is stored (`AcceptedIsStored`: otherwise taking it off the outbox would lose it), and that
  a page under way holds posts of its own chat only (`PagesOfTheirChat`: otherwise a page
  arriving for the open chat could bring in another's);
- `CopiesBounded` by a second invariant, `CopiesInv`: the copies of a message stored so far
  and those that may still come (`ToCome`) are together at most one more than twice the
  failures.  What may come is a call that is posting, a place in the flush's queue, and, for
  a message shown as failed, two answers, the user's retry and the flush.  A step either uses
  one up (`Accept`), or turns one into another, or is a failure and adds two (`ToComeStep`).
  A retry by hand is covered because the screen and the outbox agree (`OutboxOnScreen`).
  The proof needs the constants to be what they stand for: nobody's message is named
  `other`, and no chat `none` (both part of `OpenChatAssumption`).

`DmCalls_proofs` proves, for any people, calls and connections:

- `TheLiveLogIsOpen`, by `LogInv`.  The sweep and the ends of calls work on what they read
  earlier, so the invariant says what that is still worth: a log is written by one
  request that no end and no sweep knows of until it is registered (`WrittenLogs`), a call
  that is ending is not the one that is on (`EndingIsOver`), and the rows of a sweep past
  its reading of the calls are of none (`SweepIsStale`);
- `SeatsHaveConnections`, by `ConnTypes`: a seat's connection is open or gone but never
  closing or closed, and a connection is open exactly when the device's link names it.

`GroupKeys_proofs` proves, for any people, messages, membership changes,
distributions, lost connections and reloads:

- `StepsUsedOnce`: the stale read of `groupEncryptInner` (finding 2) may bring an old chain
  back, and still no step is used twice.  `SendsOK` says why: one send at a time is at the
  head of the line, and the stored key is past every posted message *of its own chain*,
  whichever chain that is;
- `LeaversGetNothingNew`: every key that is known, being handed out, on the wire or being
  opened carries an epoch no later than the one announced (`KnownOK`, `RunsOK`, `WiresOK`),
  and what reaches a person no later than the epoch at which that person left (`PeersOK`).

`GroupKeysCounts_proofs` proves the rest about the same keys, over an invariant of its own
(`CInv`, `CountsInvariant`):

- `EveryWaitIsAnswered`: a send that waits for a distribution waits for one that is under way
  and has it among its callers (`CallersOK`), and a send that waits for its turn stands in
  line behind one that encrypts (`InLineOK`).  Nobody waits for nobody.  With every request
  answered or failed this is why a send ends;
- `FirstKeyIsFirst`: `ensureOwnSenderKey` finds no key in one step and stores a new one in
  another, and still the first key is minted once: until there is one, at most one
  distribution runs, the one the tracker knows, and there are no rotations (`FirstOK`).
  What is encrypted, relayed or posted has a key;
- `KeysAreForChanges`: keys minted, rotations under way, notices on their way, a
  connection still to come and the first key still to mint together never exceed one more
  than the membership changes and the upsets (`MintsOK`).  A mint turns one into another, and
  only a change or an upset adds one;
- `GroupKeysTyped`: the whole type invariant.  Its two bounds are the ones above and, for
  the iteration of a chain, that no stored, read or carried key is past the number of
  sends whose encryption is over (`KeysOK`).

**Only model-checked** are the five liveness properties, `ReconciliationEnds`,
`QueuedRunIsTaken`, `InstructionIsTaken`, `SendEnds` and `LogsClose`: the proof system handles
neither fairness nor ENABLED.  The safety facts two of them rest on are proved
(`ReadsAreCounted`, `EveryWaitIsAnswered`).  Every invariant and every action property of the
passing runs is a theorem.

## 9. Findings

Four statements of the documentation or of the code's comments do not hold of the code.

1. **`StopIsRequested`** (`bridge_stop_request`).  `docs/burrow.md:534`: Stop "requests
   runtime cancellation and waits for the reported terminal state".  Stop is accepted
   while an earlier instruction is being delivered; the delivery cannot be confirmed
   (or the server restarts), the run goes to review, and review runs are neither
   visited by the tick nor open to any control request.  The accepted Stop stays
   queued for ever.
2. **`RotationIsKept`** (`group_keys_rotation`).  `senderKeys.ts:84`: the server bumps
   the epoch on every change, "when ours advances we mint a brand-new chain (rotate), so
   a removed member's copy of the old chain [...] is dead."  An encryption under way when
   the key rotates stores the old chain over the new one (`senderKeys.ts:252`), and the
   messages after it are encrypted with the chain the removed member holds, until an
   epoch is announced again.
3. **`CatchUpTakesNothingAway`** (`open_chat_catch_up`).  `catchUp.ts:4`: "The server's
   latest page is the truth for the span it covers".  A message shown live between the
   server's read of the page and its display is newer than the page, and is dropped with
   what the page is supposed to correct.
4. **`ReconnectKeepsTheSeat`** (`dm_calls_reconnect`).  `gateway/mod.rs:727`: "after a
   reconnect during a call, the old connection closing must not take the user out of the
   call."  The client never sends the second JoinVoice that the server's provision is for.

Observations that break no promise in writing, or that no run states:

- *Bridge.*  A run stopped in the queue is `finished` and may be continued; it is then
  attached without a `runtime_id`, so every visit ends with "This task needs help
  reconnecting", no command is ever sent, and on a shared workspace nobody else can
  start.  `start()` counts the active tasks, `control()` does not, so a continuation can
  exceed the "3 active tasks per account" of `docs/burrow.md:587`.
- *Workflow.*  A Stop that commits before the first command has inserted the ledger row
  finds no row to mark (`docs/BURROW-DUFFEL.md:173` says Stop "marks the ledger stopped").
  No booking follows (`NothingBookedAfterStop`).
- *GroupKeys.*  `groupDecrypt` too reads, awaits and writes: it can put an older copy over
  one that a distribution installed meanwhile.  A send whose distribution was forgotten
  because of a rotation goes on with a key nobody has been given.
- *OpenChat.*  The flush walks a list of entries read at its start: one the user
  discards or retries meanwhile is posted all the same, in the second case twice.  A first
  load of a chat that fails after the user went elsewhere and back empties the list shown by
  the second.  Two tabs share `kc:outbox`.  A resend after a lost answer is a second
  message, which `outbox.ts:7` accepts (`CopiesAreBounded` says how many there can be).
- *DmCalls.*  `on_leave` and `CallEnded` name no call: late ones of an earlier call can end,
  or take a device out of, a newer one.  A `start_call` whose connection is dropped before
  its timer starts rings without end.  A caller who hangs up between the callee's seat
  and `on_join` leaves the callee alone in an answered call.

## 10. Not modelled

Of the travel slice: evidence rows, JSON, pagination and money parsing (data), the
read-only search and rates calls of the ledger, the model rankings, the travel form
before admission (`save`).  Of the bridge and of drafts: results, events, usage and
texts, the limit of eight tasks over all accounts, the daily attempts, and the deletion of
tasks and accounts.  Of the worker: its recovery, its publication of results and its
spending gate.  Of the client: pairwise sessions and the fan-out over devices, trust
decisions, drafts, threads, unread counts, WebRTC negotiation, and everything about how
things look.  Of the gateway: tickets, logout everywhere, presence, activities, reads,
watch parties.  Of calls: pushes, the replay of a ring to a device that connects, rate and
seat limits.

Billing, provisioning, prekeys, and the components marked `not_modelled` in
`PROJECT.json` are left, each with its reason there.  Most of the client's
and much of the server's lines are views, settings, forms, and single SQL statements behind
a permission check; they have little control to get wrong and are not the subject here.
