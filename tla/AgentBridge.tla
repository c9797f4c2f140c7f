---------------------------- MODULE AgentBridge ----------------------------
(***************************************************************************)
(* The bridge between Burrow tasks and the durable agent that works on     *)
(* them, server/src/api/burrow/agent.rs: the owner's start and control     *)
(* requests, the two-second reconciler that submits what they saved, the   *)
(* recovery of a restarted server, and the worker at the far side          *)
(* (worker/src/runtime.mjs).  A task that no unfinished run manages can    *)
(* also be drafted by one model call, which takes no part in the bridge    *)
(* but shares the task's row with it (server/src/api/burrow.rs, run()).    *)
(*                                                                         *)
(* Owner requests are single SQLite transactions.  The reconciler is one   *)
(* task that awaits between its statements and its calls: the owner may    *)
(* act at each of its steps, a step may fail, and the server may die.  A   *)
(* call the bridge has given up may still reach the worker later.          *)
(* Not in the state: results, events and texts; account and task deletion. *)
(***************************************************************************)
EXTENDS Naturals, Sequences, FiniteSets

CONSTANTS
    Tasks,          \* the tasks of one owner, all on the configured target
    Travel,         \* those with a travel mandate, in a Pi deployment
    MaxCommands,    \* instructions a run may have (200 in the code)
    MaxActive       \* tasks that may be started side by side (3 per account)

ASSUME BridgeAssumption ==
    /\ Travel \subseteq Tasks
    /\ MaxCommands \in Nat /\ MaxActive \in Nat

VARIABLES
    pi,         \* the deployment: Pi worker, or one shared Orb
    task,       \* burrow_tasks.state
    draft,      \* the model call that drafts the task, and whether its save will count
    run,        \* the burrow_agent_runs row of each task
    cmds,       \* its burrow_agent_commands rows, in rowid order
    bridge,     \* where tick() is, and what it remembers
    net,        \* submissions on their way to the worker
    worker,     \* status of each run at the worker
    acked,      \* submissions the worker has carried out
    sends       \* history: how often each submission was made

bridgeVars == <<pi, task, draft, run, cmds, bridge, net, worker, acked, sends>>
-----------------------------------------------------------------------------
Actions == {"steer", "stop", "continue", "resume"}
CommandPhases == {"queued", "dispatching", "sent", "review", "discarded"}
Phases == {"none", "queued", "dispatching", "attached", "review", "finished"}

\* Submissions of a run: its start, and its commands by their position.
Start == 0
Items == 0..MaxCommands
NoItem == MaxCommands + 1

Statuses == {"absent", "running", "waiting", "stopping", "done", "failed", "cancelled"}
Over == {"done", "failed", "cancelled"}

\* The await a tick stands at, the runs it has yet to visit with the phase they
\* were listed in, the run it visits, the submission and status in its hands.
Idle == [at |-> "idle", todo |-> {}]
Listed(todo) == IF todo = {} THEN Idle ELSE [at |-> "listed", todo |-> todo]
Visit(t, at, todo) ==
    [at |-> at, todo |-> todo, task |-> t, item |-> NoItem, status |-> "absent"]

BridgeInit ==
    /\ pi \in BOOLEAN
    /\ task = [t \in Tasks |-> "waiting"]
    /\ draft = [t \in Tasks |-> "none"]
    /\ run = [t \in Tasks |-> [phase |-> "none", runtime |-> FALSE]]
    /\ cmds = [t \in Tasks |-> <<>>]
    /\ bridge = Idle
    /\ net = {} /\ acked = {}
    /\ worker = [t \in Tasks |-> "absent"]
    /\ sends = [t \in Tasks |-> [i \in Items |-> 0]]
-----------------------------------------------------------------------------
Working == {t \in Tasks : task[t] = "working"}

\* Runs that hold the target's one workspace.
Busy == {t \in Tasks : run[t].phase \in {"attached", "dispatching", "review"}}

InPhase(t, phases) == {i \in 1..Len(cmds[t]) : cmds[t][i].phase \in phases}

\* cs with every command in phase from moved to phase to.
Move(cs, from, to) ==
    [i \in 1..Len(cs) |-> IF cs[i].phase = from THEN [cs[i] EXCEPT !.phase = to] ELSE cs[i]]
\* A draft's save counts only while the task has the version the draft began with.
Overtake(t) == draft' = [draft EXCEPT ![t] = IF @ = "none" THEN @ ELSE "overtaken"]

\* publish() writes the task's row only when it has something new for it: a state,
\* an error or a result.
Show(t, state) ==
    /\ task' = [task EXCEPT ![t] = state]
    /\ Overtake(t) \/ (state = task[t] /\ UNCHANGED draft)
-----------------------------------------------------------------------------
(* The owner.                                                              *)

\* A travel task is not started without Pi: there, all tasks are plain ones.
Mandated(t) == pi /\ t \in Travel

\* start(): one run for the life of a task; admission counts working tasks.
StartRun(t) ==
    /\ run[t].phase = "none"
    /\ task[t] \in {"waiting", "failed", "draft_ready"}
    /\ Cardinality(Working) < MaxActive
    /\ task' = [task EXCEPT ![t] = "working"]
    /\ run' = [run EXCEPT ![t].phase = "queued"]
    /\ UNCHANGED <<pi, draft, cmds, bridge, net, worker, acked, sends>>

\* run(): one model call for a task without an unfinished run.
StartDraft(t) ==
    /\ task[t] \in {"waiting", "failed"}
    /\ run[t].phase \in {"none", "finished"}
    /\ Cardinality(Working) < MaxActive
    /\ task' = [task EXCEPT ![t] = "working"]
    /\ draft' = [draft EXCEPT ![t] = "writing"]
    /\ UNCHANGED <<pi, run, cmds, bridge, net, worker, acked, sends>>

\* MUTANT of DraftCounts: the save looks at the task's state alone.
DraftCountsWhileWorking(t) == draft[t] # "none" /\ task[t] = "working"

DraftCounts(t) == draft[t] = "writing" /\ task[t] = "working"

\* The call ends: its draft or its failure is saved, or the save fails and nobody
\* will tell.  A draft that does not count changes nothing, and is forgotten when
\* another is started.
SaveDraft(t) ==
    /\ DraftCounts(t)
    /\ \/ /\ \E state \in {"draft_ready", "failed"} : task' = [task EXCEPT ![t] = state]
          /\ draft' = [draft EXCEPT ![t] = "none"]
       \/ draft' = [draft EXCEPT ![t] = "lost"] /\ UNCHANGED task
    /\ UNCHANGED <<pi, run, cmds, bridge, net, worker, acked, sends>>

\* notes(): saved in every state of the task, they change its version only.
SaveNotes(t) ==
    /\ draft[t] = "writing"
    /\ draft' = [draft EXCEPT ![t] = "lost"]
    /\ UNCHANGED <<pi, task, run, cmds, bridge, net, worker, acked, sends>>

\* MUTANT of Admits: a continuation does not look at the shared workspace.
AdmitsBusy(t, a) ==
    /\ a = "continue" => run[t].phase = "finished"
    /\ a # "continue" => run[t].phase = "attached" \/ (a = "stop" /\ run[t].phase = "queued")

\* Continue follows a finished run, everything else an attached one; a run that
\* waits to be started can only be stopped, one in doubt accepts nothing.
Admits(t, a) ==
    /\ a = "continue" => run[t].phase = "finished" /\ (pi \/ Busy \ {t} = {})
    /\ a # "continue" => run[t].phase = "attached" \/ (a = "stop" /\ run[t].phase = "queued")

\* MUTANT of Saved: Stop is saved before unsent instructions are discarded.
SavedThenDiscarded(t, a, phase) ==
    LET all == Append(cmds[t], [action |-> a, phase |-> phase])
    IN  IF a = "stop" THEN Move(all, "queued", "discarded") ELSE all

\* Stop discards what has not been sent; then the command is saved.
Saved(t, a, phase) ==
    Append(IF a = "stop" THEN Move(cmds[t], "queued", "discarded") ELSE cmds[t],
           [action |-> a, phase |-> phase])

\* MUTANT of RoomFor: one instruction too many.
RoomForOneMore(t) == Len(cmds[t]) <= MaxCommands

RoomFor(t) == Len(cmds[t]) < MaxCommands

\* control()
Control(t, a) ==
    LET unstarted == run[t].phase = "queued"
    IN  /\ Admits(t, a)
        /\ RoomFor(t)
        /\ cmds' = [cmds EXCEPT ![t] = Saved(t, a, IF unstarted THEN "sent" ELSE "queued")]
        /\ run' = [run EXCEPT ![t].phase = IF unstarted THEN "finished" ELSE "attached"]
        /\ task' = [task EXCEPT ![t] = IF unstarted THEN "failed" ELSE "working"]
        /\ Overtake(t)
        /\ UNCHANGED <<pi, bridge, net, worker, acked, sends>>

\* publish(.., "snapshot", ..): the travel workflow shows its stage; the run keeps
\* its phase.
PublishSnapshot(t) ==
    /\ Mandated(t) /\ run[t].phase # "none"
    /\ \E state \in {"draft_ready", "waiting", "working"} : Show(t, state)
    /\ UNCHANGED <<pi, run, cmds, bridge, net, worker, acked, sends>>
-----------------------------------------------------------------------------
(* tick()                                                                  *)

\* MUTANT of Listable: runs that were never started are not looked at.
ListableAttached(t) == run[t].phase = "attached"

Listable(t) == run[t].phase \in {"queued", "attached"}

ListRuns ==
    /\ bridge.at = "idle"
    /\ \E t \in Tasks : Listable(t)
    /\ bridge' = Listed({<<t, run[t].phase>> : t \in {u \in Tasks : Listable(u)}})
    /\ UNCHANGED <<pi, task, draft, run, cmds, net, worker, acked, sends>>

\* A queued run is claimed; on a shared workspace only when that is free.
ClaimRun(t) ==
    LET rest == bridge.todo \ {<<t, "queued">>}
    IN  /\ bridge.at = "listed" /\ <<t, "queued">> \in bridge.todo
        /\ IF run[t].phase = "queued" /\ (pi \/ Busy = {})
           THEN /\ run' = [run EXCEPT ![t].phase = "dispatching"]
                /\ bridge' = [Visit(t, "submit", rest) EXCEPT !.item = Start]
           ELSE bridge' = Listed(rest) /\ UNCHANGED run
        /\ UNCHANGED <<pi, task, draft, cmds, net, worker, acked, sends>>

TakeRun(t) ==
    /\ bridge.at = "listed" /\ <<t, "attached">> \in bridge.todo
    /\ bridge' = Visit(t, "check", bridge.todo \ {<<t, "attached">>})
    /\ UNCHANGED <<pi, task, draft, run, cmds, net, worker, acked, sends>>

At(t, step) == bridge.at = step /\ bridge.task = t

\* The start or control call leaves the server.
Submit(t) ==
    /\ At(t, "submit")
    /\ net' = net \union {<<t, bridge.item>>}
    /\ sends' = [sends EXCEPT ![t][bridge.item] = @ + 1]
    /\ bridge' = [bridge EXCEPT !.at = "await"]
    /\ UNCHANGED <<pi, task, draft, run, cmds, worker, acked>>

\* MUTANT of PublishReview: the owner is not told.
PublishReviewSilently(t) ==
    /\ run' = [run EXCEPT ![t].phase = "review"]
    /\ cmds' = [cmds EXCEPT ![t] = Move(@, "dispatching", "review")]
    /\ UNCHANGED <<task, draft>>

\* publish(.., "review", ..)
PublishReview(t) ==
    /\ run' = [run EXCEPT ![t].phase = "review"]
    /\ cmds' = [cmds EXCEPT ![t] = Move(@, "dispatching", "review")]
    /\ Show(t, "waiting")

\* The worker's acknowledgement arrives: a started run is reconciled at once.
Acknowledged(t) ==
    /\ At(t, "await") /\ <<t, bridge.item>> \in acked
    /\ IF bridge.item = Start
       THEN /\ run' = [run EXCEPT ![t] = [phase |-> "attached", runtime |-> TRUE]]
            /\ bridge' = Visit(t, "check", bridge.todo)
            /\ UNCHANGED cmds
       ELSE /\ cmds' = [cmds EXCEPT ![t][bridge.item].phase = "sent"]
            /\ bridge' = Listed(bridge.todo)
            /\ UNCHANGED run
    /\ UNCHANGED <<pi, task, draft, net, worker, acked, sends>>

\* MUTANT of Unconfirmed: an unconfirmed start counts as not started.
UnconfirmedFinished(t) ==
    /\ At(t, "await")
    /\ run' = [run EXCEPT ![t].phase = IF bridge.item = Start THEN "finished" ELSE "review"]
    /\ cmds' = [cmds EXCEPT ![t] = Move(@, "dispatching", "review")]
    /\ Show(t, "failed")
    /\ bridge' = Listed(bridge.todo)
    /\ UNCHANGED <<pi, net, worker, acked, sends>>

\* It does not: refused, 30 s over, connection gone or not readable.
Unconfirmed(t) ==
    /\ At(t, "await")
    /\ PublishReview(t)
    /\ bridge' = Listed(bridge.todo)
    /\ UNCHANGED <<pi, net, worker, acked, sends>>
-----------------------------------------------------------------------------
(* reconcile()                                                             *)

\* MUTANT of NextQueued: the newest instruction is taken.
NewestQueued(t) == CHOOSE i \in InPhase(t, {"queued"}) : \A j \in InPhase(t, {"queued"}) : i >= j

\* The queued command with the lowest rowid.
NextQueued(t) == CHOOSE i \in InPhase(t, {"queued"}) : \A j \in InPhase(t, {"queued"}) : i <= j

\* A run without a runtime id only gets an activity text; one with a command in
\* doubt goes to review; otherwise the first queued command is remembered.
CheckRun(t) ==
    /\ At(t, "check")
    /\ \/ /\ ~run[t].runtime
          /\ bridge' = Listed(bridge.todo)
          /\ UNCHANGED <<task, draft, run, cmds>>
       \/ /\ run[t].runtime /\ InPhase(t, {"dispatching", "review"}) # {}
          /\ bridge' = Listed(bridge.todo)
          /\ PublishReview(t)
       \/ /\ run[t].runtime /\ InPhase(t, {"dispatching", "review"}) = {}
          /\ bridge' = [bridge EXCEPT !.at = "status",
                          !.item = IF InPhase(t, {"queued"}) = {} THEN NoItem ELSE NextQueued(t)]
          /\ UNCHANGED <<task, draft, run, cmds>>
    /\ UNCHANGED <<pi, net, worker, acked, sends>>

ReadStatus(t) ==
    /\ At(t, "status") /\ worker[t] # "absent"
    /\ bridge' = IF bridge.item = NoItem THEN [bridge EXCEPT !.at = "watch", !.status = worker[t]]
                                         ELSE [bridge EXCEPT !.at = "claim"]
    /\ UNCHANGED <<pi, task, draft, run, cmds, net, worker, acked, sends>>

\* MUTANT of StillQueued: the command is claimed by its id alone.
RememberedQueued(t) == TRUE

StillQueued(t) == cmds[t][bridge.item].phase = "queued"

ClaimCommand(t) ==
    /\ At(t, "claim")
    /\ IF StillQueued(t)
       THEN /\ cmds' = [cmds EXCEPT ![t][bridge.item].phase = "dispatching"]
            /\ bridge' = [bridge EXCEPT !.at = "submit"]
       ELSE bridge' = Listed(bridge.todo) /\ UNCHANGED cmds
    /\ UNCHANGED <<pi, task, draft, run, net, worker, acked, sends>>

\* What a status means for the run, and for a task without a travel mandate.
PhaseOf(status) == IF status \in Over THEN "finished" ELSE "attached"
StateOf(status) ==
    CASE status = "done" -> "draft_ready"
      [] status \in {"failed", "cancelled"} -> "failed"
      [] status = "waiting" -> "waiting"
      [] OTHER -> "working"

\* A travel task shows the workflow's snapshot, which may be final or not.
ShownStates(t, status) ==
    IF ~Mandated(t) THEN {StateOf(status)}
    ELSE {"draft_ready", IF PhaseOf(status) = "finished" \/ StateOf(status) = "waiting"
                         THEN "waiting" ELSE "working"}

\* MUTANT of NothingNew: a status is published over a newer instruction.
NothingSent(t) == InPhase(t, {"dispatching"}) = {}

\* "A new instruction may have arrived while status/watch were in flight."
NothingNew(t) == InPhase(t, {"queued", "dispatching"}) = {}

\* The events are saved and the status, read before them, is published.
Publish(t) ==
    /\ At(t, "watch")
    /\ IF NothingNew(t)
       THEN /\ run' = [run EXCEPT ![t].phase = PhaseOf(bridge.status)]
            /\ \E state \in ShownStates(t, bridge.status) : Show(t, state)
       ELSE UNCHANGED <<task, draft, run>>
    /\ bridge' = Listed(bridge.todo)
    /\ UNCHANGED <<pi, cmds, net, worker, acked, sends>>

\* A read fails, or a statement of reconcile(): the next run is visited.
GiveUp(t) ==
    /\ \/ \E step \in {"check", "status", "claim", "watch"} : At(t, step)
       \/ \E step \in {"submit", "await"} : At(t, step) /\ bridge.item # Start
    /\ bridge' = Listed(bridge.todo)
    /\ UNCHANGED <<pi, task, draft, run, cmds, net, worker, acked, sends>>

\* A statement of tick() fails: the tick ends.
Abort ==
    /\ bridge.at # "idle"
    /\ bridge' = Idle
    /\ UNCHANGED <<pi, task, draft, run, cmds, net, worker, acked, sends>>

\* MUTANT of Restart: interrupted commands are queued again.
RestartRetrying ==
    LET lost == {t \in Tasks : run[t].phase = "dispatching"}
    IN  /\ bridge' = Idle
        /\ run' = [t \in Tasks |-> IF t \in lost THEN [run[t] EXCEPT !.phase = "review"] ELSE run[t]]
        /\ cmds' = [t \in Tasks |-> Move(cmds[t], "dispatching", "queued")]
        /\ task' = [t \in Tasks |-> IF run'[t].phase = "review" THEN "waiting" ELSE task[t]]
        /\ draft' = [t \in Tasks |-> "none"]
        /\ UNCHANGED <<pi, net, worker, acked, sends>>

\* The server dies and starts again: recover() runs before anything else.  Drafts
\* die with it, and their tasks ask for attention.
Restart ==
    LET lost == {t \in Tasks : \/ run[t].phase = "dispatching"
                               \/ InPhase(t, {"dispatching"}) # {}}
        state(t) == IF run'[t].phase = "review" THEN "waiting"
                    ELSE IF task[t] = "working" /\ run'[t].phase \in {"none", "finished"}
                         THEN "failed" ELSE task[t]
    IN  /\ bridge' = Idle
        /\ run' = [t \in Tasks |-> IF t \in lost THEN [run[t] EXCEPT !.phase = "review"] ELSE run[t]]
        /\ cmds' = [t \in Tasks |-> Move(cmds[t], "dispatching", "review")]
        /\ task' = [t \in Tasks |-> state(t)]
        /\ draft' = [t \in Tasks |-> "none"]
        /\ UNCHANGED <<pi, net, worker, acked, sends>>
-----------------------------------------------------------------------------
(* The worker.                                                             *)

\* A run in need of help takes no instruction from Pi; a stopped one takes none.
Accepts(t, a) ==
    \/ a = "stop" /\ worker[t] # "absent"
    \/ worker[t] \in {"running", "done", "failed"}
    \/ worker[t] = "waiting" /\ ~pi

StatusAfter(t, a) ==
    CASE a = "stop" -> IF worker[t] = "cancelled" THEN "cancelled" ELSE "stopping"
      [] a = "resume" -> IF worker[t] = "waiting" THEN "running" ELSE worker[t]
      [] OTHER -> "running"

\* A submission reaches the worker, which carries it out or refuses it.
WorkerHandles(t, i) ==
    /\ <<t, i>> \in net
    /\ net' = net \ {<<t, i>>}
    /\ IF i = Start
       THEN /\ worker' = [worker EXCEPT ![t] = IF @ = "absent" THEN "running" ELSE @]
            /\ acked' = acked \union {<<t, i>>}
       ELSE IF Accepts(t, cmds[t][i].action)
            THEN /\ worker' = [worker EXCEPT ![t] = StatusAfter(t, cmds[t][i].action)]
                 /\ acked' = acked \union {<<t, i>>}
            ELSE UNCHANGED <<worker, acked>>
    /\ UNCHANGED <<pi, task, draft, run, cmds, bridge, sends>>

\* The work ends, fails (on the Orb), or needs its owner; a stop is completed.
WorkerMoves(t) ==
    /\ \/ /\ worker[t] = "running"
          /\ \E s \in {"done", "waiting"} \union (IF pi THEN {} ELSE {"failed"}) :
                worker' = [worker EXCEPT ![t] = s]
       \/ worker[t] = "stopping" /\ worker' = [worker EXCEPT ![t] = "cancelled"]
    /\ UNCHANGED <<pi, task, draft, run, cmds, bridge, net, acked, sends>>
-----------------------------------------------------------------------------
Tick(t) ==
    \/ ClaimRun(t) \/ TakeRun(t) \/ Submit(t) \/ Acknowledged(t) \/ Unconfirmed(t)
    \/ CheckRun(t) \/ ReadStatus(t) \/ ClaimCommand(t) \/ Publish(t) \/ GiveUp(t)

BridgeNext ==
    \/ ListRuns \/ Abort \/ Restart
    \/ \E t \in Tasks :
          \/ StartRun(t) \/ StartDraft(t) \/ SaveDraft(t) \/ SaveNotes(t)
          \/ PublishSnapshot(t) \/ Tick(t) \/ WorkerMoves(t)
          \/ \E a \in Actions : Control(t, a)
          \/ \E i \in Items : WorkerHandles(t, i)

BridgeSpec == BridgeInit /\ [][BridgeNext]_bridgeVars

\* A tick is made every two seconds and every call of it ends within 30 s.  Each
\* read and statement may fail, but not for ever.
FairBridgeSpec ==
    /\ BridgeSpec
    /\ WF_bridgeVars(ListRuns)
    /\ \A t \in Tasks :
          /\ WF_bridgeVars(Tick(t))
          /\ SF_bridgeVars(ClaimRun(t)) /\ SF_bridgeVars(TakeRun(t))
          /\ SF_bridgeVars(CheckRun(t)) /\ SF_bridgeVars(ReadStatus(t))
          /\ SF_bridgeVars(ClaimCommand(t)) /\ SF_bridgeVars(Submit(t))
-----------------------------------------------------------------------------
(* Properties.                                                             *)

Awaits == {"check", "submit", "await", "status", "claim", "watch"}
Commands == [action : Actions, phase : CommandPhases]

BridgeTypeOK ==
    /\ pi \in BOOLEAN
    /\ task \in [Tasks -> {"waiting", "working", "draft_ready", "failed"}]
    /\ draft \in [Tasks -> {"none", "writing", "lost", "overtaken"}]
    /\ run \in [Tasks -> [phase : Phases, runtime : BOOLEAN]]
    /\ cmds \in [Tasks -> Seq(Commands)] /\ \A t \in Tasks : Len(cmds[t]) <= MaxCommands
    /\ bridge \in [at : {"idle", "listed"}, todo : SUBSET (Tasks \X {"queued", "attached"})]
            \union [at : Awaits, todo : SUBSET (Tasks \X {"queued", "attached"}), task : Tasks,
                    item : Items \union {NoItem}, status : Statuses]
    /\ net \subseteq Tasks \X Items /\ acked \subseteq Tasks \X Items
    /\ worker \in [Tasks -> Statuses]
    /\ sends \in [Tasks -> [Items -> Nat]]

\* A start or an instruction is submitted at most once, whatever fails and
\* however often the server restarts ("Nothing will be repeated automatically").
NeverRepeated == \A t \in Tasks, i \in Items : sends[t][i] <= 1

\* On a shared workspace at most one run is, or may be, at work.
OneRunPerWorkspace == ~pi => Cardinality(Busy) <= 1

\* A run that counts as finished has nothing at work at the worker and nothing on
\* its way that would start work: deleting the account cannot orphan it.
NoOrphanedWork ==
    \A t \in Tasks : run[t].phase \in {"none", "queued", "finished"} =>
        /\ worker[t] \in Over \union {"absent"}
        /\ \A i \in Items : <<t, i>> \notin net

\* An accepted instruction is not passed over: a finished run has none queued.
NothingPassedOver ==
    \A t \in Tasks : run[t].phase = "finished" => InPhase(t, {"queued", "dispatching"}) = {}

\* The travel ledger's view of the run (ledger.rs:324).
Authority(t) ==
    /\ run[t].phase = "attached"
    /\ \A i \in 1..Len(cmds[t]) :
          cmds[t][i].action = "stop" => cmds[t][i].phase = "discarded"

\* Once a Stop was accepted the run never has authority to book again, although a
\* later Stop discards earlier ones and Continue attaches the run anew.
StopEndsAuthority ==
    \A t \in Tasks : (\E i \in 1..Len(cmds[t]) : cmds[t][i].action = "stop") => ~Authority(t)

\* A task without a mandate says "working" only while its run can be, or while a
\* draft is written (or was and is lost, which a restart corrects): a draft that a
\* continued run has overtaken cannot speak for it.  "Draft ready" and "failed" are
\* said of a run that is over.
TaskTellsTheRun ==
    \A t \in Tasks : ~Mandated(t) =>
        /\ task[t] = "working" => \/ run[t].phase \in {"queued", "dispatching", "attached"}
                                  \/ draft[t] \in {"writing", "lost"}
        /\ task[t] \in {"draft_ready", "failed"} => run[t].phase \in {"none", "finished"}

\* What has become of a submission, as the rows of the run and its command tell.
LetterOf(t, i) ==
    IF i = Start
    THEN CASE run[t].phase = "none" -> "none"
           [] run[t].phase = "queued" -> "kept"
           [] run[t].phase = "dispatching" -> "taken"
           [] OTHER -> IF run[t].runtime THEN "settled"
                       ELSE IF run[t].phase = "review" THEN "doubtful" ELSE "withdrawn"
    ELSE IF i > Len(cmds[t]) THEN "none"
    ELSE CASE cmds[t][i].phase = "queued" -> "kept"
           [] cmds[t][i].phase = "dispatching" -> "taken"
           [] cmds[t][i].phase = "sent" -> "settled"
           [] cmds[t][i].phase = "review" -> "doubtful"
           [] OTHER -> "withdrawn"

Delivery(t) == INSTANCE DeliverOnce WITH
    Last <- MaxCommands,
    letter <- [i \in Items |-> LetterOf(t, i)],
    copies <- sends[t],
    done <- {i \in Items : <<t, i>> \in acked}

\* The owner of a run is promised that its start and instructions are handed over
\* once, in order, and not after they were withdrawn or over one in doubt, and that
\* what counts as delivered was carried out: \A t \in Tasks : Delivery(t)!Spec, in the
\* form TLC takes.
DeliversOnce ==
    /\ \A t \in Tasks : Delivery(t)!Init
    /\ [][\A t \in Tasks : Delivery(t)!Step]_bridgeVars

\* A queued run of a Pi deployment leaves the queue.
QueuedRunIsTaken ==
    \A t \in Tasks : pi /\ run[t].phase = "queued" ~> run[t].phase # "queued"

\* A queued instruction of a started run is submitted or discarded, unless the run
\* needs review.
InstructionIsTaken ==
    \A t \in Tasks, i \in 1..MaxCommands :
        run[t].runtime /\ i \in InPhase(t, {"queued"})
            ~> i \notin InPhase(t, {"queued"}) \/ run[t].phase = "review"

\* docs/burrow.md:534: Stop "requests runtime cancellation".
StopIsRequested ==
    \A t \in Tasks, i \in 1..MaxCommands :
        i \in InPhase(t, {"queued"}) /\ cmds[t][i].action = "stop"
            ~> i \notin InPhase(t, {"queued"})
=============================================================================
