------------------------- MODULE AgentBridge_proofs -------------------------
(***************************************************************************)
(* Nothing is submitted twice, no stopped run gets its authority back, one *)
(* run holds a shared workspace, and a finished run left nothing at work,  *)
(* for any number of tasks and instructions.                               *)
(***************************************************************************)
EXTENDS AgentBridge, FiniteSetTheorems, SequenceTheorems, WellFoundedInduction, TLAPS

---------------------------------------------------------------------------
(* What is known of a run and its commands, whatever the bridge is doing.  *)

\* Only an attached run has a command on its way, only one in review has one in doubt,
\* and a run has none before it is started.
RunOK(t) ==
    /\ run[t].phase \in {"none", "queued", "dispatching"} => cmds[t] = <<>> /\ ~run[t].runtime
    /\ InPhase(t, {"dispatching"}) # {} => run[t].phase = "attached" /\ run[t].runtime
    /\ InPhase(t, {"review"}) # {} => run[t].phase = "review"
    /\ run[t].phase = "finished" => InPhase(t, {"queued"}) = {}

\* The start has not been submitted.
Unstarted(t) ==
    \/ run[t].phase \in {"none", "queued"}
    \/ run[t].phase \in {"attached", "finished"} /\ ~run[t].runtime

\* A start or command is submitted once, when its turn has come, and is then on its way,
\* carried out or lost; what counts as sent was carried out or never needed sending.
SentOK(t) ==
    /\ \A i \in Items : sends[t][i] <= 1
    /\ Unstarted(t) => sends[t][Start] = 0
    /\ \A i \in 1 .. MaxCommands :
        /\ i > Len(cmds[t]) => sends[t][i] = 0
        /\ i \in InPhase(t, {"queued", "discarded"}) => sends[t][i] = 0
        /\ i \in InPhase(t, {"sent"}) => <<t, i>> \in acked \/ sends[t][i] = 0
    /\ \A i \in Items : /\ <<t, i>> \in net \union acked => sends[t][i] = 1
                        /\ <<t, i>> \notin net \/ <<t, i>> \notin acked
    /\ run[t].runtime => <<t, Start>> \in acked

\* The worker knows a run only after its start; a run that is over is over there.
WorkOK(t) ==
    /\ sends[t][Start] = 0 => worker[t] = "absent"
    /\ run[t].phase \in {"none", "queued", "finished"} => worker[t] \in Over \union {"absent"}

\* A later Stop discards an earlier one but stays itself.
StopOK(t) ==
    (\E i \in DOMAIN cmds[t] : cmds[t][i].action = "stop") =>
        \E i \in DOMAIN cmds[t] : cmds[t][i].action = "stop" /\ cmds[t][i].phase # "discarded"

\* A plain task's draft that may still count has the task to itself.
TellOK(t) ==
    ~Mandated(t) =>
        /\ task[t] = "working" => \/ run[t].phase \in {"queued", "dispatching", "attached"}
                                  \/ draft[t] \in {"writing", "lost"}
        /\ task[t] \in {"draft_ready", "failed"} => run[t].phase \in {"none", "finished"}
        /\ draft[t] = "writing" => task[t] = "working" /\ run[t].phase \in {"none", "finished"}

OneOK == ~pi => \A t, u \in Busy : t = u

---------------------------------------------------------------------------
(* What is known of the run the bridge visits, at each of its awaits.      *)

Visiting == bridge.at \in Awaits

\* It stays attached; a claimed one stays claimed; it is visited once.
VisitedRun ==
    /\ \A t \in Tasks : <<t, "attached">> \in bridge.todo => run[t].phase = "attached"
    /\ Visiting =>
        /\ <<bridge.task, "attached">> \notin bridge.todo
        /\ bridge.item = Start => /\ bridge.at \in {"submit", "await"}
                                  /\ run[bridge.task].phase = "dispatching"
        /\ bridge.item # Start => run[bridge.task].phase = "attached"

\* The command in the bridge's hands has its turn and was not submitted.
VisitedCommand ==
    LET t == bridge.task
        i == bridge.item
    IN  /\ bridge.at \in {"submit", "await"} /\ i # Start => i \in InPhase(t, {"dispatching"})
        /\ bridge.at = "submit" => sends[t][i] = 0
        /\ bridge.at = "claim" \/ (bridge.at = "status" /\ i # NoItem) =>
                i \in InPhase(t, {"queued", "discarded"})
        /\ bridge.at \in {"status", "claim", "submit"} /\ i \notin {Start, NoItem} =>
                \A j \in 1 .. Len(cmds[t]) : j < i => cmds[t][j].phase \in {"sent", "discarded"}

\* No command is out while a status is read, and an end that was read is final.
VisitedStatus ==
    Visiting =>
        /\ bridge.at \in {"status", "claim", "watch"} =>
                run[bridge.task].runtime /\ InPhase(bridge.task, {"dispatching", "review"}) = {}
        /\ bridge.at = "watch" /\ bridge.status \in Over => worker[bridge.task] \in Over

BInv ==
    /\ BridgeTypeOK /\ OneOK /\ VisitedRun /\ VisitedCommand /\ VisitedStatus
    /\ \A t \in Tasks : RunOK(t) /\ SentOK(t) /\ WorkOK(t) /\ StopOK(t) /\ TellOK(t)

---------------------------------------------------------------------------
(* What the helpers do to a run's commands.                                *)

LEMMA MoveShape ==
    ASSUME NEW cs \in Seq(Commands), NEW from, NEW to \in CommandPhases
    PROVE  /\ Move(cs, from, to) \in Seq(Commands) /\ Len(Move(cs, from, to)) = Len(cs)
           /\ \A i \in 1 .. Len(cs) :
                /\ Move(cs, from, to)[i].action = cs[i].action
                /\ Move(cs, from, to)[i].phase = IF cs[i].phase = from THEN to ELSE cs[i].phase
<1>1. \A i \in 1 .. Len(cs) : cs[i] \in Commands
  OBVIOUS
<1>2. \A i \in 1 .. Len(cs) :
        /\ Move(cs, from, to)[i] = IF cs[i].phase = from THEN [cs[i] EXCEPT !.phase = to] ELSE cs[i]
        /\ Move(cs, from, to)[i] \in Commands
  BY <1>1 DEF Move, Commands
<1>3. Len(cs) \in Nat /\ DOMAIN Move(cs, from, to) = 1 .. Len(cs)
  BY DEF Move
<1>4. Move(cs, from, to) \in Seq(Commands) /\ Len(Move(cs, from, to)) = Len(cs)
  BY <1>2, <1>3 DEF Move
<1> QED BY <1>1, <1>2, <1>4 DEF Commands

LEMMA PhaseShape ==
    ASSUME NEW cs \in Seq(Commands), NEW n \in 1 .. Len(cs), NEW to \in CommandPhases
    PROVE  /\ [cs EXCEPT ![n].phase = to] \in Seq(Commands)
           /\ Len([cs EXCEPT ![n].phase = to]) = Len(cs)
           /\ \A i \in 1 .. Len(cs) :
                /\ [cs EXCEPT ![n].phase = to][i].action = cs[i].action
                /\ [cs EXCEPT ![n].phase = to][i].phase = IF i = n THEN to ELSE cs[i].phase
<1> DEFINE new == [cs[n] EXCEPT !.phase = to]
<1>0. cs[n] \in Commands
  BY ElementOfSeq
<1>1. new \in Commands /\ new.action = cs[n].action /\ new.phase = to
  BY <1>0 DEF Commands
<1>2. [cs EXCEPT ![n].phase = to] = [cs EXCEPT ![n] = new]
  OBVIOUS
<1> HIDE DEF new
<1>3. [cs EXCEPT ![n] = new] \in Seq(Commands) /\ Len([cs EXCEPT ![n] = new]) = Len(cs)
  BY <1>1, ExceptSeq
<1>4. \A i \in 1 .. Len(cs) : [cs EXCEPT ![n] = new][i] = IF i = n THEN new ELSE cs[i]
  OBVIOUS
<1> QED BY <1>1, <1>2, <1>3, <1>4

LEMMA SavedShape ==
    ASSUME NEW t \in Tasks, cmds[t] \in Seq(Commands), NEW a \in Actions, NEW phase \in CommandPhases
    PROVE  /\ Saved(t, a, phase) \in Seq(Commands) /\ Len(Saved(t, a, phase)) = Len(cmds[t]) + 1
           /\ Saved(t, a, phase)[Len(cmds[t]) + 1] = [action |-> a, phase |-> phase]
           /\ \A i \in 1 .. Len(cmds[t]) :
                /\ Saved(t, a, phase)[i].action = cmds[t][i].action
                /\ Saved(t, a, phase)[i].phase =
                        IF a = "stop" /\ cmds[t][i].phase = "queued" THEN "discarded"
                                                                    ELSE cmds[t][i].phase
<1> DEFINE old == IF a = "stop" THEN Move(cmds[t], "queued", "discarded") ELSE cmds[t]
           new == [action |-> a, phase |-> phase]
<1>1. /\ old \in Seq(Commands) /\ Len(old) = Len(cmds[t])
      /\ \A i \in 1 .. Len(cmds[t]) :
            /\ old[i].action = cmds[t][i].action
            /\ old[i].phase = IF a = "stop" /\ cmds[t][i].phase = "queued" THEN "discarded"
                                                                          ELSE cmds[t][i].phase
  BY MoveShape DEF CommandPhases
<1>2. new \in Commands
  BY DEF Commands
<1>3. Saved(t, a, phase) = Append(old, new)
  BY DEF Saved
<1> HIDE DEF old, new
<1>4. /\ Append(old, new) \in Seq(Commands) /\ Len(Append(old, new)) = Len(cmds[t]) + 1
      /\ Append(old, new)[Len(cmds[t]) + 1] = new
      /\ \A i \in 1 .. Len(cmds[t]) : Append(old, new)[i] = old[i]
  BY <1>1, <1>2
<1> QED BY <1>1, <1>3, <1>4 DEF new

---------------------------------------------------------------------------
(* Types.                                                                  *)

Listings == SUBSET (Tasks \X {"queued", "attached"})
Visits == [at : Awaits, todo : Listings, task : Tasks, item : Items \union {NoItem}, status : Statuses]
Pauses == [at : {"idle", "listed"}, todo : Listings]

LEMMA Submissions == Start \in Items /\ NoItem \notin Items /\ 1 .. MaxCommands \subseteq Items /\ Start # NoItem
                     /\ \A i \in Items : i # Start => i \in 1 .. MaxCommands
  BY BridgeAssumption DEF Start, Items, NoItem

LEMMA BridgeShapes ==
    /\ Idle \in Pauses
    /\ \A todo \in Listings : Listed(todo) \in Pauses
    /\ \A todo \in Listings, t \in Tasks, at \in Awaits :
        /\ Visit(t, at, todo) \in Visits
        /\ [Visit(t, at, todo) EXCEPT !.item = Start] \in Visits
<1>1. Idle \in Pauses /\ \A todo \in Listings : Listed(todo) \in Pauses
  BY DEF Idle, Pauses, Listed, Listings
<1>2. ASSUME NEW todo \in Listings, NEW t \in Tasks, NEW at \in Awaits
      PROVE  /\ Visit(t, at, todo) \in Visits
             /\ [Visit(t, at, todo) EXCEPT !.item = Start] \in Visits
  BY <1>2, Submissions DEF Visit, Visits, Statuses
<1> QED BY <1>1, <1>2

\* The await the bridge stands at is the one its action names.
LEMMA AtVisits ==
    ASSUME BridgeTypeOK
    PROVE  /\ bridge \in Pauses \union Visits /\ bridge.todo \in Listings
           /\ Visiting <=> bridge \in Visits
           /\ \A t : \A at \in Awaits : At(t, at) => Visiting
           /\ \A at \in Awaits : Visiting => [bridge EXCEPT !.at = at] \in Visits
<1>1. bridge \in Pauses \union Visits /\ bridge.todo \in Listings
  BY DEF BridgeTypeOK, Pauses, Visits, Listings
<1>2. Visiting <=> bridge \in Visits
  BY <1>1 DEF Visits, Pauses, Visiting, Awaits
<1>3. ASSUME NEW t, NEW at \in Awaits, At(t, at)
      PROVE  Visiting
  BY <1>3 DEF At, Visiting
<1>4. ASSUME Visiting, NEW at \in Awaits
      PROVE  [bridge EXCEPT !.at = at] \in Visits
  BY <1>4, <1>2 DEF Visits
<1> QED BY <1>1, <1>2, <1>3, <1>4

LEMMA Smallest ==
    ASSUME NEW T, T \subseteq Nat, T # {}
    PROVE  \E x \in T : \A y \in T : x <= y
<1> DEFINE R == OpToRel(<, Nat)
<1>1. IsWellFoundedOn(R, Nat)
  BY NatLessThanWellFounded
<1>2. \A x, y \in Nat : x < y => <<x, y>> \in R
  BY DEF OpToRel
<1> HIDE DEF R
<1>3. PICK x \in T : \A y \in T : ~ (<<y, x>> \in R)
  BY <1>1, WFMin
<1>4. ASSUME NEW y \in T PROVE x <= y
  <2>1. x \in Nat /\ y \in Nat /\ ~(y < x)
    BY <1>2, <1>3
  <2> QED BY <2>1
<1> QED BY <1>4

LEMMA NextIsFirst ==
    ASSUME BridgeTypeOK, NEW t \in Tasks, InPhase(t, {"queued"}) # {}
    PROVE  /\ NextQueued(t) \in InPhase(t, {"queued"}) /\ NextQueued(t) \in 1 .. MaxCommands
           /\ \A j \in InPhase(t, {"queued"}) : NextQueued(t) <= j
<1>1. Len(cmds[t]) \in Nat /\ Len(cmds[t]) <= MaxCommands /\ MaxCommands \in Nat
  BY BridgeAssumption DEF BridgeTypeOK
<1>2. InPhase(t, {"queued"}) \subseteq 1 .. MaxCommands
  BY <1>1 DEF InPhase
<1>3. \E x \in InPhase(t, {"queued"}) : \A y \in InPhase(t, {"queued"}) : x <= y
  BY <1>1, <1>2, Smallest
<1> QED BY <1>2, <1>3 DEF NextQueued

LEMMA BridgeSteps ==
    ASSUME BridgeTypeOK, BridgeNext
    PROVE  (bridge \in Pauses \union Visits)'
<1>0. bridge \in Pauses \union Visits /\ bridge.todo \in Listings
  BY AtVisits
<1>1. CASE UNCHANGED bridge
  BY <1>0, <1>1
<1>2. CASE bridge' = Idle
  BY <1>2, BridgeShapes
<1>3. CASE ListRuns
  BY <1>3, BridgeShapes DEF ListRuns, Listings, Listable
<1>4. \A t \in Tasks : bridge.todo \ {<<t, "queued">>} \in Listings /\ bridge.todo \ {<<t, "attached">>} \in Listings
  BY <1>0 DEF Listings
<1>5. CASE \E t \in Tasks : ClaimRun(t) \/ TakeRun(t)
  <2>1. PICK t \in Tasks : ClaimRun(t) \/ TakeRun(t)
    BY <1>5
  <2>2. \/ bridge' = [Visit(t, "submit", bridge.todo \ {<<t, "queued">>}) EXCEPT !.item = Start]
        \/ bridge' = Visit(t, "check", bridge.todo \ {<<t, "attached">>})
        \/ bridge' = Listed(bridge.todo \ {<<t, "queued">>})
    BY <2>1 DEF ClaimRun, TakeRun
  <2>3. "submit" \in Awaits /\ "check" \in Awaits
    BY DEF Awaits
  <2>4. bridge.todo \ {<<t, "queued">>} \in Listings /\ bridge.todo \ {<<t, "attached">>} \in Listings
    BY <1>4
  <2>5. /\ [Visit(t, "submit", bridge.todo \ {<<t, "queued">>}) EXCEPT !.item = Start] \in Visits
        /\ Visit(t, "check", bridge.todo \ {<<t, "attached">>}) \in Visits
        /\ Listed(bridge.todo \ {<<t, "queued">>}) \in Pauses
    BY <2>3, <2>4, BridgeShapes
  <2> QED BY <2>2, <2>5
<1>6. CASE bridge' = Listed(bridge.todo)
  BY <1>0, <1>6, BridgeShapes
<1>7. CASE \E t \in Tasks : Submit(t) \/ ClaimCommand(t)
  BY <1>6, <1>7, AtVisits DEF Submit, ClaimCommand, Awaits, At, Visiting
<1>8. CASE \E t \in Tasks : Acknowledged(t)
  BY <1>0, <1>8, BridgeShapes DEF Acknowledged, Awaits
<1>9. CASE \E t \in Tasks : CheckRun(t)
  <2>1. SUFFICES ASSUME NEW t \in Tasks, At(t, "check"), NEW item \in Items \union {NoItem},
                        bridge' = [bridge EXCEPT !.at = "status", !.item = item]
                 PROVE  bridge' \in Visits
    BY <1>6, <1>9, NextIsFirst, Submissions DEF CheckRun
  <2> QED BY <2>1, AtVisits DEF Visits, Awaits
<1>10. CASE \E t \in Tasks : ReadStatus(t)
  <2>1. PICK t \in Tasks : At(t, "status") /\ worker[t] \in Statuses /\ ReadStatus(t)
    BY <1>10 DEF ReadStatus, BridgeTypeOK
  <2>2. bridge \in Visits
    BY <2>1, AtVisits DEF Awaits
  <2> QED BY <2>1, <2>2 DEF Visits, Awaits, ReadStatus
<1> QED
  BY <1>1, <1>2, <1>3, <1>5, <1>6, <1>7, <1>8, <1>9, <1>10
     DEF BridgeNext, Tick, StartRun, StartDraft, SaveDraft, SaveNotes, PublishSnapshot, Control,
         Unconfirmed, Publish, GiveUp, Abort, Restart, WorkerHandles, WorkerMoves

\* The commands keep their types; what happens to them, position by position.
LEMMA CommandSteps ==
    ASSUME BridgeTypeOK, VisitedCommand, BridgeNext
    PROVE  cmds' \in [Tasks -> Seq(Commands)] /\ \A t \in Tasks : Len(cmds'[t]) <= MaxCommands
<1>0. /\ cmds \in [Tasks -> Seq(Commands)] /\ \A t \in Tasks : Len(cmds[t]) <= MaxCommands
      /\ CommandPhases = {"queued", "dispatching", "sent", "review", "discarded"}
  BY DEF BridgeTypeOK, CommandPhases
<1>1. CASE UNCHANGED cmds
  BY <1>0, <1>1
<1>2. CASE \E t \in Tasks, a \in Actions : Control(t, a)
  <2>1. PICK t \in Tasks, a \in Actions : Control(t, a)
    BY <1>2
  <2>2. PICK phase \in CommandPhases : cmds' = [cmds EXCEPT ![t] = Saved(t, a, phase)]
    BY <1>0, <2>1 DEF Control
  <2>3. Len(cmds[t]) + 1 <= MaxCommands
    BY <2>1, <1>0, BridgeAssumption DEF Control, RoomFor
  <2>4. Saved(t, a, phase) \in Seq(Commands) /\ Len(Saved(t, a, phase)) <= MaxCommands
    BY <1>0, <2>3, SavedShape
  <2> QED BY <1>0, <2>2, <2>4
<1>3. CASE \E t \in Tasks : cmds' = [cmds EXCEPT ![t] = Move(@, "dispatching", "review")]
  BY <1>0, <1>3, MoveShape
<1>4. CASE cmds' = [t \in Tasks |-> Move(cmds[t], "dispatching", "review")]
  BY <1>0, <1>4, MoveShape
<1>5. ASSUME NEW t \in Tasks, NEW i \in 1 .. Len(cmds[t]), NEW phase \in CommandPhases,
             cmds' = [cmds EXCEPT ![t][i].phase = phase]
      PROVE  cmds' \in [Tasks -> Seq(Commands)] /\ \A u \in Tasks : Len(cmds'[u]) <= MaxCommands
  <2>1. cmds'[t] = [cmds[t] EXCEPT ![i].phase = phase]
    BY <1>0, <1>5
  <2>2. \A u \in Tasks \ {t} : cmds'[u] = cmds[u]
    BY <1>0, <1>5
  <2>3. cmds[t] \in Seq(Commands)
    BY <1>0
  <2>4. cmds'[t] \in Seq(Commands) /\ Len(cmds'[t]) = Len(cmds[t])
    BY ONLY <2>1, <2>3, i \in 1 .. Len(cmds[t]), phase \in CommandPhases, PhaseShape
  <2> QED BY <1>0, <1>5, <2>2, <2>4
<1>6. CASE \E t \in Tasks : Acknowledged(t) \/ ClaimCommand(t)
  <2>1. PICK t \in Tasks : Acknowledged(t) \/ ClaimCommand(t)
    BY <1>6
  <2>2. UNCHANGED cmds \/ \E phase \in CommandPhases : cmds' = [cmds EXCEPT ![t][bridge.item].phase = phase]
    BY <1>0, <2>1 DEF Acknowledged, ClaimCommand
  <2>3. ~UNCHANGED cmds => bridge.item \in 1 .. Len(cmds[t])
    BY <2>1 DEF Acknowledged, ClaimCommand, At, VisitedCommand, InPhase
  <2> QED BY <1>1, <1>5, <2>2, <2>3
<1> QED
  BY <1>1, <1>2, <1>3, <1>4, <1>6
     DEF BridgeNext, Tick, StartRun, StartDraft, SaveDraft, SaveNotes, PublishSnapshot,
         ListRuns, ClaimRun, TakeRun, Submit, Unconfirmed, CheckRun, ReadStatus, Publish,
         PublishReview, GiveUp, Abort, Restart, WorkerHandles, WorkerMoves

LEMMA SubmittedItem ==
    ASSUME BridgeTypeOK, VisitedCommand, NEW t \in Tasks, At(t, "submit")
    PROVE  bridge.item \in Items
<1>1. bridge.item # Start => bridge.item \in 1 .. Len(cmds[t]) /\ Len(cmds[t]) <= MaxCommands
  BY DEF At, VisitedCommand, InPhase, BridgeTypeOK
<1>2. Len(cmds[t]) \in Nat /\ MaxCommands \in Nat
  BY BridgeAssumption DEF BridgeTypeOK
<1> QED BY <1>1, <1>2, Submissions

LEMMA TypeSteps ==
    ASSUME BridgeTypeOK, VisitedCommand, BridgeNext
    PROVE  BridgeTypeOK'
<1>1. bridge' \in Pauses \union Visits
  BY BridgeSteps
<1>2. bridge' \in [at : {"idle", "listed"}, todo : SUBSET (Tasks \X {"queued", "attached"})]
            \union [at : Awaits, todo : SUBSET (Tasks \X {"queued", "attached"}), task : Tasks,
                    item : Items \union {NoItem}, status : Statuses]
  BY <1>1 DEF Pauses, Visits, Listings
<1>3. cmds' \in [Tasks -> Seq(Commands)] /\ \A t \in Tasks : Len(cmds'[t]) <= MaxCommands
  BY CommandSteps
<1>4. pi' \in BOOLEAN /\ run' \in [Tasks -> [phase : Phases, runtime : BOOLEAN]]
  <2>0. pi \in BOOLEAN /\ run \in [Tasks -> [phase : Phases, runtime : BOOLEAN]] /\ UNCHANGED pi
    BY DEF BridgeTypeOK, BridgeNext, Tick, StartRun, StartDraft, SaveDraft, SaveNotes,
         PublishSnapshot, Control, ListRuns, ClaimRun, TakeRun, Submit, Acknowledged, Unconfirmed,
         CheckRun, ReadStatus, ClaimCommand, Publish, GiveUp, Abort, Restart, WorkerHandles,
         WorkerMoves
  <2>1. CASE UNCHANGED run
    BY <2>0, <2>1
  <2>2. CASE \E t \in Tasks, phase \in Phases : run' = [run EXCEPT ![t].phase = phase]
    BY <2>0, <2>2
  <2>3. CASE \E t \in Tasks : Acknowledged(t)
    <3>1. PICK t \in Tasks : \/ run' = [run EXCEPT ![t] = [phase |-> "attached", runtime |-> TRUE]]
                             \/ UNCHANGED run
      BY <2>3 DEF Acknowledged
    <3>2. [phase |-> "attached", runtime |-> TRUE] \in [phase : Phases, runtime : BOOLEAN]
      BY DEF Phases
    <3> QED BY <2>0, <2>1, <3>1, <3>2
  <2>4. CASE Restart
    BY <2>0, <2>4 DEF Restart, Phases
  <2>5. CASE \E t \in Tasks : StartRun(t) \/ ClaimRun(t) \/ \E a \in Actions : Control(t, a)
    BY <2>1, <2>2, <2>5 DEF StartRun, ClaimRun, Control, Phases
  <2>6. CASE \E t \in Tasks : Unconfirmed(t) \/ CheckRun(t) \/ Publish(t)
    BY <2>1, <2>2, <2>6 DEF Unconfirmed, PublishReview, CheckRun, Publish, PhaseOf, Phases
  <2> QED
    BY <2>1, <2>3, <2>4, <2>5, <2>6 DEF BridgeNext, Tick, StartDraft, SaveDraft, SaveNotes,
         PublishSnapshot, ListRuns, TakeRun, Submit, ReadStatus, ClaimCommand, GiveUp, Abort,
         WorkerHandles, WorkerMoves
<1>5. /\ task' \in [Tasks -> {"waiting", "working", "draft_ready", "failed"}]
      /\ draft' \in [Tasks -> {"none", "writing", "lost", "overtaken"}]
  <2> DEFINE States == {"waiting", "working", "draft_ready", "failed"}
             Drafts == {"none", "writing", "lost", "overtaken"}
  <2>0. task \in [Tasks -> States] /\ draft \in [Tasks -> Drafts]
    BY DEF BridgeTypeOK
  <2>1. CASE UNCHANGED <<task, draft>>
    BY <2>0, <2>1
  <2>2. ASSUME NEW t \in Tasks, NEW state \in States, Show(t, state)
        PROVE  task' \in [Tasks -> States] /\ draft' \in [Tasks -> Drafts]
    BY <2>0, <2>2 DEF Show, Overtake
  <2>3. CASE \E t \in Tasks : StartRun(t) \/ StartDraft(t) \/ SaveDraft(t) \/ SaveNotes(t)
    BY <2>0, <2>3 DEF StartRun, StartDraft, SaveDraft, SaveNotes
  <2>4. CASE \E t \in Tasks, a \in Actions : Control(t, a)
    BY <2>0, <2>4 DEF Control, Overtake
  <2>5. CASE \E t \in Tasks : PublishSnapshot(t) \/ Unconfirmed(t) \/ CheckRun(t)
    BY <2>1, <2>2, <2>5 DEF PublishSnapshot, Unconfirmed, CheckRun, PublishReview
  <2>6. CASE \E t \in Tasks : Publish(t)
    <3>1. \A t \in Tasks : \A status : ShownStates(t, status) \subseteq States
      BY DEF ShownStates, StateOf
    <3> QED BY <2>1, <2>2, <2>6, <3>1 DEF Publish
  <2>7. CASE Restart
    BY <2>0, <2>7 DEF Restart
  <2> QED
    BY <2>1, <2>3, <2>4, <2>5, <2>6, <2>7 DEF BridgeNext, Tick, ListRuns, ClaimRun, TakeRun,
         Submit, Acknowledged, ReadStatus, ClaimCommand, GiveUp, Abort, WorkerHandles, WorkerMoves
<1>6. net' \subseteq Tasks \X Items /\ acked' \subseteq Tasks \X Items
  <2>1. CASE UNCHANGED <<net, acked>>
    BY <2>1 DEF BridgeTypeOK
  <2>2. CASE \E t \in Tasks : Submit(t)
    <3>1. PICK t \in Tasks : At(t, "submit") /\ Submit(t)
      BY <2>2 DEF Submit
    <3>2. bridge.item \in Items
      BY <3>1, SubmittedItem
    <3> QED BY <3>1, <3>2 DEF Submit, BridgeTypeOK
  <2>3. CASE \E t \in Tasks, i \in Items : WorkerHandles(t, i)
    BY <2>3 DEF WorkerHandles, BridgeTypeOK
  <2> QED
    BY <2>1, <2>2, <2>3 DEF BridgeNext, Tick, StartRun, StartDraft, SaveDraft, SaveNotes,
         PublishSnapshot, Control, ListRuns, ClaimRun, TakeRun, Acknowledged, Unconfirmed,
         CheckRun, ReadStatus, ClaimCommand, Publish, GiveUp, Abort, Restart, WorkerMoves
<1>7. worker' \in [Tasks -> Statuses]
  <2>0. worker \in [Tasks -> Statuses]
    BY DEF BridgeTypeOK
  <2>1. CASE UNCHANGED worker
    BY <2>0, <2>1
  <2>2. CASE \E t \in Tasks, i \in Items : WorkerHandles(t, i)
    BY <2>0, <2>2 DEF WorkerHandles, StatusAfter, Statuses
  <2>3. CASE \E t \in Tasks : WorkerMoves(t)
    BY <2>0, <2>3 DEF WorkerMoves, Statuses
  <2> QED
    BY <2>1, <2>2, <2>3 DEF BridgeNext, Tick, StartRun, StartDraft, SaveDraft,
         SaveNotes, PublishSnapshot, Control, ListRuns, ClaimRun, TakeRun, Submit, Acknowledged,
         Unconfirmed, CheckRun, ReadStatus, ClaimCommand, Publish, GiveUp, Abort, Restart
<1>8. sends' \in [Tasks -> [Items -> Nat]]
  <2>0. sends \in [Tasks -> [Items -> Nat]]
    BY DEF BridgeTypeOK
  <2>1. CASE UNCHANGED sends
    BY <2>0, <2>1
  <2>2. CASE \E t \in Tasks : Submit(t)
    <3>1. PICK t \in Tasks, i \in Items : sends' = [sends EXCEPT ![t][i] = @ + 1]
      BY <2>2, SubmittedItem DEF Submit
    <3>2. sends[t] \in [Items -> Nat]
      BY <2>0
    <3>3. [sends[t] EXCEPT ![i] = @ + 1] \in [Items -> Nat]
      BY <3>2
    <3> QED BY <2>0, <3>1, <3>3
  <2> QED
    BY <2>1, <2>2 DEF BridgeNext, Tick, StartRun, StartDraft, SaveDraft, SaveNotes,
         PublishSnapshot, Control, ListRuns, ClaimRun, TakeRun, Acknowledged, Unconfirmed,
         CheckRun, ReadStatus, ClaimCommand, Publish, GiveUp, Abort, Restart, WorkerHandles,
         WorkerMoves
<1> QED BY <1>2, <1>3, <1>4, <1>5, <1>6, <1>7, <1>8 DEF BridgeTypeOK

---------------------------------------------------------------------------
(* Runs and their commands.                                                *)

Kept(t) == run'[t] = run[t] /\ cmds'[t] = cmds[t]

\* The steps that change a run or its commands.
LEMMA RunSteps ==
    ASSUME BridgeTypeOK, BridgeNext, NEW t \in Tasks
    PROVE  \/ Kept(t) \/ StartRun(t) \/ \E a \in Actions : Control(t, a)
           \/ ClaimRun(t) \/ Acknowledged(t) \/ Unconfirmed(t) \/ CheckRun(t)
           \/ ClaimCommand(t) \/ Publish(t) \/ Restart
<1>0. cmds \in [Tasks -> Seq(Commands)] /\ run \in [Tasks -> [phase : Phases, runtime : BOOLEAN]]
  BY DEF BridgeTypeOK
<1>1. CASE UNCHANGED <<run, cmds>>
  BY <1>1 DEF Kept
<1>2. CASE \E u \in Tasks : StartRun(u) \/ ClaimRun(u) \/ Publish(u)
  BY <1>0, <1>2 DEF Kept, StartRun, ClaimRun, Publish
<1>4. CASE \E u \in Tasks, a \in Actions : Control(u, a)
  <2>1. PICK u \in Tasks, a \in Actions : Control(u, a)
    BY <1>4
  <2>2. CASE u = t
    BY <2>1, <2>2
  <2>3. CASE u # t
    BY <1>0, <2>1, <2>3 DEF Kept, Control
  <2> QED BY <2>2, <2>3
<1>3. CASE \E u \in Tasks : \/ Acknowledged(u) \/ Unconfirmed(u) \/ CheckRun(u) \/ ClaimCommand(u)
  <2>1. PICK u \in Tasks : Acknowledged(u) \/ Unconfirmed(u) \/ CheckRun(u) \/ ClaimCommand(u)
    BY <1>3
  <2>2. CASE u = t
    BY <2>1, <2>2
  <2>3. CASE u # t
    <3>1. run'[t] = run[t]
      BY <1>0, <2>1, <2>3 DEF Acknowledged, Unconfirmed, PublishReview, CheckRun, ClaimCommand
    <3>2. cmds'[t] = cmds[t]
      BY <1>0, <2>1, <2>3 DEF Acknowledged, Unconfirmed, PublishReview, CheckRun, ClaimCommand
    <3> QED BY <3>1, <3>2 DEF Kept
  <2> QED BY <2>2, <2>3
<1> QED
  BY <1>1, <1>2, <1>3, <1>4 DEF BridgeNext, Tick, StartDraft, SaveDraft, SaveNotes, PublishSnapshot,
         ListRuns, TakeRun, Submit, ReadStatus, GiveUp, Abort, WorkerHandles, WorkerMoves

\* What becomes of a run and its commands, position by position, in each of these steps.
Recorded(t, a, phase) ==
    /\ Len(cmds'[t]) = Len(cmds[t]) + 1
    /\ cmds'[t][Len(cmds[t]) + 1] = [action |-> a, phase |-> phase]
    /\ \A i \in 1 .. Len(cmds[t]) :
        /\ cmds'[t][i].action = cmds[t][i].action
        /\ cmds'[t][i].phase = IF a = "stop" /\ cmds[t][i].phase = "queued" THEN "discarded"
                                                                           ELSE cmds[t][i].phase

Doubted(t) ==
    /\ run'[t].phase = "review" /\ run'[t].runtime = run[t].runtime
    /\ Len(cmds'[t]) = Len(cmds[t])
    /\ \A i \in 1 .. Len(cmds[t]) :
        /\ cmds'[t][i].action = cmds[t][i].action
        /\ cmds'[t][i].phase = IF cmds[t][i].phase = "dispatching" THEN "review" ELSE cmds[t][i].phase

Advanced(t, n, phase) ==
    /\ run'[t] = run[t] /\ Len(cmds'[t]) = Len(cmds[t])
    /\ \A i \in 1 .. Len(cmds[t]) :
        /\ cmds'[t][i].action = cmds[t][i].action
        /\ cmds'[t][i].phase = IF i = n THEN phase ELSE cmds[t][i].phase

LEMMA ControlShape ==
    ASSUME BridgeTypeOK, NEW t \in Tasks, NEW a \in Actions, Control(t, a)
    PROVE  /\ run'[t].runtime = run[t].runtime
           /\ \/ /\ run[t].phase = "queued" /\ run'[t].phase = "finished"
                 /\ Recorded(t, a, "sent")
              \/ /\ run[t].phase \in {"attached", "finished"} /\ run'[t].phase = "attached"
                 /\ Recorded(t, a, "queued")
<1>1. cmds \in [Tasks -> Seq(Commands)] /\ run \in [Tasks -> [phase : Phases, runtime : BOOLEAN]]
  BY DEF BridgeTypeOK
<1>2. cmds[t] \in Seq(Commands)
  BY <1>1
<1>3. ASSUME NEW phase \in CommandPhases, cmds'[t] = Saved(t, a, phase)
      PROVE  Recorded(t, a, phase)
  BY <1>2, <1>3, SavedShape DEF Recorded
<1>4. CASE run[t].phase = "queued"
  <2>1. cmds'[t] = Saved(t, a, "sent") /\ run'[t].phase = "finished" /\ run'[t].runtime = run[t].runtime
    BY <1>1, <1>4 DEF Control
  <2> QED BY <1>3, <1>4, <2>1 DEF CommandPhases
<1>5. CASE run[t].phase # "queued"
  <2>1. cmds'[t] = Saved(t, a, "queued") /\ run'[t].phase = "attached" /\ run'[t].runtime = run[t].runtime
    BY <1>1, <1>5 DEF Control
  <2>2. run[t].phase \in {"attached", "finished"}
    BY <1>5 DEF Control, Admits
  <2> QED BY <1>3, <2>1, <2>2 DEF CommandPhases
<1> QED BY <1>4, <1>5

LEMMA ReviewShape ==
    ASSUME BridgeTypeOK, NEW t \in Tasks, PublishReview(t)
    PROVE  Doubted(t)
<1>1. cmds[t] \in Seq(Commands) /\ cmds'[t] = Move(cmds[t], "dispatching", "review")
  BY DEF BridgeTypeOK, PublishReview
<1>2. run'[t].phase = "review" /\ run'[t].runtime = run[t].runtime
  BY DEF BridgeTypeOK, PublishReview
<1> QED BY <1>1, <1>2, MoveShape DEF Doubted, CommandPhases

LEMMA RestartShape ==
    ASSUME BridgeTypeOK, NEW t \in Tasks, Restart
    PROVE  \/ /\ run[t].phase = "dispatching" \/ InPhase(t, {"dispatching"}) # {}
              /\ Doubted(t)
           \/ /\ run[t].phase # "dispatching" /\ InPhase(t, {"dispatching"}) = {}
              /\ Kept(t)
<1>1. cmds[t] \in Seq(Commands) /\ cmds'[t] = Move(cmds[t], "dispatching", "review")
  BY DEF BridgeTypeOK, Restart
<1>2. /\ cmds'[t] \in Seq(Commands) /\ Len(cmds'[t]) = Len(cmds[t])
      /\ \A i \in 1 .. Len(cmds[t]) :
        /\ cmds'[t][i].action = cmds[t][i].action
        /\ cmds'[t][i].phase = IF cmds[t][i].phase = "dispatching" THEN "review" ELSE cmds[t][i].phase
  BY <1>1, MoveShape DEF CommandPhases
<1>3. CASE run[t].phase = "dispatching" \/ InPhase(t, {"dispatching"}) # {}
  <2>1. run'[t].phase = "review" /\ run'[t].runtime = run[t].runtime
    BY <1>3 DEF BridgeTypeOK, Restart
  <2> QED BY <1>2, <1>3, <2>1 DEF Doubted
<1>4. CASE run[t].phase # "dispatching" /\ InPhase(t, {"dispatching"}) = {}
  <2>1. run'[t] = run[t]
    BY <1>4 DEF Restart
  <2>2. \A i \in 1 .. Len(cmds[t]) : cmds'[t][i] = cmds[t][i]
    BY <1>1, <1>4 DEF Move, InPhase
  <2>3. cmds'[t] = cmds[t]
    BY <1>1, <1>2, <2>2, SeqEqual
  <2> QED BY <1>4, <2>1, <2>3 DEF Kept
<1> QED BY <1>3, <1>4

LEMMA PhaseStepShape ==
    ASSUME BridgeTypeOK, NEW t \in Tasks, NEW n \in 1 .. Len(cmds[t]), NEW to \in CommandPhases,
           cmds' = [cmds EXCEPT ![t][n].phase = to], run'[t] = run[t]
    PROVE  Advanced(t, n, to)
<1>1. cmds[t] \in Seq(Commands) /\ cmds'[t] = [cmds[t] EXCEPT ![n].phase = to]
  BY DEF BridgeTypeOK
<1>2. /\ Len(cmds'[t]) = Len(cmds[t])
      /\ \A i \in 1 .. Len(cmds[t]) :
            /\ cmds'[t][i].action = cmds[t][i].action
            /\ cmds'[t][i].phase = IF i = n THEN to ELSE cmds[t][i].phase
  BY ONLY <1>1, n \in 1 .. Len(cmds[t]), to \in CommandPhases, PhaseShape
<1> QED BY <1>2 DEF Advanced

\* The bridge's steps on the run it visits.
LEMMA VisitShape ==
    ASSUME BridgeTypeOK, VisitedRun, VisitedCommand, NEW t \in Tasks
    PROVE  /\ Acknowledged(t) =>
                /\ Visiting /\ bridge.task = t /\ <<t, bridge.item>> \in acked
                /\ \/ /\ bridge.item = Start /\ run[t].phase = "dispatching"
                      /\ run'[t] = [phase |-> "attached", runtime |-> TRUE] /\ cmds'[t] = cmds[t]
                   \/ /\ bridge.item # Start /\ run[t].phase = "attached"
                      /\ bridge.item \in InPhase(t, {"dispatching"})
                      /\ Advanced(t, bridge.item, "sent")
           /\ Unconfirmed(t) => Visiting /\ bridge.task = t /\ Doubted(t)
                                /\ run[t].phase \in {"dispatching", "attached"}
           /\ CheckRun(t) =>
                /\ Visiting /\ bridge.task = t /\ run[t].phase = "attached"
                /\ Kept(t) \/ (run[t].runtime /\ Doubted(t))
           /\ ClaimCommand(t) =>
                /\ Visiting /\ bridge.task = t /\ run[t].phase = "attached"
                /\ Kept(t) \/ (StillQueued(t) /\ Advanced(t, bridge.item, "dispatching"))
           /\ Publish(t) =>
                /\ Visiting /\ bridge.task = t /\ run[t].phase = "attached" /\ cmds'[t] = cmds[t]
                /\ \/ run'[t] = run[t]
                   \/ /\ NothingNew(t) /\ run'[t].runtime = run[t].runtime
                      /\ run'[t].phase = PhaseOf(bridge.status)
<1>0. /\ cmds \in [Tasks -> Seq(Commands)] /\ run \in [Tasks -> [phase : Phases, runtime : BOOLEAN]]
      /\ "dispatching" \in CommandPhases /\ "sent" \in CommandPhases
  BY DEF BridgeTypeOK, CommandPhases
<1>1. ASSUME NEW at \in Awaits, At(t, at)
      PROVE  /\ Visiting /\ bridge.task = t /\ bridge.at = at
             /\ bridge.item = Start => at \in {"submit", "await"} /\ run[t].phase = "dispatching"
             /\ bridge.item # Start => run[t].phase = "attached"
  BY <1>1 DEF At, Visiting, VisitedRun
<1>2. ASSUME Acknowledged(t)
      PROVE  /\ Visiting /\ bridge.task = t /\ <<t, bridge.item>> \in acked
             /\ \/ /\ bridge.item = Start /\ run[t].phase = "dispatching"
                   /\ run'[t] = [phase |-> "attached", runtime |-> TRUE] /\ cmds'[t] = cmds[t]
                \/ /\ bridge.item # Start /\ run[t].phase = "attached"
                   /\ bridge.item \in InPhase(t, {"dispatching"})
                   /\ Advanced(t, bridge.item, "sent")
  <2>1. At(t, "await") /\ <<t, bridge.item>> \in acked
    BY <1>2 DEF Acknowledged
  <2>2. CASE bridge.item = Start
    BY <1>0, <1>1, <1>2, <2>1, <2>2 DEF Acknowledged, Awaits
  <2>3. CASE bridge.item # Start
    <3>1. bridge.item \in InPhase(t, {"dispatching"}) /\ bridge.item \in 1 .. Len(cmds[t])
      BY <2>1, <2>3 DEF VisitedCommand, At, InPhase
    <3>2. cmds' = [cmds EXCEPT ![t][bridge.item].phase = "sent"] /\ run'[t] = run[t]
      BY <1>2, <2>3 DEF Acknowledged
    <3> QED BY <1>0, <1>1, <2>1, <2>3, <3>1, <3>2, PhaseStepShape DEF Awaits
  <2> QED BY <2>2, <2>3
<1>3. ASSUME Unconfirmed(t)
      PROVE  /\ Visiting /\ bridge.task = t /\ Doubted(t)
             /\ run[t].phase \in {"dispatching", "attached"}
  BY <1>1, <1>3, ReviewShape DEF Unconfirmed, Awaits
<1>4. ASSUME CheckRun(t)
      PROVE  /\ Visiting /\ bridge.task = t /\ run[t].phase = "attached"
             /\ Kept(t) \/ (run[t].runtime /\ Doubted(t))
  BY <1>1, <1>4, ReviewShape DEF CheckRun, Awaits, Kept
<1>5. ASSUME ClaimCommand(t)
      PROVE  /\ Visiting /\ bridge.task = t /\ run[t].phase = "attached"
             /\ Kept(t) \/ (StillQueued(t) /\ Advanced(t, bridge.item, "dispatching"))
  <2>1. At(t, "claim")
    BY <1>5 DEF ClaimCommand
  <2>2. bridge.item \in 1 .. Len(cmds[t])
    BY <2>1 DEF VisitedCommand, At, InPhase
  <2>3. \/ Kept(t)
        \/ StillQueued(t) /\ cmds' = [cmds EXCEPT ![t][bridge.item].phase = "dispatching"] /\ run'[t] = run[t]
    BY <1>5 DEF ClaimCommand, Kept
  <2> QED BY <1>0, <1>1, <2>1, <2>2, <2>3, PhaseStepShape DEF Awaits
<1>6. ASSUME Publish(t)
      PROVE  /\ Visiting /\ bridge.task = t /\ run[t].phase = "attached" /\ cmds'[t] = cmds[t]
             /\ \/ run'[t] = run[t]
                \/ /\ NothingNew(t) /\ run'[t].runtime = run[t].runtime
                   /\ run'[t].phase = PhaseOf(bridge.status)
  BY <1>0, <1>1, <1>6 DEF Publish, Awaits
<1> QED BY <1>2, <1>3, <1>4, <1>5, <1>6

LEMMA RunOKSteps ==
    ASSUME BridgeTypeOK, VisitedRun, VisitedCommand, VisitedStatus, BridgeNext,
           NEW t \in Tasks, RunOK(t)
    PROVE  RunOK(t)'
<1>0. /\ run \in [Tasks -> [phase : Phases, runtime : BOOLEAN]] /\ cmds[t] \in Seq(Commands)
      /\ Len(cmds[t]) \in Nat
  BY DEF BridgeTypeOK
<1>1. ASSUME Kept(t) PROVE RunOK(t)'
  BY <1>1 DEF Kept, RunOK, InPhase
<1>2. CASE StartRun(t) \/ ClaimRun(t)
  BY <1>0, <1>1, <1>2 DEF StartRun, ClaimRun, RunOK, InPhase, Kept
<1>3. ASSUME NEW a \in Actions, Control(t, a) PROVE RunOK(t)'
  <2>1. CASE run[t].phase = "queued" /\ run'[t].phase = "finished" /\ Recorded(t, a, "sent")
    <3>1. Len(cmds[t]) = 0
      BY <2>1 DEF RunOK
    <3>2. Len(cmds'[t]) = 1 /\ cmds'[t][1].phase = "sent"
      BY <2>1, <3>1 DEF Recorded
    <3> QED BY <1>0, <2>1, <3>2 DEF RunOK, InPhase
  <2>2. CASE /\ run[t].phase \in {"attached", "finished"} /\ run'[t].phase = "attached"
             /\ Recorded(t, a, "queued")
    <3>1. \A i \in 1 .. Len(cmds'[t]) : cmds'[t][i].phase \in {"dispatching", "review"} =>
            i \in 1 .. Len(cmds[t]) /\ cmds[t][i].phase = cmds'[t][i].phase
      <4>1. \A i \in 1 .. Len(cmds'[t]) : i \in 1 .. Len(cmds[t]) \/ i = Len(cmds[t]) + 1
        BY <1>0, <2>2 DEF Recorded
      <4> QED BY <2>2, <4>1 DEF Recorded
    <3>2. InPhase(t, {"review"}) = {}
      BY <2>2 DEF RunOK
    <3>3. InPhase(t, {"review"})' = {} /\ (InPhase(t, {"dispatching"})' # {} => InPhase(t, {"dispatching"}) # {})
      BY <3>1, <3>2 DEF InPhase
    <3> QED BY <1>3, <2>2, <3>3, ControlShape DEF RunOK
  <2> QED BY <1>3, <2>1, <2>2, ControlShape
<1>4. ASSUME Doubted(t) PROVE RunOK(t)'
  BY <1>0, <1>4 DEF Doubted, RunOK, InPhase
<1>5. CASE Acknowledged(t)
  <2>1. CASE run[t].phase = "dispatching" /\ run'[t] = [phase |-> "attached", runtime |-> TRUE]
             /\ cmds'[t] = cmds[t]
    BY <1>0, <2>1 DEF RunOK, InPhase
  <2>2. CASE run[t].phase = "attached" /\ Advanced(t, bridge.item, "sent")
    BY <1>0, <2>2 DEF RunOK, InPhase, Advanced
  <2> QED BY <1>5, <2>1, <2>2, VisitShape
<1>6. CASE Unconfirmed(t) \/ CheckRun(t)
  BY <1>1, <1>4, <1>6, VisitShape
<1>7. CASE ClaimCommand(t)
  <2>1. Visiting /\ bridge.at = "claim" /\ bridge.task = t
    BY <1>7, VisitShape DEF ClaimCommand, At
  <2>2. run[t].runtime
    BY <2>1 DEF VisitedStatus
  <2>3. CASE run[t].phase = "attached" /\ Advanced(t, bridge.item, "dispatching")
    BY <1>0, <2>2, <2>3 DEF RunOK, InPhase, Advanced
  <2> QED BY <1>1, <1>7, <2>3, VisitShape
<1>8. CASE Publish(t)
  <2>1. CASE run'[t] = run[t] /\ cmds'[t] = cmds[t]
    BY <1>1, <2>1 DEF Kept
  <2>2. CASE /\ run[t].phase = "attached" /\ cmds'[t] = cmds[t] /\ NothingNew(t)
             /\ run'[t].runtime = run[t].runtime /\ run'[t].phase \in {"attached", "finished"}
    <3>1. /\ InPhase(t, {"queued"})' = {} /\ InPhase(t, {"dispatching"})' = {}
          /\ InPhase(t, {"review"})' = {}
      BY <2>2 DEF NothingNew, InPhase, RunOK
    <3> QED BY <2>2, <3>1 DEF RunOK
  <2> QED BY <1>8, <2>1, <2>2, VisitShape DEF PhaseOf
<1>9. CASE Restart
  BY <1>1, <1>4, <1>9, RestartShape
<1> QED BY <1>1, <1>2, <1>3, <1>5, <1>6, <1>7, <1>8, <1>9, RunSteps

LEMMA StopOKSteps ==
    ASSUME BridgeTypeOK, VisitedRun, VisitedCommand, BridgeNext, NEW t \in Tasks, StopOK(t)
    PROVE  StopOK(t)'
<1>0. cmds[t] \in Seq(Commands) /\ cmds'[t] \in Seq(Commands) /\ Len(cmds[t]) \in Nat
  BY TypeSteps DEF BridgeTypeOK
<1>1. ASSUME cmds'[t] = cmds[t] PROVE StopOK(t)'
  BY <1>1 DEF StopOK
<1>2. ASSUME NEW a \in Actions, Control(t, a) PROVE StopOK(t)'
  <2>1. PICK phase \in {"sent", "queued"} : Recorded(t, a, phase)
    BY <1>2, ControlShape
  <2>2. CASE a = "stop"
    <3>1. Len(cmds[t]) + 1 \in DOMAIN cmds'[t]
      BY <1>0, <2>1 DEF Recorded
    <3> QED BY <2>1, <2>2, <3>1 DEF StopOK, Recorded
  <2>3. CASE a # "stop"
    <3>1. \A i \in 1 .. Len(cmds[t]) : /\ cmds'[t][i].action = cmds[t][i].action
                                      /\ cmds'[t][i].phase = cmds[t][i].phase
      BY <2>1, <2>3 DEF Recorded
    <3>2. /\ DOMAIN cmds[t] = 1 .. Len(cmds[t]) /\ DOMAIN cmds'[t] = 1 .. Len(cmds[t]) + 1
          /\ cmds'[t][Len(cmds[t]) + 1].action # "stop"
      BY <1>0, <2>1, <2>3 DEF Recorded
    <3>3. \A i \in DOMAIN cmds'[t] : cmds'[t][i].action = "stop" => i \in DOMAIN cmds[t]
      BY <1>0, <3>2
    <3>4. DOMAIN cmds[t] \subseteq DOMAIN cmds'[t]
      BY <1>0, <3>2
    <3> QED BY <3>1, <3>2, <3>3, <3>4 DEF StopOK
  <2> QED BY <2>2, <2>3
<1>3. ASSUME Len(cmds'[t]) = Len(cmds[t]),
             \A i \in 1 .. Len(cmds[t]) :
                 /\ cmds'[t][i].action = cmds[t][i].action
                 /\ cmds[t][i].phase # "discarded" => cmds'[t][i].phase # "discarded"
      PROVE  StopOK(t)'
  BY <1>0, <1>3 DEF StopOK
<1>4. ASSUME Doubted(t) PROVE StopOK(t)'
  BY <1>3, <1>4 DEF Doubted
<1>5. ASSUME NEW n, NEW phase \in {"sent", "dispatching"}, Advanced(t, n, phase) PROVE StopOK(t)'
  BY <1>3, <1>5 DEF Advanced
<1>6. CASE Acknowledged(t) \/ Unconfirmed(t) \/ CheckRun(t) \/ ClaimCommand(t) \/ Publish(t)
  BY <1>1, <1>4, <1>5, <1>6, VisitShape DEF Kept
<1>7. CASE Restart
  BY <1>1, <1>4, <1>7, RestartShape DEF Kept
<1> QED BY <1>1, <1>2, <1>6, <1>7, RunSteps DEF Kept, StartRun, ClaimRun

\* Only the bridge takes a run out of the phase it is attached or claimed in.
LEMMA OthersStay ==
    ASSUME BridgeTypeOK, VisitedRun, VisitedCommand, BridgeNext, ~Restart, NEW t \in Tasks,
           run[t].phase \in {"attached", "dispatching"},
           run'[t].phase # run[t].phase
    PROVE  /\ Visiting /\ bridge.task = t
           /\ Acknowledged(t) \/ Unconfirmed(t) \/ CheckRun(t) \/ Publish(t)
<1>1. ~Kept(t) /\ ~StartRun(t) /\ ~ClaimRun(t)
  BY DEF Kept, StartRun, ClaimRun, BridgeTypeOK
<1>2. \A a \in Actions : ~Control(t, a)
  BY ControlShape
<1>3. ~ClaimCommand(t)
  BY VisitShape DEF Kept, Advanced
<1> QED BY <1>1, <1>2, <1>3, RunSteps, VisitShape

\* The steps the bridge takes no part in.
OwnStep(t) ==
    \/ StartRun(t) \/ StartDraft(t) \/ SaveDraft(t) \/ SaveNotes(t)
    \/ PublishSnapshot(t) \/ WorkerMoves(t)
    \/ \E a \in Actions : Control(t, a)
    \/ \E i \in Items : WorkerHandles(t, i)

LEMMA StepKinds ==
    BridgeNext => \/ ListRuns \/ Abort \/ Restart
                  \/ \E t \in Tasks : OwnStep(t)
                  \/ \E t \in Tasks : Tick(t)
  BY Zenon DEF BridgeNext, OwnStep

LEMMA VisitedRunSteps ==
    ASSUME BridgeTypeOK, VisitedRun, VisitedCommand, BridgeNext
    PROVE  VisitedRun'
<1>0. /\ run \in [Tasks -> [phase : Phases, runtime : BOOLEAN]] /\ bridge.todo \in Listings
      /\ bridge \in Pauses \union Visits
  BY AtVisits DEF BridgeTypeOK
<1>1. \A todo : /\ Listed(todo).at \notin Awaits /\ Listed(todo).todo = todo
                /\ Idle.at \notin Awaits /\ Idle.todo = {}
  BY DEF Listed, Idle, Awaits
<1>2. CASE Restart \/ Abort
  BY <1>1, <1>2 DEF Restart, Abort, VisitedRun, Visiting
<1>3. CASE ListRuns
  BY <1>0, <1>1, <1>3 DEF ListRuns, VisitedRun, Visiting
<1>4. CASE \E t \in Tasks : OwnStep(t)
  <2>1. \A t \in Tasks : run[t].phase \in {"attached", "dispatching"} => run'[t].phase = run[t].phase
    <3>1. CASE UNCHANGED run
      BY <3>1
    <3>2. CASE \E u \in Tasks : StartRun(u)
      BY <1>0, <3>2 DEF StartRun
    <3>3. ASSUME NEW u \in Tasks, NEW a \in Actions, Control(u, a), NEW t \in Tasks,
                 run[t].phase \in {"attached", "dispatching"}
          PROVE  run'[t].phase = run[t].phase
      <4>1. CASE t = u
        BY <3>3, <4>1, ControlShape
      <4>2. CASE t # u
        BY <1>0, <3>3, <4>2 DEF Control
      <4> QED BY <4>1, <4>2
    <3> QED BY <1>4, <3>1, <3>2, <3>3
            DEF OwnStep, StartDraft, SaveDraft, SaveNotes, PublishSnapshot, WorkerMoves, WorkerHandles
  <2>2. bridge' = bridge
    BY <1>4 DEF OwnStep, StartRun, StartDraft, SaveDraft, SaveNotes, PublishSnapshot, WorkerMoves,
                Control, WorkerHandles
  <2>3. Visiting => bridge.task \in Tasks
    BY AtVisits DEF Visits
  <2> QED BY <2>1, <2>2, <2>3 DEF VisitedRun, Visiting
<1>5. ASSUME ~Restart, Visiting, bridge' = Listed(bridge.todo) PROVE VisitedRun'
  <2>1. \A t \in Tasks : t # bridge.task /\ run[t].phase = "attached" => run'[t].phase = "attached"
    BY <1>5, OthersStay
  <2>2. bridge'.todo = bridge.todo /\ bridge'.at \notin Awaits
    BY <1>1, <1>5
  <2> QED BY <1>5, <2>1, <2>2 DEF VisitedRun, Visiting
<1>6. ASSUME Visiting, UNCHANGED run, bridge'.todo = bridge.todo, bridge'.task = bridge.task,
             bridge'.item = bridge.item \/ (bridge.item # Start /\ bridge'.item # Start),
             bridge.item = Start => bridge'.at \in {"submit", "await"}
      PROVE  VisitedRun'
  BY <1>6 DEF VisitedRun, Visiting
<1>7. CASE \E t \in Tasks : Submit(t) \/ ReadStatus(t)
  <2>1. PICK t \in Tasks : Submit(t) \/ ReadStatus(t)
    BY <1>7
  <2>2. bridge \in Visits /\ Visiting
    BY <2>1, AtVisits DEF Submit, ReadStatus, Awaits
  <2>3. UNCHANGED run /\ bridge'.todo = bridge.todo /\ bridge'.task = bridge.task
          /\ bridge'.item = bridge.item /\ (bridge.item = Start => bridge'.at \in {"submit", "await"})
    BY <2>1, <2>2 DEF Submit, ReadStatus, Visits, VisitedRun, At
  <2> QED BY <1>6, <2>2, <2>3
<1>8. CASE \E t \in Tasks : CheckRun(t) \/ ClaimCommand(t)
  <2>1. PICK t \in Tasks : CheckRun(t) \/ ClaimCommand(t)
    BY <1>8
  <2>2. bridge \in Visits /\ Visiting /\ bridge.at \in {"check", "claim"} /\ bridge.item # Start
    BY <2>1, AtVisits DEF CheckRun, ClaimCommand, Awaits, At, VisitedRun
  <2>3. \/ bridge' = Listed(bridge.todo)
        \/ /\ UNCHANGED run /\ bridge'.todo = bridge.todo /\ bridge'.task = bridge.task
           /\ \/ bridge'.item = bridge.item
              \/ bridge'.item = NoItem
              \/ InPhase(t, {"queued"}) # {} /\ bridge'.item = NextQueued(t)
    <3>1. CASE CheckRun(t)
      BY <3>1, <2>2 DEF CheckRun, Visits
    <3>2. CASE ClaimCommand(t)
      BY <3>2, <2>2 DEF ClaimCommand, Visits
    <3> QED BY <2>1, <3>1, <3>2
  <2>4. CASE bridge' = Listed(bridge.todo)
    BY <1>2, <1>5, <2>2, <2>4
  <2> QED BY <1>6, <2>2, <2>3, <2>4, NextIsFirst, Submissions DEF Start
<1>9. CASE \E t \in Tasks : Unconfirmed(t) \/ Publish(t) \/ GiveUp(t)
  <2>1. Visiting /\ bridge' = Listed(bridge.todo)
    BY <1>9, AtVisits DEF Unconfirmed, Publish, GiveUp, Awaits
  <2> QED BY <1>2, <1>5, <2>1
<1>10. CASE \E t \in Tasks : Acknowledged(t)
  <2>1. PICK t \in Tasks : Acknowledged(t)
    BY <1>10
  <2>2. Visiting /\ bridge.task = t
    BY <2>1, VisitShape
  <2>3. CASE bridge.item = Start
    <3>1. bridge' = Visit(t, "check", bridge.todo)
            /\ run' = [run EXCEPT ![t] = [phase |-> "attached", runtime |-> TRUE]]
      BY <2>1, <2>3 DEF Acknowledged
    <3>2. /\ \A u \in Tasks : run[u].phase = "attached" => run'[u].phase = "attached"
          /\ run'[t].phase = "attached"
      BY <1>0, <3>1
    <3>3. /\ bridge'.task = t /\ bridge'.at = "check" /\ bridge'.item = NoItem
          /\ bridge'.todo = bridge.todo
      BY <3>1 DEF Visit
    <3> QED BY <2>2, <3>2, <3>3, Submissions DEF VisitedRun, Visiting
  <2>4. CASE bridge.item # Start
    BY <1>2, <1>5, <2>1, <2>2, <2>4 DEF Acknowledged
  <2> QED BY <2>3, <2>4
<1>11. CASE \E t \in Tasks : ClaimRun(t)
  <2>1. PICK t \in Tasks : ClaimRun(t)
    BY <1>11
  <2> DEFINE rest == bridge.todo \ {<<t, "queued">>}
  <2>2. CASE run[t].phase = "queued" /\ (pi \/ Busy = {})
    <3>1. /\ bridge' = [Visit(t, "submit", rest) EXCEPT !.item = Start]
          /\ run' = [run EXCEPT ![t].phase = "dispatching"]
      BY <2>1, <2>2 DEF ClaimRun
    <3>2. /\ bridge'.task = t /\ bridge'.at = "submit" /\ bridge'.item = Start
          /\ bridge'.todo = rest
      BY <3>1 DEF Visit
    <3>3. /\ run'[t].phase = "dispatching" /\ <<t, "attached">> \notin bridge.todo
          /\ \A u \in Tasks \ {t} : run'[u] = run[u]
      BY <1>0, <2>2, <3>1 DEF VisitedRun
    <3> QED BY <3>2, <3>3 DEF VisitedRun, Visiting
  <2>3. CASE ~(run[t].phase = "queued" /\ (pi \/ Busy = {}))
    <3>1. bridge' = Listed(rest) /\ UNCHANGED run
      BY <2>1, <2>3 DEF ClaimRun
    <3>2. bridge'.todo = rest /\ bridge'.at \notin Awaits
      BY <1>1, <3>1
    <3> QED BY <3>1, <3>2 DEF VisitedRun, Visiting
  <2> QED BY <2>2, <2>3
<1>12. CASE \E t \in Tasks : TakeRun(t)
  <2>1. PICK t \in Tasks : TakeRun(t)
    BY <1>12
  <2>2. /\ bridge'.task = t /\ bridge'.at = "check" /\ bridge'.item = NoItem
        /\ bridge'.todo = bridge.todo \ {<<t, "attached">>} /\ UNCHANGED run
        /\ <<t, "attached">> \in bridge.todo
    BY <2>1 DEF TakeRun, Visit
  <2> QED BY <2>2, Submissions DEF VisitedRun, Visiting
<1> QED
  <2>1. CASE \E t \in Tasks : Tick(t)
    BY <2>1, <1>7, <1>8, <1>9, <1>10, <1>11, <1>12 DEF Tick
  <2> QED BY <1>2, <1>3, <1>4, <2>1, StepKinds

---------------------------------------------------------------------------
(* Submissions.                                                            *)

\* The part of SentOK about one command, and the part about the start.
CommandSent(t, i) ==
    /\ i > Len(cmds[t]) => sends[t][i] = 0
    /\ i \in InPhase(t, {"queued", "discarded"}) => sends[t][i] = 0
    /\ i \in InPhase(t, {"sent"}) => <<t, i>> \in acked \/ sends[t][i] = 0

StartSent(t) ==
    /\ Unstarted(t) => sends[t][Start] = 0
    /\ run[t].runtime => <<t, Start>> \in acked

Counted(t) ==
    \A i \in Items : /\ sends[t][i] <= 1
                     /\ <<t, i>> \in net \union acked => sends[t][i] = 1
                     /\ <<t, i>> \notin net \/ <<t, i>> \notin acked

LEMMA SentParts ==
    \A t : SentOK(t) <=> StartSent(t) /\ Counted(t) /\ \A i \in 1 .. MaxCommands : CommandSent(t, i)
  BY DEF SentOK, StartSent, Counted, CommandSent

LEMMA SubmissionSteps ==
    ASSUME BridgeTypeOK, BridgeNext
    PROVE  \/ UNCHANGED <<net, acked, sends>>
           \/ \E t \in Tasks : Submit(t)
           \/ \E t \in Tasks, i \in Items : WorkerHandles(t, i)
<1>1. CASE \E t \in Tasks : OwnStep(t)
  BY <1>1 DEF OwnStep, StartRun, StartDraft, SaveDraft, SaveNotes, PublishSnapshot, WorkerMoves, Control
<1>2. CASE \E t \in Tasks : Tick(t)
  BY <1>2 DEF Tick, ClaimRun, TakeRun, Acknowledged, Unconfirmed, CheckRun, ReadStatus, ClaimCommand,
              Publish, GiveUp
<1> QED BY <1>1, <1>2, StepKinds DEF ListRuns, Abort, Restart

LEMMA CommandSentSteps ==
    ASSUME BridgeTypeOK, VisitedRun, VisitedCommand, BridgeNext, UNCHANGED <<acked, sends>>,
           NEW t \in Tasks, RunOK(t), NEW i \in 1 .. MaxCommands, CommandSent(t, i)
    PROVE  CommandSent(t, i)'
<1>0. cmds[t] \in Seq(Commands) /\ Len(cmds[t]) \in Nat /\ i \in Nat
  BY BridgeAssumption DEF BridgeTypeOK
<1>1. ASSUME cmds'[t] = cmds[t] PROVE CommandSent(t, i)'
  BY <1>1 DEF CommandSent, InPhase
<1>2. ASSUME Len(cmds'[t]) = Len(cmds[t]),
             i \in 1 .. Len(cmds[t]) =>
                (\/ cmds'[t][i].phase = cmds[t][i].phase
                 \/ cmds'[t][i].phase \in {"dispatching", "review"}
                 \/ (cmds'[t][i].phase = "sent" /\ <<t, i>> \in acked))
      PROVE  CommandSent(t, i)'
  BY <1>0, <1>2 DEF CommandSent, InPhase
<1>3. ASSUME NEW a \in Actions, Control(t, a) PROVE CommandSent(t, i)'
  <2>1. PICK phase \in {"sent", "queued"} : Recorded(t, a, phase)
    BY <1>3, ControlShape
  <2>2. CASE i <= Len(cmds[t])
    BY <1>0, <2>1, <2>2 DEF CommandSent, InPhase, Recorded
  <2>3. CASE i > Len(cmds[t])
    BY <1>0, <2>1, <2>3 DEF CommandSent, InPhase, Recorded
  <2> QED BY <1>0, <2>2, <2>3
<1>4. ASSUME Doubted(t) PROVE CommandSent(t, i)'
  <2>1. Len(cmds'[t]) = Len(cmds[t])
    BY <1>4 DEF Doubted
  <2>2. i \in 1 .. Len(cmds[t]) => cmds'[t][i].phase = cmds[t][i].phase \/ cmds'[t][i].phase = "review"
    BY <1>4 DEF Doubted
  <2> QED BY <1>2, <2>1, <2>2
<1>5. CASE Acknowledged(t)
  <2>1. ASSUME Advanced(t, bridge.item, "sent"), <<t, bridge.item>> \in acked
        PROVE  CommandSent(t, i)'
    <3>1. Len(cmds'[t]) = Len(cmds[t])
      BY <2>1 DEF Advanced
    <3>2. i \in 1 .. Len(cmds[t]) => \/ cmds'[t][i].phase = cmds[t][i].phase
                                    \/ (cmds'[t][i].phase = "sent" /\ <<t, i>> \in acked)
      BY <2>1 DEF Advanced
    <3> QED BY <1>2, <3>1, <3>2
  <2> QED BY <1>1, <1>5, <2>1, VisitShape
<1>6. CASE ClaimCommand(t)
  <2>1. ASSUME Advanced(t, bridge.item, "dispatching") PROVE CommandSent(t, i)'
    <3>1. Len(cmds'[t]) = Len(cmds[t])
      BY <2>1 DEF Advanced
    <3>2. i \in 1 .. Len(cmds[t]) => \/ cmds'[t][i].phase = cmds[t][i].phase
                                    \/ cmds'[t][i].phase = "dispatching"
      BY <2>1 DEF Advanced
    <3> QED BY <1>2, <3>1, <3>2
  <2> QED BY <1>1, <1>6, <2>1, VisitShape DEF Kept
<1>7. CASE Unconfirmed(t) \/ CheckRun(t) \/ Publish(t)
  BY <1>1, <1>4, <1>7, VisitShape DEF Kept
<1>8. CASE Restart
  BY <1>1, <1>4, <1>8, RestartShape DEF Kept
<1> QED BY <1>1, <1>3, <1>5, <1>6, <1>7, <1>8, RunSteps DEF Kept, StartRun, ClaimRun

LEMMA StartSentSteps ==
    ASSUME BridgeTypeOK, VisitedRun, VisitedCommand, BridgeNext, UNCHANGED <<acked, sends>>,
           NEW t \in Tasks, RunOK(t), StartSent(t)
    PROVE  StartSent(t)'
<1>0. run \in [Tasks -> [phase : Phases, runtime : BOOLEAN]]
  BY DEF BridgeTypeOK
<1>1. ASSUME run'[t].runtime = run[t].runtime, Unstarted(t)' => Unstarted(t)
      PROVE  StartSent(t)'
  BY <1>1 DEF StartSent
<1>2. ASSUME Kept(t) \/ Doubted(t) \/ run'[t] = run[t] PROVE StartSent(t)'
  BY <1>1, <1>2 DEF Kept, Doubted, Unstarted
<1>3. CASE StartRun(t) \/ ClaimRun(t)
  BY <1>0, <1>1, <1>3 DEF StartRun, ClaimRun, Unstarted
<1>4. ASSUME NEW a \in Actions, Control(t, a) PROVE StartSent(t)'
  BY <1>1, <1>4, ControlShape DEF Unstarted, RunOK
<1>5. CASE Acknowledged(t)
  <2>1. CASE <<t, Start>> \in acked /\ run'[t] = [phase |-> "attached", runtime |-> TRUE]
    BY <2>1 DEF StartSent, Unstarted
  <2> QED BY <1>2, <1>5, <2>1, VisitShape DEF Advanced
<1>6. CASE Publish(t)
  BY <1>1, <1>2, <1>6, VisitShape DEF Unstarted, PhaseOf
<1>7. CASE Unconfirmed(t) \/ CheckRun(t) \/ ClaimCommand(t)
  BY <1>2, <1>7, VisitShape DEF Advanced
<1>8. CASE Restart
  BY <1>2, <1>8, RestartShape
<1> QED BY <1>2, <1>3, <1>4, <1>5, <1>6, <1>7, <1>8, RunSteps

LEMMA SentOKSteps ==
    ASSUME BridgeTypeOK, VisitedRun, VisitedCommand, BridgeNext,
           NEW t \in Tasks, RunOK(t), SentOK(t)
    PROVE  SentOK(t)'
<1>0. /\ sends \in [Tasks -> [Items -> Nat]] /\ net \subseteq Tasks \X Items
      /\ StartSent(t) /\ Counted(t) /\ \A i \in 1 .. MaxCommands : CommandSent(t, i)
  BY SentParts DEF BridgeTypeOK
<1>1. SUFFICES StartSent(t)' /\ Counted(t)' /\ \A i \in 1 .. MaxCommands : CommandSent(t, i)'
  BY DEF SentOK, StartSent, Counted, CommandSent
<1>2. CASE UNCHANGED <<net, acked, sends>>
  BY <1>0, <1>2, StartSentSteps, CommandSentSteps DEF Counted
<1>3. CASE \E u \in Tasks : Submit(u)
  <2>1. PICK u \in Tasks : Submit(u)
    BY <1>3
  <2> DEFINE n == bridge.item
  <2>2. /\ bridge.task = u /\ bridge.at = "submit" /\ Visiting /\ n \in Items /\ sends[u][n] = 0
        /\ n = Start => run[u].phase = "dispatching"
        /\ n # Start => n \in InPhase(u, {"dispatching"})
    BY <2>1, SubmittedItem DEF Submit, At, VisitedRun, VisitedCommand, Visiting, Awaits
  <2>3. /\ UNCHANGED <<run, cmds, acked>> /\ net' = net \union {<<u, n>>}
        /\ sends' = [sends EXCEPT ![u][n] = @ + 1]
    BY <2>1 DEF Submit
  <2> HIDE DEF n
  <2>4. CASE u # t
    <3>1. sends'[t] = sends[t] /\ \A i : <<t, i>> \in net' <=> <<t, i>> \in net
      BY <1>0, <2>3, <2>4
    <3> QED BY <1>0, <2>3, <3>1 DEF StartSent, Counted, CommandSent, Unstarted, InPhase
  <2>5. CASE u = t
    <3>1. /\ sends'[t][n] = 1 /\ \A i \in Items \ {n} : sends'[t][i] = sends[t][i]
          /\ \A i \in Items \ {n} : <<t, i>> \in net' <=> <<t, i>> \in net
      BY <1>0, <2>2, <2>3, <2>5
    <3>2. Counted(t)'
      BY <1>0, <2>2, <2>3, <2>5, <3>1 DEF Counted
    <3>3. StartSent(t)'
      BY <1>0, <2>2, <2>3, <2>5, <3>1, Submissions DEF StartSent, Unstarted
    <3>4. ASSUME NEW i \in 1 .. MaxCommands PROVE CommandSent(t, i)'
      <4>1. CASE i # n
        <5>1. sends'[t][i] = sends[t][i]
          BY <3>1, <4>1, Submissions
        <5> QED BY <1>0, <2>3, <5>1 DEF CommandSent, InPhase
      <4>2. CASE i = n
        <5>1. n # Start /\ i \in 1 .. Len(cmds[t]) /\ cmds[t][i].phase = "dispatching"
          BY <2>2, <2>5, <4>2, Submissions, BridgeAssumption DEF InPhase, Start
        <5>2. Len(cmds[t]) \in Nat
          BY DEF BridgeTypeOK
        <5> QED BY <2>3, <5>1, <5>2 DEF CommandSent, InPhase
      <4> QED BY <4>1, <4>2
    <3> QED BY <3>2, <3>3, <3>4
  <2> QED BY <2>4, <2>5
<1>4. CASE \E u \in Tasks, i \in Items : WorkerHandles(u, i)
  <2>1. PICK u \in Tasks, n \in Items : WorkerHandles(u, n)
    BY <1>4
  <2>2. /\ UNCHANGED <<run, cmds, sends>> /\ <<u, n>> \in net /\ net' = net \ {<<u, n>>}
        /\ acked' = acked \/ acked' = acked \union {<<u, n>>}
    BY <2>1 DEF WorkerHandles
  <2> QED BY <1>0, <2>2 DEF StartSent, Counted, CommandSent, Unstarted, InPhase
<1> QED BY <1>2, <1>3, <1>4, SubmissionSteps

---------------------------------------------------------------------------
(* The visit.                                                              *)

LEMMA ListedIsIdle ==
    \A todo : Listed(todo).at \notin Awaits /\ Idle.at \notin Awaits
  BY DEF Listed, Idle, Awaits

\* What the owner does to the commands of a run leaves alone what the bridge relies on.
LEMMA OwnStepCommands ==
    ASSUME BridgeTypeOK, NEW u \in Tasks, OwnStep(u), NEW t \in Tasks
    PROVE  /\ Len(cmds[t]) \in Nat /\ Len(cmds'[t]) \in Nat /\ Len(cmds[t]) <= Len(cmds'[t])
           /\ run'[t].runtime = run[t].runtime /\ UNCHANGED <<bridge, sends>>
           /\ \A i \in 1 .. Len(cmds[t]) :
                /\ cmds[t][i].phase # "queued" => cmds'[t][i].phase = cmds[t][i].phase
                /\ cmds[t][i].phase = "queued" => cmds'[t][i].phase \in {"queued", "discarded"}
           /\ \A i \in 1 .. Len(cmds'[t]) :
                i \notin 1 .. Len(cmds[t]) => cmds'[t][i].phase \in {"queued", "sent"}
<1>0. /\ cmds \in [Tasks -> Seq(Commands)] /\ run \in [Tasks -> [phase : Phases, runtime : BOOLEAN]]
      /\ Len(cmds[t]) \in Nat
  BY DEF BridgeTypeOK
<1>1. ASSUME NEW a \in Actions, Control(u, a)
      PROVE  UNCHANGED <<bridge, sends>> /\ (u # t => cmds'[t] = cmds[t] /\ run'[t] = run[t])
  BY <1>0, <1>1 DEF Control
<1>2. ASSUME NEW a \in Actions, Control(t, a)
      PROVE  /\ run'[t].runtime = run[t].runtime
             /\ \E phase \in {"sent", "queued"} : Recorded(t, a, phase)
  BY <1>2, ControlShape
<1>3. CASE ~\E a \in Actions : Control(u, a)
  <2>1. UNCHANGED <<bridge, sends>> /\ cmds'[t] = cmds[t] /\ run'[t].runtime = run[t].runtime
    <3>1. CASE StartRun(u)
      BY <1>0, <3>1 DEF StartRun
    <3>2. CASE ~StartRun(u)
      BY <1>3, <3>2 DEF OwnStep, StartDraft, SaveDraft, SaveNotes, PublishSnapshot, WorkerMoves,
                        WorkerHandles
    <3> QED BY <3>1, <3>2
  <2> QED BY <1>0, <2>1
<1>4. ASSUME NEW a \in Actions, Control(u, a)
      PROVE  /\ run'[t].runtime = run[t].runtime
             /\ cmds'[t] = cmds[t] \/ \E phase \in {"sent", "queued"} : Recorded(t, a, phase)
  BY <1>1, <1>2, <1>4
<1>5. ASSUME NEW a \in Actions, NEW phase \in {"sent", "queued"}, Recorded(t, a, phase)
      PROVE  /\ Len(cmds'[t]) \in Nat /\ Len(cmds[t]) <= Len(cmds'[t])
             /\ \A i \in 1 .. Len(cmds[t]) :
                /\ cmds[t][i].phase # "queued" => cmds'[t][i].phase = cmds[t][i].phase
                /\ cmds[t][i].phase = "queued" => cmds'[t][i].phase \in {"queued", "discarded"}
             /\ \A i \in 1 .. Len(cmds'[t]) :
                i \notin 1 .. Len(cmds[t]) => cmds'[t][i].phase \in {"queued", "sent"}
  <2>1. /\ Len(cmds'[t]) = Len(cmds[t]) + 1
        /\ cmds'[t][Len(cmds[t]) + 1].phase \in {"queued", "sent"}
    BY <1>5 DEF Recorded
  <2>2. \A i \in 1 .. Len(cmds'[t]) : i \notin 1 .. Len(cmds[t]) => i = Len(cmds[t]) + 1
    BY <1>0, <2>1
  <2> QED BY <1>0, <1>5, <2>1, <2>2 DEF Recorded
<1>6. CASE \E a \in Actions : Control(u, a)
  <2>1. PICK a \in Actions : Control(u, a)
    BY <1>6
  <2>2. CASE cmds'[t] = cmds[t]
    BY <1>0, <1>1, <1>4, <2>1, <2>2
  <2>3. CASE \E phase \in {"sent", "queued"} : Recorded(t, a, phase)
    BY <1>0, <1>1, <1>4, <1>5, <2>1, <2>3
  <2> QED BY <1>4, <2>1, <2>2, <2>3
<1> QED BY <1>3, <1>6

LEMMA VisitedCommandSteps ==
    ASSUME BridgeTypeOK, VisitedRun, VisitedCommand, BridgeNext,
           \A t \in Tasks : RunOK(t) /\ SentOK(t)
    PROVE  VisitedCommand'
<1>0. /\ cmds \in [Tasks -> Seq(Commands)] /\ \A t \in Tasks : Len(cmds[t]) \in Nat
      /\ bridge \in Pauses \union Visits
  BY AtVisits DEF BridgeTypeOK
<1>1. ASSUME bridge'.at \notin {"submit", "await", "status", "claim"} PROVE VisitedCommand'
  BY <1>1 DEF VisitedCommand
<1>2. ASSUME bridge' = Idle \/ \E todo : bridge' = Listed(todo) PROVE VisitedCommand'
  BY <1>1, <1>2, ListedIsIdle DEF Awaits
<1>3. CASE \E u \in Tasks : OwnStep(u)
  <2>1. PICK u \in Tasks : OwnStep(u)
    BY <1>3
  <2>2. UNCHANGED <<bridge, sends>>
    BY <2>1, OwnStepCommands
  <2>3. CASE bridge.at \in Awaits
    <3>1. bridge.task \in Tasks
      BY <1>0, <2>3 DEF Visits, Pauses, Awaits
    <3> DEFINE t == bridge.task
    <3>2. /\ Len(cmds[t]) \in Nat /\ Len(cmds'[t]) \in Nat /\ Len(cmds[t]) <= Len(cmds'[t])
          /\ \A i \in 1 .. Len(cmds[t]) :
                /\ cmds[t][i].phase # "queued" => cmds'[t][i].phase = cmds[t][i].phase
                /\ cmds[t][i].phase = "queued" => cmds'[t][i].phase \in {"queued", "discarded"}
      BY <2>1, <3>1, OwnStepCommands
    <3>3. /\ InPhase(t, {"dispatching"}) \subseteq InPhase(t, {"dispatching"})'
          /\ InPhase(t, {"queued", "discarded"}) \subseteq InPhase(t, {"queued", "discarded"})'
      BY <2>2, <3>2 DEF InPhase
    <3>4. ASSUME bridge.at \in {"status", "claim", "submit"}, bridge.item \notin {Start, NoItem},
                 NEW j \in 1 .. Len(cmds'[t]), j < bridge.item
          PROVE  cmds'[t][j].phase \in {"sent", "discarded"}
      <4>1. bridge.item \in InPhase(t, {"dispatching", "queued", "discarded"})
        BY <3>4 DEF VisitedCommand, InPhase
      <4>2. j \in 1 .. Len(cmds[t])
        BY <3>2, <3>4, <4>1 DEF InPhase
      <4>3. cmds[t][j].phase \in {"sent", "discarded"}
        BY <3>4, <4>2 DEF VisitedCommand
      <4> QED BY <3>2, <4>2, <4>3
    <3> QED BY <2>2, <3>3, <3>4 DEF VisitedCommand
  <2> QED BY <1>1, <2>2, <2>3 DEF Awaits
<1>4. CASE \E t \in Tasks : ClaimRun(t)
  <2>1. PICK t \in Tasks : ClaimRun(t)
    BY <1>4
  <2>2. CASE run[t].phase = "queued" /\ (pi \/ Busy = {})
    <3>1. bridge'.task = t /\ bridge'.at = "submit" /\ bridge'.item = Start /\ UNCHANGED sends
      BY <2>1, <2>2 DEF ClaimRun, Visit
    <3>2. sends[t][Start] = 0
      BY <2>2 DEF SentOK, Unstarted
    <3> QED BY <3>1, <3>2 DEF VisitedCommand
  <2> QED BY <1>2, <2>1, <2>2 DEF ClaimRun
<1>5. CASE \E t \in Tasks : TakeRun(t)
  BY <1>1, <1>5 DEF TakeRun, Visit
<1>6. CASE \E t \in Tasks : Submit(t)
  <2>1. PICK t \in Tasks : Submit(t)
    BY <1>6
  <2>2. /\ bridge.at = "submit" /\ bridge'.at = "await" /\ bridge'.task = bridge.task
        /\ bridge'.item = bridge.item /\ UNCHANGED cmds
    BY <1>0, <2>1 DEF Submit, At, Visits, Pauses
  <2> QED BY <2>2 DEF VisitedCommand, InPhase
<1>7. CASE \E t \in Tasks : Acknowledged(t) \/ Unconfirmed(t) \/ Publish(t) \/ GiveUp(t)
  BY <1>1, <1>2, <1>7 DEF Acknowledged, Unconfirmed, Publish, GiveUp, Visit
<1>8. CASE \E t \in Tasks : CheckRun(t)
  <2>1. PICK t \in Tasks : CheckRun(t)
    BY <1>8
  <2>2. CASE run[t].runtime /\ InPhase(t, {"dispatching", "review"}) = {}
    <3>1. /\ bridge'.at = "status" /\ bridge'.task = t /\ UNCHANGED cmds
          /\ InPhase(t, {"queued"}) = {} => bridge'.item = NoItem
          /\ InPhase(t, {"queued"}) # {} => bridge'.item = NextQueued(t)
      BY <1>0, <2>1, <2>2 DEF CheckRun, Visits, Pauses, At
    <3>2. CASE InPhase(t, {"queued"}) = {}
      BY <3>1, <3>2, Submissions DEF VisitedCommand
    <3>3. CASE InPhase(t, {"queued"}) # {}
      <4>1. /\ NextQueued(t) \in InPhase(t, {"queued"}) /\ NextQueued(t) \in 1 .. MaxCommands
            /\ \A j \in InPhase(t, {"queued"}) : NextQueued(t) <= j
        BY <3>3, NextIsFirst
      <4>2. ASSUME NEW j \in 1 .. Len(cmds[t]), j < NextQueued(t)
            PROVE  cmds[t][j].phase \in {"sent", "discarded"}
        <5>1. cmds[t][j].phase \in CommandPhases
          <6>1. cmds[t] \in Seq(Commands)
            BY <1>0
          <6>2. cmds[t][j] \in Commands
            BY <6>1, ElementOfSeq
          <6> QED BY <6>2 DEF Commands
        <5>2. j \notin InPhase(t, {"queued"})
          BY <1>0, <4>1, <4>2 DEF InPhase
        <5> QED BY <2>2, <4>2, <5>1, <5>2 DEF InPhase, CommandPhases
      <4> QED BY <3>1, <3>3, <4>1, <4>2 DEF VisitedCommand, InPhase
    <3> QED BY <3>2, <3>3
  <2> QED BY <1>2, <2>1, <2>2 DEF CheckRun
<1>9. CASE \E t \in Tasks : ReadStatus(t)
  <2>1. PICK t \in Tasks : ReadStatus(t)
    BY <1>9
  <2>2. CASE bridge.item = NoItem
    BY <1>0, <1>1, <2>1, <2>2 DEF ReadStatus, Visits, Pauses, At
  <2>3. CASE bridge.item # NoItem
    <3>1. /\ bridge.at = "status" /\ bridge'.at = "claim" /\ bridge'.task = bridge.task
          /\ bridge'.item = bridge.item /\ UNCHANGED cmds
      BY <1>0, <2>1, <2>3 DEF ReadStatus, At, Visits, Pauses
    <3> QED BY <2>3, <3>1 DEF VisitedCommand, InPhase
  <2> QED BY <2>2, <2>3
<1>10. CASE \E t \in Tasks : ClaimCommand(t)
  <2>1. PICK t \in Tasks : ClaimCommand(t)
    BY <1>10
  <2>2. CASE ~StillQueued(t)
    BY <1>2, <2>1, <2>2 DEF ClaimCommand
  <2>3. CASE StillQueued(t)
    <3>1. /\ bridge.at = "claim" /\ bridge.task = t /\ bridge'.at = "submit" /\ bridge'.task = t
          /\ bridge'.item = bridge.item /\ UNCHANGED sends
          /\ cmds' = [cmds EXCEPT ![t][bridge.item].phase = "dispatching"] /\ run'[t] = run[t]
      BY <1>0, <2>1, <2>3 DEF ClaimCommand, At, Visits, Pauses
    <3>2. /\ bridge.item \in InPhase(t, {"queued"}) /\ bridge.item \in 1 .. Len(cmds[t])
          /\ \A j \in 1 .. Len(cmds[t]) : j < bridge.item => cmds[t][j].phase \in {"sent", "discarded"}
      <4>1. bridge.item \in 1 .. Len(cmds[t]) /\ Len(cmds[t]) <= MaxCommands
        BY <3>1 DEF VisitedCommand, InPhase, BridgeTypeOK
      <4>2. bridge.item \notin {Start, NoItem}
        BY <1>0, <4>1, BridgeAssumption DEF Start, NoItem
      <4> QED BY <2>3, <3>1, <4>1, <4>2 DEF VisitedCommand, InPhase, StillQueued
    <3>3. Advanced(t, bridge.item, "dispatching")
      BY <3>1, <3>2, PhaseStepShape DEF CommandPhases
    <3>4. sends[t][bridge.item] = 0
      <4>1. bridge.item \in 1 .. MaxCommands
        BY <1>0, <3>2, BridgeAssumption DEF BridgeTypeOK
      <4> QED BY <3>2, <4>1 DEF SentOK, InPhase
    <3> QED BY <1>0, <3>1, <3>2, <3>3, <3>4 DEF VisitedCommand, InPhase, Advanced
  <2> QED BY <2>2, <2>3
<1>11. CASE \E t \in Tasks : Tick(t)
  BY <1>4, <1>5, <1>6, <1>7, <1>8, <1>9, <1>10, <1>11 DEF Tick
<1> QED BY <1>2, <1>3, <1>11, StepKinds DEF ListRuns, Abort, Restart

\* A submission on its way is of a run being started, or of a command being submitted or
\* in doubt.
LEMMA OnTheWay ==
    ASSUME BridgeTypeOK, NEW t \in Tasks, RunOK(t), SentOK(t), NEW i \in Items, <<t, i>> \in net
    PROVE  /\ run[t].phase \in {"dispatching", "attached", "review"}
           /\ ~run[t].runtime \/ InPhase(t, {"dispatching", "review"}) # {}
<1>1. sends[t][i] = 1 /\ <<t, i>> \notin acked
  BY DEF SentOK
<1>2. run[t].phase \in Phases /\ cmds[t] \in Seq(Commands) /\ Len(cmds[t]) \in Nat
  BY DEF BridgeTypeOK
<1>3. CASE i = Start
  BY <1>1, <1>2, <1>3 DEF SentOK, Unstarted, Phases
<1>4. CASE i # Start
  <2>1. i \in 1 .. MaxCommands /\ i \in 1 .. Len(cmds[t])
    BY <1>1, <1>2, <1>4, Submissions, BridgeAssumption DEF SentOK
  <2>2. cmds[t][i] \in Commands
    BY <1>2, <2>1, ElementOfSeq
  <2>3. i \in InPhase(t, {"dispatching", "review"})
    BY <1>1, <2>1, <2>2 DEF SentOK, InPhase, Commands, CommandPhases
  <2>4. InPhase(t, {"dispatching"}) # {} \/ InPhase(t, {"review"}) # {}
    BY <2>3 DEF InPhase
  <2> QED BY <2>3, <2>4 DEF RunOK
<1> QED BY <1>3, <1>4

\* The worker's status of a run changes by itself or by a submission.
LEMMA WorkerSteps ==
    ASSUME BridgeTypeOK, BridgeNext, NEW t \in Tasks, worker'[t] # worker[t]
    PROVE  \/ worker[t] \in {"running", "stopping"}
           \/ <<t, Start>> \in net
           \/ worker[t] # "absent" /\ \E i \in Items : <<t, i>> \in net
<1>0. worker \in [Tasks -> Statuses]
  BY DEF BridgeTypeOK
<1>1. CASE \E u \in Tasks, i \in Items : WorkerHandles(u, i)
  <2>1. PICK u \in Tasks, i \in Items : WorkerHandles(u, i)
    BY <1>1
  <2>2. u = t
    BY <1>0, <2>1 DEF WorkerHandles
  <2>3. CASE i = Start
    BY <2>1, <2>2, <2>3 DEF WorkerHandles
  <2>4. CASE i # Start
    BY <1>0, <2>1, <2>2, <2>4 DEF WorkerHandles, Accepts
  <2> QED BY <2>3, <2>4
<1>2. CASE \E u \in Tasks : WorkerMoves(u)
  <2>1. PICK u \in Tasks : WorkerMoves(u)
    BY <1>2
  <2>2. u = t
    BY <1>0, <2>1 DEF WorkerMoves
  <2> QED BY <2>1, <2>2 DEF WorkerMoves
<1>3. CASE UNCHANGED worker
  BY <1>3
<1>4. CASE \E u \in Tasks : OwnStep(u)
  BY <1>1, <1>2, <1>3, <1>4 DEF OwnStep, StartRun, StartDraft, SaveDraft, SaveNotes, PublishSnapshot, Control
<1>5. CASE \E u \in Tasks : Tick(u)
  BY <1>3, <1>5 DEF Tick, ClaimRun, TakeRun, Submit, Acknowledged, Unconfirmed, CheckRun, ReadStatus,
                    ClaimCommand, Publish, GiveUp
<1> QED BY <1>3, <1>4, <1>5, StepKinds DEF ListRuns, Abort, Restart

LEMMA VisitedStatusSteps ==
    ASSUME BridgeTypeOK, VisitedRun, VisitedCommand, VisitedStatus, BridgeNext,
           \A t \in Tasks : RunOK(t) /\ SentOK(t)
    PROVE  VisitedStatus'
<1>0. /\ cmds \in [Tasks -> Seq(Commands)] /\ \A t \in Tasks : Len(cmds[t]) \in Nat
      /\ bridge \in Pauses \union Visits /\ worker \in [Tasks -> Statuses]
  BY AtVisits DEF BridgeTypeOK
<1>1. ASSUME bridge'.at \notin {"status", "claim", "watch"} PROVE VisitedStatus'
  BY <1>1 DEF VisitedStatus
<1>2. ASSUME bridge' = Idle \/ \E todo : bridge' = Listed(todo) PROVE VisitedStatus'
  BY <1>1, <1>2, ListedIsIdle DEF Awaits
<1>3. CASE \E u \in Tasks : OwnStep(u)
  <2>1. PICK u \in Tasks : OwnStep(u)
    BY <1>3
  <2>2. UNCHANGED bridge
    BY <2>1, OwnStepCommands
  <2>3. CASE bridge.at \in {"status", "claim", "watch"}
    <3>1. bridge.task \in Tasks
      BY <1>0, <2>3 DEF Visits, Pauses
    <3> DEFINE t == bridge.task
    <3>2. run[t].runtime /\ InPhase(t, {"dispatching", "review"}) = {}
      BY <2>3 DEF VisitedStatus, Visiting, Awaits
    <3>3. run'[t].runtime /\ InPhase(t, {"dispatching", "review"})' = {}
      <4>1. /\ run'[t].runtime = run[t].runtime
            /\ \A i \in 1 .. Len(cmds[t]) :
                /\ cmds[t][i].phase # "queued" => cmds'[t][i].phase = cmds[t][i].phase
                /\ cmds[t][i].phase = "queued" => cmds'[t][i].phase \in {"queued", "discarded"}
            /\ \A i \in 1 .. Len(cmds'[t]) :
                i \notin 1 .. Len(cmds[t]) => cmds'[t][i].phase \in {"queued", "sent"}
        BY <2>1, <3>1, OwnStepCommands
      <4> QED BY <2>2, <3>2, <4>1 DEF InPhase
    <3>4. ASSUME worker[t] \in Over PROVE worker'[t] \in Over
      BY <3>1, <3>2, <3>4, Submissions, OnTheWay, WorkerSteps DEF Over
    <3> QED BY <2>2, <3>3, <3>4 DEF VisitedStatus, Visiting
  <2> QED BY <1>1, <2>2, <2>3
<1>4. CASE \E t \in Tasks : ClaimRun(t) \/ TakeRun(t) \/ Submit(t) \/ Acknowledged(t) \/ Unconfirmed(t)
                            \/ Publish(t) \/ GiveUp(t)
  <2>1. CASE \E t \in Tasks : ClaimRun(t) \/ TakeRun(t)
    BY <1>1, <1>2, <2>1 DEF ClaimRun, TakeRun, Visit
  <2>2. CASE \E t \in Tasks : Submit(t)
    BY <1>0, <1>1, <2>2 DEF Submit, At, Visits, Pauses
  <2>3. CASE \E t \in Tasks : Acknowledged(t) \/ Unconfirmed(t) \/ Publish(t) \/ GiveUp(t)
    BY <1>1, <1>2, <2>3 DEF Acknowledged, Unconfirmed, Publish, GiveUp, Visit
  <2> QED BY <1>4, <2>1, <2>2, <2>3
<1>5. CASE \E t \in Tasks : CheckRun(t)
  <2>1. PICK t \in Tasks : CheckRun(t)
    BY <1>5
  <2>2. CASE run[t].runtime /\ InPhase(t, {"dispatching", "review"}) = {}
    <3>1. bridge'.at = "status" /\ bridge'.task = t /\ UNCHANGED <<run, cmds>>
      BY <1>0, <2>1, <2>2 DEF CheckRun, Visits, Pauses, At
    <3> QED BY <2>2, <3>1 DEF VisitedStatus, InPhase
  <2> QED BY <1>2, <2>1, <2>2 DEF CheckRun
<1>6. CASE \E t \in Tasks : ReadStatus(t)
  <2>1. PICK t \in Tasks : ReadStatus(t)
    BY <1>6
  <2>2. /\ bridge.at = "status" /\ bridge.task = t /\ bridge'.task = t /\ UNCHANGED <<run, cmds, worker>>
        /\ bridge'.at \in {"watch", "claim"} /\ (bridge'.at = "watch" => bridge'.status = worker[t])
    BY <1>0, <2>1 DEF ReadStatus, At, Visits, Pauses
  <2> QED BY <2>2 DEF VisitedStatus, InPhase, Visiting, Awaits
<1>7. CASE \E t \in Tasks : ClaimCommand(t)
  BY <1>0, <1>1, <1>2, <1>7 DEF ClaimCommand, At, Visits, Pauses
<1>8. CASE \E t \in Tasks : Tick(t)
  BY <1>4, <1>5, <1>6, <1>7, <1>8 DEF Tick
<1> QED BY <1>2, <1>3, <1>8, StepKinds DEF ListRuns, Abort, Restart

LEMMA WorkOKSteps ==
    ASSUME BridgeTypeOK, VisitedRun, VisitedCommand, VisitedStatus, BridgeNext,
           NEW t \in Tasks, RunOK(t), SentOK(t), WorkOK(t)
    PROVE  WorkOK(t)'
<1>0. /\ worker \in [Tasks -> Statuses] /\ sends \in [Tasks -> [Items -> Nat]]
      /\ run \in [Tasks -> [phase : Phases, runtime : BOOLEAN]]
  BY DEF BridgeTypeOK
<1>1. sends[t][Start] = 0 => worker'[t] = "absent"
  BY Submissions, WorkerSteps DEF WorkOK, SentOK
<1>2. sends'[t][Start] = 0 => sends[t][Start] = 0
  <2>1. CASE \E u \in Tasks : Submit(u)
    <3>1. PICK u \in Tasks : Submit(u)
      BY <2>1
    <3>2. sends' = [sends EXCEPT ![u][bridge.item] = @ + 1] /\ bridge.item \in Items
      BY <3>1, SubmittedItem DEF Submit
    <3> QED BY <1>0, <3>2, Submissions
  <2>2. CASE \E u \in Tasks, i \in Items : WorkerHandles(u, i)
    BY <2>2 DEF WorkerHandles
  <2> QED BY <2>1, <2>2, SubmissionSteps
<1>3. ASSUME run[t].phase \in {"none", "queued", "finished"}
      PROVE  worker'[t] \in Over \union {"absent"}
  <2>1. \A i \in Items : <<t, i>> \notin net
    BY <1>3, OnTheWay
  <2>2. worker[t] \in Over \union {"absent"}
    BY <1>3 DEF WorkOK
  <2> QED BY <2>1, <2>2, WorkerSteps, Submissions DEF Over
<1>4. ASSUME run'[t].phase \in {"none", "queued", "finished"},
             run[t].phase \notin {"none", "queued", "finished"}
      PROVE  worker'[t] \in Over \union {"absent"}
  <2>1. Publish(t)
    <3>1. ~Kept(t) /\ ~StartRun(t) /\ ~ClaimRun(t)
      BY <1>4 DEF Kept, StartRun, ClaimRun
    <3>2. \A a \in Actions : ~Control(t, a)
      BY <1>4, ControlShape
    <3>3. ~Doubted(t) /\ ~Acknowledged(t) /\ ~ClaimCommand(t)
      <4>1. ~Doubted(t) /\ ~ClaimCommand(t)
        BY <1>4, VisitShape DEF Doubted, Kept, Advanced
      <4>2. ASSUME Acknowledged(t) PROVE run'[t].phase = "attached"
        <5>1. run'[t] = [phase |-> "attached", runtime |-> TRUE] \/ (run'[t] = run[t] /\ run[t].phase = "attached")
          BY <4>2, VisitShape DEF Advanced
        <5> QED BY <5>1
      <4> QED BY <1>4, <4>1, <4>2
    <3> QED BY <3>1, <3>2, <3>3, RunSteps, VisitShape, RestartShape
  <2>2. /\ At(t, "watch") /\ UNCHANGED worker /\ PhaseOf(bridge.status) = "finished"
    <3>1. /\ At(t, "watch") /\ UNCHANGED worker
      BY <2>1 DEF Publish
    <3>2. run'[t].phase = PhaseOf(bridge.status)
      BY <1>4, <2>1, VisitShape
    <3> QED BY <1>4, <3>1, <3>2 DEF PhaseOf
  <2> QED BY <2>2 DEF VisitedStatus, Visiting, Awaits, At, PhaseOf
<1> QED BY <1>1, <1>2, <1>3, <1>4 DEF WorkOK

LEMMA PiStays == BridgeNext => UNCHANGED pi
<1>1. CASE \E u \in Tasks : OwnStep(u)
  BY <1>1 DEF OwnStep, StartRun, StartDraft, SaveDraft, SaveNotes, PublishSnapshot, WorkerMoves,
              WorkerHandles, Control
<1>2. CASE \E u \in Tasks : Tick(u)
  BY <1>2 DEF Tick, ClaimRun, TakeRun, Submit, Acknowledged, Unconfirmed, CheckRun, ReadStatus,
              ClaimCommand, Publish, GiveUp
<1> QED BY <1>1, <1>2, StepKinds DEF ListRuns, Abort, Restart

LEMMA OneOKSteps ==
    ASSUME BridgeTypeOK, VisitedRun, VisitedCommand, BridgeNext, OneOK, \A t \in Tasks : RunOK(t)
    PROVE  OneOK'
<1>0. run \in [Tasks -> [phase : Phases, runtime : BOOLEAN]]
  BY DEF BridgeTypeOK
<1>1. SUFFICES ASSUME ~pi, NEW t \in Tasks, t \in Busy' PROVE \A u \in Busy' : u = t
  BY PiStays DEF OneOK, Busy
<1>2. ASSUME NEW u \in Tasks, u \in Busy', u \notin Busy
      PROVE  Busy \ {u} = {} /\ \A v \in Tasks \ {u} : run'[v] = run[v]
  <2>1. \/ ClaimRun(u)
        \/ \E a \in Actions : Control(u, a) /\ run[u].phase = "finished"
    <3>1. ~Kept(u) /\ ~StartRun(u)
      BY <1>0, <1>2 DEF Busy, Kept, StartRun
    <3>2. ~Acknowledged(u) /\ ~Unconfirmed(u) /\ ~CheckRun(u) /\ ~ClaimCommand(u) /\ ~Publish(u)
      BY <1>2, VisitShape DEF Busy
    <3>3. ~Restart
      <4>1. InPhase(u, {"dispatching"}) = {} /\ run[u].phase # "dispatching"
        BY <1>2 DEF Busy, RunOK
      <4> QED BY <3>1, <4>1, RestartShape
    <3>4. ASSUME NEW a \in Actions, Control(u, a) PROVE run[u].phase = "finished"
      BY <1>2, <3>4, ControlShape DEF Busy
    <3> QED BY <3>1, <3>2, <3>3, <3>4, RunSteps
  <2>2. CASE ClaimRun(u)
    BY <1>0, <1>1, <1>2, <2>2 DEF ClaimRun, Busy
  <2>3. ASSUME NEW a \in Actions, Control(u, a), run[u].phase = "finished"
        PROVE  Busy \ {u} = {} /\ \A v \in Tasks \ {u} : run'[v] = run[v]
    BY <1>0, <1>1, <2>3 DEF Control, Admits
  <2> QED BY <2>1, <2>2, <2>3
<1>3. CASE t \in Busy /\ Busy' \subseteq Busy
  BY <1>1, <1>3 DEF OneOK
<1>4. CASE \E u \in Busy' : u \notin Busy
  <2>1. PICK u \in Tasks : u \in Busy' /\ u \notin Busy
    BY <1>4 DEF Busy
  <2>2. \A v \in Busy' : v = u
    BY <1>2, <2>1 DEF Busy
  <2> QED BY <1>1, <2>2
<1> QED BY <1>1, <1>3, <1>4

---------------------------------------------------------------------------
(* What the task says.                                                     *)

\* The steps that change a run, its task or its draft.
LEMMA TaskSteps ==
    ASSUME BridgeTypeOK, BridgeNext, NEW t \in Tasks
    PROVE  \/ Kept(t) /\ task'[t] = task[t] /\ draft'[t] = draft[t]
           \/ StartRun(t) \/ StartDraft(t) \/ SaveDraft(t) \/ SaveNotes(t) \/ PublishSnapshot(t)
           \/ \E a \in Actions : Control(t, a)
           \/ ClaimRun(t) \/ Acknowledged(t) \/ Unconfirmed(t) \/ CheckRun(t)
           \/ ClaimCommand(t) \/ Publish(t) \/ Restart
<1>0. /\ run \in [Tasks -> [phase : Phases, runtime : BOOLEAN]] /\ cmds \in [Tasks -> Seq(Commands)]
      /\ task \in [Tasks -> {"waiting", "working", "draft_ready", "failed"}]
      /\ draft \in [Tasks -> {"none", "writing", "lost", "overtaken"}]
  BY DEF BridgeTypeOK
<1>1. CASE UNCHANGED <<run, cmds, task, draft>>
  BY <1>1 DEF Kept
<1>2. ASSUME NEW u \in Tasks, OwnStep(u)
      PROVE  \/ Kept(t) /\ task'[t] = task[t] /\ draft'[t] = draft[t]
             \/ StartRun(t) \/ StartDraft(t) \/ SaveDraft(t) \/ SaveNotes(t) \/ PublishSnapshot(t)
             \/ \E a \in Actions : Control(t, a)
  <2>1. CASE StartRun(u) \/ StartDraft(u)
    BY <1>0, <2>1 DEF StartRun, StartDraft, Kept
  <2>2. CASE SaveDraft(u) \/ SaveNotes(u)
    BY <1>0, <2>2 DEF SaveDraft, SaveNotes, Kept
  <2>3. CASE PublishSnapshot(u)
    BY <1>0, <2>3 DEF PublishSnapshot, Show, Overtake, Kept
  <2>4. ASSUME NEW a \in Actions, Control(u, a), u # t
        PROVE  Kept(t) /\ task'[t] = task[t] /\ draft'[t] = draft[t]
    BY <1>0, <2>4 DEF Control, Overtake, Kept
  <2>5. CASE WorkerMoves(u) \/ \E i \in Items : WorkerHandles(u, i)
    BY <1>1, <2>5 DEF WorkerMoves, WorkerHandles, Kept
  <2> QED BY <1>2, <2>1, <2>2, <2>3, <2>4, <2>5 DEF OwnStep
<1>3. ASSUME NEW u \in Tasks, Tick(u)
      PROVE  \/ Kept(t) /\ task'[t] = task[t] /\ draft'[t] = draft[t]
             \/ ClaimRun(t) \/ Acknowledged(t) \/ Unconfirmed(t) \/ CheckRun(t)
             \/ ClaimCommand(t) \/ Publish(t)
  <2>1. CASE ClaimRun(u) \/ Acknowledged(u) \/ ClaimCommand(u)
    BY <1>0, <2>1 DEF ClaimRun, Acknowledged, ClaimCommand, Kept
  <2>2. CASE Unconfirmed(u) \/ CheckRun(u)
    BY <1>0, <2>2 DEF Unconfirmed, CheckRun, PublishReview, Show, Overtake, Kept
  <2>3. CASE Publish(u)
    BY <1>0, <2>3 DEF Publish, Show, Overtake, Kept
  <2>4. CASE TakeRun(u) \/ Submit(u) \/ ReadStatus(u) \/ GiveUp(u)
    BY <2>4 DEF TakeRun, Submit, ReadStatus, GiveUp, Kept
  <2> QED BY <1>3, <2>1, <2>2, <2>3, <2>4 DEF Tick
<1>4. CASE ListRuns \/ Abort
  BY <1>1, <1>4 DEF ListRuns, Abort
<1> QED BY <1>2, <1>3, <1>4, StepKinds

LEMMA TellOKSteps ==
    ASSUME BridgeTypeOK, VisitedRun, VisitedCommand, BridgeNext, NEW t \in Tasks, RunOK(t), TellOK(t)
    PROVE  TellOK(t)'
<1>0. /\ run \in [Tasks -> [phase : Phases, runtime : BOOLEAN]]
      /\ task \in [Tasks -> {"waiting", "working", "draft_ready", "failed"}]
      /\ draft \in [Tasks -> {"none", "writing", "lost", "overtaken"}]
  BY DEF BridgeTypeOK
<1> DEFINE Tells(state, phase, made) ==
              /\ state = "working" => \/ phase \in {"queued", "dispatching", "attached"}
                                     \/ made \in {"writing", "lost"}
              /\ state \in {"draft_ready", "failed"} => phase \in {"none", "finished"}
              /\ made = "writing" => state = "working" /\ phase \in {"none", "finished"}
<1>1. SUFFICES ASSUME ~Mandated(t)
               PROVE  Tells(task'[t], run'[t].phase, draft'[t])
  <2>1. UNCHANGED pi
    BY PiStays
  <2> QED BY <2>1 DEF TellOK, Mandated
<1>2. Tells(task[t], run[t].phase, draft[t])
  BY <1>1 DEF TellOK
<1>3. CASE Kept(t) /\ task'[t] = task[t] /\ draft'[t] = draft[t]
  BY <1>2, <1>3 DEF Kept
<1>4. CASE StartRun(t) \/ StartDraft(t) \/ SaveDraft(t) \/ SaveNotes(t)
  BY <1>0, <1>2, <1>4 DEF StartRun, StartDraft, SaveDraft, SaveNotes, DraftCounts
<1>5. ASSUME NEW a \in Actions, Control(t, a)
      PROVE  Tells(task'[t], run'[t].phase, draft'[t])
  BY <1>0, <1>2, <1>5, ControlShape DEF Control, Overtake
<1>6. CASE ClaimRun(t)
  BY <1>0, <1>2, <1>6 DEF ClaimRun
<1>7. CASE Acknowledged(t) \/ ClaimCommand(t)
  <2>1. UNCHANGED <<task, draft>>
    BY <1>7 DEF Acknowledged, ClaimCommand
  <2>2. /\ run[t].phase \in {"dispatching", "attached"}
        /\ run'[t] = [phase |-> "attached", runtime |-> TRUE] \/ run'[t] = run[t]
    BY <1>7, VisitShape DEF Advanced, Kept
  <2> QED BY <1>2, <2>1, <2>2
<1>8. ASSUME Show(t, "waiting"), run'[t].phase = "review"
      PROVE  Tells(task'[t], run'[t].phase, draft'[t])
  BY <1>0, <1>2, <1>8 DEF Show, Overtake
<1>9. CASE Unconfirmed(t) \/ CheckRun(t)
  <2>1. UNCHANGED <<task, draft, run, cmds>> \/ PublishReview(t)
    BY <1>9 DEF Unconfirmed, CheckRun
  <2> QED BY <1>0, <1>3, <1>8, <2>1 DEF PublishReview, Kept
<1>10. CASE Publish(t)
  <2>1. run[t].phase = "attached"
    BY <1>10, VisitShape
  <2>2. CASE NothingNew(t)
    <3>1. Show(t, StateOf(bridge.status)) /\ run'[t].phase = PhaseOf(bridge.status)
      BY <1>0, <1>1, <1>10, <2>2 DEF Publish, ShownStates
    <3>2. task'[t] = StateOf(bridge.status) /\ draft'[t] # "writing"
      BY <1>0, <1>2, <2>1, <3>1 DEF Show, Overtake
    <3> QED BY <3>1, <3>2 DEF StateOf, PhaseOf, Over
  <2>3. CASE ~NothingNew(t)
    BY <1>2, <1>10, <2>3 DEF Publish
  <2> QED BY <2>2, <2>3
<1>11. CASE Restart
  <2>1. /\ draft'[t] = "none"
        /\ task'[t] = IF run'[t].phase = "review" THEN "waiting"
                      ELSE IF task[t] = "working" /\ run'[t].phase \in {"none", "finished"}
                           THEN "failed" ELSE task[t]
    BY <1>11 DEF Restart
  <2>2. run'[t].phase = "review" \/ run'[t].phase = run[t].phase
    BY <1>11, RestartShape DEF Doubted, Kept
  <2>3. run[t].phase \in Phases
    BY <1>0
  <2> QED BY <1>2, <2>1, <2>2, <2>3 DEF Phases
<1> QED BY <1>1, <1>3, <1>4, <1>5, <1>6, <1>7, <1>9, <1>10, <1>11, TaskSteps DEF PublishSnapshot

---------------------------------------------------------------------------
(* The theorems.                                                           *)

LEMMA BInvInit == BridgeInit => BInv
<1> SUFFICES ASSUME BridgeInit PROVE BInv
  OBVIOUS
<1>0. Start \in Items
  BY Submissions
<1>1. BridgeTypeOK
  <2>1. cmds \in [Tasks -> Seq(Commands)] /\ \A t \in Tasks : Len(cmds[t]) <= MaxCommands
    BY BridgeAssumption, EmptySeq DEF BridgeInit
  <2> QED BY <2>1 DEF BridgeInit, BridgeTypeOK, Phases, Statuses, Idle
<1>2. \A t \in Tasks : Len(cmds[t]) = 0 /\ cmds[t] = <<>> /\ DOMAIN cmds[t] = {}
  BY DEF BridgeInit
<1>3. \A t \in Tasks : \A phases : InPhase(t, phases) = {}
  BY <1>2 DEF InPhase
<1>4. ASSUME NEW t \in Tasks
      PROVE  RunOK(t) /\ SentOK(t) /\ WorkOK(t) /\ StopOK(t) /\ TellOK(t)
  <2>1. RunOK(t)
    BY <1>2, <1>3 DEF BridgeInit, RunOK
  <2>2. SentOK(t)
    <3>1. \A i \in Items : sends[t][i] = 0
      BY DEF BridgeInit
    <3>2. net = {} /\ acked = {} /\ ~run[t].runtime
      BY DEF BridgeInit
    <3>3. 1 .. MaxCommands \subseteq Items
      BY DEF Items
    <3> QED BY <1>0, <1>3, <3>1, <3>2, <3>3 DEF SentOK
  <2>3. WorkOK(t)
    BY DEF BridgeInit, WorkOK
  <2>4. StopOK(t)
    BY <1>2 DEF StopOK
  <2>5. TellOK(t)
    BY DEF BridgeInit, TellOK
  <2> QED BY <2>1, <2>2, <2>3, <2>4, <2>5
<1>5. OneOK /\ VisitedRun /\ VisitedCommand /\ VisitedStatus
  BY DEF BridgeInit, Idle, OneOK, Busy, VisitedRun, VisitedCommand, VisitedStatus, Visiting, Awaits
<1> QED BY <1>1, <1>4, <1>5 DEF BInv

LEMMA BInvSteps == BInv /\ [BridgeNext]_bridgeVars => BInv'
<1> SUFFICES ASSUME BInv, [BridgeNext]_bridgeVars PROVE BInv'
  OBVIOUS
<1>1. CASE BridgeNext
  <2>1. BridgeTypeOK' /\ OneOK' /\ VisitedRun' /\ VisitedCommand' /\ VisitedStatus'
    BY <1>1, TypeSteps, OneOKSteps, VisitedRunSteps, VisitedCommandSteps, VisitedStatusSteps DEF BInv
  <2>2. ASSUME NEW t \in Tasks
        PROVE  RunOK(t)' /\ SentOK(t)' /\ WorkOK(t)' /\ StopOK(t)' /\ TellOK(t)'
    BY <1>1, <2>2, RunOKSteps, SentOKSteps, WorkOKSteps, StopOKSteps, TellOKSteps DEF BInv
  <2> QED BY <2>1, <2>2 DEF BInv
<1>2. CASE UNCHANGED bridgeVars
  <2>1. UNCHANGED <<pi, task, draft, run, cmds, bridge, net, worker, acked, sends>>
    BY <1>2 DEF bridgeVars
  <2>2. BridgeTypeOK' /\ OneOK' /\ VisitedRun' /\ VisitedCommand' /\ VisitedStatus'
    BY <2>1 DEF BInv, BridgeTypeOK, OneOK, Busy, VisitedRun, VisitedCommand, VisitedStatus,
                Visiting, InPhase
  <2>3. \A t \in Tasks : RunOK(t)' /\ SentOK(t)' /\ WorkOK(t)' /\ StopOK(t)' /\ TellOK(t)'
    BY <2>1 DEF BInv, RunOK, SentOK, Unstarted, WorkOK, StopOK, TellOK, Mandated, InPhase
  <2> QED BY <2>2, <2>3 DEF BInv
<1> QED BY <1>1, <1>2

\* The inductive invariant: what is known of every run, and of the one being visited.
THEOREM BridgeInvariant == BridgeSpec => []BInv
<1> QED BY BInvInit, BInvSteps, PTL DEF BridgeSpec

\* The type invariant of the bridge (burrow_agent_runs, burrow_agent_commands, tick()).
THEOREM BridgeTypes == BridgeSpec => []BridgeTypeOK
<1>1. BInv => BridgeTypeOK
  BY DEF BInv
<1> QED BY <1>1, BridgeInvariant, PTL

\* "Nothing will be repeated automatically": neither a failure nor a restart submits a
\* start or an instruction a second time.
THEOREM NothingRepeated == BridgeSpec => []NeverRepeated
<1>1. BInv => NeverRepeated
  BY DEF BInv, SentOK, NeverRepeated
<1> QED BY <1>1, BridgeInvariant, PTL

\* One run at a time holds the workspace that all runs of an Orb target share.
THEOREM WorkspaceHasOneRun == BridgeSpec => []OneRunPerWorkspace
<1>1. ASSUME BInv PROVE OneRunPerWorkspace
  <2>1. SUFFICES ASSUME ~pi PROVE Cardinality(Busy) <= 1
    BY DEF OneRunPerWorkspace
  <2>2. CASE Busy = {}
    BY <2>2, FS_EmptySet
  <2>3. CASE Busy # {}
    <3>1. PICK t : Busy = {t}
      BY <1>1, <2>1, <2>3 DEF BInv, OneOK
    <3>2. Cardinality({t}) = 1
      BY FS_Singleton
    <3> QED BY <3>1, <3>2
  <2> QED BY <2>2, <2>3
<1> QED BY <1>1, BridgeInvariant, PTL

\* A finished run left nothing at work at the worker, and nothing on its way.
THEOREM FinishedLeavesNoWork == BridgeSpec => []NoOrphanedWork
<1>1. BInv => NoOrphanedWork
  BY OnTheWay DEF BInv, WorkOK, NoOrphanedWork
<1> QED BY <1>1, BridgeInvariant, PTL

\* A finished run has no instruction waiting.
THEOREM InstructionsAreHeard == BridgeSpec => []NothingPassedOver
<1>1. ASSUME BInv, NEW t \in Tasks, run[t].phase = "finished"
      PROVE  InPhase(t, {"queued", "dispatching"}) = {}
  <2>1. InPhase(t, {"queued"}) = {} /\ InPhase(t, {"dispatching"}) = {}
    BY <1>1 DEF BInv, RunOK
  <2> QED BY <2>1 DEF InPhase
<1>2. BInv => NothingPassedOver
  BY <1>1 DEF NothingPassedOver
<1> QED BY <1>2, BridgeInvariant, PTL

\* After an accepted Stop the run has no authority to book, ever again.
THEOREM StopIsFinal == BridgeSpec => []StopEndsAuthority
<1>1. ASSUME BInv, NEW t \in Tasks, NEW i \in 1 .. Len(cmds[t]), cmds[t][i].action = "stop"
      PROVE  ~Authority(t)
  <2>1. cmds[t] \in Seq(Commands) /\ DOMAIN cmds[t] = 1 .. Len(cmds[t])
    BY <1>1 DEF BInv, BridgeTypeOK
  <2> QED BY <1>1, <2>1 DEF BInv, StopOK, Authority
<1>2. BInv => StopEndsAuthority
  BY <1>1 DEF StopEndsAuthority
<1> QED BY <1>2, BridgeInvariant, PTL

\* The task tells what its run does, whatever drafts are saved late.
THEOREM TaskIsHonest == BridgeSpec => []TaskTellsTheRun
<1>1. BInv => TaskTellsTheRun
  BY DEF BInv, TellOK, TaskTellsTheRun
<1> QED BY <1>1, BridgeInvariant, PTL

\* A submission is the one in the bridge's hands.
LEMMA OneIsSent ==
    ASSUME BInv, [BridgeNext]_bridgeVars, NEW t \in Tasks, NEW i \in Items, sends'[t][i] # sends[t][i]
    PROVE  /\ bridge.at = "submit" /\ bridge.task = t /\ bridge.item = i /\ Visiting
           /\ sends[t][i] = 0 /\ UNCHANGED <<run, cmds>>
<1>0. sends \in [Tasks -> [Items -> Nat]]
  BY DEF BInv, BridgeTypeOK
<1>1. BridgeNext /\ ~UNCHANGED sends
  BY DEF bridgeVars
<1>2. ~\E u \in Tasks, n \in Items : WorkerHandles(u, n)
  BY <1>1 DEF WorkerHandles
<1>3. PICK u \in Tasks : Submit(u)
  BY <1>1, <1>2, SubmissionSteps DEF BInv
<1>4. /\ bridge.at = "submit" /\ bridge.task = u /\ bridge.item \in Items /\ Visiting
      /\ sends' = [sends EXCEPT ![u][bridge.item] = @ + 1] /\ UNCHANGED <<run, cmds>>
  BY <1>3, SubmittedItem DEF BInv, Submit, At, Visiting, Awaits
<1>5. u = t /\ bridge.item = i
  BY <1>0, <1>4
<1> QED BY <1>4, <1>5 DEF BInv, VisitedCommand

\* Instructions reach the worker's door in the order the owner gave them.
SentInOrder ==
    [][\A t \in Tasks, i \in 1..MaxCommands :
          sends'[t][i] > sends[t][i] =>
              \A j \in 1..Len(cmds[t]) : j < i => cmds[t][j].phase \in {"sent", "discarded"}
      ]_bridgeVars

\* Instructions are submitted in the order the owner gave them.
THEOREM OrderIsKept == BridgeSpec => SentInOrder
<1>1. ASSUME BInv, [BridgeNext]_bridgeVars
      PROVE  [\A t \in Tasks, i \in 1 .. MaxCommands :
                sends'[t][i] > sends[t][i] =>
                    \A j \in 1 .. Len(cmds[t]) : j < i => cmds[t][j].phase \in {"sent", "discarded"}
             ]_bridgeVars
  <2>1. SUFFICES ASSUME NEW t \in Tasks, NEW i \in 1 .. MaxCommands, sends'[t][i] > sends[t][i],
                        NEW j \in 1 .. Len(cmds[t]), j < i
                 PROVE  cmds[t][j].phase \in {"sent", "discarded"}
    OBVIOUS
  <2>2. i \in Items /\ i \notin {Start, NoItem}
    BY BridgeAssumption, Submissions DEF Start, NoItem
  <2>3. sends \in [Tasks -> [Items -> Nat]]
    BY <1>1 DEF BInv, BridgeTypeOK
  <2>4. sends'[t][i] # sends[t][i]
    BY <2>1, <2>2, <2>3
  <2>5. bridge.at = "submit" /\ bridge.task = t /\ bridge.item = i
    BY <1>1, <2>2, <2>4, OneIsSent
  <2> QED BY <1>1, <2>1, <2>2, <2>5 DEF BInv, VisitedCommand
<1> QED BY <1>1, BridgeInvariant, PTL DEF BridgeSpec, SentInOrder

\* What a Stop discards stays discarded and is never submitted, not even by a tick
\* that remembered it before the Stop; a run stopped in the queue never starts.
DiscardedIsUnsent ==
    [][\A t \in Tasks :
          /\ \A i \in InPhase(t, {"discarded"}) :
                cmds'[t][i].phase = "discarded" /\ sends'[t][i] = 0
          /\ run[t].phase \in {"attached", "finished"} /\ ~run[t].runtime => sends'[t][Start] = 0
      ]_bridgeVars

\* What a Stop discarded stays discarded and is never submitted; a run stopped in the queue
\* is never started.
THEOREM StoppedIsUnsent == BridgeSpec => DiscardedIsUnsent
<1>1. ASSUME BInv, [BridgeNext]_bridgeVars, NEW t \in Tasks, NEW i \in InPhase(t, {"discarded"})
      PROVE  cmds'[t][i].phase = "discarded" /\ sends'[t][i] = 0
  <2>1. /\ i \in 1 .. Len(cmds[t]) /\ cmds[t][i].phase = "discarded"
        /\ Len(cmds[t]) \in Nat /\ Len(cmds[t]) <= MaxCommands
    BY <1>1 DEF InPhase, BInv, BridgeTypeOK
  <2>2. i \in 1 .. MaxCommands /\ i # Start /\ i \in Items
    BY <2>1, BridgeAssumption, Submissions DEF Start
  <2>3. sends[t][i] = 0
    BY <1>1, <2>2 DEF BInv, SentOK, InPhase
  <2>4. sends'[t][i] = 0
    <3>1. SUFFICES ASSUME sends'[t][i] # sends[t][i] PROVE FALSE
      BY <2>3
    <3>2. bridge.at = "submit" /\ bridge.task = t /\ bridge.item = i
      BY <1>1, <2>2, <3>1, OneIsSent
    <3>3. i \in InPhase(t, {"dispatching"})
      BY <1>1, <2>2, <3>2 DEF BInv, VisitedCommand
    <3> QED BY <2>1, <3>3 DEF InPhase
  <2>5. cmds'[t][i].phase = "discarded"
    <3>1. CASE cmds'[t] = cmds[t]
      BY <2>1, <3>1
    <3>2. CASE Doubted(t) \/ \E a, phase : Recorded(t, a, phase)
      BY <2>1, <3>2 DEF Doubted, Recorded
    <3>3. ASSUME NEW phase, Advanced(t, bridge.item, phase), bridge.item # i
          PROVE  cmds'[t][i].phase = "discarded"
      BY <2>1, <3>3 DEF Advanced
    <3>4. ASSUME NEW a \in Actions, Control(t, a) PROVE \E p : Recorded(t, a, p)
      BY <1>1, <3>4, ControlShape DEF BInv
    <3>5. CASE Acknowledged(t) \/ ClaimCommand(t)
      <4>1. bridge.item \in InPhase(t, {"dispatching"}) => bridge.item # i
        BY <2>1 DEF InPhase
      <4>2. StillQueued(t) => bridge.item # i
        BY <2>1 DEF StillQueued
      <4> QED BY <1>1, <3>1, <3>3, <3>5, <4>1, <4>2, VisitShape DEF BInv, Kept
    <3>6. CASE Unconfirmed(t) \/ CheckRun(t) \/ Publish(t) \/ Restart
      BY <1>1, <3>1, <3>2, <3>6, VisitShape, RestartShape DEF BInv, Kept
    <3>7. CASE BridgeNext
      BY <1>1, <3>1, <3>2, <3>4, <3>5, <3>6, <3>7, RunSteps DEF BInv, Kept, StartRun, ClaimRun
    <3> QED BY <1>1, <3>1, <3>7 DEF bridgeVars
  <2> QED BY <2>4, <2>5
<1>2. ASSUME BInv, [BridgeNext]_bridgeVars, NEW t \in Tasks,
             run[t].phase \in {"attached", "finished"} /\ ~run[t].runtime
      PROVE  sends'[t][Start] = 0
  <2>1. sends[t][Start] = 0 /\ Start \in Items
    BY <1>2, Submissions DEF BInv, SentOK, Unstarted
  <2>2. SUFFICES ASSUME sends'[t][Start] # sends[t][Start] PROVE FALSE
    BY <2>1
  <2>3. Visiting /\ bridge.task = t /\ bridge.item = Start
    BY <1>2, <2>1, <2>2, OneIsSent
  <2> QED BY <1>2, <2>3 DEF BInv, VisitedRun
<1>3. BInv /\ [BridgeNext]_bridgeVars =>
        [\A t \in Tasks :
            /\ \A i \in InPhase(t, {"discarded"}) :
                  cmds'[t][i].phase = "discarded" /\ sends'[t][i] = 0
            /\ run[t].phase \in {"attached", "finished"} /\ ~run[t].runtime => sends'[t][Start] = 0
        ]_bridgeVars
  BY <1>1, <1>2
<1> QED BY <1>3, BridgeInvariant, PTL DEF BridgeSpec, DiscardedIsUnsent
---------------------------------------------------------------------------
(* The bridge implements DeliverOnce, run by run.                          *)

LettersOf(t) == [i \in Items |-> LetterOf(t, i)]
DoneOf(t) == {i \in Items : <<t, i>> \in acked}

LEMMA StartLetter ==
    ASSUME BInv, NEW t \in Tasks
    PROVE  /\ LetterOf(t, Start) = "none" <=> run[t].phase = "none"
           /\ LetterOf(t, Start) = "kept" <=> run[t].phase = "queued"
           /\ LetterOf(t, Start) = "taken" <=> run[t].phase = "dispatching"
           /\ LetterOf(t, Start) = "settled" <=> run[t].runtime
           /\ LetterOf(t, Start) = "doubtful" <=> run[t].phase = "review" /\ ~run[t].runtime
           /\ LetterOf(t, Start) = "withdrawn" <=>
                run[t].phase \in {"attached", "finished"} /\ ~run[t].runtime
<1>1. run[t] \in [phase : Phases, runtime : BOOLEAN] /\ RunOK(t)
  BY DEF BInv, BridgeTypeOK
<1>2. run[t].runtime => run[t].phase \in {"attached", "finished", "review"}
  BY <1>1 DEF RunOK, Phases
<1> QED BY <1>1, <1>2 DEF LetterOf, Phases

LEMMA CommandLetter ==
    ASSUME BInv, NEW t \in Tasks, NEW i \in 1 .. MaxCommands
    PROVE  /\ i \in Items /\ i # Start
           /\ LetterOf(t, i) = "none" <=> i > Len(cmds[t])
           /\ i <= Len(cmds[t]) =>
                /\ i \in 1 .. Len(cmds[t])
                /\ LetterOf(t, i) = "kept" <=> cmds[t][i].phase = "queued"
                /\ LetterOf(t, i) = "taken" <=> cmds[t][i].phase = "dispatching"
                /\ LetterOf(t, i) = "settled" <=> cmds[t][i].phase = "sent"
                /\ LetterOf(t, i) = "doubtful" <=> cmds[t][i].phase = "review"
                /\ LetterOf(t, i) = "withdrawn" <=> cmds[t][i].phase = "discarded"
<1>1. cmds[t] \in Seq(Commands) /\ Len(cmds[t]) \in Nat /\ MaxCommands \in Nat
  BY BridgeAssumption DEF BInv, BridgeTypeOK
<1>2. i \in Items /\ i # Start
  BY <1>1, Submissions DEF Start
<1>3. ASSUME i <= Len(cmds[t])
      PROVE  i \in 1 .. Len(cmds[t]) /\ cmds[t][i].phase \in CommandPhases
  <2>1. i \in 1 .. Len(cmds[t])
    BY <1>1, <1>3
  <2>2. cmds[t][i] \in Commands
    BY <1>1, <2>1, ElementOfSeq
  <2> QED BY <2>1, <2>2 DEF Commands
<1> QED BY <1>1, <1>2, <1>3 DEF LetterOf, CommandPhases

\* What the bridge hands over and what the worker carries out, while runs and commands stay.
LEMMA LettersStay ==
    ASSUME BridgeTypeOK, NEW t \in Tasks, Kept(t)
    PROVE  LettersOf(t)' = LettersOf(t)
BY DEF Kept, LettersOf, LetterOf

LEMMA HandingOver ==
    ASSUME BInv, [BridgeNext]_bridgeVars, NEW t \in Tasks, sends'[t] # sends[t]
    PROVE  \E n \in Items : Delivery(t)!HandOver(n)
<1>0. sends \in [Tasks -> [Items -> Nat]] /\ sends' \in [Tasks -> [Items -> Nat]]
  BY BInvSteps DEF BInv, BridgeTypeOK
<1>1. PICK n \in Items : sends'[t][n] # sends[t][n]
  BY <1>0
<1>2. /\ bridge.at = "submit" /\ bridge.task = t /\ bridge.item = n /\ Visiting
      /\ sends[t][n] = 0 /\ UNCHANGED <<run, cmds>>
  BY <1>1, OneIsSent
<1>3. BridgeNext /\ ~UNCHANGED sends
  BY <1>1 DEF bridgeVars
<1>4. ~\E u \in Tasks, i \in Items : WorkerHandles(u, i)
  BY <1>3 DEF WorkerHandles
<1>5. PICK u \in Tasks : Submit(u)
  BY <1>3, <1>4, SubmissionSteps DEF BInv
<1>6. sends'[t] = [sends[t] EXCEPT ![n] = 1] /\ acked' = acked
  BY <1>0, <1>2, <1>5 DEF Submit, At
<1>7. LetterOf(t, n) = "taken"
  <2>1. CASE n = Start
    BY <1>2, <2>1, StartLetter DEF BInv, VisitedRun
  <2>2. CASE n # Start
    <3>1. n \in InPhase(t, {"dispatching"}) /\ n \in 1 .. MaxCommands
      BY <1>2, <2>2, Submissions, BridgeAssumption DEF BInv, VisitedCommand, Items, Start
    <3>2. n <= Len(cmds[t]) /\ cmds[t][n].phase = "dispatching"
      BY <3>1 DEF InPhase, BInv, BridgeTypeOK
    <3> QED BY <3>1, <3>2, CommandLetter
  <2> QED BY <2>1, <2>2
<1>8. LettersOf(t)' = LettersOf(t)
  BY <1>2, LettersStay DEF Kept, BInv
<1> QED BY <1>2, <1>6, <1>7, <1>8 DEF Delivery!HandOver, LettersOf

LEMMA CarryingOut ==
    ASSUME BInv, [BridgeNext]_bridgeVars, NEW t \in Tasks, DoneOf(t)' # DoneOf(t)
    PROVE  \E n \in Items : Delivery(t)!CarryOut(n)
<1>1. BridgeNext /\ acked' # acked
  BY DEF bridgeVars, DoneOf
<1>2. PICK u \in Tasks, n \in Items : WorkerHandles(u, n)
  BY <1>1, SubmissionSteps DEF BInv, Submit
<1>3. /\ <<u, n>> \in net /\ acked' = acked \union {<<u, n>>}
      /\ UNCHANGED <<run, cmds, sends>>
  BY <1>1, <1>2 DEF WorkerHandles
<1>4. u = t /\ <<t, n>> \notin acked
  BY <1>3 DEF DoneOf
<1>5. sends[t][n] = 1
  BY <1>3, <1>4 DEF BInv, SentOK
<1>6. DoneOf(t)' = DoneOf(t) \union {n} /\ n \notin DoneOf(t)
  BY <1>3, <1>4 DEF DoneOf
<1>7. LettersOf(t)' = LettersOf(t)
  BY <1>3, LettersStay DEF Kept, BInv
<1> QED BY <1>3, <1>5, <1>6, <1>7 DEF Delivery!CarryOut, LettersOf, DoneOf

\* Runs and commands move while nothing is handed over or carried out.
LEMMA ItemKinds == \A k \in Items : k = Start \/ k \in 1 .. MaxCommands
BY BridgeAssumption DEF Items, Start

LEMMA OneLetter ==
    ASSUME NEW t \in Tasks, NEW n \in Items, NEW s, LetterOf(t, n)' = s,
           \A k \in Items : k # n => LetterOf(t, k)' = LetterOf(t, k)
    PROVE  LettersOf(t)' = [LettersOf(t) EXCEPT ![n] = s]
BY DEF LettersOf

LEMMA SameCommands ==
    ASSUME NEW t \in Tasks, cmds'[t] = cmds[t]
    PROVE  \A k \in 1 .. MaxCommands : LetterOf(t, k)' = LetterOf(t, k)
<1>1. \A k \in 1 .. MaxCommands : k # Start
  BY BridgeAssumption DEF Start
<1> QED BY <1>1 DEF LetterOf

LEMMA SameStart ==
    ASSUME NEW t \in Tasks, run'[t] = run[t]
    PROVE  LetterOf(t, Start)' = LetterOf(t, Start)
BY DEF LetterOf

\* A step on the start of the run.
LEMMA StartLetterSteps ==
    ASSUME BInv, NEW t \in Tasks, UNCHANGED <<sends, acked>>,
           StartRun(t) \/ (ClaimRun(t) /\ ~Kept(t))
    PROVE  Delivery(t)!Give(Start) \/ Delivery(t)!Take(Start)
<1>0. /\ run \in [Tasks -> [phase : Phases, runtime : BOOLEAN]] /\ Start \in Items /\ RunOK(t)
      /\ Items = 0 .. MaxCommands /\ Start = 0
  BY Submissions DEF BInv, BridgeTypeOK, Items, Start
<1>1. cmds'[t] = cmds[t]
  BY DEF StartRun, ClaimRun
<1>2. \A k \in Items : k # Start => LetterOf(t, k)' = LetterOf(t, k)
  BY <1>1, ItemKinds, SameCommands
<1>3. CASE StartRun(t)
  <2>1. run[t].phase = "none" /\ run'[t].phase = "queued"
    BY <1>0, <1>3 DEF StartRun
  <2>2. LettersOf(t)' = [LettersOf(t) EXCEPT ![Start] = "kept"]
    <3>1. LetterOf(t, Start)' = "kept"
      BY <2>1 DEF LetterOf
    <3> QED BY <1>0, <1>2, <3>1, OneLetter
  <2>3. \A k \in Items : LetterOf(t, k) = "none"
    <3>1. LetterOf(t, Start) = "none"
      BY <2>1 DEF LetterOf
    <3>2. ASSUME NEW k \in 1 .. MaxCommands PROVE LetterOf(t, k) = "none"
      <4>1. Len(cmds[t]) = 0
        BY <1>0, <2>1 DEF RunOK
      <4> QED BY <4>1, CommandLetter
    <3> QED BY <3>1, <3>2, ItemKinds
  <2> QED BY <1>0, <2>2, <2>3 DEF Delivery!Give, Delivery!Follows, Delivery!Letters, LettersOf
<1>4. CASE ClaimRun(t) /\ ~Kept(t)
  <2>1. run[t].phase = "queued" /\ run'[t].phase = "dispatching"
    BY <1>0, <1>1, <1>4 DEF ClaimRun, Kept
  <2>2. LettersOf(t)' = [LettersOf(t) EXCEPT ![Start] = "taken"]
    <3>1. LetterOf(t, Start)' = "taken"
      BY <2>1 DEF LetterOf
    <3> QED BY <1>0, <1>2, <3>1, OneLetter
  <2>3. LetterOf(t, Start) = "kept"
    BY <2>1 DEF LetterOf
  <2>4. \A k \in Items : ~(k < Start)
    BY <1>0, BridgeAssumption
  <2> QED BY <1>0, <2>2, <2>3, <2>4 DEF Delivery!Take, Delivery!Letters, LettersOf
<1> QED BY <1>3, <1>4

\* The owner's requests.
LEMMA ControlLetterSteps ==
    ASSUME BInv, NEW t \in Tasks, NEW a \in Actions, Control(t, a)
    PROVE  \E n \in Items : Delivery(t)!Give(n) \/ Delivery(t)!Withdraw(n)
<1>t. BridgeTypeOK /\ RunOK(t)
  BY DEF BInv
<1>0. /\ run \in [Tasks -> [phase : Phases, runtime : BOOLEAN]] /\ cmds[t] \in Seq(Commands)
      /\ Len(cmds[t]) \in Nat /\ Items = 0 .. MaxCommands /\ Start = 0 /\ MaxCommands \in Nat
  BY <1>t, BridgeAssumption DEF BridgeTypeOK, Items, Start
<1>n. PICK n \in Nat : n = Len(cmds[t]) + 1
  BY <1>0
<1>1. n \in 1 .. MaxCommands /\ n \in Items /\ n # Start
  BY <1>0, <1>n DEF Control, RoomFor
<1>2. UNCHANGED <<sends, acked>>
  BY DEF Control
<1>3. PICK phase \in {"sent", "queued"} :
          /\ Recorded(t, a, phase) /\ run'[t].runtime = run[t].runtime
          /\ phase = "sent" => run[t].phase = "queued" /\ run'[t].phase = "finished"
          /\ phase = "queued" => run[t].phase \in {"attached", "finished"} /\ run'[t].phase = "attached"
  BY <1>t, ControlShape
<1>4. Delivery(t)!Follows(n)
  <2>1. \A k \in 1 .. MaxCommands : LetterOf(t, k) = "none" <=> k >= n
    BY <1>0, <1>n, CommandLetter
  <2>2. LetterOf(t, Start) # "none"
    BY <1>3, StartLetter
  <2> QED BY <1>0, <1>1, <2>1, <2>2, ItemKinds DEF Delivery!Follows, Delivery!Letters, LettersOf
<1>5. LetterOf(t, n)' = IF phase = "sent" THEN "settled" ELSE "kept"
  <2>1. ~(n > Len(cmds'[t])) /\ cmds'[t][n].phase = phase
    BY <1>0, <1>3, <1>n DEF Recorded
  <2> QED BY <1>1, <1>3, <2>1 DEF LetterOf
<1>6. ASSUME NEW k \in 1 .. MaxCommands, k # n
      PROVE  LetterOf(t, k)' = IF a = "stop" /\ LetterOf(t, k) = "kept" THEN "withdrawn" ELSE LetterOf(t, k)
  <2>0. k # Start
    BY <1>0
  <2>1. CASE k <= Len(cmds[t])
    <3>1. /\ k \in 1 .. Len(cmds[t]) /\ ~(k > Len(cmds[t])) /\ ~(k > Len(cmds'[t]))
          /\ cmds'[t][k].phase = IF a = "stop" /\ cmds[t][k].phase = "queued" THEN "discarded"
                                                                              ELSE cmds[t][k].phase
      BY <1>0, <1>3, <2>1 DEF Recorded
    <3> QED BY <2>0, <3>1 DEF LetterOf
  <2>2. CASE k > Len(cmds[t])
    <3>1. k > Len(cmds'[t])
      BY <1>0, <1>3, <1>6, <1>n, <2>2 DEF Recorded
    <3> QED BY <2>0, <2>2, <3>1 DEF LetterOf
  <2> QED BY <1>0, <2>1, <2>2
<1>7. CASE a = "stop"
  <2>1. LetterOf(t, Start)' = IF LetterOf(t, Start) = "kept" THEN "withdrawn" ELSE LetterOf(t, Start)
    <3>1. run[t].phase = "queued" => ~run[t].runtime
      BY <1>t DEF RunOK
    <3> QED BY <1>3, <3>1 DEF LetterOf
  <2>2. LetterOf(t, Start) = "kept" <=> phase = "sent"
    BY <1>3, StartLetter
  <2>3. LettersOf(t)' = [k \in Items |->
            IF k = n THEN IF LettersOf(t)[0] = "kept" THEN "settled" ELSE "kept"
            ELSE IF LettersOf(t)[k] = "kept" THEN "withdrawn" ELSE LettersOf(t)[k]]
    <3>1. ASSUME NEW k \in Items
          PROVE  LetterOf(t, k)' =
                    IF k = n THEN IF LetterOf(t, Start) = "kept" THEN "settled" ELSE "kept"
                    ELSE IF LetterOf(t, k) = "kept" THEN "withdrawn" ELSE LetterOf(t, k)
      <4>1. CASE k = n
        BY <1>5, <2>2, <4>1, <1>3
      <4>2. CASE k = Start
        BY <1>1, <2>1, <4>2
      <4>3. CASE k \in 1 .. MaxCommands /\ k # n
        BY <1>6, <1>7, <4>3
      <4> QED BY <4>1, <4>2, <4>3, ItemKinds
    <3> QED BY <1>0, <3>1 DEF LettersOf
  <2> QED BY <1>0, <1>1, <1>2, <1>4, <2>3 DEF Delivery!Withdraw, Delivery!Letters, LettersOf
<1>8. CASE a # "stop"
  <2>1. phase = "queued"
    BY <1>3, <1>8 DEF Control, Admits
  <2>2. LetterOf(t, Start)' = LetterOf(t, Start)
    BY <1>3, <2>1 DEF LetterOf
  <2>3. LettersOf(t)' = [LettersOf(t) EXCEPT ![n] = "kept"]
    <3>1. LetterOf(t, n)' = "kept"
      BY <1>5, <2>1
    <3>2. \A k \in Items : k # n => LetterOf(t, k)' = LetterOf(t, k)
      BY <1>6, <1>8, <2>2, ItemKinds
    <3> QED BY <1>1, <3>1, <3>2, OneLetter
  <2> QED BY <1>1, <1>2, <1>4, <2>3 DEF Delivery!Give, LettersOf
<1> QED BY <1>7, <1>8

\* The bridge's steps on a command it has in its hands.
LEMMA AdvancedLetters ==
    ASSUME BInv, NEW t \in Tasks, NEW n \in InPhase(t, CommandPhases), NEW phase,
           Advanced(t, n, phase), NEW s, <<phase, s>> \in {<<"sent", "settled">>, <<"dispatching", "taken">>}
    PROVE  LettersOf(t)' = [LettersOf(t) EXCEPT ![n] = s]
<1>0. /\ Len(cmds[t]) \in Nat /\ Len(cmds[t]) <= MaxCommands /\ MaxCommands \in Nat
      /\ n \in 1 .. Len(cmds[t]) /\ Len(cmds'[t]) = Len(cmds[t]) /\ Start = 0
  BY BridgeAssumption DEF BInv, BridgeTypeOK, InPhase, Advanced, Start
<1>1. n \in 1 .. MaxCommands /\ n \in Items /\ n # Start
  BY <1>0 DEF Items
<1>2. LetterOf(t, n)' = s
  <2>1. cmds'[t][n].phase = phase /\ ~(n > Len(cmds'[t]))
    BY <1>0 DEF Advanced
  <2> QED BY <1>1, <2>1 DEF LetterOf
<1>3. ASSUME NEW k \in 1 .. MaxCommands, k # n
      PROVE  LetterOf(t, k)' = LetterOf(t, k)
  <2>1. k # Start /\ (k > Len(cmds'[t]) <=> k > Len(cmds[t]))
    BY <1>0
  <2>2. ~(k > Len(cmds[t])) => cmds'[t][k].phase = cmds[t][k].phase
    <3>1. ~(k > Len(cmds[t])) => k \in 1 .. Len(cmds[t])
      BY <1>0
    <3> QED BY <1>3, <3>1 DEF Advanced
  <2> QED BY <2>1, <2>2 DEF LetterOf
<1>4. LetterOf(t, Start)' = LetterOf(t, Start)
  BY SameStart DEF Advanced
<1> QED BY <1>1, <1>2, <1>3, <1>4, ItemKinds, OneLetter

LEMMA SettleSteps ==
    ASSUME BInv, NEW t \in Tasks, Acknowledged(t)
    PROVE  \E n \in Items : Delivery(t)!Settle(n)
<1>t. BridgeTypeOK /\ VisitedRun /\ VisitedCommand /\ RunOK(t)
  BY DEF BInv
<1>1. UNCHANGED <<sends, acked>>
  BY DEF Acknowledged
<1>2. <<t, bridge.item>> \in acked /\ bridge.item \in Items /\ bridge.item \in DoneOf(t)
  BY <1>t DEF Acknowledged, BridgeTypeOK, DoneOf
<1>n. PICK n \in Items : n = bridge.item
  BY <1>2
<1>3. CASE n = Start
  <2>1. /\ run[t].phase = "dispatching" /\ run'[t] = [phase |-> "attached", runtime |-> TRUE]
        /\ cmds'[t] = cmds[t]
    BY <1>t, <1>n, <1>3, VisitShape
  <2>2. LetterOf(t, Start)' = "settled" /\ LetterOf(t, Start) = "taken"
    BY <2>1 DEF LetterOf
  <2>3. LettersOf(t)' = [LettersOf(t) EXCEPT ![n] = "settled"]
    BY <1>3, <2>1, <2>2, ItemKinds, SameCommands, OneLetter
  <2> QED BY <1>1, <1>2, <1>n, <1>3, <2>2, <2>3 DEF Delivery!Settle, LettersOf, DoneOf
<1>4. CASE n # Start
  <2>1. n \in InPhase(t, {"dispatching"}) /\ Advanced(t, n, "sent")
    BY <1>t, <1>n, <1>4, VisitShape
  <2>2. LettersOf(t)' = [LettersOf(t) EXCEPT ![n] = "settled"]
    BY <2>1, AdvancedLetters DEF InPhase, CommandPhases
  <2>3. LetterOf(t, n) = "taken"
    <3>1. n \in 1 .. MaxCommands /\ n <= Len(cmds[t]) /\ cmds[t][n].phase = "dispatching"
      BY <1>4, <2>1, ItemKinds DEF InPhase, BInv, BridgeTypeOK
    <3> QED BY <3>1, CommandLetter
  <2> QED BY <1>1, <1>2, <1>n, <2>2, <2>3 DEF Delivery!Settle, LettersOf, DoneOf
<1> QED BY <1>3, <1>4

LEMMA TakeSteps ==
    ASSUME BInv, NEW t \in Tasks, ClaimCommand(t), ~Kept(t)
    PROVE  \E n \in Items : Delivery(t)!Take(n)
<1>t. BridgeTypeOK /\ VisitedRun /\ VisitedCommand /\ VisitedStatus
  BY DEF BInv
<1>0. /\ Len(cmds[t]) \in Nat /\ Len(cmds[t]) <= MaxCommands /\ MaxCommands \in Nat
      /\ Items = 0 .. MaxCommands /\ Start = 0
  BY <1>t, BridgeAssumption DEF BridgeTypeOK, Items, Start
<1>1. UNCHANGED <<sends, acked>>
  BY DEF ClaimCommand
<1>2. /\ bridge.at = "claim" /\ bridge.task = t /\ Visiting /\ StillQueued(t)
      /\ Advanced(t, bridge.item, "dispatching")
  BY <1>t, VisitShape DEF ClaimCommand, At
<1>3. bridge.item \in InPhase(t, {"queued", "discarded"}) /\ bridge.item \in 1 .. Len(cmds[t])
  BY <1>t, <1>2 DEF VisitedCommand, InPhase
<1>4. run[t].runtime
  BY <1>t, <1>2 DEF VisitedStatus
<1>n. PICK n \in 1 .. MaxCommands : n = bridge.item
  BY <1>0, <1>3
<1>5. n \in Items /\ n # 0 /\ n \in 1 .. Len(cmds[t]) /\ cmds[t][n].phase = "queued"
  BY <1>0, <1>2, <1>3, <1>n DEF StillQueued
<1>6. LettersOf(t)' = [LettersOf(t) EXCEPT ![n] = "taken"]
  <2>1. n \in InPhase(t, CommandPhases) /\ Advanced(t, n, "dispatching")
    BY <1>2, <1>5, <1>n DEF InPhase, CommandPhases
  <2> QED BY <2>1, AdvancedLetters
<1>7. LetterOf(t, n) = "kept"
  BY <1>0, <1>5, CommandLetter
<1>8. LetterOf(t, 0) = "settled"
  BY <1>0, <1>4, StartLetter
<1>9. ASSUME NEW k \in 1 .. MaxCommands, k < n
      PROVE  LetterOf(t, k) \in {"settled", "withdrawn"}
  <2>1. k \in 1 .. Len(cmds[t]) /\ k <= Len(cmds[t])
    BY <1>0, <1>5, <1>9
  <2>2. cmds[t][k].phase \in {"sent", "discarded"}
    <3>1. bridge.item \notin {Start, NoItem}
      BY <1>0, <1>3 DEF NoItem
    <3> QED BY <1>t, <1>2, <1>9, <1>n, <2>1, <3>1 DEF VisitedCommand
  <2> QED BY <2>1, <2>2, CommandLetter
<1>10. \A k \in Items : k < n => LetterOf(t, k) \in {"settled", "withdrawn"}
  BY <1>0, <1>8, <1>9, ItemKinds
<1>11. LettersOf(t)[n] = "kept" /\ LettersOf(t)[0] = "settled"
  BY <1>0, <1>5, <1>7, <1>8 DEF LettersOf
<1>12. \A k \in 0 .. MaxCommands : k < n => LettersOf(t)[k] \in {"settled", "withdrawn"}
  BY <1>0, <1>10 DEF LettersOf
<1> QED BY <1>1, <1>5, <1>6, <1>11, <1>12 DEF Delivery!Take, Delivery!Letters, LettersOf

LEMMA DoubtSteps ==
    ASSUME BInv, NEW t \in Tasks, UNCHANGED <<sends, acked>>, Doubted(t),
           run[t].phase = "dispatching" \/ run[t].runtime
    PROVE  Delivery(t)!Doubt
<1>t. /\ RunOK(t) /\ Len(cmds[t]) \in Nat /\ Items = 0 .. MaxCommands /\ Start = 0
      /\ run[t].phase = "dispatching" => ~run[t].runtime
  BY DEF BInv, BridgeTypeOK, Items, Start, RunOK
<1>1. LetterOf(t, Start)' = IF LetterOf(t, Start) = "taken" THEN "doubtful" ELSE LetterOf(t, Start)
  <2>1. run[t].runtime => run[t].phase \notin {"none", "queued", "dispatching"}
    BY <1>t DEF RunOK
  <2> QED BY <1>t, <2>1 DEF LetterOf, Doubted
<1>2. ASSUME NEW k \in 1 .. MaxCommands
      PROVE  LetterOf(t, k)' = IF LetterOf(t, k) = "taken" THEN "doubtful" ELSE LetterOf(t, k)
  <2>1. k # Start /\ (k > Len(cmds'[t]) <=> k > Len(cmds[t]))
    BY <1>t DEF Doubted
  <2>2. ~(k > Len(cmds[t])) =>
            cmds'[t][k].phase = IF cmds[t][k].phase = "dispatching" THEN "review" ELSE cmds[t][k].phase
    <3>1. ~(k > Len(cmds[t])) => k \in 1 .. Len(cmds[t])
      BY <1>t
    <3> QED BY <3>1 DEF Doubted
  <2> QED BY <2>1, <2>2 DEF LetterOf
<1>3. \A k \in Items : LetterOf(t, k)' = IF LetterOf(t, k) = "taken" THEN "doubtful" ELSE LetterOf(t, k)
  BY <1>1, <1>2, ItemKinds
<1>4. LettersOf(t)' = [k \in Items |-> IF LettersOf(t)[k] = "taken" THEN "doubtful" ELSE LettersOf(t)[k]]
  BY <1>3 DEF LettersOf
<1> QED BY <1>t, <1>4 DEF Delivery!Doubt, Delivery!Letters, LettersOf


\* A status is published of a run whose start is settled.
LEMMA PublishSteps ==
    ASSUME BInv, NEW t \in Tasks, Publish(t)
    PROVE  LettersOf(t)' = LettersOf(t)
<1>t. BridgeTypeOK /\ VisitedRun /\ VisitedCommand /\ VisitedStatus /\ RunOK(t)
  BY DEF BInv
<1>1. At(t, "watch") /\ Visiting /\ cmds'[t] = cmds[t]
  BY <1>t, VisitShape DEF Publish
<1>2. run[t].runtime /\ run[t].phase \notin {"none", "queued", "dispatching"}
  BY <1>t, <1>1 DEF VisitedStatus, At, RunOK
<1>3. run'[t].runtime /\ run'[t].phase \notin {"none", "queued", "dispatching"}
  BY <1>t, <1>2, VisitShape DEF PhaseOf
<1>4. LetterOf(t, Start)' = LetterOf(t, Start)
  BY <1>2, <1>3 DEF LetterOf
<1> QED BY <1>1, <1>4, SameCommands, ItemKinds DEF LettersOf

LEMMA StepKeepsPromise ==
    ASSUME BInv, [BridgeNext]_bridgeVars, NEW t \in Tasks
    PROVE  Delivery(t)!Step
<1>t. BridgeTypeOK /\ VisitedRun /\ VisitedCommand /\ RunOK(t)
  BY DEF BInv
<1>1. CASE sends'[t] # sends[t]
  BY <1>1, HandingOver DEF Delivery!Step, Delivery!Next, Delivery!Letters, Items
<1>2. CASE DoneOf(t)' # DoneOf(t)
  BY <1>2, CarryingOut DEF Delivery!Step, Delivery!Next, Delivery!Letters, Items
<1>3. CASE LettersOf(t)' = LettersOf(t) /\ sends'[t] = sends[t] /\ DoneOf(t)' = DoneOf(t)
  BY <1>3 DEF Delivery!Step, Delivery!delivery, LettersOf, DoneOf
<1>4. CASE ~Kept(t)
  <2>0. BridgeNext /\ Start \in Items
    BY <1>4, Submissions DEF bridgeVars, Kept
  <2>1. UNCHANGED <<sends, acked>>
    <3>1. ~\E u \in Tasks : Submit(u)
      BY <1>4 DEF Submit, Kept
    <3>2. ~\E u \in Tasks, i \in Items : WorkerHandles(u, i)
      BY <1>4 DEF WorkerHandles, Kept
    <3> QED BY <1>t, <2>0, <3>1, <3>2, SubmissionSteps
  <2>2. \/ StartRun(t) \/ \E a \in Actions : Control(t, a)
        \/ ClaimRun(t) \/ Acknowledged(t) \/ Unconfirmed(t) \/ CheckRun(t)
        \/ ClaimCommand(t) \/ Publish(t) \/ Restart
    BY <1>t, <1>4, <2>0, RunSteps
  <2>3. CASE StartRun(t) \/ ClaimRun(t)
    BY <1>4, <2>0, <2>1, <2>3, StartLetterSteps DEF Delivery!Step, Delivery!Next, Delivery!Letters, Items
  <2>4. CASE \E a \in Actions : Control(t, a)
    BY <2>4, ControlLetterSteps DEF Delivery!Step, Delivery!Next, Delivery!Letters, Items
  <2>5. CASE Acknowledged(t)
    BY <2>5, SettleSteps DEF Delivery!Step, Delivery!Next, Delivery!Letters, Items
  <2>6. CASE ClaimCommand(t)
    BY <1>4, <2>6, TakeSteps DEF Delivery!Step, Delivery!Next, Delivery!Letters, Items
  <2>7. CASE Publish(t)
    BY <1>3, <2>1, <2>7, PublishSteps DEF DoneOf
  <2>8. CASE Unconfirmed(t) \/ CheckRun(t) \/ Restart
    <3>1. Doubted(t)
      BY <1>t, <1>4, <2>8, VisitShape, RestartShape
    <3>2. CASE Unconfirmed(t)
      <4>1. At(t, "await") /\ Visiting
        BY <1>t, <3>2, VisitShape DEF Unconfirmed
      <4>2. bridge.item # Start => bridge.item \in InPhase(t, {"dispatching"})
        BY <1>t, <4>1 DEF VisitedCommand, At
      <4>3. bridge.item = Start => run[t].phase = "dispatching"
        BY <1>t, <4>1 DEF VisitedRun, At
      <4> QED BY <1>t, <2>1, <3>1, <4>2, <4>3, DoubtSteps DEF RunOK, Delivery!Step, Delivery!Next
    <3>3. CASE CheckRun(t)
      BY <1>t, <1>4, <2>1, <3>1, <3>3, VisitShape, DoubtSteps DEF Delivery!Step, Delivery!Next
    <3>4. CASE Restart
      <4>1. run[t].phase = "dispatching" \/ run[t].runtime
        BY <1>t, <1>4, <3>4, RestartShape DEF RunOK
      <4> QED BY <2>1, <3>1, <4>1, DoubtSteps DEF Delivery!Step, Delivery!Next
    <3> QED BY <2>8, <3>2, <3>3, <3>4
  <2> QED BY <2>2, <2>3, <2>4, <2>5, <2>6, <2>7, <2>8
<1>5. CASE Kept(t)
  BY <1>1, <1>2, <1>3, <1>5, <1>t, LettersStay
<1> QED BY <1>4, <1>5

\* The bridge keeps the promise of DeliverOnce to the owner of every run: the start and
\* the instructions are handed over once, in order, and never after they were withdrawn or
\* while something is in doubt; what counts as delivered was carried out.
THEOREM EveryLetterOnce == BridgeSpec => DeliversOnce
<1>1. BridgeInit => \A t \in Tasks : Delivery(t)!Init
  <2> SUFFICES ASSUME BridgeInit, NEW t \in Tasks
               PROVE  Delivery(t)!Init
    OBVIOUS
  <2>1. \A i \in Items : LetterOf(t, i) = "none"
    <3>1. run[t].phase = "none" /\ cmds[t] = <<>>
      BY DEF BridgeInit
    <3>2. \A i \in 1 .. MaxCommands : i > Len(cmds[t]) /\ i # Start
      BY <3>1, BridgeAssumption DEF Start
    <3> QED BY <3>1, <3>2, ItemKinds DEF LetterOf
  <2> QED BY <2>1 DEF Delivery!Init, Delivery!Letters, Items, BridgeInit
<1>2. BInv /\ [BridgeNext]_bridgeVars => [\A t \in Tasks : Delivery(t)!Step]_bridgeVars
  BY StepKeepsPromise
<1> QED BY <1>1, <1>2, BridgeInvariant, PTL DEF BridgeSpec, DeliversOnce
=============================================================================
