------------------------------ MODULE DmCalls ------------------------------
(***************************************************************************)
(* Calls in one DM or group chat: the call session, the ring and the call  *)
(* log of the server (server/src/api/calls.rs), the voice room and the     *)
(* gateway connections that hold its seats (server/src/gateway/mod.rs),    *)
(* and each person's app (client/src/App.tsx, client/src/hooks/            *)
(* useWebRTC.ts, client/src/lib/dmCall.ts).                                *)
(*                                                                         *)
(* On the server every connection, request, timer and sweep is a task of   *)
(* its own; an action is what a task does between two awaits (two locks    *)
(* taken one after the other, with no await between them, are one step).   *)
(* Each person has one device.  The ring a device shows follows            *)
(* call.ringing and is left out.                                           *)
(***************************************************************************)
EXTENDS Integers, FiniteSets, SequencesExt

CONSTANTS
    People,         \* the people of the chat
    OneToOne,       \* the chat is a DM (channel_type = 'dm'), not a group chat
    MaxCalls,       \* bound: call logs written
    MaxConns,       \* bound: connections of one person the server holds at once
    MaxFrames,      \* bound: frames a device has sent and the server not read
    MaxUpsets       \* bound: lost connections, restarts, failed requests and writes

ASSUME DmCallsAssumption ==
    /\ OneToOne \in BOOLEAN /\ OneToOne => Cardinality(People) = 2
    /\ MaxCalls \in Nat \ {0} /\ MaxConns \in Nat \ {0}
    /\ MaxFrames \in Nat \ {0} /\ MaxUpsets \in Nat

VARIABLES
    call,           \* state.calls: the call going on in the chat
    log,            \* messages.call_log: the state of each call's log
    room,           \* state.voice: the connection that holds each person's seat
    conns,          \* the connections the server holds, and the task of each
    starts,         \* each person's start_call request
    ending,         \* finish() calls under way
    sweep,          \* sweep_stale_logs
    link,           \* device: its open connection
    told,           \* the people a CallEnded is on its way to
    inCall,         \* device: it is in the call (webrtc.channelId)
    upsets          \* failures so far

callVars   == <<call, log>>
taskVars   == <<starts, ending, sweep>>
deviceVars == <<told, inCall>>
vars == <<callVars, room, conns, taskVars, link, deviceVars, upsets>>

CallIds == 1 .. MaxCalls
ConnIds == 1 .. MaxConns
NoCall == [id |-> 0, caller |-> "nobody", answered |-> FALSE, ringing |-> {},
           armed |-> FALSE]
NoStart == [stage |-> "none", id |-> 0]
NoSweep == [stage |-> "none", rows |-> {}]

\* What a connection's task is doing, and the call it is about.
Idle == [do |-> "idle", call |-> 0]
NoConn == [phase |-> "none", inbox |-> <<>>, task |-> Idle]
NoOne == <<>>
Doing(d) == [Idle EXCEPT !.do = d]

Open == {"ringing", "ongoing"}          \* the states of a log that is not closed
Upset == upsets < MaxUpsets /\ upsets' = upsets + 1

Task(u, k) == conns[u][k].task
Free(u, k) == Task(u, k) = Idle /\ \A e \in ending : e.by # <<u, k>>
Goes(u, k, task) == conns' = [conns EXCEPT ![u][k].task = task]

---------------------------------------------------------------------------
(* finish(): the session goes, then everyone is told, then the log says    *)
(* how the call went.                                                      *)

\* The call that is there goes; `by` is the connection whose task waits for the rest, if
\* any.  on_leave names no call; a decline and a timer name theirs, and find it in the step
\* that removes it.
Removed(outcome, by) ==
    /\ call' = NoCall
    /\ ending' = ending \cup {[call |-> call.id, outcome |-> outcome, by |-> by, stage |-> "tell"]}

TellEnded(e) ==
    /\ e \in ending /\ e.stage = "tell"
    /\ told' = told \cup {u \in People : link[u] # 0}
    /\ ending' = (ending \ {e}) \cup {[e EXCEPT !.stage = "log"]}
    /\ UNCHANGED <<callVars, room, conns, starts, sweep, link, inCall, upsets>>

LogEnd(e) ==
    /\ e \in ending /\ e.stage = "log"
    /\ \/ log' = [log EXCEPT ![e.call] = e.outcome] /\ UNCHANGED upsets
       \/ Upset /\ UNCHANGED log
    /\ ending' = ending \ {e}
    /\ UNCHANGED <<call, room, conns, starts, sweep, link, deviceVars>>

---------------------------------------------------------------------------
(* The app on each device.                                                 *)

\* A device sends a frame, which is dropped when the socket is not open.
Sent(u, frame) ==
    IF link[u] = 0 THEN conns
    ELSE [conns EXCEPT ![u][link[u]].inbox = Append(@, frame)]

CanSend(u) == link[u] # 0 => Len(conns[u][link[u]].inbox) < MaxFrames

\* handleJoinVoice, and handleAcceptCall, once joinVoice has its media.
Join(u) ==
    /\ ~inCall[u] /\ CanSend(u)
    /\ inCall' = [inCall EXCEPT ![u] = TRUE]
    /\ conns' = Sent(u, "join")
    /\ UNCHANGED <<callVars, room, taskVars, link, told, upsets>>

\* handleStartCall: join, then ask the server to ring the others.
StartCall(u) ==
    /\ ~inCall[u] /\ CanSend(u)
    /\ starts[u] = NoStart
    /\ inCall' = [inCall EXCEPT ![u] = TRUE]
    /\ starts' = [starts EXCEPT ![u].stage = "asked"]
    /\ conns' = Sent(u, "join")
    /\ UNCHANGED <<callVars, room, ending, sweep, link, told, upsets>>

\* hangUp: a device in the call leaves it.
HangsUp(u) ==
    /\ inCall' = [inCall EXCEPT ![u] = FALSE]
    /\ conns' = IF inCall[u] THEN Sent(u, "leave") ELSE conns

HangUp(u) ==
    /\ inCall[u] /\ CanSend(u)
    /\ HangsUp(u)
    /\ UNCHANGED <<callVars, room, taskVars, link, told, upsets>>

\* handleDeclineCall, and decline_call at the server: an unanswered call that rings for
\* nobody else ends.
Decline(u) ==
    /\ u \in call.ringing
    /\ IF ~call.answered /\ call.ringing = {u}
       THEN Removed("declined", NoOne)
       ELSE call' = [call EXCEPT !.ringing = @ \ {u}] /\ UNCHANGED ending
    /\ UNCHANGED <<log, room, conns, starts, sweep, link, deviceVars, upsets>>

\* CallEnded: whichever call of the chat this device is in.
HearEnded(u) ==
    /\ u \in told
    /\ told' = told \ {u}
    /\ HangsUp(u)
    /\ UNCHANGED <<callVars, room, taskVars, link, upsets>>

---------------------------------------------------------------------------
(* Connections.                                                            *)

\* The device has no connection: the server may not have noticed the old one closing, and
\* may or may not have received the last frames.
LoseLink(u) ==
    /\ link[u] # 0 /\ Upset
    /\ link' = [link EXCEPT ![u] = 0]
    /\ told' = told \ {u}
    /\ \E left \in {<<>>, conns[u][link[u]].inbox} :
        conns' = [conns EXCEPT ![u][link[u]] = [@ EXCEPT !.phase = "gone", !.inbox = left]]
    /\ UNCHANGED <<callVars, room, taskVars, inCall>>

\* A new connection registers.  The app does not join again the call it is in.
Connect(u) ==
    /\ link[u] = 0
    /\ \E k \in ConnIds :
        /\ conns[u][k] = NoConn
        /\ conns' = [conns EXCEPT ![u][k].phase = "open"]
        /\ link' = [link EXCEPT ![u] = k]
    /\ UNCHANGED <<callVars, room, taskVars, deviceVars, upsets>>

\* MUTANT of NoticeClosed: a connection goes and leaves its seat taken.
NoticeClosedSeated(u, k) ==
    /\ conns[u][k].phase = "gone" /\ conns[u][k].inbox = <<>>
    /\ Free(u, k)
    /\ conns' = [conns EXCEPT ![u][k] = NoConn]
    /\ UNCHANGED <<callVars, room, taskVars, link, deviceVars, upsets>>

\* The server notices the close (or the idle limit passes) after the last frame it read:
\* cleanup_voice gives up the seat only if this connection holds it.
NoticeClosed(u, k) ==
    /\ conns[u][k].phase = "gone" /\ conns[u][k].inbox = <<>>
    /\ Free(u, k)
    /\ IF room[u] = k
       THEN /\ room' = [room EXCEPT ![u] = 0]
            /\ conns' = [conns EXCEPT ![u][k] =
                            [@ EXCEPT !.phase = "closing", !.task = Doing("leaving")]]
       ELSE /\ conns' = [conns EXCEPT ![u][k] = NoConn]
            /\ UNCHANGED room
    /\ UNCHANGED <<callVars, taskVars, link, deviceVars, upsets>>

\* unregister_connection, after the cleanup.
Unregister(u, k) ==
    /\ conns[u][k].phase = "closing" /\ Free(u, k)
    /\ conns' = [conns EXCEPT ![u][k] = NoConn]
    /\ UNCHANGED <<callVars, room, taskVars, link, deviceVars, upsets>>

---------------------------------------------------------------------------
(* The frames of a connection, one after the other.                        *)

Reads(u, k, frame) ==
    /\ conns[u][k].phase \in {"open", "gone"} /\ Free(u, k)
    /\ conns[u][k].inbox # <<>> /\ Head(conns[u][k].inbox) = frame

Read(u, k, task) ==
    conns' = [conns EXCEPT ![u][k] = [@ EXCEPT !.inbox = Tail(conns[u][k].inbox), !.task = task]]

\* JoinVoice: a seat already held moves to this connection; a new one is announced, then
\* answers.
JoinVoice(u, k) ==
    /\ Reads(u, k, "join")
    /\ room' = [room EXCEPT ![u] = k]
    /\ Read(u, k, IF room[u] = 0 THEN Doing("announcing") ELSE Idle)
    /\ UNCHANGED <<callVars, taskVars, link, deviceVars, upsets>>

\* on_join: the first to join after the caller answers the call.
OnJoin(u, k) ==
    /\ Task(u, k).do = "announcing"
    /\ IF call = NoCall \/ call.caller = u
       THEN Goes(u, k, Idle) /\ UNCHANGED call
       ELSE /\ call' = [call EXCEPT !.ringing = @ \ {u}, !.answered = TRUE]
            /\ Goes(u, k, IF call.answered THEN Idle
                          ELSE [Doing("answering") EXCEPT !.call = call.id])
    /\ UNCHANGED <<log, room, taskVars, link, deviceVars, upsets>>

\* publish_log: the log says the call is on.
LogAnswer(u, k) ==
    /\ Task(u, k).do = "answering"
    /\ \/ log' = [log EXCEPT ![Task(u, k).call] = "ongoing"] /\ UNCHANGED upsets
       \/ Upset /\ UNCHANGED log
    /\ Goes(u, k, Idle)
    /\ UNCHANGED <<call, room, taskVars, link, deviceVars>>

\* LeaveVoice (leave_voice).
LeaveVoice(u, k) ==
    /\ Reads(u, k, "leave")
    /\ room' = [room EXCEPT ![u] = 0]
    /\ Read(u, k, IF room[u] = 0 THEN Idle ELSE Doing("leaving"))
    /\ UNCHANGED <<callVars, taskVars, link, deviceVars, upsets>>

\* on_leave, after the announcement: is there a call?
OnLeave(u, k) ==
    /\ Task(u, k).do = "leaving"
    /\ Goes(u, k, IF call = NoCall THEN Idle ELSE Doing("judging"))
    /\ UNCHANGED <<callVars, room, taskVars, link, deviceVars, upsets>>

\* ... once the chat's type is read: does the call there, if any, end?
Over ==
    \/ \A u \in People : room[u] = 0
    \/ call.answered /\ OneToOne /\ \E v \in People : \A u \in People \ {v} : room[u] = 0

Judge(u, k) ==
    /\ Task(u, k).do = "judging"
    /\ IF call # NoCall /\ Over
       THEN Removed(IF call.answered THEN "ended" ELSE "missed", <<u, k>>)
       ELSE UNCHANGED <<call, ending>>
    /\ Goes(u, k, Idle)
    /\ UNCHANGED <<log, room, starts, sweep, link, deviceVars, upsets>>

---------------------------------------------------------------------------
(* start_call, the ring timer, the sweep, a restart.                       *)

\* A call that is on is the answer; otherwise the log message is written.
WriteLog(u) ==
    /\ starts[u].stage = "asked"
    /\ IF call # NoCall
       THEN starts' = [starts EXCEPT ![u] = NoStart] /\ UNCHANGED log
       ELSE \E i \in CallIds :
                /\ log[i] = "none" /\ \A j \in CallIds : j < i => log[j] # "none"
                /\ log' = [log EXCEPT ![i] = "ringing"]
                /\ starts' = [starts EXCEPT ![u] = [stage |-> "written", id |-> i]]
    /\ UNCHANGED <<call, room, conns, ending, sweep, link, deviceVars, upsets>>

\* The call is registered, unless another was meanwhile.
Register(u) ==
    /\ starts[u].stage = "written"
    /\ IF call # NoCall
       THEN /\ log' = [log EXCEPT ![starts[u].id] = "deleted"]
            /\ starts' = [starts EXCEPT ![u] = NoStart]
            /\ UNCHANGED call
       ELSE /\ call' = [id |-> starts[u].id, caller |-> u, answered |-> FALSE,
                        ringing |-> People \ {u}, armed |-> FALSE]
            /\ starts' = [starts EXCEPT ![u].stage = "registered"]
            /\ UNCHANGED log
    /\ UNCHANGED <<room, conns, ending, sweep, link, deviceVars, upsets>>

\* The others are rung and woken; then the ring timer starts.
ArmTimer(u) ==
    /\ starts[u].stage = "registered"
    /\ call' = [call EXCEPT !.armed = @ \/ call.id = starts[u].id]
    /\ starts' = [starts EXCEPT ![u] = NoStart]
    /\ UNCHANGED <<log, room, conns, ending, sweep, link, deviceVars, upsets>>

\* The request fails (refused, an error, its connection lost, which drops the handler where
\* it stands): the app hangs up.
StartFails(u) ==
    /\ starts[u] # NoStart /\ Upset
    /\ starts' = [starts EXCEPT ![u] = NoStart]
    /\ HangsUp(u)
    /\ UNCHANGED <<callVars, room, ending, sweep, link, told>>

\* ring_timed_out.  (The timer of a call that is over does nothing.)
RingTimedOut ==
    /\ call.armed
    /\ IF call.answered
       THEN call' = [call EXCEPT !.ringing = {}, !.armed = FALSE] /\ UNCHANGED ending
       ELSE Removed("missed", NoOne)
    /\ UNCHANGED <<log, room, conns, starts, sweep, link, deviceVars, upsets>>

\* sweep_stale_logs: the open logs, but for those whose call is about to be registered
\* (STALE_LOG_AFTER_SECS); then those of no live call; then each is closed if nothing wrote
\* it in the meantime.
SweepReads ==
    /\ sweep = NoSweep
    /\ LET rows == {i \in CallIds : /\ log[i] \in Open
                                    /\ \A u \in People : starts[u] # [stage |-> "written", id |-> i]}
       IN /\ rows # {}
          /\ sweep' = [stage |-> "read", rows |-> {<<i, log[i]>> : i \in rows}]
    /\ UNCHANGED <<callVars, room, conns, starts, ending, link, deviceVars, upsets>>

\* MUTANT of SweepSkipsLive: the calls in memory are not looked at.
SweepsAll ==
    /\ sweep.stage = "read"
    /\ sweep' = [sweep EXCEPT !.stage = "live"]
    /\ UNCHANGED <<callVars, room, conns, starts, ending, link, deviceVars, upsets>>

SweepSkipsLive ==
    /\ sweep.stage = "read"
    /\ LET stale == {r \in sweep.rows : r[1] # call.id}
       IN sweep' = IF stale = {} THEN NoSweep ELSE [stage |-> "live", rows |-> stale]
    /\ UNCHANGED <<callVars, room, conns, starts, ending, link, deviceVars, upsets>>

\* MUTANT of Swept: only a ringing call's log is closed.
SweptRinging(state) == IF state = "ongoing" THEN state ELSE "missed"

\* What a stale log becomes.
Swept(state) == IF state = "ongoing" THEN "ended" ELSE "missed"

SweepCloses ==
    /\ sweep.stage = "live"
    /\ \E r \in sweep.rows :
        /\ sweep' = IF sweep.rows = {r} THEN NoSweep ELSE [sweep EXCEPT !.rows = @ \ {r}]
        /\ log' = IF log[r[1]] = r[2] THEN [log EXCEPT ![r[1]] = Swept(r[2])] ELSE log
    /\ UNCHANGED <<call, room, conns, starts, ending, link, deviceVars, upsets>>

\* The server restarts: only the logs are kept.  A start_call under way fails.
Restart ==
    /\ Upset
    /\ call' = NoCall /\ room' = [u \in People |-> 0]
    /\ conns' = [u \in People |-> [k \in ConnIds |-> NoConn]]
    /\ starts' = [u \in People |-> NoStart] /\ ending' = {}
    /\ sweep' = NoSweep
    /\ link' = [u \in People |-> 0] /\ told' = {}
    /\ inCall' = [u \in People |-> inCall[u] /\ starts[u] = NoStart]
    /\ UNCHANGED log

---------------------------------------------------------------------------

Init ==
    /\ call = NoCall /\ log = [i \in CallIds |-> "none"]
    /\ room = [u \in People |-> 0]
    /\ conns = [u \in People |-> [k \in ConnIds |-> NoConn]]
    /\ starts = [u \in People |-> NoStart] /\ ending = {}
    /\ sweep = NoSweep
    /\ link = [u \in People |-> 0] /\ told = {}
    /\ inCall = [u \in People |-> FALSE]
    /\ upsets = 0

Device(u) ==
    \/ Join(u) \/ StartCall(u) \/ HangUp(u) \/ Decline(u) \/ HearEnded(u)
    \/ LoseLink(u) \/ Connect(u) \/ StartFails(u)

ConnTask(u, k) ==
    \/ NoticeClosed(u, k) \/ Unregister(u, k)
    \/ JoinVoice(u, k) \/ OnJoin(u, k) \/ LogAnswer(u, k)
    \/ LeaveVoice(u, k) \/ OnLeave(u, k) \/ Judge(u, k)

StartTask(u) == WriteLog(u) \/ Register(u) \/ ArmTimer(u)

FinishTask == \E e \in ending : TellEnded(e) \/ LogEnd(e)

SweepTask == SweepReads \/ SweepSkipsLive \/ SweepCloses

Next ==
    \/ \E u \in People : Device(u) \/ StartTask(u)
    \/ \E u \in People, k \in ConnIds : ConnTask(u, k)
    \/ RingTimedOut \/ FinishTask \/ SweepTask \/ Restart

DmCallsSpec == Init /\ [][Next]_vars

\* The server's tasks run to their end, and the sweep comes round.  Nothing is asked of the
\* people, their devices or the network.
FairDmCallsSpec ==
    /\ DmCallsSpec
    /\ \A u \in People : WF_vars(StartTask(u))
    /\ \A u \in People, k \in ConnIds : WF_vars(ConnTask(u, k))
    /\ WF_vars(RingTimedOut) /\ WF_vars(FinishTask) /\ WF_vars(SweepTask)

---------------------------------------------------------------------------
(* Properties.                                                             *)

\* The values every variable takes; and a seat is always held by a connection the server
\* still has, so that its closing gives the seat up.
DmCallsTypeOK ==
    /\ call.id \in {0} \cup CallIds /\ call.caller \in People \cup {"nobody"}
    /\ call.answered \in BOOLEAN /\ call.ringing \subseteq People
    /\ log \in [CallIds -> {"none", "deleted", "ended", "missed", "declined"} \cup Open]
    /\ \A u \in People : room[u] # 0 => conns[u][room[u]].phase \in {"open", "gone"}
    /\ \A u \in People, k \in ConnIds :
        /\ conns[u][k].phase \in {"none", "open", "gone", "closing"}
        /\ conns[u][k].phase = "open" <=> link[u] = k
    /\ \A u \in People : starts[u].id \in {0} \cup CallIds
    /\ upsets \in 0 .. MaxUpsets
    /\ inCall \in [People -> BOOLEAN] /\ told \subseteq People

\* The log of the call going on says so: neither the sweep, which reads the logs, the calls
\* and writes in separate steps, nor the end of an earlier call closes it (calls.rs,
\* sweep_stale_logs and finish).
LiveLogIsOpen == call # NoCall => log[call.id] \in Open

\* A log does not stay open when its call is not going on: a restart, a log write that
\* failed, and an answer logged after the call was over are all put right (calls.rs: "the
\* sweeper then closes the logs those calls left open").
LogsClose == \A i \in CallIds : []<>(log[i] \notin Open \/ call.id = i)

\* The close of an old connection does not take a person who is back, and still in the
\* call, out of it (gateway/mod.rs: "after a reconnect during a call, the old connection
\* closing must not take the user out of the call").
ReconnectKeepsTheSeat ==
    [][\A u \in People :
        room[u] # 0 /\ inCall[u] /\ link[u] \notin {0, room[u]}
            => ~(conns[u][room[u]].phase = "gone" /\ conns'[u][room[u]].phase = "closing")]_vars
=============================================================================
