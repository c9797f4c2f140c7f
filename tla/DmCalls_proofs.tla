--------------------------- MODULE DmCalls_proofs ---------------------------
(***************************************************************************)
(* A seat has a living connection, and the log of the call that is on      *)
(* stays open, for any number of people, calls and connections.            *)
(***************************************************************************)
EXTENDS DmCalls, SequenceTheorems, TLAPS

Logs == {"none", "deleted", "ended", "missed", "declined"} \cup Open
Outcomes == {"ended", "missed", "declined"}
Frames == {"join", "leave"}
Ids == {0} \cup CallIds
Tasks == [do : {"idle", "announcing", "answering", "leaving", "judging"}, call : Ids]
Conns == [phase : {"none", "open", "gone", "closing"}, inbox : Seq(Frames), task : Tasks]

\* The types of the server's calls, logs and tasks.
CallTypes ==
    /\ call \in [id : Ids, caller : People \cup {"nobody"}, answered : BOOLEAN,
                 ringing : SUBSET People, armed : BOOLEAN]
    /\ log \in [CallIds -> Logs]
    /\ starts \in [People -> [stage : {"none", "asked", "written", "registered"}, id : Ids]]
    /\ ending \subseteq [call : Ids, outcome : Outcomes, by : {NoOne} \cup (People \X ConnIds),
                         stage : {"tell", "log"}]
    /\ sweep \in [stage : {"none", "read", "live"}, rows : SUBSET (CallIds \X Open)]

\* The types of the connections and devices, with the seats.
ConnTypes ==
    /\ conns \in [People -> [ConnIds -> Conns]]
    /\ room \in [People -> {0} \cup ConnIds] /\ link \in [People -> {0} \cup ConnIds]
    /\ inCall \in [People -> BOOLEAN] /\ told \subseteq People /\ upsets \in 0 .. MaxUpsets
    /\ \A u \in People : room[u] # 0 => conns[u][room[u]].phase \in {"open", "gone"}
    /\ \A u \in People, k \in ConnIds : conns[u][k].phase = "open" <=> link[u] = k

---------------------------------------------------------------------------
(* The logs.                                                               *)

Written(u) == starts[u].stage = "written"

\* The call going on has an open log of its own.
CallHasLog == call # NoCall => call.id \in CallIds /\ log[call.id] \in Open

\* A log is written by one request, which registers its call or leaves it to the sweep.
WrittenLogs ==
    \A u \in People :
        /\ starts[u].stage \in {"written", "registered"} => starts[u].id \in CallIds
        /\ Written(u) =>
            /\ log[starts[u].id] \in Open
            /\ starts[u].id # call.id
            /\ \A v \in People \ {u} : Written(v) => starts[v].id # starts[u].id
            /\ \A e \in ending : e.call # starts[u].id
            /\ \A r \in sweep.rows : r[1] # starts[u].id

\* A call that is ending is over, and was logged.
EndingIsOver ==
    \A e \in ending : e.call \in CallIds /\ e.call # call.id /\ log[e.call] # "none"

\* The sweep closes logs that were written, of no call that is on.
SweepIsStale ==
    \A r \in sweep.rows : log[r[1]] # "none" /\ (sweep.stage = "live" => r[1] # call.id)

LogInv == CallTypes /\ CallHasLog /\ WrittenLogs /\ EndingIsOver /\ SweepIsStale

logging == <<call, log, starts, ending, sweep>>

LEMMA ZeroIsNoCall == 0 \notin CallIds /\ NoCall.id = 0
  BY DmCallsAssumption DEF CallIds, NoCall

LEMMA LogInvInit == Init => LogInv
<1> SUFFICES ASSUME Init PROVE LogInv
  OBVIOUS
<1>1. CallTypes
  BY DEF Init, CallTypes, NoCall, NoStart, NoSweep, Ids, Logs
<1> QED BY <1>1 DEF Init, LogInv, CallHasLog, WrittenLogs, EndingIsOver, SweepIsStale, NoStart,
           NoSweep, Written

\* The call ends: removed, and its end under way.
LEMMA RemovedStep ==
    ASSUME LogInv, call # NoCall, NEW outcome \in Outcomes,
           NEW by \in {NoOne} \cup (People \X ConnIds), Removed(outcome, by),
           UNCHANGED <<log, starts, sweep>>
    PROVE  LogInv'
<1> DEFINE new == [call |-> call.id, outcome |-> outcome, by |-> by, stage |-> "tell"]
<1>1. call' = NoCall /\ ending' = ending \cup {new} /\ call.id \in CallIds /\ log[call.id] \in Open
  BY DEF Removed, LogInv, CallHasLog
<1>2. CallTypes'
  BY <1>1 DEF LogInv, CallTypes, NoCall, Ids
<1>3. CallHasLog'
  BY <1>1 DEF CallHasLog
<1>4. WrittenLogs'
  BY <1>1, ZeroIsNoCall DEF LogInv, WrittenLogs, Written
<1>5. EndingIsOver'
  BY <1>1, ZeroIsNoCall DEF LogInv, EndingIsOver, Open
<1>6. SweepIsStale'
  BY <1>1, ZeroIsNoCall DEF LogInv, SweepIsStale, CallTypes
<1> QED BY <1>2, <1>3, <1>4, <1>5, <1>6 DEF LogInv

\* The call goes on, changed but for its id.
LEMMA SameCallStep ==
    ASSUME LogInv, call # NoCall, CallTypes', call'.id = call.id,
           UNCHANGED <<log, starts, ending, sweep>>
    PROVE  LogInv'
  BY DEF LogInv, CallHasLog, WrittenLogs, EndingIsOver, SweepIsStale, Written

LEMMA LogStep == LogInv /\ [Next]_vars => LogInv'
<1> SUFFICES ASSUME LogInv, [Next]_vars PROVE LogInv'
  OBVIOUS
<1> USE DEF LogInv
<1>1. CASE UNCHANGED logging
  BY <1>1 DEF logging, CallTypes, CallHasLog, WrittenLogs, EndingIsOver, SweepIsStale, Written
<1>2. ASSUME NEW e \in ending, TellEnded(e)
      PROVE  LogInv'
  <2>1. /\ UNCHANGED <<call, log, starts, sweep>>
        /\ ending' = (ending \ {e}) \cup {[e EXCEPT !.stage = "log"]}
    BY <1>2 DEF TellEnded, callVars
  <2>2. [e EXCEPT !.stage = "log"] \in [call : Ids, outcome : Outcomes,
                 by : {NoOne} \cup (People \X ConnIds), stage : {"tell", "log"}]
        /\ [e EXCEPT !.stage = "log"].call = e.call
    BY <1>2 DEF CallTypes
  <2> QED BY <2>1, <2>2 DEF CallTypes, CallHasLog, WrittenLogs, EndingIsOver, SweepIsStale, Written
<1>3. ASSUME NEW e \in ending, LogEnd(e)
      PROVE  LogInv'
  <2>1. /\ UNCHANGED <<call, starts, sweep>> /\ ending' \subseteq ending
        /\ log' \in {log, [log EXCEPT ![e.call] = e.outcome]}
    BY <1>3 DEF LogEnd
  <2>2. e.outcome \in Outcomes /\ e.call \in CallIds
    BY <1>3 DEF CallTypes, EndingIsOver
  <2>3. \A i \in CallIds : log'[i] = log[i] \/ (i = e.call /\ log'[i] \in Outcomes)
    BY <2>1, <2>2 DEF CallTypes
  <2>4. CallTypes'
    BY <2>1, <2>2 DEF CallTypes, Logs, Outcomes
  <2>5. CallHasLog' /\ WrittenLogs'
    BY <2>1, <2>3 DEF CallHasLog, WrittenLogs, EndingIsOver, Written
  <2>6. EndingIsOver' /\ SweepIsStale'
    BY <2>1, <2>3 DEF EndingIsOver, SweepIsStale, CallTypes, Outcomes
  <2> QED BY <2>4, <2>5, <2>6
<1>4. ASSUME NEW u \in People, Decline(u)
      PROVE  LogInv'
  <2>1. call # NoCall /\ UNCHANGED <<log, starts, sweep>>
    BY <1>4 DEF Decline, NoCall
  <2>2. CASE Removed("declined", NoOne)
    BY <2>1, <2>2, RemovedStep DEF Outcomes
  <2>3. CASE call' = [call EXCEPT !.ringing = @ \ {u}] /\ UNCHANGED ending
    <3>1. CallTypes' /\ call'.id = call.id
      BY <2>1, <2>3 DEF CallTypes
    <3> QED BY <2>1, <2>3, <3>1, SameCallStep
  <2> QED BY <1>4, <2>2, <2>3 DEF Decline
<1>5. ASSUME NEW u \in People, NEW k \in ConnIds, OnJoin(u, k)
      PROVE  LogInv'
  <2>1. UNCHANGED <<log, starts, ending, sweep>>
    BY <1>5 DEF OnJoin, taskVars
  <2>2. CASE call' = call
    BY <1>1, <2>1, <2>2 DEF logging
  <2>3. CASE call # NoCall /\ call' = [call EXCEPT !.ringing = @ \ {u}, !.answered = TRUE]
    <3>1. CallTypes' /\ call'.id = call.id
      BY <2>1, <2>3 DEF CallTypes
    <3> QED BY <2>1, <2>3, <3>1, SameCallStep
  <2> QED BY <1>5, <2>2, <2>3 DEF OnJoin
<1>6. ASSUME NEW u \in People, NEW k \in ConnIds, LogAnswer(u, k)
      PROVE  LogInv'
  <2>1. /\ UNCHANGED <<call, starts, ending, sweep>>
        /\ log' \in {log, [log EXCEPT ![Task(u, k).call] = "ongoing"]}
    BY <1>6 DEF LogAnswer, taskVars
  <2>2. log' \in [CallIds -> Logs] /\ \A i \in CallIds : log'[i] \in {log[i], "ongoing"}
    BY <2>1 DEF CallTypes, Logs, Open
  <2> QED BY <2>1, <2>2 DEF CallTypes, CallHasLog, WrittenLogs, EndingIsOver, SweepIsStale,
             Written, Open
<1>7. ASSUME NEW u \in People, NEW k \in ConnIds, Judge(u, k)
      PROVE  LogInv'
  <2>1. UNCHANGED <<log, starts, sweep>>
    BY <1>7 DEF Judge
  <2>2. CASE UNCHANGED <<call, ending>>
    BY <1>1, <2>1, <2>2 DEF logging
  <2>3. CASE call # NoCall /\ Removed(IF call.answered THEN "ended" ELSE "missed", <<u, k>>)
    BY <2>1, <2>3, RemovedStep DEF Outcomes
  <2> QED BY <1>7, <2>2, <2>3 DEF Judge
<1>8. CASE RingTimedOut
  <2>1. call # NoCall /\ UNCHANGED <<log, starts, sweep>>
    BY <1>8 DEF RingTimedOut, NoCall
  <2>2. CASE Removed("missed", NoOne)
    BY <2>1, <2>2, RemovedStep DEF Outcomes
  <2>3. CASE call' = [call EXCEPT !.ringing = {}, !.armed = FALSE] /\ UNCHANGED ending
    <3>1. CallTypes' /\ call'.id = call.id
      BY <2>1, <2>3 DEF CallTypes
    <3> QED BY <2>1, <2>3, <3>1, SameCallStep
  <2> QED BY <1>8, <2>2, <2>3 DEF RingTimedOut
<1>9. ASSUME NEW u \in People, StartCall(u)
      PROVE  LogInv'
  <2>1. /\ UNCHANGED <<call, log, ending, sweep>>
        /\ starts' = [starts EXCEPT ![u].stage = "asked"]
    BY <1>9 DEF StartCall, callVars
  <2>2. /\ starts' \in [People -> [stage : {"none", "asked", "written", "registered"}, id : Ids]]
        /\ starts'[u].stage = "asked" /\ \A v \in People \ {u} : starts'[v] = starts[v]
    BY <2>1 DEF CallTypes
  <2> QED BY <2>1, <2>2 DEF CallTypes, CallHasLog, WrittenLogs, EndingIsOver, SweepIsStale, Written
<1>10. ASSUME NEW u \in People, WriteLog(u)
       PROVE  LogInv'
  <2>1. UNCHANGED <<call, ending, sweep>>
    BY <1>10 DEF WriteLog
  <2>2. CASE starts' = [starts EXCEPT ![u] = NoStart] /\ log' = log
    BY <2>1, <2>2 DEF CallTypes, CallHasLog, WrittenLogs, EndingIsOver, SweepIsStale, Written,
       NoStart, Ids
  <2>3. ASSUME NEW i \in CallIds, log[i] = "none", call = NoCall, log' = [log EXCEPT ![i] = "ringing"],
               starts' = [starts EXCEPT ![u] = [stage |-> "written", id |-> i]]
        PROVE  LogInv'
    <3>1. /\ log' \in [CallIds -> Logs] /\ log'[i] = "ringing"
          /\ \A j \in CallIds \ {i} : log'[j] = log[j]
      BY <2>3 DEF CallTypes, Logs, Open
    <3>2. /\ starts' \in [People -> [stage : {"none", "asked", "written", "registered"}, id : Ids]]
          /\ starts'[u] = [stage |-> "written", id |-> i]
          /\ \A v \in People \ {u} : starts'[v] = starts[v]
      BY <2>3 DEF CallTypes, Ids
    <3>3. \A v \in People : Written(v) => starts[v].id \in CallIds \ {i}
      BY <2>3 DEF WrittenLogs, Written, Open
    <3>4. (\A e \in ending : e.call \in CallIds \ {i}) /\ \A r \in sweep.rows : r[1] \in CallIds \ {i}
      BY <2>3 DEF EndingIsOver, SweepIsStale, CallTypes
    <3>5. CallTypes' /\ CallHasLog'
      BY <2>1, <2>3, <3>1, <3>2 DEF CallTypes, CallHasLog
    <3>6. WrittenLogs'
      BY <2>1, <2>3, <3>1, <3>2, <3>3, <3>4, ZeroIsNoCall DEF WrittenLogs, Written, Open
    <3>7. EndingIsOver' /\ SweepIsStale'
      BY <2>1, <2>3, <3>1, <3>4 DEF EndingIsOver, SweepIsStale
    <3> QED BY <3>5, <3>6, <3>7
  <2> QED BY <1>10, <2>2, <2>3 DEF WriteLog
<1>11. ASSUME NEW u \in People, Register(u)
       PROVE  LogInv'
  <2> DEFINE i == starts[u].id
  <2>1. i \in CallIds /\ log[i] \in Open /\ i # call.id /\ UNCHANGED <<ending, sweep>> /\ Written(u)
    BY <1>11 DEF Register, WrittenLogs, Written
  <2>2. CASE /\ log' = [log EXCEPT ![i] = "deleted"]
             /\ starts' = [starts EXCEPT ![u] = NoStart] /\ call' = call
    <3>1. log' \in [CallIds -> Logs] /\ log'[i] = "deleted" /\ \A j \in CallIds \ {i} : log'[j] = log[j]
      BY <2>1, <2>2 DEF CallTypes, Logs
    <3>2. /\ starts' \in [People -> [stage : {"none", "asked", "written", "registered"}, id : Ids]]
          /\ starts'[u] = NoStart /\ \A v \in People \ {u} : starts'[v] = starts[v]
      BY <2>2 DEF CallTypes, NoStart, Ids
    <3>3. CallTypes' /\ CallHasLog'
      BY <2>1, <2>2, <3>1, <3>2 DEF CallTypes, CallHasLog
    <3>4. WrittenLogs'
      BY <2>1, <2>2, <3>1, <3>2 DEF WrittenLogs, Written, NoStart
    <3>5. EndingIsOver' /\ SweepIsStale'
      BY <2>1, <2>2, <3>1 DEF EndingIsOver, SweepIsStale, CallTypes
    <3> QED BY <3>3, <3>4, <3>5
  <2>3. CASE /\ call' = [id |-> i, caller |-> u, answered |-> FALSE, ringing |-> People \ {u},
                         armed |-> FALSE]
             /\ starts' = [starts EXCEPT ![u].stage = "registered"] /\ log' = log
    <3>1. /\ starts' \in [People -> [stage : {"none", "asked", "written", "registered"}, id : Ids]]
          /\ starts'[u].stage = "registered" /\ starts'[u].id = i
          /\ \A v \in People \ {u} : starts'[v] = starts[v]
      BY <2>3 DEF CallTypes
    <3>2. CallTypes' /\ CallHasLog'
      BY <2>1, <2>3, <3>1 DEF CallTypes, CallHasLog, Ids
    <3>3. WrittenLogs'
      BY <2>1, <2>3, <3>1 DEF WrittenLogs, Written
    <3>4. EndingIsOver' /\ SweepIsStale'
      BY <2>1, <2>3 DEF EndingIsOver, SweepIsStale, WrittenLogs, Written
    <3> QED BY <3>2, <3>3, <3>4
  <2> QED BY <1>11, <2>2, <2>3 DEF Register
<1>12. ASSUME NEW u \in People, ArmTimer(u)
       PROVE  LogInv'
  <2>1. /\ UNCHANGED <<log, ending, sweep>> /\ starts[u].id \in CallIds
        /\ call' = [call EXCEPT !.armed = @ \/ call.id = starts[u].id]
        /\ starts' = [starts EXCEPT ![u] = NoStart]
    BY <1>12 DEF ArmTimer, WrittenLogs
  <2>2. /\ call'.id = call.id /\ call = NoCall => call' = NoCall
    BY <2>1, ZeroIsNoCall DEF CallTypes, NoCall
  <2>3. CallTypes'
    BY <2>1 DEF CallTypes, NoStart, Ids
  <2>4. WrittenLogs'
    BY <2>1, <2>2 DEF WrittenLogs, Written, NoStart, CallTypes
  <2> QED BY <2>1, <2>2, <2>3, <2>4 DEF CallHasLog, EndingIsOver, SweepIsStale
<1>13. ASSUME NEW u \in People, StartFails(u)
       PROVE  LogInv'
  <2>1. UNCHANGED <<call, log, ending, sweep>> /\ starts' = [starts EXCEPT ![u] = NoStart]
    BY <1>13 DEF StartFails, callVars
  <2> QED BY <2>1 DEF CallTypes, CallHasLog, WrittenLogs, EndingIsOver, SweepIsStale, Written,
             NoStart, Ids
<1>14. CASE SweepReads
  <2> DEFINE rows == {i \in CallIds : /\ log[i] \in Open
                         /\ \A u \in People : starts[u] # [stage |-> "written", id |-> i]}
  <2>1. /\ UNCHANGED <<call, log, starts, ending>>
        /\ sweep' = [stage |-> "read", rows |-> {<<i, log[i]>> : i \in rows}]
    BY <1>14 DEF SweepReads, callVars
  <2>2. \A r \in sweep'.rows : r \in CallIds \X Open /\ r[1] \in rows
    <3>1. \A i \in rows : i \in CallIds /\ log[i] \in Open
      OBVIOUS
    <3>2. sweep'.rows = {<<i, log[i]>> : i \in rows}
      BY <2>1
    <3> HIDE DEF rows
    <3> QED BY <3>1, <3>2
  <2>3. \A u \in People : Written(u) => starts[u] = [stage |-> "written", id |-> starts[u].id]
    BY DEF Written, CallTypes
  <2>4. CallTypes'
    BY <2>1, <2>2 DEF CallTypes
  <2>5. WrittenLogs'
    BY <2>1, <2>2, <2>3 DEF WrittenLogs, Written
  <2> QED BY <2>1, <2>2, <2>4, <2>5 DEF CallHasLog, EndingIsOver, SweepIsStale, Open
<1>15. CASE SweepSkipsLive
  <2>1. /\ UNCHANGED <<call, log, starts, ending>> /\ sweep'.rows \subseteq sweep.rows
        /\ sweep' \in [stage : {"none", "read", "live"}, rows : SUBSET (CallIds \X Open)]
        /\ \A r \in sweep'.rows : r[1] # call.id
    BY <1>15 DEF SweepSkipsLive, callVars, NoSweep, CallTypes
  <2> QED BY <2>1 DEF CallTypes, CallHasLog, WrittenLogs, EndingIsOver, SweepIsStale, Written
<1>16. CASE SweepCloses
  <2>1. PICK r \in sweep.rows :
            /\ sweep' = IF sweep.rows = {r} THEN NoSweep ELSE [sweep EXCEPT !.rows = @ \ {r}]
            /\ log' = IF log[r[1]] = r[2] THEN [log EXCEPT ![r[1]] = Swept(r[2])] ELSE log
    BY <1>16 DEF SweepCloses
  <2>2. UNCHANGED <<call, starts, ending>> /\ sweep.stage = "live"
    BY <1>16 DEF SweepCloses
  <2>3. r[1] \in CallIds /\ r[1] # call.id /\ \A u \in People : Written(u) => starts[u].id # r[1]
    BY <2>1, <2>2 DEF CallTypes, SweepIsStale, WrittenLogs, Written
  <2>4. /\ log' \in [CallIds -> Logs]
        /\ \A i \in CallIds : log'[i] = log[i] \/ (i = r[1] /\ log'[i] \in Outcomes)
    BY <2>1, <2>3 DEF CallTypes, Swept, Logs, Outcomes
  <2>5. /\ sweep'.rows \subseteq sweep.rows /\ sweep'.stage \in {"none", "live"}
        /\ sweep' \in [stage : {"none", "read", "live"}, rows : SUBSET (CallIds \X Open)]
    BY <2>1, <2>2 DEF NoSweep, CallTypes
  <2>6. CallTypes'
    BY <2>2, <2>4, <2>5 DEF CallTypes
  <2>7. CallHasLog' /\ WrittenLogs'
    BY <2>2, <2>3, <2>4, <2>5 DEF CallHasLog, WrittenLogs, Written
  <2>8. EndingIsOver' /\ SweepIsStale'
    BY <2>2, <2>4, <2>5 DEF EndingIsOver, SweepIsStale, CallTypes, Outcomes
  <2> QED BY <2>6, <2>7, <2>8
<1>17. CASE Restart
  BY <1>17 DEF Restart, CallTypes, CallHasLog, WrittenLogs, EndingIsOver, SweepIsStale, Written,
     NoCall, NoStart, NoSweep, Ids
<1>18. \/ UNCHANGED logging
       \/ \E e \in ending : TellEnded(e) \/ LogEnd(e)
       \/ \E u \in People : \/ Decline(u) \/ StartCall(u) \/ StartFails(u)
                            \/ WriteLog(u) \/ Register(u) \/ ArmTimer(u)
       \/ \E u \in People, k \in ConnIds : OnJoin(u, k) \/ LogAnswer(u, k) \/ Judge(u, k)
       \/ RingTimedOut \/ SweepReads \/ SweepSkipsLive \/ SweepCloses \/ Restart
  BY DEF Next, Device, StartTask, ConnTask, FinishTask, SweepTask, vars, logging, callVars, taskVars,
     Join, HangUp, HearEnded, LoseLink, Connect, NoticeClosed, Unregister, JoinVoice, LeaveVoice,
     OnLeave
<1> QED BY <1>1, <1>2, <1>3, <1>4, <1>5, <1>6, <1>7, <1>8, <1>9, <1>10, <1>11, <1>12, <1>13, <1>14,
           <1>15, <1>16, <1>17, <1>18

---------------------------------------------------------------------------
(* The connections and the seats.                                          *)

LEMMA ConnTypesInit == Init => ConnTypes
  BY DmCallsAssumption DEF Init, ConnTypes, Conns, NoConn, Tasks, Idle, Ids, ConnIds

\* A frame goes to the end of the inbox of the connection that is open, and changes nothing
\* else of it.
LEMMA SentTypes ==
    ASSUME ConnTypes, NEW u \in People, NEW frame \in Frames
    PROVE  /\ Sent(u, frame) \in [People -> [ConnIds -> Conns]]
           /\ \A v \in People, k \in ConnIds : Sent(u, frame)[v][k].phase = conns[v][k].phase
<1>1. CASE link[u] = 0
  BY <1>1 DEF Sent, ConnTypes
<1>2. CASE link[u] # 0
  <2> DEFINE c == conns[u][link[u]]
             new == [c EXCEPT !.inbox = Append(@, frame)]
  <2>1. link[u] \in ConnIds /\ c \in Conns
    BY <1>2 DEF ConnTypes
  <2>2. new \in Conns /\ new.phase = c.phase
    BY <2>1, AppendProperties DEF Conns
  <2>3. Sent(u, frame) = [conns EXCEPT ![u][link[u]] = new]
    BY <1>2 DEF Sent, ConnTypes
  <2> HIDE DEF new
  <2> QED BY <2>1, <2>2, <2>3 DEF ConnTypes
<1> QED BY <1>1, <1>2

\* A connection changed at one place.
LEMMA ConnChange ==
    ASSUME ConnTypes, NEW u \in People, NEW k \in ConnIds, NEW c \in Conns,
           conns' = [conns EXCEPT ![u][k] = c]
    PROVE  /\ conns' \in [People -> [ConnIds -> Conns]]
           /\ conns'[u][k] = c
           /\ \A v \in People, j \in ConnIds : v # u \/ j # k => conns'[v][j] = conns[v][j]
  BY DEF ConnTypes

LEMMA ReadTypes ==
    ASSUME ConnTypes, CallTypes, NEW u \in People, NEW k \in ConnIds, NEW frame, Reads(u, k, frame),
           NEW d \in {"idle", "announcing", "leaving"}, Read(u, k, Doing(d))
    PROVE  /\ conns' \in [People -> [ConnIds -> Conns]]
           /\ conns[u][k].phase \in {"open", "gone"}
           /\ \A v \in People, j \in ConnIds : conns'[v][j].phase = conns[v][j].phase
<1> DEFINE c == conns[u][k]
           new == [c EXCEPT !.inbox = Tail(c.inbox), !.task = Doing(d)]
<1>1. c \in Conns /\ c.inbox # <<>> /\ c.phase \in {"open", "gone"}
  BY DEF ConnTypes, Reads
<1>2. Doing(d) \in Tasks
  BY DEF Doing, Idle, Tasks, Ids
<1>3. new \in Conns /\ new.phase = c.phase
  BY <1>1, <1>2, HeadTailProperties DEF Conns
<1>4. conns' = [conns EXCEPT ![u][k] = new]
  BY DEF Read
<1> HIDE DEF new
<1> QED BY <1>1, <1>3, <1>4, ConnChange

LEMMA GoesTypes ==
    ASSUME ConnTypes, NEW u \in People, NEW k \in ConnIds, NEW t \in Tasks, Goes(u, k, t)
    PROVE  /\ conns' \in [People -> [ConnIds -> Conns]]
           /\ \A v \in People, j \in ConnIds : conns'[v][j].phase = conns[v][j].phase
<1> DEFINE c == conns[u][k]
           new == [c EXCEPT !.task = t]
<1>0. c \in Conns
  BY DEF ConnTypes
<1>1. new \in Conns /\ new.phase = c.phase
  BY <1>0 DEF Conns
<1>2. conns' = [conns EXCEPT ![u][k] = new]
  BY DEF Goes, ConnTypes
<1> HIDE DEF new
<1> QED BY <1>1, <1>2, ConnChange

\* Nothing that keeps the phases, links and seats disturbs them.
LEMMA SamePhases ==
    ASSUME ConnTypes, conns' \in [People -> [ConnIds -> Conns]],
           \A v \in People, j \in ConnIds : conns'[v][j].phase = conns[v][j].phase,
           UNCHANGED <<room, link>>, inCall' \in [People -> BOOLEAN], told' \subseteq People,
           upsets' \in 0 .. MaxUpsets
    PROVE  ConnTypes'
<1>1. ASSUME NEW v \in People, room'[v] # 0
      PROVE  conns'[v][room'[v]].phase \in {"open", "gone"}
  <2>1. room'[v] = room[v] /\ room[v] # 0
    BY <1>1
  <2>2. room[v] \in ConnIds /\ conns[v][room[v]].phase \in {"open", "gone"}
    BY <2>1 DEF ConnTypes
  <2>3. conns'[v][room[v]].phase = conns[v][room[v]].phase
    BY <2>2
  <2> QED BY <2>1, <2>2, <2>3
<1>2. ASSUME NEW v \in People, NEW j \in ConnIds
      PROVE  conns'[v][j].phase = "open" <=> link'[v] = j
  <2>1. conns'[v][j].phase = conns[v][j].phase /\ link' = link
    OBVIOUS
  <2>2. conns[v][j].phase = "open" <=> link[v] = j
    BY DEF ConnTypes
  <2> QED BY <2>1, <2>2
<1>3. room' \in [People -> {0} \cup ConnIds] /\ link' \in [People -> {0} \cup ConnIds]
  BY DEF ConnTypes
<1> QED BY <1>1, <1>2, <1>3 DEF ConnTypes

LEMMA UpsetTypes == ConnTypes /\ Upset => upsets' \in 0 .. MaxUpsets
  BY DmCallsAssumption DEF ConnTypes, Upset

LEMMA ConnStep == CallTypes /\ ConnTypes /\ [Next]_vars => ConnTypes'
<1> SUFFICES ASSUME CallTypes, ConnTypes, [Next]_vars PROVE ConnTypes'
  OBVIOUS
<1>1. CASE /\ UNCHANGED <<conns, room, link, inCall>>
           /\ told' \subseteq People /\ upsets' \in 0 .. MaxUpsets
  BY <1>1 DEF ConnTypes
<1>2. ASSUME NEW u \in People, NEW frame \in Frames, conns' \in {conns, Sent(u, frame)},
             UNCHANGED <<room, link>>, inCall' \in [People -> BOOLEAN], told' \subseteq People,
             upsets' \in 0 .. MaxUpsets
      PROVE  ConnTypes'
  <2>1. /\ conns' \in [People -> [ConnIds -> Conns]]
        /\ \A v \in People, j \in ConnIds : conns'[v][j].phase = conns[v][j].phase
    BY <1>2, SentTypes DEF ConnTypes
  <2> QED BY <1>2, <2>1, SamePhases
<1>3. ASSUME NEW u \in People, Join(u) \/ StartCall(u)
      PROVE  ConnTypes'
  <2>1. /\ conns' = Sent(u, "join") /\ inCall' = [inCall EXCEPT ![u] = TRUE]
        /\ UNCHANGED <<room, link, told, upsets>>
    BY <1>3 DEF Join, StartCall
  <2>2. inCall' \in [People -> BOOLEAN] /\ told' \subseteq People /\ upsets' \in 0 .. MaxUpsets
    BY <2>1 DEF ConnTypes
  <2> QED BY <1>2, <2>1, <2>2 DEF Frames
<1>4. ASSUME NEW u \in People, HangUp(u) \/ HearEnded(u) \/ StartFails(u)
      PROVE  ConnTypes'
  <2>1. /\ HangsUp(u) /\ UNCHANGED <<room, link>> /\ told' \subseteq People
        /\ upsets' \in 0 .. MaxUpsets
    BY <1>4, UpsetTypes DEF HangUp, HearEnded, StartFails, ConnTypes
  <2>2. conns' \in {conns, Sent(u, "leave")} /\ inCall' \in [People -> BOOLEAN]
    BY <2>1 DEF HangsUp, ConnTypes
  <2> QED BY <1>2, <2>1, <2>2 DEF Frames
<1>5. ASSUME NEW u \in People, LoseLink(u)
      PROVE  ConnTypes'
  <2>1. PICK k \in ConnIds : link[u] = k
    BY <1>5 DEF LoseLink, ConnTypes
  <2>2. PICK left \in {<<>>, conns[u][k].inbox} :
            conns' = [conns EXCEPT ![u][k] = [conns[u][k] EXCEPT !.phase = "gone", !.inbox = left]]
    BY <1>5, <2>1 DEF LoseLink
  <2> DEFINE c == conns[u][k]
             new == [c EXCEPT !.phase = "gone", !.inbox = left]
  <2>3. new \in Conns /\ new.phase = "gone"
    <3>1. c \in Conns
      BY DEF ConnTypes
    <3>2. left \in Seq(Frames)
      BY <3>1, EmptySeq DEF Conns
    <3> HIDE DEF c
    <3> QED BY <3>1, <3>2 DEF Conns
  <2>4. conns' = [conns EXCEPT ![u][k] = new]
    BY <2>2
  <2> HIDE DEF new
  <2>5. /\ conns' \in [People -> [ConnIds -> Conns]] /\ conns'[u][k] = new
        /\ \A v \in People, j \in ConnIds : v # u \/ j # k => conns'[v][j] = conns[v][j]
    BY <2>3, <2>4, ConnChange
  <2>6. link' = [link EXCEPT ![u] = 0] /\ room' = room
    BY <1>5 DEF LoseLink
  <2>7. ASSUME NEW v \in People, room'[v] # 0
        PROVE  conns'[v][room'[v]].phase \in {"open", "gone"}
    <3>1. room[v] \in ConnIds /\ conns[v][room[v]].phase \in {"open", "gone"} /\ room'[v] = room[v]
      BY <2>6, <2>7 DEF ConnTypes
    <3>2. CASE v = u /\ room[v] = k
      BY <2>3, <2>5, <3>1, <3>2
    <3>3. CASE v # u \/ room[v] # k
      BY <2>5, <3>1, <3>3
    <3> QED BY <3>2, <3>3
  <2>8. ASSUME NEW v \in People, NEW j \in ConnIds
        PROVE  conns'[v][j].phase = "open" <=> link'[v] = j
    <3>1. (conns[v][j].phase = "open" <=> link[v] = j) /\ link'[v] = IF v = u THEN 0 ELSE link[v]
      BY <2>6 DEF ConnTypes
    <3>2. CASE v = u /\ j = k
      BY <2>3, <2>5, <3>1, <3>2, DmCallsAssumption DEF ConnIds
    <3>3. CASE v # u \/ j # k
      <4>1. conns'[v][j] = conns[v][j]
        BY <2>5, <3>3
      <4> QED BY <2>1, <3>1, <3>3, <4>1, DmCallsAssumption DEF ConnIds
    <3> QED BY <3>2, <3>3
  <2>9. /\ link' \in [People -> {0} \cup ConnIds] /\ inCall' \in [People -> BOOLEAN]
        /\ told' \subseteq People /\ upsets' \in 0 .. MaxUpsets
    BY <1>5, <2>6, UpsetTypes DEF LoseLink, ConnTypes
  <2> QED BY <2>5, <2>6, <2>7, <2>8, <2>9 DEF ConnTypes
<1>6. ASSUME NEW u \in People, Connect(u)
      PROVE  ConnTypes'
  <2>1. PICK k \in ConnIds : /\ conns[u][k] = NoConn
                             /\ conns' = [conns EXCEPT ![u][k].phase = "open"]
                             /\ link' = [link EXCEPT ![u] = k]
    BY <1>6 DEF Connect
  <2> DEFINE c == conns[u][k]
             new == [c EXCEPT !.phase = "open"]
  <2>2. new \in Conns /\ new.phase = "open" /\ c.phase = "none"
    <3>1. c \in Conns /\ c.phase = "none"
      BY <2>1 DEF ConnTypes, NoConn
    <3> HIDE DEF c
    <3> QED BY <3>1 DEF Conns
  <2>3. conns' = [conns EXCEPT ![u][k] = new]
    BY <2>1 DEF ConnTypes
  <2> HIDE DEF new
  <2>4. /\ conns' \in [People -> [ConnIds -> Conns]] /\ conns'[u][k] = new
        /\ \A v \in People, j \in ConnIds : v # u \/ j # k => conns'[v][j] = conns[v][j]
    BY <2>2, <2>3, ConnChange
  <2>5. link[u] = 0 /\ UNCHANGED <<room, inCall, told, upsets>>
    BY <1>6 DEF Connect, deviceVars
  <2>6. ASSUME NEW v \in People, room'[v] # 0
        PROVE  conns'[v][room'[v]].phase \in {"open", "gone"}
    <3>1. room[v] \in ConnIds /\ conns[v][room[v]].phase \in {"open", "gone"} /\ room'[v] = room[v]
      BY <2>5, <2>6 DEF ConnTypes
    <3>2. v # u \/ room[v] # k
      BY <2>2, <3>1
    <3> QED BY <2>4, <3>1, <3>2
  <2>7. ASSUME NEW v \in People, NEW j \in ConnIds
        PROVE  conns'[v][j].phase = "open" <=> link'[v] = j
    <3>1. (conns[v][j].phase = "open" <=> link[v] = j) /\ link'[v] = IF v = u THEN k ELSE link[v]
      BY <2>1 DEF ConnTypes
    <3>2. CASE v = u /\ j = k
      BY <2>2, <2>4, <3>1, <3>2
    <3>3. CASE v # u \/ j # k
      <4>1. conns'[v][j] = conns[v][j]
        BY <2>4, <3>3
      <4> QED BY <2>5, <3>1, <3>3, <4>1, DmCallsAssumption DEF ConnIds
    <3> QED BY <3>2, <3>3
  <2>8. link' \in [People -> {0} \cup ConnIds]
    BY <2>1 DEF ConnTypes
  <2> QED BY <2>4, <2>5, <2>6, <2>7, <2>8 DEF ConnTypes
<1>7. ASSUME NEW u \in People, NEW k \in ConnIds, NEW c \in Conns,
             conns' = [conns EXCEPT ![u][k] = c], c.phase # "open", conns[u][k].phase # "open",
             room' \in [People -> {0} \cup ConnIds], room'[u] # k,
             \A v \in People : room'[v] \in {0, room[v]},
             UNCHANGED <<link, inCall, told, upsets>>
      PROVE  ConnTypes'
  <2>1. /\ conns' \in [People -> [ConnIds -> Conns]] /\ conns'[u][k] = c
        /\ \A v \in People, j \in ConnIds : v # u \/ j # k => conns'[v][j] = conns[v][j]
    <3>1. conns' = [conns EXCEPT ![u][k] = c] /\ c \in Conns
      BY <1>7
    <3> QED BY <3>1, ConnChange
  <2>2. ASSUME NEW v \in People, room'[v] # 0
        PROVE  conns'[v][room'[v]].phase \in {"open", "gone"}
    <3>1. room'[v] = room[v]
      BY <1>7, <2>2
    <3>2. room[v] \in ConnIds /\ conns[v][room[v]].phase \in {"open", "gone"}
      BY <2>2, <3>1 DEF ConnTypes
    <3>3. v # u \/ room[v] # k
      BY <1>7, <3>1
    <3> QED BY <2>1, <3>1, <3>2, <3>3
  <2>3. ASSUME NEW v \in People, NEW j \in ConnIds
        PROVE  conns'[v][j].phase = "open" <=> link'[v] = j
    <3>1. (conns[v][j].phase = "open" <=> link[v] = j) /\ link' = link
      BY <1>7 DEF ConnTypes
    <3> QED BY <1>7, <2>1, <3>1
  <2> QED BY <1>7, <2>1, <2>2, <2>3 DEF ConnTypes
<1>8. NoConn \in Conns /\ NoConn.phase = "none"
  BY DEF NoConn, Conns, Tasks, Idle, Ids
<1>9. ASSUME NEW u \in People, NEW k \in ConnIds, NoticeClosed(u, k)
      PROVE  ConnTypes'
  <2>1. conns[u][k].phase = "gone" /\ UNCHANGED <<link, inCall, told, upsets>>
    BY <1>9 DEF NoticeClosed, deviceVars
  <2>2. CASE room[u] = k
    <3> DEFINE c == conns[u][k]
               new == [c EXCEPT !.phase = "closing", !.task = Doing("leaving")]
    <3>1. new \in Conns /\ new.phase = "closing"
      <4>1. c \in Conns /\ Doing("leaving") \in Tasks
        BY DEF ConnTypes, Tasks, Doing, Idle, Ids
      <4> QED BY <4>1 DEF Conns
    <3>2. conns' = [conns EXCEPT ![u][k] = new] /\ room' = [room EXCEPT ![u] = 0]
      BY <1>9, <2>2 DEF NoticeClosed, ConnTypes
    <3>3. room' \in [People -> {0} \cup ConnIds] /\ room'[u] # k
      BY <3>2, DmCallsAssumption DEF ConnTypes, ConnIds
    <3>4. \A v \in People : room'[v] \in {0, room[v]}
      BY <3>2 DEF ConnTypes
    <3> HIDE DEF new
    <3> QED BY <1>7, <2>1, <3>1, <3>2, <3>3, <3>4
  <2>3. CASE room[u] # k
    <3>1. conns' = [conns EXCEPT ![u][k] = NoConn] /\ room' = room
      BY <1>9, <2>3 DEF NoticeClosed
    <3> QED BY <1>7, <1>8, <2>1, <2>3, <3>1 DEF ConnTypes
  <2> QED BY <2>2, <2>3
<1>10. ASSUME NEW u \in People, NEW k \in ConnIds, Unregister(u, k)
       PROVE  ConnTypes'
  <2>1. /\ conns[u][k].phase = "closing" /\ conns' = [conns EXCEPT ![u][k] = NoConn]
        /\ UNCHANGED <<room, link, inCall, told, upsets>>
    BY <1>10 DEF Unregister, deviceVars
  <2>2. room[u] # k
    BY <2>1, DmCallsAssumption DEF ConnTypes, ConnIds
  <2> QED BY <1>7, <1>8, <2>1, <2>2 DEF ConnTypes
<1>11. ASSUME NEW u \in People, NEW k \in ConnIds, JoinVoice(u, k) \/ LeaveVoice(u, k)
       PROVE  ConnTypes'
  <2>1. \E d \in {"idle", "announcing", "leaving"} : \E frame : Reads(u, k, frame) /\ Read(u, k, Doing(d))
    <3>1. Idle = Doing("idle")
      BY DEF Idle, Doing
    <3>2. CASE JoinVoice(u, k)
      <4>1. Reads(u, k, "join") /\ (Read(u, k, Doing("announcing")) \/ Read(u, k, Idle))
        BY <3>2 DEF JoinVoice
      <4> QED BY <3>1, <4>1
    <3>3. CASE LeaveVoice(u, k)
      <4>1. Reads(u, k, "leave") /\ (Read(u, k, Doing("leaving")) \/ Read(u, k, Idle))
        BY <3>3 DEF LeaveVoice
      <4> QED BY <3>1, <4>1
    <3> QED BY <1>11, <3>2, <3>3
  <2>2. /\ conns' \in [People -> [ConnIds -> Conns]] /\ conns[u][k].phase \in {"open", "gone"}
        /\ \A v \in People, j \in ConnIds : conns'[v][j].phase = conns[v][j].phase
    BY <2>1, ReadTypes
  <2>3. room' \in {[room EXCEPT ![u] = k], [room EXCEPT ![u] = 0]}
    BY <1>11 DEF JoinVoice, LeaveVoice
  <2>4. UNCHANGED <<link, inCall, told, upsets>>
    BY <1>11 DEF JoinVoice, LeaveVoice, deviceVars
  <2>5. room' \in [People -> {0} \cup ConnIds]
    BY <2>3 DEF ConnTypes
  <2>6. ASSUME NEW v \in People, room'[v] # 0
        PROVE  conns'[v][room'[v]].phase \in {"open", "gone"}
    <3>1. (v = u /\ room'[v] = k) \/ (room'[v] = room[v] /\ room[v] # 0)
      <4>1. CASE room' = [room EXCEPT ![u] = k]
        BY <2>6, <4>1 DEF ConnTypes
      <4>2. CASE room' = [room EXCEPT ![u] = 0]
        BY <2>6, <4>2 DEF ConnTypes
      <4> QED BY <2>3, <4>1, <4>2
    <3>2. CASE v = u /\ room'[v] = k
      BY <2>2, <3>2
    <3>3. CASE room'[v] = room[v] /\ room[v] # 0
      <4>1. room[v] \in ConnIds /\ conns[v][room[v]].phase \in {"open", "gone"}
        BY <3>3 DEF ConnTypes
      <4> QED BY <2>2, <3>3, <4>1
    <3> QED BY <3>1, <3>2, <3>3
  <2>7. ASSUME NEW v \in People, NEW j \in ConnIds
        PROVE  conns'[v][j].phase = "open" <=> link'[v] = j
    <3>1. (conns[v][j].phase = "open" <=> link[v] = j) /\ link' = link
      BY <2>4 DEF ConnTypes
    <3> QED BY <2>2, <3>1
  <2> QED BY <2>2, <2>4, <2>5, <2>6, <2>7 DEF ConnTypes
<1>12. ASSUME NEW u \in People, NEW k \in ConnIds,
              OnJoin(u, k) \/ LogAnswer(u, k) \/ OnLeave(u, k) \/ Judge(u, k)
       PROVE  ConnTypes'
  <2>1. Idle \in Tasks /\ Doing("judging") \in Tasks /\ [Doing("answering") EXCEPT !.call = call.id] \in Tasks
    BY DEF Tasks, Idle, Doing, Ids, CallTypes
  <2>2. \E t \in Tasks : Goes(u, k, t)
    BY <1>12, <2>1 DEF OnJoin, LogAnswer, OnLeave, Judge
  <2>3. /\ UNCHANGED <<room, link, inCall, told>> /\ upsets' \in 0 .. MaxUpsets
    BY <1>12, UpsetTypes DEF OnJoin, LogAnswer, OnLeave, Judge, deviceVars, ConnTypes
  <2>4. /\ conns' \in [People -> [ConnIds -> Conns]]
        /\ \A v \in People, j \in ConnIds : conns'[v][j].phase = conns[v][j].phase
    BY <2>2, GoesTypes
  <2> QED BY <2>3, <2>4, SamePhases DEF ConnTypes
<1>13. CASE Restart
  BY <1>8, <1>13, UpsetTypes, DmCallsAssumption DEF Restart, ConnTypes, ConnIds
<1>14. \/ UNCHANGED <<conns, room, link, inCall>> /\ told' \subseteq People /\ upsets' \in 0 .. MaxUpsets
       \/ \E u \in People : \/ Join(u) \/ StartCall(u) \/ HangUp(u) \/ HearEnded(u)
                            \/ StartFails(u) \/ LoseLink(u) \/ Connect(u)
       \/ \E u \in People, k \in ConnIds :
             \/ NoticeClosed(u, k) \/ Unregister(u, k) \/ JoinVoice(u, k) \/ LeaveVoice(u, k)
             \/ OnJoin(u, k) \/ LogAnswer(u, k) \/ OnLeave(u, k) \/ Judge(u, k)
       \/ Restart
  <2>1. CASE \E u \in People : Decline(u) \/ StartTask(u)
    BY <2>1 DEF Decline, StartTask, WriteLog, Register, ArmTimer, deviceVars, ConnTypes
  <2>2. CASE RingTimedOut \/ FinishTask \/ SweepTask \/ UNCHANGED vars
    BY <2>2, UpsetTypes DEF RingTimedOut, FinishTask, TellEnded, LogEnd, SweepTask, SweepReads,
       SweepSkipsLive, SweepCloses, vars, deviceVars, ConnTypes
  <2> QED BY <2>1, <2>2 DEF Next, Device, ConnTask
<1> QED BY <1>1, <1>3, <1>4, <1>5, <1>6, <1>9, <1>10, <1>11, <1>12, <1>13, <1>14

---------------------------------------------------------------------------
\* What the code keeps true between any two steps of its tasks.
THEOREM DmCallsInvariant == DmCallsSpec => [](LogInv /\ ConnTypes)
<1>1. LogInv /\ ConnTypes /\ [Next]_vars => (LogInv /\ ConnTypes)'
  BY LogStep, ConnStep DEF LogInv
<1> QED BY <1>1, LogInvInit, ConnTypesInit, PTL DEF DmCallsSpec

\* Every variable keeps its type; a seat in the voice room is held by a connection the server
\* still has, whatever connections close, reopen and move the seat.
THEOREM SeatsHaveConnections == DmCallsSpec => []DmCallsTypeOK
<1>1. LogInv /\ ConnTypes => DmCallsTypeOK
  <2> SUFFICES ASSUME LogInv, ConnTypes PROVE DmCallsTypeOK
    OBVIOUS
  <2>1. CallTypes
    BY DEF LogInv
  <2>2. /\ call.id \in {0} \cup CallIds /\ call.caller \in People \cup {"nobody"}
        /\ call.answered \in BOOLEAN /\ call.ringing \subseteq People
        /\ log \in [CallIds -> {"none", "deleted", "ended", "missed", "declined"} \cup Open]
        /\ \A u \in People : starts[u].id \in {0} \cup CallIds
    BY <2>1 DEF CallTypes, Ids, Logs
  <2>3. \A u \in People, k \in ConnIds : conns[u][k].phase \in {"none", "open", "gone", "closing"}
    BY DEF ConnTypes, Conns
  <2> QED BY <2>2, <2>3 DEF ConnTypes, DmCallsTypeOK
<1> QED BY <1>1, DmCallsInvariant, PTL

\* The log of the call going on is open, for any number of calls one after the other: neither
\* the sweep nor the late end of an earlier call closes it.
THEOREM TheLiveLogIsOpen == DmCallsSpec => []LiveLogIsOpen
<1>1. LogInv => LiveLogIsOpen
  BY DEF LogInv, CallHasLog, LiveLogIsOpen
<1> QED BY <1>1, DmCallsInvariant, PTL

=============================================================================
