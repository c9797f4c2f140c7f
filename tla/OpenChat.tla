------------------------------ MODULE OpenChat ------------------------------
(***************************************************************************)
(* What one device shows of the chat that is open, and the outbox of the   *)
(* messages it has not sent yet (client/src/App.tsx, client/src/lib/       *)
(* catchUp.ts, client/src/lib/outbox.ts, client/src/gateway.ts).           *)
(*                                                                         *)
(* The list on screen is written by page loads, by catch-ups after the     *)
(* connection was lost, by live events and by the sends themselves; the    *)
(* outbox by sends, retries, the flush that follows a reconnect, and the   *)
(* startup after a reload.  JavaScript runs one step at a time: an action  *)
(* is what runs between two awaits.                                        *)
(***************************************************************************)
EXTENDS Integers, FiniteSets, SequencesExt

CONSTANTS
    Chats,          \* the chats this account is in
    Mine,           \* the messages written on this device
    MaxPosts,       \* bound: messages the server stores
    MaxDeletes,     \* bound: messages deleted on the server
    LoadIds,        \* the page loads that may be in flight at once
    MaxUpsets       \* bound: connections lost, reloads, pages and sends that fail

ASSUME OpenChatAssumption ==
    /\ MaxPosts \in Nat /\ MaxDeletes \in Nat /\ MaxUpsets \in Nat
    /\ LoadIds # {} /\ IsFiniteSet(Mine)
    /\ "none" \notin Chats /\ "other" \notin Mine

VARIABLES
    posts,          \* server: every message stored, in order
    deleted,        \* server: the posts deleted since, by index
    events,         \* gateway events on their way to this device, in order
    connected,      \* this device's gateway connection is open
    sawReady,       \* a Ready has been handled since the page was opened
    selected,       \* selectedChannelRef
    loading,        \* isLoadingMessages: the list is hidden
    shown,          \* the posts in the list, by index
    temps,          \* the unsent messages in the list, by state
    loads,          \* page loads and catch-ups in flight
    outbox,         \* kc:outbox: each message of this device, by state
    home,           \* the chat each message of this device was written in
    calls,          \* calls of api.sendMessage in flight, by message and origin
    queue,          \* what flushOutbox has still to retry, its current message first
    discarded,      \* history: the messages the user deleted unsent
    upsets          \* connections lost, reloads and failed requests so far

serverVars == <<posts, deleted>>
wireVars   == <<events, connected, sawReady>>
listVars   == <<selected, loading, shown, temps>>
outboxVars == <<outbox, home, discarded>>
callVars   == <<calls, queue>>
vars == <<serverVars, wireVars, listVars, loads, outboxVars, callVars, upsets>>

None == "none"
NoLoad == [stage |-> "idle", kind |-> "select", chat |-> None, page |-> {}]

PostIds == 1 .. MaxPosts
Other == "other"                    \* the author of a post not written here
Origins == {"user", "flush"}
States == {"none", "pending", "failed"}

InChat(c) == {i \in DOMAIN posts : posts[i].chat = c}
OutboxOf(c) == [m \in Mine |-> IF home[m] = c THEN outbox[m] ELSE "none"]

Upset == upsets < MaxUpsets /\ upsets' = upsets + 1

---------------------------------------------------------------------------
(* The server, and the gateway connection.                                 *)

\* What the gateway carries to this device: nothing while it is cut off.
Emit(event) == events' = IF connected THEN Append(events, event) ELSE events

\* A message is stored and announced.
Stored(c, from) ==
    /\ Len(posts) < MaxPosts
    /\ posts' = Append(posts, [chat |-> c, from |-> from])
    /\ Emit([t |-> "create", post |-> Len(posts) + 1])
    /\ UNCHANGED deleted

PostByOther(c) ==
    /\ Stored(c, Other)
    /\ UNCHANGED <<connected, sawReady, listVars, loads, outboxVars, callVars, upsets>>

DeletePost(i) ==
    /\ i \in DOMAIN posts \ deleted
    /\ Cardinality(deleted) < MaxDeletes
    /\ deleted' = deleted \cup {i}
    /\ Emit([t |-> "delete", post |-> i])
    /\ UNCHANGED <<posts, connected, sawReady, listVars, loads, outboxVars, callVars, upsets>>

\* The socket closes, or stays silent past DEAD_CONNECTION_MS and is closed.  A connection
\* that falls behind is the same to the client: events are lost, then comes a Ready.
LoseConnection ==
    /\ connected /\ Upset
    /\ connected' = FALSE
    /\ events' = <<>>
    /\ UNCHANGED <<serverVars, sawReady, listVars, loads, outboxVars, callVars>>

Connect ==
    /\ ~connected
    /\ connected' = TRUE
    /\ events' = <<[t |-> "ready", post |-> 0]>>
    /\ UNCHANGED <<serverVars, sawReady, listVars, loads, outboxVars, callVars, upsets>>

---------------------------------------------------------------------------
(* Page loads: the server reads the page, then the answer is shown.        *)

Asked(l, kind, c) ==
    /\ loads[l] = NoLoad
    /\ loads' = [loads EXCEPT ![l] = [NoLoad EXCEPT !.stage = "asked", !.kind = kind, !.chat = c]]

\* handleSelectChannel: the list stays, hidden by the spinner, until the load ends.
Select(c, l) ==
    /\ Asked(l, "select", c)
    /\ selected' = c
    /\ loading' = TRUE
    /\ UNCHANGED <<serverVars, wireVars, shown, temps, outboxVars, callVars, upsets>>

PageRead(l) ==
    /\ loads[l].stage = "asked"
    /\ loads' = [loads EXCEPT ![l].stage = "read", ![l].page = InChat(loads[l].chat) \ deleted]
    /\ UNCHANGED <<serverVars, wireVars, listVars, outboxVars, callVars, upsets>>

\* MUTANT of StillOpen: the load is shown whatever chat is open by then.
StillOpenIgnored(l) == loads[l].chat \in Chats

\* Is the chat of this load still the one that is open?
StillOpen(l) == selected = loads[l].chat

\* A load that ends with `ids` on screen, above the unsent messages of its chat; it goes
\* nowhere if another chat has been opened since.
ShowList(l, ids) ==
    /\ loads' = [loads EXCEPT ![l] = NoLoad]
    /\ IF StillOpen(l)
       THEN /\ shown' = ids
            /\ temps' = OutboxOf(loads[l].chat)
            /\ loading' = (loading /\ loads[l].kind = "catchup")
       ELSE UNCHANGED <<shown, temps, loading>>
    /\ UNCHANGED <<serverVars, wireVars, selected, outboxVars, callVars>>

SelectShown(l) ==
    /\ loads[l].stage = "read" /\ loads[l].kind = "select"
    /\ ShowList(l, loads[l].page)
    /\ UNCHANGED upsets

\* Offline: only the unsent messages are shown.
SelectFails(l) ==
    /\ loads[l].stage # "idle" /\ loads[l].kind = "select"
    /\ Upset
    /\ ShowList(l, {})

\* catchUpMessages: what is on screen and older than the page, then the page.
CaughtUp(current, page) ==
    IF page = {} THEN {}
    ELSE {i \in current : \A j \in page : i < j} \cup page

CatchUpShown(l) ==
    /\ loads[l].stage = "read" /\ loads[l].kind = "catchup"
    /\ ShowList(l, CaughtUp(shown, loads[l].page))
    /\ UNCHANGED upsets

CatchUpFails(l) ==
    /\ loads[l].stage # "idle" /\ loads[l].kind = "catchup"
    /\ loads' = [loads EXCEPT ![l] = NoLoad]
    /\ UNCHANGED <<serverVars, wireVars, listVars, outboxVars, callVars, upsets>>

---------------------------------------------------------------------------
(* Gateway events.                                                         *)

Arrives(t) == connected /\ events # <<>> /\ Head(events).t = t /\ events' = Tail(events)

\* Ready: every one after the first catches the open chat up.
Ready(l) ==
    /\ Arrives("ready")
    /\ sawReady' = TRUE
    /\ IF sawReady /\ selected # None THEN Asked(l, "catchup", selected) ELSE UNCHANGED loads
    /\ UNCHANGED <<serverVars, connected, listVars, outboxVars, callVars, upsets>>

MessageCreate ==
    /\ Arrives("create")
    /\ LET i == Head(events).post
       IN shown' = IF posts[i].chat = selected THEN shown \cup {i} ELSE shown
    /\ UNCHANGED <<serverVars, connected, sawReady, selected, loading, temps, loads,
                   outboxVars, callVars, upsets>>

MessageDelete ==
    /\ Arrives("delete")
    /\ shown' = shown \ {Head(events).post}
    /\ UNCHANGED <<serverVars, connected, sawReady, selected, loading, temps, loads,
                   outboxVars, callVars, upsets>>

---------------------------------------------------------------------------
(* Sending.  A state set on a message that has left the list, or the       *)
(* outbox, does nothing there.                                             *)

\* MUTANT of SetState: it puts back a message that has left.
SetStateOrAdd(states, m, st) == [states EXCEPT ![m] = st]

SetState(states, m, st) == IF states[m] = "none" THEN states ELSE [states EXCEPT ![m] = st]

\* handleSend: the message is put in the list and in the outbox, and its send begins.
Compose(m) ==
    /\ selected # None /\ home[m] = None
    /\ home' = [home EXCEPT ![m] = selected]
    /\ temps' = [temps EXCEPT ![m] = "pending"]
    /\ outbox' = [outbox EXCEPT ![m] = "pending"]
    /\ calls' = [calls EXCEPT ![m]["user"] = "posting"]
    /\ UNCHANGED <<serverVars, wireVars, selected, loading, shown, loads, discarded, queue, upsets>>

\* handleRetryMessage up to its first await.
Retried(m, o) ==
    /\ calls[m][o] = "none"
    /\ calls' = [calls EXCEPT ![m][o] = "posting"]
    /\ temps' = SetState(temps, m, "pending")
    /\ outbox' = SetState(outbox, m, "pending")

\* The user retries a message shown as failed.
Retry(m) ==
    /\ ~loading /\ temps[m] = "failed"
    /\ Retried(m, "user")
    /\ UNCHANGED <<serverVars, wireVars, selected, loading, shown, loads, home, discarded,
                   queue, upsets>>

\* handleDiscardFailed.
Discard(m) ==
    /\ ~loading /\ temps[m] = "failed"
    /\ temps' = [temps EXCEPT ![m] = "none"]
    /\ outbox' = [outbox EXCEPT ![m] = "none"]
    /\ discarded' = discarded \cup {m}
    /\ UNCHANGED <<serverVars, wireVars, selected, loading, shown, loads, home, callVars, upsets>>

\* MUTANT of Flush: a flush does not wait for the one under way.
FlushTwice ==
    /\ \E q \in SetToSeqs({m \in Mine : outbox[m] = "failed"}) :
        /\ q # <<>>
        /\ queue' = q
        /\ Retried(Head(q), "flush")
    /\ UNCHANGED <<serverVars, wireVars, selected, loading, shown, loads, home, discarded, upsets>>

\* MUTANT of Flush: it takes up what is still being sent as well.
FlushPending ==
    /\ queue = <<>>
    /\ \E q \in SetToSeqs({m \in Mine : outbox[m] # "none"}) :
        /\ q # <<>>
        /\ queue' = q
        /\ Retried(Head(q), "flush")
    /\ UNCHANGED <<serverVars, wireVars, selected, loading, shown, loads, home, discarded, upsets>>

\* flushOutbox: one at a time, over the entries that are failed when it starts.  The
\* connection returns, the browser goes online, or the effect runs again.
Flush ==
    /\ queue = <<>>
    /\ \E q \in SetToSeqs({m \in Mine : outbox[m] = "failed"}) :
        /\ q # <<>>
        /\ queue' = q
        /\ Retried(Head(q), "flush")
    /\ UNCHANGED <<serverVars, wireVars, selected, loading, shown, loads, home, discarded, upsets>>

\* The server stores the message; the answer is on its way back.
Accept(m, o) ==
    /\ calls[m][o] = "posting"
    /\ Stored(home[m], m)
    /\ calls' = [calls EXCEPT ![m][o] = "accepted"]
    /\ UNCHANGED <<connected, sawReady, listVars, loads, outboxVars, queue, upsets>>

\* The call of origin o for m has ended, with the list and the outbox as given: the flush
\* goes on to its next message in the same step.
Ended(m, o, list, box) ==
    IF o = "flush"
    THEN /\ queue' = Tail(queue)
         /\ IF Tail(queue) = <<>>
            THEN /\ calls' = [calls EXCEPT ![m][o] = "none"]
                 /\ temps' = list /\ outbox' = box
            ELSE LET n == queue[2]
                 IN /\ calls' = [calls EXCEPT ![m][o] = "none", ![n][o] = "posting"]
                    /\ temps' = SetState(list, n, "pending")
                    /\ outbox' = SetState(box, n, "pending")
    ELSE /\ calls' = [calls EXCEPT ![m][o] = "none"]
         /\ temps' = list /\ outbox' = box
         /\ UNCHANGED queue

\* The answer arrives: the message leaves the list and the outbox.
Sent(m, o) ==
    /\ calls[m][o] = "accepted"
    /\ Ended(m, o, [temps EXCEPT ![m] = "none"], [outbox EXCEPT ![m] = "none"])
    /\ UNCHANGED <<serverVars, wireVars, selected, loading, shown, loads, home, discarded, upsets>>

\* The call fails: it never reached the server, or the answer was lost on the way.
SendFails(m, o) ==
    /\ calls[m][o] # "none"
    /\ Upset
    /\ Ended(m, o, SetState(temps, m, "failed"), SetState(outbox, m, "failed"))
    /\ UNCHANGED <<serverVars, wireVars, selected, loading, shown, loads, home, discarded>>

\* MUTANT of Reconciled: an entry still pending is left as it was.
ReconciledNot(box) == box

\* reconcileStalePending.
Reconciled(box) == [m \in Mine |-> IF box[m] = "pending" THEN "failed" ELSE box[m]]

\* The page is reloaded: only the outbox is kept.  A request under way was accepted before,
\* or never is.
Reload ==
    /\ Upset
    /\ connected' = FALSE /\ events' = <<>> /\ sawReady' = FALSE
    /\ selected' = None /\ loading' = FALSE
    /\ shown' = {} /\ temps' = [m \in Mine |-> "none"]
    /\ loads' = [l \in LoadIds |-> NoLoad]
    /\ outbox' = Reconciled(outbox)
    /\ calls' = [m \in Mine |-> [o \in Origins |-> "none"]]
    /\ queue' = <<>>
    /\ UNCHANGED <<serverVars, home, discarded>>

---------------------------------------------------------------------------

Init ==
    /\ posts = <<>> /\ deleted = {}
    /\ events = <<>> /\ connected = FALSE /\ sawReady = FALSE
    /\ selected = None /\ loading = FALSE
    /\ shown = {} /\ temps = [m \in Mine |-> "none"]
    /\ loads = [l \in LoadIds |-> NoLoad]
    /\ outbox = [m \in Mine |-> "none"]
    /\ home = [m \in Mine |-> None]
    /\ calls = [m \in Mine |-> [o \in Origins |-> "none"]]
    /\ queue = <<>> /\ discarded = {} /\ upsets = 0

Next ==
    \/ Connect \/ LoseConnection \/ Reload
    \/ \E c \in Chats : PostByOther(c) \/ \E l \in LoadIds : Select(c, l)
    \/ \E i \in PostIds : DeletePost(i)
    \/ \E l \in LoadIds : PageRead(l) \/ SelectShown(l) \/ SelectFails(l)
    \/ \E l \in LoadIds : CatchUpShown(l) \/ CatchUpFails(l) \/ Ready(l)
    \/ MessageCreate \/ MessageDelete \/ Flush
    \/ \E m \in Mine : Compose(m) \/ Retry(m) \/ Discard(m)
    \/ \E m \in Mine, o \in Origins : Accept(m, o) \/ Sent(m, o) \/ SendFails(m, o)

OpenChatSpec == Init /\ [][Next]_vars

---------------------------------------------------------------------------
(* Properties.                                                             *)

\* The values every variable takes; and a flush sends one message at a time, the first of
\* its queue.
OpenChatTypeOK ==
    /\ posts \in Seq([chat : Chats, from : Mine \cup {Other}]) /\ Len(posts) <= MaxPosts
    /\ deleted \subseteq DOMAIN posts
    /\ events \in Seq([t : {"ready", "create", "delete"}, post : Nat])
    /\ \A n \in DOMAIN events : events[n].t # "ready" => events[n].post \in DOMAIN posts
    /\ connected \in BOOLEAN /\ sawReady \in BOOLEAN /\ loading \in BOOLEAN
    /\ selected \in Chats \cup {None}
    /\ shown \subseteq DOMAIN posts
    /\ temps \in [Mine -> States] /\ outbox \in [Mine -> States]
    /\ loads \in [LoadIds -> [stage : {"idle", "asked", "read"}, kind : {"select", "catchup"},
                              chat : Chats \cup {None}, page : SUBSET DOMAIN posts]]
    /\ home \in [Mine -> Chats \cup {None}]
    /\ calls \in [Mine -> [Origins -> {"none", "posting", "accepted"}]]
    /\ queue \in Seq(Mine) /\ IsInjective(queue)
    /\ \A m \in Mine : calls[m]["flush"] # "none" <=> queue # <<>> /\ m = Head(queue)
    /\ discarded \subseteq Mine /\ upsets \in 0 .. MaxUpsets

Reached(m) == \E i \in DOMAIN posts : posts[i].from = m
Sending(m) == \E o \in Origins : calls[m][o] # "none"

\* A message written on this device reaches the server, or stays in the outbox where the
\* next flush finds it: as failed, or as pending while a call is under way that ends as one
\* or the other.  Sends, retries, the flush, and a reload at any point of them, lose no
\* message the user did not delete (outbox.ts, "so they survive channel switches and
\* reloads").
NothingLost ==
    \A m \in Mine : home[m] # None =>
        \/ m \in discarded \/ Reached(m)
        \/ outbox[m] = "failed"
        \/ outbox[m] = "pending" /\ Sending(m)

\* The server stores a message twice only after something failed, and each lost connection,
\* reload or failed request adds at most two copies: the one its user's retry sends, and the
\* one the flush sends.  A retry, the flush and a late answer crossing each other add none
\* (outbox.ts, reconcileStalePending: "a page reload can't know whether an in-flight send
\* landed"; App.tsx, flushOutboxRef).
CopiesAreBounded ==
    \A m \in Mine : Cardinality({i \in DOMAIN posts : posts[i].from = m}) <= 1 + 2 * upsets

\* When the list is visible it shows messages of the open chat only, whatever loads of
\* other chats, catch-ups and live events ended meanwhile (App.tsx, handleSelectChannel and
\* catchUpOpenChat).
ListIsOfTheOpenChat ==
    ~loading /\ selected # None =>
        /\ shown \subseteq InChat(selected)
        /\ \A m \in Mine : temps[m] # "none" => home[m] = selected

\* When the list is visible, the unsent messages in it, and whether each is shown as
\* pending or failed, are those of the outbox: what the user may retry or delete is what is
\* stored (App.tsx, every setMessages beside an outbox call).
OutboxOnScreen ==
    ~loading /\ selected # None => temps = OutboxOf(selected)

\* A catch-up takes a message off the screen only if the server deleted it (catchUp.ts:
\* "The server's latest page is the truth for the span it covers"; what the page does not
\* cover stays).
CatchUpTakesNothingAway ==
    [][\A l \in LoadIds : loads[l].kind = "catchup" /\ loads'[l] = NoLoad =>
        shown \ shown' \subseteq deleted]_vars
=============================================================================
