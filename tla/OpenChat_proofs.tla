-------------------------- MODULE OpenChat_proofs --------------------------
(***************************************************************************)
(* No message is lost, and the list shows the open chat and the outbox as  *)
(* it is, for any number of chats, messages and loads.                     *)
(***************************************************************************)
EXTENDS OpenChat, SequenceTheorems, FiniteSetTheorems, TLAPS

\* The queue of a flush is an injective sequence of messages.
LEMMA QueuesAreSequences ==
    ASSUME NEW S \in SUBSET Mine, NEW q \in SetToSeqs(S)
    PROVE  q \in Seq(Mine) /\ IsInjective(q)
<1>1. IsFiniteSet(S)
  BY FS_Subset, OpenChatAssumption
<1>2. Cardinality(S) \in Nat
  BY <1>1, FS_CardinalityType
<1>3. q \in [1 .. Cardinality(S) -> S]
  BY DEF SetToSeqs
<1>4. q \in Seq(S)
  BY <1>2, <1>3
<1>5. q \in Seq(Mine)
  BY <1>4, SeqMonotonic
<1>6. IsInjective(q)
  BY <1>3 DEF SetToSeqs, IsInjective
<1> QED BY <1>5, <1>6

LEMMA EventsArrive ==
    ASSUME OpenChatTypeOK, NEW t, Arrives(t)
    PROVE  /\ events' \in Seq([t : {"ready", "create", "delete"}, post : Nat])
           /\ \A n \in DOMAIN events' : events'[n].t # "ready" => events'[n].post \in DOMAIN posts
           /\ t # "ready" => Head(events).post \in DOMAIN posts
<1>1. /\ events # <<>> /\ events' = Tail(events) /\ Head(events).t = t
      /\ events \in Seq([t : {"ready", "create", "delete"}, post : Nat])
  BY DEF Arrives, OpenChatTypeOK
<1>2. /\ Tail(events) \in Seq([t : {"ready", "create", "delete"}, post : Nat])
      /\ Head(events) = events[1] /\ 1 \in DOMAIN events
      /\ \A n \in DOMAIN Tail(events) : n + 1 \in DOMAIN events /\ Tail(events)[n] = events[n + 1]
  BY <1>1
<1> QED BY <1>1, <1>2 DEF OpenChatTypeOK

LEMMA StoredTypes ==
    ASSUME OpenChatTypeOK, NEW c \in Chats, NEW from \in Mine \cup {Other}, Stored(c, from)
    PROVE  /\ posts' \in Seq([chat : Chats, from : Mine \cup {Other}])
           /\ Len(posts') <= MaxPosts
           /\ DOMAIN posts \subseteq DOMAIN posts'
           /\ \A i \in DOMAIN posts : posts'[i] = posts[i]
           /\ Len(posts) + 1 \in DOMAIN posts' /\ posts'[Len(posts) + 1] = [chat |-> c, from |-> from]
           /\ events' \in Seq([t : {"ready", "create", "delete"}, post : Nat])
           /\ \A n \in DOMAIN events' : events'[n].t # "ready" => events'[n].post \in DOMAIN posts'
<1> DEFINE new == [t |-> "create", post |-> Len(posts) + 1]
<1>1. /\ posts \in Seq([chat : Chats, from : Mine \cup {Other}]) /\ Len(posts) \in Nat
      /\ posts' = Append(posts, [chat |-> c, from |-> from])
      /\ Len(posts) < MaxPosts /\ MaxPosts \in Nat
  BY OpenChatAssumption DEF OpenChatTypeOK, Stored
<1>2. /\ posts' \in Seq([chat : Chats, from : Mine \cup {Other}])
      /\ Len(posts') = Len(posts) + 1
      /\ DOMAIN posts' = 1 .. Len(posts) + 1 /\ DOMAIN posts = 1 .. Len(posts)
      /\ \A i \in DOMAIN posts : posts'[i] = posts[i]
      /\ posts'[Len(posts) + 1] = [chat |-> c, from |-> from]
  BY <1>1
<1> DEFINE T == [t : {"ready", "create", "delete"}, post : Nat]
<1>3. events \in Seq(T) /\ new \in T
  BY <1>1 DEF OpenChatTypeOK
<1>4. events' = Append(events, new) \/ events' = events
  BY DEF Stored, Emit
<1>5. events' \in Seq(T)
  <2> HIDE DEF new, T
  <2> QED BY <1>3, <1>4, AppendProperties
<1>6. \A n \in DOMAIN events' : events'[n] = new \/ (n \in DOMAIN events /\ events'[n] = events[n])
  <2> HIDE DEF new, T
  <2>1. CASE events' = Append(events, new)
    BY <1>3, <2>1
  <2> QED BY <1>4, <2>1
<1>7. \A n \in DOMAIN events' : events'[n].t # "ready" => events'[n].post \in DOMAIN posts'
  <2>1. new.post \in DOMAIN posts'
    BY <1>1, <1>2
  <2>2. \A n \in DOMAIN events : events[n].t # "ready" => events[n].post \in DOMAIN posts'
    BY <1>2 DEF OpenChatTypeOK
  <2> HIDE DEF new, T
  <2> QED BY <1>6, <2>1, <2>2
<1> QED BY <1>1, <1>2, <1>5, <1>7

\* The type invariant, by the part of the system it is about.
ServerOK ==
    /\ posts \in Seq([chat : Chats, from : Mine \cup {Other}]) /\ Len(posts) <= MaxPosts
    /\ deleted \subseteq DOMAIN posts
EventsOK ==
    /\ events \in Seq([t : {"ready", "create", "delete"}, post : Nat])
    /\ \A n \in DOMAIN events : events[n].t # "ready" => events[n].post \in DOMAIN posts
ScreenOK ==
    /\ selected \in Chats \cup {None} /\ loading \in BOOLEAN
    /\ shown \subseteq DOMAIN posts /\ temps \in [Mine -> States]
LoadsOK ==
    loads \in [LoadIds -> [stage : {"idle", "asked", "read"}, kind : {"select", "catchup"},
                           chat : Chats \cup {None}, page : SUBSET DOMAIN posts]]
OutboxOK ==
    /\ connected \in BOOLEAN /\ sawReady \in BOOLEAN
    /\ outbox \in [Mine -> States] /\ home \in [Mine -> Chats \cup {None}]
    /\ discarded \subseteq Mine /\ upsets \in 0 .. MaxUpsets
CallsOK ==
    /\ calls \in [Mine -> [Origins -> {"none", "posting", "accepted"}]]
    /\ queue \in Seq(Mine) /\ IsInjective(queue)
    /\ \A m \in Mine : calls[m]["flush"] # "none" <=> queue # <<>> /\ m = Head(queue)

\* A message that was not written is nowhere.
UnwrittenIsNowhere ==
    /\ \A m \in Mine : home[m] = None =>
        /\ temps[m] = "none" /\ outbox[m] = "none"
        /\ \A o \in Origins : calls[m][o] = "none"
    /\ \A i \in DOMAIN queue : home[queue[i]] # None

LEMMA TypeParts ==
    /\ OpenChatTypeOK <=> ServerOK /\ EventsOK /\ ScreenOK /\ LoadsOK /\ OutboxOK /\ CallsOK
    /\ OpenChatTypeOK' <=> ServerOK' /\ EventsOK' /\ ScreenOK' /\ LoadsOK' /\ OutboxOK' /\ CallsOK'
<1>1. OpenChatTypeOK <=> ServerOK /\ EventsOK /\ ScreenOK /\ LoadsOK /\ OutboxOK /\ CallsOK
  BY DEF OpenChatTypeOK, ServerOK, EventsOK, ScreenOK, LoadsOK, OutboxOK, CallsOK
<1>2. OpenChatTypeOK' <=> ServerOK' /\ EventsOK' /\ ScreenOK' /\ LoadsOK' /\ OutboxOK' /\ CallsOK'
  BY DEF OpenChatTypeOK, ServerOK, EventsOK, ScreenOK, LoadsOK, OutboxOK, CallsOK
<1> QED BY <1>1, <1>2

LEMMA UpsetType == OutboxOK /\ Upset => upsets' \in 0 .. MaxUpsets
  BY OpenChatAssumption DEF OutboxOK, Upset

LEMMA SetStateType ==
    ASSUME NEW f \in [Mine -> States], NEW m \in Mine, NEW st \in States
    PROVE  SetState(f, m, st) \in [Mine -> States]
  BY DEF SetState

\* What storing and announcing a message leaves in place.
LEMMA StoredStep ==
    ASSUME OpenChatTypeOK, NEW c \in Chats, NEW from \in Mine \cup {Other}, Stored(c, from)
    PROVE  /\ ServerOK' /\ EventsOK'
           /\ UNCHANGED listVars => ScreenOK'
           /\ UNCHANGED loads => LoadsOK'
<1>1. ServerOK' /\ EventsOK'
  BY StoredTypes DEF ServerOK, EventsOK, OpenChatTypeOK, Stored
<1>2. ASSUME UNCHANGED listVars PROVE ScreenOK'
  BY <1>2, StoredTypes DEF ScreenOK, OpenChatTypeOK, listVars
<1>3. DOMAIN posts \subseteq DOMAIN posts'
  BY StoredTypes
<1>4. ASSUME UNCHANGED loads PROVE LoadsOK'
  <2> DEFINE L(S) == [LoadIds -> [stage : {"idle", "asked", "read"}, kind : {"select", "catchup"},
                                  chat : Chats \cup {None}, page : SUBSET S]]
  <2>1. loads \in L(DOMAIN posts)
    BY DEF OpenChatTypeOK
  <2>2. \A S, R : S \subseteq R => L(S) \subseteq L(R)
    OBVIOUS
  <2>3. loads' \in L(DOMAIN posts')
    <3> HIDE DEF L
    <3> QED BY <1>3, <1>4, <2>1, <2>2
  <2> QED BY <2>3 DEF LoadsOK
<1> QED BY <1>1, <1>2, <1>4

\* A load that ends shows posts there are.
LEMMA ShowListTypes ==
    ASSUME ScreenOK, LoadsOK, OutboxOK, NEW l \in LoadIds, NEW ids \in SUBSET DOMAIN posts,
           ShowList(l, ids)
    PROVE  ScreenOK' /\ LoadsOK'
<1>1. selected' = selected /\ posts' = posts
  BY DEF ShowList, serverVars
<1>2. /\ shown' \in {shown, ids} /\ temps' \in {temps, OutboxOf(loads[l].chat)}
      /\ loading' \in BOOLEAN
  BY DEF ShowList, ScreenOK
<1>3. OutboxOf(loads[l].chat) \in [Mine -> States]
  BY DEF OutboxOf, OutboxOK, States
<1>4. ScreenOK'
  BY <1>1, <1>2, <1>3 DEF ScreenOK
<1>5. LoadsOK'
  BY <1>1 DEF ShowList, LoadsOK, NoLoad
<1> QED BY <1>4, <1>5

LEMMA RestOfQueue ==
    ASSUME NEW q \in Seq(Mine), IsInjective(q), q # <<>>
    PROVE  /\ Head(q) \in Mine /\ Tail(q) \in Seq(Mine) /\ IsInjective(Tail(q))
           /\ Tail(q) # <<>> => q[2] = Head(Tail(q)) /\ q[2] \in Mine /\ q[2] # Head(q)
<1>1. /\ Len(q) \in Nat \ {0} /\ DOMAIN q = 1 .. Len(q) /\ Head(q) = q[1] /\ q[1] \in Mine
      /\ Tail(q) \in Seq(Mine) /\ Len(Tail(q)) = Len(q) - 1
      /\ DOMAIN Tail(q) = 1 .. Len(q) - 1
      /\ \A i \in 1 .. Len(q) - 1 : Tail(q)[i] = q[i + 1]
  OBVIOUS
<1>2. IsInjective(Tail(q))
  <2> SUFFICES ASSUME NEW i \in 1 .. Len(q) - 1, NEW j \in 1 .. Len(q) - 1,
                      q[i + 1] = q[j + 1]
               PROVE  i = j
    BY <1>1 DEF IsInjective
  <2>1. i + 1 \in DOMAIN q /\ j + 1 \in DOMAIN q
    BY <1>1
  <2>2. i + 1 = j + 1
    BY <2>1 DEF IsInjective
  <2> QED BY <2>2
<1>3. ASSUME Tail(q) # <<>>
      PROVE  q[2] = Head(Tail(q)) /\ q[2] \in Mine /\ q[2] # Head(q)
  <2>1. Len(q) >= 2
    BY <1>1, <1>3
  <2>2. 1 \in DOMAIN q /\ 2 \in DOMAIN q
    BY <1>1, <2>1
  <2> QED BY <1>1, <2>1, <2>2 DEF IsInjective
<1> QED BY <1>1, <1>2, <1>3

LEMMA EndedTypes ==
    ASSUME CallsOK, NEW m \in Mine, NEW o \in Origins, calls[m][o] # "none",
           NEW list \in [Mine -> States], NEW box \in [Mine -> States],
           Ended(m, o, list, box)
    PROVE  /\ CallsOK'
           /\ temps' \in [Mine -> States] /\ outbox' \in [Mine -> States]
<1>1. CASE o = "flush"
  <2>1. queue # <<>> /\ m = Head(queue) /\ queue' = Tail(queue)
    BY <1>1 DEF CallsOK, Ended
  <2>2. /\ Tail(queue) \in Seq(Mine) /\ IsInjective(Tail(queue))
        /\ Tail(queue) # <<>> => /\ queue[2] = Head(Tail(queue)) /\ queue[2] \in Mine
                                 /\ queue[2] # m
    BY <2>1, RestOfQueue DEF CallsOK
  <2>3. CASE Tail(queue) = <<>>
    <3>1. calls' = [calls EXCEPT ![m]["flush"] = "none"] /\ queue' = <<>>
      BY <1>1, <2>1, <2>3 DEF Ended
    <3>2. CallsOK'
      BY <2>1, <2>2, <2>3, <3>1 DEF CallsOK, Origins
    <3> QED BY <1>1, <2>3, <3>2 DEF Ended
  <2>4. CASE Tail(queue) # <<>>
    <3>1. calls' = [calls EXCEPT ![m]["flush"] = "none", ![queue[2]]["flush"] = "posting"]
      BY <1>1, <2>4 DEF Ended
    <3>2. CallsOK'
      BY <2>1, <2>2, <2>4, <3>1 DEF CallsOK, Origins
    <3>3. temps' = SetState(list, queue[2], "pending") /\ outbox' = SetState(box, queue[2], "pending")
      BY <1>1, <2>4 DEF Ended
    <3> QED BY <2>2, <2>4, <3>2, <3>3, SetStateType DEF States
  <2> QED BY <2>3, <2>4
<1>2. CASE o # "flush"
  BY <1>2 DEF CallsOK, Ended, Origins
<1> QED BY <1>1, <1>2

LEMMA TypeStep == OpenChatTypeOK /\ UnwrittenIsNowhere /\ [Next]_vars => OpenChatTypeOK'
<1> SUFFICES ASSUME OpenChatTypeOK, UnwrittenIsNowhere, [Next]_vars
             PROVE  OpenChatTypeOK'
  OBVIOUS
<1>0. ServerOK /\ EventsOK /\ ScreenOK /\ LoadsOK /\ OutboxOK /\ CallsOK
  BY TypeParts
<1> USE OpenChatAssumption DEF wireVars, serverVars, listVars, outboxVars, callVars
<1>1. CASE Connect
  <2>1. ServerOK' /\ ScreenOK' /\ LoadsOK' /\ CallsOK'
    BY <1>0, <1>1 DEF Connect, ServerOK, ScreenOK, LoadsOK, CallsOK
  <2>2. EventsOK'
    BY <1>0, <1>1 DEF Connect, ServerOK, EventsOK
  <2>3. OutboxOK'
    BY <1>0, <1>1 DEF Connect, ServerOK, OutboxOK, States
  <2> QED BY <2>1, <2>2, <2>3, TypeParts
<1>2. CASE LoseConnection
  <2>1. ServerOK' /\ ScreenOK' /\ LoadsOK' /\ CallsOK'
    BY <1>0, <1>2 DEF LoseConnection, Upset, ServerOK, ScreenOK, LoadsOK, CallsOK
  <2>2. EventsOK'
    BY <1>0, <1>2 DEF LoseConnection, Upset, ServerOK, EventsOK
  <2>3. OutboxOK'
    BY <1>0, <1>2, UpsetType DEF LoseConnection, OutboxOK
  <2> QED BY <2>1, <2>2, <2>3, TypeParts
<1>3. CASE Reload
  <2>1. ServerOK'
    BY <1>0, <1>3 DEF Reload, Upset, ServerOK
  <2>2. EventsOK'
    BY <1>0, <1>3 DEF Reload, Upset, Reconciled, NoLoad, ServerOK, EventsOK
  <2>3. ScreenOK'
    BY <1>0, <1>3 DEF Reload, Upset, Reconciled, NoLoad, ServerOK, ScreenOK, States
  <2>4. LoadsOK'
    BY <1>0, <1>3 DEF Reload, Upset, Reconciled, NoLoad, ServerOK, LoadsOK
  <2>5. OutboxOK'
    BY <1>0, <1>3, UpsetType DEF Reload, Reconciled, OutboxOK, States
  <2>6. CallsOK'
    BY <1>3 DEF Reload, CallsOK, Origins, IsInjective
  <2> QED BY <2>1, <2>2, <2>3, <2>4, <2>5, <2>6, TypeParts
<1>4. ASSUME NEW c \in Chats, PostByOther(c)
      PROVE  OpenChatTypeOK'
  <2>1. OutboxOK' /\ CallsOK'
    BY <1>0, <1>4 DEF PostByOther, OutboxOK, CallsOK
  <2>2. ServerOK'
    BY <1>4, StoredStep DEF PostByOther, Other
  <2>3. EventsOK'
    BY <1>4, StoredStep DEF PostByOther, Other
  <2>4. ScreenOK'
    BY <1>4, StoredStep DEF PostByOther, Other
  <2>5. LoadsOK'
    BY <1>4, StoredStep DEF PostByOther, Other
  <2> QED BY <2>1, <2>2, <2>3, <2>4, <2>5, TypeParts
<1>5. ASSUME NEW c \in Chats, NEW l \in LoadIds, Select(c, l)
      PROVE  OpenChatTypeOK'
  <2>1. ServerOK' /\ EventsOK' /\ OutboxOK' /\ CallsOK'
    BY <1>0, <1>5 DEF Select, ServerOK, EventsOK, OutboxOK, CallsOK
  <2>2. ScreenOK'
    BY <1>0, <1>5 DEF Select, Asked, NoLoad, ServerOK, ScreenOK, States
  <2>3. LoadsOK'
    BY <1>0, <1>5 DEF Select, Asked, NoLoad, ServerOK, LoadsOK
  <2> QED BY <2>1, <2>2, <2>3, TypeParts
<1>6. ASSUME NEW i \in PostIds, DeletePost(i)
      PROVE  OpenChatTypeOK'
  <2>1. ScreenOK' /\ LoadsOK' /\ OutboxOK' /\ CallsOK'
    BY <1>0, <1>6 DEF DeletePost, ScreenOK, LoadsOK, OutboxOK, CallsOK
  <2>2. ServerOK'
    BY <1>0, <1>6 DEF DeletePost, ServerOK
  <2>3. EventsOK'
    <3> DEFINE T == [t : {"ready", "create", "delete"}, post : Nat]
               new == [t |-> "delete", post |-> i]
    <3>1. posts' = posts /\ i \in DOMAIN posts /\ events' \in {events, Append(events, new)}
      BY <1>6 DEF DeletePost, Emit
    <3>2. events \in Seq(T) /\ new \in T
      BY <1>0, <3>1 DEF EventsOK, ServerOK
    <3>3. events' \in Seq(T)
      <4> HIDE DEF new, T
      <4> QED BY <3>1, <3>2, AppendProperties
    <3>4. \A n \in DOMAIN events' : events'[n] = new \/ (n \in DOMAIN events /\ events'[n] = events[n])
      <4> HIDE DEF new, T
      <4> QED BY <3>1, <3>2
    <3>5. \A n \in DOMAIN events' : events'[n].t # "ready" => events'[n].post \in DOMAIN posts'
      BY <1>0, <3>1, <3>4 DEF EventsOK
    <3> QED BY <3>3, <3>5 DEF EventsOK
  <2> QED BY <2>1, <2>2, <2>3, TypeParts
<1>7. ASSUME NEW l \in LoadIds, PageRead(l)
      PROVE  OpenChatTypeOK'
  <2>1. ServerOK' /\ EventsOK' /\ ScreenOK' /\ OutboxOK' /\ CallsOK'
    BY <1>0, <1>7 DEF PageRead, ServerOK, EventsOK, ScreenOK, OutboxOK, CallsOK
  <2>2. LoadsOK'
    BY <1>0, <1>7 DEF PageRead, InChat, ServerOK, LoadsOK
  <2> QED BY <2>1, <2>2, TypeParts
<1>8. ASSUME NEW l \in LoadIds, SelectShown(l)
      PROVE  OpenChatTypeOK'
  <2>1. ServerOK' /\ EventsOK' /\ OutboxOK' /\ CallsOK'
    BY <1>0, <1>8 DEF SelectShown, ShowList, ServerOK, EventsOK, OutboxOK, CallsOK
  <2>2. loads[l].page \in SUBSET DOMAIN posts
    BY <1>0 DEF LoadsOK
  <2>3. ScreenOK' /\ LoadsOK'
    BY <1>0, <1>8, <2>2, ShowListTypes DEF SelectShown
  <2> QED BY <2>1, <2>3, TypeParts
<1>9. ASSUME NEW l \in LoadIds, SelectFails(l)
      PROVE  OpenChatTypeOK'
  <2>1. ServerOK' /\ EventsOK' /\ CallsOK'
    BY <1>0, <1>9 DEF SelectFails, ShowList, ServerOK, EventsOK, CallsOK
  <2>2. OutboxOK'
    BY <1>0, <1>9, UpsetType DEF SelectFails, ShowList, OutboxOK
  <2>3. ScreenOK' /\ LoadsOK'
    BY <1>0, <1>9, ShowListTypes DEF SelectFails
  <2> QED BY <2>1, <2>2, <2>3, TypeParts
<1>10. ASSUME NEW l \in LoadIds, CatchUpShown(l)
      PROVE  OpenChatTypeOK'
  <2>1. ServerOK' /\ EventsOK' /\ OutboxOK' /\ CallsOK'
    BY <1>0, <1>10 DEF CatchUpShown, ShowList, ServerOK, EventsOK, OutboxOK, CallsOK
  <2>2. CaughtUp(shown, loads[l].page) \in SUBSET DOMAIN posts
    BY <1>0 DEF LoadsOK, ScreenOK, CaughtUp
  <2>3. ScreenOK' /\ LoadsOK'
    BY <1>0, <1>10, <2>2, ShowListTypes DEF CatchUpShown
  <2> QED BY <2>1, <2>3, TypeParts
<1>11. ASSUME NEW l \in LoadIds, CatchUpFails(l)
      PROVE  OpenChatTypeOK'
  <2>1. ServerOK' /\ EventsOK' /\ ScreenOK' /\ OutboxOK' /\ CallsOK'
    BY <1>0, <1>11 DEF CatchUpFails, ServerOK, EventsOK, ScreenOK, OutboxOK, CallsOK
  <2>2. LoadsOK'
    BY <1>0, <1>11 DEF CatchUpFails, NoLoad, ServerOK, LoadsOK
  <2> QED BY <2>1, <2>2, TypeParts
<1>12. ASSUME NEW l \in LoadIds, Ready(l)
      PROVE  OpenChatTypeOK'
  <2>1. ServerOK' /\ ScreenOK' /\ CallsOK'
    BY <1>0, <1>12 DEF Ready, ServerOK, ScreenOK, CallsOK
  <2>2. EventsOK'
    BY <1>12, EventsArrive DEF Ready, EventsOK
  <2>3. LoadsOK'
    <3>1. CASE loads' = loads
      BY <1>0, <1>12, <3>1 DEF Ready, LoadsOK
    <3>2. CASE Asked(l, "catchup", selected)
      BY <1>0, <1>12, <3>2 DEF Ready, Asked, NoLoad, ScreenOK, LoadsOK
    <3> QED BY <1>12, <3>1, <3>2 DEF Ready
  <2>4. OutboxOK'
    BY <1>0, <1>12 DEF Ready, Asked, NoLoad, ServerOK, OutboxOK, States
  <2> QED BY <2>1, <2>2, <2>3, <2>4, TypeParts
<1>13. CASE MessageCreate
  <2>1. ServerOK' /\ LoadsOK' /\ OutboxOK' /\ CallsOK'
    BY <1>0, <1>13 DEF MessageCreate, ServerOK, LoadsOK, OutboxOK, CallsOK
  <2>2. EventsOK'
    BY <1>13, EventsArrive DEF MessageCreate, EventsOK
  <2>3. ScreenOK'
    BY <1>0, <1>13, EventsArrive DEF MessageCreate, ScreenOK
  <2> QED BY <2>1, <2>2, <2>3, TypeParts
<1>14. CASE MessageDelete
  <2>1. ServerOK' /\ LoadsOK' /\ OutboxOK' /\ CallsOK'
    BY <1>0, <1>14 DEF MessageDelete, ServerOK, LoadsOK, OutboxOK, CallsOK
  <2>2. EventsOK'
    BY <1>14, EventsArrive DEF MessageDelete, EventsOK
  <2>3. ScreenOK'
    BY <1>0, <1>14 DEF MessageDelete, ScreenOK
  <2> QED BY <2>1, <2>2, <2>3, TypeParts
<1>15. CASE Flush
  <2>1. ServerOK' /\ EventsOK' /\ LoadsOK'
    BY <1>0, <1>15 DEF Flush, ServerOK, EventsOK, LoadsOK
  <2>2. PICK q \in SetToSeqs({m \in Mine : outbox[m] = "failed"}) :
            q # <<>> /\ queue' = q /\ Retried(Head(q), "flush")
    BY <1>15 DEF Flush
  <2>3. q \in Seq(Mine) /\ IsInjective(q)
    <3> DEFINE S == {m \in Mine : outbox[m] = "failed"}
    <3>1. S \in SUBSET Mine /\ q \in SetToSeqs(S)
      OBVIOUS
    <3> HIDE DEF S
    <3> QED BY <3>1, QueuesAreSequences
  <2>4. Head(q) \in Mine
    BY <2>2, <2>3
  <2>5. ScreenOK'
    BY <1>0, <1>15, <2>2, <2>4, SetStateType DEF Flush, Retried, ScreenOK, States
  <2>6. OutboxOK'
    BY <1>0, <1>15, <2>2, <2>4, SetStateType DEF Flush, Retried, OutboxOK, States
  <2>7. CallsOK'
    <3>1. \A m \in Mine : calls[m]["flush"] = "none"
      BY <1>0, <1>15 DEF Flush, CallsOK
    <3>2. calls' = [calls EXCEPT ![Head(q)]["flush"] = "posting"]
      BY <2>2 DEF Retried
    <3> QED BY <1>0, <2>2, <2>3, <2>4, <3>1, <3>2 DEF CallsOK, Origins
  <2> QED BY <2>1, <2>5, <2>6, <2>7, TypeParts
<1>16. ASSUME NEW m \in Mine, Compose(m)
      PROVE  OpenChatTypeOK'
  <2>1. ServerOK' /\ EventsOK' /\ LoadsOK'
    BY <1>0, <1>16 DEF Compose, ServerOK, EventsOK, LoadsOK
  <2>2. ScreenOK'
    BY <1>0, <1>16 DEF Compose, ServerOK, ScreenOK, States
  <2>3. OutboxOK'
    BY <1>0, <1>16 DEF Compose, ScreenOK, OutboxOK, States
  <2>4. CallsOK'
    BY <1>0, <1>16 DEF Compose, ServerOK, CallsOK, Origins
  <2> QED BY <2>1, <2>2, <2>3, <2>4, TypeParts
<1>17. ASSUME NEW m \in Mine, Retry(m)
      PROVE  OpenChatTypeOK'
  <2>1. ServerOK' /\ EventsOK' /\ LoadsOK'
    BY <1>0, <1>17 DEF Retry, Retried, ServerOK, EventsOK, LoadsOK
  <2>2. ScreenOK'
    BY <1>0, <1>17 DEF Retry, Retried, SetState, ServerOK, ScreenOK, States
  <2>3. OutboxOK'
    BY <1>0, <1>17 DEF Retry, Retried, SetState, ServerOK, OutboxOK, States
  <2>4. CallsOK'
    BY <1>0, <1>17 DEF Retry, Retried, SetState, ServerOK, CallsOK, Origins
  <2> QED BY <2>1, <2>2, <2>3, <2>4, TypeParts
<1>18. ASSUME NEW m \in Mine, Discard(m)
      PROVE  OpenChatTypeOK'
  <2>1. ServerOK' /\ EventsOK' /\ LoadsOK' /\ CallsOK'
    BY <1>0, <1>18 DEF Discard, ServerOK, EventsOK, LoadsOK, CallsOK
  <2>2. ScreenOK'
    BY <1>0, <1>18 DEF Discard, ServerOK, ScreenOK, States
  <2>3. OutboxOK'
    BY <1>0, <1>18 DEF Discard, ServerOK, OutboxOK, States
  <2> QED BY <2>1, <2>2, <2>3, TypeParts
<1>19. ASSUME NEW m \in Mine, NEW o \in Origins, Accept(m, o)
      PROVE  OpenChatTypeOK'
  <2>1. OutboxOK'
    BY <1>0, <1>19 DEF Accept, OutboxOK
  <2>2. home[m] \in Chats
    BY <1>0, <1>19 DEF Accept, OutboxOK, UnwrittenIsNowhere
  <2>3. ServerOK' /\ EventsOK' /\ ScreenOK' /\ LoadsOK'
    BY <1>19, <2>2, StoredStep DEF Accept
  <2>4. CallsOK'
    BY <1>0, <1>19 DEF Accept, CallsOK, Origins
  <2> QED BY <2>1, <2>3, <2>4, TypeParts
<1>20. ASSUME NEW m \in Mine, NEW o \in Origins, Sent(m, o)
      PROVE  OpenChatTypeOK'
  <2>1. ServerOK' /\ EventsOK' /\ LoadsOK'
    BY <1>0, <1>20 DEF Sent, ServerOK, EventsOK, LoadsOK
  <2> DEFINE list == [temps EXCEPT ![m] = "none"]
             box == [outbox EXCEPT ![m] = "none"]
  <2>2. list \in [Mine -> States] /\ box \in [Mine -> States]
    BY <1>0 DEF ScreenOK, OutboxOK, States
  <2>3. calls[m][o] # "none" /\ Ended(m, o, list, box)
    BY <1>20 DEF Sent
  <2>4. CallsOK' /\ temps' \in [Mine -> States] /\ outbox' \in [Mine -> States]
    <3> HIDE DEF list, box
    <3> QED BY <1>0, <1>20, <2>2, <2>3, EndedTypes
  <2>5. ScreenOK' /\ OutboxOK'
    BY <1>0, <1>20, <2>4 DEF Sent, ScreenOK, OutboxOK
  <2> QED BY <2>1, <2>4, <2>5, TypeParts
<1>21. ASSUME NEW m \in Mine, NEW o \in Origins, SendFails(m, o)
      PROVE  OpenChatTypeOK'
  <2>1. ServerOK' /\ EventsOK' /\ LoadsOK'
    BY <1>0, <1>21 DEF SendFails, ServerOK, EventsOK, LoadsOK
  <2>2. /\ SetState(temps, m, "failed") \in [Mine -> States]
        /\ SetState(outbox, m, "failed") \in [Mine -> States]
    BY <1>0, SetStateType DEF ScreenOK, OutboxOK, States
  <2>3. CallsOK' /\ temps' \in [Mine -> States] /\ outbox' \in [Mine -> States]
    BY <1>0, <1>21, <2>2, EndedTypes DEF SendFails
  <2>4. ScreenOK' /\ OutboxOK'
    BY <1>0, <1>21, <2>3, UpsetType DEF SendFails, ScreenOK, OutboxOK
  <2> QED BY <2>1, <2>3, <2>4, TypeParts
<1>22. CASE UNCHANGED vars
  BY <1>22 DEF vars, OpenChatTypeOK
<1> QED BY <1>1, <1>2, <1>3, <1>4, <1>5, <1>6, <1>7, <1>8, <1>9, <1>10, <1>11, <1>12, <1>13, <1>14, <1>15, <1>16, <1>17, <1>18, <1>19, <1>20, <1>21, <1>22 DEF Next

---------------------------------------------------------------------------
(* Steps by what they change.                                              *)

\* Messages are only added at the server.
LEMMA PostsGrow ==
    ASSUME OpenChatTypeOK, UnwrittenIsNowhere, [Next]_vars
    PROVE  /\ DOMAIN posts \subseteq DOMAIN posts'
           /\ \A i \in DOMAIN posts : posts'[i] = posts[i]
<1>1. CASE posts' = posts
  BY <1>1
<1>2. ASSUME NEW c \in Chats, PostByOther(c)
      PROVE  DOMAIN posts \subseteq DOMAIN posts' /\ \A i \in DOMAIN posts : posts'[i] = posts[i]
  BY <1>2, StoredTypes DEF PostByOther
<1>3. ASSUME NEW m \in Mine, NEW o \in Origins, Accept(m, o)
      PROVE  DOMAIN posts \subseteq DOMAIN posts' /\ \A i \in DOMAIN posts : posts'[i] = posts[i]
  <2>1. home[m] \in Chats
    BY <1>3 DEF Accept, OpenChatTypeOK, UnwrittenIsNowhere
  <2> QED BY <1>3, <2>1, StoredTypes DEF Accept
<1>4. \/ posts' = posts
      \/ \E c \in Chats : PostByOther(c)
      \/ \E m \in Mine, o \in Origins : Accept(m, o)
  BY DEF Next, vars, serverVars, Connect, LoseConnection, Reload, Select, DeletePost, PageRead,
     SelectShown, SelectFails, CatchUpShown, CatchUpFails, ShowList, Ready, MessageCreate,
     MessageDelete, Flush, Compose, Retry, Discard, Sent, SendFails
<1> QED BY <1>1, <1>2, <1>3, <1>4

sending == <<outbox, home, discarded, calls, queue>>

\* Loads, events and the server leave what is being sent alone.
LEMMA SendingSteps ==
    ASSUME [Next]_vars
    PROVE  \/ UNCHANGED sending
           \/ Reload \/ Flush
           \/ \E m \in Mine : Compose(m) \/ Retry(m) \/ Discard(m)
           \/ \E m \in Mine, o \in Origins : Accept(m, o) \/ Sent(m, o) \/ SendFails(m, o)
  BY DEF Next, vars, sending, outboxVars, callVars, Connect, LoseConnection, PostByOther, Select,
     DeletePost, PageRead, SelectShown, SelectFails, CatchUpShown, CatchUpFails, ShowList, Ready,
     MessageCreate, MessageDelete

\* The message a flush goes on to when its call for the first one ends.
GoesOnTo(o, n) == o = "flush" /\ Tail(queue) # <<>> /\ n = queue[2]

LEMMA EndedEffect ==
    ASSUME CallsOK, NEW m \in Mine, NEW o \in Origins, calls[m][o] # "none",
           NEW list \in [Mine -> States], NEW box \in [Mine -> States],
           Ended(m, o, list, box), NEW n \in Mine
    PROVE  /\ GoesOnTo(o, n) => n # m /\ 2 \in DOMAIN queue
           /\ temps'[n] = IF GoesOnTo(o, n) /\ list[n] # "none" THEN "pending" ELSE list[n]
           /\ outbox'[n] = IF GoesOnTo(o, n) /\ box[n] # "none" THEN "pending" ELSE box[n]
           /\ \A p \in Origins :
                calls'[n][p] = IF n = m /\ p = o THEN "none"
                               ELSE IF p = o /\ GoesOnTo(o, n) THEN "posting" ELSE calls[n][p]
           /\ \A i \in DOMAIN queue' : \E j \in DOMAIN queue : queue'[i] = queue[j]
<1>1. CASE o = "flush"
  <2>1. queue \in Seq(Mine) /\ queue # <<>> /\ m = Head(queue) /\ queue' = Tail(queue)
    BY <1>1 DEF CallsOK, Ended
  <2>2. Tail(queue) # <<>> => queue[2] # m /\ queue[2] \in Mine /\ 2 \in DOMAIN queue
    BY <2>1, RestOfQueue DEF CallsOK
  <2>3. \A i \in DOMAIN queue' : \E j \in DOMAIN queue : queue'[i] = queue[j]
    <3>1. \A i \in DOMAIN Tail(queue) : i + 1 \in DOMAIN queue /\ Tail(queue)[i] = queue[i + 1]
      BY <2>1
    <3> QED BY <2>1, <3>1
  <2>4. CASE Tail(queue) = <<>>
    <3>1. calls' = [calls EXCEPT ![m]["flush"] = "none"] /\ temps' = list /\ outbox' = box
      BY <1>1, <2>4 DEF Ended
    <3> QED BY <1>1, <2>3, <2>4, <3>1 DEF CallsOK, GoesOnTo, Origins
  <2>5. CASE Tail(queue) # <<>>
    <3>1. /\ calls' = [calls EXCEPT ![m]["flush"] = "none", ![queue[2]]["flush"] = "posting"]
          /\ temps' = SetState(list, queue[2], "pending")
          /\ outbox' = SetState(box, queue[2], "pending")
      BY <1>1, <2>5 DEF Ended
    <3> QED BY <1>1, <2>2, <2>3, <2>5, <3>1 DEF CallsOK, GoesOnTo, SetState, Origins
  <2> QED BY <2>4, <2>5
<1>2. CASE o # "flush"
  BY <1>2 DEF CallsOK, Ended, GoesOnTo, Origins
<1> QED BY <1>1, <1>2

LEMMA RetriedEffect ==
    ASSUME OpenChatTypeOK, NEW m \in Mine, NEW o \in Origins, Retried(m, o), NEW n \in Mine
    PROVE  /\ temps'[n] = IF n = m /\ temps[n] # "none" THEN "pending" ELSE temps[n]
           /\ outbox'[n] = IF n = m /\ outbox[n] # "none" THEN "pending" ELSE outbox[n]
           /\ \A p \in Origins : calls'[n][p] = IF n = m /\ p = o THEN "posting" ELSE calls[n][p]
  BY DEF OpenChatTypeOK, Retried, SetState

\* The end of a call, and the flush, with their parameters named.
LEMMA SentEffect ==
    ASSUME OpenChatTypeOK, NEW m \in Mine, NEW o \in Origins, Sent(m, o), NEW n \in Mine
    PROVE  LET list == [temps EXCEPT ![m] = "none"]
               box == [outbox EXCEPT ![m] = "none"]
           IN  /\ list \in [Mine -> States] /\ box \in [Mine -> States]
               /\ Ended(m, o, list, box) /\ calls[m][o] # "none"
  BY DEF OpenChatTypeOK, Sent, States

LEMMA FailsEffect ==
    ASSUME OpenChatTypeOK, NEW m \in Mine, NEW o \in Origins, SendFails(m, o)
    PROVE  LET list == SetState(temps, m, "failed")
               box == SetState(outbox, m, "failed")
           IN  /\ list \in [Mine -> States] /\ box \in [Mine -> States]
               /\ Ended(m, o, list, box) /\ calls[m][o] # "none"
  BY SetStateType DEF OpenChatTypeOK, SendFails, States


LEMMA FlushEffect ==
    ASSUME Flush
    PROVE  /\ queue' # <<>> /\ Head(queue') \in Mine /\ outbox[Head(queue')] = "failed"
           /\ Retried(Head(queue'), "flush")
           /\ \A i \in DOMAIN queue' : queue'[i] \in Mine /\ outbox[queue'[i]] = "failed"
<1> DEFINE S == {m \in Mine : outbox[m] = "failed"}
<1>1. PICK q \in SetToSeqs(S) : q # <<>> /\ queue' = q /\ Retried(Head(q), "flush")
  BY DEF Flush
<1>2. S \in SUBSET Mine
  OBVIOUS
<1>3. q \in Seq(Mine)
  <2> HIDE DEF S
  <2> QED BY <1>2, QueuesAreSequences
<1>4. q \in [1 .. Cardinality(S) -> S]
  BY DEF SetToSeqs
<1>5. 1 \in DOMAIN q /\ Head(q) = q[1]
  <2> HIDE DEF S
  <2> QED BY <1>1, <1>3
<1> QED BY <1>1, <1>4, <1>5

---------------------------------------------------------------------------
(* The inductive invariant.                                                *)

\* What the server has accepted it has stored.
AcceptedIsStored ==
    \A m \in Mine, o \in Origins : calls[m][o] = "accepted" => Reached(m)

\* A page holds messages of the chat it was asked for.
PagesOfTheirChat ==
    \A l \in LoadIds : loads[l].stage = "read" => loads[l].page \subseteq InChat(loads[l].chat)

Inv ==
    /\ OpenChatTypeOK /\ UnwrittenIsNowhere /\ AcceptedIsStored /\ PagesOfTheirChat
    /\ NothingLost /\ ListIsOfTheOpenChat /\ OutboxOnScreen

LEMMA ReachedStays ==
    ASSUME OpenChatTypeOK, UnwrittenIsNowhere, [Next]_vars, NEW m, Reached(m)
    PROVE  Reached(m)'
  BY PostsGrow DEF Reached

LEMMA UnwrittenStep == Inv /\ [Next]_vars => UnwrittenIsNowhere'
<1> SUFFICES ASSUME OpenChatTypeOK, UnwrittenIsNowhere, [Next]_vars
             PROVE  UnwrittenIsNowhere'
  BY DEF Inv
<1> USE DEF UnwrittenIsNowhere
<1>1. CASE UNCHANGED <<sending, temps>>
  BY <1>1 DEF sending
<1>2. ASSUME UNCHANGED sending, NEW l \in LoadIds, NEW ids, ShowList(l, ids)
      PROVE  UnwrittenIsNowhere'
  BY <1>2 DEF sending, ShowList, OutboxOf, OpenChatTypeOK
<1>3. CASE Reload
  BY <1>3 DEF Reload, Reconciled, outboxVars, OpenChatTypeOK
<1>4. CASE Flush
  <2>1. home' = home
    BY <1>4 DEF Flush
  <2>2. /\ Head(queue') \in Mine /\ outbox[Head(queue')] = "failed"
        /\ Retried(Head(queue'), "flush")
        /\ \A i \in DOMAIN queue' : queue'[i] \in Mine /\ outbox[queue'[i]] = "failed"
    BY <1>4, FlushEffect
  <2>3. \A i \in DOMAIN queue' : home[queue'[i]] # None
    BY <2>2
  <2>4. \A n \in Mine : home[n] = None => n # Head(queue')
    BY <2>2
  <2>5. "flush" \in Origins
    BY DEF Origins
  <2> QED BY <2>1, <2>2, <2>3, <2>4, <2>5, RetriedEffect
<1>5. ASSUME NEW m \in Mine, Compose(m)
      PROVE  UnwrittenIsNowhere'
  BY <1>5 DEF Compose, OpenChatTypeOK, Origins
<1>6. ASSUME NEW m \in Mine, Retry(m)
      PROVE  UnwrittenIsNowhere'
  BY <1>6, RetriedEffect DEF Retry, Origins
<1>7. ASSUME NEW m \in Mine, Discard(m)
      PROVE  UnwrittenIsNowhere'
  BY <1>7 DEF Discard, OpenChatTypeOK, callVars
<1>8. ASSUME NEW m \in Mine, NEW o \in Origins, Accept(m, o)
      PROVE  UnwrittenIsNowhere'
  BY <1>8 DEF Accept, OpenChatTypeOK, listVars, outboxVars
<1>9. CallsOK
  BY TypeParts
<1>10. ASSUME NEW m \in Mine, NEW o \in Origins, Sent(m, o)
       PROVE  UnwrittenIsNowhere'
  <2> DEFINE list == [temps EXCEPT ![m] = "none"]
             box == [outbox EXCEPT ![m] = "none"]
  <2>1. /\ list \in [Mine -> States] /\ box \in [Mine -> States]
        /\ Ended(m, o, list, box) /\ calls[m][o] # "none" /\ home' = home
    BY <1>10, SentEffect DEF Sent
  <2>2. \A n \in Mine : home[n] = None => list[n] = "none" /\ box[n] = "none" /\ ~GoesOnTo(o, n)
    <3>1. \A n \in Mine : GoesOnTo(o, n) => 2 \in DOMAIN queue
      <4> HIDE DEF list, box
      <4> QED BY <1>9, <2>1, EndedEffect
    <3> QED BY <3>1 DEF OpenChatTypeOK, GoesOnTo
  <2> HIDE DEF list, box
  <2> QED BY <1>9, <2>1, <2>2, EndedEffect
<1>11. ASSUME NEW m \in Mine, NEW o \in Origins, SendFails(m, o)
       PROVE  UnwrittenIsNowhere'
  <2> DEFINE list == SetState(temps, m, "failed")
             box == SetState(outbox, m, "failed")
  <2>1. /\ list \in [Mine -> States] /\ box \in [Mine -> States]
        /\ Ended(m, o, list, box) /\ calls[m][o] # "none" /\ home' = home
    BY <1>11, FailsEffect DEF SendFails
  <2>2. \A n \in Mine : home[n] = None => list[n] = "none" /\ box[n] = "none" /\ ~GoesOnTo(o, n)
    <3>1. \A n \in Mine : GoesOnTo(o, n) => 2 \in DOMAIN queue
      <4> HIDE DEF list, box
      <4> QED BY <1>9, <2>1, EndedEffect
    <3> QED BY <3>1 DEF OpenChatTypeOK, GoesOnTo, SetState
  <2> HIDE DEF list, box
  <2> QED BY <1>9, <2>1, <2>2, EndedEffect
<1>12. \/ UNCHANGED <<sending, temps>>
       \/ UNCHANGED sending /\ \E l \in LoadIds : \E ids : ShowList(l, ids)
       \/ Reload \/ Flush
       \/ \E m \in Mine : Compose(m) \/ Retry(m) \/ Discard(m)
       \/ \E m \in Mine, o \in Origins : Accept(m, o) \/ Sent(m, o) \/ SendFails(m, o)
  BY DEF Next, vars, sending, outboxVars, callVars, listVars, Connect, LoseConnection, PostByOther,
     Select, DeletePost, PageRead, SelectShown, SelectFails, CatchUpShown, CatchUpFails, ShowList,
     Ready, MessageCreate, MessageDelete
<1> QED BY <1>1, <1>2, <1>3, <1>4, <1>5, <1>6, <1>7, <1>8, <1>10, <1>11, <1>12

LEMMA AcceptedStep == Inv /\ [Next]_vars => AcceptedIsStored'
<1> SUFFICES ASSUME Inv, [Next]_vars, NEW n \in Mine, NEW p \in Origins, calls'[n][p] = "accepted"
             PROVE  Reached(n)'
  BY DEF AcceptedIsStored
<1>1. OpenChatTypeOK /\ UnwrittenIsNowhere /\ CallsOK
  BY TypeParts DEF Inv
<1>2. ASSUME calls[n][p] = "accepted"
      PROVE  Reached(n)'
  BY <1>1, <1>2, ReachedStays DEF Inv, AcceptedIsStored
<1>3. CASE UNCHANGED sending
  BY <1>2, <1>3 DEF sending
<1>4. CASE Reload
  BY <1>4 DEF Reload
<1>5. CASE Flush
  <2>1. Head(queue') \in Mine /\ Retried(Head(queue'), "flush") /\ "flush" \in Origins
    BY <1>5, FlushEffect DEF Origins
  <2> QED BY <1>1, <1>2, <2>1, RetriedEffect
<1>6. ASSUME NEW m \in Mine, Compose(m) \/ Retry(m) \/ Discard(m)
      PROVE  Reached(n)'
  <2>1. calls'[n][p] \in {calls[n][p], "posting"}
    <3>1. CASE Compose(m)
      BY <1>1, <3>1 DEF Compose, OpenChatTypeOK, Origins
    <3>2. CASE Retry(m)
      <4>1. Retried(m, "user") /\ "user" \in Origins
        BY <3>2 DEF Retry, Origins
      <4> QED BY <1>1, <4>1, RetriedEffect
    <3>3. CASE Discard(m)
      BY <3>3 DEF Discard, callVars
    <3> QED BY <1>6, <3>1, <3>2, <3>3
  <2> QED BY <1>2, <2>1
<1>7. ASSUME NEW m \in Mine, NEW o \in Origins, Accept(m, o)
      PROVE  Reached(n)'
  <2>1. CASE n = m
    <3>1. home[m] \in Chats
      BY <1>1, <1>7 DEF Accept, OpenChatTypeOK, UnwrittenIsNowhere
    <3>2. Len(posts) + 1 \in DOMAIN posts' /\ posts'[Len(posts) + 1].from = m
      <4>1. Stored(home[m], m)
        BY <1>7 DEF Accept
      <4>2. /\ Len(posts) + 1 \in DOMAIN posts'
            /\ posts'[Len(posts) + 1] = [chat |-> home[m], from |-> m]
        BY <1>1, <3>1, <4>1, StoredTypes
      <4> QED BY <4>2
    <3> QED BY <2>1, <3>2 DEF Reached
  <2>2. CASE n # m
    BY <1>1, <1>2, <1>7, <2>2 DEF Accept, OpenChatTypeOK
  <2> QED BY <2>1, <2>2
<1>8. ASSUME NEW m \in Mine, NEW o \in Origins, Sent(m, o) \/ SendFails(m, o)
      PROVE  Reached(n)'
  <2>1. calls'[n][p] \in {calls[n][p], "none", "posting"}
    <3>1. \E list, box \in [Mine -> States] : Ended(m, o, list, box) /\ calls[m][o] # "none"
      BY <1>1, <1>8, SentEffect, FailsEffect
    <3> QED BY <1>1, <3>1, EndedEffect
  <2> QED BY <1>2, <2>1
<1> QED BY <1>3, <1>4, <1>5, <1>6, <1>7, <1>8, SendingSteps

LEMMA PagesStep == Inv /\ [Next]_vars => PagesOfTheirChat'
<1> SUFFICES ASSUME Inv, [Next]_vars, NEW l \in LoadIds, loads'[l].stage = "read"
             PROVE  (loads[l].page \subseteq InChat(loads[l].chat))'
  BY DEF PagesOfTheirChat
<1>1. OpenChatTypeOK /\ UnwrittenIsNowhere /\ CallsOK
  BY TypeParts DEF Inv
<1>2. ASSUME loads'[l] = loads[l]
      PROVE  (loads[l].page \subseteq InChat(loads[l].chat))'
  BY <1>1, <1>2, PostsGrow DEF Inv, PagesOfTheirChat, InChat
<1>3. CASE PageRead(l)
  BY <1>1, <1>3 DEF PageRead, OpenChatTypeOK, InChat, serverVars
<1>4. loads'[l] = loads[l] \/ PageRead(l)
  <2> USE <1>1 DEF NoLoad, OpenChatTypeOK
  <2>1. ASSUME NEW k \in LoadIds, PageRead(k) \/ CatchUpFails(k) \/ Ready(k) \/ \E c \in Chats : Select(c, k)
        PROVE  loads'[l] = loads[l] \/ PageRead(l)
    <3>1. CASE k # l
      BY <2>1, <3>1 DEF PageRead, CatchUpFails, Ready, Select, Asked
    <3>2. CASE CatchUpFails(l)
      BY <3>2 DEF CatchUpFails
    <3>3. CASE Ready(l)
      <4>1. loads' = loads \/ Asked(l, "catchup", selected)
        BY <3>3 DEF Ready
      <4> QED BY <4>1 DEF Asked
    <3>4. CASE \E c \in Chats : Select(c, l)
      BY <3>4 DEF Select, Asked
    <3> QED BY <2>1, <3>1, <3>2, <3>3, <3>4
  <2>2. ASSUME NEW k \in LoadIds, NEW ids, ShowList(k, ids)
        PROVE  loads'[l] = loads[l]
    BY <2>2 DEF ShowList
  <2>3. CASE Reload
    BY <2>3 DEF Reload
  <2>4. \/ UNCHANGED loads \/ Reload
        \/ \E k \in LoadIds : PageRead(k) \/ CatchUpFails(k) \/ Ready(k) \/ \E c \in Chats : Select(c, k)
        \/ \E k \in LoadIds : \E ids : ShowList(k, ids)
    BY DEF Next, vars, Connect, LoseConnection, PostByOther, DeletePost, SelectShown,
       SelectFails, CatchUpShown, MessageCreate, MessageDelete, Flush, Compose, Retry, Discard,
       Accept, Sent, SendFails
  <2> QED BY <2>1, <2>2, <2>3, <2>4
<1> QED BY <1>2, <1>3, <1>4

LEMMA NothingLostStep == Inv /\ [Next]_vars => NothingLost'
<1> DEFINE Kept(n) == \/ n \in discarded \/ Reached(n)
                      \/ outbox[n] = "failed"
                      \/ outbox[n] = "pending" /\ Sending(n)
<1> SUFFICES ASSUME Inv, [Next]_vars, NEW n \in Mine, home'[n] # None
             PROVE  Kept(n)'
  BY DEF NothingLost
<1>1. OpenChatTypeOK /\ UnwrittenIsNowhere /\ CallsOK /\ AcceptedIsStored
  BY TypeParts DEF Inv
<1>2. home[n] # None => Kept(n)
  BY DEF Inv, NothingLost
<1>3. Reached(n) => Reached(n)'
  BY <1>1, ReachedStays
<1>4. CASE UNCHANGED sending
  BY <1>2, <1>3, <1>4 DEF sending, Sending
<1>5. CASE Reload
  BY <1>1, <1>2, <1>3, <1>5 DEF Reload, Reconciled, outboxVars
<1>6. ASSUME NEW m \in Mine, NEW o \in Origins, Retried(m, o), UNCHANGED <<home, discarded>>
      PROVE  Kept(n)'
  <2>1. /\ outbox'[n] = IF n = m /\ outbox[n] # "none" THEN "pending" ELSE outbox[n]
        /\ \A p \in Origins : calls'[n][p] = IF n = m /\ p = o THEN "posting" ELSE calls[n][p]
    BY <1>1, <1>6, RetriedEffect
  <2>2. Sending(n) => Sending(n)'
    BY <2>1 DEF Sending
  <2>3. n = m => Sending(n)'
    BY <2>1 DEF Sending
  <2> QED BY <1>2, <1>3, <1>6, <2>1, <2>2, <2>3
<1>7. CASE Flush
  <2>1. Head(queue') \in Mine /\ Retried(Head(queue'), "flush") /\ "flush" \in Origins
    BY <1>7, FlushEffect DEF Origins
  <2> QED BY <1>6, <1>7, <2>1 DEF Flush
<1>8. ASSUME NEW m \in Mine, Compose(m)
      PROVE  Kept(n)'
  <2>1. CASE n = m
    <3>1. outbox'[m] = "pending" /\ calls'[m]["user"] = "posting" /\ "user" \in Origins
      BY <1>1, <1>8 DEF Compose, OpenChatTypeOK, Origins
    <3> QED BY <2>1, <3>1 DEF Sending
  <2>2. CASE n # m
    <3>1. /\ home'[n] = home[n] /\ outbox'[n] = outbox[n] /\ calls'[n] = calls[n]
          /\ discarded' = discarded
      BY <1>1, <1>8, <2>2 DEF Compose, OpenChatTypeOK
    <3> QED BY <1>2, <1>3, <3>1 DEF Sending
  <2> QED BY <2>1, <2>2
<1>9. ASSUME NEW m \in Mine, Retry(m)
      PROVE  Kept(n)'
  BY <1>6, <1>9 DEF Retry, Origins
<1>10. ASSUME NEW m \in Mine, Discard(m)
       PROVE  Kept(n)'
  <2>1. /\ home' = home /\ calls' = calls /\ discarded' = discarded \cup {m}
        /\ n # m => outbox'[n] = outbox[n]
    BY <1>1, <1>10 DEF Discard, callVars, OpenChatTypeOK
  <2> QED BY <1>2, <1>3, <2>1 DEF Sending
<1>11. ASSUME NEW m \in Mine, NEW o \in Origins, Accept(m, o)
       PROVE  Kept(n)'
  <2>1. /\ UNCHANGED outboxVars
        /\ \A p \in Origins : calls[n][p] # "none" => calls'[n][p] # "none"
    BY <1>1, <1>11 DEF Accept, OpenChatTypeOK
  <2> QED BY <1>2, <1>3, <2>1 DEF outboxVars, Sending
<1>12. ASSUME NEW m \in Mine, NEW o \in Origins, NEW list \in [Mine -> States],
              NEW box \in [Mine -> States], Ended(m, o, list, box), calls[m][o] # "none",
              UNCHANGED <<home, discarded>>,
              n # m => box[n] = outbox[n],
              n = m => \/ box[n] = "failed" \/ Reached(n) \/ n \in discarded
       PROVE  Kept(n)'
  <2>1. /\ GoesOnTo(o, n) => n # m
        /\ outbox'[n] = IF GoesOnTo(o, n) /\ box[n] # "none" THEN "pending" ELSE box[n]
        /\ \A p \in Origins :
             calls'[n][p] = IF n = m /\ p = o THEN "none"
                            ELSE IF p = o /\ GoesOnTo(o, n) THEN "posting" ELSE calls[n][p]
    BY <1>1, <1>12, EndedEffect
  <2>2. CASE n = m
    BY <1>3, <1>12, <2>1, <2>2
  <2>3. CASE n # m
    <3>1. Sending(n) => Sending(n)'
      BY <2>1, <2>3 DEF Sending
    <3>2. GoesOnTo(o, n) => Sending(n)'
      BY <2>1, <2>3 DEF Sending
    <3> QED BY <1>2, <1>3, <1>12, <2>1, <2>3, <3>1, <3>2
  <2> QED BY <2>2, <2>3
<1>13. ASSUME NEW m \in Mine, NEW o \in Origins, Sent(m, o)
       PROVE  Kept(n)'
  <2> DEFINE list == [temps EXCEPT ![m] = "none"]
             box == [outbox EXCEPT ![m] = "none"]
  <2>1. /\ list \in [Mine -> States] /\ box \in [Mine -> States]
        /\ Ended(m, o, list, box) /\ calls[m][o] # "none" /\ UNCHANGED <<home, discarded>>
    BY <1>1, <1>13, SentEffect DEF Sent
  <2>2. (n # m => box[n] = outbox[n]) /\ (n = m => Reached(n))
    BY <1>1, <1>13 DEF Sent, AcceptedIsStored, OpenChatTypeOK
  <2> HIDE DEF list, box, Kept
  <2> QED BY <1>12, <2>1, <2>2
<1>14. ASSUME NEW m \in Mine, NEW o \in Origins, SendFails(m, o)
       PROVE  Kept(n)'
  <2> DEFINE list == SetState(temps, m, "failed")
             box == SetState(outbox, m, "failed")
  <2>1. /\ list \in [Mine -> States] /\ box \in [Mine -> States]
        /\ Ended(m, o, list, box) /\ calls[m][o] # "none" /\ UNCHANGED <<home, discarded>>
    BY <1>1, <1>14, FailsEffect DEF SendFails
  <2>2. /\ n # m => box[n] = outbox[n]
        /\ n = m => box[n] = "failed" \/ Reached(n) \/ n \in discarded
    BY <1>1, <1>2, <2>1 DEF SetState, OpenChatTypeOK
  <2> HIDE DEF list, box, Kept
  <2> QED BY <1>12, <2>1, <2>2
<1> QED BY <1>4, <1>5, <1>7, <1>8, <1>9, <1>10, <1>11, <1>13, <1>14, SendingSteps


LEMMA OutboxOnScreenStep == Inv /\ [Next]_vars => OutboxOnScreen'
<1> SUFFICES ASSUME Inv, [Next]_vars PROVE OutboxOnScreen'
  OBVIOUS
<1>0. OpenChatTypeOK'
  BY TypeStep DEF Inv
<1> SUFFICES ASSUME ~loading', selected' # None, NEW n \in Mine
             PROVE  temps'[n] = IF home'[n] = selected' THEN outbox'[n] ELSE "none"
  BY <1>0 DEF OutboxOnScreen, OutboxOf, OpenChatTypeOK
<1> DEFINE Agrees == temps[n] = IF home[n] = selected THEN outbox[n] ELSE "none"
<1>1. OpenChatTypeOK /\ UnwrittenIsNowhere /\ CallsOK
  BY TypeParts DEF Inv
<1>2. ~loading /\ selected # None => Agrees
  BY <1>1 DEF Inv, OutboxOnScreen, OutboxOf
<1>3. CASE UNCHANGED <<loading, selected, temps, outbox, home>>
  BY <1>2, <1>3
<1>4. CASE Reload \/ \E c \in Chats, l \in LoadIds : Select(c, l)
  BY <1>4 DEF Reload, Select
<1>5. ASSUME NEW l \in LoadIds, NEW ids, ShowList(l, ids)
      PROVE  Agrees'
  <2>1. UNCHANGED <<selected, outbox, home>>
    BY <1>5 DEF ShowList, outboxVars
  <2>2. CASE StillOpen(l)
    BY <1>5, <2>1, <2>2 DEF ShowList, StillOpen, OutboxOf
  <2>3. CASE ~StillOpen(l)
    BY <1>2, <1>5, <2>1, <2>3 DEF ShowList
  <2> QED BY <2>2, <2>3
<1>6. ASSUME NEW m \in Mine, NEW o \in Origins, Retried(m, o), UNCHANGED <<home, selected, loading>>
      PROVE  Agrees'
  BY <1>1, <1>2, <1>6, RetriedEffect
<1>7. CASE Flush
  <2>1. Head(queue') \in Mine /\ Retried(Head(queue'), "flush") /\ "flush" \in Origins
    BY <1>7, FlushEffect DEF Origins
  <2> QED BY <1>6, <1>7, <2>1 DEF Flush
<1>8. ASSUME NEW m \in Mine, Compose(m)
      PROVE  Agrees'
  BY <1>1, <1>2, <1>8 DEF Compose, OpenChatTypeOK
<1>9. ASSUME NEW m \in Mine, Retry(m)
      PROVE  Agrees'
  BY <1>6, <1>9 DEF Retry, Origins
<1>10. ASSUME NEW m \in Mine, Discard(m)
       PROVE  Agrees'
  BY <1>1, <1>2, <1>10 DEF Discard, OpenChatTypeOK
<1>11. ASSUME NEW m \in Mine, NEW o \in Origins, NEW list \in [Mine -> States],
              NEW box \in [Mine -> States], Ended(m, o, list, box), calls[m][o] # "none",
              UNCHANGED <<home, selected, loading>>,
              \/ list[n] = temps[n] /\ box[n] = outbox[n]
              \/ list[n] = IF home[n] = selected THEN box[n] ELSE "none"
       PROVE  Agrees'
  BY <1>1, <1>2, <1>11, EndedEffect
<1>12. ASSUME NEW m \in Mine, NEW o \in Origins, Sent(m, o)
       PROVE  Agrees'
  <2> DEFINE list == [temps EXCEPT ![m] = "none"]
             box == [outbox EXCEPT ![m] = "none"]
  <2>1. /\ list \in [Mine -> States] /\ box \in [Mine -> States]
        /\ Ended(m, o, list, box) /\ calls[m][o] # "none" /\ UNCHANGED <<home, selected, loading>>
    BY <1>1, <1>12, SentEffect DEF Sent
  <2>2. \/ list[n] = temps[n] /\ box[n] = outbox[n]
        \/ list[n] = IF home[n] = selected THEN box[n] ELSE "none"
    BY <1>1 DEF OpenChatTypeOK
  <2> HIDE DEF list, box, Agrees
  <2> QED BY <1>11, <2>1, <2>2
<1>13. ASSUME NEW m \in Mine, NEW o \in Origins, SendFails(m, o)
       PROVE  Agrees'
  <2> DEFINE list == SetState(temps, m, "failed")
             box == SetState(outbox, m, "failed")
  <2>1. /\ list \in [Mine -> States] /\ box \in [Mine -> States]
        /\ Ended(m, o, list, box) /\ calls[m][o] # "none" /\ UNCHANGED <<home, selected, loading>>
    BY <1>1, <1>13, FailsEffect DEF SendFails
  <2>2. ~loading /\ selected # None
    BY <2>1
  <2>3. list[n] = IF home[n] = selected THEN box[n] ELSE "none"
    BY <1>1, <1>2, <2>2 DEF SetState, OpenChatTypeOK
  <2> HIDE DEF list, box, Agrees
  <2> QED BY <1>11, <2>1, <2>3
<1>14. \/ UNCHANGED <<loading, selected, temps, outbox, home>>
       \/ Reload \/ \E c \in Chats, l \in LoadIds : Select(c, l)
       \/ \E l \in LoadIds : \E ids : ShowList(l, ids)
       \/ Flush \/ \E m \in Mine : Compose(m) \/ Retry(m) \/ Discard(m)
       \/ \E m \in Mine, o \in Origins : Sent(m, o) \/ SendFails(m, o)
  BY DEF Next, vars, listVars, outboxVars, Connect, LoseConnection, PostByOther, DeletePost,
     PageRead, SelectShown, SelectFails, CatchUpShown, CatchUpFails, Ready, MessageCreate,
     MessageDelete, Accept
<1> QED BY <1>3, <1>4, <1>5, <1>7, <1>8, <1>9, <1>10, <1>12, <1>13, <1>14

LEMMA ListStep == Inv /\ [Next]_vars => ListIsOfTheOpenChat'
<1> SUFFICES ASSUME Inv, [Next]_vars, ~loading', selected' # None
             PROVE  /\ shown' \subseteq InChat(selected)'
                    /\ \A m \in Mine : temps'[m] # "none" => home'[m] = selected'
  BY DEF ListIsOfTheOpenChat
<1>1. OpenChatTypeOK /\ UnwrittenIsNowhere /\ PagesOfTheirChat
  BY DEF Inv
<1>2. \A m \in Mine : temps'[m] # "none" => home'[m] = selected'
  BY OutboxOnScreenStep DEF OutboxOnScreen, OutboxOf
<1>3. ASSUME selected' = selected, shown' \subseteq InChat(selected)
      PROVE  shown' \subseteq InChat(selected)'
  BY <1>1, <1>3, PostsGrow DEF InChat
<1>4. ~loading /\ selected # None => shown \subseteq InChat(selected)
  BY DEF Inv, ListIsOfTheOpenChat
<1>5. ASSUME UNCHANGED <<loading, selected>>, shown' \subseteq shown
      PROVE  shown' \subseteq InChat(selected)'
  <2>1. ~loading /\ selected # None /\ selected' = selected
    BY <1>5
  <2>2. shown' \subseteq InChat(selected)
    BY <1>4, <1>5, <2>1
  <2> QED BY <1>3, <2>1, <2>2
<1>6. CASE Reload \/ \E c \in Chats, l \in LoadIds : Select(c, l)
  BY <1>6 DEF Reload, Select
<1>7. ASSUME MessageCreate
      PROVE  shown' \subseteq InChat(selected)'
  <2>1. Head(events).post \in DOMAIN posts
    BY <1>1, <1>7, EventsArrive DEF MessageCreate
  <2>2. UNCHANGED <<loading, selected>>
    BY <1>7 DEF MessageCreate
  <2>3. shown' \subseteq InChat(selected)
    BY <1>4, <1>7, <2>1, <2>2 DEF MessageCreate, InChat
  <2> QED BY <1>3, <2>2, <2>3
<1>8. ASSUME NEW l \in LoadIds, NEW ids, ShowList(l, ids),
             \/ ids \subseteq InChat(loads[l].chat)
             \/ loads[l].kind = "catchup" /\ ids \subseteq shown \cup InChat(loads[l].chat)
      PROVE  shown' \subseteq InChat(selected)'
  <2>1. selected' = selected
    BY <1>8 DEF ShowList
  <2>2. CASE StillOpen(l)
    <3>1. shown' = ids /\ loads[l].chat = selected /\ loading' = (loading /\ loads[l].kind = "catchup")
      BY <1>8, <2>2 DEF ShowList, StillOpen
    <3>2. CASE ids \subseteq InChat(loads[l].chat)
      BY <1>3, <2>1, <3>1, <3>2
    <3>3. CASE loads[l].kind = "catchup" /\ ids \subseteq shown \cup InChat(loads[l].chat)
      BY <1>3, <1>4, <2>1, <3>1, <3>3
    <3> QED BY <1>8, <3>2, <3>3
  <2>3. CASE ~StillOpen(l)
    BY <1>3, <1>4, <1>8, <2>1, <2>3 DEF ShowList
  <2> QED BY <2>2, <2>3
<1>9. ASSUME NEW l \in LoadIds, SelectShown(l) \/ SelectFails(l) \/ CatchUpShown(l)
      PROVE  shown' \subseteq InChat(selected)'
  <2>1. CASE SelectShown(l)
    BY <1>1, <1>8, <2>1 DEF SelectShown, PagesOfTheirChat
  <2>2. CASE SelectFails(l)
    BY <1>8, <2>2 DEF SelectFails
  <2>3. CASE CatchUpShown(l)
    <3>1. loads[l].page \subseteq InChat(loads[l].chat)
      BY <1>1, <2>3 DEF CatchUpShown, PagesOfTheirChat
    <3>2. CaughtUp(shown, loads[l].page) \subseteq shown \cup InChat(loads[l].chat)
      BY <3>1 DEF CaughtUp
    <3> QED BY <1>8, <2>3, <3>2 DEF CatchUpShown
  <2> QED BY <1>9, <2>1, <2>2, <2>3
<1>10. \/ UNCHANGED <<loading, selected>> /\ shown' \subseteq shown
       \/ Reload \/ \E c \in Chats, l \in LoadIds : Select(c, l)
       \/ MessageCreate
       \/ \E l \in LoadIds : SelectShown(l) \/ SelectFails(l) \/ CatchUpShown(l)
  BY DEF Next, vars, listVars, Connect, LoseConnection, PostByOther, DeletePost, PageRead,
     CatchUpFails, Ready, MessageDelete, Flush, Compose, Retry, Discard, Accept, Sent, SendFails
<1>11. shown' \subseteq InChat(selected)'
  BY <1>5, <1>6, <1>7, <1>9, <1>10
<1> QED BY <1>2, <1>11

---------------------------------------------------------------------------
LEMMA InvInit == Init => Inv
<1> SUFFICES ASSUME Init PROVE Inv
  OBVIOUS
<1>1. OpenChatTypeOK
  <2>1. ServerOK /\ EventsOK
    BY OpenChatAssumption DEF Init, ServerOK, EventsOK
  <2>2. ScreenOK
    BY DEF Init, ScreenOK, States
  <2>5. OutboxOK
    <3>1. MaxUpsets \in Nat /\ upsets = 0
      BY OpenChatAssumption DEF Init
    <3>2. /\ outbox \in [Mine -> States] /\ home \in [Mine -> Chats \cup {None}]
          /\ discarded \subseteq Mine /\ connected \in BOOLEAN /\ sawReady \in BOOLEAN
      BY DEF Init, States
    <3> QED BY <3>1, <3>2 DEF OutboxOK
  <2>4. LoadsOK
    BY DEF Init, LoadsOK, NoLoad
  <2>3. CallsOK
    BY DEF Init, CallsOK, Origins, IsInjective
  <2> QED BY <2>1, <2>2, <2>3, <2>4, <2>5, TypeParts
<1> QED BY <1>1 DEF Init, Inv, UnwrittenIsNowhere, AcceptedIsStored, PagesOfTheirChat, NoLoad,
           NothingLost, ListIsOfTheOpenChat, OutboxOnScreen

\* The invariant is inductive.
LEMMA InvStep == Inv /\ [Next]_vars => Inv'
<1> SUFFICES ASSUME Inv, [Next]_vars PROVE Inv'
  OBVIOUS
<1>1. OpenChatTypeOK'
  BY TypeStep DEF Inv
<1> QED BY <1>1, UnwrittenStep, AcceptedStep, PagesStep, NothingLostStep, OutboxOnScreenStep,
           ListStep DEF Inv

\* What the code keeps true between any two steps.
THEOREM OpenChatInvariant == OpenChatSpec => []Inv
  BY InvInit, InvStep, PTL DEF OpenChatSpec

\* Every variable keeps its type, and a flush sends one message at a time.
THEOREM OpenChatTypes == OpenChatSpec => []OpenChatTypeOK
<1>1. Inv => OpenChatTypeOK
  BY DEF Inv
<1> QED BY <1>1, OpenChatInvariant, PTL

\* No message written on this device is lost between the screen, the outbox and the server,
\* however many chats, messages, loads, lost connections and reloads there are.
THEOREM NoMessageLost == OpenChatSpec => []NothingLost
<1>1. Inv => NothingLost
  BY DEF Inv
<1> QED BY <1>1, OpenChatInvariant, PTL

\* The visible list holds messages of the open chat only.
THEOREM ListOfTheOpenChat == OpenChatSpec => []ListIsOfTheOpenChat
<1>1. Inv => ListIsOfTheOpenChat
  BY DEF Inv
<1> QED BY <1>1, OpenChatInvariant, PTL

\* The unsent messages on the visible list are those of the outbox, in the state it has.
THEOREM OutboxShown == OpenChatSpec => []OutboxOnScreen
<1>1. Inv => OutboxOnScreen
  BY DEF Inv
<1> QED BY <1>1, OpenChatInvariant, PTL

---------------------------------------------------------------------------
(* How often a message is stored.  What may still be sent of it is bounded *)
(* at any time: the calls under way, the two answers a failure gets, one   *)
(* of its user and one of the flush, and its place in the queue.           *)

CopiesOf(m) == {i \in DOMAIN posts : posts[i].from = m}
Posting(m) ==
    (IF calls[m]["user"] = "posting" THEN 1 ELSE 0) + (IF calls[m]["flush"] = "posting" THEN 1 ELSE 0)
Waits(m) == \E i \in DOMAIN queue : i # 1 /\ queue[i] = m
Answers(m) == IF outbox[m] = "failed" THEN 2 ELSE IF Waits(m) THEN 1 ELSE 0
ToCome(m) == IF home[m] = None THEN 1 ELSE Posting(m) + Answers(m)

\* Nothing is retried before a chat is open.
NothingOnScreen == selected = None => \A m \in Mine : temps[m] = "none"

CopiesInv ==
    /\ NothingOnScreen
    /\ \A m \in Mine : Cardinality(CopiesOf(m)) + ToCome(m) <= 1 + 2 * upsets

LEMMA StoredCopies ==
    ASSUME OpenChatTypeOK, NEW c \in Chats, NEW from \in Mine \cup {Other}, Stored(c, from),
           NEW n \in Mine
    PROVE  Cardinality(CopiesOf(n))' = Cardinality(CopiesOf(n)) + IF from = n THEN 1 ELSE 0
<1>1. /\ DOMAIN posts = 1 .. Len(posts) /\ Len(posts) \in Nat
      /\ DOMAIN posts' = 1 .. Len(posts) + 1
      /\ \A i \in DOMAIN posts : posts'[i] = posts[i]
      /\ posts'[Len(posts) + 1].from = from
  BY StoredTypes DEF OpenChatTypeOK, Stored
<1>2. IsFiniteSet(CopiesOf(n))
  <2>1. IsFiniteSet(1 .. Len(posts))
    BY <1>1, FS_Interval
  <2>2. CopiesOf(n) \subseteq 1 .. Len(posts)
    BY <1>1 DEF CopiesOf
  <2> QED BY <2>1, <2>2, FS_Subset
<1>3. Len(posts) + 1 \notin CopiesOf(n)
  BY <1>1 DEF CopiesOf
<1>4. CASE from = n
  <2>1. CopiesOf(n)' = CopiesOf(n) \cup {Len(posts) + 1}
    BY <1>1, <1>4 DEF CopiesOf
  <2> QED BY <1>2, <1>3, <1>4, <2>1, FS_AddElement
<1>5. CASE from # n
  <2>1. CopiesOf(n)' = CopiesOf(n)
    BY <1>1, <1>5 DEF CopiesOf
  <2>2. Cardinality(CopiesOf(n)) \in Nat
    BY <1>2, FS_CardinalityType
  <2> QED BY <1>5, <2>1, <2>2
<1> QED BY <1>4, <1>5

LEMMA CopiesType == ASSUME OpenChatTypeOK, NEW n \in Mine PROVE Cardinality(CopiesOf(n)) \in Nat
<1>1. DOMAIN posts = 1 .. Len(posts) /\ Len(posts) \in Nat
  BY DEF OpenChatTypeOK
<1>2. IsFiniteSet(CopiesOf(n))
  <2>1. IsFiniteSet(1 .. Len(posts))
    BY <1>1, FS_Interval
  <2>2. CopiesOf(n) \subseteq 1 .. Len(posts)
    BY <1>1 DEF CopiesOf
  <2> QED BY <2>1, <2>2, FS_Subset
<1> QED BY <1>2, FS_CardinalityType

\* Only a call that is accepted adds a copy, and one copy only.
LEMMA CopiesStep ==
    ASSUME OpenChatTypeOK, UnwrittenIsNowhere, [Next]_vars, NEW n \in Mine
    PROVE  \/ Cardinality(CopiesOf(n))' = Cardinality(CopiesOf(n))
           \/ /\ \E o \in Origins : Accept(n, o)
              /\ Cardinality(CopiesOf(n))' = Cardinality(CopiesOf(n)) + 1
<1>1. CASE posts' = posts
  BY <1>1 DEF CopiesOf
<1>2. ASSUME NEW c \in Chats, PostByOther(c)
      PROVE  Cardinality(CopiesOf(n))' = Cardinality(CopiesOf(n))
  <2>1. Other # n
    BY OpenChatAssumption DEF Other
  <2> QED BY <1>2, <2>1, StoredCopies, CopiesType DEF PostByOther
<1>3. ASSUME NEW m \in Mine, NEW o \in Origins, Accept(m, o)
      PROVE  \/ Cardinality(CopiesOf(n))' = Cardinality(CopiesOf(n))
             \/ m = n /\ Cardinality(CopiesOf(n))' = Cardinality(CopiesOf(n)) + 1
  <2>1. home[m] \in Chats
    BY <1>3 DEF Accept, OpenChatTypeOK, UnwrittenIsNowhere
  <2> QED BY <1>3, <2>1, StoredCopies, CopiesType DEF Accept
<1>4. \/ posts' = posts
      \/ \E c \in Chats : PostByOther(c)
      \/ \E m \in Mine, o \in Origins : Accept(m, o)
  BY DEF Next, vars, serverVars, Connect, LoseConnection, Reload, Select, DeletePost, PageRead,
     SelectShown, SelectFails, CatchUpShown, CatchUpFails, ShowList, Ready, MessageCreate,
     MessageDelete, Flush, Compose, Retry, Discard, Sent, SendFails
<1> QED BY <1>1, <1>2, <1>3, <1>4

LEMMA UpsetsGrow ==
    ASSUME OpenChatTypeOK, [Next]_vars
    PROVE  upsets \in Nat /\ upsets' \in Nat /\ upsets' >= upsets
<1>1. upsets \in Nat
  BY OpenChatAssumption DEF OpenChatTypeOK
<1>2. upsets' = upsets \/ upsets' = upsets + 1
  BY DEF Next, vars, Connect, LoseConnection, Reload, Upset, PostByOther, Select, DeletePost,
     PageRead, SelectShown, SelectFails, CatchUpShown, CatchUpFails, Ready, MessageCreate,
     MessageDelete, Flush, Compose, Retry, Discard, Accept, Sent, SendFails
<1> QED BY <1>1, <1>2

LEMMA NothingOnScreenStep == Inv /\ NothingOnScreen /\ [Next]_vars => NothingOnScreen'
<1> SUFFICES ASSUME Inv, NothingOnScreen, [Next]_vars, selected' = None, NEW n \in Mine
             PROVE  temps'[n] = "none"
  BY DEF NothingOnScreen
<1>1. OpenChatTypeOK /\ UnwrittenIsNowhere /\ CallsOK
  BY TypeParts DEF Inv
<1>2. selected = None => temps[n] = "none"
  BY DEF NothingOnScreen
<1>3. CASE UNCHANGED <<selected, temps>>
  BY <1>2, <1>3
<1>4. CASE Reload
  BY <1>4 DEF Reload
<1>5. ASSUME NEW c \in Chats, NEW l \in LoadIds, Select(c, l)
      PROVE  temps'[n] = "none"
  BY <1>5, OpenChatAssumption DEF Select, None
<1>6. ASSUME NEW l \in LoadIds, NEW ids, ShowList(l, ids)
      PROVE  temps'[n] = "none"
  <2>1. selected = None
    BY <1>6 DEF ShowList
  <2>2. temps' = temps \/ temps' = OutboxOf(None)
    BY <1>6, <2>1 DEF ShowList, StillOpen
  <2> QED BY <1>1, <1>2, <2>1, <2>2 DEF OutboxOf, UnwrittenIsNowhere
<1>7. ASSUME NEW m \in Mine, NEW o \in Origins, Retried(m, o), selected' = selected
      PROVE  temps'[n] = "none"
  BY <1>1, <1>2, <1>7, RetriedEffect
<1>8. CASE Flush
  <2>1. Head(queue') \in Mine /\ Retried(Head(queue'), "flush") /\ "flush" \in Origins
    BY <1>8, FlushEffect DEF Origins
  <2> QED BY <1>7, <1>8, <2>1 DEF Flush
<1>9. ASSUME NEW m \in Mine, Compose(m) \/ Retry(m) \/ Discard(m)
      PROVE  temps'[n] = "none"
  <2>1. CASE Compose(m)
    BY <2>1 DEF Compose
  <2>2. CASE Retry(m)
    BY <1>7, <2>2 DEF Retry, Origins
  <2>3. CASE Discard(m)
    BY <1>1, <1>2, <2>3 DEF Discard, OpenChatTypeOK
  <2> QED BY <1>9, <2>1, <2>2, <2>3
<1>10. ASSUME NEW m \in Mine, NEW o \in Origins, NEW list \in [Mine -> States],
              NEW box \in [Mine -> States], Ended(m, o, list, box), calls[m][o] # "none",
              temps[n] = "none" => list[n] = "none", selected' = selected
       PROVE  temps'[n] = "none"
  BY <1>1, <1>2, <1>10, EndedEffect
<1>11. ASSUME NEW m \in Mine, NEW o \in Origins, Sent(m, o) \/ SendFails(m, o)
       PROVE  temps'[n] = "none"
  <2>1. CASE Sent(m, o)
    <3> DEFINE list == [temps EXCEPT ![m] = "none"]
               box == [outbox EXCEPT ![m] = "none"]
    <3>1. /\ list \in [Mine -> States] /\ box \in [Mine -> States]
          /\ Ended(m, o, list, box) /\ calls[m][o] # "none" /\ selected' = selected
      BY <1>1, <2>1, SentEffect DEF Sent
    <3>2. temps[n] = "none" => list[n] = "none"
      BY <1>1 DEF OpenChatTypeOK
    <3> HIDE DEF list, box
    <3> QED BY <1>10, <3>1, <3>2
  <2>2. CASE SendFails(m, o)
    <3> DEFINE list == SetState(temps, m, "failed")
               box == SetState(outbox, m, "failed")
    <3>1. /\ list \in [Mine -> States] /\ box \in [Mine -> States]
          /\ Ended(m, o, list, box) /\ calls[m][o] # "none" /\ selected' = selected
      BY <1>1, <2>2, FailsEffect DEF SendFails
    <3>2. temps[n] = "none" => list[n] = "none"
      BY <1>1 DEF SetState, OpenChatTypeOK
    <3> HIDE DEF list, box
    <3> QED BY <1>10, <3>1, <3>2
  <2> QED BY <1>11, <2>1, <2>2
<1>12. \/ UNCHANGED <<selected, temps>>
       \/ Reload \/ \E c \in Chats, l \in LoadIds : Select(c, l)
       \/ \E l \in LoadIds : \E ids : ShowList(l, ids)
       \/ Flush \/ \E m \in Mine : Compose(m) \/ Retry(m) \/ Discard(m)
       \/ \E m \in Mine, o \in Origins : Sent(m, o) \/ SendFails(m, o)
  BY DEF Next, vars, listVars, Connect, LoseConnection, PostByOther, DeletePost,
     PageRead, SelectShown, SelectFails, CatchUpShown, CatchUpFails, Ready, MessageCreate,
     MessageDelete, Accept
<1> QED BY <1>3, <1>4, <1>5, <1>6, <1>8, <1>9, <1>11, <1>12

LEMMA ToComeType ==
    ASSUME OpenChatTypeOK, NEW n \in Mine
    PROVE  /\ ToCome(n) \in Nat /\ Posting(n) \in 0 .. 2 /\ Answers(n) \in 0 .. 2
  BY DEF ToCome, Posting, Answers

\* The queue after a call of origin o has ended: what waits in it waited before, and what a
\* flush goes on to waits no longer.
LEMMA WaitsAfterEnd ==
    ASSUME CallsOK, NEW m \in Mine, NEW o \in Origins, calls[m][o] # "none",
           NEW list, NEW box, Ended(m, o, list, box), NEW n \in Mine
    PROVE  /\ Waits(n)' => Waits(n)
           /\ GoesOnTo(o, n) => Waits(n) /\ ~Waits(n)'
<1>1. CASE o = "flush"
  <2>1. /\ queue \in Seq(Mine) /\ IsInjective(queue) /\ queue # <<>>
        /\ queue' = Tail(queue)
    BY <1>1 DEF CallsOK, Ended
  <2>2. /\ DOMAIN queue = 1 .. Len(queue) /\ Len(queue) \in Nat \ {0}
        /\ DOMAIN queue' = 1 .. Len(queue) - 1
        /\ \A i \in 1 .. Len(queue) - 1 : queue'[i] = queue[i + 1]
    BY <2>1
  <2>3. Waits(n)' => Waits(n)
    <3> SUFFICES ASSUME NEW i \in DOMAIN queue', i # 1, queue'[i] = n PROVE Waits(n)
      BY DEF Waits
    <3>1. i + 1 \in DOMAIN queue /\ i + 1 # 1 /\ queue[i + 1] = n
      BY <2>2
    <3> QED BY <3>1 DEF Waits
  <2>4. ASSUME GoesOnTo(o, n)
        PROVE  Waits(n) /\ ~Waits(n)'
    <3>1. 2 \in DOMAIN queue /\ queue[2] = n
      <4>1. Tail(queue) # <<>>
        BY <2>4 DEF GoesOnTo
      <4>2. Len(queue) >= 2
        BY <2>1, <4>1
      <4> QED BY <2>2, <2>4, <4>2 DEF GoesOnTo
    <3>2. ASSUME NEW i \in DOMAIN queue', i # 1, queue'[i] = n PROVE FALSE
      <4>1. i + 1 \in DOMAIN queue /\ queue[i + 1] = n /\ i + 1 # 2
        BY <2>2, <3>2
      <4> QED BY <2>1, <3>1, <4>1 DEF IsInjective
    <3> QED BY <3>1, <3>2 DEF Waits
  <2> QED BY <2>3, <2>4
<1>2. CASE o # "flush"
  BY <1>2 DEF Ended, Waits, GoesOnTo
<1> QED BY <1>1, <1>2

\* Only a failure adds to what may come, and it adds two; a call that is accepted uses one up.
LEMMA ToComeStep ==
    ASSUME Inv, NothingOnScreen, [Next]_vars, NEW n \in Mine
    PROVE  /\ ToCome(n)' <= ToCome(n) + 2 * (upsets' - upsets)
           /\ (\E o \in Origins : Accept(n, o)) => ToCome(n)' <= ToCome(n) - 1
<1>1. OpenChatTypeOK /\ UnwrittenIsNowhere /\ CallsOK
  BY TypeParts DEF Inv
<1>2. OpenChatTypeOK'
  BY TypeStep DEF Inv
<1>3. /\ upsets \in Nat /\ upsets' \in Nat /\ upsets' >= upsets
      /\ ToCome(n) \in Nat /\ Posting(n) \in 0 .. 2 /\ Answers(n) \in 0 .. 2
      /\ ToCome(n)' \in Nat /\ Posting(n)' \in 0 .. 2 /\ Answers(n)' \in 0 .. 2
  <2>1. ToCome(n)' \in Nat /\ Posting(n)' \in 0 .. 2 /\ Answers(n)' \in 0 .. 2
    BY <1>2 DEF ToCome, Posting, Answers
  <2> QED BY <1>1, <2>1, UpsetsGrow, ToComeType
<1>4. home[n] # None => ToCome(n) = Posting(n) + Answers(n)
  BY DEF ToCome
<1>5. ASSUME home' = home, home[n] # None => Posting(n)' + Answers(n)' <= Posting(n) + Answers(n)
      PROVE  ToCome(n)' <= ToCome(n)
  BY <1>3, <1>5 DEF ToCome
<1>6. ASSUME UNCHANGED sending
      PROVE  ToCome(n)' <= ToCome(n) + 2 * (upsets' - upsets)
  <2>1. ToCome(n)' = ToCome(n)
    BY <1>6 DEF sending, ToCome, Posting, Answers, Waits
  <2> QED BY <1>3, <2>1
<1>7. ASSUME Reload
      PROVE  ToCome(n)' <= ToCome(n) + 2 * (upsets' - upsets)
  <2>1. home' = home
    BY <1>7 DEF Reload
  <2>2. Posting(n)' = 0
    BY <1>7 DEF Reload, Posting, Origins
  <2>3. ToCome(n)' <= ToCome(n) + 2
    BY <1>3, <2>1, <2>2 DEF ToCome
  <2>4. upsets' = upsets + 1
    BY <1>7 DEF Reload, Upset
  <2> QED BY <1>3, <2>3, <2>4
<1>8. ASSUME NEW m \in Mine, NEW o \in Origins, Retried(m, o), outbox[m] = "failed", home' = home,
             outbox[n] # "failed" /\ Waits(n)' => Waits(n)
      PROVE  ToCome(n)' <= ToCome(n)
  <2>1. /\ outbox'[n] = IF n = m /\ outbox[n] # "none" THEN "pending" ELSE outbox[n]
        /\ \A p \in Origins : calls'[n][p] = IF n = m /\ p = o THEN "posting" ELSE calls[n][p]
    BY <1>1, <1>8, RetriedEffect
  <2>2. CASE n = m
    <3>1. Answers(n) = 2 /\ Answers(n)' <= 1
      BY <1>8, <2>1, <2>2 DEF Answers
    <3>2. Posting(n)' <= Posting(n) + 1
      BY <2>1, <2>2 DEF Posting, Origins
    <3> QED BY <1>3, <1>5, <1>8, <3>1, <3>2
  <2>3. CASE n # m
    <3>1. Answers(n)' <= Answers(n)
      BY <1>8, <2>1, <2>3 DEF Answers
    <3>2. Posting(n)' = Posting(n)
      BY <2>1, <2>3 DEF Posting, Origins
    <3> QED BY <1>3, <1>5, <1>8, <3>1, <3>2
  <2> QED BY <2>2, <2>3
<1>9. ASSUME Flush
      PROVE  ToCome(n)' <= ToCome(n) + 2 * (upsets' - upsets)
  <2>1. /\ Head(queue') \in Mine /\ outbox[Head(queue')] = "failed"
        /\ Retried(Head(queue'), "flush") /\ "flush" \in Origins
        /\ \A i \in DOMAIN queue' : outbox[queue'[i]] = "failed"
    BY <1>9, FlushEffect DEF Origins
  <2>2. Waits(n)' => outbox[n] = "failed"
    BY <2>1 DEF Waits
  <2>3. ToCome(n)' <= ToCome(n)
    BY <1>8, <1>9, <2>1, <2>2 DEF Flush
  <2> QED BY <1>3, <2>3
<1>10. ASSUME NEW m \in Mine, Compose(m)
       PROVE  ToCome(n)' <= ToCome(n)
  <2>1. queue' = queue
    BY <1>10 DEF Compose
  <2>2. CASE n = m
    <3>1. /\ \A i \in DOMAIN queue : home[queue[i]] # None
          /\ calls[n]["user"] = "none" /\ calls[n]["flush"] = "none"
      BY <1>1, <1>10, <2>2 DEF Compose, UnwrittenIsNowhere, Origins
    <3>2. ~Waits(n)'
      BY <1>10, <2>1, <2>2, <3>1 DEF Waits, Compose
    <3>3. outbox'[n] = "pending" /\ calls'[n]["user"] = "posting" /\ calls'[n]["flush"] = "none"
      BY <1>1, <1>10, <2>2, <3>1 DEF Compose, OpenChatTypeOK, Origins
    <3>4. Posting(n)' = 1 /\ Answers(n)' = 0
      BY <3>2, <3>3 DEF Posting, Answers
    <3>5. ToCome(n) = 1
      BY <1>10, <2>2 DEF Compose, ToCome
    <3> QED BY <3>4, <3>5 DEF ToCome
  <2>3. CASE n # m
    <3>1. home'[n] = home[n] /\ outbox'[n] = outbox[n] /\ calls'[n] = calls[n]
      BY <1>1, <1>10, <2>3 DEF Compose, OpenChatTypeOK
    <3>2. ToCome(n)' = ToCome(n)
      BY <2>1, <3>1 DEF ToCome, Posting, Answers, Waits
    <3> QED BY <1>3, <3>2
  <2> QED BY <2>2, <2>3
<1>11. ASSUME NEW m \in Mine, Retry(m)
       PROVE  ToCome(n)' <= ToCome(n)
  <2>1. temps[m] = "failed" /\ ~loading /\ selected # None
    BY <1>11 DEF Retry, NothingOnScreen
  <2>2. outbox[m] = "failed"
    BY <1>1, <2>1 DEF Inv, OutboxOnScreen, OutboxOf, OpenChatTypeOK
  <2>3. Retried(m, "user") /\ home' = home /\ queue' = queue /\ "user" \in Origins
    BY <1>11 DEF Retry, Origins
  <2> QED BY <1>8, <2>2, <2>3 DEF Waits
<1>12. ASSUME NEW m \in Mine, Discard(m)
       PROVE  ToCome(n)' <= ToCome(n)
  <2>1. /\ home' = home /\ calls' = calls /\ queue' = queue
        /\ outbox'[n] \in {outbox[n], "none"}
    BY <1>1, <1>12 DEF Discard, callVars, OpenChatTypeOK
  <2>2. Posting(n)' = Posting(n) /\ Answers(n)' <= Answers(n)
    BY <2>1 DEF Posting, Answers, Waits
  <2> QED BY <1>3, <1>5, <2>1, <2>2
<1>13. ASSUME NEW m \in Mine, NEW o \in Origins, NEW list \in [Mine -> States],
              NEW box \in [Mine -> States], Ended(m, o, list, box), calls[m][o] # "none"
       PROVE  /\ box[n] \in {outbox[n], "none"} => Posting(n)' + Answers(n)' <= Posting(n) + Answers(n)
              /\ n # m /\ box[n] = outbox[n] => Posting(n)' + Answers(n)' <= Posting(n) + Answers(n)
              /\ n = m => Posting(n)' <= Posting(n)
  <2>1. /\ GoesOnTo(o, n) => n # m
        /\ outbox'[n] = IF GoesOnTo(o, n) /\ box[n] # "none" THEN "pending" ELSE box[n]
        /\ \A p \in Origins :
             calls'[n][p] = IF n = m /\ p = o THEN "none"
                            ELSE IF p = o /\ GoesOnTo(o, n) THEN "posting" ELSE calls[n][p]
    BY <1>1, <1>13, EndedEffect
  <2>2. /\ Waits(n)' => Waits(n)
        /\ GoesOnTo(o, n) => Waits(n) /\ ~Waits(n)'
    BY <1>1, <1>13, WaitsAfterEnd
  <2>3. CASE GoesOnTo(o, n)
    <3>1. Posting(n)' <= Posting(n) + 1
      BY <2>1, <2>3 DEF Posting, Origins
    <3>2. Answers(n)' = 0 /\ Answers(n) >= 1
      BY <2>1, <2>2, <2>3 DEF Answers
    <3> QED BY <1>3, <2>1, <2>3, <3>1, <3>2
  <2>4. CASE ~GoesOnTo(o, n)
    <3>1. Posting(n)' <= Posting(n)
      BY <2>1, <2>4 DEF Posting, Origins
    <3>2. box[n] \in {outbox[n], "none"} => Answers(n)' <= Answers(n)
      BY <2>1, <2>2, <2>4 DEF Answers
    <3> QED BY <1>3, <3>1, <3>2
  <2> QED BY <2>3, <2>4
<1>14. ASSUME NEW m \in Mine, NEW o \in Origins, Sent(m, o)
       PROVE  ToCome(n)' <= ToCome(n)
  <2> DEFINE list == [temps EXCEPT ![m] = "none"]
             box == [outbox EXCEPT ![m] = "none"]
  <2>1. /\ list \in [Mine -> States] /\ box \in [Mine -> States]
        /\ Ended(m, o, list, box) /\ calls[m][o] # "none" /\ home' = home
    BY <1>1, <1>14, SentEffect DEF Sent
  <2>2. box[n] \in {outbox[n], "none"}
    BY <1>1 DEF OpenChatTypeOK
  <2> HIDE DEF list, box
  <2>3. Posting(n)' + Answers(n)' <= Posting(n) + Answers(n)
    BY <1>13, <2>1, <2>2
  <2> QED BY <1>5, <2>1, <2>3
<1>15. ASSUME NEW m \in Mine, NEW o \in Origins, SendFails(m, o)
       PROVE  ToCome(n)' <= ToCome(n) + 2 /\ upsets' = upsets + 1
  <2> DEFINE list == SetState(temps, m, "failed")
             box == SetState(outbox, m, "failed")
  <2>1. /\ list \in [Mine -> States] /\ box \in [Mine -> States]
        /\ Ended(m, o, list, box) /\ calls[m][o] # "none" /\ home' = home
    BY <1>1, <1>15, FailsEffect DEF SendFails
  <2>2. n # m => box[n] = outbox[n]
    BY <1>1 DEF SetState, OpenChatTypeOK
  <2> HIDE DEF list, box
  <2>3. /\ n # m => Posting(n)' + Answers(n)' <= Posting(n) + Answers(n)
        /\ n = m => Posting(n)' <= Posting(n)
    BY <1>13, <2>1, <2>2
  <2>4. Posting(n)' + Answers(n)' <= Posting(n) + Answers(n) + 2
    BY <1>3, <2>3
  <2>5. ToCome(n)' <= ToCome(n) + 2
    BY <1>3, <2>1, <2>4 DEF ToCome
  <2> QED BY <1>15, <2>5 DEF SendFails, Upset
<1>16. ASSUME NEW m \in Mine, NEW o \in Origins, Accept(m, o)
       PROVE  /\ ToCome(n)' <= ToCome(n)
              /\ n = m => ToCome(n)' <= ToCome(n) - 1
  <2>1. /\ home' = home /\ outbox' = outbox /\ queue' = queue
        /\ calls[m][o] = "posting" /\ calls' = [calls EXCEPT ![m][o] = "accepted"]
    BY <1>16 DEF Accept, outboxVars
  <2>2. Answers(n)' = Answers(n)
    BY <2>1 DEF Answers, Waits
  <2>3. /\ Posting(n)' <= Posting(n)
        /\ n = m => Posting(n)' = Posting(n) - 1
    BY <1>1, <2>1 DEF Posting, OpenChatTypeOK, Origins
  <2>4. n = m => home[n] # None
    BY <1>1, <2>1 DEF UnwrittenIsNowhere
  <2> QED BY <1>3, <2>1, <2>2, <2>3, <2>4 DEF ToCome
<1>17. ToCome(n)' <= ToCome(n) + 2 * (upsets' - upsets)
  <2>1. \/ ToCome(n)' <= ToCome(n)
        \/ ToCome(n)' <= ToCome(n) + 2 /\ upsets' = upsets + 1
        \/ Reload \/ Flush \/ UNCHANGED sending
    BY <1>10, <1>11, <1>12, <1>14, <1>15, <1>16, SendingSteps
  <2>2. CASE ToCome(n)' <= ToCome(n)
    BY <1>3, <2>2
  <2>3. CASE ToCome(n)' <= ToCome(n) + 2 /\ upsets' = upsets + 1
    BY <1>3, <2>3
  <2> QED BY <1>6, <1>7, <1>9, <2>1, <2>2, <2>3
<1> QED BY <1>16, <1>17

LEMMA CopiesInvStep == Inv /\ CopiesInv /\ [Next]_vars => CopiesInv'
<1> SUFFICES ASSUME Inv, CopiesInv, [Next]_vars PROVE CopiesInv'
  OBVIOUS
<1>1. OpenChatTypeOK /\ UnwrittenIsNowhere /\ NothingOnScreen
  BY DEF Inv, CopiesInv
<1>2. OpenChatTypeOK'
  BY TypeStep DEF Inv
<1>3. NothingOnScreen'
  BY <1>1, NothingOnScreenStep
<1>4. ASSUME NEW n \in Mine
      PROVE  (Cardinality(CopiesOf(n)) + ToCome(n) <= 1 + 2 * upsets)'
  <2>1. /\ Cardinality(CopiesOf(n)) \in Nat /\ ToCome(n) \in Nat
        /\ upsets \in Nat /\ upsets' \in Nat
    BY <1>1, CopiesType, ToComeType, UpsetsGrow
  <2>2. ToCome(n)' \in Nat
    BY <1>2 DEF ToCome, Posting, Answers
  <2>3. Cardinality(CopiesOf(n)) + ToCome(n) <= 1 + 2 * upsets
    BY DEF CopiesInv
  <2>4. CASE Cardinality(CopiesOf(n))' = Cardinality(CopiesOf(n))
    <3>1. ToCome(n)' <= ToCome(n) + 2 * (upsets' - upsets)
      BY <1>1, ToComeStep
    <3> QED BY <2>1, <2>2, <2>3, <2>4, <3>1
  <2>5. CASE /\ \E o \in Origins : Accept(n, o)
             /\ Cardinality(CopiesOf(n))' = Cardinality(CopiesOf(n)) + 1
    <3>1. ToCome(n)' <= ToCome(n) - 1
      BY <1>1, <2>5, ToComeStep
    <3>2. upsets' = upsets
      BY <2>5 DEF Accept
    <3> QED BY <2>1, <2>2, <2>3, <2>5, <3>1, <3>2
  <2> QED BY <1>1, <2>4, <2>5, CopiesStep
<1> QED BY <1>3, <1>4 DEF CopiesInv

\* The server stores a message of this device at most once more than twice the number of
\* failures there were, whatever retries, flushes and late answers cross each other.
THEOREM CopiesBounded == OpenChatSpec => []CopiesAreBounded
<1>1. Init => CopiesInv
  <2>1. ASSUME Init, NEW n \in Mine
        PROVE  Cardinality(CopiesOf(n)) = 0 /\ ToCome(n) = 1 /\ upsets = 0
    <3>1. CopiesOf(n) = {}
      BY <2>1 DEF Init, CopiesOf
    <3> QED BY <2>1, <3>1, FS_EmptySet DEF Init, ToCome
  <2>2. ASSUME Init PROVE NothingOnScreen
    BY <2>2 DEF Init, NothingOnScreen
  <2> QED BY <2>1, <2>2 DEF CopiesInv
<1>2. Inv /\ CopiesInv => CopiesAreBounded
  <2> SUFFICES ASSUME Inv, CopiesInv, NEW n \in Mine
               PROVE  Cardinality(CopiesOf(n)) <= 1 + 2 * upsets
    BY DEF CopiesAreBounded, CopiesOf
  <2>1. Cardinality(CopiesOf(n)) \in Nat /\ ToCome(n) \in Nat /\ upsets \in Nat
    BY CopiesType, ToComeType, OpenChatAssumption DEF Inv, OpenChatTypeOK
  <2> QED BY <2>1 DEF CopiesInv
<1> QED BY <1>1, <1>2, CopiesInvStep, OpenChatInvariant, PTL DEF OpenChatSpec

=============================================================================
