----------------------------- MODULE GroupKeys -----------------------------
(***************************************************************************)
(* The sender key of one member of an encrypted group: how it is minted,   *)
(* rotated when the group's membership changes, handed to the others over  *)
(* the server, and used to encrypt; and the copies the others keep of it   *)
(* (client/src/lib/senderKeys.ts, client/src/lib/encryptedSend.ts,         *)
(* client/src/App.tsx, server/src/api/users.rs, server/src/api/messages.rs).*)
(*                                                                         *)
(* "This device" is the member whose key is followed.  Every member runs   *)
(* the same code with a key of its own, and keys of different members do   *)
(* not interact.  JavaScript runs one step at a time: an action is what    *)
(* runs between two awaits of I/O or of crypto.subtle.                     *)
(***************************************************************************)
EXTENDS Integers, FiniteSets, SequencesExt

CONSTANTS
    Peers,          \* the other people who may be in the group
    MaxEpoch,       \* bound: membership changes
    MaxSends,       \* bound: messages this device encrypts
    MaxRuns,        \* bound: distributions in flight at once
    MaxUpsets       \* bound: lost connections, reloads and switches of encrypted mode

ASSUME GroupKeysAssumption ==
    /\ MaxEpoch \in Nat /\ MaxSends \in Nat /\ MaxUpsets \in Nat
    /\ MaxRuns \in Nat \ {0}

VARIABLES
    members,        \* server: the peers in the group (dm_participants)
    epoch,          \* server: the group's rekey epoch (channels.epoch)
    unannounced,    \* server: changes committed whose handler has not bumped the epoch
    leftAt,         \* history: the epoch at which a peer last left
    online,         \* this device has a gateway connection
    notices,        \* epochs on their way to this device (GroupMembersUpdate, Ready)
    known,          \* device: latest epoch learnt (kc:sk:epoch)
    own,            \* device: our sender key (kc:sk:own)
    minted,         \* device: sender keys minted so far, the id of the latest
    rotations,      \* device: rotations whose new key is being generated, by epoch
    encrypted,      \* device: the chat is in encrypted mode
    tracker,        \* device: the distribution tracker of this chat
    runs,           \* device: distributions in flight
    sends,          \* device: the messages being sent
    chain,          \* device: sends waiting for groupEncrypt, in order
    upsets,         \* connections lost, reloads and mode switches so far
    skdms,          \* distributions on their way to peers
    mail,           \* messages a peer has received and not read
    copy,           \* peers: the copy of our sender key each keeps (kc:sk:peer)
    opening         \* peers: groupDecrypt calls between their read and their write

serverVars == <<members, epoch, unannounced, leftAt>>
wireVars   == <<online, notices>>
keyVars    == <<known, own, minted, rotations>>
modeVars   == <<encrypted, upsets>>
sendVars   == <<sends, chain>>
peerVars   == <<skdms, mail, copy, opening>>
vars == <<serverVars, wireVars, keyVars, modeVars, tracker, runs, sendVars, peerVars>>

---------------------------------------------------------------------------
(* Sender keys.  A chain key is named by its key id and its iteration.     *)

NoKey == [key |-> 0, epoch |-> 0, it |-> 0]
MaxMints == 1 + MaxEpoch + MaxUpsets
SenderKeys == [key : 0 .. MaxMints, epoch : 0 .. MaxEpoch, it : 0 .. MaxSends]

Fresh(e) == [key |-> minted + 1, epoch |-> e, it |-> 0]
Ratcheted(k) == [k EXCEPT !.it = @ + 1]

\* Does a peer's stored copy accept an incoming distribution?
Installable(old, new) ==
    \/ old = NoKey
    \/ new.epoch > old.epoch
    \/ new.epoch = old.epoch /\ (new.key # old.key \/ new.it >= old.it)

\* Can a stored copy decrypt a message encrypted with `wire`?  (Every iteration of a
\* bounded behaviour is within MAX_RATCHET_SKIP.)
Decrypts(held, wire) ==
    /\ held # NoKey
    /\ held.epoch = wire.epoch
    /\ held.key = wire.key
    /\ held.it <= wire.it

---------------------------------------------------------------------------
(* The distribution tracker: done, or the run callers share, or neither.   *)

RunIds == 1 .. MaxRuns
NoRun == 0
Untracked == [done |-> FALSE, inFlight |-> NoRun]

\* A run: its stage, the members listed, the key it hands out, the epoch to mint it at, and
\* the sends that await it, in order.
Idle == [stage |-> "idle", to |-> {}, skdm |-> NoKey, at |-> 0, callers |-> <<>>]

\* ensure(), called with the tracker in state t by the sends in `callers` (none, if the
\* caller does not wait): a finished distribution needs no run, callers share the run r in
\* flight, otherwise run r starts.
Ensure(t, r, callers) ==
    \/ t.done /\ tracker' = t /\ UNCHANGED runs
    \/ /\ ~t.done
       /\ t.inFlight = r
       /\ tracker' = t
       /\ runs' = [runs EXCEPT ![r].callers = @ \o callers]
    \/ /\ ~t.done /\ t.inFlight = NoRun
       /\ runs[r] = Idle
       /\ tracker' = [t EXCEPT !.inFlight = r]
       /\ runs' = [runs EXCEPT ![r] = [Idle EXCEPT !.stage = "listing", !.callers = callers]]

SendIds == 1 .. MaxSends
Unsent == [stage |-> "unsent", wire |-> NoKey]
Failed(ids) == [s \in SendIds |-> IF s \in ids THEN [Unsent EXCEPT !.stage = "failed"]
                                               ELSE sends[s]]

\* The head of the chain encrypts: it reads our key in the step that makes it the head.
Turn(snds, line, key) ==
    IF line # <<>> /\ snds[Head(line)].stage = "chained"
    THEN [snds EXCEPT ![Head(line)] = [@ EXCEPT !.stage = "encrypting", !.wire = key]]
    ELSE snds

\* MUTANT of Chained: groupEncrypt does not wait for the calls before it.
ChainedAtOnce(more) ==
    /\ chain' = chain \o more
    /\ sends' = [s \in SendIds |-> IF s \in Range(more)
                                   THEN [stage |-> "encrypting", wire |-> own] ELSE sends[s]]

\* groupEncrypt, called by the sends `more` in this order, behind those already in line.
Chained(more) ==
    LET joined == [s \in SendIds |-> IF s \in Range(more)
                                     THEN [Unsent EXCEPT !.stage = "chained"] ELSE sends[s]]
    IN  /\ chain' = chain \o more
        /\ sends' = Turn(joined, chain \o more, own)

---------------------------------------------------------------------------
Init ==
    /\ members \in SUBSET Peers /\ epoch = 0 /\ unannounced = 0
    /\ leftAt = [p \in Peers |-> 0]
    /\ online = TRUE /\ notices = {}
    /\ known = 0 /\ own = NoKey /\ minted = 0
    /\ rotations = [e \in 1 .. MaxEpoch |-> 0]
    /\ encrypted \in BOOLEAN /\ upsets = 0
    /\ tracker = Untracked
    /\ runs = [r \in RunIds |-> Idle]
    /\ sends = [s \in SendIds |-> Unsent]
    /\ chain = <<>>
    /\ skdms = {} /\ mail = {} /\ opening = {}
    /\ copy = [p \in Peers |-> NoKey]

---------------------------------------------------------------------------
(* The server: a membership change is committed, then the epoch is bumped  *)
(* and announced; handlers of different requests interleave.               *)

RemoveRecipient(p) ==
    /\ p \in members
    /\ epoch + unannounced < MaxEpoch
    /\ members' = members \ {p}
    /\ leftAt' = [leftAt EXCEPT ![p] = epoch]
    /\ unannounced' = unannounced + 1
    /\ UNCHANGED <<epoch, wireVars, keyVars, modeVars, tracker, runs, sendVars, peerVars>>

AddRecipient(p) ==
    /\ p \in Peers \ members
    /\ epoch + unannounced < MaxEpoch
    /\ members' = members \union {p}
    /\ unannounced' = unannounced + 1
    /\ UNCHANGED <<epoch, leftAt, wireVars, keyVars, modeVars, tracker, runs, sendVars,
                   peerVars>>

\* MUTANT of BumpEpoch: a change is announced again and again.
BumpEpochAgain ==
    /\ unannounced > 0
    /\ UNCHANGED unannounced
    /\ epoch' = epoch + 1
    /\ notices' = IF online THEN notices \union {epoch + 1} ELSE notices
    /\ UNCHANGED <<members, leftAt, online, keyVars, modeVars, tracker, runs,
                   sendVars, peerVars>>

BumpEpoch ==
    /\ unannounced > 0
    /\ unannounced' = unannounced - 1
    /\ epoch' = epoch + 1
    /\ notices' = IF online THEN notices \union {epoch + 1} ELSE notices
    /\ UNCHANGED <<members, leftAt, online, keyVars, modeVars, tracker, runs,
                   sendVars, peerVars>>

---------------------------------------------------------------------------
(* This device learns an epoch and rotates its key.                        *)

\* syncGroupEpoch -> setGroupEpoch, up to the generation of the new key.
LearnEpoch(e) ==
    LET latest == IF e > known THEN e ELSE known IN
    /\ e \in notices
    /\ notices' = notices \ {e}
    /\ known' = latest
    /\ rotations' = IF own # NoKey /\ latest > own.epoch
                    THEN [rotations EXCEPT ![latest] = @ + 1] ELSE rotations
    /\ UNCHANGED <<serverVars, online, own, minted, modeVars, tracker, runs,
                   sendVars, peerVars>>

\* The new key is stored, the tracker forgets, and an encrypted chat distributes.
RotationMinted(e, r) ==
    /\ rotations[e] > 0
    /\ rotations' = [rotations EXCEPT ![e] = @ - 1]
    /\ own' = Fresh(e)
    /\ minted' = minted + 1
    /\ IF encrypted THEN Ensure(Untracked, r, <<>>) ELSE tracker' = Untracked /\ UNCHANGED runs
    /\ UNCHANGED <<serverVars, wireVars, known, modeVars, sendVars, peerVars>>

\* The new key could not be stored (put() throws): nothing changes.
RotationFails(e) ==
    /\ rotations[e] > 0
    /\ rotations' = [rotations EXCEPT ![e] = @ - 1]
    /\ UNCHANGED <<serverVars, wireVars, known, own, minted, modeVars, tracker, runs,
                   sendVars, peerVars>>

ToggleE2e(r) ==
    /\ upsets < MaxUpsets
    /\ upsets' = upsets + 1
    /\ encrypted' = ~encrypted
    /\ IF encrypted THEN UNCHANGED <<tracker, runs>> ELSE Ensure(tracker, r, <<>>)
    /\ UNCHANGED <<serverVars, wireVars, keyVars, sendVars, peerVars>>

---------------------------------------------------------------------------
(* A distribution run: list the members, read or mint our key, encrypt it  *)
(* for each of them, and let the server relay it to those still members.   *)

\* The server reads the member list ...
RunListed(r) ==
    /\ runs[r].stage = "listing"
    /\ runs' = [runs EXCEPT ![r] = [@ EXCEPT !.stage = "listed", !.to = members]]
    /\ UNCHANGED <<serverVars, wireVars, keyVars, modeVars, tracker, sendVars, peerVars>>

\* ... and when its answer arrives buildDistribution reads our key, if there is one.
RunBuilt(r) ==
    /\ runs[r].stage = "listed"
    /\ runs' = [runs EXCEPT ![r] =
           IF own = NoKey THEN [@ EXCEPT !.stage = "minting", !.at = known]
                          ELSE [@ EXCEPT !.stage = "relaying", !.skdm = own]]
    /\ UNCHANGED <<serverVars, wireVars, keyVars, modeVars, tracker, sendVars, peerVars>>

\* ensureOwnSenderKey minted the first key, at the epoch known when it was asked.
RunMinted(r) ==
    LET fresh == Fresh(runs[r].at) IN
    /\ runs[r].stage = "minting"
    /\ own' = fresh
    /\ minted' = minted + 1
    /\ runs' = [runs EXCEPT ![r] = [@ EXCEPT !.stage = "relaying", !.skdm = fresh, !.at = 0]]
    /\ UNCHANGED <<serverVars, wireVars, known, rotations, modeVars, tracker, sendVars,
                   peerVars>>

\* MUTANT of Relayed: the server relays to everyone the device listed.
RelayedAsListed(r, reached) ==
    /\ runs[r].stage = "relaying"
    /\ reached \subseteq runs[r].to
    /\ skdms' = skdms \union [to : reached, skdm : {runs[r].skdm}]

\* The server relays an envelope to those of `to` who are members now; a peer without a
\* Signal session got no envelope, and one who is offline misses it.
Relayed(r, reached) ==
    /\ runs[r].stage = "relaying"
    /\ reached \subseteq runs[r].to \intersect members
    /\ skdms' = skdms \union [to : reached, skdm : {runs[r].skdm}]

\* A run that resolves: remembered unless the tracker forgot it meanwhile; the sends
\* that awaited it call groupEncrypt.
RunDone(r, reached) ==
    /\ Relayed(r, reached)
    /\ runs' = [runs EXCEPT ![r] = Idle]
    /\ tracker' = IF tracker.inFlight = r THEN [done |-> TRUE, inFlight |-> NoRun] ELSE tracker
    /\ Chained(runs[r].callers)
    /\ UNCHANGED <<serverVars, wireVars, keyVars, modeVars, mail, copy, opening>>

\* A run that rejects: a call failed, or its answer was lost after the server relayed.
RunFails(r, reached) ==
    /\ runs[r].stage # "idle"
    /\ Relayed(r, reached) \/ (reached = {} /\ UNCHANGED skdms)
    /\ runs' = [runs EXCEPT ![r] = Idle]
    /\ tracker' = IF tracker.inFlight = r THEN Untracked ELSE tracker
    /\ sends' = Failed(Range(runs[r].callers))
    /\ UNCHANGED <<serverVars, wireVars, keyVars, modeVars, chain, mail, copy, opening>>

---------------------------------------------------------------------------
(* A message: wait for the distribution, encrypt in turn, post.            *)

Send(s, r) ==
    /\ encrypted
    /\ sends[s] = Unsent
    /\ \A t \in SendIds : t < s => sends[t] # Unsent
    /\ Ensure(tracker, r, <<s>>)
    /\ IF tracker.done
       THEN Chained(<<s>>)
       ELSE sends' = [sends EXCEPT ![s].stage = "ensuring"] /\ UNCHANGED chain
    /\ UNCHANGED <<serverVars, wireVars, keyVars, modeVars, peerVars>>

\* groupEncryptInner stores the key it read, one step further, when its cryptography is
\* done; the next send in line reads it.
EncryptEnd(s) ==
    LET next == Ratcheted(sends[s].wire) IN
    /\ sends[s].stage = "encrypting"
    /\ own' = next
    /\ chain' = Tail(chain)
    /\ sends' = Turn([sends EXCEPT ![s].stage = "posting"], Tail(chain), next)
    /\ UNCHANGED <<serverVars, wireVars, known, minted, rotations, modeVars, tracker, runs,
                   peerVars>>

\* MUTANT of EncryptFails: a rejection stops the chain.
EncryptFailsForAll(s) ==
    /\ sends[s].stage = "encrypting"
    /\ sends' = Failed({s})
    /\ UNCHANGED <<serverVars, wireVars, keyVars, modeVars, tracker, runs, chain, peerVars>>

\* The advanced key could not be stored: this send fails, the next one has its turn.
EncryptFails(s) ==
    /\ sends[s].stage = "encrypting"
    /\ chain' = Tail(chain)
    /\ sends' = Turn(Failed({s}), Tail(chain), own)
    /\ UNCHANGED <<serverVars, wireVars, keyVars, modeVars, tracker, runs, peerVars>>

\* The server stores the message and everyone in the group gets it; the answer may be lost.
PostMessage(s) ==
    /\ sends[s].stage = "posting"
    /\ mail' = mail \union [to : members, wire : {sends[s].wire}]
    /\ sends' = [sends EXCEPT ![s].stage = "sent"]
    /\ UNCHANGED <<serverVars, wireVars, keyVars, modeVars, tracker, runs, chain, skdms,
                   copy, opening>>

PostFails(s) ==
    /\ sends[s].stage = "posting"
    /\ sends' = Failed({s})
    /\ UNCHANGED <<serverVars, wireVars, keyVars, modeVars, tracker, runs, chain, peerVars>>

---------------------------------------------------------------------------
(* The connection is lost; the page reloads; the gateway connects again.   *)

LoseConnection ==
    /\ online /\ upsets < MaxUpsets
    /\ online' = FALSE
    /\ notices' = {}
    /\ upsets' = upsets + 1
    /\ UNCHANGED <<serverVars, keyVars, encrypted, tracker, runs, sendVars, peerVars>>

\* What was in memory is gone: the tracker, the runs, the sends under way.
Reload ==
    /\ upsets < MaxUpsets
    /\ online' = FALSE
    /\ notices' = {}
    /\ upsets' = upsets + 1
    /\ rotations' = [e \in 1 .. MaxEpoch |-> 0]
    /\ tracker' = Untracked
    /\ runs' = [r \in RunIds |-> Idle]
    /\ sends' = Failed({s \in SendIds : sends[s].stage \notin {"unsent", "sent"}})
    /\ chain' = <<>>
    /\ UNCHANGED <<serverVars, known, own, minted, encrypted, peerVars>>

\* Ready names each group's current epoch.
Reconnect ==
    /\ ~online
    /\ online' = TRUE
    /\ notices' = {epoch}
    /\ UNCHANGED <<serverVars, keyVars, modeVars, tracker, runs, sendVars, peerVars>>

---------------------------------------------------------------------------
(* A peer: the pairwise envelope is decrypted, then installed; a message   *)
(* is decrypted from the stored copy, which is then moved past it.  Both   *)
(* are started by gateway events and nothing orders them.                  *)

InstallDistribution(d) ==
    /\ d \in skdms
    /\ skdms' = skdms \ {d}
    /\ copy' = IF Installable(copy[d.to], d.skdm) THEN [copy EXCEPT ![d.to] = d.skdm] ELSE copy
    /\ UNCHANGED <<serverVars, wireVars, keyVars, modeVars, tracker, runs, sendVars, mail,
                   opening>>

\* groupDecrypt reads the stored copy; a message it cannot decrypt stays unread.
OpenStart(m) ==
    /\ m \in mail
    /\ Decrypts(copy[m.to], m.wire)
    /\ mail' = mail \ {m}
    /\ opening' = opening \union {m}
    /\ UNCHANGED <<serverVars, wireVars, keyVars, modeVars, tracker, runs, sendVars, skdms,
                   copy>>

\* ... and stores the chain it ratcheted past the message; its plaintext is cached.
OpenEnd(m) ==
    /\ m \in opening
    /\ opening' = opening \ {m}
    /\ copy' = [copy EXCEPT ![m.to] = Ratcheted(m.wire)]
    /\ UNCHANGED <<serverVars, wireVars, keyVars, modeVars, tracker, runs, sendVars, skdms,
                   mail>>

---------------------------------------------------------------------------
DistributionStep ==
    \E r \in RunIds :
        \/ RunListed(r)
        \/ RunBuilt(r)
        \/ RunMinted(r)
        \/ \E reached \in SUBSET Peers : RunDone(r, reached) \/ RunFails(r, reached)

SendStep ==
    \E s \in SendIds :
        \/ EncryptEnd(s) \/ EncryptFails(s)
        \/ PostMessage(s) \/ PostFails(s)

Next ==
    \/ \E p \in Peers : RemoveRecipient(p) \/ AddRecipient(p)
    \/ BumpEpoch
    \/ \E e \in 0 .. MaxEpoch : LearnEpoch(e)
    \/ \E e \in 1 .. MaxEpoch, r \in RunIds : RotationMinted(e, r)
    \/ \E e \in 1 .. MaxEpoch : RotationFails(e)
    \/ \E r \in RunIds : ToggleE2e(r)
    \/ DistributionStep
    \/ \E s \in SendIds, r \in RunIds : Send(s, r)
    \/ SendStep
    \/ LoseConnection \/ Reload \/ Reconnect
    \/ \E d \in skdms : InstallDistribution(d)
    \/ \E m \in mail : OpenStart(m)
    \/ \E m \in opening : OpenEnd(m)

GroupKeysSpec == Init /\ [][Next]_vars

\* Calls are answered or fail, and the steps of crypto.subtle complete.
FairGroupKeysSpec ==
    /\ GroupKeysSpec
    /\ \A r \in RunIds : WF_vars(RunListed(r) \/ RunBuilt(r) \/ RunMinted(r)
                                 \/ \E reached \in SUBSET Peers : RunDone(r, reached)
                                                                  \/ RunFails(r, reached))
    /\ \A s \in SendIds : WF_vars(EncryptEnd(s) \/ EncryptFails(s))
                          /\ WF_vars(PostMessage(s) \/ PostFails(s))

---------------------------------------------------------------------------
(* Properties.                                                             *)

Distributions == [to : Peers, skdm : SenderKeys]
Messages == [to : Peers, wire : SenderKeys]

\* The type of every variable.
GroupKeysTypeOK ==
    /\ members \subseteq Peers /\ epoch \in 0 .. MaxEpoch /\ unannounced \in 0 .. MaxEpoch
    /\ leftAt \in [Peers -> 0 .. MaxEpoch]
    /\ online \in BOOLEAN /\ notices \subseteq 0 .. MaxEpoch
    /\ known \in 0 .. MaxEpoch /\ own \in SenderKeys /\ minted \in 0 .. MaxMints
    /\ rotations \in [1 .. MaxEpoch -> Nat]
    /\ encrypted \in BOOLEAN /\ upsets \in 0 .. MaxUpsets
    /\ tracker \in [done : BOOLEAN, inFlight : RunIds \union {NoRun}]
    /\ runs \in [RunIds -> [stage : {"idle", "listing", "listed", "minting", "relaying"},
                            to : SUBSET Peers, skdm : SenderKeys, at : 0 .. MaxEpoch,
                            callers : Seq(SendIds)]]
    /\ sends \in [SendIds -> [stage : {"unsent", "ensuring", "chained", "encrypting", "posting",
                                       "sent", "failed"},
                              wire : SenderKeys]]
    /\ chain \in Seq(SendIds)
    /\ skdms \subseteq Distributions
    /\ mail \subseteq Messages /\ opening \subseteq Messages
    /\ copy \in [Peers -> SenderKeys]

\* Someone who left the group holds, and has on the way to them, no sender key of a later
\* epoch than the one they left at, although the list a distribution was built from may
\* still have had them (messages.rs, distribute_sender_key).
LeaverGetsNoNewKey ==
    \A p \in Peers \ members :
        /\ copy[p].epoch <= leftAt[p]
        /\ \A d \in skdms : d.to = p => d.skdm.epoch <= leftAt[p]

\* Two messages are never encrypted at the same step of the same chain, however sends,
\* rotations and reloads interleave (senderKeys.ts, encryptChains).
NoStepUsedTwice ==
    \A s, t \in SendIds :
        s # t /\ sends[s].wire # NoKey /\ sends[t].wire # NoKey =>
            <<sends[s].wire.key, sends[s].wire.it>> # <<sends[t].wire.key, sends[t].wire.it>>

\* A send that was started ends, sent or failed: a rejected distribution or encryption
\* neither keeps the sends that share it waiting nor blocks the ones behind it.
SendEnds ==
    \A s \in SendIds :
        sends[s].stage \in {"ensuring", "chained", "encrypting", "posting"}
            ~> sends[s].stage \in {"sent", "failed"}

\* Once rotated, our sender key is never again one of an earlier epoch (senderKeys.ts:84-87).
RotationIsKept == [][own'.epoch >= own.epoch]_own
=============================================================================
