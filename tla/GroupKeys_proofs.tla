-------------------------- MODULE GroupKeys_proofs --------------------------
(***************************************************************************)
(* No step of a chain encrypts two messages, and who left the group gets   *)
(* no later key, for any number of people, messages, membership changes,   *)
(* distributions, lost connections and reloads.                            *)
(***************************************************************************)
EXTENDS GroupKeys, SequenceTheorems, TLAPS

Keys == [key : Nat, epoch : Nat, it : Nat]
Runs == [stage : {"idle", "listing", "listed", "minting", "relaying"}, to : SUBSET Peers,
         skdm : Keys, at : Nat, callers : Seq(SendIds)]
Sends == [stage : {"unsent", "ensuring", "chained", "encrypting", "posting", "sent", "failed"},
          wire : Keys]

---------------------------------------------------------------------------
(* The sends.                                                              *)

Posted(snd) == snd.stage \in {"posting", "sent"}

\* Whoever encrypts is at the head of the line.
LineOK(snds, line) ==
    \A s \in SendIds : snds[s].stage = "encrypting" => line # <<>> /\ Head(line) = s

\* No two encrypted messages share a step of a chain; our key is past the messages of its
\* chain, and so is the message being encrypted.
StepsOK(snds, key, mints) ==
    /\ key.key <= mints
    /\ \A s \in SendIds :
        /\ snds[s].wire.key <= mints
        /\ snds[s].wire # NoKey => snds[s].stage \in {"encrypting", "posting", "sent"}
        /\ Posted(snds[s]) /\ snds[s].wire.key = key.key => snds[s].wire.it < key.it
        /\ \A t \in SendIds \ {s} :
            /\ Posted(snds[s]) /\ Posted(snds[t]) /\ snds[s].wire # NoKey
                   /\ snds[s].wire.key = snds[t].wire.key => snds[s].wire.it # snds[t].wire.it
            /\ snds[s].stage = "encrypting" /\ Posted(snds[t])
                   /\ snds[s].wire.key = snds[t].wire.key => snds[t].wire.it < snds[s].wire.it

SendsOK ==
    /\ sends \in [SendIds -> Sends] /\ chain \in Seq(SendIds) /\ own \in Keys /\ minted \in Nat
    /\ LineOK(sends, chain) /\ StepsOK(sends, own, minted)

LEMMA KeyFacts ==
    /\ NoKey \in Keys /\ NoKey.key = 0 /\ NoKey.epoch = 0 /\ NoKey.it = 0
    /\ Unsent \in Sends /\ Unsent.wire = NoKey /\ Unsent.stage = "unsent"
    /\ \A k \in Keys : /\ Ratcheted(k) \in Keys /\ Ratcheted(k).key = k.key
                       /\ Ratcheted(k).epoch = k.epoch /\ Ratcheted(k).it = k.it + 1
    /\ \A e \in Nat : minted \in Nat =>
            /\ Fresh(e) \in Keys /\ Fresh(e).key = minted + 1 /\ Fresh(e).epoch = e
            /\ Fresh(e).it = 0
  BY DEF NoKey, Keys, Unsent, Sends, Ratcheted, Fresh

\* The head of the line, if it waits, becomes the one that encrypts with our key.
LEMMA TurnShape ==
    ASSUME NEW snds \in [SendIds -> Sends], NEW line, NEW key \in Keys
    PROVE  /\ Turn(snds, line, key) \in [SendIds -> Sends]
           /\ \A s \in SendIds :
                \/ /\ Turn(snds, line, key)[s] = snds[s]
                   /\ line = <<>> \/ Head(line) # s \/ snds[s].stage # "chained"
                \/ /\ line # <<>> /\ Head(line) = s /\ snds[s].stage = "chained"
                   /\ Turn(snds, line, key)[s].stage = "encrypting"
                   /\ Turn(snds, line, key)[s].wire = key
<1> DEFINE h == Head(line)
           new == [snds[h] EXCEPT !.stage = "encrypting", !.wire = key]
<1>1. CASE line # <<>> /\ snds[h].stage = "chained" /\ h \in SendIds
  <2>1. new \in Sends /\ new.stage = "encrypting" /\ new.wire = key
    <3>1. snds[h] \in Sends
      BY <1>1
    <3> HIDE DEF h
    <3> QED BY <3>1 DEF Sends
  <2>2. Turn(snds, line, key) = [snds EXCEPT ![h] = new]
    BY <1>1 DEF Turn
  <2> HIDE DEF new
  <2> QED BY <1>1, <2>1, <2>2
<1>2. CASE line # <<>> /\ snds[h].stage = "chained" /\ h \notin SendIds
  <2>1. Turn(snds, line, key) = [snds EXCEPT ![h] = new]
    BY <1>2 DEF Turn
  <2> HIDE DEF new
  <2> QED BY <1>2, <2>1
<1>3. CASE ~(line # <<>> /\ snds[h].stage = "chained")
  BY <1>3 DEF Turn
<1> QED BY <1>1, <1>2, <1>3

LEMMA TurnOK ==
    ASSUME NEW snds \in [SendIds -> Sends], NEW line, NEW key \in Keys, NEW mints \in Nat,
           LineOK(snds, line), StepsOK(snds, key, mints)
    PROVE  /\ Turn(snds, line, key) \in [SendIds -> Sends]
           /\ LineOK(Turn(snds, line, key), line) /\ StepsOK(Turn(snds, line, key), key, mints)
<1> DEFINE new == Turn(snds, line, key)
<1>1. /\ new \in [SendIds -> Sends]
      /\ \A s \in SendIds :
            \/ new[s] = snds[s]
            \/ line # <<>> /\ Head(line) = s /\ new[s].stage = "encrypting" /\ new[s].wire = key
  BY TurnShape
<1> HIDE DEF new
<1>2. LineOK(new, line)
  BY <1>1 DEF LineOK
<1>3. StepsOK(new, key, mints)
  <2>1. ASSUME NEW s \in SendIds
        PROVE  /\ new[s].wire.key <= mints
               /\ new[s].wire # NoKey => new[s].stage \in {"encrypting", "posting", "sent"}
               /\ Posted(new[s]) => new[s] = snds[s]
               /\ new[s].stage = "encrypting" => new[s] = snds[s] \/ new[s].wire = key
    BY <1>1 DEF StepsOK, Posted
  <2> QED BY <2>1 DEF StepsOK
<1> QED BY <1>1, <1>2, <1>3 DEF new

\* Sends that fail, or go to wait, without a wire disturb nobody.
LEMMA Emptied ==
    ASSUME NEW snds \in [SendIds -> Sends], NEW new \in [SendIds -> Sends], NEW line,
           NEW key \in Keys, NEW mints \in Nat, LineOK(snds, line), StepsOK(snds, key, mints),
           \A s \in SendIds :
              \/ new[s] = snds[s]
              \/ new[s].wire = NoKey /\ new[s].stage \in {"unsent", "ensuring", "chained", "failed"}
    PROVE  LineOK(new, line) /\ StepsOK(new, key, mints)
<1>1. LineOK(new, line)
  BY DEF LineOK
<1>2. \A s \in SendIds : Posted(new[s]) \/ new[s].stage = "encrypting" => new[s] = snds[s]
  BY DEF Posted
<1>3. \A s \in SendIds : new[s].wire.key <= mints
  BY KeyFacts DEF StepsOK
<1>4. \A s \in SendIds : new[s].wire # NoKey => new[s].stage \in {"encrypting", "posting", "sent"}
  BY DEF StepsOK
<1> QED BY <1>1, <1>2, <1>3, <1>4 DEF StepsOK

\* groupEncrypt calls that join the line.
LEMMA ChainedOK ==
    ASSUME SendsOK, NEW more \in Seq(SendIds), Chained(more), UNCHANGED <<own, minted>>
    PROVE  SendsOK'
<1> DEFINE w == [Unsent EXCEPT !.stage = "chained"]
           joined == [s \in SendIds |-> IF s \in Range(more) THEN w ELSE sends[s]]
           line == chain \o more
<1>1. chain' = line /\ sends' = Turn(joined, line, own)
  BY DEF Chained
<1>2. w \in Sends /\ w.wire = NoKey /\ w.stage = "chained"
  BY KeyFacts DEF Sends, Unsent
<1> HIDE DEF w
<1>3. /\ joined \in [SendIds -> Sends]
      /\ \A s \in SendIds : \/ joined[s] = sends[s]
                            \/ joined[s].wire = NoKey /\ joined[s].stage = "chained"
  <2>1. ASSUME NEW s \in SendIds PROVE sends[s] \in Sends
    BY DEF SendsOK
  <2>2. ASSUME NEW s \in SendIds
        PROVE  joined[s] = sends[s] \/ joined[s] = w
    OBVIOUS
  <2> QED BY <1>2, <2>1, <2>2
<1>4. line \in Seq(SendIds) /\ (chain # <<>> => line # <<>> /\ Head(line) = Head(chain))
  BY DEF SendsOK
<1> HIDE DEF joined, line
<1>5. LineOK(sends, line)
  BY <1>4 DEF SendsOK, LineOK
<1>6. LineOK(joined, line) /\ StepsOK(joined, own, minted)
  BY <1>3, <1>5, Emptied DEF SendsOK
<1> QED BY <1>1, <1>3, <1>4, <1>6, TurnOK DEF SendsOK

\* A key minted is one no message was encrypted with.
LEMMA MintedOK ==
    ASSUME SendsOK, NEW e \in Nat, own' = Fresh(e), minted' = minted + 1, UNCHANGED sendVars
    PROVE  SendsOK'
<1>1. own' \in Keys /\ own'.key = minted + 1 /\ minted \in Nat
  BY KeyFacts DEF SendsOK
<1>2. \A s \in SendIds : sends[s].wire.key \in Nat /\ sends[s].wire.key <= minted
  BY DEF SendsOK, StepsOK, Sends, Keys
<1>3. StepsOK(sends, own', minted')
  BY <1>1, <1>2 DEF SendsOK, StepsOK
<1> QED BY <1>1, <1>3 DEF SendsOK, sendVars

LEMMA FailedShape ==
    ASSUME SendsOK, NEW ids
    PROVE  /\ Failed(ids) \in [SendIds -> Sends]
           /\ \A s \in SendIds :
                \/ Failed(ids)[s] = sends[s] /\ s \notin ids
                \/ Failed(ids)[s].wire = NoKey /\ Failed(ids)[s].stage = "failed" /\ s \in ids
<1>1. [Unsent EXCEPT !.stage = "failed"] \in Sends
  BY KeyFacts DEF Sends, Unsent
<1> QED BY <1>1 DEF Failed, SendsOK, Unsent

\* Nothing is sent and no key changes.
LEMMA FailedOK ==
    ASSUME SendsOK, NEW ids, sends' = Failed(ids), UNCHANGED <<own, minted>>,
           chain' = chain \/ (chain' = <<>> /\ \A s \in SendIds \ ids : sends[s].stage # "encrypting")
    PROVE  SendsOK'
<1>1. /\ sends' \in [SendIds -> Sends]
      /\ \A s \in SendIds : \/ sends'[s] = sends[s] /\ s \notin ids
                            \/ sends'[s].wire = NoKey /\ sends'[s].stage = "failed"
  BY FailedShape
<1>2. LineOK(sends', chain) /\ StepsOK(sends', own, minted)
  BY <1>1, Emptied DEF SendsOK
<1>3. chain' \in Seq(SendIds) /\ LineOK(sends', chain')
  BY <1>1, <1>2, EmptySeq DEF SendsOK, LineOK
<1> QED BY <1>1, <1>2, <1>3 DEF SendsOK

LEMMA EncryptEndOK ==
    ASSUME SendsOK, NEW s \in SendIds, EncryptEnd(s)
    PROVE  SendsOK'
<1> DEFINE k == sends[s].wire
           mid == [sends EXCEPT ![s].stage = "posting"]
<1>1. /\ sends[s].stage = "encrypting" /\ own' = Ratcheted(k) /\ chain' = Tail(chain)
      /\ minted' = minted /\ sends' = Turn(mid, Tail(chain), own')
  BY DEF EncryptEnd
<1>2. /\ k \in Keys /\ own' \in Keys /\ own'.key = k.key /\ own'.it = k.it + 1 /\ k.key <= minted
      /\ minted \in Nat
  BY <1>1, KeyFacts DEF SendsOK, Sends, StepsOK
<1>3. /\ mid \in [SendIds -> Sends] /\ mid[s].wire = k /\ mid[s].stage = "posting"
      /\ \A t \in SendIds \ {s} : mid[t] = sends[t]
  <2>1. [sends[s] EXCEPT !.stage = "posting"] \in Sends
    BY DEF SendsOK, Sends
  <2> QED BY <2>1 DEF SendsOK, Sends
<1>4. chain # <<>> /\ Head(chain) = s /\ \A t \in SendIds \ {s} : sends[t].stage # "encrypting"
  BY <1>1 DEF SendsOK, LineOK
<1>5. Tail(chain) \in Seq(SendIds)
  BY <1>4, HeadTailProperties DEF SendsOK
<1> HIDE DEF mid
<1>6. LineOK(mid, Tail(chain))
  BY <1>3, <1>4 DEF LineOK
<1>7. StepsOK(mid, own', minted)
  <2>1. \A t \in SendIds : /\ mid[t].wire = sends[t].wire /\ mid[t].wire.key <= minted
                           /\ mid[t].stage # "encrypting"
                           /\ mid[t].wire # NoKey => mid[t].stage \in {"posting", "sent"}
    BY <1>1, <1>3, <1>4 DEF SendsOK, StepsOK
  <2>2. \A t \in SendIds \ {s} :
            Posted(mid[t]) /\ mid[t].wire.key = k.key => mid[t].wire.it < k.it
    BY <1>1, <1>3 DEF SendsOK, StepsOK
  <2>3. \A t \in SendIds : mid[t].wire.it \in Nat
    BY <1>3 DEF Sends, Keys
  <2>4. \A t \in SendIds : Posted(mid[t]) /\ mid[t].wire.key = own'.key => mid[t].wire.it < own'.it
    BY <1>2, <1>3, <2>2, <2>3 DEF Keys
  <2>5. \A t, v \in SendIds :
            t # v /\ Posted(mid[t]) /\ Posted(mid[v]) /\ mid[t].wire # NoKey
            /\ mid[t].wire.key = mid[v].wire.key => mid[t].wire.it # mid[v].wire.it
    <3> SUFFICES ASSUME NEW t \in SendIds, NEW v \in SendIds,
                        t # v, Posted(mid[t]), Posted(mid[v]), mid[t].wire # NoKey,
                        mid[t].wire.key = mid[v].wire.key
                 PROVE  mid[t].wire.it # mid[v].wire.it
      OBVIOUS
    <3>1. CASE t # s /\ v # s
      BY <1>3, <3>1 DEF SendsOK, StepsOK
    <3>2. CASE t = s
      BY <1>2, <1>3, <2>2, <2>3, <3>2 DEF Keys
    <3>3. CASE v = s
      BY <1>2, <1>3, <2>2, <2>3, <3>3 DEF Keys
    <3> QED BY <3>1, <3>2, <3>3
  <2> QED BY <1>2, <2>1, <2>4, <2>5 DEF StepsOK
<1>8. /\ sends' \in [SendIds -> Sends] /\ LineOK(sends', Tail(chain)) /\ StepsOK(sends', own', minted)
  BY <1>1, <1>2, <1>3, <1>6, <1>7, TurnOK
<1> QED BY <1>1, <1>2, <1>5, <1>8 DEF SendsOK

LEMMA EncryptFailsOK ==
    ASSUME SendsOK, NEW s \in SendIds, EncryptFails(s)
    PROVE  SendsOK'
<1> DEFINE mid == Failed({s})
<1>1. /\ sends[s].stage = "encrypting" /\ chain' = Tail(chain) /\ sends' = Turn(mid, Tail(chain), own)
      /\ UNCHANGED <<own, minted>>
  BY DEF EncryptFails, keyVars
<1>2. /\ mid \in [SendIds -> Sends]
      /\ \A t \in SendIds : \/ mid[t] = sends[t] /\ t # s
                            \/ mid[t].wire = NoKey /\ mid[t].stage = "failed"
  BY FailedShape
<1>3. chain # <<>> /\ \A t \in SendIds : mid[t].stage # "encrypting"
  BY <1>1, <1>2 DEF SendsOK, LineOK
<1>4. Tail(chain) \in Seq(SendIds)
  BY <1>3, HeadTailProperties DEF SendsOK
<1> HIDE DEF mid
<1>5. StepsOK(mid, own, minted) /\ LineOK(mid, Tail(chain))
  BY <1>2, <1>3, Emptied DEF SendsOK, LineOK
<1>6. /\ sends' \in [SendIds -> Sends] /\ LineOK(sends', Tail(chain)) /\ StepsOK(sends', own, minted)
  BY <1>1, <1>2, <1>5, TurnOK DEF SendsOK
<1> QED BY <1>1, <1>4, <1>6 DEF SendsOK

LEMMA PostMessageOK ==
    ASSUME SendsOK, NEW s \in SendIds, PostMessage(s)
    PROVE  SendsOK'
<1>1. /\ sends[s].stage = "posting" /\ sends' = [sends EXCEPT ![s].stage = "sent"]
      /\ UNCHANGED <<own, minted, chain>>
  BY DEF PostMessage, keyVars
<1>2. /\ sends' \in [SendIds -> Sends]
      /\ \A t \in SendIds : /\ sends'[t].wire = sends[t].wire
                            /\ Posted(sends'[t]) <=> Posted(sends[t])
                            /\ sends'[t].stage = "encrypting" <=> sends[t].stage = "encrypting"
  <2>1. [sends[s] EXCEPT !.stage = "sent"] \in Sends
    BY DEF SendsOK, Sends
  <2> QED BY <1>1, <2>1 DEF SendsOK, Sends, Posted
<1>3. LineOK(sends', chain)
  BY <1>2 DEF SendsOK, LineOK
<1>4. StepsOK(sends', own, minted)
  <2>1. \A t \in SendIds :
            sends'[t].stage \in {"encrypting", "posting", "sent"}
            <=> sends[t].stage \in {"encrypting", "posting", "sent"}
    BY <1>2 DEF Posted
  <2> QED BY <1>2, <2>1 DEF SendsOK, StepsOK
<1> QED BY <1>1, <1>2, <1>3, <1>4 DEF SendsOK

---------------------------------------------------------------------------
(* The epochs.                                                             *)

KnownOK ==
    /\ epoch \in Nat /\ known \in Nat /\ known <= epoch /\ own.epoch <= epoch
    /\ notices \subseteq Nat /\ \A n \in notices : n <= epoch
    /\ rotations \in [1 .. MaxEpoch -> Nat]
    /\ \A e \in 1 .. MaxEpoch : rotations[e] > 0 => e <= epoch

RunsOK ==
    /\ runs \in [RunIds -> Runs]
    /\ \A r \in RunIds : runs[r].at <= epoch /\ runs[r].skdm.epoch <= epoch

WiresOK == \A s \in SendIds : sends[s].wire.epoch <= epoch

\* The latest epoch whose keys someone may have.
Late(p) == IF p \in members THEN epoch ELSE leftAt[p]

PeersOK ==
    /\ members \subseteq Peers
    /\ leftAt \in [Peers -> Nat] /\ \A p \in Peers : leftAt[p] <= epoch
    /\ skdms \subseteq [to : Peers, skdm : Keys]
    /\ mail \subseteq [to : Peers, wire : Keys] /\ opening \subseteq [to : Peers, wire : Keys]
    /\ copy \in [Peers -> Keys]
    /\ \A p \in Peers : copy[p].epoch <= Late(p)
    /\ \A d \in skdms : d.skdm.epoch <= Late(d.to)
    /\ \A m \in mail \cup opening : m.wire.epoch <= Late(m.to)

GInv == SendsOK /\ KnownOK /\ RunsOK /\ WiresOK /\ PeersOK

LEMMA GInvInit == Init => GInv
<1> SUFFICES ASSUME Init PROVE GInv
  OBVIOUS
<1>1. SendsOK
  BY KeyFacts, EmptySeq DEF Init, SendsOK, LineOK, StepsOK, Posted
<1>2. KnownOK /\ WiresOK
  BY KeyFacts DEF Init, KnownOK, WiresOK
<1>3. RunsOK
  <2>1. Idle \in Runs /\ Idle.at = 0 /\ Idle.skdm.epoch = 0
    BY KeyFacts, EmptySeq DEF Idle, Runs
  <2> QED BY <2>1 DEF Init, RunsOK
<1>4. PeersOK
  BY KeyFacts DEF Init, PeersOK, Late
<1> QED BY <1>1, <1>2, <1>3, <1>4 DEF GInv

\* What a step does to the sends and to our key.
LEMMA SendsStep == GInv /\ [Next]_vars => SendsOK'
<1> SUFFICES ASSUME GInv, [Next]_vars PROVE SendsOK'
  OBVIOUS
<1> USE DEF GInv
<1>1. CASE UNCHANGED <<sends, chain, own, minted>>
  BY <1>1 DEF SendsOK
<1>2. ASSUME NEW e \in 1 .. MaxEpoch, NEW r \in RunIds, RotationMinted(e, r)
      PROVE  SendsOK'
  BY <1>2, MintedOK DEF RotationMinted
<1>3. ASSUME NEW r \in RunIds, RunMinted(r)
      PROVE  SendsOK'
  <2>1. runs[r].at \in Nat
    BY DEF RunsOK, Runs
  <2>2. own' = Fresh(runs[r].at) /\ minted' = minted + 1 /\ UNCHANGED sendVars
    BY <1>3 DEF RunMinted
  <2> QED BY <2>1, <2>2, MintedOK
<1>4. ASSUME NEW r \in RunIds, NEW reached, RunDone(r, reached)
      PROVE  SendsOK'
  <2>1. runs[r].callers \in Seq(SendIds)
    BY DEF RunsOK, Runs
  <2>2. Chained(runs[r].callers) /\ UNCHANGED <<own, minted>>
    BY <1>4 DEF RunDone, keyVars
  <2> QED BY <2>1, <2>2, ChainedOK
<1>5. ASSUME NEW r \in RunIds, NEW reached, RunFails(r, reached)
      PROVE  SendsOK'
  <2>1. sends' = Failed(Range(runs[r].callers)) /\ UNCHANGED <<own, minted, chain>>
    BY <1>5 DEF RunFails, keyVars
  <2> QED BY <2>1, FailedOK
<1>6. ASSUME NEW s \in SendIds, NEW r \in RunIds, Send(s, r)
      PROVE  SendsOK'
  <2>1. sends[s] = Unsent /\ UNCHANGED <<own, minted>>
    BY <1>6 DEF Send, keyVars
  <2>2. CASE tracker.done
    <3>1. Chained(<<s>>) /\ <<s>> \in Seq(SendIds)
      BY <1>6, <2>2 DEF Send
    <3> QED BY <2>1, <3>1, ChainedOK
  <2>3. CASE ~tracker.done
    <3> DEFINE w == [Unsent EXCEPT !.stage = "ensuring"]
    <3>1. sends' = [sends EXCEPT ![s] = w] /\ chain' = chain
      BY <1>6, <2>1, <2>3 DEF Send, SendsOK
    <3>2. w \in Sends /\ w.wire = NoKey /\ w.stage = "ensuring"
      BY KeyFacts DEF Sends, Unsent
    <3> HIDE DEF w
    <3>3. /\ sends' \in [SendIds -> Sends]
          /\ \A t \in SendIds : \/ sends'[t] = sends[t]
                                \/ sends'[t].wire = NoKey /\ sends'[t].stage = "ensuring"
      BY <3>1, <3>2 DEF SendsOK
    <3>4. LineOK(sends', chain) /\ StepsOK(sends', own, minted)
      BY <3>3, Emptied DEF SendsOK
    <3> QED BY <2>1, <3>1, <3>3, <3>4 DEF SendsOK
  <2> QED BY <2>2, <2>3
<1>7. ASSUME NEW s \in SendIds, EncryptEnd(s) \/ EncryptFails(s) \/ PostMessage(s) \/ PostFails(s)
      PROVE  SendsOK'
  <2>1. CASE PostFails(s)
    <3>1. sends' = Failed({s}) /\ UNCHANGED <<own, minted, chain>>
      BY <2>1 DEF PostFails, keyVars
    <3> QED BY <3>1, FailedOK
  <2> QED BY <1>7, <2>1, EncryptEndOK, EncryptFailsOK, PostMessageOK
<1>8. CASE Reload
  <2> DEFINE ids == {s \in SendIds : sends[s].stage \notin {"unsent", "sent"}}
  <2>1. sends' = Failed(ids) /\ chain' = <<>> /\ UNCHANGED <<own, minted>>
    BY <1>8 DEF Reload
  <2>2. \A s \in SendIds \ ids : sends[s].stage # "encrypting"
    OBVIOUS
  <2> HIDE DEF ids
  <2> QED BY <2>1, <2>2, FailedOK
<1>9. \/ UNCHANGED <<sends, chain, own, minted>>
      \/ \E e \in 1 .. MaxEpoch, r \in RunIds : RotationMinted(e, r)
      \/ \E r \in RunIds : RunMinted(r) \/ \E reached : RunDone(r, reached) \/ RunFails(r, reached)
      \/ \E s \in SendIds, r \in RunIds : Send(s, r)
      \/ \E s \in SendIds : EncryptEnd(s) \/ EncryptFails(s) \/ PostMessage(s) \/ PostFails(s)
      \/ Reload
  <2>1. CASE \/ \E p \in Peers : RemoveRecipient(p) \/ AddRecipient(p)
             \/ BumpEpoch \/ (\E e \in 0 .. MaxEpoch : LearnEpoch(e))
             \/ (\E e \in 1 .. MaxEpoch : RotationFails(e))
             \/ (\E r \in RunIds : ToggleE2e(r) \/ RunListed(r) \/ RunBuilt(r))
             \/ LoseConnection \/ Reconnect \/ UNCHANGED vars
    BY <2>1 DEF RemoveRecipient, AddRecipient, BumpEpoch, LearnEpoch, RotationFails, ToggleE2e,
       RunListed, RunBuilt, LoseConnection, Reconnect, vars, sendVars, keyVars
  <2>2. CASE \/ \E d \in skdms : InstallDistribution(d)
             \/ \E m \in mail : OpenStart(m)
             \/ \E m \in opening : OpenEnd(m)
    BY <2>2 DEF InstallDistribution, OpenStart, OpenEnd, sendVars, keyVars
  <2> QED BY <2>1, <2>2 DEF Next, DistributionStep, SendStep
<1> QED BY <1>1, <1>2, <1>3, <1>4, <1>5, <1>6, <1>7, <1>8, <1>9

\* Epochs only grow, and our key is of an epoch announced.
LEMMA KnownStep == GInv /\ [Next]_vars => KnownOK' /\ epoch' >= epoch
<1> SUFFICES ASSUME GInv, [Next]_vars PROVE KnownOK' /\ epoch' >= epoch
  OBVIOUS
<1> USE DEF GInv
<1>0. epoch \in Nat /\ known \in Nat /\ known <= epoch /\ own \in Keys /\ own.epoch \in Nat
      /\ own.epoch <= epoch
  BY DEF KnownOK, SendsOK, Keys
<1>1. CASE UNCHANGED <<epoch, known, own, rotations>> /\ notices' \subseteq notices \cup {epoch}
  BY <1>1 DEF KnownOK
<1>2. CASE BumpEpoch
  <2>1. /\ epoch' = epoch + 1 /\ UNCHANGED <<known, own, rotations>>
        /\ notices' \subseteq notices \cup {epoch + 1}
    BY <1>2 DEF BumpEpoch, keyVars
  <2> QED BY <1>0, <2>1 DEF KnownOK
<1>3. ASSUME NEW e \in 0 .. MaxEpoch, LearnEpoch(e)
      PROVE  KnownOK' /\ epoch' >= epoch
  <2> DEFINE latest == IF e > known THEN e ELSE known
  <2>1. /\ e \in notices /\ known' = latest /\ notices' = notices \ {e}
        /\ rotations' = IF own # NoKey /\ latest > own.epoch
                        THEN [rotations EXCEPT ![latest] = @ + 1] ELSE rotations
        /\ UNCHANGED <<epoch, own>>
    BY <1>3 DEF LearnEpoch, serverVars
  <2>2. latest \in Nat /\ latest <= epoch
    BY <1>0, <2>1 DEF KnownOK
  <2> HIDE DEF latest
  <2>3. /\ rotations' \in [1 .. MaxEpoch -> Nat]
        /\ \A x \in 1 .. MaxEpoch : rotations'[x] > 0 => rotations[x] > 0 \/ x = latest
    <3>1. CASE rotations' = rotations
      BY <3>1 DEF KnownOK
    <3>2. CASE rotations' = [rotations EXCEPT ![latest] = @ + 1]
      <4>1. CASE latest \in 1 .. MaxEpoch
        <5>1. rotations[latest] + 1 \in Nat
          BY <4>1 DEF KnownOK
        <5> QED BY <3>2, <5>1 DEF KnownOK
      <4>2. CASE latest \notin 1 .. MaxEpoch
        <5>1. rotations' = rotations
          BY <3>2, <4>2 DEF KnownOK
        <5> QED BY <5>1 DEF KnownOK
      <4> QED BY <4>1, <4>2
    <3> QED BY <2>1, <3>1, <3>2
  <2> QED BY <1>0, <2>1, <2>2, <2>3 DEF KnownOK
<1>4. ASSUME NEW e \in 1 .. MaxEpoch, NEW r \in RunIds, RotationMinted(e, r) \/ RotationFails(e)
      PROVE  KnownOK' /\ epoch' >= epoch
  <2>1. /\ rotations[e] > 0 /\ rotations' = [rotations EXCEPT ![e] = @ - 1]
        /\ own' \in {own, Fresh(e)} /\ UNCHANGED <<epoch, known, notices>>
    BY <1>4 DEF RotationMinted, RotationFails, serverVars, wireVars
  <2>2. e \in Nat /\ e <= epoch /\ minted \in Nat
    BY <2>1, GroupKeysAssumption DEF KnownOK, SendsOK
  <2>3. own'.epoch <= epoch
    BY <1>0, <2>1, <2>2, KeyFacts
  <2>4. /\ rotations' \in [1 .. MaxEpoch -> Nat]
        /\ \A x \in 1 .. MaxEpoch : rotations'[x] > 0 => rotations[x] > 0
    BY <2>1 DEF KnownOK
  <2> QED BY <1>0, <2>1, <2>3, <2>4 DEF KnownOK
<1>5. ASSUME NEW r \in RunIds, RunMinted(r)
      PROVE  KnownOK' /\ epoch' >= epoch
  <2>1. own' = Fresh(runs[r].at) /\ UNCHANGED <<epoch, known, notices, rotations>>
    BY <1>5 DEF RunMinted, serverVars, wireVars
  <2>2. runs[r].at \in Nat /\ runs[r].at <= epoch /\ minted \in Nat
    BY DEF RunsOK, Runs, SendsOK
  <2>3. own'.epoch <= epoch
    BY <2>1, <2>2, KeyFacts
  <2> QED BY <1>0, <2>1, <2>3 DEF KnownOK
<1>6. ASSUME NEW s \in SendIds, EncryptEnd(s)
      PROVE  KnownOK' /\ epoch' >= epoch
  <2>1. own' = Ratcheted(sends[s].wire) /\ UNCHANGED <<epoch, known, notices, rotations>>
    BY <1>6 DEF EncryptEnd, serverVars, wireVars
  <2>2. sends[s].wire \in Keys /\ sends[s].wire.epoch <= epoch
    BY DEF SendsOK, Sends, WiresOK
  <2>3. own'.epoch <= epoch
    BY <2>1, <2>2, KeyFacts
  <2> QED BY <1>0, <2>1, <2>3 DEF KnownOK
<1>7. CASE Reload
  <2>1. /\ rotations' = [e \in 1 .. MaxEpoch |-> 0] /\ notices' = {}
        /\ UNCHANGED <<epoch, known, own>>
    BY <1>7 DEF Reload, serverVars
  <2> QED BY <1>0, <2>1 DEF KnownOK
<1>8. \/ UNCHANGED <<epoch, known, own, rotations>> /\ notices' \subseteq notices \cup {epoch}
      \/ BumpEpoch \/ Reload
      \/ \E e \in 0 .. MaxEpoch : LearnEpoch(e)
      \/ \E e \in 1 .. MaxEpoch, r \in RunIds : RotationMinted(e, r) \/ RotationFails(e)
      \/ \E r \in RunIds : RunMinted(r)
      \/ \E s \in SendIds : EncryptEnd(s)
  <2> USE DEF serverVars, wireVars, keyVars
  <2>1. CASE \/ \E p \in Peers : RemoveRecipient(p) \/ AddRecipient(p)
             \/ LoseConnection \/ Reconnect \/ UNCHANGED vars
    BY <2>1 DEF RemoveRecipient, AddRecipient, LoseConnection, Reconnect, vars
  <2>2. CASE \E r \in RunIds :
                \/ ToggleE2e(r) \/ RunListed(r) \/ RunBuilt(r)
                \/ \E reached \in SUBSET Peers : RunDone(r, reached) \/ RunFails(r, reached)
    BY <2>2 DEF ToggleE2e, RunListed, RunBuilt, RunDone, RunFails
  <2>3. CASE \E s \in SendIds : \/ EncryptFails(s) \/ PostMessage(s) \/ PostFails(s)
                                \/ \E r \in RunIds : Send(s, r)
    BY <2>3 DEF EncryptFails, PostMessage, PostFails, Send
  <2>4. CASE \/ \E d \in skdms : InstallDistribution(d)
             \/ \E m \in mail : OpenStart(m)
             \/ \E m \in opening : OpenEnd(m)
    BY <2>4 DEF InstallDistribution, OpenStart, OpenEnd
  <2>5. CASE \E e \in 1 .. MaxEpoch : RotationFails(e)
    <3>1. \E r \in RunIds : TRUE
      BY GroupKeysAssumption DEF RunIds
    <3> QED BY <2>5, <3>1
  <2> QED BY <2>1, <2>2, <2>3, <2>4, <2>5 DEF Next, DistributionStep, SendStep
<1> QED BY <1>0, <1>1, <1>2, <1>3, <1>4, <1>5, <1>6, <1>7, <1>8

\* A run hands out a key we have, or had.
LEMMA EnsureOK ==
    ASSUME GInv, NEW t, NEW r \in RunIds, NEW callers \in Seq(SendIds), Ensure(t, r, callers)
    PROVE  /\ runs' \in [RunIds -> Runs]
           /\ \A q \in RunIds : runs'[q].at <= epoch /\ runs'[q].skdm.epoch <= epoch
<1> USE DEF GInv
<1>0. /\ runs \in [RunIds -> Runs] /\ epoch \in Nat
      /\ \A q \in RunIds : runs[q].at <= epoch /\ runs[q].skdm.epoch <= epoch
  BY DEF RunsOK, KnownOK
<1>1. CASE UNCHANGED runs
  BY <1>0, <1>1
<1>2. CASE runs' = [runs EXCEPT ![r].callers = @ \o callers]
  <2> DEFINE new == [runs[r] EXCEPT !.callers = runs[r].callers \o callers]
  <2>1. runs[r] \in Runs
    BY <1>0
  <2>2. runs[r].callers \o callers \in Seq(SendIds)
    BY <2>1, ConcatProperties DEF Runs
  <2>3. new \in Runs /\ new.at = runs[r].at /\ new.skdm = runs[r].skdm
    BY <2>1, <2>2 DEF Runs
  <2>4. runs' = [runs EXCEPT ![r] = new]
    BY <1>2, <1>0
  <2> HIDE DEF new
  <2> QED BY <1>0, <2>3, <2>4
<1>3. CASE runs' = [runs EXCEPT ![r] = [Idle EXCEPT !.stage = "listing", !.callers = callers]]
  <2> DEFINE new == [Idle EXCEPT !.stage = "listing", !.callers = callers]
  <2>1. new \in Runs /\ new.at = 0 /\ new.skdm = NoKey
    BY KeyFacts DEF Idle, Runs
  <2>2. runs' = [runs EXCEPT ![r] = new]
    BY <1>3
  <2> HIDE DEF new
  <2> QED BY <1>0, <2>1, <2>2, KeyFacts
<1> QED BY <1>1, <1>2, <1>3 DEF Ensure

LEMMA RunsStep == GInv /\ [Next]_vars => RunsOK'
<1> SUFFICES ASSUME GInv, [Next]_vars PROVE RunsOK'
  OBVIOUS
<1>1. /\ runs \in [RunIds -> Runs] /\ epoch \in Nat /\ epoch' \in Nat /\ epoch' >= epoch
      /\ \A q \in RunIds : /\ runs[q].at \in Nat /\ runs[q].at <= epoch
                           /\ runs[q].skdm.epoch \in Nat /\ runs[q].skdm.epoch <= epoch
  BY KnownStep DEF GInv, RunsOK, KnownOK, Runs, Keys
<1>2. ASSUME runs' \in [RunIds -> Runs],
             \A q \in RunIds : runs'[q].at <= epoch /\ runs'[q].skdm.epoch <= epoch
      PROVE  RunsOK'
  <2>1. \A q \in RunIds : runs'[q].at \in Nat /\ runs'[q].skdm.epoch \in Nat
    BY <1>2 DEF Runs, Keys
  <2> QED BY <1>1, <1>2, <2>1 DEF RunsOK
<1>3. CASE UNCHANGED runs
  BY <1>1, <1>2, <1>3
<1>4. ASSUME NEW r \in RunIds, NEW new \in Runs, new.at <= epoch, new.skdm.epoch <= epoch,
             runs' = [runs EXCEPT ![r] = new]
      PROVE  RunsOK'
  BY <1>1, <1>2, <1>4
<1>5. ASSUME NEW t, NEW r \in RunIds, NEW callers \in Seq(SendIds), Ensure(t, r, callers)
      PROVE  RunsOK'
  BY <1>2, <1>5, EnsureOK
<1>6. Idle \in Runs /\ Idle.at = 0 /\ Idle.skdm.epoch = 0
  BY KeyFacts, EmptySeq DEF Idle, Runs
<1>7. ASSUME NEW r \in RunIds, RunListed(r)
      PROVE  RunsOK'
  <2> DEFINE new == [runs[r] EXCEPT !.stage = "listed", !.to = members]
  <2>1. runs[r] \in Runs /\ members \subseteq Peers
    BY <1>1 DEF GInv, PeersOK
  <2>2. new \in Runs /\ new.at = runs[r].at /\ new.skdm = runs[r].skdm
    BY <2>1 DEF Runs
  <2>3. runs' = [runs EXCEPT ![r] = new]
    BY <1>7 DEF RunListed
  <2> HIDE DEF new
  <2> QED BY <1>1, <1>4, <2>2, <2>3
<1>8. ASSUME NEW r \in RunIds, RunBuilt(r)
      PROVE  RunsOK'
  <2>1. runs[r] \in Runs /\ own \in Keys /\ known \in Nat /\ known <= epoch /\ own.epoch <= epoch
    BY <1>1 DEF GInv, SendsOK, KnownOK
  <2>2. CASE own = NoKey
    <3> DEFINE new == [runs[r] EXCEPT !.stage = "minting", !.at = known]
    <3>1. new \in Runs /\ new.at = known /\ new.skdm = runs[r].skdm
      BY <2>1 DEF Runs
    <3>2. runs' = [runs EXCEPT ![r] = new]
      BY <1>8, <2>2 DEF RunBuilt
    <3> HIDE DEF new
    <3> QED BY <1>1, <1>4, <2>1, <3>1, <3>2
  <2>3. CASE own # NoKey
    <3> DEFINE new == [runs[r] EXCEPT !.stage = "relaying", !.skdm = own]
    <3>1. new \in Runs /\ new.at = runs[r].at /\ new.skdm = own
      BY <2>1 DEF Runs
    <3>2. runs' = [runs EXCEPT ![r] = new]
      BY <1>8, <2>3 DEF RunBuilt
    <3> HIDE DEF new
    <3> QED BY <1>1, <1>4, <2>1, <3>1, <3>2
  <2> QED BY <2>2, <2>3
<1>9. ASSUME NEW r \in RunIds, RunMinted(r)
      PROVE  RunsOK'
  <2> DEFINE fresh == Fresh(runs[r].at)
             new == [runs[r] EXCEPT !.stage = "relaying", !.skdm = fresh, !.at = 0]
  <2>1. runs[r] \in Runs /\ minted \in Nat
    BY <1>1 DEF GInv, SendsOK
  <2>2. fresh \in Keys /\ fresh.epoch = runs[r].at
    BY <1>1, <2>1, KeyFacts
  <2>3. runs' = [runs EXCEPT ![r] = new]
    BY <1>9 DEF RunMinted
  <2> HIDE DEF fresh
  <2>4. new \in Runs /\ new.at = 0 /\ new.skdm = fresh
    BY <2>1, <2>2 DEF Runs
  <2>5. new.at <= epoch /\ new.skdm.epoch <= epoch
    BY <1>1, <2>2, <2>4
  <2> HIDE DEF new
  <2> QED BY <1>4, <2>3, <2>4, <2>5
<1>10. ASSUME NEW r \in RunIds, NEW reached, RunDone(r, reached) \/ RunFails(r, reached)
       PROVE  RunsOK'
  <2>1. runs' = [runs EXCEPT ![r] = Idle]
    BY <1>10 DEF RunDone, RunFails
  <2>2. Idle.at <= epoch /\ Idle.skdm.epoch <= epoch
    BY <1>1, <1>6
  <2> QED BY <1>4, <1>6, <2>1, <2>2
<1>11. ASSUME NEW e \in 1 .. MaxEpoch, NEW r \in RunIds, RotationMinted(e, r)
       PROVE  RunsOK'
  <2>1. Ensure(Untracked, r, <<>>) \/ UNCHANGED runs
    BY <1>11 DEF RotationMinted
  <2> QED BY <1>3, <1>5, <2>1, EmptySeq
<1>12. ASSUME NEW r \in RunIds, ToggleE2e(r)
       PROVE  RunsOK'
  <2>1. Ensure(tracker, r, <<>>) \/ UNCHANGED runs
    BY <1>12 DEF ToggleE2e
  <2> QED BY <1>3, <1>5, <2>1, EmptySeq
<1>13. ASSUME NEW s \in SendIds, NEW r \in RunIds, Send(s, r)
       PROVE  RunsOK'
  <2>1. Ensure(tracker, r, <<s>>) /\ <<s>> \in Seq(SendIds)
    BY <1>13 DEF Send
  <2> QED BY <1>5, <2>1
<1>14. CASE Reload
  <2>1. runs' = [r \in RunIds |-> Idle]
    BY <1>14 DEF Reload
  <2> QED BY <1>1, <1>2, <1>6, <2>1
<1>15. \/ UNCHANGED runs \/ Reload
       \/ \E r \in RunIds :
            \/ ToggleE2e(r) \/ RunListed(r) \/ RunBuilt(r) \/ RunMinted(r)
            \/ \E reached : RunDone(r, reached) \/ RunFails(r, reached)
            \/ \E s \in SendIds : Send(s, r)
            \/ \E e \in 1 .. MaxEpoch : RotationMinted(e, r)
  <2>1. CASE \/ \E p \in Peers : RemoveRecipient(p) \/ AddRecipient(p)
             \/ BumpEpoch \/ (\E e \in 0 .. MaxEpoch : LearnEpoch(e))
             \/ (\E e \in 1 .. MaxEpoch : RotationFails(e))
             \/ (\E s \in SendIds :
                    EncryptEnd(s) \/ EncryptFails(s) \/ PostMessage(s) \/ PostFails(s))
             \/ LoseConnection \/ Reconnect \/ UNCHANGED vars
    BY <2>1 DEF RemoveRecipient, AddRecipient, BumpEpoch, LearnEpoch, RotationFails, EncryptEnd,
       EncryptFails, PostMessage, PostFails, LoseConnection, Reconnect, vars
  <2>2. CASE \/ \E d \in skdms : InstallDistribution(d)
             \/ \E m \in mail : OpenStart(m)
             \/ \E m \in opening : OpenEnd(m)
    BY <2>2 DEF InstallDistribution, OpenStart, OpenEnd
  <2> QED BY <2>1, <2>2 DEF Next, DistributionStep, SendStep
<1> QED BY <1>3, <1>7, <1>8, <1>9, <1>10, <1>11, <1>12, <1>13, <1>14, <1>15

\* A message is encrypted with our key as it is after the step.
LEMMA WiresStep == GInv /\ [Next]_vars => WiresOK'
<1> SUFFICES ASSUME GInv, [Next]_vars PROVE WiresOK'
  OBVIOUS
<1>1. /\ sends \in [SendIds -> Sends] /\ own \in Keys /\ epoch \in Nat /\ epoch' \in Nat
      /\ epoch' >= epoch /\ own' \in Keys /\ own'.epoch <= epoch'
  BY KnownStep, SendsStep DEF GInv, SendsOK, KnownOK
<1>2. ASSUME \A s \in SendIds : sends'[s].wire \in {sends[s].wire, NoKey, own'}
      PROVE  WiresOK'
  <2> SUFFICES ASSUME NEW s \in SendIds PROVE sends'[s].wire.epoch <= epoch'
    BY DEF WiresOK
  <2>1. sends[s].wire \in Keys /\ sends[s].wire.epoch <= epoch
    BY <1>1 DEF GInv, WiresOK, Sends
  <2>2. sends[s].wire.epoch \in Nat
    BY <2>1 DEF Keys
  <2> QED BY <1>1, <1>2, <2>1, <2>2, KeyFacts
<1>3. ASSUME NEW more, Chained(more), own' = own
      PROVE  WiresOK'
  <2> DEFINE w == [Unsent EXCEPT !.stage = "chained"]
             joined == [s \in SendIds |-> IF s \in Range(more) THEN w ELSE sends[s]]
  <2>1. sends' = Turn(joined, chain \o more, own)
    BY <1>3 DEF Chained
  <2>2. w \in Sends /\ w.wire = NoKey
    BY KeyFacts DEF Sends, Unsent
  <2> HIDE DEF w
  <2>3. /\ joined \in [SendIds -> Sends]
        /\ \A s \in SendIds : joined[s] = sends[s] \/ joined[s].wire = NoKey
    BY <1>1, <2>2
  <2> HIDE DEF joined
  <2>4. \A s \in SendIds : sends'[s] = joined[s] \/ sends'[s].wire = own
    BY <1>1, <2>1, <2>3, TurnShape
  <2> QED BY <1>2, <1>3, <2>3, <2>4
<1>4. ASSUME NEW ids, sends' = Failed(ids)
      PROVE  WiresOK'
  BY <1>2, <1>4, FailedShape DEF GInv
<1>5. ASSUME NEW s \in SendIds, NEW r \in RunIds, Send(s, r)
      PROVE  WiresOK'
  <2>1. CASE tracker.done
    BY <1>3, <1>5, <2>1 DEF Send, keyVars
  <2>2. CASE ~tracker.done
    <3>1. sends' = [sends EXCEPT ![s].stage = "ensuring"]
      BY <1>5, <2>2 DEF Send
    <3>2. \A t \in SendIds : sends'[t].wire = sends[t].wire
      BY <1>1, <3>1 DEF Sends
    <3> QED BY <1>2, <3>2
  <2> QED BY <2>1, <2>2
<1>6. ASSUME NEW s \in SendIds, EncryptEnd(s) \/ EncryptFails(s)
      PROVE  WiresOK'
  <2>1. CASE EncryptEnd(s)
    <3> DEFINE mid == [sends EXCEPT ![s].stage = "posting"]
    <3>1. sends' = Turn(mid, Tail(chain), own')
      BY <2>1 DEF EncryptEnd
    <3>2. mid \in [SendIds -> Sends] /\ \A t \in SendIds : mid[t].wire = sends[t].wire
      <4>1. [sends[s] EXCEPT !.stage = "posting"] \in Sends
        BY <1>1 DEF Sends
      <4> QED BY <1>1, <4>1 DEF Sends
    <3> HIDE DEF mid
    <3>3. \A t \in SendIds : sends'[t] = mid[t] \/ sends'[t].wire = own'
      BY <1>1, <3>1, <3>2, TurnShape
    <3> QED BY <1>2, <3>2, <3>3
  <2>2. CASE EncryptFails(s)
    <3> DEFINE mid == Failed({s})
    <3>1. sends' = Turn(mid, Tail(chain), own) /\ own' = own
      BY <2>2 DEF EncryptFails, keyVars
    <3>2. /\ mid \in [SendIds -> Sends]
          /\ \A t \in SendIds : mid[t] = sends[t] \/ mid[t].wire = NoKey
      BY FailedShape DEF GInv
    <3> HIDE DEF mid
    <3>3. \A t \in SendIds : sends'[t] = mid[t] \/ sends'[t].wire = own
      BY <1>1, <3>1, <3>2, TurnShape
    <3> QED BY <1>2, <3>1, <3>2, <3>3
  <2> QED BY <1>6, <2>1, <2>2
<1>7. ASSUME NEW s \in SendIds, PostMessage(s)
      PROVE  WiresOK'
  <2>1. sends' = [sends EXCEPT ![s].stage = "sent"]
    BY <1>7 DEF PostMessage
  <2>2. \A t \in SendIds : sends'[t].wire = sends[t].wire
    BY <1>1, <2>1 DEF Sends
  <2> QED BY <1>2, <2>2
<1>8. \/ UNCHANGED sends
      \/ \E s \in SendIds :
            \/ EncryptEnd(s) \/ EncryptFails(s) \/ PostMessage(s)
            \/ \E r \in RunIds : Send(s, r)
      \/ \E more : Chained(more) /\ own' = own
      \/ \E ids : sends' = Failed(ids)
  <2>1. CASE \E r \in RunIds : \E reached \in SUBSET Peers : RunDone(r, reached) \/ RunFails(r, reached)
    BY <2>1 DEF RunDone, RunFails, keyVars
  <2>2. CASE Reload \/ \E s \in SendIds : PostFails(s)
    BY <2>2 DEF Reload, PostFails
  <2>3. CASE \/ \E p \in Peers : RemoveRecipient(p) \/ AddRecipient(p)
             \/ BumpEpoch \/ (\E e \in 0 .. MaxEpoch : LearnEpoch(e))
             \/ (\E e \in 1 .. MaxEpoch : RotationFails(e))
             \/ (\E r \in RunIds : \/ ToggleE2e(r) \/ RunListed(r) \/ RunBuilt(r) \/ RunMinted(r)
                                   \/ \E e \in 1 .. MaxEpoch : RotationMinted(e, r))
             \/ LoseConnection \/ Reconnect \/ UNCHANGED vars
    BY <2>3 DEF RemoveRecipient, AddRecipient, BumpEpoch, LearnEpoch, RotationFails, ToggleE2e,
       RunListed, RunBuilt, RunMinted, RotationMinted, LoseConnection, Reconnect, vars, sendVars
  <2>4. CASE \/ \E d \in skdms : InstallDistribution(d)
             \/ \E m \in mail : OpenStart(m)
             \/ \E m \in opening : OpenEnd(m)
    BY <2>4 DEF InstallDistribution, OpenStart, OpenEnd, sendVars
  <2> QED BY <2>1, <2>2, <2>3, <2>4 DEF Next, DistributionStep, SendStep
<1> QED BY <1>2, <1>3, <1>4, <1>5, <1>6, <1>7, <1>8

LEMMA ChangeOfMembers ==
    [Next]_vars => UNCHANGED <<members, leftAt>> \/ \E q \in Peers : RemoveRecipient(q) \/ AddRecipient(q)
<1> SUFFICES ASSUME [Next]_vars
             PROVE  UNCHANGED <<members, leftAt>> \/ \E q \in Peers : RemoveRecipient(q) \/ AddRecipient(q)
  OBVIOUS
<1> USE DEF serverVars
<1>1. CASE \/ BumpEpoch \/ (\E e \in 0 .. MaxEpoch : LearnEpoch(e))
           \/ (\E e \in 1 .. MaxEpoch : RotationFails(e))
           \/ (\E r \in RunIds : \/ ToggleE2e(r) \/ RunListed(r) \/ RunBuilt(r) \/ RunMinted(r)
                                 \/ \E e \in 1 .. MaxEpoch : RotationMinted(e, r))
           \/ LoseConnection \/ Reconnect \/ Reload \/ UNCHANGED vars
  BY <1>1 DEF BumpEpoch, LearnEpoch, RotationFails, ToggleE2e, RunListed, RunBuilt, RunMinted,
     RotationMinted, LoseConnection, Reconnect, Reload, vars
<1>2. CASE \E r \in RunIds : \E reached \in SUBSET Peers : RunDone(r, reached) \/ RunFails(r, reached)
  BY <1>2 DEF RunDone, RunFails
<1>3. CASE \E s \in SendIds : \/ EncryptEnd(s) \/ EncryptFails(s) \/ PostMessage(s) \/ PostFails(s)
                              \/ \E r \in RunIds : Send(s, r)
  BY <1>3 DEF EncryptEnd, EncryptFails, PostMessage, PostFails, Send
<1>4. CASE \/ \E d \in skdms : InstallDistribution(d)
           \/ \E m \in mail : OpenStart(m)
           \/ \E m \in opening : OpenEnd(m)
  BY <1>4 DEF InstallDistribution, OpenStart, OpenEnd
<1> QED BY <1>1, <1>2, <1>3, <1>4 DEF Next, DistributionStep, SendStep

\* Whoever is in the group may have the keys up to now; whoever left, those up to then.
LEMMA LateGrows ==
    ASSUME GInv, [Next]_vars, NEW p \in Peers
    PROVE  Late(p)' >= Late(p) /\ Late(p)' \in Nat /\ Late(p) \in Nat
<1>1. /\ epoch \in Nat /\ epoch' \in Nat /\ epoch' >= epoch
      /\ leftAt \in [Peers -> Nat] /\ leftAt[p] <= epoch
  BY KnownStep DEF GInv, KnownOK, PeersOK
<1>2. CASE UNCHANGED <<members, leftAt>>
  BY <1>1, <1>2 DEF Late
<1>3. ASSUME NEW q \in Peers, RemoveRecipient(q)
      PROVE  Late(p)' >= Late(p) /\ Late(p)' \in Nat /\ Late(p) \in Nat
  <2>1. members' = members \ {q} /\ leftAt' = [leftAt EXCEPT ![q] = epoch] /\ epoch' = epoch
    BY <1>3 DEF RemoveRecipient
  <2>2. CASE p = q
    BY <1>1, <2>1, <2>2 DEF Late
  <2>3. CASE p # q
    BY <1>1, <2>1, <2>3 DEF Late
  <2> QED BY <2>2, <2>3
<1>4. ASSUME NEW q \in Peers, AddRecipient(q)
      PROVE  Late(p)' >= Late(p) /\ Late(p)' \in Nat /\ Late(p) \in Nat
  <2>1. members' = members \cup {q} /\ leftAt' = leftAt /\ epoch' = epoch
    BY <1>4 DEF AddRecipient
  <2> QED BY <1>1, <2>1 DEF Late
<1> QED BY <1>2, <1>3, <1>4, ChangeOfMembers

\* What a peer holds, or is on its way to one, was handed to a member.
LEMMA PeersStep == GInv /\ [Next]_vars => PeersOK'
<1> SUFFICES ASSUME GInv, [Next]_vars PROVE PeersOK'
  OBVIOUS
<1> DEFINE Box == [to : Peers, skdm : Keys]
           Letter == [to : Peers, wire : Keys]
<1>1. /\ epoch \in Nat /\ epoch' \in Nat /\ epoch' >= epoch /\ members \subseteq Peers
      /\ leftAt \in [Peers -> Nat] /\ skdms \subseteq Box /\ mail \subseteq Letter
      /\ opening \subseteq Letter /\ copy \in [Peers -> Keys]
  BY KnownStep DEF GInv, KnownOK, PeersOK
<1>2. \A p \in Peers : Late(p)' >= Late(p) /\ Late(p)' \in Nat /\ Late(p) \in Nat
  BY LateGrows
<1>3. members' \subseteq Peers /\ leftAt' \in [Peers -> Nat] /\ \A p \in Peers : leftAt'[p] <= epoch'
  <2>1. \A p \in Peers : leftAt[p] <= epoch
    BY DEF GInv, PeersOK
  <2>2. CASE UNCHANGED <<members, leftAt>>
    BY <1>1, <2>1, <2>2
  <2>3. ASSUME NEW q \in Peers, RemoveRecipient(q) \/ AddRecipient(q)
        PROVE  /\ members' \subseteq Peers /\ leftAt' \in [Peers -> Nat]
               /\ \A p \in Peers : leftAt'[p] <= epoch'
    <3>1. /\ members' \subseteq Peers /\ leftAt' \in {leftAt, [leftAt EXCEPT ![q] = epoch]}
          /\ epoch' = epoch
      BY <1>1, <2>3 DEF RemoveRecipient, AddRecipient
    <3>2. CASE leftAt' = leftAt
      BY <1>1, <2>1, <3>1, <3>2
    <3>3. CASE leftAt' = [leftAt EXCEPT ![q] = epoch]
      BY <1>1, <2>1, <3>1, <3>3
    <3> QED BY <3>1, <3>2, <3>3
  <2>4. UNCHANGED <<members, leftAt>> \/ \E q \in Peers : RemoveRecipient(q) \/ AddRecipient(q)
    BY ChangeOfMembers
  <2> QED BY <2>2, <2>3, <2>4
<1>4. ASSUME skdms' \subseteq Box, mail' \subseteq Letter, opening' \subseteq Letter,
             copy' \in [Peers -> Keys],
             \A p \in Peers : copy'[p].epoch <= Late(p),
             \A d \in skdms' : d.skdm.epoch <= Late(d.to),
             \A m \in mail' \cup opening' : m.wire.epoch <= Late(m.to)
      PROVE  PeersOK'
  <2>1. \A p \in Peers : copy'[p].epoch <= Late(p)'
    <3>1. \A p \in Peers : copy'[p].epoch \in Nat
      BY <1>4 DEF Keys
    <3> QED BY <1>2, <1>4, <3>1
  <2>2. \A d \in skdms' : d.skdm.epoch <= Late(d.to)'
    <3> SUFFICES ASSUME NEW d \in skdms' PROVE d.skdm.epoch <= Late(d.to)'
      OBVIOUS
    <3>1. d \in Box /\ d.skdm.epoch <= Late(d.to)
      BY <1>4
    <3>2. d.to \in Peers /\ d.skdm.epoch \in Nat
      BY <3>1 DEF Keys
    <3> QED BY <1>2, <3>1, <3>2
  <2>3. \A m \in mail' \cup opening' : m.wire.epoch <= Late(m.to)'
    <3> SUFFICES ASSUME NEW m \in mail' \cup opening' PROVE m.wire.epoch <= Late(m.to)'
      OBVIOUS
    <3>1. m \in Letter /\ m.wire.epoch <= Late(m.to)
      BY <1>4
    <3>2. m.to \in Peers /\ m.wire.epoch \in Nat
      BY <3>1 DEF Keys
    <3> QED BY <1>2, <3>1, <3>2
  <2> QED BY <1>3, <1>4, <2>1, <2>2, <2>3 DEF PeersOK
<1>5. /\ \A p \in Peers : copy[p].epoch <= Late(p)
      /\ \A d \in skdms : d.skdm.epoch <= Late(d.to)
      /\ \A m \in mail \cup opening : m.wire.epoch <= Late(m.to)
  BY DEF GInv, PeersOK
<1>6. CASE UNCHANGED peerVars
  BY <1>1, <1>4, <1>5, <1>6 DEF peerVars
<1>7. ASSUME NEW r \in RunIds, NEW reached, Relayed(r, reached), UNCHANGED <<mail, opening, copy>>
      PROVE  PeersOK'
  <2> DEFINE new == [to : reached, skdm : {runs[r].skdm}]
  <2>1. /\ reached \subseteq members /\ skdms' = skdms \cup new /\ runs[r].skdm \in Keys
        /\ runs[r].skdm.epoch <= epoch
    BY <1>7 DEF Relayed, GInv, RunsOK, Runs
  <2>2. \A d \in new : d \in Box /\ d.skdm.epoch <= Late(d.to)
    BY <1>1, <2>1 DEF Late
  <2> HIDE DEF new
  <2>3. skdms' \subseteq Box /\ \A d \in skdms' : d.skdm.epoch <= Late(d.to)
    BY <1>1, <1>5, <2>1, <2>2
  <2> QED BY <1>1, <1>4, <1>5, <1>7, <2>3
<1>8. ASSUME NEW s \in SendIds, PostMessage(s)
      PROVE  PeersOK'
  <2> DEFINE new == [to : members, wire : {sends[s].wire}]
  <2>1. /\ mail' = mail \cup new /\ sends[s].wire \in Keys /\ sends[s].wire.epoch <= epoch
        /\ UNCHANGED <<skdms, opening, copy>>
    BY <1>8 DEF PostMessage, GInv, SendsOK, Sends, WiresOK
  <2>2. \A m \in new : m \in Letter /\ m.wire.epoch <= Late(m.to)
    BY <1>1, <2>1 DEF Late
  <2> HIDE DEF new
  <2>3. mail' \subseteq Letter /\ \A m \in mail' \cup opening' : m.wire.epoch <= Late(m.to)
    BY <1>1, <1>5, <2>1, <2>2
  <2> QED BY <1>1, <1>4, <1>5, <2>1, <2>3
<1>9. ASSUME NEW d \in skdms, InstallDistribution(d)
      PROVE  PeersOK'
  <2>1. /\ skdms' = skdms \ {d} /\ copy' \in {copy, [copy EXCEPT ![d.to] = d.skdm]}
        /\ UNCHANGED <<mail, opening>>
    BY <1>9 DEF InstallDistribution
  <2>2. d.to \in Peers /\ d.skdm \in Keys /\ d.skdm.epoch <= Late(d.to)
    BY <1>1, <1>5
  <2>3. copy' \in [Peers -> Keys] /\ \A p \in Peers : copy'[p].epoch <= Late(p)
    <3>1. CASE copy' = copy
      BY <1>1, <1>5, <3>1
    <3>2. CASE copy' = [copy EXCEPT ![d.to] = d.skdm]
      BY <1>1, <1>5, <2>2, <3>2
    <3> QED BY <2>1, <3>1, <3>2
  <2> QED BY <1>1, <1>4, <1>5, <2>1, <2>3
<1>10. ASSUME NEW m \in mail, OpenStart(m)
       PROVE  PeersOK'
  <2>1. mail' = mail \ {m} /\ opening' = opening \cup {m} /\ UNCHANGED <<skdms, copy>>
    BY <1>10 DEF OpenStart
  <2> QED BY <1>1, <1>4, <1>5, <2>1
<1>11. ASSUME NEW m \in opening, OpenEnd(m)
       PROVE  PeersOK'
  <2>1. /\ opening' = opening \ {m} /\ copy' = [copy EXCEPT ![m.to] = Ratcheted(m.wire)]
        /\ UNCHANGED <<skdms, mail>>
    BY <1>11 DEF OpenEnd
  <2>2. m.to \in Peers /\ m.wire \in Keys /\ m.wire.epoch <= Late(m.to)
    BY <1>1, <1>5
  <2>3. Ratcheted(m.wire) \in Keys /\ Ratcheted(m.wire).epoch <= Late(m.to)
    BY <2>2, KeyFacts
  <2>4. copy' \in [Peers -> Keys] /\ \A p \in Peers : copy'[p].epoch <= Late(p)
    BY <1>1, <1>5, <2>1, <2>2, <2>3
  <2> QED BY <1>1, <1>4, <1>5, <2>1, <2>4
<1>12. \/ UNCHANGED peerVars
       \/ \E r \in RunIds : \E reached : Relayed(r, reached) /\ UNCHANGED <<mail, opening, copy>>
       \/ \E s \in SendIds : PostMessage(s)
       \/ \E d \in skdms : InstallDistribution(d)
       \/ \E m \in mail : OpenStart(m)
       \/ \E m \in opening : OpenEnd(m)
  <2>1. CASE \E r \in RunIds : \E reached \in SUBSET Peers : RunDone(r, reached) \/ RunFails(r, reached)
    BY <2>1 DEF RunDone, RunFails, peerVars
  <2>2. CASE \E s \in SendIds : \/ EncryptEnd(s) \/ EncryptFails(s) \/ PostFails(s)
                                \/ \E r \in RunIds : Send(s, r)
    BY <2>2 DEF EncryptEnd, EncryptFails, PostFails, Send
  <2>3. CASE \/ \E p \in Peers : RemoveRecipient(p) \/ AddRecipient(p)
             \/ BumpEpoch \/ (\E e \in 0 .. MaxEpoch : LearnEpoch(e))
             \/ (\E e \in 1 .. MaxEpoch : RotationFails(e))
             \/ (\E r \in RunIds : \/ ToggleE2e(r) \/ RunListed(r) \/ RunBuilt(r) \/ RunMinted(r)
                                   \/ \E e \in 1 .. MaxEpoch : RotationMinted(e, r))
             \/ LoseConnection \/ Reconnect \/ Reload \/ UNCHANGED vars
    BY <2>3 DEF RemoveRecipient, AddRecipient, BumpEpoch, LearnEpoch, RotationFails, ToggleE2e,
       RunListed, RunBuilt, RunMinted, RotationMinted, LoseConnection, Reconnect, Reload, vars
  <2> QED BY <2>1, <2>2, <2>3 DEF Next, DistributionStep, SendStep
<1> QED BY <1>6, <1>7, <1>8, <1>9, <1>10, <1>11, <1>12

---------------------------------------------------------------------------
\* What the code keeps true between any two steps.
THEOREM GroupKeysInvariant == GroupKeysSpec => []GInv
<1>1. GInv /\ [Next]_vars => GInv'
  BY SendsStep, KnownStep, RunsStep, WiresStep, PeersStep DEF GInv
<1> QED BY <1>1, GInvInit, PTL DEF GroupKeysSpec

\* No two messages are encrypted at the same step of the same chain, for any number of
\* messages, rotations, failures and reloads, although an encryption may put an older chain
\* back over a newer one.
THEOREM StepsUsedOnce == GroupKeysSpec => []NoStepUsedTwice
<1>1. GInv => NoStepUsedTwice
  <2> SUFFICES ASSUME GInv, NEW s \in SendIds, NEW t \in SendIds, s # t, sends[s].wire # NoKey,
                      sends[t].wire # NoKey,
                      sends[s].wire.key = sends[t].wire.key, sends[s].wire.it = sends[t].wire.it
               PROVE  FALSE
    BY DEF NoStepUsedTwice
  <2>1. \A x \in {s, t} : Posted(sends[x]) \/ sends[x].stage = "encrypting"
    BY DEF GInv, SendsOK, StepsOK, Posted
  <2>2. sends[s].wire.it \in Nat /\ sends[t].wire.it \in Nat
    BY DEF GInv, SendsOK, Sends, Keys
  <2>3. CASE Posted(sends[s]) /\ Posted(sends[t])
    BY <2>3 DEF GInv, SendsOK, StepsOK
  <2>4. CASE sends[s].stage = "encrypting" /\ Posted(sends[t])
    BY <2>2, <2>4 DEF GInv, SendsOK, StepsOK
  <2>5. CASE Posted(sends[s]) /\ sends[t].stage = "encrypting"
    BY <2>2, <2>5 DEF GInv, SendsOK, StepsOK
  <2>6. CASE sends[s].stage = "encrypting" /\ sends[t].stage = "encrypting"
    BY <2>6 DEF GInv, SendsOK, LineOK
  <2> QED BY <2>1, <2>3, <2>4, <2>5, <2>6
<1> QED BY <1>1, GroupKeysInvariant, PTL

\* Whoever left the group gets no key of a later epoch, for any group, however often people
\* leave and come back, whatever lists the distributions under way were built from.
THEOREM LeaversGetNothingNew == GroupKeysSpec => []LeaverGetsNoNewKey
<1>1. GInv => LeaverGetsNoNewKey
  BY DEF GInv, PeersOK, Late, LeaverGetsNoNewKey
<1> QED BY <1>1, GroupKeysInvariant, PTL
=============================================================================
