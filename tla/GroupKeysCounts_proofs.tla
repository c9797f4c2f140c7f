----------------------- MODULE GroupKeysCounts_proofs -----------------------
(***************************************************************************)
(* Nobody waits for nothing, nothing is encrypted before there is a key,   *)
(* and the keys minted are no more than the first one, one for each        *)
(* membership change announced and one for each disturbance of the device: *)
(* with that, the type of every variable.                                  *)
(***************************************************************************)
EXTENDS GroupKeys_proofs, FiniteSetTheorems

---------------------------------------------------------------------------
(* Who waits for what.                                                     *)

\* A sequence in which nobody occurs twice.
Distinct(seq) == \A i, j \in DOMAIN seq : seq[i] = seq[j] => i = j

\* A run that is not idle is awaited by sends that await no other run; a send that waits
\* for a distribution waits for a run under way.
CallersOK(rs, snds) ==
    /\ \A r \in RunIds : /\ Distinct(rs[r].callers)
                         /\ rs[r].stage = "idle" => rs[r] = Idle
                         /\ \A s \in Range(rs[r].callers) :
                                /\ snds[s].stage = "ensuring"
                                /\ \A q \in RunIds \ {r} : s \notin Range(rs[q].callers)
    /\ \A s \in SendIds : snds[s].stage = "ensuring" =>
                              \E r \in RunIds : s \in Range(rs[r].callers)

\* The line holds those who wait to encrypt, behind one who encrypts.
InLineOK(snds, line) ==
    /\ Distinct(line)
    /\ \A s \in SendIds : s \in Range(line) <=> snds[s].stage \in {"chained", "encrypting"}
    /\ line # <<>> => snds[Head(line)].stage = "encrypting"

\* A send that waits is waited on by somebody: for a distribution, by a run under way; for
\* its turn, by the send at the head of the line, which encrypts.
SomeoneIsAwaited ==
    \A s \in SendIds :
        /\ sends[s].stage = "ensuring" =>
               \E r \in RunIds : runs[r].stage # "idle" /\ s \in Range(runs[r].callers)
        /\ sends[s].stage = "chained" =>
               /\ s \in Range(Tail(chain))
               /\ sends[Head(chain)].stage = "encrypting"

---------------------------------------------------------------------------
(* The first key.                                                          *)

TrackerOK(t, rs) ==
    /\ t \in [done : BOOLEAN, inFlight : RunIds \union {NoRun}]
    /\ t.inFlight # NoRun => rs[t.inFlight].stage # "idle"
    /\ t.done => t.inFlight = NoRun

\* Before there is a key there is one run at most, the one the tracker knows, and neither a
\* rotation nor a message in line.
FirstOK ==
    /\ minted = 0 =>
        /\ own = NoKey /\ ~tracker.done /\ chain = <<>>
        /\ \A e \in 1 .. MaxEpoch : rotations[e] = 0
        /\ \A r \in RunIds : runs[r].stage # "idle" =>
                                 tracker.inFlight = r /\ runs[r].stage # "relaying"
    /\ minted > 0 => own.key > 0 /\ \A r \in RunIds : runs[r].stage # "minting"
    /\ \A s \in SendIds : sends[s].stage \in {"encrypting", "posting", "sent"} =>
                              sends[s].wire.key > 0
    /\ \A r \in RunIds : runs[r].stage = "relaying" => runs[r].skdm.key > 0

---------------------------------------------------------------------------
(* How many keys, and how many steps of one.                               *)

Pending == UNION {{e} \X (1 .. rotations[e]) : e \in 1 .. MaxEpoch}

One(condition) == IF condition THEN 1 ELSE 0

\* Whoever has yet to mint a key, and what stands for it: a notice, or a connection to come.
MintsOK ==
    /\ epoch + unannounced <= MaxEpoch /\ unannounced \in Nat
    /\ upsets \in 0 .. MaxUpsets /\ online \in BOOLEAN /\ encrypted \in BOOLEAN
    /\ ~online => notices = {}
    /\ IsFiniteSet(notices) /\ IsFiniteSet(Pending)
    /\ minted + Cardinality(Pending) + Cardinality(notices) + One(~online) + One(minted = 0)
           <= 1 + epoch + upsets

\* The sends that are past their encryption, or failed.
Ended == {s \in SendIds : sends[s].stage \in {"posting", "sent", "failed"}}

Within(k, n) == k.key <= minted /\ k.it <= n

\* A chain has taken no more steps than there are sends past their encryption.
KeysOK ==
    LET n == Cardinality(Ended) IN
    /\ Within(own, n)
    /\ \A s \in SendIds : Within(sends[s].wire, n) /\ (Posted(sends[s]) => sends[s].wire.it < n)
    /\ \A r \in RunIds : Within(runs[r].skdm, n)
    /\ \A d \in skdms : Within(d.skdm, n)
    /\ \A m \in mail \cup opening : Within(m.wire, n) /\ m.wire.it < n
    /\ \A p \in Peers : Within(copy[p], n)

CInv ==
    /\ CallersOK(runs, sends) /\ InLineOK(sends, chain) /\ TrackerOK(tracker, runs)
    /\ FirstOK /\ MintsOK /\ KeysOK

---------------------------------------------------------------------------
(* Sequences without repetition.                                           *)

LEMMA DistinctConcat ==
    ASSUME NEW S, NEW a \in Seq(S), NEW b \in Seq(S)
    PROVE  /\ a \o b \in Seq(S) /\ Range(a \o b) = Range(a) \cup Range(b)
           /\ Distinct(a) /\ Distinct(b) /\ Range(a) \cap Range(b) = {} => Distinct(a \o b)
<1> DEFINE c == a \o b
<1>1. /\ c \in Seq(S) /\ Len(a) \in Nat /\ Len(b) \in Nat
      /\ DOMAIN a = 1 .. Len(a) /\ DOMAIN b = 1 .. Len(b) /\ DOMAIN c = 1 .. Len(a) + Len(b)
      /\ \A i \in 1 .. Len(a) + Len(b) : c[i] = IF i <= Len(a) THEN a[i] ELSE b[i - Len(a)]
  BY ConcatProperties
<1> HIDE DEF c
<1>3. ASSUME NEW i \in DOMAIN c
      PROVE  \/ i \in DOMAIN a /\ c[i] = a[i]
             \/ i - Len(a) \in DOMAIN b /\ i > Len(a) /\ c[i] = b[i - Len(a)]
  <2>1. CASE i <= Len(a)
    BY <1>1, <2>1
  <2>2. CASE i > Len(a)
    BY <1>1, <2>2
  <2> QED BY <1>1, <2>1, <2>2
<1>4. \A i \in DOMAIN a : i \in DOMAIN c /\ c[i] = a[i]
  BY <1>1
<1>5. \A i \in DOMAIN b : i + Len(a) \in DOMAIN c /\ c[i + Len(a)] = b[i]
  BY <1>1
<1>6. Range(c) = Range(a) \cup Range(b)
  BY <1>3, <1>4, <1>5 DEF Range
<1>7. ASSUME Distinct(a), Distinct(b), Range(a) \cap Range(b) = {},
             NEW i \in DOMAIN c, NEW j \in DOMAIN c, c[i] = c[j]
      PROVE  i = j
  <2>1. CASE i \in DOMAIN a /\ c[i] = a[i] /\ j \in DOMAIN a /\ c[j] = a[j]
    BY <1>7, <2>1 DEF Distinct
  <2>2. CASE /\ i - Len(a) \in DOMAIN b /\ c[i] = b[i - Len(a)]
             /\ j - Len(a) \in DOMAIN b /\ c[j] = b[j - Len(a)]
    <3>1. i - Len(a) = j - Len(a)
      BY <1>7, <2>2 DEF Distinct
    <3> QED BY <1>1, <1>7, <3>1
  <2>3. CASE i \in DOMAIN a /\ c[i] = a[i] /\ j - Len(a) \in DOMAIN b /\ c[j] = b[j - Len(a)]
    BY <1>7, <2>3 DEF Range
  <2>4. CASE j \in DOMAIN a /\ c[j] = a[j] /\ i - Len(a) \in DOMAIN b /\ c[i] = b[i - Len(a)]
    BY <1>7, <2>4 DEF Range
  <2> QED BY <1>3, <2>1, <2>2, <2>3, <2>4
<1>8. Distinct(a) /\ Distinct(b) /\ Range(a) \cap Range(b) = {} => Distinct(c)
  BY <1>7 DEF Distinct
<1> QED BY <1>1, <1>6, <1>8 DEF c

LEMMA DistinctSmall ==
    /\ Distinct(<<>>) /\ Range(<<>>) = {}
    /\ \A s : Distinct(<<s>>) /\ Range(<<s>>) = {s}
  BY DEF Distinct, Range

LEMMA DistinctTail ==
    ASSUME NEW S, NEW a \in Seq(S), a # <<>>
    PROVE  /\ Tail(a) \in Seq(S) /\ Head(a) \in Range(a)
           /\ Range(a) = Range(Tail(a)) \cup {Head(a)}
           /\ Distinct(a) => Distinct(Tail(a)) /\ Head(a) \notin Range(Tail(a))
<1>1. /\ Tail(a) \in Seq(S) /\ Len(Tail(a)) = Len(a) - 1 /\ Head(a) = a[1] /\ Len(a) \in Nat
      /\ Len(a) # 0 /\ \A i \in 1 .. Len(Tail(a)) : Tail(a)[i] = a[i + 1]
  BY HeadTailProperties, EmptySeq
<1> DEFINE t == Tail(a)
<1> HIDE DEF t
<1>2. DOMAIN a = 1 .. Len(a) /\ DOMAIN t = 1 .. Len(a) - 1
  BY <1>1 DEF t
<1>3. /\ \A i \in DOMAIN t : i + 1 \in DOMAIN a /\ i + 1 # 1 /\ t[i] = a[i + 1]
      /\ \A i \in DOMAIN a : i = 1 \/ (i - 1 \in DOMAIN t /\ t[i - 1] = a[i])
      /\ 1 \in DOMAIN a
  BY <1>1, <1>2 DEF t
<1>4. Head(a) \in Range(a) /\ Range(a) = Range(t) \cup {Head(a)}
  BY <1>1, <1>3 DEF Range
<1>5. Distinct(a) => Distinct(t)
  <2> SUFFICES ASSUME Distinct(a), NEW i \in DOMAIN t, NEW j \in DOMAIN t, t[i] = t[j]
               PROVE  i = j
    BY DEF Distinct
  <2>1. i + 1 = j + 1
    BY <1>3 DEF Distinct
  <2> QED BY <1>1, <1>2, <2>1
<1>6. Distinct(a) => Head(a) \notin Range(t)
  BY <1>1, <1>3 DEF Distinct, Range
<1> QED BY <1>1, <1>4, <1>5, <1>6 DEF t

---------------------------------------------------------------------------
(* The line.                                                               *)

\* The next in line has its turn when the one who encrypted leaves.
LEMMA LeaveLine ==
    ASSUME SendsOK, InLineOK(sends, chain), NEW s \in SendIds, sends[s].stage = "encrypting",
           NEW mid \in [SendIds -> Sends], NEW key \in Keys,
           \A t \in SendIds \ {s} : mid[t] = sends[t],
           mid[s].stage \notin {"chained", "encrypting"},
           chain' = Tail(chain), sends' = Turn(mid, Tail(chain), key)
    PROVE  /\ InLineOK(sends', chain') /\ sends'[s] = mid[s]
           /\ \A t \in SendIds \ {s} :
                \/ sends'[t] = sends[t]
                \/ /\ sends[t].stage = "chained" /\ sends'[t].stage = "encrypting"
                   /\ sends'[t].wire = key
<1> DEFINE rest == Tail(chain)
<1>1. /\ chain \in Seq(SendIds) /\ chain # <<>> /\ Head(chain) = s
      /\ \A t \in SendIds \ {s} : sends[t].stage # "encrypting"
  BY DEF SendsOK, LineOK
<1>2. /\ rest \in Seq(SendIds) /\ Range(chain) = Range(rest) \cup {s} /\ Distinct(rest)
      /\ s \notin Range(rest)
  BY <1>1, DistinctTail DEF InLineOK
<1>3. rest # <<>> => Head(rest) \in Range(rest) /\ Head(rest) \in SendIds
  BY <1>2, DistinctTail, HeadTailProperties
<1>9. sends' = Turn(mid, rest, key)
  OBVIOUS
<1> HIDE DEF rest
<1>4. /\ sends' \in [SendIds -> Sends]
      /\ \A t \in SendIds :
            \/ sends'[t] = mid[t] /\ (rest = <<>> \/ Head(rest) # t \/ mid[t].stage # "chained")
            \/ /\ rest # <<>> /\ Head(rest) = t /\ mid[t].stage = "chained"
               /\ sends'[t].stage = "encrypting" /\ sends'[t].wire = key
  BY <1>9, TurnShape
<1>5. \A t \in SendIds \ {s} : t \in Range(rest) <=> sends[t].stage = "chained"
  BY <1>1, <1>2 DEF InLineOK
<1>6. \A t \in SendIds : t \in Range(rest) <=> sends'[t].stage \in {"chained", "encrypting"}
  <2> SUFFICES ASSUME NEW t \in SendIds
               PROVE  t \in Range(rest) <=> sends'[t].stage \in {"chained", "encrypting"}
    OBVIOUS
  <2>1. CASE t = s
    BY <1>2, <1>4, <2>1
  <2>2. CASE t # s
    BY <1>1, <1>4, <1>5, <2>2
  <2> QED BY <2>1, <2>2
<1>7. rest # <<>> => sends'[Head(rest)].stage = "encrypting"
  <2> SUFFICES ASSUME rest # <<>> PROVE sends'[Head(rest)].stage = "encrypting"
    OBVIOUS
  <2>1. Head(rest) \in SendIds \ {s} /\ sends[Head(rest)].stage = "chained"
    BY <1>2, <1>3, <1>5
  <2> QED BY <1>4, <2>1
<1>8. InLineOK(sends', chain')
  BY <1>2, <1>6, <1>7 DEF InLineOK, rest
<1> QED BY <1>4, <1>8

\* Those who join the line wait behind it, or, if nobody was in line, the first encrypts.
LEMMA JoinLine ==
    ASSUME SendsOK, InLineOK(sends, chain), NEW more \in Seq(SendIds), Distinct(more),
           \A s \in Range(more) : sends[s].stage \in {"unsent", "ensuring"},
           Chained(more)
    PROVE  /\ InLineOK(sends', chain')
           /\ \A s \in SendIds \ Range(more) : sends'[s] = sends[s]
           /\ \A s \in Range(more) :
                \/ sends'[s].stage = "chained" /\ sends'[s].wire = NoKey
                \/ sends'[s].stage = "encrypting" /\ sends'[s].wire = own
<1> DEFINE w == [Unsent EXCEPT !.stage = "chained"]
           joined == [s \in SendIds |-> IF s \in Range(more) THEN w ELSE sends[s]]
           line == chain \o more
<1>1. chain' = line /\ sends' = Turn(joined, line, own)
  BY DEF Chained
<1>2. w \in Sends /\ w.wire = NoKey /\ w.stage = "chained"
  BY KeyFacts DEF Sends, Unsent
<1> HIDE DEF w
<1>3. /\ joined \in [SendIds -> Sends] /\ \A s \in Range(more) : joined[s] = w
      /\ \A s \in SendIds \ Range(more) : joined[s] = sends[s]
  <2>1. Range(more) \subseteq SendIds
    BY DEF Range
  <2> QED BY <1>2, <2>1 DEF SendsOK
<1>4. chain \in Seq(SendIds) /\ Range(chain) \subseteq SendIds /\ Range(more) \subseteq SendIds
  BY DEF SendsOK, Range
<1>5. Range(chain) \cap Range(more) = {}
  BY <1>4 DEF InLineOK
<1>6. line \in Seq(SendIds) /\ Range(line) = Range(chain) \cup Range(more) /\ Distinct(line)
  BY <1>4, <1>5, DistinctConcat DEF InLineOK
<1>7. /\ chain # <<>> => line # <<>> /\ Head(line) = Head(chain) /\ Head(chain) \in Range(chain)
      /\ chain = <<>> => line = more
      /\ line # <<>> => Head(line) \in Range(line)
  BY <1>4, <1>6, DistinctTail
<1> HIDE DEF joined, line
<1>8. own \in Keys
  BY DEF SendsOK
<1>9. /\ sends' \in [SendIds -> Sends]
      /\ \A t \in SendIds :
            \/ sends'[t] = joined[t] /\ (line = <<>> \/ Head(line) # t \/ joined[t].stage # "chained")
            \/ /\ line # <<>> /\ Head(line) = t /\ joined[t].stage = "chained"
               /\ sends'[t].stage = "encrypting" /\ sends'[t].wire = own
  BY <1>1, <1>3, <1>8, TurnShape
<1>10. \A s \in Range(more) : \/ sends'[s].stage = "chained" /\ sends'[s].wire = NoKey
                              \/ sends'[s].stage = "encrypting" /\ sends'[s].wire = own
  BY <1>2, <1>3, <1>4, <1>9
<1>11. \A s \in SendIds \ Range(more) : sends'[s] = sends[s]
  <2> SUFFICES ASSUME NEW s \in SendIds \ Range(more) PROVE sends'[s] = sends[s]
    OBVIOUS
  <2>1. line # <<>> /\ Head(line) = s => sends[s].stage = "encrypting"
    BY <1>7 DEF InLineOK
  <2> QED BY <1>3, <1>9, <2>1
<1>12. line # <<>> => sends'[Head(line)].stage = "encrypting"
  <2>1. CASE chain # <<>>
    <3>1. Head(chain) \in SendIds \ Range(more) /\ sends[Head(chain)].stage = "encrypting"
      BY <1>4, <1>5, <1>7, <2>1 DEF InLineOK
    <3> QED BY <1>7, <1>11, <2>1, <3>1
  <2>2. CASE chain = <<>> /\ line # <<>>
    <3>1. Head(line) \in Range(more)
      BY <1>7, <2>2
    <3>2. Head(line) \in SendIds /\ joined[Head(line)].stage = "chained"
      BY <1>2, <1>3, <1>4, <3>1
    <3> QED BY <1>9, <2>2, <3>2
  <2> QED BY <2>1, <2>2
<1>13. \A s \in SendIds : s \in Range(line) <=> sends'[s].stage \in {"chained", "encrypting"}
  BY <1>6, <1>10, <1>11 DEF InLineOK
<1>14. InLineOK(sends', chain')
  BY <1>1, <1>6, <1>12, <1>13 DEF InLineOK
<1> QED BY <1>10, <1>11, <1>14

---------------------------------------------------------------------------
(* The runs and those who await them.                                      *)

LEMMA IdleFacts ==
    /\ Idle \in Runs /\ Idle.stage = "idle" /\ Idle.callers = <<>> /\ Idle.skdm = NoKey
    /\ Untracked \in [done : BOOLEAN, inFlight : RunIds \union {NoRun}]
    /\ ~Untracked.done /\ Untracked.inFlight = NoRun /\ NoRun \notin RunIds
<1>1. NoRun \notin RunIds
  BY DEF NoRun, RunIds
<1>2. Idle \in Runs /\ Idle.stage = "idle" /\ Idle.callers = <<>> /\ Idle.skdm = NoKey
  BY KeyFacts, EmptySeq DEF Idle, Runs
<1> QED BY <1>1, <1>2 DEF Untracked

\* ensure() leaves the runs alone, or adds the callers to the run the tracker knows then.
LEMMA EnsureShape ==
    ASSUME runs \in [RunIds -> Runs], CallersOK(runs, sends), NEW t, TrackerOK(t, runs),
           NEW r \in RunIds, NEW callers \in Seq(SendIds), Distinct(callers),
           \A s \in Range(callers) : sends[s].stage # "ensuring",
           Ensure(t, r, callers)
    PROVE  /\ TrackerOK(tracker', runs') /\ tracker'.done = t.done
           /\ \/ t.done /\ tracker' = t /\ UNCHANGED runs
              \/ /\ ~t.done /\ tracker'.inFlight = r /\ t.inFlight \in {NoRun, r}
                 /\ \A q \in RunIds \ {r} : runs'[q] = runs[q]
                 /\ Distinct(runs'[r].callers)
                 /\ Range(runs'[r].callers) = Range(runs[r].callers) \cup Range(callers)
                 /\ runs'[r].skdm = runs[r].skdm
                 /\ \/ runs'[r].stage = runs[r].stage /\ runs[r].stage # "idle"
                    \/ runs[r] = Idle /\ t.inFlight = NoRun /\ runs'[r].stage = "listing"
<1>1. CASE t.done /\ tracker' = t /\ UNCHANGED runs
  BY <1>1
<1>2. CASE ~t.done /\ t.inFlight = r /\ tracker' = t /\ runs' = [runs EXCEPT ![r].callers = @ \o callers]
  <2> DEFINE c == runs[r].callers \o callers
             new == [runs[r] EXCEPT !.callers = c]
  <2>1. runs[r] \in Runs /\ runs[r].callers \in Seq(SendIds) /\ runs' = [runs EXCEPT ![r] = new]
    BY <1>2 DEF Runs
  <2>2. /\ Distinct(c) /\ Range(c) = Range(runs[r].callers) \cup Range(callers)
    <3>1. Range(runs[r].callers) \cap Range(callers) = {} /\ Distinct(runs[r].callers)
      BY DEF CallersOK
    <3> QED BY <2>1, <3>1, DistinctConcat
  <2> HIDE DEF c
  <2>3. new.callers = c /\ new.stage = runs[r].stage /\ new.skdm = runs[r].skdm
    BY <2>1 DEF Runs
  <2>4. runs[r].stage # "idle"
    BY <1>2, IdleFacts DEF TrackerOK
  <2> HIDE DEF new
  <2>5. runs'[r] = new /\ \A q \in RunIds \ {r} : runs'[q] = runs[q]
    BY <2>1
  <2>6. TrackerOK(tracker', runs')
    BY <1>2, <2>3, <2>4, <2>5 DEF TrackerOK
  <2> QED BY <1>2, <2>2, <2>3, <2>4, <2>5, <2>6
<1>3. CASE /\ ~t.done /\ t.inFlight = NoRun /\ runs[r] = Idle
           /\ tracker' = [t EXCEPT !.inFlight = r]
           /\ runs' = [runs EXCEPT ![r] = [Idle EXCEPT !.stage = "listing", !.callers = callers]]
  <2> DEFINE new == [Idle EXCEPT !.stage = "listing", !.callers = callers]
  <2>1. new.callers = callers /\ new.stage = "listing" /\ new.skdm = runs[r].skdm
    BY <1>3 DEF Idle
  <2>2. Range(runs[r].callers) = {}
    BY <1>3, IdleFacts, DistinctSmall
  <2> HIDE DEF new
  <2>3. runs'[r] = new /\ \A q \in RunIds \ {r} : runs'[q] = runs[q]
    BY <1>3 DEF new
  <2>4. /\ tracker' \in [done : BOOLEAN, inFlight : RunIds \union {NoRun}]
        /\ tracker'.inFlight = r /\ tracker'.done = t.done
    BY <1>3 DEF TrackerOK
  <2>5. TrackerOK(tracker', runs')
    BY <1>3, <2>1, <2>3, <2>4 DEF TrackerOK
  <2> QED BY <1>3, <2>1, <2>2, <2>3, <2>4, <2>5
<1> QED BY <1>1, <1>2, <1>3 DEF Ensure

\* ... so whoever calls it while no distribution is remembered is awaited by that run.
LEMMA CallersJoin ==
    ASSUME runs \in [RunIds -> Runs], sends \in [SendIds -> Sends], CallersOK(runs, sends),
           NEW t, TrackerOK(t, runs),
           NEW r \in RunIds, NEW callers \in Seq(SendIds), Distinct(callers),
           \A s \in Range(callers) : sends[s].stage # "ensuring",
           Ensure(t, r, callers),
           t.done => Range(callers) = {},
           \A s \in SendIds : sends'[s].stage = "ensuring" <=>
                                  sends[s].stage = "ensuring" \/ s \in Range(callers)
    PROVE  CallersOK(runs', sends') /\ TrackerOK(tracker', runs')
<1>0. Range(callers) \subseteq SendIds
  BY DEF Range
<1>1. CASE t.done
  <2>1. UNCHANGED runs /\ \A s \in SendIds : sends'[s].stage = "ensuring" <=> sends[s].stage = "ensuring"
    BY <1>1, EnsureShape
  <2>2. \A q \in RunIds : Range(runs[q].callers) \subseteq SendIds
    BY DEF Runs, Range
  <2>3. CallersOK(runs', sends')
    BY <2>1, <2>2 DEF CallersOK
  <2> QED BY <2>3, EnsureShape
<1>2. CASE ~t.done
  <2>1. /\ \A q \in RunIds \ {r} : runs'[q] = runs[q]
        /\ Distinct(runs'[r].callers) /\ runs'[r].stage # "idle"
        /\ Range(runs'[r].callers) = Range(runs[r].callers) \cup Range(callers)
    BY <1>2, EnsureShape
  <2>2. \A q \in RunIds : Range(runs[q].callers) \subseteq SendIds
    BY DEF Runs, Range
  <2>3. \A q \in RunIds : /\ Distinct(runs'[q].callers)
                          /\ runs'[q].stage = "idle" => runs'[q] = Idle
    BY <2>1 DEF CallersOK
  <2>4. \A q \in RunIds : \A s \in Range(runs'[q].callers) : sends'[s].stage = "ensuring"
    BY <1>0, <2>1, <2>2 DEF CallersOK
  <2>5. \A q \in RunIds : \A s \in Range(callers) : s \notin Range(runs[q].callers)
    BY DEF CallersOK
  <2>6. \A q \in RunIds : \A s \in Range(runs'[q].callers) :
            \A x \in RunIds \ {q} : s \notin Range(runs'[x].callers)
    <3> SUFFICES ASSUME NEW q \in RunIds, NEW s \in Range(runs'[q].callers),
                        NEW x \in RunIds \ {q}
                 PROVE  s \notin Range(runs'[x].callers)
      OBVIOUS
    <3>1. \/ s \in Range(runs[q].callers)
          \/ q = r /\ s \in Range(callers)
      BY <2>1
    <3>2. s \notin Range(runs[x].callers)
      BY <2>5, <3>1 DEF CallersOK
    <3>3. x = r => s \notin Range(callers)
      BY <2>5, <3>1
    <3> QED BY <2>1, <3>2, <3>3
  <2>7. \A s \in SendIds : sends'[s].stage = "ensuring" => \E q \in RunIds : s \in Range(runs'[q].callers)
    BY <2>1 DEF CallersOK
  <2>8. CallersOK(runs', sends')
    BY <2>3, <2>4, <2>6, <2>7 DEF CallersOK
  <2> QED BY <2>8, EnsureShape
<1> QED BY <1>1, <1>2

\* Steps that change neither who waits for a distribution nor whom a run lets wait.
LEMMA CallersKept ==
    ASSUME runs \in [RunIds -> Runs], CallersOK(runs, sends),
           \A q \in RunIds : /\ runs'[q].callers = runs[q].callers
                             /\ runs'[q].stage = "idle" => runs'[q] = runs[q],
           \A s \in SendIds : sends'[s].stage = "ensuring" <=> sends[s].stage = "ensuring"
    PROVE  CallersOK(runs', sends')
<1>1. \A q \in RunIds : Range(runs[q].callers) \subseteq SendIds
  BY DEF Runs, Range
<1>2. \A q \in RunIds : Range(runs'[q].callers) = Range(runs[q].callers)
  OBVIOUS
<1> QED BY <1>1, <1>2 DEF CallersOK

\* A run that ends lets go of those who awaited it.
LEMMA CallersLeave ==
    ASSUME runs \in [RunIds -> Runs], CallersOK(runs, sends), TrackerOK(tracker, runs),
           NEW r \in RunIds, runs' = [runs EXCEPT ![r] = Idle],
           NEW after \in [done : BOOLEAN, inFlight : {NoRun}],
           tracker' = IF tracker.inFlight = r THEN after ELSE tracker,
           \A s \in SendIds : sends'[s].stage = "ensuring" <=>
                                  sends[s].stage = "ensuring" /\ s \notin Range(runs[r].callers)
    PROVE  CallersOK(runs', sends') /\ TrackerOK(tracker', runs')
<1>1. \A q \in RunIds : Range(runs[q].callers) \subseteq SendIds
  BY DEF Runs, Range
<1>2. runs'[r] = Idle /\ \A q \in RunIds \ {r} : runs'[q] = runs[q]
  OBVIOUS
<1>3. Distinct(Idle.callers) /\ Range(Idle.callers) = {}
  BY IdleFacts, DistinctSmall
<1>4. \A q \in RunIds : /\ Distinct(runs'[q].callers)
                        /\ runs'[q].stage = "idle" => runs'[q] = Idle
  BY <1>2, <1>3 DEF CallersOK
<1>5. \A q \in RunIds : \A s \in Range(runs'[q].callers) :
          q # r /\ s \in Range(runs[q].callers) /\ s \in SendIds
  BY <1>1, <1>2, <1>3
<1>6. \A q \in RunIds : \A s \in Range(runs'[q].callers) :
          /\ sends'[s].stage = "ensuring"
          /\ \A x \in RunIds \ {q} : s \notin Range(runs'[x].callers)
  BY <1>2, <1>3, <1>5 DEF CallersOK
<1>7. \A s \in SendIds : sends'[s].stage = "ensuring" => \E q \in RunIds : s \in Range(runs'[q].callers)
  BY <1>2 DEF CallersOK
<1>8. CallersOK(runs', sends')
  BY <1>4, <1>6, <1>7 DEF CallersOK
<1>9. TrackerOK(tracker', runs')
  <2>1. CASE tracker.inFlight = r
    BY <2>1 DEF TrackerOK
  <2>2. CASE tracker.inFlight # r
    BY <1>2, <2>2, IdleFacts DEF TrackerOK
  <2> QED BY <2>1, <2>2
<1> QED BY <1>8, <1>9

---------------------------------------------------------------------------
(* What a step does to the sends, to the line and to the runs.             *)

\* How a send may move in a step.
Moves(s) ==
    \/ sends'[s] = sends[s]
    \/ sends[s].stage = "unsent" /\ sends'[s].stage = "ensuring" /\ sends'[s].wire = NoKey
    \/ /\ sends[s].stage \in {"unsent", "ensuring"}
       /\ sends'[s].stage = "chained" /\ sends'[s].wire = NoKey
    \/ /\ sends[s].stage \in {"unsent", "ensuring", "chained"}
       /\ sends'[s].stage = "encrypting" /\ sends'[s].wire = own' /\ chain' # <<>>
    \/ /\ sends[s].stage = "encrypting"
       /\ sends'[s].stage = "posting" /\ sends'[s].wire = sends[s].wire
    \/ /\ sends[s].stage = "posting"
       /\ sends'[s].stage = "sent" /\ sends'[s].wire = sends[s].wire
    \/ /\ sends[s].stage \notin {"unsent", "sent"}
       /\ sends'[s].stage = "failed" /\ sends'[s].wire = NoKey

WaitsOK == CallersOK(runs, sends) /\ InLineOK(sends, chain) /\ TrackerOK(tracker, runs)

WaitsStep ==
    /\ CallersOK(runs', sends') /\ InLineOK(sends', chain') /\ TrackerOK(tracker', runs')
    /\ \A s \in SendIds : Moves(s)

\* Who encrypts is at the head of the line.
LEMMA LineNotEmpty ==
    ASSUME SendsOK', NEW s \in SendIds, sends'[s].stage = "encrypting"
    PROVE  chain' # <<>>
  BY DEF SendsOK, LineOK

LEMMA EndWaits ==
    ASSUME GInv, WaitsOK, SendsOK', NEW s \in SendIds,
           EncryptEnd(s) \/ EncryptFails(s) \/ PostMessage(s) \/ PostFails(s)
    PROVE  WaitsStep
<1> USE DEF GInv, WaitsOK
<1>1. /\ sends \in [SendIds -> Sends] /\ sends[s] \in Sends /\ own \in Keys
      /\ runs \in [RunIds -> Runs]
  BY DEF SendsOK, RunsOK
<1>2. UNCHANGED <<runs, tracker>>
  BY DEF EncryptEnd, EncryptFails, PostMessage, PostFails
<1>3. ASSUME InLineOK(sends', chain'), \A t \in SendIds : Moves(t),
             \A t \in SendIds : sends'[t].stage = "ensuring" <=> sends[t].stage = "ensuring"
      PROVE  WaitsStep
  BY <1>1, <1>2, <1>3, CallersKept DEF WaitsStep
<1>4. CASE EncryptEnd(s)
  <2> DEFINE mid == [sends EXCEPT ![s].stage = "posting"]
             new == [sends[s] EXCEPT !.stage = "posting"]
  <2>1. /\ sends[s].stage = "encrypting" /\ own' = Ratcheted(sends[s].wire) /\ chain' = Tail(chain)
        /\ sends' = Turn(mid, Tail(chain), own')
    BY <1>4 DEF EncryptEnd
  <2>2. new \in Sends /\ new.stage = "posting" /\ new.wire = sends[s].wire
    BY <1>1 DEF Sends
  <2>3. mid = [sends EXCEPT ![s] = new]
    OBVIOUS
  <2> HIDE DEF mid, new
  <2>4. mid \in [SendIds -> Sends] /\ mid[s] = new /\ \A t \in SendIds \ {s} : mid[t] = sends[t]
    BY <1>1, <2>2, <2>3
  <2>5. own' \in Keys
    BY DEF SendsOK
  <2>6. /\ InLineOK(sends', chain') /\ sends'[s] = new
        /\ \A t \in SendIds \ {s} :
                \/ sends'[t] = sends[t]
                \/ /\ sends[t].stage = "chained" /\ sends'[t].stage = "encrypting"
                   /\ sends'[t].wire = own'
    BY <2>1, <2>2, <2>4, <2>5, LeaveLine
  <2>7. \A t \in SendIds : Moves(t)
    BY <2>1, <2>2, <2>6, LineNotEmpty DEF Moves
  <2>8. \A t \in SendIds : sends'[t].stage = "ensuring" <=> sends[t].stage = "ensuring"
    BY <2>1, <2>2, <2>6
  <2> QED BY <1>3, <2>6, <2>7, <2>8
<1>5. CASE EncryptFails(s)
  <2> DEFINE mid == Failed({s})
  <2>1. /\ sends[s].stage = "encrypting" /\ own' = own /\ chain' = Tail(chain)
        /\ sends' = Turn(mid, Tail(chain), own)
    BY <1>5 DEF EncryptFails, keyVars
  <2>2. /\ mid \in [SendIds -> Sends] /\ \A t \in SendIds \ {s} : mid[t] = sends[t]
        /\ mid[s].stage = "failed" /\ mid[s].wire = NoKey
    BY FailedShape
  <2> HIDE DEF mid
  <2>3. /\ InLineOK(sends', chain') /\ sends'[s] = mid[s]
        /\ \A t \in SendIds \ {s} :
                \/ sends'[t] = sends[t]
                \/ /\ sends[t].stage = "chained" /\ sends'[t].stage = "encrypting"
                   /\ sends'[t].wire = own
    BY <1>1, <2>1, <2>2, LeaveLine
  <2>4. \A t \in SendIds : Moves(t)
    BY <2>1, <2>2, <2>3, LineNotEmpty DEF Moves
  <2>5. \A t \in SendIds : sends'[t].stage = "ensuring" <=> sends[t].stage = "ensuring"
    BY <2>1, <2>2, <2>3
  <2> QED BY <1>3, <2>3, <2>4, <2>5
<1>6. CASE PostMessage(s) \/ PostFails(s)
  <2>1. /\ sends[s].stage = "posting" /\ chain' = chain
        /\ sends' = [sends EXCEPT ![s].stage = "sent"] \/ sends' = Failed({s})
    BY <1>6 DEF PostMessage, PostFails
  <2>2. /\ \A t \in SendIds \ {s} : sends'[t] = sends[t]
        /\ \/ sends'[s].stage = "sent" /\ sends'[s].wire = sends[s].wire
           \/ sends'[s].stage = "failed" /\ sends'[s].wire = NoKey
    <3>1. CASE sends' = [sends EXCEPT ![s].stage = "sent"]
      BY <1>1, <3>1 DEF Sends
    <3>2. CASE sends' = Failed({s})
      BY <3>2, FailedShape
    <3> QED BY <2>1, <3>1, <3>2
  <2>3. \A t \in SendIds : Moves(t)
    BY <2>1, <2>2 DEF Moves
  <2>4. chain # <<>> => Head(chain) \in SendIds
    BY HeadTailProperties DEF SendsOK
  <2>5. InLineOK(sends', chain')
    BY <2>1, <2>2, <2>4 DEF InLineOK
  <2> QED BY <1>3, <2>1, <2>2, <2>3, <2>5
<1> QED BY <1>4, <1>5, <1>6

LEMMA RunWaits ==
    ASSUME GInv, WaitsOK, SendsOK', NEW r \in RunIds, NEW reached,
           RunDone(r, reached) \/ RunFails(r, reached)
    PROVE  WaitsStep
<1> USE DEF GInv, WaitsOK
<1> DEFINE c == runs[r].callers
<1>1. /\ sends \in [SendIds -> Sends] /\ runs \in [RunIds -> Runs] /\ c \in Seq(SendIds)
      /\ Range(c) \subseteq SendIds /\ chain \in Seq(SendIds)
  BY DEF SendsOK, RunsOK, Runs, Range
<1>2. Distinct(c) /\ \A s \in Range(c) : sends[s].stage = "ensuring"
  BY DEF CallersOK
<1>3. /\ runs' = [runs EXCEPT ![r] = Idle] /\ own' = own
      /\ \E after \in [done : BOOLEAN, inFlight : {NoRun}] :
            tracker' = IF tracker.inFlight = r THEN after ELSE tracker
  BY DEF RunDone, RunFails, keyVars, Untracked
<1>4. ASSUME InLineOK(sends', chain'), \A s \in SendIds : Moves(s),
             \A s \in SendIds \ Range(c) : sends'[s] = sends[s],
             \A s \in Range(c) : sends'[s].stage # "ensuring"
      PROVE  WaitsStep
  <2>1. \A s \in SendIds : sends'[s].stage = "ensuring" <=>
                              sends[s].stage = "ensuring" /\ s \notin Range(c)
    BY <1>4
  <2> QED BY <1>1, <1>3, <1>4, <2>1, CallersLeave DEF WaitsStep
<1>5. CASE RunDone(r, reached)
  <2>1. Chained(c)
    BY <1>5 DEF RunDone
  <2> HIDE DEF c
  <2>2. /\ InLineOK(sends', chain')
        /\ \A s \in SendIds \ Range(c) : sends'[s] = sends[s]
        /\ \A s \in Range(c) :
                \/ sends'[s].stage = "chained" /\ sends'[s].wire = NoKey
                \/ sends'[s].stage = "encrypting" /\ sends'[s].wire = own
    BY <1>1, <1>2, <2>1, JoinLine
  <2>3. \A s \in SendIds : Moves(s)
    BY <1>1, <1>2, <1>3, <2>2, LineNotEmpty DEF Moves
  <2> QED BY <1>4, <2>2, <2>3
<1>6. CASE RunFails(r, reached)
  <2>1. sends' = Failed(Range(c)) /\ chain' = chain
    BY <1>6 DEF RunFails
  <2> HIDE DEF c
  <2>2. /\ \A s \in SendIds \ Range(c) : sends'[s] = sends[s]
        /\ \A s \in Range(c) : sends'[s].stage = "failed" /\ sends'[s].wire = NoKey
    BY <1>1, <2>1, FailedShape
  <2>3. \A s \in SendIds : Moves(s)
    BY <1>1, <1>2, <2>2 DEF Moves
  <2>4. chain # <<>> => Head(chain) \in SendIds
    BY <1>1, HeadTailProperties
  <2>5. InLineOK(sends', chain')
    BY <1>1, <1>2, <2>1, <2>2, <2>4 DEF InLineOK
  <2> QED BY <1>4, <2>2, <2>3, <2>5
<1> QED BY <1>5, <1>6

LEMMA SendWaits ==
    ASSUME GInv, WaitsOK, SendsOK', NEW s \in SendIds, NEW r \in RunIds, Send(s, r)
    PROVE  WaitsStep
<1> USE DEF GInv, WaitsOK
<1>1. sends \in [SendIds -> Sends] /\ runs \in [RunIds -> Runs] /\ chain \in Seq(SendIds)
  BY DEF SendsOK, RunsOK
<1>2. /\ sends[s].stage = "unsent" /\ sends[s].wire = NoKey /\ own' = own
      /\ Ensure(tracker, r, <<s>>)
  BY KeyFacts DEF Send, keyVars
<1>3. <<s>> \in Seq(SendIds) /\ Distinct(<<s>>) /\ Range(<<s>>) = {s}
  BY DistinctSmall
<1>4. CASE tracker.done
  <2>1. Chained(<<s>>)
    BY <1>4 DEF Send
  <2>2. /\ InLineOK(sends', chain')
        /\ \A t \in SendIds \ {s} : sends'[t] = sends[t]
        /\ \/ sends'[s].stage = "chained" /\ sends'[s].wire = NoKey
           \/ sends'[s].stage = "encrypting" /\ sends'[s].wire = own
    BY <1>2, <1>3, <2>1, JoinLine
  <2>3. \A t \in SendIds : Moves(t)
    BY <1>2, <2>2, LineNotEmpty DEF Moves
  <2>4. UNCHANGED <<runs, tracker>>
    BY <1>2, <1>4 DEF Ensure
  <2>5. \A t \in SendIds : sends'[t].stage = "ensuring" <=> sends[t].stage = "ensuring"
    BY <1>2, <2>2
  <2>6. CallersOK(runs', sends')
    BY <1>1, <2>4, <2>5, CallersKept
  <2> QED BY <2>2, <2>3, <2>4, <2>6 DEF WaitsStep
<1>5. CASE ~tracker.done
  <2>1. sends' = [sends EXCEPT ![s].stage = "ensuring"] /\ chain' = chain
    BY <1>5 DEF Send
  <2>2. /\ \A t \in SendIds \ {s} : sends'[t] = sends[t]
        /\ sends'[s].stage = "ensuring" /\ sends'[s].wire = NoKey
    BY <1>1, <1>2, <2>1 DEF Sends
  <2>3. \A t \in SendIds : Moves(t)
    BY <1>2, <2>2 DEF Moves
  <2>4. chain # <<>> => Head(chain) \in SendIds
    BY <1>1, HeadTailProperties
  <2>5. InLineOK(sends', chain')
    BY <1>2, <2>1, <2>2, <2>4 DEF InLineOK
  <2>6. \A t \in SendIds : sends'[t].stage = "ensuring" <=> sends[t].stage = "ensuring" \/ t \in {s}
    BY <1>2, <2>2
  <2>7. CallersOK(runs', sends') /\ TrackerOK(tracker', runs')
    BY <1>1, <1>2, <1>3, <1>5, <2>6, CallersJoin
  <2> QED BY <2>3, <2>5, <2>7 DEF WaitsStep
<1> QED BY <1>4, <1>5

\* Steps of the device that send nothing, but may start a run or let one go on.
LEMMA StartWaits ==
    ASSUME GInv, WaitsOK, UNCHANGED sendVars, NEW t, TrackerOK(t, runs), NEW r \in RunIds,
           Ensure(t, r, <<>>)
    PROVE  WaitsStep
<1> USE DEF GInv, WaitsOK, sendVars
<1>1. sends \in [SendIds -> Sends] /\ runs \in [RunIds -> Runs]
  BY DEF SendsOK, RunsOK
<1>2. <<>> \in Seq(SendIds) /\ Distinct(<<>>) /\ Range(<<>>) = {}
  BY EmptySeq, DistinctSmall
<1>3. CallersOK(runs', sends') /\ TrackerOK(tracker', runs')
  BY <1>1, <1>2, CallersJoin
<1> QED BY <1>3 DEF WaitsStep, Moves

LEMMA StageWaits ==
    ASSUME GInv, WaitsOK, UNCHANGED <<sendVars, tracker>>, NEW r \in RunIds,
           RunListed(r) \/ RunBuilt(r) \/ RunMinted(r)
    PROVE  WaitsStep
<1> USE DEF GInv, WaitsOK, sendVars
<1>1. runs \in [RunIds -> Runs] /\ runs[r].stage # "idle"
  BY DEF RunsOK, RunListed, RunBuilt, RunMinted
<1>2. /\ runs'[r].callers = runs[r].callers /\ runs'[r].stage # "idle"
      /\ \A q \in RunIds \ {r} : runs'[q] = runs[q]
  <2>1. CASE RunListed(r)
    BY <1>1, <2>1 DEF RunListed, Runs
  <2>2. CASE RunBuilt(r)
    BY <1>1, <2>2 DEF RunBuilt, Runs
  <2>3. CASE RunMinted(r)
    BY <1>1, <2>3 DEF RunMinted, Runs
  <2> QED BY <2>1, <2>2, <2>3
<1>3. CallersOK(runs', sends')
  BY <1>1, <1>2, CallersKept
<1>4. TrackerOK(tracker', runs')
  BY <1>2 DEF TrackerOK
<1> QED BY <1>3, <1>4 DEF WaitsStep, Moves

LEMMA ReloadWaits ==
    ASSUME GInv, WaitsOK, Reload
    PROVE  WaitsStep
<1> USE DEF GInv, WaitsOK
<1> DEFINE ids == {s \in SendIds : sends[s].stage \notin {"unsent", "sent"}}
<1>1. /\ sends' = Failed(ids) /\ chain' = <<>> /\ tracker' = Untracked
      /\ runs' = [r \in RunIds |-> Idle]
  BY DEF Reload
<1>2. \A s \in SendIds : \/ sends'[s] = sends[s] /\ s \notin ids
                         \/ sends'[s].stage = "failed" /\ sends'[s].wire = NoKey /\ s \in ids
  BY <1>1, FailedShape
<1>3. \A s \in SendIds : Moves(s) /\ sends'[s].stage \in {"unsent", "sent", "failed"}
  BY <1>2 DEF Moves
<1>4. InLineOK(sends', chain')
  BY <1>1, <1>3, DistinctSmall DEF InLineOK
<1>5. CallersOK(runs', sends') /\ TrackerOK(tracker', runs')
  BY <1>1, <1>3, DistinctSmall, IdleFacts DEF CallersOK, TrackerOK
<1> QED BY <1>3, <1>4, <1>5 DEF WaitsStep

\* The rest of the steps: those of the server and of the peers, and the connection's.
OtherStep == UNCHANGED <<sendVars, tracker, runs>>

LEMMA DeviceStep ==
    [Next]_vars =>
        \/ OtherStep /\ UNCHANGED <<own, minted>>
        \/ Reload
        \/ \E e \in 1 .. MaxEpoch, r \in RunIds : RotationMinted(e, r)
        \/ \E r \in RunIds :
              \/ ToggleE2e(r) \/ RunListed(r) \/ RunBuilt(r) \/ RunMinted(r)
              \/ \E reached : RunDone(r, reached) \/ RunFails(r, reached)
              \/ \E s \in SendIds : Send(s, r)
        \/ \E s \in SendIds : EncryptEnd(s) \/ EncryptFails(s) \/ PostMessage(s) \/ PostFails(s)
<1> SUFFICES ASSUME [Next]_vars,
                    ~ (\/ Reload
                       \/ \E e \in 1 .. MaxEpoch, r \in RunIds : RotationMinted(e, r)
                       \/ \E r \in RunIds :
                              \/ ToggleE2e(r) \/ RunListed(r) \/ RunBuilt(r) \/ RunMinted(r)
                              \/ \E reached : RunDone(r, reached) \/ RunFails(r, reached)
                              \/ \E s \in SendIds : Send(s, r)
                       \/ \E s \in SendIds : \/ EncryptEnd(s) \/ EncryptFails(s)
                                             \/ PostMessage(s) \/ PostFails(s))
             PROVE  OtherStep /\ UNCHANGED <<own, minted>>
  OBVIOUS
<1> USE DEF OtherStep, sendVars, keyVars
<1>1. CASE \/ \E p \in Peers : RemoveRecipient(p) \/ AddRecipient(p)
           \/ BumpEpoch \/ (\E e \in 0 .. MaxEpoch : LearnEpoch(e))
           \/ (\E e \in 1 .. MaxEpoch : RotationFails(e))
           \/ LoseConnection \/ Reconnect \/ UNCHANGED vars
  BY <1>1 DEF RemoveRecipient, AddRecipient, BumpEpoch, LearnEpoch, RotationFails, LoseConnection,
     Reconnect, vars
<1>2. CASE \/ \E d \in skdms : InstallDistribution(d)
           \/ \E m \in mail : OpenStart(m)
           \/ \E m \in opening : OpenEnd(m)
  BY <1>2 DEF InstallDistribution, OpenStart, OpenEnd
<1> QED BY <1>1, <1>2 DEF Next, DistributionStep, SendStep

LEMMA WaitsKept == GInv /\ WaitsOK /\ [Next]_vars => WaitsStep
<1> SUFFICES ASSUME GInv, WaitsOK, [Next]_vars PROVE WaitsStep
  OBVIOUS
<1>1. SendsOK'
  BY SendsStep
<1>2. TrackerOK(Untracked, runs) /\ TrackerOK(tracker, runs)
  BY IdleFacts DEF TrackerOK, WaitsOK
<1>3. CASE OtherStep
  BY <1>3 DEF OtherStep, WaitsOK, WaitsStep, Moves, sendVars
<1>4. ASSUME NEW e \in 1 .. MaxEpoch, NEW r \in RunIds, RotationMinted(e, r)
      PROVE  WaitsStep
  <2>1. CASE encrypted
    BY <1>2, <1>4, <2>1, StartWaits DEF RotationMinted
  <2>2. CASE ~encrypted
    <3>1. UNCHANGED <<sendVars, runs>> /\ tracker' = Untracked
      BY <1>4, <2>2 DEF RotationMinted
    <3> QED BY <1>2, <3>1 DEF WaitsOK, WaitsStep, Moves, sendVars
  <2> QED BY <2>1, <2>2
<1>5. ASSUME NEW r \in RunIds, ToggleE2e(r)
      PROVE  WaitsStep
  <2>1. CASE encrypted
    <3>1. OtherStep
      BY <1>5, <2>1 DEF ToggleE2e, OtherStep
    <3> QED BY <1>3, <3>1
  <2>2. CASE ~encrypted
    BY <1>2, <1>5, <2>2, StartWaits DEF ToggleE2e
  <2> QED BY <2>1, <2>2
<1>6. ASSUME NEW r \in RunIds, RunListed(r) \/ RunBuilt(r) \/ RunMinted(r)
      PROVE  WaitsStep
  <2>1. UNCHANGED <<sendVars, tracker>>
    BY <1>6 DEF RunListed, RunBuilt, RunMinted
  <2> QED BY <1>6, <2>1, StageWaits
<1> QED BY <1>1, <1>3, <1>4, <1>5, <1>6, DeviceStep, ReloadWaits, RunWaits, SendWaits, EndWaits

---------------------------------------------------------------------------
(* The first key.                                                          *)

\* ensure() neither mints nor hands out a key.
LEMMA EnsureStages ==
    ASSUME GInv, WaitsOK, NEW t, TrackerOK(t, runs), NEW r \in RunIds,
           NEW callers \in Seq(SendIds), Distinct(callers),
           \A s \in Range(callers) : sends[s].stage # "ensuring", Ensure(t, r, callers)
    PROVE  /\ tracker'.done = t.done
           /\ \A q \in RunIds :
                \/ runs'[q].stage = runs[q].stage /\ runs'[q].skdm = runs[q].skdm
                \/ runs[q].stage = "idle" /\ runs'[q].stage = "listing" /\ runs'[q].skdm = NoKey
           /\ ~t.done => tracker'.inFlight = r /\ t.inFlight \in {NoRun, r}
                         /\ \A q \in RunIds \ {r} : runs'[q] = runs[q]
<1>1. runs \in [RunIds -> Runs] /\ CallersOK(runs, sends)
  BY DEF GInv, RunsOK, WaitsOK
<1> QED BY <1>1, EnsureShape, IdleFacts

LEMMA FirstStep == GInv /\ WaitsOK /\ FirstOK /\ [Next]_vars => FirstOK'
<1> SUFFICES ASSUME GInv, WaitsOK, FirstOK, [Next]_vars PROVE FirstOK'
  OBVIOUS
<1>1. /\ minted \in Nat /\ own \in Keys /\ own.key \in Nat /\ chain \in Seq(SendIds)
      /\ runs \in [RunIds -> Runs] /\ sends \in [SendIds -> Sends]
      /\ rotations \in [1 .. MaxEpoch -> Nat]
  BY DEF GInv, SendsOK, RunsOK, KnownOK, Keys
<1>2. /\ \A s \in SendIds : Moves(s)
      /\ TrackerOK(tracker, runs) /\ TrackerOK(Untracked, runs)
  BY WaitsKept, IdleFacts DEF WaitsStep, WaitsOK, TrackerOK
<1>3. (minted = 0 => own = NoKey) /\ (minted > 0 => own # NoKey /\ own.key > 0)
  <2>1. NoKey.key = 0
    BY KeyFacts
  <2> QED BY <1>1, <2>1 DEF FirstOK
<1> DEFINE Quiet == /\ own' = NoKey /\ ~tracker'.done /\ chain' = <<>>
                    /\ \A q \in RunIds : runs'[q].stage # "idle" =>
                                 tracker'.inFlight = q /\ runs'[q].stage # "relaying"
           Calm == \A e \in 1 .. MaxEpoch : rotations'[e] = 0
           Keyed == own'.key > 0 /\ \A q \in RunIds : runs'[q].stage # "minting"
           Handed == \A q \in RunIds : runs'[q].stage = "relaying" => runs'[q].skdm.key > 0
\* No rotation is pending before there is a key.
<1>4. minted = 0 => Calm
  <2> SUFFICES ASSUME minted = 0 PROVE Calm
    OBVIOUS
  <2>1. own = NoKey /\ \A e \in 1 .. MaxEpoch : rotations[e] = 0
    BY DEF FirstOK
  <2>2. ASSUME NEW e, LearnEpoch(e) PROVE rotations' = rotations
    BY <2>1, <2>2 DEF LearnEpoch
  <2>3. ASSUME NEW e \in 1 .. MaxEpoch, NEW r, RotationMinted(e, r) \/ RotationFails(e) PROVE FALSE
    BY <2>1, <2>3 DEF RotationMinted, RotationFails
  <2>4. CASE Reload
    BY <2>4 DEF Reload
  <2>5. CASE rotations' = rotations
    BY <2>1, <2>5
  <2>6. \/ rotations' = rotations \/ Reload \/ \E e : LearnEpoch(e)
        \/ \E e \in 1 .. MaxEpoch, r \in RunIds : RotationMinted(e, r) \/ RotationFails(e)
    <3> USE DEF keyVars
    <3>1. CASE \/ \E p \in Peers : RemoveRecipient(p) \/ AddRecipient(p)
               \/ BumpEpoch \/ LoseConnection \/ Reconnect \/ UNCHANGED vars
      BY <3>1 DEF RemoveRecipient, AddRecipient, BumpEpoch, LoseConnection, Reconnect, vars
    <3>2. CASE \E r \in RunIds :
                \/ ToggleE2e(r) \/ RunListed(r) \/ RunBuilt(r) \/ RunMinted(r)
                \/ \E reached \in SUBSET Peers : RunDone(r, reached) \/ RunFails(r, reached)
                \/ \E s \in SendIds : Send(s, r)
      BY <3>2 DEF ToggleE2e, RunListed, RunBuilt, RunMinted, RunDone, RunFails, Send
    <3>3. CASE \E s \in SendIds : EncryptEnd(s) \/ EncryptFails(s) \/ PostMessage(s) \/ PostFails(s)
      BY <3>3 DEF EncryptEnd, EncryptFails, PostMessage, PostFails
    <3>4. CASE \/ \E d \in skdms : InstallDistribution(d)
               \/ \E x \in mail : OpenStart(x)
               \/ \E x \in opening : OpenEnd(x)
      BY <3>4 DEF InstallDistribution, OpenStart, OpenEnd
    <3>5. CASE \E e \in 1 .. MaxEpoch : RotationFails(e)
      <4>1. \E r \in RunIds : TRUE
        BY GroupKeysAssumption DEF RunIds
      <4> QED BY <3>5, <4>1
    <3> QED BY <3>1, <3>2, <3>3, <3>4, <3>5 DEF Next, DistributionStep, SendStep
  <2> QED BY <2>2, <2>3, <2>4, <2>5, <2>6
<1>5. ASSUME minted' \in Nat, minted' >= minted, minted' = 0 => Quiet, minted' > 0 => Keyed, Handed
      PROVE  FirstOK'
  <2>1. minted' = 0 => minted = 0
    BY <1>1, <1>5
  <2>2. minted' = 0 => Quiet /\ Calm
    BY <1>4, <1>5, <2>1
  <2>3. \A s \in SendIds : sends'[s].stage \in {"encrypting", "posting", "sent"} =>
                              sends'[s].wire.key > 0
    <3> SUFFICES ASSUME NEW s \in SendIds, sends'[s].stage \in {"encrypting", "posting", "sent"}
                 PROVE  sends'[s].wire.key > 0
      OBVIOUS
    <3>1. \/ sends'[s] = sends[s]
          \/ sends'[s].wire = own' /\ chain' # <<>>
          \/ sends[s].stage \in {"encrypting", "posting"} /\ sends'[s].wire = sends[s].wire
      <4>1. Moves(s)
        BY <1>2
      <4> QED BY <4>1 DEF Moves
    <3>2. CASE sends'[s] = sends[s]
      BY <3>2 DEF FirstOK
    <3>3. CASE sends'[s].wire = own' /\ chain' # <<>>
      BY <1>1, <1>5, <3>3
    <3>4. CASE sends[s].stage \in {"encrypting", "posting"} /\ sends'[s].wire = sends[s].wire
      BY <3>4 DEF FirstOK
    <3> QED BY <3>1, <3>2, <3>3, <3>4
  <2> QED BY <1>5, <2>2, <2>3 DEF FirstOK
<1> HIDE DEF Quiet, Calm, Keyed, Handed
<1>6. ASSUME OtherStep, UNCHANGED <<own, minted>>
      PROVE  FirstOK'
  BY <1>1, <1>5, <1>6 DEF OtherStep, sendVars, FirstOK, Quiet, Keyed, Handed
<1>7. CASE Reload
  <2>1. /\ own' = own /\ minted' = minted /\ chain' = <<>> /\ tracker' = Untracked
        /\ \A q \in RunIds : runs'[q] = Idle
    BY <1>7 DEF Reload
  <2> QED BY <1>1, <1>5, <2>1, IdleFacts DEF FirstOK, Quiet, Keyed, Handed
\* A run that starts, or goes on.
<1>8. ASSUME NEW r \in RunIds, NEW callers \in Seq(SendIds), Distinct(callers),
             \A s \in Range(callers) : sends[s].stage # "ensuring", Ensure(tracker, r, callers),
             UNCHANGED <<own, minted>>, chain' = chain \/ minted > 0
      PROVE  FirstOK'
  <2>1. /\ tracker'.done = tracker.done
        /\ \A q \in RunIds :
                \/ runs'[q].stage = runs[q].stage /\ runs'[q].skdm = runs[q].skdm
                \/ runs[q].stage = "idle" /\ runs'[q].stage = "listing" /\ runs'[q].skdm = NoKey
        /\ ~tracker.done => tracker'.inFlight = r /\ tracker.inFlight \in {NoRun, r}
                         /\ \A q \in RunIds \ {r} : runs'[q] = runs[q]
    BY <1>2, <1>8, EnsureStages
  <2>2. minted = 0 => Quiet
    BY <1>8, <2>1, IdleFacts DEF FirstOK, Quiet
  <2>3. (minted > 0 => Keyed) /\ Handed
    BY <1>8, <2>1 DEF FirstOK, Keyed, Handed
  <2> QED BY <1>1, <1>5, <1>8, <2>2, <2>3
<1>9. ASSUME NEW e \in 1 .. MaxEpoch, NEW r \in RunIds, RotationMinted(e, r)
      PROVE  FirstOK'
  <2>1. minted > 0 /\ e \in Nat
    BY <1>1, <1>9, GroupKeysAssumption DEF FirstOK, RotationMinted
  <2>2. own' = Fresh(e) /\ minted' = minted + 1
    BY <1>9 DEF RotationMinted
  <2>3. own'.key = minted + 1
    BY <1>1, <2>1, <2>2, KeyFacts
  <2>4. \A q \in RunIds :
                \/ runs'[q].stage = runs[q].stage /\ runs'[q].skdm = runs[q].skdm
                \/ runs[q].stage = "idle" /\ runs'[q].stage = "listing" /\ runs'[q].skdm = NoKey
    <3>1. CASE encrypted
      <4>1. Ensure(Untracked, r, <<>>) /\ <<>> \in Seq(SendIds)
        BY <1>9, <3>1, EmptySeq DEF RotationMinted
      <4> QED BY <1>2, <4>1, DistinctSmall, EnsureStages
    <3>2. CASE ~encrypted
      BY <1>9, <3>2 DEF RotationMinted
    <3> QED BY <3>1, <3>2
  <2>5. Keyed /\ Handed
    BY <1>1, <2>1, <2>3, <2>4 DEF FirstOK, Keyed, Handed
  <2> QED BY <1>1, <1>5, <2>1, <2>2, <2>5
<1>10. ASSUME NEW r \in RunIds, ToggleE2e(r)
       PROVE  FirstOK'
  <2>1. UNCHANGED <<own, minted, chain>>
    BY <1>10 DEF ToggleE2e, keyVars, sendVars
  <2>2. CASE encrypted
    BY <1>6, <1>10, <2>1, <2>2 DEF ToggleE2e, OtherStep
  <2>3. CASE ~encrypted
    <3>1. Ensure(tracker, r, <<>>) /\ <<>> \in Seq(SendIds)
      BY <1>10, <2>3, EmptySeq DEF ToggleE2e
    <3> QED BY <1>8, <2>1, <3>1, DistinctSmall
  <2> QED BY <2>2, <2>3
<1>11. ASSUME NEW s \in SendIds, NEW r \in RunIds, Send(s, r)
       PROVE  FirstOK'
  <2>1. /\ Ensure(tracker, r, <<s>>) /\ sends[s].stage = "unsent" /\ UNCHANGED <<own, minted>>
        /\ ~tracker.done => chain' = chain
    BY <1>11, KeyFacts DEF Send, keyVars
  <2>2. tracker.done => minted > 0
    BY <1>1 DEF FirstOK
  <2>3. <<s>> \in Seq(SendIds) /\ Distinct(<<s>>) /\ Range(<<s>>) = {s}
    BY DistinctSmall
  <2> QED BY <1>8, <2>1, <2>2, <2>3
<1>12. ASSUME NEW r \in RunIds, RunListed(r)
       PROVE  FirstOK'
  <2>1. /\ runs[r].stage = "listing" /\ UNCHANGED <<own, minted, tracker, chain>>
        /\ runs' = [runs EXCEPT ![r] = [@ EXCEPT !.stage = "listed", !.to = members]]
    BY <1>12 DEF RunListed, keyVars, sendVars
  <2>2. /\ \A q \in RunIds \ {r} : runs'[q] = runs[q]
        /\ runs'[r].stage = "listed"
    BY <1>1, <2>1 DEF Runs
  <2> QED BY <1>1, <1>5, <2>1, <2>2 DEF FirstOK, Quiet, Keyed, Handed
<1>13. ASSUME NEW r \in RunIds, RunBuilt(r)
       PROVE  FirstOK'
  <2>1. runs[r].stage = "listed" /\ UNCHANGED <<own, minted, tracker, chain>>
    BY <1>13 DEF RunBuilt, keyVars, sendVars
  <2>2. /\ \A q \in RunIds \ {r} : runs'[q] = runs[q]
        /\ IF own = NoKey THEN runs'[r].stage = "minting"
                          ELSE runs'[r].stage = "relaying" /\ runs'[r].skdm = own
    BY <1>1, <1>13 DEF RunBuilt, Runs
  <2>3. CASE minted = 0
    <3>1. runs'[r].stage = "minting"
      BY <1>3, <2>2, <2>3
    <3>2. Quiet /\ Handed
      BY <2>1, <2>2, <2>3, <3>1 DEF FirstOK, Quiet, Handed
    <3> QED BY <1>1, <1>5, <2>1, <2>3, <3>2
  <2>4. CASE minted > 0
    <3>1. runs'[r].stage = "relaying" /\ runs'[r].skdm = own
      BY <1>3, <2>2, <2>4
    <3>2. Keyed /\ Handed
      BY <1>3, <2>1, <2>2, <2>4, <3>1 DEF FirstOK, Keyed, Handed
    <3> QED BY <1>1, <1>5, <2>1, <2>4, <3>2
  <2> QED BY <1>1, <2>3, <2>4
<1>14. ASSUME NEW r \in RunIds, RunMinted(r)
       PROVE  FirstOK'
  <2>1. /\ runs[r].stage = "minting" /\ own' = Fresh(runs[r].at) /\ minted' = minted + 1
        /\ runs[r].at \in Nat
    BY <1>1, <1>14 DEF RunMinted, Runs
  <2>2. own'.key = minted + 1
    BY <1>1, <2>1, KeyFacts
  <2>3. /\ \A q \in RunIds \ {r} : runs'[q] = runs[q]
        /\ runs'[r].stage = "relaying" /\ runs'[r].skdm = own'
    BY <1>1, <1>14 DEF RunMinted, Runs
  <2>4. minted = 0 /\ tracker.inFlight = r
    BY <1>1, <2>1 DEF FirstOK
  <2>5. \A q \in RunIds \ {r} : runs'[q].stage = "idle"
    BY <2>3, <2>4 DEF FirstOK
  <2>6. Keyed /\ Handed
    BY <1>1, <2>2, <2>3, <2>5 DEF Keyed, Handed
  <2> QED BY <1>1, <1>5, <2>1, <2>6
<1>15. ASSUME NEW r \in RunIds, NEW reached, RunDone(r, reached) \/ RunFails(r, reached)
       PROVE  FirstOK'
  <2>1. /\ runs[r].stage # "idle" /\ UNCHANGED <<own, minted>>
        /\ runs'[r] = Idle /\ \A q \in RunIds \ {r} : runs'[q] = runs[q]
    BY <1>1, <1>15 DEF RunDone, RunFails, Relayed, keyVars
  <2>2. (minted > 0 => Keyed) /\ Handed
    BY <2>1, IdleFacts DEF FirstOK, Keyed, Handed
  <2>3. ASSUME minted = 0 PROVE Quiet
    <3>1. tracker.inFlight = r /\ runs[r].stage # "relaying"
      BY <2>1, <2>3 DEF FirstOK
    <3>2. tracker' = Untracked /\ chain' = chain
      BY <1>15, <3>1 DEF RunDone, RunFails, Relayed
    <3>3. \A q \in RunIds : runs'[q].stage = "idle"
      BY <2>1, <2>3, <3>1, IdleFacts DEF FirstOK
    <3> QED BY <2>1, <2>3, <3>2, <3>3, IdleFacts DEF FirstOK, Quiet
  <2> QED BY <1>1, <1>5, <2>1, <2>2, <2>3
<1>16. ASSUME NEW s \in SendIds,
              EncryptEnd(s) \/ EncryptFails(s) \/ PostMessage(s) \/ PostFails(s)
       PROVE  FirstOK'
  <2>1. UNCHANGED <<minted, tracker, runs>>
    BY <1>16 DEF EncryptEnd, EncryptFails, PostMessage, PostFails, keyVars
  <2>2. CASE EncryptEnd(s) \/ EncryptFails(s)
    <3>1. sends[s].stage = "encrypting" /\ own' \in {own, Ratcheted(sends[s].wire)}
      BY <2>2 DEF EncryptEnd, EncryptFails, keyVars
    <3>2. sends[s].wire \in Keys /\ sends[s].wire.key > 0 /\ chain # <<>>
      BY <1>1, <3>1 DEF Sends, FirstOK, GInv, SendsOK, LineOK
    <3>3. minted > 0 /\ own.key > 0
      BY <1>1, <3>2 DEF FirstOK
    <3>4. own'.key > 0
      BY <3>1, <3>2, <3>3, KeyFacts
    <3>5. Keyed /\ Handed
      BY <2>1, <3>3, <3>4 DEF FirstOK, Keyed, Handed
    <3> QED BY <1>1, <1>5, <2>1, <3>3, <3>5
  <2>3. CASE PostMessage(s) \/ PostFails(s)
    <3>1. UNCHANGED <<own, chain>>
      BY <2>3 DEF PostMessage, PostFails, keyVars
    <3> QED BY <1>1, <1>5, <2>1, <3>1 DEF FirstOK, Quiet, Keyed, Handed
  <2> QED BY <1>16, <2>2, <2>3
<1> QED BY <1>6, <1>7, <1>9, <1>10, <1>11, <1>12, <1>13, <1>14, <1>15, <1>16, DeviceStep

---------------------------------------------------------------------------
(* The keys minted.                                                        *)

LEMMA PendingChange ==
    ASSUME rotations \in [1 .. MaxEpoch -> Nat], IsFiniteSet(Pending), NEW e \in 1 .. MaxEpoch
    PROVE  /\ rotations' = [rotations EXCEPT ![e] = @ + 1] =>
                /\ IsFiniteSet(Pending') /\ Cardinality(Pending') = Cardinality(Pending) + 1
           /\ rotations[e] > 0 /\ rotations' = [rotations EXCEPT ![e] = @ - 1] =>
                /\ IsFiniteSet(Pending') /\ Cardinality(Pending') = Cardinality(Pending) - 1
<1> DEFINE n == rotations[e]
<1>1. n \in Nat
  OBVIOUS
<1>2. ASSUME rotations' = [rotations EXCEPT ![e] = @ + 1]
      PROVE  IsFiniteSet(Pending') /\ Cardinality(Pending') = Cardinality(Pending) + 1
  <2> DEFINE x == <<e, n + 1>>
  <2>1. \A d \in 1 .. MaxEpoch :
            {d} \X (1 .. rotations'[d]) = ({d} \X (1 .. rotations[d])) \cup (IF d = e THEN {x} ELSE {})
    <3> SUFFICES ASSUME NEW d \in 1 .. MaxEpoch
                 PROVE  {d} \X (1 .. rotations'[d])
                            = ({d} \X (1 .. rotations[d])) \cup (IF d = e THEN {x} ELSE {})
      OBVIOUS
    <3>1. CASE d = e
      <4>1. rotations'[d] = n + 1 /\ 1 .. (n + 1) = (1 .. n) \cup {n + 1}
        BY <1>1, <1>2, <3>1
      <4> QED BY <3>1, <4>1
    <3>2. CASE d # e
      BY <1>2, <3>2
    <3> QED BY <3>1, <3>2
  <2>2. Pending' = Pending \cup {x}
    BY <2>1 DEF Pending
  <2>3. x \notin Pending
    BY <1>1 DEF Pending
  <2> HIDE DEF x
  <2> QED BY <2>2, <2>3, FS_AddElement
<1>3. ASSUME n > 0, rotations' = [rotations EXCEPT ![e] = @ - 1]
      PROVE  IsFiniteSet(Pending') /\ Cardinality(Pending') = Cardinality(Pending) - 1
  <2> DEFINE x == <<e, n>>
  <2>1. \A d \in 1 .. MaxEpoch :
            {d} \X (1 .. rotations'[d]) = ({d} \X (1 .. rotations[d])) \ {x}
    <3> SUFFICES ASSUME NEW d \in 1 .. MaxEpoch
                 PROVE  {d} \X (1 .. rotations'[d]) = ({d} \X (1 .. rotations[d])) \ {x}
      OBVIOUS
    <3>1. CASE d = e
      <4>1. rotations'[d] = n - 1 /\ 1 .. (n - 1) = (1 .. n) \ {n}
        BY <1>1, <1>3, <3>1
      <4> QED BY <3>1, <4>1
    <3>2. CASE d # e
      BY <1>3, <3>2
    <3> QED BY <3>1, <3>2
  <2>2. Pending' = Pending \ {x}
    BY <2>1 DEF Pending
  <2>3. x \in Pending
    BY <1>1, <1>3 DEF Pending
  <2> HIDE DEF x
  <2> QED BY <2>2, <2>3, FS_RemoveElement
<1> QED BY <1>2, <1>3

LEMMA PendingNone ==
    ASSUME rotations' = [e \in 1 .. MaxEpoch |-> 0]
    PROVE  IsFiniteSet(Pending') /\ Cardinality(Pending') = 0
<1>1. \A e \in 1 .. MaxEpoch : 1 .. rotations'[e] = {}
  OBVIOUS
<1>2. Pending' = {}
  BY <1>1 DEF Pending
<1> QED BY <1>2, FS_EmptySet

LEMMA OneFacts == /\ \A c \in BOOLEAN : One(c) \in {0, 1}
                  /\ One(TRUE) = 1 /\ One(FALSE) = 0
  BY DEF One

\* What could still mint a key, and the keys minted, are no more than what was announced
\* and what connected anew.
LEMMA MintsStep == GInv /\ FirstOK /\ MintsOK /\ [Next]_vars => MintsOK'
<1> SUFFICES ASSUME GInv, FirstOK, MintsOK, [Next]_vars PROVE MintsOK'
  OBVIOUS
<1> DEFINE c == Cardinality(Pending)
           n == Cardinality(notices)
<1>1. /\ minted \in Nat /\ epoch \in Nat /\ unannounced \in Nat /\ upsets \in Nat
      /\ upsets <= MaxUpsets /\ online \in BOOLEAN /\ encrypted \in BOOLEAN
      /\ rotations \in [1 .. MaxEpoch -> Nat] /\ MaxEpoch \in Nat /\ MaxUpsets \in Nat
      /\ IsFiniteSet(notices) /\ IsFiniteSet(Pending) /\ (~online => notices = {})
  BY GroupKeysAssumption DEF GInv, SendsOK, KnownOK, MintsOK
<1>2. c \in Nat /\ n \in Nat /\ (notices = {} => n = 0)
  BY <1>1, FS_CardinalityType, FS_EmptySet
<1>3. /\ epoch + unannounced <= MaxEpoch
      /\ minted + c + n + (IF online THEN 0 ELSE 1) + (IF minted = 0 THEN 1 ELSE 0)
            <= 1 + epoch + upsets
  BY <1>1 DEF MintsOK, One
<1> HIDE DEF c, n
<1>4. ASSUME epoch' \in Nat, unannounced' \in Nat, epoch' + unannounced' <= MaxEpoch,
             upsets' \in Nat, upsets' <= MaxUpsets, online' \in BOOLEAN, encrypted' \in BOOLEAN,
             ~online' => notices' = {},
             NEW d \in Nat, NEW k \in Nat,
             IsFiniteSet(notices') /\ Cardinality(notices') = k,
             IsFiniteSet(Pending') /\ Cardinality(Pending') = d,
             minted' + d + k + (IF online' THEN 0 ELSE 1) + (IF minted' = 0 THEN 1 ELSE 0)
                <= 1 + epoch' + upsets'
      PROVE  MintsOK'
  <2>1. upsets' \in 0 .. MaxUpsets
    BY <1>1, <1>4
  <2>2. One(~online') = (IF online' THEN 0 ELSE 1) /\ One(minted' = 0) = (IF minted' = 0 THEN 1 ELSE 0)
    BY <1>4 DEF One
  <2> HIDE DEF Pending
  <2> QED BY <1>4, <2>1, <2>2 DEF MintsOK
<1>5. rotations' = rotations => IsFiniteSet(Pending') /\ Cardinality(Pending') = c
  BY <1>1 DEF Pending, c
<1>6. notices' = notices => IsFiniteSet(notices') /\ Cardinality(notices') = n
  BY <1>1 DEF n
<1>7. ASSUME UNCHANGED <<epoch, unannounced, upsets, online, encrypted, notices, rotations, minted>>
      PROVE  MintsOK'
  BY <1>1, <1>2, <1>3, <1>4, <1>5, <1>6, <1>7
<1>8. ASSUME NEW p \in Peers, RemoveRecipient(p) \/ AddRecipient(p)
      PROVE  MintsOK'
  <2>1. /\ epoch + unannounced < MaxEpoch /\ unannounced' = unannounced + 1
        /\ UNCHANGED <<epoch, upsets, online, encrypted, notices, rotations, minted>>
    BY <1>8 DEF RemoveRecipient, AddRecipient, wireVars, keyVars, modeVars
  <2> QED BY <1>1, <1>2, <1>3, <1>4, <1>5, <1>6, <2>1
<1>9. CASE BumpEpoch
  <2>1. /\ unannounced > 0 /\ unannounced' = unannounced - 1 /\ epoch' = epoch + 1
        /\ notices' = IF online THEN notices \cup {epoch + 1} ELSE notices
        /\ UNCHANGED <<upsets, online, encrypted, rotations, minted>>
    BY <1>9 DEF BumpEpoch, keyVars, modeVars
  <2>2. /\ IsFiniteSet(notices') /\ Cardinality(notices') \in Nat
        /\ Cardinality(notices') <= n + 1
        /\ ~online' => notices' = {}
    <3>1. CASE online
      <4>1. IsFiniteSet(notices') /\ Cardinality(notices') \in {n, n + 1}
        BY <1>1, <2>1, <3>1, FS_AddElement DEF n
      <4>2. online'
        BY <2>1, <3>1
      <4> QED BY <1>2, <4>1, <4>2
    <3>2. CASE ~online
      BY <1>1, <1>2, <1>6, <2>1, <3>2
    <3> QED BY <3>1, <3>2
  <2>3. epoch' + unannounced' <= MaxEpoch /\ unannounced' \in Nat /\ epoch' \in Nat
    BY <1>1, <1>3, <2>1
  <2>4. minted + c + Cardinality(notices') + (IF online THEN 0 ELSE 1) + (IF minted = 0 THEN 1 ELSE 0)
            <= 1 + epoch' + upsets
    BY <1>1, <1>2, <1>3, <2>1, <2>2
  <2> QED BY <1>1, <1>2, <1>4, <1>5, <2>1, <2>2, <2>3, <2>4
<1>10. ASSUME NEW e \in 0 .. MaxEpoch, LearnEpoch(e)
       PROVE  MintsOK'
  <2> DEFINE latest == IF e > known THEN e ELSE known
  <2>1. /\ e \in notices /\ notices' = notices \ {e}
        /\ rotations' = IF own # NoKey /\ latest > own.epoch
                        THEN [rotations EXCEPT ![latest] = @ + 1] ELSE rotations
        /\ UNCHANGED <<epoch, unannounced, upsets, online, encrypted, minted>>
    BY <1>10 DEF LearnEpoch, serverVars, modeVars
  <2>2. IsFiniteSet(notices') /\ Cardinality(notices') = n - 1 /\ n - 1 \in Nat
    <3>1. IsFiniteSet(notices') /\ Cardinality(notices') = n - 1
      BY <1>1, <2>1, FS_RemoveElement DEF n
    <3> QED BY <1>2, <3>1, FS_CardinalityType
  <2>3. latest \in Nat /\ latest <= MaxEpoch /\ own.epoch \in Nat
    BY <1>1, <1>3 DEF GInv, KnownOK, SendsOK, Keys
  <2> HIDE DEF latest
  <2>4. IsFiniteSet(Pending') /\ Cardinality(Pending') \in {c, c + 1}
    <3>1. CASE rotations' = rotations
      BY <1>5, <3>1
    <3>2. CASE latest > own.epoch /\ rotations' = [rotations EXCEPT ![latest] = @ + 1]
      <4>1. latest \in 1 .. MaxEpoch
        BY <1>1, <2>3, <3>2
      <4> QED BY <1>1, <3>2, <4>1, PendingChange DEF c
    <3> QED BY <2>1, <3>1, <3>2
  <2>5. Cardinality(Pending') \in Nat /\ Cardinality(Pending') <= c + 1
    BY <1>2, <2>4
  <2>6. ~online' => notices' = {}
    BY <1>1, <2>1
  <2> QED BY <1>1, <1>2, <1>3, <1>4, <2>1, <2>2, <2>4, <2>5, <2>6
<1>11. ASSUME NEW e \in 1 .. MaxEpoch, NEW r, RotationMinted(e, r) \/ RotationFails(e)
       PROVE  MintsOK'
  <2>1. /\ rotations[e] > 0 /\ rotations' = [rotations EXCEPT ![e] = @ - 1]
        /\ minted' \in {minted, minted + 1}
        /\ UNCHANGED <<epoch, unannounced, upsets, online, encrypted, notices>>
    BY <1>11 DEF RotationMinted, RotationFails, serverVars, wireVars, modeVars
  <2>2. IsFiniteSet(Pending') /\ Cardinality(Pending') = c - 1 /\ c - 1 \in Nat
    <3>1. IsFiniteSet(Pending') /\ Cardinality(Pending') = c - 1
      BY <1>1, <2>1, PendingChange DEF c
    <3> QED BY <1>2, <3>1, FS_CardinalityType
  <2>3. minted > 0
    BY <1>1, <2>1 DEF FirstOK
  <2>4. minted' + (c - 1) + n + (IF online THEN 0 ELSE 1) + (IF minted' = 0 THEN 1 ELSE 0)
            <= 1 + epoch + upsets
    <3>1. minted \in Nat /\ epoch \in Nat /\ upsets \in Nat /\ (minted' = minted \/ minted' = minted + 1)
      BY <1>1, <2>1
    <3>2. minted + c + n + (IF online THEN 0 ELSE 1) <= 1 + epoch + upsets
      BY <1>2, <1>3, <2>3, <3>1
    <3>3. minted' # 0
      BY <2>3, <3>1
    <3> QED BY <1>2, <3>1, <3>2, <3>3
  <2> QED BY <1>1, <1>2, <1>3, <1>4, <1>6, <2>1, <2>2, <2>4
<1>12. ASSUME NEW r \in RunIds, RunMinted(r)
       PROVE  MintsOK'
  <2>1. /\ runs[r].stage = "minting" /\ minted' = minted + 1
        /\ UNCHANGED <<epoch, unannounced, upsets, online, encrypted, notices, rotations>>
    BY <1>12 DEF RunMinted, serverVars, wireVars, modeVars
  <2>2. minted = 0
    BY <1>1, <2>1 DEF FirstOK
  <2> QED BY <1>1, <1>2, <1>3, <1>4, <1>5, <1>6, <2>1, <2>2
<1>13. ASSUME NEW r \in RunIds, ToggleE2e(r)
       PROVE  MintsOK'
  <2>1. /\ upsets < MaxUpsets /\ upsets' = upsets + 1 /\ encrypted' = ~encrypted
        /\ UNCHANGED <<epoch, unannounced, online, notices, rotations, minted>>
    BY <1>13 DEF ToggleE2e, serverVars, wireVars, keyVars
  <2>2. encrypted' \in BOOLEAN /\ (~online' => notices' = {})
    BY <1>1, <2>1
  <2> QED BY <1>1, <1>2, <1>3, <1>4, <1>5, <1>6, <2>1, <2>2
<1>14. CASE LoseConnection \/ Reload
  <2>1. /\ upsets < MaxUpsets /\ upsets' = upsets + 1 /\ online' = FALSE /\ notices' = {}
        /\ rotations' = rotations \/ rotations' = [e \in 1 .. MaxEpoch |-> 0]
        /\ UNCHANGED <<epoch, unannounced, encrypted, minted>>
    BY <1>14 DEF LoseConnection, Reload, serverVars, keyVars
  <2>2. IsFiniteSet(notices') /\ Cardinality(notices') = 0
    BY <2>1, FS_EmptySet
  <2>3. IsFiniteSet(Pending') /\ Cardinality(Pending') \in {0, c}
    BY <1>5, <2>1, PendingNone
  <2>4. Cardinality(Pending') \in Nat /\ Cardinality(Pending') <= c
    BY <1>2, <2>3
  <2>5. minted + Cardinality(Pending') + 0 + 1 + (IF minted = 0 THEN 1 ELSE 0)
            <= 1 + epoch + upsets'
    BY <1>1, <1>2, <1>3, <2>1, <2>4
  <2>6. /\ epoch' + unannounced' <= MaxEpoch /\ unannounced' \in Nat /\ epoch' \in Nat
        /\ upsets' \in Nat /\ upsets' <= MaxUpsets /\ encrypted' \in BOOLEAN
    BY <1>1, <1>3, <2>1
  <2> DEFINE d == Cardinality(Pending')
  <2>7. d \in Nat /\ IsFiniteSet(Pending') /\ Cardinality(Pending') = d
    BY <2>3, <2>4
  <2>8. minted' + d + 0 + (IF online' THEN 0 ELSE 1) + (IF minted' = 0 THEN 1 ELSE 0)
            <= 1 + epoch' + upsets'
    BY <2>1, <2>5
  <2>9. online' \in BOOLEAN /\ (~online' => notices' = {})
    BY <2>1
  <2> HIDE DEF d
  <2> QED BY <1>4, <2>2, <2>6, <2>7, <2>8, <2>9
<1>15. CASE Reconnect
  <2>1. /\ ~online /\ online' = TRUE /\ notices' = {epoch}
        /\ UNCHANGED <<epoch, unannounced, upsets, encrypted, rotations, minted>>
    BY <1>15 DEF Reconnect, serverVars, keyVars, modeVars
  <2>2. IsFiniteSet(notices') /\ Cardinality(notices') = 1
    BY <2>1, FS_Singleton
  <2> QED BY <1>1, <1>2, <1>3, <1>4, <1>5, <2>1, <2>2
<1>16. \/ UNCHANGED <<epoch, unannounced, upsets, online, encrypted, notices, rotations, minted>>
       \/ \E p \in Peers : RemoveRecipient(p) \/ AddRecipient(p)
       \/ BumpEpoch \/ LoseConnection \/ Reload \/ Reconnect
       \/ \E e \in 0 .. MaxEpoch : LearnEpoch(e)
       \/ \E e \in 1 .. MaxEpoch, r \in RunIds : RotationMinted(e, r) \/ RotationFails(e)
       \/ \E r \in RunIds : RunMinted(r) \/ ToggleE2e(r)
  <2> USE DEF serverVars, wireVars, keyVars, modeVars
  <2>1. CASE \E r \in RunIds :
                \/ RunListed(r) \/ RunBuilt(r)
                \/ \E reached \in SUBSET Peers : RunDone(r, reached) \/ RunFails(r, reached)
                \/ \E s \in SendIds : Send(s, r)
    BY <2>1 DEF RunListed, RunBuilt, RunDone, RunFails, Send
  <2>2. CASE \E s \in SendIds : EncryptEnd(s) \/ EncryptFails(s) \/ PostMessage(s) \/ PostFails(s)
    BY <2>2 DEF EncryptEnd, EncryptFails, PostMessage, PostFails
  <2>3. CASE \/ \E d \in skdms : InstallDistribution(d)
             \/ \E x \in mail : OpenStart(x)
             \/ \E x \in opening : OpenEnd(x)
             \/ UNCHANGED vars
    BY <2>3 DEF InstallDistribution, OpenStart, OpenEnd, vars
  <2>4. CASE \E e \in 1 .. MaxEpoch : RotationFails(e)
    <3>1. \E r \in RunIds : TRUE
      BY GroupKeysAssumption DEF RunIds
    <3> QED BY <2>4, <3>1
  <2> QED BY <2>1, <2>2, <2>3, <2>4 DEF Next, DistributionStep, SendStep
<1> QED BY <1>7, <1>8, <1>9, <1>10, <1>11, <1>12, <1>13, <1>14, <1>15, <1>16

---------------------------------------------------------------------------
(* The steps of a chain.                                                   *)

\* The sends past their encryption stay past it.
LEMMA EndedGrows ==
    ASSUME \A s \in SendIds : Moves(s)
    PROVE  /\ Cardinality(Ended) \in Nat /\ Cardinality(Ended') \in Nat
           /\ Cardinality(Ended) <= Cardinality(Ended') /\ Cardinality(Ended') <= MaxSends
           /\ \A s \in SendIds : sends[s].stage = "encrypting" /\ sends'[s].stage = "posting" =>
                  Cardinality(Ended) + 1 <= Cardinality(Ended')
<1>1. IsFiniteSet(SendIds) /\ Cardinality(SendIds) = MaxSends
  BY GroupKeysAssumption, FS_Interval DEF SendIds
<1>2. Ended \subseteq SendIds /\ Ended' \subseteq SendIds
  BY DEF Ended
<1>3. IsFiniteSet(Ended) /\ IsFiniteSet(Ended') /\ Cardinality(Ended') <= MaxSends
  BY <1>1, <1>2, FS_Subset
<1>4. Ended \subseteq Ended'
  BY DEF Ended, Moves
<1>5. ASSUME NEW s \in SendIds, sends[s].stage = "encrypting", sends'[s].stage = "posting"
      PROVE  Cardinality(Ended) + 1 <= Cardinality(Ended')
  <2>1. s \notin Ended /\ Ended \cup {s} \subseteq Ended'
    BY <1>4, <1>5 DEF Ended
  <2>2. Cardinality(Ended \cup {s}) = Cardinality(Ended) + 1
    BY <1>3, <2>1, FS_AddElement
  <2> QED BY <1>3, <2>1, <2>2, FS_Subset
<1> QED BY <1>3, <1>4, <1>5, FS_CardinalityType, FS_Subset

\* A run hands out no key but ours.
LEMMA HandedOut ==
    ASSUME GInv, WaitsOK, [Next]_vars, NEW q \in RunIds
    PROVE  runs'[q].skdm \in {runs[q].skdm, NoKey, own'}
<1>1. /\ runs \in [RunIds -> Runs] /\ TrackerOK(tracker, runs) /\ TrackerOK(Untracked, runs)
  BY IdleFacts DEF GInv, RunsOK, WaitsOK, TrackerOK
<1>2. CASE runs' = runs
  BY <1>2
<1>3. ASSUME NEW t, TrackerOK(t, runs), NEW r \in RunIds, NEW callers \in Seq(SendIds),
             Distinct(callers), \A s \in Range(callers) : sends[s].stage # "ensuring",
             Ensure(t, r, callers)
      PROVE  runs'[q].skdm \in {runs[q].skdm, NoKey, own'}
  BY <1>3, EnsureStages
<1>4. <<>> \in Seq(SendIds) /\ Distinct(<<>>) /\ Range(<<>>) = {}
  BY EmptySeq, DistinctSmall
<1>5. ASSUME NEW e \in 1 .. MaxEpoch, NEW r \in RunIds, RotationMinted(e, r)
      PROVE  runs'[q].skdm \in {runs[q].skdm, NoKey, own'}
  <2>1. Ensure(Untracked, r, <<>>) \/ runs' = runs
    BY <1>5 DEF RotationMinted
  <2> QED BY <1>1, <1>2, <1>3, <1>4, <2>1
<1>6. ASSUME NEW r \in RunIds, ToggleE2e(r)
      PROVE  runs'[q].skdm \in {runs[q].skdm, NoKey, own'}
  <2>1. Ensure(tracker, r, <<>>) \/ runs' = runs
    BY <1>6 DEF ToggleE2e
  <2> QED BY <1>1, <1>2, <1>3, <1>4, <2>1
<1>7. ASSUME NEW s \in SendIds, NEW r \in RunIds, Send(s, r)
      PROVE  runs'[q].skdm \in {runs[q].skdm, NoKey, own'}
  <2>1. Ensure(tracker, r, <<s>>) /\ sends[s].stage # "ensuring"
    BY <1>7, KeyFacts DEF Send
  <2>2. <<s>> \in Seq(SendIds) /\ Distinct(<<s>>) /\ Range(<<s>>) = {s}
    BY DistinctSmall
  <2> QED BY <1>1, <1>3, <2>1, <2>2
<1>8. ASSUME NEW r \in RunIds, RunListed(r)
      PROVE  runs'[q].skdm = runs[q].skdm
  BY <1>1, <1>8 DEF RunListed, Runs
<1>9. ASSUME NEW r \in RunIds, RunBuilt(r)
      PROVE  runs'[q].skdm \in {runs[q].skdm, own'}
  <2>1. own' = own
    BY <1>9 DEF RunBuilt, keyVars
  <2>2. CASE own = NoKey
    BY <1>1, <1>9, <2>2 DEF RunBuilt, Runs
  <2>3. CASE own # NoKey
    BY <1>1, <1>9, <2>1, <2>3 DEF RunBuilt, Runs
  <2> QED BY <2>2, <2>3
<1>10. ASSUME NEW r \in RunIds, RunMinted(r)
       PROVE  runs'[q].skdm \in {runs[q].skdm, own'}
  BY <1>1, <1>10 DEF RunMinted, Runs
<1>11. ASSUME NEW r \in RunIds, NEW reached, RunDone(r, reached) \/ RunFails(r, reached)
       PROVE  runs'[q].skdm \in {runs[q].skdm, NoKey}
  BY <1>1, <1>11, IdleFacts DEF RunDone, RunFails
<1>12. CASE Reload
  BY <1>12, IdleFacts DEF Reload
<1>13. ASSUME NEW s \in SendIds, EncryptEnd(s) \/ EncryptFails(s) \/ PostMessage(s) \/ PostFails(s)
       PROVE  runs' = runs
  BY <1>13 DEF EncryptEnd, EncryptFails, PostMessage, PostFails
<1> QED BY <1>2, <1>5, <1>6, <1>7, <1>8, <1>9, <1>10, <1>11, <1>12, <1>13, DeviceStep DEF OtherStep

\* Our key is the one we had, a fresh one, or one a step on from a message's.
LEMMA OurKeyStep ==
    ASSUME GInv, [Next]_vars
    PROVE  \/ own' = own /\ minted' = minted
           \/ minted' = minted + 1 /\ \E e \in Nat : own' = Fresh(e)
           \/ /\ minted' = minted
              /\ \E s \in SendIds : /\ own' = Ratcheted(sends[s].wire)
                                    /\ sends[s].stage = "encrypting" /\ EncryptEnd(s)
<1>1. ASSUME NEW e \in 1 .. MaxEpoch, NEW r, RotationMinted(e, r)
      PROVE  minted' = minted + 1 /\ \E x \in Nat : own' = Fresh(x)
  BY <1>1, GroupKeysAssumption DEF RotationMinted
<1>2. ASSUME NEW r \in RunIds, RunMinted(r)
      PROVE  minted' = minted + 1 /\ \E x \in Nat : own' = Fresh(x)
  BY <1>2 DEF RunMinted, GInv, RunsOK, Runs
<1>3. ASSUME NEW s \in SendIds, EncryptEnd(s)
      PROVE  minted' = minted /\ own' = Ratcheted(sends[s].wire) /\ sends[s].stage = "encrypting"
  BY <1>3 DEF EncryptEnd
<1>4. ASSUME NEW r \in RunIds,
             \/ ToggleE2e(r) \/ RunListed(r) \/ RunBuilt(r)
             \/ \E reached : RunDone(r, reached) \/ RunFails(r, reached)
             \/ \E s \in SendIds : Send(s, r)
      PROVE  UNCHANGED <<own, minted>>
  BY <1>4 DEF ToggleE2e, RunListed, RunBuilt, RunDone, RunFails, Send, keyVars
<1>5. ASSUME NEW s \in SendIds, EncryptFails(s) \/ PostMessage(s) \/ PostFails(s)
      PROVE  UNCHANGED <<own, minted>>
  BY <1>5 DEF EncryptFails, PostMessage, PostFails, keyVars
<1>6. CASE Reload
  BY <1>6 DEF Reload
<1> QED BY <1>1, <1>2, <1>3, <1>4, <1>5, <1>6, DeviceStep

LEMMA PeerCases ==
    [Next]_vars =>
        \/ UNCHANGED peerVars
        \/ \E r \in RunIds : \E reached : Relayed(r, reached) /\ UNCHANGED <<mail, opening, copy>>
        \/ \E s \in SendIds : PostMessage(s)
        \/ \E d \in skdms : InstallDistribution(d)
        \/ \E x \in mail : OpenStart(x)
        \/ \E x \in opening : OpenEnd(x)
<1> SUFFICES ASSUME [Next]_vars,
                    ~ (\/ \E s \in SendIds : PostMessage(s)
                       \/ \E d \in skdms : InstallDistribution(d)
                       \/ \E x \in mail : OpenStart(x)
                       \/ \E x \in opening : OpenEnd(x))
             PROVE  \/ UNCHANGED peerVars
                    \/ \E r \in RunIds : \E reached :
                            Relayed(r, reached) /\ UNCHANGED <<mail, opening, copy>>
  OBVIOUS
<1>1. CASE \E r \in RunIds : \E reached \in SUBSET Peers : RunDone(r, reached) \/ RunFails(r, reached)
  BY <1>1 DEF RunDone, RunFails, peerVars
<1>2. CASE \E s \in SendIds : \/ EncryptEnd(s) \/ EncryptFails(s) \/ PostFails(s)
                              \/ \E r \in RunIds : Send(s, r)
  BY <1>2 DEF EncryptEnd, EncryptFails, PostFails, Send
<1>3. CASE \/ \E p \in Peers : RemoveRecipient(p) \/ AddRecipient(p)
           \/ BumpEpoch \/ (\E e \in 0 .. MaxEpoch : LearnEpoch(e))
           \/ (\E e \in 1 .. MaxEpoch : RotationFails(e))
           \/ (\E r \in RunIds : \/ ToggleE2e(r) \/ RunListed(r) \/ RunBuilt(r) \/ RunMinted(r)
                                 \/ \E e \in 1 .. MaxEpoch : RotationMinted(e, r))
           \/ LoseConnection \/ Reconnect \/ Reload \/ UNCHANGED vars
  BY <1>3 DEF RemoveRecipient, AddRecipient, BumpEpoch, LearnEpoch, RotationFails, ToggleE2e,
     RunListed, RunBuilt, RunMinted, RotationMinted, LoseConnection, Reconnect, Reload, vars
<1> QED BY <1>1, <1>2, <1>3 DEF Next, DistributionStep, SendStep

LEMMA KeysStep == GInv /\ WaitsOK /\ KeysOK /\ [Next]_vars => KeysOK'
<1> SUFFICES ASSUME GInv, WaitsOK, KeysOK, [Next]_vars PROVE KeysOK'
  OBVIOUS
<1> DEFINE n == Cardinality(Ended)
           Fits(k) == k.key <= minted' /\ k.it <= Cardinality(Ended')
<1>1. \A s \in SendIds : Moves(s)
  BY WaitsKept DEF WaitsStep
<1>2. /\ n \in Nat /\ Cardinality(Ended') \in Nat /\ n <= Cardinality(Ended')
      /\ \A s \in SendIds : sends[s].stage = "encrypting" /\ sends'[s].stage = "posting" =>
             n + 1 <= Cardinality(Ended')
  BY <1>1, EndedGrows
<1>3. /\ sends \in [SendIds -> Sends] /\ runs \in [RunIds -> Runs] /\ own \in Keys
      /\ copy \in [Peers -> Keys] /\ skdms \subseteq [to : Peers, skdm : Keys]
      /\ mail \subseteq [to : Peers, wire : Keys] /\ opening \subseteq [to : Peers, wire : Keys]
      /\ minted \in Nat /\ minted' \in Nat /\ own' \in Keys
  BY SendsStep DEF GInv, SendsOK, RunsOK, PeersOK
<1>4. /\ Within(own, n)
      /\ \A s \in SendIds : Within(sends[s].wire, n) /\ (Posted(sends[s]) => sends[s].wire.it < n)
      /\ \A r \in RunIds : Within(runs[r].skdm, n)
      /\ \A d \in skdms : Within(d.skdm, n)
      /\ \A x \in mail \cup opening : Within(x.wire, n) /\ x.wire.it < n
      /\ \A p \in Peers : Within(copy[p], n)
  BY DEF KeysOK
<1>5. minted <= minted'
  BY <1>3, OurKeyStep
<1> HIDE DEF n
\* A key that was within the bounds still is.
<1>6. ASSUME NEW k \in Keys, Within(k, n)
      PROVE  Fits(k) /\ (k.it < n => k.it < Cardinality(Ended'))
  <2>1. k.key \in Nat /\ k.it \in Nat
    BY DEF Keys
  <2> QED BY <1>2, <1>3, <1>5, <1>6, <2>1 DEF Within
<1>7. NoKey \in Keys /\ Within(NoKey, n) /\ NoKey.it = 0
  BY <1>2, <1>3, KeyFacts DEF Within
<1>8. Fits(own')
  <2>1. CASE own' = own
    BY <1>3, <1>4, <1>6, <2>1
  <2>2. ASSUME NEW e \in Nat, own' = Fresh(e), minted' = minted + 1
        PROVE  Fits(own')
    BY <1>2, <1>3, <2>2, KeyFacts
  <2>3. ASSUME NEW s \in SendIds, own' = Ratcheted(sends[s].wire), sends[s].stage = "encrypting",
               EncryptEnd(s)
        PROVE  Fits(own')
    <3>1. sends[s].wire \in Keys /\ Within(sends[s].wire, n)
      BY <1>3, <1>4 DEF Sends
    <3>2. sends'[s].stage = "posting"
      <4>1. sends' = Turn([sends EXCEPT ![s].stage = "posting"], Tail(chain), own')
        BY <2>3 DEF EncryptEnd
      <4> DEFINE mid == [sends EXCEPT ![s].stage = "posting"]
      <4>2. mid \in [SendIds -> Sends] /\ mid[s].stage = "posting"
        <5>1. [sends[s] EXCEPT !.stage = "posting"] \in Sends
          BY <1>3 DEF Sends
        <5> QED BY <1>3, <5>1 DEF Sends
      <4> HIDE DEF mid
      <4>3. sends' = Turn(mid, Tail(chain), own')
        BY <4>1 DEF mid
      <4>4. sends'[s] = mid[s] \/ mid[s].stage = "chained"
        BY <1>3, <4>2, <4>3, TurnShape
      <4> QED BY <4>2, <4>4
    <3>3. n + 1 <= Cardinality(Ended')
      BY <1>2, <2>3, <3>2
    <3>4. own'.key = sends[s].wire.key /\ own'.it = sends[s].wire.it + 1 /\ sends[s].wire.it \in Nat
      BY <2>3, <3>1, KeyFacts DEF Keys
    <3>5. own'.key <= minted'
      BY <1>3, <1>6, <3>1, <3>4
    <3> QED BY <1>2, <3>1, <3>3, <3>4, <3>5 DEF Within
  <2> QED BY <2>1, <2>2, <2>3, OurKeyStep
<1>9. ASSUME NEW s \in SendIds
      PROVE  Fits(sends'[s].wire) /\ (Posted(sends'[s]) => sends'[s].wire.it < Cardinality(Ended'))
  <2>1. /\ sends[s].wire \in Keys /\ Within(sends[s].wire, n)
        /\ Posted(sends[s]) => sends[s].wire.it < n
    BY <1>3, <1>4 DEF Sends
  <2>2. Moves(s)
    BY <1>1
  <2>3. CASE sends'[s] = sends[s]
    BY <1>6, <2>1, <2>3
  <2>4. CASE sends'[s].wire = NoKey /\ ~Posted(sends'[s])
    BY <1>6, <1>7, <2>4
  <2>5. CASE sends'[s].wire = own' /\ ~Posted(sends'[s])
    BY <1>8, <2>5
  <2>6. CASE /\ sends[s].stage = "encrypting" /\ sends'[s].stage = "posting"
             /\ sends'[s].wire = sends[s].wire
    <3>1. n + 1 <= Cardinality(Ended') /\ sends[s].wire.it \in Nat
      BY <1>2, <2>1, <2>6 DEF Keys
    <3> QED BY <1>2, <1>6, <2>1, <2>6, <3>1 DEF Within
  <2>7. CASE sends[s].stage = "posting" /\ sends'[s].wire = sends[s].wire
    BY <1>6, <2>1, <2>7 DEF Posted
  <2> QED BY <2>2, <2>3, <2>4, <2>5, <2>6, <2>7 DEF Moves, Posted
<1>10. ASSUME NEW r \in RunIds
       PROVE  Fits(runs'[r].skdm)
  <2>1. runs[r].skdm \in Keys /\ Within(runs[r].skdm, n)
    BY <1>3, <1>4 DEF Runs
  <2> QED BY <1>6, <1>7, <1>8, <2>1, HandedOut
\* What the peers hold or are to get.
<1>11. ASSUME \A d \in skdms' : d.skdm \in Keys /\ Within(d.skdm, n),
              \A x \in mail' \cup opening' : x.wire \in Keys /\ Within(x.wire, n) /\ x.wire.it < n,
              \A p \in Peers : copy'[p] \in Keys /\ Within(copy'[p], n)
       PROVE  KeysOK'
  <2>1. \A d \in skdms' : Fits(d.skdm)
    BY <1>6, <1>11
  <2>2. \A x \in mail' \cup opening' : Fits(x.wire) /\ x.wire.it < Cardinality(Ended')
    BY <1>6, <1>11
  <2>3. \A p \in Peers : Fits(copy'[p])
    BY <1>6, <1>11
  <2> HIDE DEF Ended
  <2> QED BY <1>8, <1>9, <1>10, <2>1, <2>2, <2>3 DEF KeysOK, Within
<1>12. /\ \A d \in skdms : d.skdm \in Keys /\ Within(d.skdm, n)
       /\ \A x \in mail \cup opening : x.wire \in Keys /\ Within(x.wire, n) /\ x.wire.it < n
       /\ \A p \in Peers : copy[p] \in Keys /\ Within(copy[p], n)
  BY <1>3, <1>4
<1>13. CASE UNCHANGED peerVars
  BY <1>11, <1>12, <1>13 DEF peerVars
<1>14. ASSUME NEW r \in RunIds, NEW reached, Relayed(r, reached), UNCHANGED <<mail, opening, copy>>
       PROVE  KeysOK'
  <2>1. skdms' = skdms \cup [to : reached, skdm : {runs[r].skdm}]
    BY <1>14 DEF Relayed
  <2>2. runs[r].skdm \in Keys /\ Within(runs[r].skdm, n)
    BY <1>3, <1>4 DEF Runs
  <2>3. \A d \in skdms' : d \in skdms \/ d.skdm = runs[r].skdm
    BY <2>1
  <2> QED BY <1>11, <1>12, <1>14, <2>2, <2>3
<1>15. ASSUME NEW s \in SendIds, PostMessage(s)
       PROVE  KeysOK'
  <2>1. /\ mail' = mail \cup [to : members, wire : {sends[s].wire}] /\ sends[s].stage = "posting"
        /\ UNCHANGED <<skdms, opening, copy>>
    BY <1>15 DEF PostMessage
  <2>2. sends[s].wire \in Keys /\ Within(sends[s].wire, n) /\ sends[s].wire.it < n
    BY <1>3, <1>4, <2>1 DEF Sends, Posted
  <2>3. \A x \in mail' : x \in mail \/ x.wire = sends[s].wire
    BY <2>1
  <2> QED BY <1>11, <1>12, <2>1, <2>2, <2>3
<1>16. ASSUME NEW d \in skdms, InstallDistribution(d)
       PROVE  KeysOK'
  <2>1. /\ skdms' = skdms \ {d} /\ copy' \in {copy, [copy EXCEPT ![d.to] = d.skdm]}
        /\ UNCHANGED <<mail, opening>>
    BY <1>16 DEF InstallDistribution
  <2>2. \A p \in Peers : copy'[p] \in {copy[p], d.skdm}
    BY <1>3, <2>1
  <2> QED BY <1>11, <1>12, <2>1, <2>2
<1>17. ASSUME NEW x \in mail, OpenStart(x)
       PROVE  KeysOK'
  <2>1. mail' = mail \ {x} /\ opening' = opening \cup {x} /\ UNCHANGED <<skdms, copy>>
    BY <1>17 DEF OpenStart
  <2> QED BY <1>11, <1>12, <2>1
<1>18. ASSUME NEW x \in opening, OpenEnd(x)
       PROVE  KeysOK'
  <2>1. /\ opening' = opening \ {x} /\ copy' = [copy EXCEPT ![x.to] = Ratcheted(x.wire)]
        /\ UNCHANGED <<skdms, mail>>
    BY <1>18 DEF OpenEnd
  <2>2. x.wire \in Keys /\ Within(x.wire, n) /\ x.wire.it < n
    BY <1>12
  <2>3. Ratcheted(x.wire) \in Keys /\ Within(Ratcheted(x.wire), n)
    <3>1. x.wire.it \in Nat /\ Ratcheted(x.wire) \in Keys /\ Ratcheted(x.wire).key = x.wire.key
          /\ Ratcheted(x.wire).it = x.wire.it + 1
      BY <2>2, KeyFacts DEF Keys
    <3> QED BY <1>2, <2>2, <3>1 DEF Within
  <2>4. \A p \in Peers : copy'[p] = copy[p] \/ copy'[p] = Ratcheted(x.wire)
    BY <1>3, <2>1
  <2> QED BY <1>11, <1>12, <2>1, <2>3, <2>4
<1> QED BY <1>13, <1>14, <1>15, <1>16, <1>17, <1>18, PeerCases

---------------------------------------------------------------------------
LEMMA CInvInit == Init => CInv
<1> SUFFICES ASSUME Init PROVE CInv
  OBVIOUS
<1>1. /\ \A s \in SendIds : sends[s] = Unsent
      /\ \A r \in RunIds : runs[r] = Idle
      /\ chain = <<>> /\ tracker = Untracked /\ minted = 0 /\ own = NoKey /\ notices = {}
      /\ epoch = 0 /\ unannounced = 0 /\ upsets = 0 /\ online = TRUE /\ encrypted \in BOOLEAN
      /\ rotations = [e \in 1 .. MaxEpoch |-> 0] /\ skdms = {} /\ mail = {} /\ opening = {}
      /\ copy = [p \in Peers |-> NoKey]
  BY DEF Init
<1>2. CallersOK(runs, sends)
  BY <1>1, IdleFacts, KeyFacts, DistinctSmall DEF CallersOK
<1>3. InLineOK(sends, chain)
  BY <1>1, KeyFacts, DistinctSmall DEF InLineOK
<1>4. TrackerOK(tracker, runs)
  BY <1>1, IdleFacts DEF TrackerOK
<1>5. FirstOK
  BY <1>1, IdleFacts, KeyFacts DEF FirstOK
<1>6. MintsOK
  <2>1. \A e \in 1 .. MaxEpoch : 1 .. rotations[e] = {}
    BY <1>1
  <2>2. Pending = {}
    BY <2>1 DEF Pending
  <2> QED BY <1>1, <2>2, FS_EmptySet, GroupKeysAssumption DEF MintsOK, One
<1>7. KeysOK
  <2>1. Ended = {}
    BY <1>1, KeyFacts DEF Ended
  <2>2. Cardinality(Ended) = 0
    BY <2>1, FS_EmptySet
  <2> HIDE DEF Ended
  <2> QED BY <1>1, <2>2, IdleFacts, KeyFacts DEF KeysOK, Within, Posted
<1> QED BY <1>2, <1>3, <1>4, <1>5, <1>6, <1>7 DEF CInv

THEOREM CountsInvariant == GroupKeysSpec => [](GInv /\ CInv)
<1>1. GInv /\ CInv /\ [Next]_vars => CInv'
  <2> SUFFICES ASSUME GInv, CInv, [Next]_vars PROVE CInv'
    OBVIOUS
  <2>1. WaitsOK /\ FirstOK /\ MintsOK /\ KeysOK
    BY DEF CInv, WaitsOK
  <2>2. WaitsStep /\ FirstOK' /\ MintsOK' /\ KeysOK'
    BY <2>1, WaitsKept, FirstStep, MintsStep, KeysStep
  <2> QED BY <2>2 DEF CInv, WaitsStep
<1>2. GInv /\ [Next]_vars => GInv'
  BY SendsStep, KnownStep, RunsStep, WiresStep, PeersStep DEF GInv
<1> QED BY <1>1, <1>2, GInvInit, CInvInit, PTL DEF GroupKeysSpec

\* A sender key is minted for the first message, for a membership change announced, or for
\* the notice that follows a lost connection or a reload: no notice, however often it is
\* repeated or how late it comes, makes more of them.
KeysForChanges == minted <= 1 + epoch + upsets

LEMMA FewKeys == GInv /\ CInv => KeysForChanges
<1> SUFFICES ASSUME GInv, CInv PROVE minted <= 1 + epoch + upsets
  BY DEF KeysForChanges
<1>1. /\ minted \in Nat /\ epoch \in Nat /\ upsets \in Nat
      /\ Cardinality(Pending) \in Nat /\ Cardinality(notices) \in Nat
  BY GroupKeysAssumption, FS_CardinalityType DEF GInv, SendsOK, KnownOK, CInv, MintsOK
<1>2. One(~online) \in Nat /\ One(minted = 0) \in Nat
  BY DEF One
<1>3. minted + Cardinality(Pending) + Cardinality(notices) + One(~online) + One(minted = 0)
          <= 1 + epoch + upsets
  BY DEF CInv, MintsOK
<1> HIDE DEF Pending, One
<1> QED BY <1>1, <1>2, <1>3

\* The keys minted are counted by what was announced and what was disturbed.
THEOREM KeysAreForChanges == GroupKeysSpec => []KeysForChanges
  BY FewKeys, CountsInvariant, PTL

\* The type of every variable, for any group and any bounds: in particular a chain takes
\* no more steps than there are messages, and the keys minted stay within MaxMints.
THEOREM GroupKeysTyped == GroupKeysSpec => []GroupKeysTypeOK
<1>1. GInv /\ CInv => GroupKeysTypeOK
  <2> SUFFICES ASSUME GInv, CInv PROVE GroupKeysTypeOK
    OBVIOUS
  <2> DEFINE n == Cardinality(Ended)
  <2>1. n \in Nat /\ n <= MaxSends
    <3>1. IsFiniteSet(SendIds) /\ Cardinality(SendIds) = MaxSends
      BY GroupKeysAssumption, FS_Interval DEF SendIds
    <3>2. Ended \subseteq SendIds
      BY DEF Ended
    <3> QED BY <3>1, <3>2, FS_Subset, FS_CardinalityType
  <2>2. /\ epoch \in Nat /\ unannounced \in Nat /\ epoch + unannounced <= MaxEpoch
        /\ MaxEpoch \in Nat /\ MaxUpsets \in Nat /\ MaxSends \in Nat /\ minted \in Nat
        /\ upsets \in 0 .. MaxUpsets
    BY GroupKeysAssumption DEF GInv, KnownOK, SendsOK, CInv, MintsOK
  <2>3. epoch <= MaxEpoch /\ epoch \in 0 .. MaxEpoch /\ unannounced \in 0 .. MaxEpoch
    BY <2>2
  <2>4. minted <= MaxMints /\ MaxMints \in Nat
    <3>1. minted <= 1 + epoch + upsets
      BY FewKeys DEF KeysForChanges
    <3> QED BY <2>2, <2>3, <3>1 DEF MaxMints
  <2> HIDE DEF n
  <2>5. ASSUME NEW k \in Keys, k.key <= minted, k.it <= n, k.epoch <= epoch
        PROVE  k \in SenderKeys
    <3>1. k.key \in 0 .. MaxMints /\ k.epoch \in 0 .. MaxEpoch /\ k.it \in 0 .. MaxSends
      BY <2>1, <2>2, <2>3, <2>4, <2>5 DEF Keys
    <3> QED BY <3>1 DEF Keys, SenderKeys
  <2>6. own \in SenderKeys
    BY <2>5 DEF GInv, SendsOK, KnownOK, CInv, KeysOK, Within, n
  <2>7. ASSUME NEW s \in SendIds PROVE sends[s].wire \in SenderKeys
    <3>1. sends[s].wire \in Keys /\ sends[s].wire.epoch <= epoch
      BY DEF GInv, SendsOK, WiresOK, Sends
    <3> QED BY <2>5, <3>1 DEF CInv, KeysOK, Within, n
  <2>8. ASSUME NEW r \in RunIds PROVE runs[r].skdm \in SenderKeys /\ runs[r].at \in 0 .. MaxEpoch
    <3>1. /\ runs[r].skdm \in Keys /\ runs[r].skdm.epoch <= epoch
          /\ runs[r].at \in Nat /\ runs[r].at <= epoch
      BY DEF GInv, RunsOK, Runs
    <3> QED BY <2>2, <2>3, <2>5, <3>1 DEF CInv, KeysOK, Within, n
  <2>9. \A p \in Peers : Late(p) \in Nat /\ Late(p) <= epoch
    BY <2>2 DEF Late, GInv, PeersOK
  <2>10. copy \in [Peers -> SenderKeys]
    <3>1. ASSUME NEW p \in Peers PROVE copy[p] \in SenderKeys
      <4>1. copy[p] \in Keys /\ copy[p].epoch <= Late(p) /\ copy[p].epoch \in Nat
        BY DEF GInv, PeersOK, Keys
      <4>2. copy[p].epoch <= epoch
        BY <2>2, <2>9, <4>1
      <4> QED BY <2>5, <4>1, <4>2 DEF CInv, KeysOK, Within, n
    <3> QED BY <3>1 DEF GInv, PeersOK
  <2>11. skdms \subseteq Distributions
    <3> SUFFICES ASSUME NEW d \in skdms PROVE d \in Distributions
      OBVIOUS
    <3>1. d \in [to : Peers, skdm : Keys] /\ d.skdm.epoch <= Late(d.to)
      BY DEF GInv, PeersOK
    <3>2. d.skdm.epoch \in Nat /\ d.to \in Peers /\ d.skdm \in Keys
      BY <3>1 DEF Keys
    <3>3. d.skdm.epoch <= epoch
      BY <2>2, <2>9, <3>1, <3>2
    <3>4. d.skdm \in SenderKeys
      BY <2>5, <3>2, <3>3 DEF CInv, KeysOK, Within, n
    <3> QED BY <3>1, <3>4 DEF Distributions
  <2>12. mail \cup opening \subseteq Messages
    <3> SUFFICES ASSUME NEW x \in mail \cup opening PROVE x \in Messages
      OBVIOUS
    <3>1. x \in [to : Peers, wire : Keys] /\ x.wire.epoch <= Late(x.to)
      BY DEF GInv, PeersOK
    <3>2. x.wire.epoch \in Nat /\ x.to \in Peers /\ x.wire \in Keys
      BY <3>1 DEF Keys
    <3>3. x.wire.epoch <= epoch
      BY <2>2, <2>9, <3>1, <3>2
    <3>4. x.wire \in SenderKeys
      BY <2>5, <3>2, <3>3 DEF CInv, KeysOK, Within, n
    <3> QED BY <3>1, <3>4 DEF Messages
  <2>13. leftAt \in [Peers -> 0 .. MaxEpoch] /\ notices \subseteq 0 .. MaxEpoch /\ known \in 0 .. MaxEpoch
    <3>1. ASSUME NEW x \in Nat, x <= epoch PROVE x \in 0 .. MaxEpoch
      BY <2>2, <2>3, <3>1
    <3> QED BY <3>1 DEF GInv, PeersOK, KnownOK
  <2>14. /\ runs \in [RunIds -> [stage : {"idle", "listing", "listed", "minting", "relaying"},
                                to : SUBSET Peers, skdm : SenderKeys, at : 0 .. MaxEpoch,
                                callers : Seq(SendIds)]]
         /\ sends \in [SendIds -> [stage : {"unsent", "ensuring", "chained", "encrypting", "posting",
                                           "sent", "failed"},
                                  wire : SenderKeys]]
    <3>1. ASSUME NEW r \in RunIds
          PROVE  runs[r] \in [stage : {"idle", "listing", "listed", "minting", "relaying"},
                              to : SUBSET Peers, skdm : SenderKeys, at : 0 .. MaxEpoch,
                              callers : Seq(SendIds)]
      BY <2>8 DEF GInv, RunsOK, Runs
    <3>2. ASSUME NEW s \in SendIds
          PROVE  sends[s] \in [stage : {"unsent", "ensuring", "chained", "encrypting", "posting",
                                        "sent", "failed"},
                               wire : SenderKeys]
      BY <2>7 DEF GInv, SendsOK, Sends
    <3> QED BY <3>1, <3>2 DEF GInv, RunsOK, SendsOK
  <2>15. /\ members \subseteq Peers /\ rotations \in [1 .. MaxEpoch -> Nat] /\ chain \in Seq(SendIds)
         /\ tracker \in [done : BOOLEAN, inFlight : RunIds \union {NoRun}]
         /\ online \in BOOLEAN /\ encrypted \in BOOLEAN
    BY DEF GInv, PeersOK, KnownOK, SendsOK, CInv, TrackerOK, MintsOK
  <2>16. minted \in 0 .. MaxMints
    BY <2>2, <2>4
  <2> QED BY <2>2, <2>3, <2>6, <2>10, <2>11, <2>12, <2>13, <2>14, <2>15, <2>16 DEF GroupKeysTypeOK
<1> QED BY <1>1, CountsInvariant, PTL

\* Nobody waits for nothing: a send that waits for a distribution waits for a run under way
\* that will answer it, and one that waits for its turn stands behind a send that encrypts.
\* With every call answered or failed this is why a send ends (SendEnds).
THEOREM EveryWaitIsAnswered == GroupKeysSpec => []SomeoneIsAwaited
<1>1. GInv /\ CInv => SomeoneIsAwaited
  <2> SUFFICES ASSUME GInv, CInv, NEW s \in SendIds
               PROVE  /\ sends[s].stage = "ensuring" =>
                            \E r \in RunIds : runs[r].stage # "idle" /\ s \in Range(runs[r].callers)
                      /\ sends[s].stage = "chained" =>
                            s \in Range(Tail(chain)) /\ sends[Head(chain)].stage = "encrypting"
    BY DEF SomeoneIsAwaited
  <2>1. ASSUME NEW r \in RunIds, s \in Range(runs[r].callers)
        PROVE  runs[r].stage # "idle"
    <3>1. Range(Idle.callers) = {}
      BY IdleFacts, DistinctSmall
    <3> QED BY <2>1, <3>1 DEF CInv, CallersOK
  <2>2. ASSUME sends[s].stage = "chained"
        PROVE  s \in Range(Tail(chain)) /\ sends[Head(chain)].stage = "encrypting"
    <3>1. chain \in Seq(SendIds) /\ s \in Range(chain) /\ chain # <<>>
      BY <2>2, DistinctSmall DEF GInv, SendsOK, CInv, InLineOK
    <3>2. sends[Head(chain)].stage = "encrypting"
      BY <3>1 DEF CInv, InLineOK
    <3>3. Range(chain) = Range(Tail(chain)) \cup {Head(chain)}
      BY <3>1, DistinctTail
    <3> QED BY <2>2, <3>1, <3>2, <3>3
  <2> QED BY <2>1, <2>2 DEF CInv, CallersOK
<1> QED BY <1>1, CountsInvariant, PTL

\* There is a key before anything is encrypted, and the first one is minted once: by the
\* one run under way, while no rotation is, although ensureOwnSenderKey reads our key and
\* mints one in different steps.
THEOREM FirstKeyIsFirst == GroupKeysSpec => []FirstOK
<1>1. CInv => FirstOK
  BY DEF CInv
<1> QED BY <1>1, CountsInvariant, PTL
=============================================================================
