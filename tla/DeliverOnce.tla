---------------------------- MODULE DeliverOnce ----------------------------
(***************************************************************************)
(* What the bridge promises the owner of one run about its start and the   *)
(* instructions that follow, whatever fails, is given up, arrives late or  *)
(* dies: each is handed over at most once and after everything before it   *)
(* is settled or withdrawn; what was withdrawn is never handed over, and   *)
(* nothing is once one is in doubt; only what the worker has carried out   *)
(* counts as delivered.  AgentBridge implements this module, run by run    *)
(* (AgentBridge!DeliversOnce).                                             *)
(***************************************************************************)
EXTENDS Naturals

CONSTANT Last       \* the start is letter 0, the instructions are 1 .. Last

VARIABLES
    letter,     \* what has become of each: none, kept, taken, settled, doubtful, withdrawn
    copies,     \* how often each was handed over
    done        \* those the worker has carried out

Letters == 0 .. Last

Init ==
    /\ letter = [n \in Letters |-> "none"]
    /\ copies = [n \in Letters |-> 0]
    /\ done = {}

\* n follows the letters given so far.
Follows(n) == \A k \in Letters : letter[k] = "none" <=> k >= n

Give(n) ==
    /\ Follows(n)
    /\ letter' = [letter EXCEPT ![n] = "kept"]
    /\ UNCHANGED <<copies, done>>

\* A Stop withdraws what is kept and is kept itself; when the start is still kept
\* there is nothing to stop, and it is settled.
Withdraw(n) ==
    /\ Follows(n) /\ n # 0
    /\ letter' = [k \in Letters |->
                    IF k = n THEN IF letter[0] = "kept" THEN "settled" ELSE "kept"
                    ELSE IF letter[k] = "kept" THEN "withdrawn" ELSE letter[k]]
    /\ UNCHANGED <<copies, done>>

Take(n) ==
    /\ letter[n] = "kept"
    /\ n # 0 => letter[0] = "settled"
    /\ \A k \in Letters : k < n => letter[k] \in {"settled", "withdrawn"}
    /\ letter' = [letter EXCEPT ![n] = "taken"]
    /\ UNCHANGED <<copies, done>>

HandOver(n) ==
    /\ letter[n] = "taken" /\ copies[n] = 0
    /\ copies' = [copies EXCEPT ![n] = 1]
    /\ UNCHANGED <<letter, done>>

\* It may arrive at any time after that, also when nobody waits for it any more.
CarryOut(n) ==
    /\ copies[n] = 1 /\ n \notin done
    /\ done' = done \union {n}
    /\ UNCHANGED <<letter, copies>>

Settle(n) ==
    /\ letter[n] = "taken" /\ n \in done
    /\ letter' = [letter EXCEPT ![n] = "settled"]
    /\ UNCHANGED <<copies, done>>

\* Nobody knows any more whether it was or will be carried out.
Doubt ==
    /\ letter' = [k \in Letters |-> IF letter[k] = "taken" THEN "doubtful" ELSE letter[k]]
    /\ UNCHANGED <<copies, done>>

Next ==
    \/ Doubt
    \/ \E n \in Letters :
          Give(n) \/ Withdraw(n) \/ Take(n) \/ HandOver(n) \/ CarryOut(n) \/ Settle(n)

delivery == <<letter, copies, done>>

Step == [Next]_delivery

Spec == Init /\ [][Next]_delivery
=============================================================================
