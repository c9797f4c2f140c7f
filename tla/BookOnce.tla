------------------------------ MODULE BookOnce ------------------------------
(***************************************************************************)
(* What the travel ledger promises its owner, whatever its callers, the    *)
(* process and the provider do: money is held from before a booking write  *)
(* can exist until it is proven that none does, and a second booking write *)
(* is never issued while the first one may have taken effect.              *)
(* TravelLedger implements this module (TravelLedger!Promise).             *)
(***************************************************************************)
CONSTANT Writes     \* booking writes the provider may ever see

VARIABLES
    hold,   \* the spend authorization: none, reserved, released, committed
    live    \* writes that have taken or may still take effect

Init == hold = "none" /\ live = {}

\* A write is fenced: the money is set aside in the same step.
Dispatch(w) ==
    /\ live = {} /\ hold \in {"none", "released"}
    /\ live' = {w} /\ hold' = "reserved"

\* The provider decides not to book.
Refuse(w) ==
    /\ w \in live /\ hold = "reserved"
    /\ live' = live \ {w} /\ UNCHANGED hold

\* The refusal becomes known.
Release ==
    /\ live = {} /\ hold = "reserved"
    /\ hold' = "released" /\ UNCHANGED live

\* The booking has been read back and verified.
Commit ==
    /\ live # {} /\ hold = "reserved"
    /\ hold' = "committed" /\ UNCHANGED live

Next ==
    \/ \E w \in Writes : Dispatch(w) \/ Refuse(w)
    \/ Release \/ Commit

Spec == Init /\ [][Next]_<<hold, live>>
=============================================================================
