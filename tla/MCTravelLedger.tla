--------------------------- MODULE MCTravelLedger ---------------------------
(* TravelLedger for TLC: callers are interchangeable.                      *)
EXTENDS TravelLedger, TLC

CallerSymmetry == Permutations(Callers)
=============================================================================
