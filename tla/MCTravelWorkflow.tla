-------------------------- MODULE MCTravelWorkflow --------------------------
(* TravelWorkflow for TLC: handlers are interchangeable.                   *)
EXTENDS TravelWorkflow, TLC

HandlerSymmetry == Permutations(Callers)
=============================================================================
