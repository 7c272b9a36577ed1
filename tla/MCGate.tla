------------------------------- MODULE MCGate -------------------------------
(* Instances of Gate for TLC. *)
EXTENDS GateRefinement, TLC

(* Names of one role are interchangeable; used by the safety runs only.     *)
Interchangeable ==
    Permutations(Jobs) \cup Permutations(Maints)
=============================================================================
