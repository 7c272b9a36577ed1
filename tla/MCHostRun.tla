------------------------------ MODULE MCHostRun ------------------------------
(* Instances of HostRun for TLC. *)
EXTENDS HostRun
==============================================================================
