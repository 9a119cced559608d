---------------------------- MODULE MCOrchestrator ----------------------------
(* Orchestrator for TLC: every plan the planner can make, with two faults.     *)
EXTENDS Orchestrator
=============================================================================
