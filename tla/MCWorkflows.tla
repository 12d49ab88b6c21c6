---------------------------- MODULE MCWorkflows ----------------------------
(* The instances of Workflows that TLC checks: every workflow of up to      *)
(* MaxSteps steps is offered.                                               *)
EXTENDS Workflows
=============================================================================
