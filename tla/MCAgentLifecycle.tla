-------------------------- MODULE MCAgentLifecycle --------------------------
(* The model-checking instances of AgentLifecycle.                         *)
EXTENDS AgentLifecycle, TLC

(* Handlers and names are interchangeable: no definition picks one.        *)
Symmetry == Permutations(Handlers) \cup Permutations(Names)
=============================================================================
