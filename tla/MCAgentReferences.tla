------------------------- MODULE MCAgentReferences -------------------------
(* The model-checking instance of AgentReferences.                         *)
EXTENDS AgentReferences, TLC

(* Handlers, volumes and users are interchangeable.                        *)
Symmetry == Permutations(Handlers) \cup Permutations(VolumeIds)
=============================================================================
