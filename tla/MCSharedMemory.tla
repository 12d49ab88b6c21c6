--------------------------- MODULE MCSharedMemory ---------------------------
(* The model-checking instance of SharedMemory: two callers share a handle, *)
(* a third has its own.                                                     *)
EXTENDS SharedMemory, TLC

CONSTANTS p1, p2, p3, h1, h2

MCHandleOf   == (p1 :> h1) @@ (p2 :> h1) @@ (p3 :> h2)
MCEmbeddings == {<<1, 0>>, <<1, 2>>, <<3>>}

Symmetry == Permutations({p1, p2}) \cup Permutations(Agents)
=============================================================================
