----------------------------- MODULE MCGCObject -----------------------------
(* Model-checking instance of GCObject: two workers, three deleted objects  *)
(* of which two are deleted in the same block, ranges of two blocks.        *)
EXTENDS GCObject, TLC

CONSTANTS w1, w2

MCWorkers == {w1, w2}

\* objects 2 and 3 are deleted in the same block: the skip test must keep both
MCDeleteAt == (1 :> 1) @@ (2 :> 2) @@ (3 :> 2)

WorkerSymmetry == Permutations(MCWorkers)
=============================================================================
