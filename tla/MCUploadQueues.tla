--------------------------- MODULE MCUploadQueues ---------------------------
EXTENDS UploadQueues, TLC

CONSTANTS o1, o2, w1, w2

MCObjects == {o1, o2}
MCWorkers == {w1, w2}

\* a replicate task needs the whole scope, a recovery task half of it
MCNeed == [k \in Kinds |-> IF k = "replicate" THEN 2 ELSE 1]

Symm == Permutations(MCObjects) \cup Permutations(MCWorkers)
=============================================================================
