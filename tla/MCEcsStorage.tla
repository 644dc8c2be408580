---------------------------- MODULE MCEcsStorage ----------------------------
EXTENDS EcsStorage, TLC

(* Entities are alike; the chunk taken from the pool is always the same one *)
(* of those that are free, so chunks are not permuted.                      *)
Symmetry == Permutations(Entities)
=============================================================================
