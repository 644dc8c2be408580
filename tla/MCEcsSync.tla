----------------------------- MODULE MCEcsSync -----------------------------
(* EcsSync with a loaded tree of a root and two children; the two component *)
(* objects are alike (no sequence is ever made of a set of them).           *)
EXTENDS EcsSync, TLC

MCFirstKids == [o \in EntObjs |-> IF o = "root" THEN {"a", "b"} ELSE {}]
CompSymmetry == Permutations(CompObjs)
=============================================================================
