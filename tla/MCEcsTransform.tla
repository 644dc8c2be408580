--------------------------- MODULE MCEcsTransform --------------------------
(* EcsTransform with entities that only their names tell apart.             *)
EXTENDS EcsTransform, TLC

Symmetry == Permutations(Entities)
=============================================================================
