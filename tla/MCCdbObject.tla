---------------------------- MODULE MCCdbObject ----------------------------
EXTENDS CdbObject, TLC

(* The places of the pool are alike, and so are the uids that the           *)
(* configuration does not single out.                                       *)
Singled == IF Roots = Uids THEN SubUids ELSE Roots \union SubUids
Symmetry == Permutations(Slots) \union Permutations(Uids \ Singled)
=============================================================================
