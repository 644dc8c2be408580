----------------------------- MODULE Dictionary -----------------------------
(***************************************************************************)
(* What the users of ce_hash_t rely on: a partial map from keys to values. *)
(* last is the call just made, so that a map which changes by itself, or   *)
(* by another call than the one made, is no implementation.                *)
(***************************************************************************)
CONSTANTS Keys,    \* keys in use
          Values,  \* values in use
          None     \* the default_value of a lookup

VARIABLES dict,    \* the value of each key, None for a key that is absent
          last     \* the last call: its name, key and value

vars == <<dict, last>>

Init ==
    /\ dict = [k \in Keys |-> None]
    /\ last = <<"none", None, None>>

Add(k, v) ==
    /\ dict' = [dict EXCEPT ![k] = v]
    /\ last' = <<"add", k, v>>

Remove(k) ==
    /\ dict' = [dict EXCEPT ![k] = None]
    /\ last' = <<"remove", k, None>>

Clean ==
    /\ dict' = [k \in Keys |-> None]
    /\ last' = <<"clean", None, None>>

Clone ==
    /\ UNCHANGED dict
    /\ last' = <<"clone", None, None>>

Next ==
    \/ \E k \in Keys, v \in Values : Add(k, v)
    \/ \E k \in Keys : Remove(k)
    \/ Clean
    \/ Clone

Spec == Init /\ [][Next]_vars
=============================================================================
