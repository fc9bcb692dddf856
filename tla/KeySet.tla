-------------------------------- MODULE KeySet --------------------------------
(***************************************************************************)
(* What the persistent sets promise: add() tells whether the key is new,   *)
(* remove() whether it was there, contains() whether it is.                *)
(***************************************************************************)
CONSTANT Keys

VARIABLES
  keys,                   \* The keys in the set.
  ret                     \* The last answer.

vars == <<keys, ret>>

Init == keys = {} /\ ret = FALSE

Add(k) == keys' = keys \union {k} /\ ret' = (k \notin keys)

Remove(k) == keys' = keys \ {k} /\ ret' = (k \in keys)

Contains(k) == ret' = (k \in keys) /\ UNCHANGED keys

Next == \E k \in Keys : Add(k) \/ Remove(k) \/ Contains(k)

Spec == Init /\ [][Next]_vars
=============================================================================
