------------------------------ MODULE TMHashMap ------------------------------
(***************************************************************************)
(* ptmdb/TMHashMap.hpp: the hash map behind RedoDB, as functions of a map. *)
(* A map is the chains of nodes of its buckets; nothing counts sizeHM any  *)
(* more.  Each function runs in one transaction.                           *)
(***************************************************************************)
EXTENDS Integers, SequencesExt

CONSTANTS
  Capacity,               \* The buckets are 0 .. Capacity - 1.
  Hash(_),                \* std::hash<Slice>(key) % capacity.
  NONE

Buckets == 0 .. Capacity - 1

EmptyMap == [buckets |-> [h \in Buckets |-> <<>>]]

(* Where the walk down key's chain stops: the place of its node, or 0.     *)
Find(hm, key) == SelectInSeq(hm.buckets[Hash(key)], LAMBDA n : n.key = key)

(* A new node goes to the end of the chain; an old one gets the value.     *)
innerPut(hm, key, value) ==
  LET at == Find(hm, key) IN
  IF at = 0
  THEN [hm EXCEPT !.buckets[Hash(key)] =
          Append(@, [key |-> key, val |-> value])]
  ELSE [hm EXCEPT !.buckets[Hash(key)][at].val = value]

innerRemove(hm, key) ==
  LET at == Find(hm, key) IN
  IF at = 0 THEN hm
  ELSE [hm EXCEPT !.buckets[Hash(key)] = RemoveAt(@, at)]

innerGet(hm, key) ==
  LET at == Find(hm, key) IN
  IF at = 0 THEN NONE ELSE hm.buckets[Hash(key)][at].val
=============================================================================
