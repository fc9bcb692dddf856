-------------------------- MODULE TMResizableHashMap --------------------------
(***************************************************************************)
(* pdatastructures/TMHashMap.hpp: the hash map of the benchmarks, which    *)
(* doubles its buckets when it is three quarters full.  A bucket is its    *)
(* chain of keys, each its own value, and hash(k) is k, as for integers.   *)
(***************************************************************************)
EXTENDS Integers, SequencesExt

CONSTANT Capacity0        \* The capacity the map starts with.

EmptyMap == [buckets |-> [h \in 0 .. Capacity0 - 1 |-> <<>>],
             capacity |-> Capacity0, sizeHM |-> 0]

Chain(hm, key) == hm.buckets[key % hm.capacity]

Has(hm, key) == Contains(Chain(hm, key), key)

(* The nodes of a chain go to the front of their new chains one by one; a  *)
(* new bucket takes them from one old bucket only.                         *)
rebuild(hm) ==
  LET newcapacity == 2 * hm.capacity IN
  [hm EXCEPT
     !.buckets = [h \in 0 .. newcapacity - 1 |->
        Reverse(SelectSeq(hm.buckets[h % hm.capacity],
                          LAMBDA k : k % newcapacity = h))],
     !.capacity = newcapacity]

(* The test of HM_LOAD_FACTOR comes before the search.                     *)
innerPut(hm, key) ==
  LET m == IF 4 * hm.sizeHM > 3 * hm.capacity THEN rebuild(hm) ELSE hm IN
  IF Has(m, key) THEN [obj |-> m, ret |-> FALSE]
  ELSE [obj |-> [m EXCEPT !.buckets[key % m.capacity] = Append(@, key),
                          !.sizeHM = @ + 1],
        ret |-> TRUE]

innerRemove(hm, key) ==
  IF Has(hm, key)
  THEN [obj |-> [hm EXCEPT
                   !.buckets[key % hm.capacity] =
                      SelectSeq(@, LAMBDA k : k # key),
                   !.sizeHM = @ - 1],
        ret |-> TRUE]
  ELSE [obj |-> hm, ret |-> FALSE]

-----------------------------------------------------------------------------
KeysOf(hm) == UNION {ToSet(hm.buckets[h]) : h \in 0 .. hm.capacity - 1}

(* Every node is in the chain of its key, no key has two, and sizeHM, on   *)
(* which the growth of the map depends, counts them.                       *)
Sound(hm) ==
  /\ DOMAIN hm.buckets = 0 .. hm.capacity - 1
  /\ \A h \in DOMAIN hm.buckets :
       /\ IsInjective(hm.buckets[h])
       /\ \A k \in ToSet(hm.buckets[h]) : k % hm.capacity = h
  /\ hm.sizeHM = Cardinality(KeysOf(hm))
=============================================================================
