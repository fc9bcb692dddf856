---------------------------- MODULE TMLinkedListSet ----------------------------
(***************************************************************************)
(* pdatastructures/TMLinkedListSet.hpp: a list of nodes between two        *)
(* sentinels, in the order of their keys.                                  *)
(***************************************************************************)
EXTENDS Integers, SequencesExt

EmptyList == <<>>

(* find(): the place of the first node not below key, tail if there is none. *)
find(list, key) ==
  LET at == SelectInSeq(list, LAMBDA k : ~(k < key)) IN
  IF at = 0 THEN Len(list) + 1 ELSE at

Present(list, at, key) == at # Len(list) + 1 /\ list[at] = key

add(list, key) ==
  LET at == find(list, key) IN
  IF Present(list, at, key) THEN [obj |-> list, ret |-> FALSE]
  ELSE [obj |-> InsertAt(list, at, key), ret |-> TRUE]

remove(list, key) ==
  LET at == find(list, key) IN
  IF Present(list, at, key) THEN [obj |-> RemoveAt(list, at), ret |-> TRUE]
  ELSE [obj |-> list, ret |-> FALSE]

contains(list, key) == Present(list, find(list, key), key)

(* The list stays in order, on which find() relies.                        *)
Sound(list) == \A i \in 1 .. Len(list) - 1 : list[i] < list[i + 1]
=============================================================================
