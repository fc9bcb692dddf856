------------------------------ MODULE TMSkipList ------------------------------
(***************************************************************************)
(* pdatastructures/TMSkipList.hpp.  A node is its key, the header is 0,    *)
(* and forw[n][i] is the next node of n at level i.  A constructor sets    *)
(* only the levels its node has; the others are not in the model, so that  *)
(* reading one is an error.                                                *)
(***************************************************************************)
EXTENDS Integers, FiniteSets, FiniteSetsExt

CONSTANTS
  SK_MAX_LEVEL,
  NULL

header == 0

EmptyList ==
  [forw |-> [n \in {header} |-> [i \in 0 .. SK_MAX_LEVEL |-> NULL]], level |-> 0]

(* The last node before key at level i, coming from x.                     *)
RECURSIVE Walk(_, _, _, _)
Walk(forw, x, i, key) ==
  IF forw[x][i] # NULL /\ forw[x][i] < key
  THEN Walk(forw, forw[x][i], i, key)
  ELSE x

(* update[]: where the search for key leaves each level.                   *)
Update(list, key) ==
  LET update[i \in 0 .. list.level] ==
        Walk(list.forw, IF i = list.level THEN header ELSE update[i + 1], i, key)
  IN update

Found(list, key) == list.forw[Update(list, key)[0]][0] = key

(* lvl is what random_level() returned.                                    *)
add(list, key, lvl) ==
  LET update == Update(list, key)
      before == [i \in 0 .. lvl |-> IF i > list.level THEN header ELSE update[i]]
      after == [i \in 0 .. lvl |-> list.forw[before[i]][i]]
  IN IF Found(list, key) THEN [obj |-> list, ret |-> FALSE]
     ELSE [obj |-> [forw |-> [n \in DOMAIN list.forw \union {key} |->
                       IF n = key THEN after
                       ELSE [i \in DOMAIN list.forw[n] |->
                               IF i <= lvl /\ before[i] = n THEN key
                               ELSE list.forw[n][i]]],
                    level |-> IF lvl > list.level THEN lvl ELSE list.level],
           ret |-> TRUE]

(* Levels that have become empty are given up one by one from the top.     *)
Lowered(forw, level) ==
  Max({0} \union {i \in 0 .. level : forw[header][i] # NULL})

remove(list, key) ==
  LET update == Update(list, key)
      linked == {i \in 0 .. list.level :
                   \A j \in 0 .. i : list.forw[update[j]][j] = key}
      forw == [n \in DOMAIN list.forw \ {key} |->
                 [i \in DOMAIN list.forw[n] |->
                    IF i \in linked /\ update[i] = n THEN list.forw[key][i]
                    ELSE list.forw[n][i]]]
  IN IF Found(list, key)
     THEN [obj |-> [forw |-> forw, level |-> Lowered(forw, list.level)],
           ret |-> TRUE]
     ELSE [obj |-> list, ret |-> FALSE]

-----------------------------------------------------------------------------
(* The nodes that level i links.                                           *)
RECURSIVE From(_, _, _)
From(forw, x, i) == IF x = NULL THEN {} ELSE {x} \union From(forw, forw[x][i], i)

KeysOf(list) == From(list.forw, list.forw[header][0], 0)

(* Every level links, in order, the nodes that are that high, none of them *)
(* freed; no level above `level` has a node, and the top level has one.    *)
Sound(list) ==
  /\ \A i \in 0 .. SK_MAX_LEVEL :
       From(list.forw, list.forw[header][i], i)
         = {n \in DOMAIN list.forw \ {header} : i \in DOMAIN list.forw[n]}
  /\ \A n \in DOMAIN list.forw : \A i \in DOMAIN list.forw[n] :
       list.forw[n][i] # NULL => n < list.forw[n][i]
  /\ \A i \in 0 .. SK_MAX_LEVEL :
       list.forw[header][i] # NULL => i <= list.level
  /\ list.level > 0 => list.forw[header][list.level] # NULL
=============================================================================
