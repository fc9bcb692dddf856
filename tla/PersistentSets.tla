---------------------------- MODULE PersistentSets ----------------------------
(***************************************************************************)
(* The sets of src/pdatastructures.  Each operation is a transaction, so   *)
(* the model takes them one by one; kind is the set a behaviour is of.     *)
(***************************************************************************)
EXTENDS Integers, FiniteSets

CONSTANTS Keys, NULL

VARIABLES kind, obj, ret

vars == <<kind, obj, ret>>

Tree == INSTANCE TMRedBlackTree WITH Addresses <- Keys \union {0}
Skip == INSTANCE TMSkipList WITH SK_MAX_LEVEL <- 2
Hash == INSTANCE TMResizableHashMap WITH Capacity0 <- 2
List == INSTANCE TMLinkedListSet

Init ==
  /\ \/ kind = "tree" /\ obj = Tree!EmptyTree
     \/ kind = "skiplist" /\ obj = Skip!EmptyList
     \/ kind = "map" /\ obj = Hash!EmptyMap
     \/ kind = "list" /\ obj = List!EmptyList
  /\ ret = FALSE

(* An operation leaves the object and the answer in r.                     *)
Becomes(r) == obj' = r.obj /\ ret' = r.ret /\ UNCHANGED kind

Add(k) ==
  \/ kind = "tree" /\ Becomes(Tree!innerPut(obj, k))
  \/ kind = "skiplist" /\ \E lvl \in 0 .. 2 : Becomes(Skip!add(obj, k, lvl))
  \/ kind = "map" /\ Becomes(Hash!innerPut(obj, k))
  \/ kind = "list" /\ Becomes(List!add(obj, k))

Remove(k) ==
  \/ kind = "tree" /\ Becomes(Tree!remove(obj, k))
  \/ kind = "skiplist" /\ Becomes(Skip!remove(obj, k))
  \/ kind = "map" /\ Becomes(Hash!innerRemove(obj, k))
  \/ kind = "list" /\ Becomes(List!remove(obj, k))

Contains(k) ==
  /\ \/ kind = "tree" /\ ret' = Tree!get(obj.root, k)
     \/ kind = "skiplist" /\ ret' = Skip!Found(obj, k)
     \/ kind = "map" /\ ret' = Hash!Has(obj, k)
     \/ kind = "list" /\ ret' = List!contains(obj, k)
  /\ UNCHANGED <<kind, obj>>

Next == \E k \in Keys : Add(k) \/ Remove(k) \/ Contains(k)

Spec == Init /\ [][Next]_vars

-----------------------------------------------------------------------------
keys ==
  CASE kind = "tree" -> Tree!KeysOf(obj.root)
    [] kind = "skiplist" -> Skip!KeysOf(obj)
    [] kind = "map" -> Hash!KeysOf(obj)
    [] kind = "list" -> {obj[i] : i \in DOMAIN obj}
    [] OTHER -> {}

Set == INSTANCE KeySet

(* Whatever was added and removed before, a set answers as KeySet does ... *)
AbstractSet == Set!Spec

(* ... and keeps its shape: balanced, in order, every node reachable and   *)
(* no node freed that is.                                                  *)
Sound ==
  CASE kind = "tree" -> Tree!Sound(obj)
    [] kind = "skiplist" -> Skip!Sound(obj)
    [] kind = "map" -> Hash!Sound(obj)
    [] kind = "list" -> List!Sound(obj)
    [] OTHER -> TRUE
=============================================================================
