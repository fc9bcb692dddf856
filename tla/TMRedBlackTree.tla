---------------------------- MODULE TMRedBlackTree ----------------------------
(***************************************************************************)
(* pdatastructures/TMRedBlackTree.hpp: a left-leaning red-black tree whose *)
(* operations each run in one transaction.  A subtree is its root node, a  *)
(* record with the subtrees below it, or NULL; at is the address of a      *)
(* node, so that the model tells which one tmDelete gets.  The value of a  *)
(* key is the key, as add() has it.  Following NULL is an error of the     *)
(* model as it is of the code.                                             *)
(***************************************************************************)
EXTENDS Integers, FiniteSets

CONSTANTS
  Addresses,              \* Where nodes may be allocated: numbers.
  NULL

RED == 0
BLACK == 1

EmptyTree == [root |-> NULL, live |-> {}]

isRed(x) == x # NULL /\ x.color = RED

size(x) == IF x = NULL THEN 0 ELSE x.size

Resized(h) == [h EXCEPT !.size = size(h.left) + size(h.right) + 1]

rotateRight(h) ==
  LET x == h.left IN
  [x EXCEPT !.right = Resized([h EXCEPT !.left = x.right, !.color = RED]),
            !.color = h.color, !.size = h.size]

rotateLeft(h) ==
  LET x == h.right IN
  [x EXCEPT !.left = Resized([h EXCEPT !.right = x.left, !.color = RED]),
            !.color = h.color, !.size = h.size]

flipColors(h) ==
  [h EXCEPT !.color = 1 - @, !.left.color = 1 - @, !.right.color = 1 - @]

(* The end of put() and of balance(), after the first test of each.        *)
Fixed(h) ==
  LET up == IF isRed(h.left) /\ isRed(h.left.left) THEN rotateRight(h) ELSE h
  IN Resized(IF isRed(up.left) /\ isRed(up.right) THEN flipColors(up) ELSE up)

balance(h) == Fixed(IF isRed(h.right) THEN rotateLeft(h) ELSE h)

-----------------------------------------------------------------------------
Blackened(x) == IF x = NULL THEN NULL ELSE [x EXCEPT !.color = BLACK]

RECURSIVE get(_, _)
get(x, key) ==
  /\ x # NULL
  /\ \/ key = x.key
     \/ key < x.key /\ get(x.left, key)
     \/ x.key < key /\ get(x.right, key)

(* The subtree with key, in a node at address new if it had none.          *)
RECURSIVE put(_, _, _)
put(h, key, new) ==
  IF h = NULL
  THEN [at |-> new, key |-> key, left |-> NULL, right |-> NULL,
        color |-> RED, size |-> 1]
  ELSE LET under == IF key < h.key
                    THEN [h EXCEPT !.left = put(@, key, new)]
                    ELSE IF h.key < key
                    THEN [h EXCEPT !.right = put(@, key, new)]
                    ELSE h
       IN Fixed(IF isRed(under.right) /\ ~isRed(under.left)
                THEN rotateLeft(under) ELSE under)

RECURSIVE At(_)
At(x) == IF x = NULL THEN {} ELSE {x.at} \union At(x.left) \union At(x.right)

(* tmNew takes a free address; ret is whether it was called.               *)
innerPut(tree, key) ==
  LET new == CHOOSE a \in Addresses \ tree.live :
               \A b \in Addresses \ tree.live : a <= b
      root == Blackened(put(tree.root, key, new))
      ret == new \in At(root)
  IN [obj |-> [root |-> root,
               live |-> IF ret THEN tree.live \union {new} ELSE tree.live],
      ret |-> ret]

-----------------------------------------------------------------------------
(* A deletion gives the subtree that is left, and what it freed so far.    *)

moveRedLeft(h) ==
  LET f == flipColors(h) IN
  IF isRed(f.right.left)
  THEN flipColors(rotateLeft([f EXCEPT !.right = rotateRight(@)]))
  ELSE f

moveRedRight(h) ==
  LET f == flipColors(h) IN
  IF isRed(f.left.left) THEN flipColors(rotateRight(f)) ELSE f

(* Never freeing: z is overwritten and that is all.                        *)
assignOnly(z, d) == d.freed

(* assignAndFreeIfNull(z, d): what is freed.                               *)
assignAndFreeIfNull(z, d) ==
  IF d.sub = NULL THEN d.freed \union {z.at} ELSE d.freed

Left(h, d) ==
  [sub |-> balance([h EXCEPT !.left = d.sub]),
   freed |-> assignAndFreeIfNull(h.left, d)]

Right(h, d) ==
  [sub |-> balance([h EXCEPT !.right = d.sub]),
   freed |-> assignAndFreeIfNull(h.right, d)]

Nothing == [sub |-> NULL, freed |-> {}]

RedToTheLeft(h) ==
  IF ~isRed(h.left) /\ ~isRed(h.left.left) THEN moveRedLeft(h) ELSE h

RECURSIVE deleteMin(_)
deleteMin(h) ==
  IF h.left = NULL THEN Nothing
  ELSE LET m == RedToTheLeft(h) IN Left(m, deleteMin(m.left))

RECURSIVE min(_)
min(x) == IF x.left = NULL THEN x ELSE min(x.left)

(* Deleting to the right of h, which may be what is to be deleted, without *)
(* bringing a red link along.                                              *)
RECURSIVE deleteKey(_, _)
deleteKey(h, key) ==
  IF key < h.key
  THEN LET m == RedToTheLeft(h) IN Left(m, deleteKey(m.left, key))
  ELSE LET r == IF isRed(h.left) THEN rotateRight(h) ELSE h
           m == IF ~isRed(r.right) /\ ~isRed(r.right.left)
                THEN moveRedRight(r) ELSE r
       IN IF key = r.key /\ r.right = NULL THEN Nothing
          ELSE IF key = m.key
          THEN Right([m EXCEPT !.key = min(m.right).key], deleteMin(m.right))
          ELSE Right(m, deleteKey(m.right, key))

innerRemove(tree, key) ==
  LET root == IF ~isRed(tree.root.left) /\ ~isRed(tree.root.right)
              THEN [tree.root EXCEPT !.color = RED] ELSE tree.root
      d == deleteKey(root, key)
  IN [root |-> Blackened(d.sub),
      live |-> tree.live \ assignAndFreeIfNull(root, d)]

remove(tree, key) ==
  IF get(tree.root, key)
  THEN [obj |-> innerRemove(tree, key), ret |-> TRUE]
  ELSE [obj |-> tree, ret |-> FALSE]

-----------------------------------------------------------------------------
(* check(), which the code calls in comments only.                         *)

RECURSIVE isSizeConsistent(_)
isSizeConsistent(x) ==
  x = NULL \/ /\ x.size = size(x.left) + size(x.right) + 1
              /\ isSizeConsistent(x.left) /\ isSizeConsistent(x.right)

RECURSIVE is23(_, _)
is23(x, root) ==
  x = NULL \/ /\ ~isRed(x.right)
              /\ ~(x # root /\ isRed(x) /\ isRed(x.left))
              /\ is23(x.left, root) /\ is23(x.right, root)

RECURSIVE BlackLinks(_)
BlackLinks(x) ==
  IF x = NULL THEN 0 ELSE BlackLinks(x.left) + (IF isRed(x) THEN 0 ELSE 1)

RECURSIVE isBalanced(_, _)
isBalanced(x, black) ==
  IF x = NULL THEN black = 0
  ELSE LET below == IF isRed(x) THEN black ELSE black - 1 IN
       isBalanced(x.left, below) /\ isBalanced(x.right, below)

check(root) ==
  isSizeConsistent(root) /\ is23(root, root) /\ isBalanced(root, BlackLinks(root))

-----------------------------------------------------------------------------
RECURSIVE KeysOf(_)
KeysOf(x) ==
  IF x = NULL THEN {} ELSE {x.key} \union KeysOf(x.left) \union KeysOf(x.right)

RECURSIVE Ordered(_)
Ordered(x) ==
  x = NULL \/ /\ \A k \in KeysOf(x.left) : k < x.key
              /\ \A k \in KeysOf(x.right) : x.key < k
              /\ Ordered(x.left) /\ Ordered(x.right)

(* After each operation the tree passes check(), is ordered, which the     *)
(* isBST of the code no longer compares, and the nodes that tmDelete did   *)
(* not get are those of the tree, one for each key.                        *)
Sound(tree) ==
  /\ check(tree.root)
  /\ Ordered(tree.root)
  /\ tree.live = At(tree.root)
  /\ Cardinality(tree.live) = Cardinality(KeysOf(tree.root))
=============================================================================
