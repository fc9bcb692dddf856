-------------------------------- MODULE EsLoco --------------------------------
(***************************************************************************)
(* common/EsLoco.hpp: the allocator of the persistent pool.  Blocks have   *)
(* sizes that are powers of two; a free one waits in the stack of its      *)
(* size, a new one is cut from the top of the pool.  What is below poolTop *)
(* (getUsedSize) is what the PTMs copy from one replica to another.        *)
(*                                                                         *)
(* 1 << b is computed in an int: of IntWidth bits, 32 in the program and   *)
(* in the run.  A smaller width lets a small pool reach the limit.         *)
(***************************************************************************)
EXTENDS Integers, SequencesExt

CONSTANTS
  poolSize,               \* The pool is at 0 .. poolSize - 1.
  Base,                   \* What poolTop and the freelists take of it.
  Header,                 \* sizeof(block).
  kMaxBlockSize,          \* The freelists are 0 .. kMaxBlockSize - 1.
  IntWidth,
  Sizes                   \* The sizes that are asked for.

VARIABLES
  poolTop,
  freelists,              \* freelists[e]: a stack of blocks of size 2^e.
  size,                   \* size[a]: the exponent in the header at a.
  objs                    \* What the client has: <<pointer, size asked>>.

vars == <<poolTop, freelists, size, objs>>

Init ==
  /\ poolTop = Base
  /\ freelists = [e \in 0 .. kMaxBlockSize - 1 |-> <<>>]
  /\ size = [a \in 0 .. poolSize - 1 |-> 0]
  /\ objs = {}

(* The int 1 << b, as the processor shifts: by b modulo the width.         *)
Shl(b) ==
  LET s == b % IntWidth IN IF s = IntWidth - 1 THEN -(2 ^ s) ELSE 2 ^ s

(* val > (1 << b) compares unsigned: a negative int is larger than any val. *)
highestBit(val) ==
  LET b == CHOOSE e \in 0 .. val : 2 ^ e <= val /\ val < 2 ^ (e + 1) IN
  IF Shl(b) >= 0 /\ val > Shl(b) THEN b + 1 ELSE b

(* malloc: unlink a block of the freelist ...                              *)
Reuse(n) ==
  LET e == highestBit(n + Header) IN
  /\ freelists[e] # <<>>
  /\ objs' = objs \cup {<<Head(freelists[e]) + Header, n>>}
  /\ freelists' = [freelists EXCEPT ![e] = Tail(@)]
  /\ UNCHANGED <<poolTop, size>>

FromTopUnchecked(n) ==
  LET e == highestBit(n + Header) IN
  /\ freelists[e] = <<>>
  /\ poolTop < poolSize
  /\ objs' = objs \cup {<<poolTop + Header, n>>}
  /\ poolTop' = poolTop + Shl(e)
  /\ size' = [size EXCEPT ![poolTop] = e]
  /\ UNCHANGED freelists

(* ... or cut one from the top, or return nullptr.                         *)
FromTop(n) ==
  LET e == highestBit(n + Header) IN
  /\ freelists[e] = <<>>
  /\ poolTop + Shl(e) <= poolSize
  /\ objs' = objs \cup {<<poolTop + Header, n>>}
  /\ poolTop' = poolTop + Shl(e)
  /\ size' = [size EXCEPT ![poolTop] = e]
  /\ UNCHANGED freelists

(* The header of the block tells in which freelist it goes.                *)
free(o) ==
  LET block == o[1] - Header IN
  /\ freelists' = [freelists EXCEPT ![size[block]] = <<block>> \o @]
  /\ objs' = objs \ {o}
  /\ UNCHANGED <<poolTop, size>>

malloc(n) == Reuse(n) \/ FromTop(n)

Next == \/ \E n \in Sizes : malloc(n)
        \/ \E o \in objs : free(o)

Spec == Init /\ [][Next]_vars

-----------------------------------------------------------------------------
(* The bytes that an object may use, its header included.                  *)
Span(o) == o[1] - Header .. o[1] + o[2] - 1

FreeBlocks == UNION {{<<a, e>> : a \in ToSet(freelists[e])} :
                       e \in DOMAIN freelists}

Block(a, e) == a .. a + 2 ^ e - 1

(* No two objects share a byte, and none shares one with a free block:     *)
(* whatever was allocated and freed before, and in whatever order.         *)
ObjectsDisjoint ==
  /\ \A o, p \in objs : o # p => Span(o) \cap Span(p) = {}
  /\ \A o \in objs : \A b \in FreeBlocks : Span(o) \cap Block(b[1], b[2]) = {}

(* Every object lies between the freelists and poolTop, and poolTop in the *)
(* pool: a copy of getUsedSize() bytes has them all.                       *)
ObjectsBelowTop ==
  /\ poolTop <= poolSize
  /\ \A o \in objs : Span(o) \subseteq Base .. poolTop - 1

(* Nothing is lost: the blocks cut from the pool are in use or free, and a *)
(* free one is in the stack of its size, once.                             *)
NothingLost ==
  LET inUse == {<<o[1] - Header, size[o[1] - Header]>> : o \in objs} IN
  /\ UNION {Block(b[1], b[2]) : b \in inUse \cup FreeBlocks}
       = Base .. poolTop - 1
  /\ \A e \in DOMAIN freelists :
       /\ IsInjective(freelists[e])
       /\ \A a \in ToSet(freelists[e]) : size[a] = e

(* The blocks of the pool, used and free, are as malloc and free think.    *)
PoolIntact == ObjectsDisjoint /\ ObjectsBelowTop /\ NothingLost
=============================================================================
