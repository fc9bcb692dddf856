------------------------------- MODULE MCRedoDB -------------------------------
(***************************************************************************)
(* RedoDB for TLC, where it is not the store that db.h describes: keys of  *)
(* one byte, and a batch of two operations in the builds that capture by   *)
(* copy.  MCObjects has it where it is.                                    *)
(***************************************************************************)
EXTENDS RedoDB

a == <<1>>
b == <<2>>
v == <<7>>

TwoLetters == {a, b}
OneValue == {v}

(* Both keys share bucket 0; bucket 1 stays empty.                         *)
HashOf(k) == 0

P(key, val) == [op |-> "put", key |-> key, val |-> val]

TwoKeys == [byCopy \in BOOLEAN |-> IF byCopy THEN {<<P(a, v), P(b, v)>>} ELSE {}]
=============================================================================
