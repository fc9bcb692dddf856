------------------------------ MODULE MCRedoOpt ------------------------------
(***************************************************************************)
(* RedoOpt for TLC: the number of transactions of each thread.             *)
(***************************************************************************)
EXTENDS RedoOpt

OneEach == [t \in Threads |-> 1]
TwoEach == [t \in Threads |-> 2]
ThreeOne == [t \in Threads |-> IF t = 0 THEN 3 ELSE 1]
=============================================================================
