------------------------------ MODULE MCOneFile ------------------------------
(***************************************************************************)
(* OneFile for TLC, one thread: transactions of two words and a crash.     *)
(***************************************************************************)
EXTENDS OneFile

CONSTANTS x, y

TwoWords ==
  {[requests |-> {{x, y}}, writers |-> {0}, readers |-> {},
    budget |-> [t \in Threads |-> 2], crashes |-> 1]}
=============================================================================
