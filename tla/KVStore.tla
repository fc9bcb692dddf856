------------------------------- MODULE KVStore -------------------------------
(***************************************************************************)
(* What db.h and write_batch.h promise of a DB: a map from keys to values, *)
(* safe for concurrent calls, each of which takes effect in one step       *)
(* between its call and its return, a write batch as a whole and in the    *)
(* order in which its operations were added.  A crash loses the calls, and *)
(* nothing that took effect.                                               *)
(***************************************************************************)
EXTENDS Integers, Sequences

CONSTANTS
  Threads,
  Keys,
  Requests,               \* [op, key, val], or [op |-> "write", batch].
  NONE

VARIABLES
  kv,                     \* The value of each key, or NONE.
  call                    \* Per thread: NONE, or its [req, res].

vars == <<kv, call>>

Set(m, o) == [m EXCEPT ![o.key] = IF o.op = "put" THEN o.val ELSE NONE]

(* The map after the first n operations of batch b.                        *)
InOrder(m, b) ==
  LET after[n \in 0 .. Len(b)] == IF n = 0 THEN m ELSE Set(after[n - 1], b[n])
  IN after[Len(b)]

Effect(m, q) ==
  CASE q.op = "get" -> m
    [] q.op = "write" -> InOrder(m, q.batch)
    [] OTHER -> Set(m, q)

(* Get answers the value or NotFound; the others OK: "It is not an error   *)
(* if key did not exist in the database" (db.h, of Delete).                *)
Answer(m, q) == IF q.op = "get" THEN m[q.key] ELSE TRUE

Init ==
  /\ kv = [k \in Keys |-> NONE]
  /\ call = [t \in Threads |-> NONE]

Call(t, q) ==
  /\ call[t] = NONE
  /\ call' = [call EXCEPT ![t] = [req |-> q, res |-> <<>>]]
  /\ UNCHANGED kv

Do(t) ==
  /\ call[t] # NONE /\ call[t].res = <<>>
  /\ kv' = Effect(kv, call[t].req)
  /\ call' = [call EXCEPT ![t].res = <<Answer(kv, call[t].req)>>]

Return(t) ==
  /\ call[t] # NONE /\ call[t].res # <<>>
  /\ call' = [call EXCEPT ![t] = NONE]
  /\ UNCHANGED kv

Crash ==
  /\ call' = [t \in Threads |-> NONE]
  /\ UNCHANGED kv

Next ==
  \/ \E t \in Threads : \/ \E q \in Requests : Call(t, q)
                        \/ Do(t)
                        \/ Return(t)
  \/ Crash

Spec == Init /\ [][Next]_vars
=============================================================================
