------------------------------ MODULE FifoQueue ------------------------------
(***************************************************************************)
(* What the persistent queues promise while they run: a linearizable FIFO  *)
(* queue.  Every call takes effect at one moment between its begin and its *)
(* return; a dequeue takes the oldest item, or says EMPTY when there is    *)
(* none.                                                                   *)
(***************************************************************************)
EXTENDS Sequences

CONSTANTS Threads, Items, DEQ, EMPTY, OK, NONE

VARIABLES
  items,                  \* The queue.
  op,                     \* The call each thread has open: an item or DEQ.
  res,                    \* Its result, once it has taken effect.
  ret                     \* The last answer given to each thread.

vars == <<items, op, res, ret>>

Init ==
  /\ items = <<>>
  /\ op = [t \in Threads |-> NONE]
  /\ res = [t \in Threads |-> NONE]
  /\ ret = [t \in Threads |-> NONE]

Invoke(t) ==
  /\ op[t] = NONE
  /\ \E o \in Items \union {DEQ} : op' = [op EXCEPT ![t] = o]
  /\ UNCHANGED <<items, res, ret>>

Effect(t) ==
  /\ op[t] # NONE /\ res[t] = NONE
  /\ \/ /\ op[t] # DEQ
        /\ items' = Append(items, op[t])
        /\ res' = [res EXCEPT ![t] = OK]
     \/ /\ op[t] = DEQ /\ items # <<>>
        /\ items' = Tail(items)
        /\ res' = [res EXCEPT ![t] = Head(items)]
     \/ /\ op[t] = DEQ /\ items = <<>>
        /\ res' = [res EXCEPT ![t] = EMPTY]
        /\ UNCHANGED items
  /\ UNCHANGED <<op, ret>>

Respond(t) ==
  /\ res[t] # NONE
  /\ ret' = [ret EXCEPT ![t] = res[t]]
  /\ op' = [op EXCEPT ![t] = NONE]
  /\ res' = [res EXCEPT ![t] = NONE]
  /\ UNCHANGED items

Next == \E t \in Threads : Invoke(t) \/ Effect(t) \/ Respond(t)

Spec == Init /\ [][Next]_vars
=============================================================================
