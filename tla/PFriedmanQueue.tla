---------------------------- MODULE PFriedmanQueue ----------------------------
(***************************************************************************)
(* pdatastructures/pqueues/PFriedmanQueue.hpp: the lock-free persistent    *)
(* queue the benchmarks compare with.  A node is the item it carries.  Its *)
(* next and its deqThreadID change once, so all a crash can do is to take  *)
(* a change back that no PWB followed: durNext and durDeq are the nodes    *)
(* whose next and whose deqThreadID are safe.  Nothing is freed, and       *)
(* recover() is not modelled: its body is a TODO.                          *)
(***************************************************************************)
EXTENDS Integers, Sequences, FiniteSets

CONSTANTS
  MaxThreads,
  MaxOps,                 \* Bound: calls of each thread.
  DEQ, EMPTY, OK, NONE

Threads == 0 .. MaxThreads - 1
Items == Threads \X (1 .. MaxOps)
sentinel == <<0, 0>>
Nodes == Items \union {sentinel}

VARIABLES
  head, tail, next, deqThreadID,
  durNext, durDeq,
  returnedValues,         \* Per thread, its newest cell: the number of it.
  cell,                   \* The cells of each thread.
  pc, calls,              \* Per thread; calls: how many it has begun.
  first, last, lnext,     \* The locals of a call.
  address,
  list,                   \* History: the nodes, as they were linked.
  op, res, ret            \* History: the open call and its effect.

linkVars == <<head, tail, next, deqThreadID, list>>
durVars == <<durNext, durDeq>>
cellVars == <<returnedValues, cell>>
localVars == <<first, last, lnext, address>>
historyVars == <<op, res, ret>>
vars == <<linkVars, durVars, cellVars, pc, calls, localVars, historyVars>>

Init ==
  /\ head = sentinel /\ tail = sentinel
  /\ next = [n \in Nodes |-> NONE]
  /\ deqThreadID = [n \in Nodes |-> NONE]
  /\ list = <<>>
  /\ durNext = {} /\ durDeq = {}
  /\ returnedValues = [t \in Threads |-> 0]
  /\ cell = [t \in Threads |-> [k \in 0 .. MaxOps |-> EMPTY]]
  /\ pc = [t \in Threads |-> "idle"]
  /\ calls = [t \in Threads |-> 0]
  /\ first = [t \in Threads |-> sentinel] /\ last = first
  /\ lnext = [t \in Threads |-> NONE] /\ address = lnext
  /\ op = [t \in Threads |-> NONE] /\ res = op /\ ret = op

Goto(t, from, to) == pc[t] = from /\ pc' = [pc EXCEPT ![t] = to]

Mine(t) == <<t, calls[t]>>

Begin(t, o) ==
  /\ calls[t] < MaxOps
  /\ calls' = [calls EXCEPT ![t] = @ + 1]
  /\ op' = [op EXCEPT ![t] = o]
  /\ UNCHANGED <<res, ret>>

Effect(t, r) == res' = [res EXCEPT ![t] = r] /\ UNCHANGED <<op, ret>>

Respond(t, r) ==
  /\ ret' = [ret EXCEPT ![t] = r]
  /\ op' = [op EXCEPT ![t] = NONE]
  /\ res' = [res EXCEPT ![t] = NONE]

-----------------------------------------------------------------------------
(***************************************************************************)
(* enqueue                                                                 *)
(***************************************************************************)
BeginEnqueue(t) ==
  /\ Begin(t, <<t, calls[t] + 1>>)
  /\ Goto(t, "idle", "e_tail")
  /\ UNCHANGED <<linkVars, durVars, cellVars, localVars>>

EnqueueTail(t) ==
  /\ Goto(t, "e_tail", "e_check")
  /\ last' = [last EXCEPT ![t] = tail]
  /\ UNCHANGED <<linkVars, durVars, cellVars, calls, first, lnext, address,
                 historyVars>>

EnqueueCheck(t) ==
  /\ Goto(t, "e_check", IF last[t] = tail THEN "e_next" ELSE "e_tail")
  /\ UNCHANGED <<linkVars, durVars, cellVars, calls, localVars, historyVars>>

EnqueueNext(t) ==
  /\ lnext' = [lnext EXCEPT ![t] = next[last[t]]]
  /\ Goto(t, "e_next", IF lnext'[t] = NONE THEN "e_cas" ELSE "e_flush")
  /\ UNCHANGED <<linkVars, durVars, cellVars, calls, first, last, address,
                 historyVars>>

(* casNext: the item is in the queue.                                      *)
CasNext(t) ==
  /\ \/ /\ next[last[t]] = NONE
        /\ Goto(t, "e_cas", "e_flush")
        /\ next' = [next EXCEPT ![last[t]] = Mine(t)]
        /\ list' = Append(list, Mine(t))
        /\ lnext' = [lnext EXCEPT ![t] = Mine(t)]
        /\ Effect(t, OK)
     \/ /\ next[last[t]] # NONE
        /\ Goto(t, "e_cas", "e_tail")
        /\ UNCHANGED <<next, list, lnext, historyVars>>
  /\ UNCHANGED <<head, tail, deqThreadID, durVars, cellVars, calls, first, last,
                 address>>

(* PWB of last->next and PSYNC, mine or another's.                         *)
EnqueueFlush(t) ==
  /\ Goto(t, "e_flush", "e_swing")
  /\ durNext' = durNext \union {last[t]}
  /\ UNCHANGED <<linkVars, durDeq, cellVars, calls, localVars, historyVars>>

CasTail(t) ==
  /\ tail' = IF tail = last[t] THEN lnext[t] ELSE tail
  /\ UNCHANGED <<head, next, deqThreadID, list>>

EnqueueSwing(t) ==
  /\ CasTail(t)
  /\ \/ /\ lnext[t] = Mine(t)
        /\ Goto(t, "e_swing", "idle") /\ Respond(t, OK)
     \/ /\ lnext[t] # Mine(t)
        /\ Goto(t, "e_swing", "e_tail") /\ UNCHANGED historyVars
  /\ UNCHANGED <<durVars, cellVars, calls, localVars>>

-----------------------------------------------------------------------------
(***************************************************************************)
(* dequeue                                                                 *)
(***************************************************************************)
BeginDequeue(t) ==
  /\ Begin(t, DEQ)
  /\ Goto(t, "idle", "d_head")
  /\ returnedValues' = [returnedValues EXCEPT ![t] = calls'[t]]
  /\ UNCHANGED <<linkVars, durVars, cell, localVars>>

DequeueHead(t) ==
  /\ Goto(t, "d_head", "d_tail")
  /\ first' = [first EXCEPT ![t] = head]
  /\ UNCHANGED <<linkVars, durVars, cellVars, calls, last, lnext, address,
                 historyVars>>

DequeueTail(t) ==
  /\ Goto(t, "d_tail", "d_check")
  /\ last' = [last EXCEPT ![t] = tail]
  /\ UNCHANGED <<linkVars, durVars, cellVars, calls, first, lnext, address,
                 historyVars>>

DequeueCheck(t) ==
  /\ Goto(t, "d_check", IF first[t] = head THEN "d_next" ELSE "d_head")
  /\ UNCHANGED <<linkVars, durVars, cellVars, calls, localVars, historyVars>>

(* Mutant of DequeueNext: a tail that lags behind is an empty queue.       *)
DequeueNextByTail(t) ==
  /\ lnext' = [lnext EXCEPT ![t] = next[first[t]]]
  /\ \/ first[t] = last[t] /\ Goto(t, "d_next", "d_empty") /\ Effect(t, EMPTY)
     \/ first[t] # last[t] /\ Goto(t, "d_next", "d_cas") /\ UNCHANGED historyVars
  /\ UNCHANGED <<linkVars, durVars, cellVars, calls, first, last, address>>

(* The queue is empty when its only node has no next.                      *)
DequeueNext(t) ==
  LET n == next[first[t]] IN
  /\ lnext' = [lnext EXCEPT ![t] = n]
  /\ \/ /\ first[t] = last[t] /\ n = NONE
        /\ Goto(t, "d_next", "d_empty") /\ Effect(t, EMPTY)
     \/ /\ first[t] = last[t] /\ n # NONE
        /\ Goto(t, "d_next", "d_help_tail") /\ UNCHANGED historyVars
     \/ /\ first[t] # last[t]
        /\ Goto(t, "d_next", "d_cas") /\ UNCHANGED historyVars
  /\ UNCHANGED <<linkVars, durVars, cellVars, calls, first, last, address>>

DequeueEmpty(t) ==
  /\ Goto(t, "d_empty", "idle")
  /\ cell' = [cell EXCEPT ![t][returnedValues[t]] = EMPTY]
  /\ Respond(t, EMPTY)
  /\ UNCHANGED <<linkVars, durVars, returnedValues, calls, localVars>>

HelpTail(t) ==
  /\ Goto(t, "d_help_tail", "d_head")
  /\ durNext' = durNext \union {last[t]}
  /\ CasTail(t)
  /\ UNCHANGED <<durDeq, cellVars, calls, localVars, historyVars>>

(* casDeqTID: the item is mine, or the thread's that came first.           *)
CasDeqTID(t) ==
  LET n == lnext[t] IN
  /\ pc[t] = "d_cas"
  /\ \/ /\ deqThreadID[n] = NONE
        /\ Goto(t, "d_cas", "d_flush")
        /\ deqThreadID' = [deqThreadID EXCEPT ![n] = t]
        /\ Effect(t, n)
        /\ UNCHANGED address
     \/ /\ deqThreadID[n] # NONE
        /\ Goto(t, "d_cas", "h_check")
        /\ address' = [address EXCEPT ![t] = returnedValues[deqThreadID[n]]]
        /\ UNCHANGED <<deqThreadID, historyVars>>
  /\ UNCHANGED <<head, tail, next, list, durVars, cellVars, calls, first, last,
                 lnext>>

HelpCheck(t) ==
  /\ Goto(t, "h_check", IF head = first[t] THEN "h_flush" ELSE "d_head")
  /\ UNCHANGED <<linkVars, durVars, cellVars, calls, localVars, historyVars>>

(* Mutant of FlushDeq: what was dequeued may come back.                    *)
FlushDeqNot(t) ==
  /\ \/ Goto(t, "d_flush", "d_cell")
     \/ Goto(t, "h_flush", "h_cell")
  /\ UNCHANGED <<linkVars, durVars, cellVars, calls, localVars, historyVars>>

(* PWB of the node's deqThreadID and PFENCE.                               *)
FlushDeq(t) ==
  /\ \/ Goto(t, "d_flush", "d_cell")
     \/ Goto(t, "h_flush", "h_cell")
  /\ durDeq' = durDeq \union {lnext[t]}
  /\ UNCHANGED <<linkVars, durNext, cellVars, calls, localVars, historyVars>>

(* The item goes to the cell of the thread that took it.                   *)
StoreCell(t) ==
  /\ \/ /\ Goto(t, "d_cell", "d_swing")
        /\ cell' = [cell EXCEPT ![t][returnedValues[t]] = lnext[t]]
     \/ /\ Goto(t, "h_cell", "h_swing")
        /\ cell' = [cell EXCEPT ![deqThreadID[lnext[t]]][address[t]] = lnext[t]]
  /\ UNCHANGED <<linkVars, durVars, returnedValues, calls, localVars, historyVars>>

CasHead(t) ==
  /\ \/ Goto(t, "d_swing", "d_return")
     \/ Goto(t, "h_swing", "d_head")
  /\ head' = IF head = first[t] THEN lnext[t] ELSE head
  /\ UNCHANGED <<tail, next, deqThreadID, list, durVars, cellVars, calls, localVars,
                 historyVars>>

DequeueReturn(t) ==
  /\ Goto(t, "d_return", "idle")
  /\ Respond(t, cell[t][returnedValues[t]])
  /\ UNCHANGED <<linkVars, durVars, cellVars, calls, localVars>>

Step(t) ==
  \/ EnqueueTail(t) \/ EnqueueCheck(t) \/ EnqueueNext(t) \/ CasNext(t)
  \/ EnqueueFlush(t) \/ EnqueueSwing(t)
  \/ DequeueHead(t) \/ DequeueTail(t) \/ DequeueCheck(t) \/ DequeueNext(t)
  \/ DequeueEmpty(t) \/ HelpTail(t) \/ CasDeqTID(t) \/ HelpCheck(t)
  \/ FlushDeq(t) \/ StoreCell(t) \/ CasHead(t) \/ DequeueReturn(t)

Finished ==
  /\ \A t \in Threads : pc[t] = "idle" /\ calls[t] = MaxOps
  /\ UNCHANGED vars

Next ==
  \/ \E t \in Threads : BeginEnqueue(t) \/ BeginDequeue(t) \/ Step(t)
  \/ Finished

Spec == Init /\ [][Next]_vars

(* Thread 0 is scheduled; the others may stop anywhere.                    *)
Fairness == WF_vars(Step(0))

-----------------------------------------------------------------------------
Before(n) ==
  LET at == CHOOSE k \in 1 .. Len(list) : list[k] = n
  IN {list[k] : k \in 1 .. at - 1}

(* PFriedmanQueue implements FifoQueue: "Consistency: Durable              *)
(* Linearizable" (PFriedmanQueue.hpp), as far as its running threads see.  *)
Abstract == INSTANCE FifoQueue WITH
  items <- SelectSeq(list, LAMBDA n : deqThreadID[n] = NONE)

Linearizability == Abstract!Spec

(* What a crash can undo, nobody has been told of.  A node whose enqueue   *)
(* has returned, or that was dequeued, hangs on links that are safe, and   *)
(* an item whose dequeue has returned stays dequeued.                      *)
AnswersDurable ==
  \A k \in 1 .. Len(list) :
    LET n == list[k]
        told == op[n[1]] # n
        took == deqThreadID[n]
    IN /\ told \/ took # NONE => ({sentinel} \union Before(n)) \subseteq durNext
       /\ took # NONE /\ res[took] # n => n \in durDeq

(* Whatever a crash undoes, the dequeued items are the oldest ones: a      *)
(* thread that takes an item has made sure that the ones before it stay    *)
(* taken, those of other threads that went to sleep included.              *)
DequeuedPrefix ==
  \A k \in 1 .. Len(list) :
    deqThreadID[list[k]] # NONE => Before(list[k]) \subseteq durDeq

(* A crash keeps what was answered, and a queue.                           *)
AnswersSurvive == AnswersDurable /\ DequeuedPrefix

(* Lock-freedom: with the others stopped wherever they are, and they have  *)
(* few calls to make, a thread that is scheduled finishes its own.         *)
LockFree == pc[0] # "idle" ~> pc[0] = "idle"
=============================================================================
