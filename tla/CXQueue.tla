------------------------------- MODULE CXQueue -------------------------------
(***************************************************************************)
(* CX::enqueue of ptms/cxptm/CXPTM.hpp (the same as in cxpuc/CXPUC.hpp):   *)
(* the wait-free Turn queue that orders the transactions of CX.  A thread  *)
(* announces its node in enqueuers and runs a loop that inserts the node   *)
(* of whoever has the turn; after as many turns as there are threads its   *)
(* own is in the list, with its ticket.                                    *)
(***************************************************************************)
EXTENDS Integers, FiniteSets

CONSTANTS
  MaxThreads,
  Early,                  \* Threads 0 .. Early - 1 have their id at first.
  MaxRequests,            \* Bound: transactions of each thread.
  NONE

Threads == 0 .. MaxThreads - 1

(* The node of a thread's r-th transaction; request 0 of thread 0 is the   *)
(* sentinel.                                                               *)
Node(t, r) == <<t, r>>
sentinel == Node(0, 0)
Nodes == {sentinel} \cup (Threads \X (1 .. MaxRequests))
enqTid(n) == n[1]

VARIABLES
  maxTid,                 \* ThreadRegistry::getMaxThreads().
  enqueuers, tail,
  next, ticket,           \* Of each node.
  pc, made,               \* Per thread; made: its transactions so far.
  numThreads, i, j, ltail, lnext, nodeToHelp

sharedVars == <<maxTid, enqueuers, tail, next, ticket>>
iterVars == <<j, ltail, lnext, nodeToHelp>>
localVars == <<numThreads, i, iterVars>>
vars == <<sharedVars, pc, made, localVars>>

Init ==
  /\ maxTid = Early
  /\ enqueuers = [t \in Threads |-> NONE]
  /\ tail = sentinel
  /\ next = [n \in Nodes |-> NONE]
  /\ ticket = [n \in Nodes |-> 0]
  /\ pc = [t \in Threads |-> IF t < Early THEN "idle" ELSE "unregistered"]
  /\ made = [t \in Threads |-> 0]
  /\ numThreads = [t \in Threads |-> 0]
  /\ i = [t \in Threads |-> 0] /\ j = i
  /\ ltail = [t \in Threads |-> sentinel]
  /\ lnext = [t \in Threads |-> NONE] /\ nodeToHelp = lnext

Goto(t, from, to) == pc[t] = from /\ pc' = [pc EXCEPT ![t] = to]

Mine(t) == Node(t, made[t])

(* A thread gets the next id (ThreadRegistry).                             *)
Register(t) ==
  /\ t = maxTid
  /\ Goto(t, "unregistered", "idle")
  /\ maxTid' = maxTid + 1
  /\ UNCHANGED <<enqueuers, tail, next, ticket, made, localVars>>

(* createAndEnqueueNode                                                    *)
Announce(t) ==
  /\ made[t] < MaxRequests
  /\ Goto(t, "idle", "load_max")
  /\ made' = [made EXCEPT ![t] = @ + 1]
  /\ enqueuers' = [enqueuers EXCEPT ![t] = Node(t, made'[t])]
  /\ UNCHANGED <<maxTid, tail, next, ticket, localVars>>

LoadMax(t) ==
  /\ Goto(t, "load_max", "turn")
  /\ numThreads' = [numThreads EXCEPT ![t] = maxTid]
  /\ i' = [i EXCEPT ![t] = 0]
  /\ UNCHANGED <<sharedVars, made, j, ltail, lnext, nodeToHelp>>

(* The locals of an iteration end with it.                                 *)
EndIteration(t) ==
  /\ j' = [j EXCEPT ![t] = 0]
  /\ ltail' = [ltail EXCEPT ![t] = sentinel]
  /\ lnext' = [lnext EXCEPT ![t] = NONE]
  /\ nodeToHelp' = [nodeToHelp EXCEPT ![t] = NONE]

Again(t, from) ==
  /\ Goto(t, from, IF i[t] + 1 < numThreads[t] THEN "turn" ELSE "step4")
  /\ i' = [i EXCEPT ![t] = @ + 1]
  /\ EndIteration(t)

(* Some thread did all the steps, or here is the tail.                     *)
Turn(t) ==
  /\ \/ /\ enqueuers[t] = NONE
        /\ Goto(t, "turn", "done")
        /\ UNCHANGED ltail
     \/ /\ enqueuers[t] # NONE
        /\ Goto(t, "turn", "validate")
        /\ ltail' = [ltail EXCEPT ![t] = tail]
  /\ UNCHANGED <<sharedVars, made, numThreads, i, j, lnext, nodeToHelp>>

Validate(t) ==
  /\ \/ ltail[t] # tail /\ Again(t, "validate")
     \/ ltail[t] = tail /\ Goto(t, "validate", "help4") /\ UNCHANGED <<i, iterVars>>
  /\ UNCHANGED <<sharedVars, made, numThreads>>

(* Help a thread do step 4.                                                *)
HelpStep4(t) ==
  LET u == enqTid(ltail[t]) IN
  /\ Goto(t, "help4", "look")
  /\ enqueuers' = [enqueuers EXCEPT ![u] = IF @ = ltail[t] THEN NONE ELSE @]
  /\ j' = [j EXCEPT ![t] = 1]
  /\ UNCHANGED <<maxTid, tail, next, ticket, made, numThreads, i, ltail, lnext,
                 nodeToHelp>>

(* Mutant of Look: everybody inserts its own node first.                   *)
LookOwn(t) ==
  /\ Goto(t, "look", "help2")
  /\ nodeToHelp' = [nodeToHelp EXCEPT ![t] = Mine(t)]
  /\ UNCHANGED <<sharedVars, made, numThreads, i, j, ltail, lnext>>

(* Whose turn is it: the next thread after that of the tail with a node.   *)
Look(t) ==
  /\ pc[t] = "look"
  /\ LET u == (j[t] + enqTid(ltail[t])) % numThreads[t] IN
     IF enqueuers[u] = NONE
     THEN /\ Goto(t, "look", IF j[t] < numThreads[t] THEN "look" ELSE "load_next")
          /\ j' = [j EXCEPT ![t] = @ + 1]
          /\ UNCHANGED nodeToHelp
     ELSE /\ Goto(t, "look", "help2")
          /\ nodeToHelp' = [nodeToHelp EXCEPT ![t] = enqueuers[u]]
          /\ UNCHANGED j
  /\ UNCHANGED <<sharedVars, made, numThreads, i, ltail, lnext>>

(* The CAS of the tail's next from nullptr.                                *)
HelpStep2(t) ==
  /\ Goto(t, "help2", "load_next")
  /\ next' = [next EXCEPT ![ltail[t]] = IF @ = NONE THEN nodeToHelp[t] ELSE @]
  /\ UNCHANGED <<maxTid, enqueuers, tail, ticket, made, localVars>>

(* Mutant of LoadNext: wait for the next node.                             *)
LoadNextWaits(t) ==
  /\ lnext' = [lnext EXCEPT ![t] = next[ltail[t]]]
  /\ Goto(t, "load_next", IF lnext'[t] = NONE THEN "load_next" ELSE "recheck")
  /\ UNCHANGED <<sharedVars, made, numThreads, i, j, ltail, nodeToHelp>>

LoadNext(t) ==
  /\ \/ next[ltail[t]] = NONE /\ Again(t, "load_next")
     \/ /\ next[ltail[t]] # NONE
        /\ lnext' = [lnext EXCEPT ![t] = next[ltail[t]]]
        /\ Goto(t, "load_next", "recheck")
        /\ UNCHANGED <<i, j, ltail, nodeToHelp>>
  /\ UNCHANGED <<sharedVars, made, numThreads>>

Recheck(t) ==
  /\ \/ ltail[t] # tail /\ Again(t, "recheck")
     \/ ltail[t] = tail /\ Goto(t, "recheck", "number") /\ UNCHANGED <<i, iterVars>>
  /\ UNCHANGED <<sharedVars, made, numThreads>>

SetTicket(t) ==
  /\ Goto(t, "number", "help3")
  /\ ticket' = [ticket EXCEPT ![lnext[t]] = ticket[ltail[t]] + 1]
  /\ UNCHANGED <<maxTid, enqueuers, tail, next, made, localVars>>

HelpStep3(t) ==
  /\ tail' = IF tail = ltail[t] THEN lnext[t] ELSE tail
  /\ Again(t, "help3")
  /\ UNCHANGED <<maxTid, enqueuers, next, ticket, made, numThreads>>

(* Step 4, just in case it's not done.                                     *)
Step4(t) ==
  /\ Goto(t, "step4", "done")
  /\ enqueuers' = [enqueuers EXCEPT ![t] = NONE]
  /\ UNCHANGED <<maxTid, tail, next, ticket, made, localVars>>

(* The transaction reads its ticket and goes on.                           *)
Return(t) ==
  /\ Goto(t, "done", "idle")
  /\ numThreads' = [numThreads EXCEPT ![t] = 0]
  /\ i' = [i EXCEPT ![t] = 0]
  /\ UNCHANGED <<sharedVars, made, iterVars>>

Step(t) ==
  \/ LoadMax(t)
  \/ Turn(t)
  \/ Validate(t)
  \/ HelpStep4(t)
  \/ Look(t)
  \/ HelpStep2(t)
  \/ LoadNext(t)
  \/ Recheck(t)
  \/ SetTicket(t)
  \/ HelpStep3(t)
  \/ Step4(t)
  \/ Return(t)

Finished ==
  /\ \A t \in Threads : pc[t] = "idle" /\ made[t] = MaxRequests
  /\ UNCHANGED vars

Next ==
  \/ \E t \in Threads : Register(t) \/ Announce(t) \/ Step(t)
  \/ Finished

Spec == Init /\ [][Next]_vars

(* Thread 0 is scheduled, whatever the others do.                          *)
Fairness == WF_vars(Step(0))

-----------------------------------------------------------------------------
(* The places of a node in the list: k when it is the k-th after the       *)
(* sentinel.                                                               *)
Place(n) ==
  LET at[k \in 0 .. Cardinality(Nodes)] ==
        IF k = 0 THEN sentinel
        ELSE IF at[k - 1] = NONE THEN NONE ELSE next[at[k - 1]]
  IN {k \in 0 .. Cardinality(Nodes) : at[k] = n}

(* When enqueue returns, its node is in the list, at one place, before the *)
(* tail or at it, and its ticket is that place: "If the tail advanced      *)
(* numThreads times, then my node has been enqueued" (CXPTM.hpp).          *)
EnqueuedOnReturn ==
  \A t \in Threads :
    pc[t] = "done" => /\ Place(Mine(t)) = {ticket[Mine(t)]}
                      /\ ticket[Mine(t)] \in 1 .. ticket[tail]

(* The ticket of a node is stored again by every thread that helps to move *)
(* the tail, some of them late, and replicas compare tickets to know what  *)
(* they have applied: a node that has a ticket keeps it.                   *)
TicketsStay ==
  [][\A n \in Nodes : ticket[n] # 0 => ticket'[n] = ticket[n]]_vars

(* A transaction has one place in the order, and its ticket names it.      *)
QueueSound == []EnqueuedOnReturn /\ TicketsStay

(* The loop ends for the thread that runs it, whatever the others do.      *)
WaitFreeEnqueue == pc[0] = "load_max" ~> pc[0] = "idle"
=============================================================================
