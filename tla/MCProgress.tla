------------------------------ MODULE MCProgress ------------------------------
(***************************************************************************)
(* What must eventually happen in the smaller components, for TLC: the     *)
(* two C-RW-WP locks, the thread registry, the persistent queue and the    *)
(* queue of CX.  They do not meet, so a behaviour is one of `which`, the   *)
(* others keep their first state and their fairness asks nothing of them.  *)
(***************************************************************************)
EXTENDS CRWWPSpinLock

CONSTANTS DEQ, EMPTY, OK, a, b, c

VARIABLES
  which,
  ticket, grant, counters, tPc, tk, tK, tOwner,
  usedTID, maxTid, rPc, tid, curMax,
  head, tail, next, deqThreadID, durNext, durDeq, returnedValues, cell, fPc,
  calls, first, last, fNext, address, list, op, res, ret,
  xMax, xEnqueuers, xTail, xNext, xTicket, xPc, made,
  numThreads, i, j, ltail, lnext, nodeToHelp

spinVars == vars
ticketVars == <<ticket, grant, counters, tPc, tk, tK, tOwner>>
regVars == <<usedTID, maxTid, rPc, tid, curMax>>
fifoVars == <<head, tail, next, deqThreadID, durNext, durDeq, returnedValues,
              cell, fPc, calls, first, last, fNext, address, list, op, res, ret>>
cxVars == <<xMax, xEnqueuers, xTail, xNext, xTicket, xPc, made, numThreads,
            i, j, ltail, lnext, nodeToHelp>>

(* Two of the three threads hash to one counter.                           *)
Ticket == INSTANCE CRWWP WITH
  Threads <- {a, b, c}, Slots <- 2, MaxTicket <- 3,
  Hash <- [t \in {a, b, c} |-> IF t = c THEN 1 ELSE 0],
  pc <- tPc, k <- tK, owner <- tOwner

Registry == INSTANCE ThreadRegistry WITH
  AllThreads <- {a, b, c}, REGISTRY_MAX_THREADS <- 2, MaxAlive <- 2, Fair <- {a},
  pc <- rPc

Fifo == INSTANCE PFriedmanQueue WITH
  MaxThreads <- 2, MaxOps <- 2, pc <- fPc, lnext <- fNext

(* Thread 1 registers while thread 0 already enqueues.                     *)
CX == INSTANCE CXQueue WITH
  MaxThreads <- 2, Early <- 1, MaxRequests <- 2, maxTid <- xMax,
  enqueuers <- xEnqueuers, tail <- xTail, next <- xNext, ticket <- xTicket,
  pc <- xPc

AllInit ==
  /\ Init /\ Ticket!Init /\ Registry!Init /\ Fifo!Init /\ CX!Init
  /\ which \in {"spin", "ticket", "registry", "fifo", "queue"}

AllNext ==
  \/ which = "spin" /\ Next
     /\ UNCHANGED <<which, ticketVars, regVars, fifoVars, cxVars>>
  \/ which = "ticket" /\ Ticket!Next
     /\ UNCHANGED <<which, spinVars, regVars, fifoVars, cxVars>>
  \/ which = "registry" /\ Registry!Next
     /\ UNCHANGED <<which, spinVars, ticketVars, fifoVars, cxVars>>
  \/ which = "fifo" /\ Fifo!Next
     /\ UNCHANGED <<which, spinVars, ticketVars, regVars, cxVars>>
  \/ which = "queue" /\ CX!Next
     /\ UNCHANGED <<which, spinVars, ticketVars, regVars, fifoVars>>

AllVars == <<which, spinVars, ticketVars, regVars, fifoVars, cxVars>>

AllFairness ==
  /\ Fairness /\ Ticket!Fairness /\ Registry!Fairness /\ Fifo!Fairness
  /\ CX!Fairness

AllSpec == AllInit /\ [][AllNext]_AllVars /\ AllFairness

-----------------------------------------------------------------------------
(* The ticket lock is the WriterPrefLock too: its isLocked() makes two     *)
(* loads and its readers share counters.                                   *)
TicketLockSound == Ticket!AbstractLock

(* Every thread that is scheduled ends its call: however often readers     *)
(* come back, a writer that has the spin lock becomes alone, and a call of *)
(* the ticket lock gets it; a thread gets its id and ends its enqueue of   *)
(* CX although others have stopped; of those that operate on the           *)
(* persistent queue, some thread ends.                                     *)
CallsEnd ==
  /\ WriterPreference
  /\ Ticket!WriterStarvationFree
  /\ Registry!WaitFreeRegistration
  /\ Fifo!LockFree
  /\ CX!WaitFreeEnqueue
=============================================================================
