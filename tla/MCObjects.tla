------------------------------ MODULE MCObjects ------------------------------
(***************************************************************************)
(* The objects around the PTMs, for TLC: the thread registry, the hazard   *)
(* pointers (in the order of ptmdb/ptms and, with store buffers, in that   *)
(* of ptms/redo), the allocator, the queue of CX, and what runs over the   *)
(* PTMs: RedoDB and the sets and queues of the benchmarks.  They do not    *)
(* meet, so a behaviour is one of `which`, and the others keep their first *)
(* state.                                                                  *)
(***************************************************************************)
EXTENDS ThreadRegistry

CONSTANTS Objs, NONE, DEQ, EMPTY, OK, v1, v2

VARIABLES
  which,
  enqueuers, hp, retiredList, buffer, live, hpc, ptr, it, iret,
  poolTop, freelists, size, objs,
  cxMax, cxEnqueuers, tail, next, ticket, cxpc, made,
  numThreads, i, j, ltail, lnext, nodeToHelp,
  head, fTail, fNext, deqThreadID, durNext, durDeq, returnedValues, cell, fPc,
  calls, first, last, lNext, address, list, op, res, ret,
  byCopy, root, db, dbCall, trans, crashes,
  obj, setRet, items, queueRet

regVars == vars
hpVars == <<enqueuers, hp, retiredList, buffer, live, hpc, ptr, it, iret>>
esVars == <<poolTop, freelists, size, objs>>
cxVars == <<cxMax, cxEnqueuers, tail, next, ticket, cxpc, made, numThreads,
            i, j, ltail, lnext, nodeToHelp>>

fifoVars == <<head, fTail, fNext, deqThreadID, durNext, durDeq, returnedValues,
              cell, fPc, calls, first, last, lNext, address, list, op, res, ret>>
dbVars == <<byCopy, root, db, dbCall, trans, crashes>>
tmVars == <<obj, setRet, items, queueRet>>

HP == INSTANCE HazardPointers WITH
  MaxThreads <- 3, Owners <- {0}, StoreBuffers <- FALSE,
  AnnounceFirst <- FALSE, pc <- hpc

Redo == INSTANCE HazardPointers WITH
  MaxThreads <- 2, Owners <- {0}, StoreBuffers <- TRUE,
  AnnounceFirst <- TRUE, pc <- hpc

Loco == INSTANCE EsLoco WITH
  poolSize <- 32, Base <- 4, Header <- 2, kMaxBlockSize <- 8,
  IntWidth <- 32, Sizes <- {1, 2, 3, 6}

CX == INSTANCE CXQueue WITH
  MaxThreads <- 3, Early <- 3, MaxRequests <- 1, maxTid <- cxMax,
  enqueuers <- cxEnqueuers, pc <- cxpc

Fifo == INSTANCE PFriedmanQueue WITH
  MaxThreads <- 2, MaxOps <- 3, pc <- fPc, tail <- fTail, next <- fNext,
  lnext <- lNext

(* Three keys of one byte, two of them in bucket 0; bucket 1 stays empty.  *)
Hash(key) == IF key = <<3>> THEN 2 ELSE 0

P(key, val) == [op |-> "put", key |-> key, val |-> val]
D(key) == [op |-> "delete", key |-> key, val |-> NONE]

(* The builds that capture by copy run each operation of a batch in its    *)
(* own transaction, so their batches have one; those of the others give a  *)
(* key more than one value.                                                *)
Batches ==
  [captured \in BOOLEAN |->
     IF captured THEN {<<P(<<1>>, <<7>>)>>, <<D(<<2>>)>>}
     ELSE {<<P(<<1>>, <<7>>), D(<<1>>), P(<<2>>, <<8>>), P(<<2>>, <<7>>)>>,
           <<P(<<3>>, <<7>>), P(<<1>>, <<8>>)>>}]

DB == INSTANCE RedoDB WITH
  Threads <- {0, 1}, Keys <- {<<1>>, <<2>>, <<3>>}, Values <- {<<7>>},
  Capacity <- 3, MaxCrashes <- 1, PTMDB_CAPTURE_BY_COPY <- byCopy,
  call <- dbCall

(* The kinds of these are kinds of behaviours here.                        *)
Sets == INSTANCE PersistentSets WITH
  Keys <- 1 .. 6, NULL <- NONE, kind <- which, ret <- setRet

Queues == INSTANCE TMQueues WITH
  Items <- {v1, v2}, SIZE <- 2, NUM_ITEMS <- 3, MaxTail <- 6, MaxLen <- 5,
  kind <- which, ret <- queueRet

SetKinds == {"tree", "skiplist", "map", "list"}
FifoKinds == {"array", "linked"}
QueueKinds == FifoKinds \union {"fat"}

AllInit ==
  /\ Init /\ Loco!Init /\ CX!Init /\ Fifo!Init /\ DB!Init
  /\ which \in {"registry", "hazard", "redo", "allocator", "queue", "fifo",
                "store"} \union SetKinds \union QueueKinds
  /\ IF which \in SetKinds THEN Sets!Init ELSE setRet = FALSE
  /\ IF which \in QueueKinds THEN Queues!Init ELSE items = <<>> /\ queueRet = FALSE
  /\ which \notin SetKinds \union QueueKinds => obj = NONE
  /\ which # "store" => ~byCopy
  /\ IF which = "redo" THEN Redo!Init ELSE HP!Init

AllNext ==
  \/ which = "registry" /\ Next
     /\ UNCHANGED <<which, hpVars, esVars, cxVars, fifoVars, dbVars, tmVars>>
  \/ which = "hazard" /\ HP!Next
     /\ UNCHANGED <<which, regVars, esVars, cxVars, fifoVars, dbVars, tmVars>>
  \/ which = "redo" /\ Redo!Next
     /\ UNCHANGED <<which, regVars, esVars, cxVars, fifoVars, dbVars, tmVars>>
  \/ which = "allocator" /\ Loco!Next
     /\ UNCHANGED <<which, regVars, hpVars, cxVars, fifoVars, dbVars, tmVars>>
  \/ which = "queue" /\ CX!Next
     /\ UNCHANGED <<which, regVars, hpVars, esVars, fifoVars, dbVars, tmVars>>
  \/ which = "fifo" /\ Fifo!Next
     /\ UNCHANGED <<which, regVars, hpVars, esVars, cxVars, dbVars, tmVars>>
  \/ which = "store" /\ DB!Next
     /\ UNCHANGED <<which, regVars, hpVars, esVars, cxVars, fifoVars, tmVars>>
  \/ which \in SetKinds /\ Sets!Next
     /\ UNCHANGED <<regVars, hpVars, esVars, cxVars, fifoVars, dbVars,
                    items, queueRet>>
  \/ which \in QueueKinds /\ Queues!Next
     /\ UNCHANGED <<regVars, hpVars, esVars, cxVars, fifoVars, dbVars,
                    setRet>>

AllVars == <<which, regVars, hpVars, esVars, cxVars, fifoVars, dbVars,
             tmVars>>

AllSpec == AllInit /\ [][AllNext]_AllVars

-----------------------------------------------------------------------------
(* A helper never calls a request that retire() has deleted, each request  *)
(* is published or retired by one owner, and few wait to be deleted.       *)
SafeReclamation ==
  /\ which = "hazard" => HP!SafeReclamation
  /\ which = "redo" => Redo!SafeReclamation

(* Objects and free blocks of the pool share no byte, all lie below        *)
(* poolTop, which is what the PTMs copy, and no block is lost.             *)
PoolIntact == which = "allocator" => Loco!PoolIntact

(* When enqueue() of CX returns, its node is in the list, and its ticket,  *)
(* which no late helper changes, is its place.                             *)
QueueSound == CX!QueueSound

(* What PFriedmanQueue has answered survives a crash, and the items whose  *)
(* dequeue survives are the oldest ones.                                   *)
AnswersSurvive == which = "fifo" => Fifo!AnswersSurvive

(* The store is the map of db.h: calls and batches take effect at once,    *)
(* and closing, reopening and a crash lose nothing.                        *)
AbstractStore ==
  /\ DB!KV!Init
  /\ [][which = "store" =>
          [DB!KV!Next]_(DB!KV!vars) /\ DB!DeleteTells]_AllVars

(* PFriedmanQueue behaves like a FIFO queue, and so do the array and the   *)
(* list that run in transactions; the sets answer as a set does.           *)
Linearizability ==
  /\ Fifo!Abstract!Init /\ Sets!Set!Init
  /\ [](which \in FifoKinds => Queues!Held = items)
  /\ [][CASE which = "fifo" -> [Fifo!Abstract!Next]_(Fifo!Abstract!vars)
         [] which \in FifoKinds -> Queues!DequeuesOldest
         [] which \in SetKinds -> [Sets!Set!Next]_(Sets!Set!vars)
         [] OTHER -> TRUE]_AllVars

(* The fat queue is no FIFO queue, since it says EMPTY while its last node *)
(* holds items; but it loses, repeats and reorders nothing.                *)
FatQueueKeepsOrder ==
  /\ [](which = "fat" => Queues!Held = items)
  /\ [][which = "fat" => Queues!LeavesLastNode]_AllVars

(* After any operations a set keeps its shape: balanced, in order, no node *)
(* lost and none freed that is in use.                                     *)
SetsSound == which \in SetKinds => Sets!Sound
=============================================================================
