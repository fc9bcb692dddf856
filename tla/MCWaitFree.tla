------------------------------ MODULE MCWaitFree ------------------------------
(***************************************************************************)
(* The two wait-free PTMs that are not RedoOpt, CXPTM and OneFile, for     *)
(* TLC.  A behaviour is one of them; what is not a variable of both keeps  *)
(* its first value in the other.                                           *)
(***************************************************************************)
EXTENDS CXPTM

CONSTANTS x, y

VARIABLES
  which,
  curTx, request, cell, ws, mine, ops, he, retired, freed, plog

oneVars == <<curTx, request, cell, ws, mine, ops, he, retired, freed, plog>>
cxVars == <<listVars, curComb, mem, combVars>>

Work(words, reading, first, second, crashes) ==
  [words |-> words, writers |-> Threads, readers |-> reading,
   budget |-> [t \in Threads |-> IF t = 0 THEN first ELSE second],
   crashes |-> crashes]

(* Two threads that both write and read; one that runs far ahead of the    *)
(* other, whose replica falls behind the list; and writers that a crash    *)
(* may stop.                                                               *)
CXWorkloads ==
  {Work({x}, Threads, 2, 2, 0),
   Work({x}, {1}, 4, 1, 0),
   Work({x, y}, {}, 2, 1, 1)}

OneFileWork(request_, writing, reading, first, second, crashes) ==
  [requests |-> {request_}, writers |-> writing, readers |-> reading,
   budget |-> [t \in Threads |-> IF t = 0 THEN first ELSE second],
   crashes |-> crashes]

(* A thread that others overtake until its last iteration; a reader of two *)
(* words; and transactions of one word, which a crash cannot tear.         *)
OneFileWorkloads ==
  {OneFileWork({x}, {0, 1}, {}, 1, 3, 0),
   OneFileWork({x, y}, {1}, {0}, 2, 2, 0),
   OneFileWork({x}, {0}, {}, 2, 0, 1)}

One == INSTANCE OneFile WITH Workloads <- OneFileWorkloads

CXInit ==
  /\ which = "cx" /\ Init
  /\ curTx = NONE /\ request = NONE /\ cell = NONE /\ ws = NONE /\ mine = NONE
  /\ ops = NONE /\ he = NONE /\ retired = NONE /\ freed = NONE /\ plog = NONE

OneInit ==
  /\ which = "onefile" /\ One!Init
  /\ queue = NONE /\ result = NONE /\ cut = NONE /\ preRetired = NONE
  /\ curComb = NONE /\ mem = NONE /\ head = NONE /\ lock = NONE /\ readers = NONE

AllInit == CXInit \/ OneInit

InCX(A) == which = "cx" /\ A /\ UNCHANGED <<which, oneVars>>
InOneFile(A) == which = "onefile" /\ A /\ UNCHANGED <<which, cxVars>>

AllNext == InCX(Next) \/ InOneFile(One!Next)

AllVars == <<which, vars, oneVars>>

(* Thread 0 keeps running, whatever the others do.                         *)
AllSpec ==
  /\ AllInit /\ [][AllNext]_AllVars
  /\ WF_AllVars(InCX(Write(0) \/ Read(0)) \/ InOneFile(One!Step(0)))

-----------------------------------------------------------------------------
(* CX: the replicas hold what their heads say, and what the file shows     *)
(* after a crash is whole.                                                 *)
CXReplicasConsistent == which = "cx" => ReplicasConsistent

(* CX never runs out of replicas.                                          *)
CXReplicaAvailable == which = "cx" => ReplicaAvailable

(* A thread of CX that leaves without a commit of its own has been helped. *)
CXLeavesCommitted == which = "cx" => LeavesCommitted

(* OneFile: although threads copy write-sets that their owners are         *)
(* rewriting, the words change one whole transaction after the other.      *)
OneFileAppliedInOrder == which = "onefile" => One!TypeOK /\ One!AppliedInOrder

(* OneFile: although threads run functions of others, and transactions     *)
(* that are too late, a function sees one commit and is not deleted.       *)
OneFileSnapshotHeld == which = "onefile" => One!SnapshotHeld /\ One!FunctionsLive

(* Both implement DurableStore.                                            *)
DurableTransactions ==
  /\ IF which = "cx" THEN Abstract!Init ELSE One!Abstract!Init
  /\ [][IF which = "cx" THEN Abstract!Next ELSE One!Abstract!Next]_(Abstract!vars)

=============================================================================
