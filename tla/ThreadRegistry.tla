---------------------------- MODULE ThreadRegistry ----------------------------
(***************************************************************************)
(* common/ThreadRegistry.hpp: the ids under which threads own a slot of    *)
(* every per-thread array of the PTMs.  A thread registers on its first    *)
(* getTID() and its thread_local tl_tcico gives the id back when it ends.  *)
(***************************************************************************)
EXTENDS Integers, FiniteSets

CONSTANTS
  AllThreads,             \* The threads that ever run.
  REGISTRY_MAX_THREADS,
  MaxAlive,               \* How many run at a time.
  Fair                    \* Those that are sure to be scheduled.

ASSUME RegistryAssumption ==
  /\ REGISTRY_MAX_THREADS \in Nat \ {0}
  /\ MaxAlive \in Nat
  /\ IsFiniteSet(AllThreads)

VARIABLES
  usedTID,                \* Which TIDs are in use.
  maxTid,                 \* Highest TID (+1) in use.
  pc,
  tid, curMax             \* Per thread: its id or where its scan is; a local.

vars == <<usedTID, maxTid, pc, tid, curMax>>

Tids == 0 .. REGISTRY_MAX_THREADS - 1

Init ==
  /\ usedTID = [i \in Tids |-> FALSE]
  /\ maxTid = -1
  /\ pc = [t \in AllThreads |-> "ended"]
  /\ tid = [t \in AllThreads |-> 0]
  /\ curMax = [t \in AllThreads |-> -1]

Goto(t, from, to) == pc[t] = from /\ pc' = [pc EXCEPT ![t] = to]

Alive == {t \in AllThreads : pc[t] # "ended"}

(* A new thread calls getTID().                                            *)
getTID(t) ==
  /\ Cardinality(Alive) < MaxAlive
  /\ Goto(t, "ended", "load")
  /\ tid' = [tid EXCEPT ![t] = 0]
  /\ UNCHANGED <<usedTID, maxTid, curMax>>

(* for (int tid = 0; tid < REGISTRY_MAX_THREADS; tid++)                    *)
NextSlot(t, from) ==
  /\ Goto(t, from, IF tid[t] + 1 \in Tids THEN "load" ELSE "too_many")
  /\ tid' = [tid EXCEPT ![t] = @ + 1]

LoadUsed(t) ==
  /\ \/ /\ usedTID[tid[t]]
        /\ NextSlot(t, "load")
     \/ /\ ~usedTID[tid[t]]
        /\ Goto(t, "load", "cas")
        /\ UNCHANGED tid
  /\ UNCHANGED <<usedTID, maxTid, curMax>>

CasUsed(t) ==
  /\ \/ /\ usedTID[tid[t]]
        /\ NextSlot(t, "cas")
        /\ UNCHANGED usedTID
     \/ /\ ~usedTID[tid[t]]
        /\ Goto(t, "cas", "load_max")
        /\ usedTID' = [usedTID EXCEPT ![tid[t]] = TRUE]
        /\ UNCHANGED tid
  /\ UNCHANGED <<maxTid, curMax>>

LoadMax(t) ==
  /\ Goto(t, "load_max", IF maxTid <= tid[t] THEN "cas_max" ELSE "registered")
  /\ curMax' = [curMax EXCEPT ![t] = maxTid]
  /\ UNCHANGED <<usedTID, maxTid, tid>>

CasMaxOnce(t) ==
  /\ Goto(t, "cas_max", "registered")
  /\ maxTid' = IF maxTid = curMax[t] THEN tid[t] + 1 ELSE maxTid
  /\ UNCHANGED <<usedTID, tid, curMax>>

CasMax(t) ==
  /\ Goto(t, "cas_max", "load_max")
  /\ maxTid' = IF maxTid = curMax[t] THEN tid[t] + 1 ELSE maxTid
  /\ UNCHANGED <<usedTID, tid, curMax>>

(* ~ThreadCheckInCheckOut() and deregister_thread: the thread ends.        *)
deregister_thread(t) ==
  /\ Goto(t, "registered", "ended")
  /\ usedTID' = [usedTID EXCEPT ![tid[t]] = FALSE]
  /\ UNCHANGED <<maxTid, tid, curMax>>

Step(t) == \/ LoadUsed(t)
           \/ CasUsed(t)
           \/ LoadMax(t)
           \/ CasMax(t)

Next == \E t \in AllThreads : getTID(t) \/ Step(t) \/ deregister_thread(t)

Spec == Init /\ [][Next]_vars

Fairness == \A t \in Fair : WF_vars(Step(t))

-----------------------------------------------------------------------------
States == {"ended", "load", "cas", "load_max", "cas_max", "registered",
           "too_many"}

TypeOK ==
  /\ usedTID \in [Tids -> BOOLEAN]
  /\ maxTid \in -1 .. REGISTRY_MAX_THREADS
  /\ pc \in [AllThreads -> States]
  /\ tid \in [AllThreads -> 0 .. REGISTRY_MAX_THREADS]
  /\ curMax \in [AllThreads -> -1 .. REGISTRY_MAX_THREADS]
  /\ \A t \in AllThreads : pc[t] \in {"load", "cas", "load_max", "cas_max",
                                   "registered"} => tid[t] \in Tids

Holding(t) == pc[t] \in {"load_max", "cas_max", "registered"}

(* A slot is taken exactly while one thread holds it, and no two threads   *)
(* hold the same: "assignement of a unique id to each thread".             *)
UniqueIds ==
  /\ \A t, u \in AllThreads : Holding(t) /\ Holding(u) /\ tid[t] = tid[u] => t = u
  /\ \A i \in Tids : usedTID[i] <=> \E t \in AllThreads : Holding(t) /\ tid[t] = i

(* Whoever got its id is below getMaxThreads(), so that the loops over     *)
(* 0 .. getMaxThreads() - 1 of the locks and of the combiners see it.      *)
CoveredByMax == \A t \in AllThreads : pc[t] = "registered" => tid[t] < maxTid

(* With at most REGISTRY_MAX_THREADS threads alive nobody is told "Too     *)
(* many threads", although ids are given back behind a scan.               *)
RoomForEveryone ==
  MaxAlive <= REGISTRY_MAX_THREADS => \A t \in AllThreads : pc[t] # "too_many"

(* getMaxThreads() never falls: what a loop read covers who was there.     *)
MaxNeverFalls == [][maxTid' >= maxTid]_vars

(* Whatever threads do, the array of ids is consistent, and no loop over   *)
(* it misses a thread.                                                     *)
RegistrySound ==
  /\ [](TypeOK /\ UniqueIds /\ CoveredByMax /\ RoomForEveryone)
  /\ MaxNeverFalls

(* "Progress Condition: wait-free bounded": a thread that takes its own    *)
(* steps gets an id (or is told that there is none), whatever the others   *)
(* do or do not.                                                           *)
WaitFreeRegistration ==
  \A t \in Fair : pc[t] = "load" ~> pc[t] \in {"registered", "too_many"}
=============================================================================
