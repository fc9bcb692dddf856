------------------------ MODULE ThreadRegistry_proofs ------------------------
(***************************************************************************)
(* ThreadRegistry is sound for every number of slots and of threads: ids   *)
(* are unique, no loop over getMaxThreads() misses a thread, and nobody is *)
(* turned away as long as there are as many slots as threads.              *)
(*                                                                         *)
(* The last is the hard part: the scan of a thread passes slots one by     *)
(* one, and those behind it may become free.  But a thread passes slot i   *)
(* only while another one holds it, who stays behind.  So at most          *)
(* REGISTRY_MAX_THREADS - i threads are at slot i or beyond (Crowd).       *)
(***************************************************************************)
EXTENDS ThreadRegistry, FiniteSetTheorems, TLAPS

(* The threads that hold slot i or a later one, or look for one there.     *)
From(i) == {t \in Alive : tid[t] >= i}

Crowd ==
  MaxAlive <= REGISTRY_MAX_THREADS =>
    \A i \in 0 .. REGISTRY_MAX_THREADS :
      Cardinality(From(i)) <= REGISTRY_MAX_THREADS - i

(* A thread that is about to raise maxTid has seen it at or below its id,  *)
(* and one that was told there are too many has passed all slots.          *)
Locals ==
  \A t \in AllThreads :
    /\ pc[t] = "cas_max" => curMax[t] <= tid[t]
    /\ pc[t] = "too_many" => tid[t] = REGISTRY_MAX_THREADS

IInv ==
  /\ TypeOK
  /\ UniqueIds
  /\ CoveredByMax
  /\ Locals
  /\ Crowd

-----------------------------------------------------------------------------
LEMMA SlotFacts ==
  /\ REGISTRY_MAX_THREADS \in Nat \ {0} /\ 0 \in Tids
  /\ \A i \in Tids : i \in 0 .. REGISTRY_MAX_THREADS
                  /\ i + 1 \in 0 .. REGISTRY_MAX_THREADS
                  /\ (i + 1 \notin Tids => i + 1 = REGISTRY_MAX_THREADS)
BY RegistryAssumption DEF Tids

(* Crowds are finite.                                                      *)
LEMMA FromFinite ==
  /\ IsFiniteSet(Alive)
  /\ \A i : From(i) \subseteq Alive /\ IsFiniteSet(From(i))
<1>1. IsFiniteSet(AllThreads) /\ Alive \subseteq AllThreads
  BY RegistryAssumption DEF Alive
<1>2. IsFiniteSet(Alive)
  BY <1>1, FS_Subset
<1>3. \A i : From(i) \subseteq Alive
  BY DEF From
<1>4. QED
  BY <1>2, <1>3, FS_Subset

LEMMA InitIInv == Init => IInv
<1> SUFFICES ASSUME Init PROVE IInv
  OBVIOUS
<1>1. TypeOK
  BY SlotFacts DEF Init, TypeOK, States
<1>2. UniqueIds /\ CoveredByMax /\ Locals
  BY DEF Init, UniqueIds, Holding, CoveredByMax, Locals
<1>3. \A i : From(i) = {}
  BY DEF Init, From, Alive
<1>4. Crowd
  BY <1>3, FS_EmptySet, SlotFacts DEF Crowd
<1>5. QED
  BY <1>1, <1>2, <1>4 DEF IInv

(* The crowds do not grow when no thread begins and no scan moves.         *)
LEMMA CrowdStays ==
  ASSUME Crowd, TypeOK, Alive' \subseteq Alive, tid' = tid
  PROVE  Crowd'
<1> SUFFICES ASSUME MaxAlive <= REGISTRY_MAX_THREADS,
                    NEW i \in 0 .. REGISTRY_MAX_THREADS
             PROVE  Cardinality(From(i)') <= REGISTRY_MAX_THREADS - i
  BY DEF Crowd
<1>1. From(i)' \subseteq From(i)
  BY DEF From
<1>2. Cardinality(From(i)') <= Cardinality(From(i))
     /\ Cardinality(From(i)') \in Nat /\ Cardinality(From(i)) \in Nat
  BY <1>1, FromFinite, FS_Subset, FS_CardinalityType
<1>3. QED
  BY <1>2, SlotFacts DEF Crowd

(* A scan that passes a slot that somebody holds.                          *)
LEMMA CrowdMoves ==
  ASSUME IInv, NEW t \in AllThreads, NEW h \in AllThreads,
         tid[t] \in Tids, pc[t] # "ended", t # h, Holding(h), tid[h] = tid[t],
         tid' = [tid EXCEPT ![t] = tid[t] + 1], Alive' = Alive
  PROVE  Crowd'
<1> DEFINE s == tid[t]
<1> SUFFICES ASSUME MaxAlive <= REGISTRY_MAX_THREADS,
                    NEW i \in 0 .. REGISTRY_MAX_THREADS
             PROVE  Cardinality(From(i)') <= REGISTRY_MAX_THREADS - i
  BY DEF Crowd
<1>1. \A u \in AllThreads : tid[u] \in Nat
  BY SlotFacts DEF IInv, TypeOK
<1>2. \A j \in 0 .. REGISTRY_MAX_THREADS :
        /\ Cardinality(From(j)) <= REGISTRY_MAX_THREADS - j
        /\ Cardinality(From(j)) \in Nat
  BY FromFinite, FS_CardinalityType DEF IInv, Crowd
<1>3. tid'[t] = s + 1 /\ \A u \in AllThreads \ {t} : tid'[u] = tid[u]
  BY DEF IInv, TypeOK
<1>4. Alive \subseteq AllThreads /\ t \in Alive /\ h \in Alive
  BY DEF Alive, Holding
<1>5. CASE i # s + 1
  <2>1. From(i)' = From(i)
    <3>1. \A u \in Alive : tid'[u] >= i <=> tid[u] >= i
      BY <1>1, <1>3, <1>4, <1>5, SlotFacts
    <3>2. QED
      BY <3>1 DEF From
  <2>2. QED
    BY <1>2, <2>1
<1>6. CASE i = s + 1
  <2>1. s \in 0 .. REGISTRY_MAX_THREADS
    BY SlotFacts
  <2>2. h \in From(s) /\ h \notin From(i)'
    BY <1>1, <1>3, <1>4, <1>6, <2>1 DEF From
  <2>3. From(i)' \subseteq From(s) \ {h}
    <3>1. \A u \in Alive : tid'[u] >= i => tid[u] >= s
      BY <1>1, <1>3, <1>4, <1>6, <2>1
    <3>2. QED
      BY <2>2, <3>1 DEF From
  <2>4. IsFiniteSet(From(s) \ {h})
        /\ Cardinality(From(s) \ {h}) = Cardinality(From(s)) - 1
    BY <2>2, FromFinite, FS_RemoveElement
  <2>5. Cardinality(From(i)') <= Cardinality(From(s)) - 1
        /\ Cardinality(From(i)') \in Nat
    BY <2>3, <2>4, FS_Subset, FS_CardinalityType
  <2>6. QED
    BY <1>2, <1>6, <2>1, <2>5, SlotFacts
<1>7. QED
  BY <1>5, <1>6

(* A thread begins at slot 0.                                              *)
LEMMA CrowdBegins ==
  ASSUME IInv, NEW t \in AllThreads, getTID(t)
  PROVE  Crowd'
<1> SUFFICES ASSUME MaxAlive <= REGISTRY_MAX_THREADS,
                    NEW i \in 0 .. REGISTRY_MAX_THREADS
             PROVE  Cardinality(From(i)') <= REGISTRY_MAX_THREADS - i
  BY DEF Crowd
<1>1. tid'[t] = 0 /\ (\A u \in AllThreads \ {t} : tid'[u] = tid[u])
      /\ Alive' = Alive \union {t} /\ t \notin Alive /\ t \in AllThreads
  BY DEF getTID, Goto, Alive, IInv, TypeOK
<1>2. CASE i = 0
  <2>1. From(i)' \subseteq Alive \union {t}
    BY <1>1 DEF From
  <2>2. IsFiniteSet(Alive \union {t})
        /\ Cardinality(Alive \union {t}) = Cardinality(Alive) + 1
    BY <1>1, FromFinite, FS_AddElement
  <2>3. Cardinality(From(i)') <= Cardinality(Alive) + 1
        /\ Cardinality(From(i)') \in Nat /\ Cardinality(Alive) \in Nat
    BY <2>1, <2>2, FromFinite, FS_Subset, FS_CardinalityType
  <2>4. Cardinality(Alive) < MaxAlive
    BY DEF getTID
  <2>5. QED
    BY <1>2, <2>3, <2>4, SlotFacts, RegistryAssumption
<1>3. CASE i # 0
  <2>1. \A u \in Alive : tid'[u] = tid[u]
    BY <1>1 DEF Alive
  <2>2. From(i)' = From(i)
    BY <1>1, <1>3, <2>1 DEF From
  <2>3. QED
    BY <2>2 DEF IInv, Crowd
<1>4. QED
  BY <1>2, <1>3

-----------------------------------------------------------------------------
(* A scan that goes on to the next slot because another thread has this.   *)
LEMMA NextSlotIInv ==
  ASSUME IInv, NEW t \in AllThreads, NEW from \in {"load", "cas"},
         usedTID[tid[t]], NextSlot(t, from), UNCHANGED <<usedTID, maxTid, curMax>>
  PROVE  IInv'
<1>1. tid[t] \in Tids /\ pc[t] = from
  BY DEF NextSlot, Goto, IInv, TypeOK
<1>2. PICK h \in AllThreads : Holding(h) /\ tid[h] = tid[t]
  BY <1>1 DEF IInv, UniqueIds
<1>3. t # h
  BY <1>1, <1>2 DEF Holding
<1>4. /\ pc' = [pc EXCEPT ![t] = IF tid[t] + 1 \in Tids THEN "load" ELSE "too_many"]
      /\ tid' = [tid EXCEPT ![t] = tid[t] + 1]
  BY DEF NextSlot, Goto
<1>5. Alive' = Alive
  BY <1>1, <1>4 DEF Alive, IInv, TypeOK
<1>6. TypeOK'
  BY <1>1, <1>4, SlotFacts DEF IInv, TypeOK, States
<1>7. UniqueIds'
  BY <1>1, <1>4 DEF IInv, TypeOK, UniqueIds, Holding
<1>8. CoveredByMax' /\ Locals'
  BY <1>1, <1>4, SlotFacts DEF IInv, TypeOK, CoveredByMax, Locals
<1>9. Crowd'
  BY <1>1, <1>2, <1>3, <1>4, <1>5, CrowdMoves
<1>10. QED
  BY <1>6, <1>7, <1>8, <1>9 DEF IInv

LEMMA NextIInv == IInv /\ [Next]_vars => IInv'
<1> SUFFICES ASSUME IInv, [Next]_vars PROVE IInv'
  OBVIOUS
<1> USE DEF Goto
<1>1. ASSUME NEW t \in AllThreads, getTID(t) PROVE IInv'
  <2>1. TypeOK'
    BY <1>1, SlotFacts DEF getTID, IInv, TypeOK, States
  <2>2. UniqueIds' /\ CoveredByMax' /\ Locals'
    BY <1>1 DEF getTID, IInv, TypeOK, UniqueIds, Holding, CoveredByMax, Locals
  <2>3. QED
    BY <1>1, <2>1, <2>2, CrowdBegins DEF IInv
<1>2. ASSUME NEW t \in AllThreads, LoadUsed(t) PROVE IInv'
  <2>1. CASE usedTID[tid[t]] /\ NextSlot(t, "load")
    BY <1>2, <2>1, NextSlotIInv DEF LoadUsed
  <2>2. CASE pc[t] = "load" /\ pc' = [pc EXCEPT ![t] = "cas"] /\ UNCHANGED tid
    <3>1. TypeOK'
      BY <1>2, <2>2 DEF LoadUsed, IInv, TypeOK, States
    <3>2. UniqueIds' /\ CoveredByMax' /\ Locals'
      BY <1>2, <2>2 DEF LoadUsed, IInv, TypeOK, UniqueIds, Holding, CoveredByMax, Locals
    <3>3. Alive' \subseteq Alive
      BY <2>2 DEF Alive, IInv, TypeOK
    <3>4. QED
      BY <2>2, <3>1, <3>2, <3>3, CrowdStays DEF IInv
  <2>3. QED
    BY <1>2, <2>1, <2>2 DEF LoadUsed
<1>3. ASSUME NEW t \in AllThreads, CasUsed(t) PROVE IInv'
  <2>1. CASE usedTID[tid[t]] /\ NextSlot(t, "cas") /\ UNCHANGED usedTID
    BY <1>3, <2>1, NextSlotIInv DEF CasUsed
  <2>2. CASE /\ ~usedTID[tid[t]]
             /\ pc[t] = "cas" /\ pc' = [pc EXCEPT ![t] = "load_max"]
             /\ usedTID' = [usedTID EXCEPT ![tid[t]] = TRUE]
             /\ UNCHANGED tid
    <3>1. TypeOK'
      BY <1>3, <2>2 DEF CasUsed, IInv, TypeOK, States
    <3>2. tid[t] \in Tids /\ ~\E u \in AllThreads : Holding(u) /\ tid[u] = tid[t]
      BY <2>2 DEF IInv, TypeOK, UniqueIds
    <3>3. UniqueIds'
      BY <2>2, <3>2 DEF IInv, TypeOK, UniqueIds, Holding
    <3>4. CoveredByMax' /\ Locals'
      BY <1>3, <2>2 DEF CasUsed, IInv, TypeOK, CoveredByMax, Locals
    <3>5. Alive' \subseteq Alive
      BY <2>2 DEF Alive, IInv, TypeOK
    <3>6. QED
      BY <2>2, <3>1, <3>3, <3>4, <3>5, CrowdStays DEF IInv
  <2>3. QED
    BY <1>3, <2>1, <2>2 DEF CasUsed
<1>4. ASSUME NEW t \in AllThreads, LoadMax(t) \/ CasMax(t) PROVE IInv'
  <2>1. tid[t] \in Tids /\ tid[t] + 1 \in 0 .. REGISTRY_MAX_THREADS
    BY <1>4, SlotFacts DEF LoadMax, CasMax, IInv, TypeOK
  <2>2. TypeOK'
    BY <1>4, <2>1 DEF LoadMax, CasMax, IInv, TypeOK, States
  <2>3. UniqueIds'
    BY <1>4 DEF LoadMax, CasMax, IInv, TypeOK, UniqueIds, Holding
  <2>4. CoveredByMax' /\ Locals'
    BY <1>4, <2>1, SlotFacts DEF LoadMax, CasMax, IInv, TypeOK, CoveredByMax, Locals
  <2>5. Alive' \subseteq Alive /\ tid' = tid
    BY <1>4 DEF LoadMax, CasMax, Alive, IInv, TypeOK
  <2>6. QED
    BY <2>2, <2>3, <2>4, <2>5, CrowdStays DEF IInv
<1>5. ASSUME NEW t \in AllThreads, deregister_thread(t) PROVE IInv'
  <2>1. TypeOK'
    BY <1>5 DEF deregister_thread, IInv, TypeOK, States
  <2>2. UniqueIds'
    BY <1>5 DEF deregister_thread, IInv, TypeOK, UniqueIds, Holding
  <2>3. CoveredByMax' /\ Locals'
    BY <1>5 DEF deregister_thread, IInv, TypeOK, CoveredByMax, Locals
  <2>4. Alive' \subseteq Alive /\ tid' = tid
    BY <1>5 DEF deregister_thread, Alive, IInv, TypeOK
  <2>5. QED
    BY <2>1, <2>2, <2>3, <2>4, CrowdStays DEF IInv
<1>6. CASE UNCHANGED vars
  <2>1. TypeOK' /\ UniqueIds' /\ CoveredByMax' /\ Locals'
    BY <1>6 DEF vars, IInv, TypeOK, UniqueIds, Holding, CoveredByMax, Locals
  <2>2. Crowd'
    BY <1>6, CrowdStays DEF vars, Alive, IInv
  <2>3. QED
    BY <2>1, <2>2 DEF IInv
<1>7. QED
  BY <1>1, <1>2, <1>3, <1>4, <1>5, <1>6 DEF Next, Step

LEMMA Invariance == Spec => []IInv
BY InitIInv, NextIInv, PTL DEF Spec

-----------------------------------------------------------------------------
(* A thread beyond the last slot would be in a crowd of none.              *)
LEMMA IInvRoom == IInv => RoomForEveryone
<1> SUFFICES ASSUME IInv, MaxAlive <= REGISTRY_MAX_THREADS,
                    NEW t \in AllThreads, pc[t] = "too_many"
             PROVE  FALSE
  BY DEF RoomForEveryone
<1> DEFINE R == REGISTRY_MAX_THREADS
<1>1. R \in 0 .. R /\ R - R = 0
  BY SlotFacts
<1>2. t \in From(R)
  BY SlotFacts DEF From, Alive, IInv, Locals
<1>3. Cardinality(From(R)) <= 0 /\ Cardinality(From(R)) \in Nat
  BY <1>1, FromFinite, FS_CardinalityType DEF IInv, Crowd
<1>4. From(R) = {}
  BY <1>3, FromFinite, FS_EmptySet
<1>5. QED
  BY <1>2, <1>4

LEMMA MaxRises == IInv /\ [Next]_vars => maxTid' >= maxTid
<1> SUFFICES ASSUME IInv, [Next]_vars PROVE maxTid' >= maxTid
  OBVIOUS
<1>1. maxTid \in Int
  BY SlotFacts DEF IInv, TypeOK
<1>2. ASSUME NEW t \in AllThreads, CasMax(t) PROVE maxTid' >= maxTid
  <2>1. tid[t] \in Int /\ curMax[t] \in Int /\ curMax[t] <= tid[t]
    BY <1>2, SlotFacts DEF CasMax, Goto, IInv, TypeOK, Locals
  <2>2. QED
    BY <1>1, <1>2, <2>1 DEF CasMax
<1>3. ASSUME NEW t \in AllThreads,
             getTID(t) \/ LoadUsed(t) \/ CasUsed(t) \/ LoadMax(t) \/ deregister_thread(t)
      PROVE  maxTid' = maxTid
  BY <1>3 DEF getTID, LoadUsed, CasUsed, LoadMax, deregister_thread
<1>4. CASE UNCHANGED vars
  BY <1>1, <1>4 DEF vars
<1>5. QED
  BY <1>1, <1>2, <1>3, <1>4 DEF Next, Step

(* Every number of slots and threads: ids are unique and covered by        *)
(* getMaxThreads(), which never falls, and there is one for everybody.     *)
THEOREM Sound == Spec => RegistrySound
<1>1. IInv => TypeOK /\ UniqueIds /\ CoveredByMax /\ RoomForEveryone
  BY IInvRoom DEF IInv
<1>2. QED
  BY Invariance, MaxRises, <1>1, PTL DEF Spec, RegistrySound, MaxNeverFalls
=============================================================================
