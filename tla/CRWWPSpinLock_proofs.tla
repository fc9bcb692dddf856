------------------------ MODULE CRWWPSpinLock_proofs ------------------------
(***************************************************************************)
(* Exclusion of CRWWPSpinLock, and that it implements WriterPrefLock, for  *)
(* every number of threads.                                                *)
(*                                                                         *)
(* The scan of the slots is not atomic: a reader may arrive in a slot that *)
(* was found empty.  It does not get in, because a reader that arrives     *)
(* looks at `writers` afterwards, and `writers` is 1 as long as its owner  *)
(* scans (Owned).  So a slot the scan has passed has no reader that is in  *)
(* (Passed), whatever is in the slot.                                      *)
(***************************************************************************)
EXTENDS CRWWPSpinLock, TLAPS

(* Where a thread can be, and where when it has the spin lock.             *)
Locations ==
  {"idle", "x_load", "x_cas", "t_load", "t_cas", "x_locked", "x_scan", "x_in",
   "s_arrive", "s_check", "s_depart", "s_spin", "reading"}

Owning == {"x_locked", "x_scan", "x_in"}

(* A slot is set exactly between arrival and departure.                    *)
Slots ==
  \A r \in Threads :
    states[r] = READING <=> pc[r] \in {"s_check", "s_depart", "reading"}

(* The spin lock is set exactly while it has an owner, and only one.       *)
Owned ==
  /\ writers = 1 <=> owner # NONE
  /\ \A t \in Threads : pc[t] \in Owning <=> owner = t

(* No reader is in below the scan, nor beside a writer that is alone.      *)
Passed ==
  \A t, u \in Threads :
    /\ pc[t] = "x_in" => pc[u] # "reading"
    /\ pc[t] = "x_scan" /\ u < k[t] => pc[u] # "reading"

IInv ==
  /\ TypeOK
  /\ Slots
  /\ Owned
  /\ Passed

-----------------------------------------------------------------------------
(* The slots 0 .. i - 1 are those of threads below i.                      *)
LEMMA SlotsBelow ==
  \A i \in Threads : /\ i \in Int
                     /\ 0 .. i - 1 \subseteq Threads
                     /\ \A u \in 0 .. i - 1 : u < i
                     /\ i < MaxThreads - 1 => i + 1 \in Threads
BY SpinAssumption DEF Threads

LEMMA InitIInv == Init => IInv
<1> SUFFICES ASSUME Init PROVE IInv
  OBVIOUS
<1>1. 0 \in Threads /\ NONE \notin Threads
  BY SpinAssumption DEF Threads
<1>2. QED
  BY <1>1 DEF Init, IInv, TypeOK, Slots, Owned, Passed, Owning, READING,
    NOT_READING

(* A step of a thread that leaves the spin lock and the slots alone, and   *)
(* neither enters nor scans.                                               *)
LEMMA Elsewhere ==
  ASSUME IInv, NEW t \in Threads, NEW to,
         pc[t] \notin Owning, to \notin Owning \union {"reading"},
         pc' = [pc EXCEPT ![t] = to],
         to \in Locations,
         states' \in [Threads -> {NOT_READING, READING}],
         \A r \in Threads \ {t} : states'[r] = states[r],
         states'[t] = READING <=> to \in {"s_check", "s_depart"},
         UNCHANGED <<writers, k, owner>>
  PROVE  IInv'
<1> USE DEF IInv, Locations
<1>1. TypeOK'
  BY DEF TypeOK
<1>2. Slots'
  BY DEF TypeOK, Slots
<1>3. Owned'
  BY DEF TypeOK, Owned, Owning
<1>4. Passed'
  BY DEF TypeOK, Passed, Owning
<1>5. QED
  BY <1>1, <1>2, <1>3, <1>4

(* What keeps IInv, action by action.                                      *)
LEMMA NextIInv == IInv /\ [Next]_vars => IInv'
<1> SUFFICES ASSUME IInv, [Next]_vars PROVE IInv'
  OBVIOUS
<1> USE DEF Goto, Locations, Owning, READING, NOT_READING
<1>n. NONE \notin Threads
  BY SpinAssumption DEF Threads
<1>1. ASSUME NEW t \in Threads, Begin(t) PROVE IInv'
  <2>1. states[t] # READING
    BY <1>1 DEF IInv, Slots, Begin, Call
  <2>2. QED
    BY <1>1, <2>1, Elsewhere DEF Begin, Call, IInv, TypeOK
<1>2. ASSUME NEW t \in Threads, NEW load, NEW cas, NEW failed,
             <<load, cas, failed>> \in {<<"x_load", "x_cas", "x_load">>,
                                        <<"t_load", "t_cas", "idle">>},
             TryLockLoad(t, load, cas, failed)
      PROVE  IInv'
  <2>1. states[t] # READING
    BY <1>2 DEF IInv, Slots, TryLockLoad
  <2>2. QED
    BY <1>2, <2>1, Elsewhere DEF TryLockLoad, IInv, TypeOK
<1>3. ASSUME NEW t \in Threads, NEW cas, NEW failed,
             <<cas, failed>> \in {<<"x_cas", "x_load">>, <<"t_cas", "idle">>},
             TryLockCas(t, cas, failed)
      PROVE  IInv'
  <2>1. CASE isLocked
    <3>1. states[t] # READING
      BY <1>3 DEF IInv, Slots, TryLockCas
    <3>2. QED
      BY <1>3, <2>1, <3>1, Elsewhere DEF TryLockCas, IInv, TypeOK
  <2>2. CASE ~isLocked
    <3>1. owner = NONE /\ owner' = t /\ writers' = 1
      BY <1>3, <2>2 DEF TryLockCas, isLocked, IInv, TypeOK, Owned
    <3>2. pc' = [pc EXCEPT ![t] = "x_locked"] /\ UNCHANGED <<states, k>>
      BY <1>3, <2>2 DEF TryLockCas
    <3>3. pc[t] \in {"x_cas", "t_cas"}
      BY <1>3 DEF TryLockCas
    <3>4. QED
      BY <1>n, <3>1, <3>2, <3>3 DEF IInv, TypeOK, Slots, Owned, Passed
  <2>3. QED
    BY <2>1, <2>2
<1>4. ASSUME NEW t \in Threads, WaitForReaders(t) PROVE IInv'
  <2>1. 0 \in Threads
    BY SpinAssumption DEF Threads
  <2>2. UNCHANGED <<writers, states, owner>> /\ pc[t] \in {"x_locked", "x_scan"}
    BY <1>4 DEF WaitForReaders
  <2>3. CASE pc' = [pc EXCEPT ![t] = "x_scan"] /\ k' = [k EXCEPT ![t] = 0]
    BY <2>1, <2>2, <2>3, SlotsBelow DEF IInv, TypeOK, Slots, Owned, Passed, Threads
  <2>4. CASE /\ pc' = [pc EXCEPT ![t] = "x_scan"] /\ k' = [k EXCEPT ![t] = k[t] + 1]
             /\ pc[t] = "x_scan"
             /\ states[k[t]] = NOT_READING /\ k[t] < MaxThreads - 1
    <3>1. k[t] \in Threads /\ k[t] + 1 \in Threads
      BY <2>4, SlotsBelow DEF IInv, TypeOK
    <3>2. pc[k[t]] # "reading"
      BY <2>4, <3>1 DEF IInv, Slots
    <3>3. \A u \in Threads : u < k[t] + 1 => u < k[t] \/ u = k[t]
      BY <3>1, SlotsBelow
    <3>4. \A u \in Threads : u < k[t] + 1 => pc[u] # "reading"
      BY <2>4, <3>2, <3>3 DEF IInv, Passed
    <3>5. QED
      BY <2>2, <2>4, <3>1, <3>4 DEF IInv, TypeOK, Slots, Owned, Passed
  <2>5. CASE /\ pc' = [pc EXCEPT ![t] = "x_in"] /\ k' = [k EXCEPT ![t] = 0]
             /\ pc[t] = "x_scan"
             /\ states[k[t]] = NOT_READING /\ k[t] = MaxThreads - 1
    <3>1. k[t] \in Threads
      BY DEF IInv, TypeOK
    <3>2. pc[k[t]] # "reading"
      BY <2>5, <3>1 DEF IInv, Slots
    <3>3. \A u \in Threads : u < k[t] \/ u = k[t]
      BY <2>5, SpinAssumption DEF Threads
    <3>4. \A u \in Threads : pc[u] # "reading"
      BY <2>5, <3>2, <3>3 DEF IInv, Passed
    <3>5. QED
      BY <2>1, <2>2, <2>5, <3>4 DEF IInv, TypeOK, Slots, Owned, Passed
  <2>6. QED
    BY <1>4, <2>3, <2>4, <2>5 DEF WaitForReaders
<1>5. ASSUME NEW t \in Threads, ExclusiveUnlock(t) PROVE IInv'
  <2>1. owner = t /\ pc[t] \in Owning
    BY <1>5 DEF ExclusiveUnlock, IInv, Owned
  <2>2. pc' = [pc EXCEPT ![t] = "idle"]
    BY <1>5 DEF ExclusiveUnlock
  <2>3. QED
    BY <1>5, <1>n, <2>1, <2>2 DEF ExclusiveUnlock, IInv, TypeOK, Slots, Owned, Passed
<1>6. ASSUME NEW t \in Threads, Arrive(t) PROVE IInv'
  BY <1>6, Elsewhere DEF Arrive, IInv, TypeOK
<1>7. ASSUME NEW t \in Threads, SharedCheck(t) PROVE IInv'
  <2>1. states[t] = READING
    BY <1>7 DEF SharedCheck, IInv, Slots
  <2>2. CASE isLocked
    BY <1>7, <2>1, <2>2, Elsewhere DEF SharedCheck, IInv, TypeOK
  <2>3. CASE ~isLocked
    <3>1. \A u \in Threads : pc[u] \notin Owning
      BY <1>n, <2>3 DEF isLocked, IInv, TypeOK, Owned
    <3>2. pc[t] = "s_check" /\ pc' = [pc EXCEPT ![t] = "reading"]
      BY <1>7, <2>3 DEF SharedCheck
    <3>3. UNCHANGED <<writers, states, k, owner>>
      BY <1>7 DEF SharedCheck
    <3>4. QED
      BY <3>1, <3>2, <3>3 DEF IInv, TypeOK, Slots, Owned, Passed
  <2>4. QED
    BY <2>2, <2>3
<1>8. ASSUME NEW t \in Threads, Depart(t) PROVE IInv'
  BY <1>8, Elsewhere DEF Depart, IInv, TypeOK
<1>9. ASSUME NEW t \in Threads, Spin(t) PROVE IInv'
  <2>1. states[t] # READING
    BY <1>9 DEF IInv, Slots, Spin
  <2>2. QED
    BY <1>9, <2>1, Elsewhere DEF Spin, IInv, TypeOK
<1>10. CASE UNCHANGED vars
  BY <1>10 DEF vars, IInv, TypeOK, Slots, Owned, Passed
<1>11. QED
  <2>1. ASSUME NEW t \in Threads, Lock(t) \/ TryExclusiveLock(t) PROVE IInv'
    BY <1>2, <1>3, <2>1 DEF Lock, TryExclusiveLock
  <2>2. QED
    BY <1>1, <2>1, <1>4, <1>5, <1>6, <1>7, <1>8, <1>9, <1>10 DEF Next, Step

LEMMA Invariance == Spec => []IInv
BY InitIInv, NextIInv, PTL DEF Spec

-----------------------------------------------------------------------------
LEMMA IInvExclusion == IInv => TypeOK /\ Exclusion
<1> SUFFICES ASSUME IInv, NEW t \in Threads
             PROVE  /\ pc[t] = "x_in" => \A u \in Threads \ {t} :
                         pc[u] \notin {"x_locked", "x_scan", "x_in", "reading"}
                    /\ pc[t] = "x_scan" => \A u \in 0 .. k[t] - 1 : pc[u] # "reading"
  BY DEF Exclusion, IInv
<1>1. k[t] \in Threads
  BY DEF IInv, TypeOK
<1>2. QED
  BY <1>1, SlotsBelow DEF IInv, Owned, Owning, Passed

(* A step is a step of WriterPrefLock or leaves its variables as they are. *)
LEMMA RefinementStep ==
  IInv /\ IInv' /\ [Next]_vars => [Abstract!Next]_Abstract!vars
<1> SUFFICES ASSUME IInv, IInv', [Next]_vars
             PROVE  [Abstract!Next]_Abstract!vars
  OBVIOUS
<1> DEFINE Mode == IF owner = NONE THEN "free"
                   ELSE IF pc[owner] = "x_in" THEN "alone" ELSE "locked"
           Inside == {t \in Threads : pc[t] = "reading"}
<1> USE DEF Goto, Locations, Owning, READING, NOT_READING
<1>n. NONE \notin Threads
  BY SpinAssumption DEF Threads
<1>0. /\ pc \in [Threads -> Locations] /\ owner \in Threads \union {NONE}
      /\ \A t \in Threads : pc[t] \in Owning <=> owner = t
      /\ writers = 1 <=> owner # NONE
  BY DEF IInv, TypeOK, Owned
<1>1. ASSUME NEW t \in Threads, NEW to, pc[t] \notin Owning \union {"reading"},
             pc' = [pc EXCEPT ![t] = to], to \notin Owning \union {"reading"},
             owner' = owner
      PROVE  UNCHANGED <<Mode, owner, Inside>>
  BY <1>0, <1>1
<1>2. ASSUME NEW t \in Threads, NEW cas, NEW failed,
             <<cas, failed>> \in {<<"x_cas", "x_load">>, <<"t_cas", "idle">>},
             TryLockCas(t, cas, failed)
      PROVE  UNCHANGED <<Mode, owner, Inside>> \/ Abstract!Lock(t)
  <2>1. CASE isLocked
    BY <1>1, <1>2, <2>1 DEF TryLockCas
  <2>2. CASE ~isLocked
    <3>1. owner = NONE /\ owner' = t
      BY <1>0, <1>2, <2>2 DEF TryLockCas, isLocked
    <3>2. pc' = [pc EXCEPT ![t] = "x_locked"] /\ pc[t] # "reading"
      BY <1>2, <2>2 DEF TryLockCas
    <3>3. Mode = "free" /\ Mode' = "locked" /\ Inside' = Inside
      BY <1>0, <1>n, <3>1, <3>2
    <3>4. QED
      BY <3>1, <3>3 DEF Abstract!Lock
  <2>3. QED
    BY <2>1, <2>2
<1>3. ASSUME NEW t \in Threads, WaitForReaders(t)
      PROVE  UNCHANGED <<Mode, owner, Inside>> \/ Abstract!Drain(t)
  <2>1. owner = t /\ owner' = t /\ pc[t] \in {"x_locked", "x_scan"}
    BY <1>0, <1>3 DEF WaitForReaders
  <2>2. CASE pc' = [pc EXCEPT ![t] = "x_scan"]
    BY <1>0, <1>n, <2>1, <2>2
  <2>3. CASE pc' = [pc EXCEPT ![t] = "x_in"]
    <3>1. \A u \in Threads : pc'[u] # "reading"
      BY <1>0, <2>3 DEF IInv, Passed
    <3>2. Mode = "locked" /\ Mode' = "alone" /\ Inside = {} /\ Inside' = {}
      BY <1>0, <1>n, <2>1, <2>3, <3>1
    <3>3. QED
      BY <2>1, <3>2 DEF Abstract!Drain
  <2>4. QED
    BY <1>3, <2>2, <2>3 DEF WaitForReaders
<1>4. ASSUME NEW t \in Threads, ExclusiveUnlock(t) PROVE Abstract!Unlock(t)
  <2>1. pc[t] \in Owning /\ pc' = [pc EXCEPT ![t] = "idle"] /\ owner' = NONE
    BY <1>4 DEF ExclusiveUnlock
  <2>2. owner = t /\ Mode' = "free" /\ Inside' = Inside
    BY <1>0, <2>1
  <2>3. QED
    BY <2>1, <2>2 DEF Abstract!Unlock
<1>5. ASSUME NEW t \in Threads, SharedCheck(t)
      PROVE  UNCHANGED <<Mode, owner, Inside>> \/ Abstract!SharedLock(t)
  <2>1. CASE isLocked
    BY <1>1, <1>5, <2>1 DEF SharedCheck
  <2>2. CASE ~isLocked
    <3>1. owner = NONE /\ owner' = NONE
      BY <1>0, <1>5, <2>2 DEF SharedCheck, isLocked
    <3>2. pc[t] = "s_check" /\ pc' = [pc EXCEPT ![t] = "reading"]
      BY <1>5, <2>2 DEF SharedCheck
    <3>3. t \notin Inside /\ Inside' = Inside \union {t}
      BY <1>0, <3>2
    <3>4. QED
      BY <3>1, <3>3 DEF Abstract!SharedLock
  <2>3. QED
    BY <2>1, <2>2
<1>6. ASSUME NEW t \in Threads, Depart(t)
      PROVE  UNCHANGED <<Mode, owner, Inside>> \/ Abstract!SharedUnlock(t)
  <2>1. CASE Goto(t, "s_depart", "s_spin")
    BY <1>1, <1>6, <2>1 DEF Depart
  <2>2. CASE Goto(t, "reading", "idle")
    <3>1. t \in Inside /\ Inside' = Inside \ {t}
      BY <1>0, <2>2
    <3>2. UNCHANGED <<Mode, owner>>
      BY <1>0, <1>6, <2>2 DEF Depart
    <3>3. QED
      BY <3>1, <3>2 DEF Abstract!SharedUnlock
  <2>3. QED
    BY <1>6, <2>1, <2>2 DEF Depart
<1>7. ASSUME NEW t \in Threads,
             \/ Begin(t) \/ Arrive(t) \/ Spin(t)
             \/ TryLockLoad(t, "x_load", "x_cas", "x_load")
             \/ TryLockLoad(t, "t_load", "t_cas", "idle")
      PROVE  UNCHANGED <<Mode, owner, Inside>>
  BY <1>1, <1>7 DEF Begin, Call, Arrive, Spin, TryLockLoad
<1>8. ASSUME UNCHANGED vars PROVE UNCHANGED <<Mode, owner, Inside>>
  BY <1>8 DEF vars
<1>9. QED
  BY <1>2, <1>3, <1>4, <1>5, <1>6, <1>7, <1>8
  DEF Next, Step, Lock, TryExclusiveLock, Abstract!Next, Abstract!vars

(* Every number of threads: the values are of their types, a writer that   *)
(* has waited for the readers is alone, and the lock is a WriterPrefLock.  *)
THEOREM Sound == Spec => LockSound
<1>1. Init => Abstract!Init
  BY DEF Init, Abstract!Init
<1>2. QED
  BY Invariance, IInvExclusion, <1>1, RefinementStep, PTL
  DEF Spec, LockSound, AbstractLock, Abstract!Spec
=============================================================================
