------------------------ MODULE StrongTryRWLock_proofs ------------------------
(***************************************************************************)
(* Mutual exclusion of StrongTryRWLock, and that it implements TryRWLock,  *)
(* for every number of threads and every bound on the sequence number.     *)
(*                                                                         *)
(* A writer reads the slots of the read indicator one by one, so what it   *)
(* knows of a slot is old by the time it takes the lock.  The invariant    *)
(* (Cleared) says what remains true of a slot it found empty as long as    *)
(* wstate is the HLOCK value it will CAS: a reader that has come since     *)
(* cannot be in without having moved wstate.  That argument needs wstate   *)
(* never to return to an old value, which is what Rank expresses.          *)
(***************************************************************************)
EXTENDS StrongTryRWLock, TLAPS

Phase(s) ==
  IF s = "HLOCK" THEN 0
  ELSE IF s = "WLOCK" THEN 1
  ELSE IF s = "RLOCK" THEN 2
  ELSE 3

Rank(w) == 4 * w.seq + Phase(w.state)

(* The slot of a thread is set exactly while it is between its arrival and *)
(* its departure.                                                          *)
Slots ==
  \A r \in Threads :
    ri[r] # NOT_READING
      <=> pc[r] \in {"s_load", "s_cas", "s_reload", "s_rollback", "reading"}

(* WLOCK and RLOCK have one owner: a thread, or for RLOCK the hand-over.   *)
Owner(t) == pc[t] = "writing" \/ Aborting(t)

Owners ==
  /\ \A t \in Threads : pc[t] = "writing" => wstate.state = "WLOCK"
  /\ \A t \in Threads : Aborting(t) => wstate.state = "RLOCK" /\ ~handed
  /\ handed => wstate.state = "RLOCK"
  /\ \A t, u \in Threads : Owner(t) /\ Owner(u) => t = u

NoReader ==
  wstate.state = "WLOCK" =>
    \A r \in Threads : pc[r] # "reading" /\ ri[r] # READING + 1

(* What a call knows of its copy of wstate.                                *)
Locals ==
  \A t \in Threads :
    /\ Rank(ws[t]) <= Rank(wstate)
    /\ pc[t] \in {"s_cas", "x_recheck", "x_take"} => ws[t].state = "HLOCK"
    /\ pc[t] = "x_hope" => ws[t].state = "NOLOCK"
    /\ pc[t] = "x_scan" => ws[t].state \in {"NOLOCK", "HLOCK"}
    /\ pc[t] = "x_scan" => k[t] < MaxThreads

Clear(r) ==
  /\ ri[r] # READING + 1
  /\ pc[r] \notin {"s_reload", "s_rollback", "reading"}
  /\ pc[r] = "s_cas" => ws[r] = wstate

Passed(t, r) ==
  \/ pc[t] = "x_scan" /\ r < k[t]
  \/ pc[t] \in {"x_recheck", "x_take"}

Cleared ==
  \A t, r \in Threads :
    Passed(t, r) /\ ws[t] = wstate /\ wstate.state = "HLOCK" => Clear(r)

IInv ==
  /\ TypeOK
  /\ Slots
  /\ Owners
  /\ NoReader
  /\ Locals
  /\ Cleared
  /\ ReaderYieldsOnlyToWriter

-----------------------------------------------------------------------------
(* The values of wstate are exactly what At builds.                        *)
LEMMA AtType ==
  /\ \A q \in Nat, s \in LockStates : At(q, s) \in StructData
  /\ \A w \in StructData : w.seq \in Nat /\ w.seq + 1 \in Nat
                         /\ w.state \in LockStates
  /\ \A w \in StructData : w = At(w.seq, w.state)
BY DEF At, StructData

(* wstate only moves up in Rank, and Rank tells its values apart.          *)
LEMMA RankMoves ==
  /\ \A w \in StructData : Rank(w) \in Nat
  /\ \A v, w \in StructData : Rank(v) = Rank(w) => v = w
  /\ \A w \in StructData :
       /\ Rank(At(w.seq, "NOLOCK")) >= Rank(w)
       /\ w.state = "HLOCK" => Rank(At(w.seq, "WLOCK")) > Rank(w)
       /\ w.state = "WLOCK" => Rank(At(w.seq, "RLOCK")) > Rank(w)
       /\ w.state = "NOLOCK" => Rank(At(w.seq + 1, "HLOCK")) = Rank(w) + 1
<1>1. \A w \in StructData : Rank(w) \in Nat
  BY AtType DEF Rank, Phase
<1>2. ASSUME NEW v \in StructData, NEW w \in StructData, Rank(v) = Rank(w)
      PROVE  v = w
  <2>1. v.seq = w.seq /\ Phase(v.state) = Phase(w.state)
    <3>1. Phase(v.state) \in 0 .. 3 /\ Phase(w.state) \in 0 .. 3
      BY DEF Phase
    <3>2. v.seq \in Nat /\ w.seq \in Nat
      BY AtType
    <3>3. 4 * v.seq + Phase(v.state) = 4 * w.seq + Phase(w.state)
      BY <1>2 DEF Rank
    <3>4. \A a, b \in Nat, i, j \in 0 .. 3 :
            4 * a + i = 4 * b + j => a = b /\ i = j
      OBVIOUS
    <3>5. QED
      BY <3>1, <3>2, <3>3, <3>4
  <2>2. v.state = w.state
    BY <2>1, AtType DEF Phase, LockStates
  <2>3. QED
    BY <2>1, <2>2, AtType
<1>3. ASSUME NEW w \in StructData
      PROVE  /\ Rank(At(w.seq, "NOLOCK")) >= Rank(w)
             /\ w.state = "HLOCK" => Rank(At(w.seq, "WLOCK")) > Rank(w)
             /\ w.state = "WLOCK" => Rank(At(w.seq, "RLOCK")) > Rank(w)
             /\ w.state = "NOLOCK"
                  => Rank(At(w.seq + 1, "HLOCK")) = Rank(w) + 1
  BY AtType DEF Rank, Phase, At
<1>4. QED
  BY <1>1, <1>2, <1>3

(* The slots a scan visits, 0 to MaxThreads - 1, are those of the threads. *)
LEMMA ThreadsAreSlots ==
  /\ Threads \subseteq Nat
  /\ \A t \in Threads : t < MaxThreads
  /\ MaxThreads \in Nat
  /\ 0 \in 0 .. MaxThreads
  /\ \A i \in 0 .. MaxThreads : i < MaxThreads => i \in Threads
  /\ \A i \in 0 .. MaxThreads : i \in Nat /\ i <= MaxThreads
  /\ \A i \in 0 .. MaxThreads : i < MaxThreads => i + 1 \in 0 .. MaxThreads
BY ConstantsAssumption DEF Threads

(* Every field and local stays in its range.                               *)
LEMMA TypeOKStep == IInv /\ [Next]_vars => TypeOK'
<1> SUFFICES ASSUME IInv, [Next]_vars PROVE TypeOK'
  OBVIOUS
<1> USE DEF IInv, TypeOK, Goto, Load, Win, Lose, Step,
      Locations, Record, NOT_READING, READING, Slots, Locals
<1>1. ASSUME NEW t \in Threads, SharedCheck(t) PROVE TypeOK'
  BY <1>1 DEF SharedCheck
<1>2. ASSUME NEW t \in Threads, Arrive(t) PROVE TypeOK'
  BY <1>2 DEF Arrive
<1>3. ASSUME NEW t \in Threads, SharedLoad(t) PROVE TypeOK'
  BY <1>3 DEF SharedLoad, Decide
<1>4. ASSUME NEW t \in Threads, SharedCas(t) PROVE TypeOK'
  <2>1. wstate' \in StructData
    BY <1>4, AtType DEF SharedCas, LockStates
  <2>2. pc' \in [Threads -> Locations] /\ outcome' \in SUBSET {"won", "lost"}
    BY <1>4 DEF SharedCas
  <2>3. QED
    BY <2>1, <2>2, <1>4 DEF SharedCas
<1>5. ASSUME NEW t \in Threads, SharedReload(t) PROVE TypeOK'
  BY <1>5 DEF SharedReload, Decide
<1>6. ASSUME NEW t \in Threads, RollbackArrive(t) PROVE TypeOK'
  <2>1. ri[t] \in 1 .. 2
    BY <1>6 DEF RollbackArrive
  <2>2. ri' \in [Threads -> 0 .. 2]
    BY <2>1, <1>6 DEF RollbackArrive
  <2>3. pc' \in [Threads -> Locations] /\ outcome' \in SUBSET {"won", "lost"}
    BY <1>6 DEF RollbackArrive
  <2>4. QED
    BY <2>2, <2>3, <1>6 DEF RollbackArrive
<1>7. ASSUME NEW t \in Threads, SharedUnlock(t) PROVE TypeOK'
  BY <1>7 DEF SharedUnlock
<1>8. ASSUME NEW t \in Threads, ExclusiveLoad(t) PROVE TypeOK'
  <2>1. k' \in [Threads -> 0 .. MaxThreads] /\ ws' \in [Threads -> StructData]
    BY <1>8, ThreadsAreSlots DEF ExclusiveLoad
  <2>2. pc' \in [Threads -> Locations] /\ outcome' \in SUBSET {"won", "lost"}
    BY <1>8 DEF ExclusiveLoad
  <2>3. QED
    BY <2>1, <2>2, <1>8 DEF ExclusiveLoad
<1>9. ASSUME NEW t \in Threads, ScanSlot(t) PROVE TypeOK'
  <2>1. k[t] + 1 \in 0 .. MaxThreads
    BY <1>9, ThreadsAreSlots DEF ScanSlot
  <2>2. k' \in [Threads -> 0 .. MaxThreads]
    BY <2>1, <1>9 DEF ScanSlot
  <2>3. AfterScan(t) \in Locations
    BY DEF AfterScan
  <2>4. pc' \in [Threads -> Locations] /\ outcome' \in SUBSET {"won", "lost"}
    BY <2>3, <1>9, ZenonT(60) DEF ScanSlot
  <2>5. QED
    BY <2>2, <2>4, <1>9 DEF ScanSlot
<1>10. ASSUME NEW t \in Threads, HopeCas(t) PROVE TypeOK'
  BY AtType, ThreadsAreSlots, <1>10 DEF HopeCas, LockStates
<1>11. ASSUME NEW t \in Threads, Recheck(t) PROVE TypeOK'
  BY <1>11 DEF Recheck
<1>12. ASSUME NEW t \in Threads, TakeCas(t) PROVE TypeOK'
  <2>1. wstate' \in StructData
    BY <1>12, AtType DEF TakeCas, LockStates
  <2>2. pc' \in [Threads -> Locations] /\ outcome' \in SUBSET {"won", "lost"}
    BY <1>12 DEF TakeCas
  <2>3. QED
    BY <2>1, <2>2, <1>12 DEF TakeCas
<1>13. ASSUME NEW t \in Threads, ExclusiveUnlock(t) PROVE TypeOK'
  BY AtType, ThreadsAreSlots, <1>13 DEF ExclusiveUnlock, LeaveExclusive, LockStates
<1>14. ASSUME NEW t \in Threads, Downgrade(t) PROVE TypeOK'
  BY AtType, ThreadsAreSlots, <1>14 DEF Downgrade, LeaveExclusive, LockStates
<1>15. ASSUME NEW t \in Threads, AbortSlot(t) PROVE TypeOK'
  BY ThreadsAreSlots, <1>15 DEF AbortSlot
<1>16. ASSUME NEW t \in Threads, UnlockDone(t) PROVE TypeOK'
  BY AtType, <1>16 DEF UnlockDone, LockStates
<1>17. ASSUME NEW t \in Threads, DowngradeDone(t) PROVE TypeOK'
  BY <1>17 DEF DowngradeDone
<1>18. ASSUME NEW t \in Threads, SetReadUnlock(t) PROVE TypeOK'
  BY AtType, <1>18 DEF SetReadUnlock, LockStates
<1>19. CASE UNCHANGED vars
  BY <1>19 DEF vars
<1>20. QED
  BY <1>1, <1>2, <1>3, <1>4, <1>5, <1>6, <1>7, <1>8, <1>9, <1>10, <1>11, <1>12,
     <1>13, <1>14, <1>15, <1>16, <1>17, <1>18, <1>19
     DEF Next, Shared, Exclusive, Release

(* Only the thread itself clears its slot, and only outside.               *)
LEMMA SlotsStep == IInv /\ [Next]_vars => Slots'
<1> SUFFICES ASSUME IInv, [Next]_vars PROVE Slots'
  OBVIOUS
<1> USE DEF IInv, TypeOK, Goto, Load, Win, Lose, Step,
      NOT_READING, READING, Slots
<1>1. ASSUME NEW t \in Threads, SharedCheck(t) PROVE Slots'
  BY <1>1 DEF SharedCheck
<1>2. ASSUME NEW t \in Threads, Arrive(t) PROVE Slots'
  BY <1>2 DEF Arrive
<1>3. ASSUME NEW t \in Threads, SharedLoad(t) PROVE Slots'
  BY <1>3 DEF SharedLoad, Decide
<1>4. ASSUME NEW t \in Threads, SharedCas(t) PROVE Slots'
  BY <1>4 DEF SharedCas
<1>5. ASSUME NEW t \in Threads, SharedReload(t) PROVE Slots'
  BY <1>5 DEF SharedReload, Decide
<1>6. ASSUME NEW t \in Threads, RollbackArrive(t) PROVE Slots'
  BY <1>6 DEF RollbackArrive
<1>7. ASSUME NEW t \in Threads, SharedUnlock(t) PROVE Slots'
  BY <1>7 DEF SharedUnlock
<1>8. ASSUME NEW t \in Threads, ExclusiveLoad(t) PROVE Slots'
  BY <1>8 DEF ExclusiveLoad
<1>9. ASSUME NEW t \in Threads, ScanSlot(t) PROVE Slots'
  BY <1>9 DEF ScanSlot, AfterScan
<1>10. ASSUME NEW t \in Threads, HopeCas(t) PROVE Slots'
  BY <1>10 DEF HopeCas
<1>11. ASSUME NEW t \in Threads, Recheck(t) PROVE Slots'
  BY <1>11 DEF Recheck
<1>12. ASSUME NEW t \in Threads, TakeCas(t) PROVE Slots'
  BY <1>12 DEF TakeCas
<1>13. ASSUME NEW t \in Threads, ExclusiveUnlock(t) PROVE Slots'
  BY <1>13 DEF ExclusiveUnlock, LeaveExclusive
<1>14. ASSUME NEW t \in Threads, Downgrade(t) PROVE Slots'
  BY <1>14 DEF Downgrade, LeaveExclusive
<1>15. ASSUME NEW t \in Threads, AbortSlot(t) PROVE Slots'
  BY <1>15 DEF AbortSlot
<1>16. ASSUME NEW t \in Threads, UnlockDone(t) PROVE Slots'
  BY <1>16 DEF UnlockDone
<1>17. ASSUME NEW t \in Threads, DowngradeDone(t) PROVE Slots'
  BY <1>17 DEF DowngradeDone
<1>18. ASSUME NEW t \in Threads, SetReadUnlock(t) PROVE Slots'
  BY <1>18 DEF SetReadUnlock
<1>19. CASE UNCHANGED vars
  BY <1>19 DEF vars
<1>20. QED
  BY <1>1, <1>2, <1>3, <1>4, <1>5, <1>6, <1>7, <1>8, <1>9, <1>10, <1>11, <1>12,
     <1>13, <1>14, <1>15, <1>16, <1>17, <1>18, <1>19
     DEF Next, Shared, Exclusive, Release

(* WLOCK and RLOCK change hands only through their owner.                  *)
LEMMA OwnersStep == IInv /\ [Next]_vars => Owners'
<1> SUFFICES ASSUME IInv, [Next]_vars PROVE Owners'
  OBVIOUS
<1> USE DEF IInv, TypeOK, Goto, Load, Win, Lose, Step,
      At, Owners, Owner, Aborting
<1>1. ASSUME NEW t \in Threads, SharedCheck(t) PROVE Owners'
  BY <1>1 DEF SharedCheck
<1>2. ASSUME NEW t \in Threads, Arrive(t) PROVE Owners'
  BY <1>2 DEF Arrive
<1>3. ASSUME NEW t \in Threads, SharedLoad(t) PROVE Owners'
  BY <1>3 DEF SharedLoad, Decide
<1>4. ASSUME NEW t \in Threads, SharedCas(t) PROVE Owners'
  BY <1>4 DEF SharedCas, Locals
<1>5. ASSUME NEW t \in Threads, SharedReload(t) PROVE Owners'
  BY <1>5 DEF SharedReload, Decide
<1>6. ASSUME NEW t \in Threads, RollbackArrive(t) PROVE Owners'
  BY <1>6 DEF RollbackArrive
<1>7. ASSUME NEW t \in Threads, SharedUnlock(t) PROVE Owners'
  BY <1>7 DEF SharedUnlock
<1>8. ASSUME NEW t \in Threads, ExclusiveLoad(t) PROVE Owners'
  BY <1>8 DEF ExclusiveLoad
<1>9. ASSUME NEW t \in Threads, ScanSlot(t) PROVE Owners'
  BY <1>9 DEF ScanSlot, AfterScan
<1>10. ASSUME NEW t \in Threads, HopeCas(t) PROVE Owners'
  BY <1>10 DEF HopeCas, Locals
<1>11. ASSUME NEW t \in Threads, Recheck(t) PROVE Owners'
  BY <1>11 DEF Recheck
<1>12. ASSUME NEW t \in Threads, TakeCas(t) PROVE Owners'
  BY <1>12 DEF TakeCas, Locals
<1>13. ASSUME NEW t \in Threads, ExclusiveUnlock(t) PROVE Owners'
  BY <1>13 DEF ExclusiveUnlock, LeaveExclusive
<1>14. ASSUME NEW t \in Threads, Downgrade(t) PROVE Owners'
  BY <1>14 DEF Downgrade, LeaveExclusive
<1>15. ASSUME NEW t \in Threads, AbortSlot(t) PROVE Owners'
  BY <1>15 DEF AbortSlot
<1>16. ASSUME NEW t \in Threads, UnlockDone(t) PROVE Owners'
  BY <1>16 DEF UnlockDone
<1>17. ASSUME NEW t \in Threads, DowngradeDone(t) PROVE Owners'
  BY <1>17 DEF DowngradeDone
<1>18. ASSUME NEW t \in Threads, SetReadUnlock(t) PROVE Owners'
  BY <1>18 DEF SetReadUnlock
<1>19. CASE UNCHANGED vars
  BY <1>19 DEF vars
<1>20. QED
  BY <1>1, <1>2, <1>3, <1>4, <1>5, <1>6, <1>7, <1>8, <1>9, <1>10, <1>11, <1>12,
     <1>13, <1>14, <1>15, <1>16, <1>17, <1>18, <1>19
     DEF Next, Shared, Exclusive, Release

(* The CAS to WLOCK finds every reader out: this is where Cleared is used. *)
LEMMA NoReaderStep == IInv /\ [Next]_vars => NoReader'
<1> SUFFICES ASSUME IInv, [Next]_vars PROVE NoReader'
  OBVIOUS
<1> USE DEF IInv, TypeOK, Goto, Load, Win, Lose, Step,
      NOT_READING, READING, At, NoReader, Slots, Owners, Aborting, Locals, Cleared, Clear, Passed
<1>1. ASSUME NEW t \in Threads, SharedCheck(t) PROVE NoReader'
  BY <1>1 DEF SharedCheck
<1>2. ASSUME NEW t \in Threads, Arrive(t) PROVE NoReader'
  BY <1>2 DEF Arrive
<1>3. ASSUME NEW t \in Threads, SharedLoad(t) PROVE NoReader'
  BY <1>3 DEF SharedLoad, Decide
<1>4. ASSUME NEW t \in Threads, SharedCas(t) PROVE NoReader'
  BY <1>4 DEF SharedCas
<1>5. ASSUME NEW t \in Threads, SharedReload(t) PROVE NoReader'
  BY <1>5 DEF SharedReload, Decide
<1>6. ASSUME NEW t \in Threads, RollbackArrive(t) PROVE NoReader'
  BY <1>6 DEF RollbackArrive
<1>7. ASSUME NEW t \in Threads, SharedUnlock(t) PROVE NoReader'
  BY <1>7 DEF SharedUnlock
<1>8. ASSUME NEW t \in Threads, ExclusiveLoad(t) PROVE NoReader'
  BY <1>8 DEF ExclusiveLoad
<1>9. ASSUME NEW t \in Threads, ScanSlot(t) PROVE NoReader'
  BY <1>9 DEF ScanSlot, AfterScan
<1>10. ASSUME NEW t \in Threads, HopeCas(t) PROVE NoReader'
  BY <1>10 DEF HopeCas
<1>11. ASSUME NEW t \in Threads, Recheck(t) PROVE NoReader'
  BY <1>11 DEF Recheck
<1>12. ASSUME NEW t \in Threads, TakeCas(t) PROVE NoReader'
  BY <1>12 DEF TakeCas
<1>13. ASSUME NEW t \in Threads, ExclusiveUnlock(t) PROVE NoReader'
  BY <1>13 DEF ExclusiveUnlock, LeaveExclusive
<1>14. ASSUME NEW t \in Threads, Downgrade(t) PROVE NoReader'
  BY <1>14 DEF Downgrade, LeaveExclusive
<1>15. ASSUME NEW t \in Threads, AbortSlot(t) PROVE NoReader'
  BY <1>15 DEF AbortSlot
<1>16. ASSUME NEW t \in Threads, UnlockDone(t) PROVE NoReader'
  BY <1>16 DEF UnlockDone
<1>17. ASSUME NEW t \in Threads, DowngradeDone(t) PROVE NoReader'
  BY <1>17 DEF DowngradeDone
<1>18. ASSUME NEW t \in Threads, SetReadUnlock(t) PROVE NoReader'
  BY <1>18 DEF SetReadUnlock
<1>19. CASE UNCHANGED vars
  BY <1>19 DEF vars
<1>20. QED
  BY <1>1, <1>2, <1>3, <1>4, <1>5, <1>6, <1>7, <1>8, <1>9, <1>10, <1>11, <1>12,
     <1>13, <1>14, <1>15, <1>16, <1>17, <1>18, <1>19
     DEF Next, Shared, Exclusive, Release

(* A copy of wstate is never ahead of it.                                  *)
LEMMA LocalsStep == IInv /\ [Next]_vars => Locals'
<1> SUFFICES ASSUME IInv, [Next]_vars PROVE Locals'
  OBVIOUS
<1> USE DEF IInv, TypeOK, Goto, Load, Win, Lose, Step,
      Locals, Owners, Aborting
<1>1. ASSUME NEW t \in Threads, SharedCheck(t) PROVE Locals'
  BY RankMoves, <1>1 DEF SharedCheck
<1>2. ASSUME NEW t \in Threads, Arrive(t) PROVE Locals'
  BY RankMoves, <1>2 DEF Arrive
<1>3. ASSUME NEW t \in Threads, SharedLoad(t) PROVE Locals'
  BY RankMoves, <1>3 DEF SharedLoad, Decide
<1>4. ASSUME NEW t \in Threads, SharedCas(t) PROVE Locals'
  <2>1. Rank(wstate) <= Rank(wstate')
    BY <1>4, RankMoves DEF SharedCas
  <2>2. wstate' \in StructData
    BY <1>4, AtType DEF SharedCas, LockStates
  <2>3. \A u \in Threads : Rank(ws[u]) <= Rank(wstate')
    BY <2>1, <2>2, RankMoves
  <2>4. QED
    BY <2>3, <1>4 DEF SharedCas
<1>5. ASSUME NEW t \in Threads, SharedReload(t) PROVE Locals'
  BY RankMoves, <1>5 DEF SharedReload, Decide
<1>6. ASSUME NEW t \in Threads, RollbackArrive(t) PROVE Locals'
  BY RankMoves, <1>6 DEF RollbackArrive
<1>7. ASSUME NEW t \in Threads, SharedUnlock(t) PROVE Locals'
  BY RankMoves, <1>7 DEF SharedUnlock
<1>8. ASSUME NEW t \in Threads, ExclusiveLoad(t) PROVE Locals'
  <2>1. CASE wstate.state \in {"WLOCK", "RLOCK"}
    BY <2>1, <1>8 DEF ExclusiveLoad
  <2>2. CASE wstate.state \notin {"WLOCK", "RLOCK"}
    <3>1. wstate.state \in {"NOLOCK", "HLOCK"}
      BY <2>2, AtType DEF LockStates
    <3>2. 0 < MaxThreads /\ Rank(wstate) <= Rank(wstate)
      BY ConstantsAssumption, RankMoves
    <3>3. /\ ws' = [ws EXCEPT ![t] = wstate]
          /\ k' = [k EXCEPT ![t] = 0]
          /\ pc' = [pc EXCEPT ![t] = "x_scan"]
          /\ UNCHANGED wstate
      BY <2>2, <1>8 DEF ExclusiveLoad
    <3>4. QED
      BY <3>1, <3>2, <3>3
  <2>3. QED
    BY <2>1, <2>2
<1>9. ASSUME NEW t \in Threads, ScanSlot(t) PROVE Locals'
  <2>1. CASE ri[k[t]] # NOT_READING
    BY <2>1, <1>9 DEF ScanSlot
  <2>2. CASE ri[k[t]] = NOT_READING /\ k[t] + 1 = MaxThreads
    BY <2>2, <1>9 DEF ScanSlot, AfterScan
  <2>3. CASE ri[k[t]] = NOT_READING /\ k[t] + 1 # MaxThreads
    <3>1. k[t] + 1 < MaxThreads
      BY <2>3, <1>9, ThreadsAreSlots DEF ScanSlot
    <3>2. QED
      BY <3>1, <2>3, <1>9 DEF ScanSlot
  <2>4. QED
    BY <2>1, <2>2, <2>3
<1>10. ASSUME NEW t \in Threads, HopeCas(t) PROVE Locals'
  <2> DEFINE next == At(ws[t].seq + 1, "HLOCK")
  <2>1. next \in StructData /\ next.state = "HLOCK"
    BY AtType DEF At, LockStates
  <2>2. Rank(next) = Rank(ws[t]) + 1
    BY <1>10, RankMoves DEF HopeCas
  <2>3. /\ Rank(wstate) \in Nat
        /\ \A u \in Threads : Rank(ws[u]) \in Nat
        /\ wstate # ws[t] => Rank(wstate) # Rank(ws[t])
    BY RankMoves
  <2>4. Rank(wstate) <= Rank(wstate') /\ Rank(next) <= Rank(wstate')
    BY <2>2, <2>3, <1>10 DEF HopeCas
  <2>5. wstate' \in StructData
    BY <2>1, <1>10 DEF HopeCas
  <2>6. Rank(wstate') \in Nat
    BY <2>5, RankMoves
  <2>7. \A u \in Threads : Rank(ws[u]) <= Rank(wstate')
    BY <2>3, <2>4, <2>6
  <2>8. ws' = [ws EXCEPT ![t] = next] /\ k' = [k EXCEPT ![t] = 0]
    BY <1>10 DEF HopeCas
  <2>9. pc' = [pc EXCEPT ![t] = "x_scan"] /\ 0 < MaxThreads
    BY <1>10, ConstantsAssumption DEF HopeCas
  <2>10. QED
    BY <2>1, <2>4, <2>7, <2>8, <2>9
<1>11. ASSUME NEW t \in Threads, Recheck(t) PROVE Locals'
  BY RankMoves, <1>11 DEF Recheck
<1>12. ASSUME NEW t \in Threads, TakeCas(t) PROVE Locals'
  <2>1. Rank(wstate) <= Rank(wstate')
    <3>1. /\ Rank(wstate) \in Nat
          /\ wstate = ws[t] => Rank(At(ws[t].seq, "WLOCK")) > Rank(wstate)
      BY <1>12, RankMoves DEF TakeCas
    <3>2. \/ wstate' = wstate
          \/ wstate = ws[t] /\ wstate' = At(ws[t].seq, "WLOCK")
      BY <1>12 DEF TakeCas
    <3>3. wstate = ws[t] => Rank(At(ws[t].seq, "WLOCK")) \in Nat
      BY <1>12, RankMoves, AtType DEF TakeCas, LockStates
    <3>4. QED
      BY <3>1, <3>2, <3>3
  <2>2. wstate' \in StructData
    BY <1>12, AtType DEF TakeCas, LockStates
  <2>3. \A u \in Threads : Rank(ws[u]) <= Rank(wstate')
    BY <2>1, <2>2, RankMoves
  <2>4. QED
    BY <2>3, <1>12 DEF TakeCas
<1>13. ASSUME NEW t \in Threads, ExclusiveUnlock(t) PROVE Locals'
  BY RankMoves, AtType, <1>13, SMTT(30) DEF ExclusiveUnlock, LeaveExclusive, LockStates
<1>14. ASSUME NEW t \in Threads, Downgrade(t) PROVE Locals'
  BY RankMoves, AtType, <1>14, SMTT(30) DEF Downgrade, LeaveExclusive, LockStates
<1>15. ASSUME NEW t \in Threads, AbortSlot(t) PROVE Locals'
  BY RankMoves, ThreadsAreSlots, <1>15 DEF AbortSlot
<1>16. ASSUME NEW t \in Threads, UnlockDone(t) PROVE Locals'
  BY RankMoves, AtType, <1>16, SMTT(30) DEF UnlockDone, LockStates
<1>17. ASSUME NEW t \in Threads, DowngradeDone(t) PROVE Locals'
  BY RankMoves, <1>17 DEF DowngradeDone
<1>18. ASSUME NEW t \in Threads, SetReadUnlock(t) PROVE Locals'
  BY RankMoves, AtType, <1>18, SMTT(30) DEF SetReadUnlock, LockStates
<1>19. CASE UNCHANGED vars
  BY <1>19 DEF vars
<1>20. QED
  BY <1>1, <1>2, <1>3, <1>4, <1>5, <1>6, <1>7, <1>8, <1>9, <1>10, <1>11, <1>12,
     <1>13, <1>14, <1>15, <1>16, <1>17, <1>18, <1>19
     DEF Next, Shared, Exclusive, Release

(* A slot found empty stays harmless while wstate is what the writer saw.  *)
LEMMA ClearedStep == IInv /\ [Next]_vars => Cleared'
<1> SUFFICES ASSUME IInv, [Next]_vars PROVE Cleared'
  OBVIOUS
<1> USE DEF IInv, TypeOK, Goto, Load, Win, Lose, Step,
      READING, NOT_READING, At, Cleared, Clear, Passed, Slots, Locals
<1>1. ASSUME NEW t \in Threads, SharedCheck(t) PROVE Cleared'
  BY <1>1 DEF SharedCheck
<1>2. ASSUME NEW t \in Threads, Arrive(t) PROVE Cleared'
  BY <1>2 DEF Arrive
<1>3. ASSUME NEW t \in Threads, SharedLoad(t) PROVE Cleared'
  BY <1>3 DEF SharedLoad, Decide
<1>4. ASSUME NEW t \in Threads, SharedCas(t) PROVE Cleared'
  BY <1>4 DEF SharedCas
<1>5. ASSUME NEW t \in Threads, SharedReload(t) PROVE Cleared'
  BY <1>5 DEF SharedReload, Decide
<1>6. ASSUME NEW t \in Threads, RollbackArrive(t) PROVE Cleared'
  BY <1>6 DEF RollbackArrive
<1>7. ASSUME NEW t \in Threads, SharedUnlock(t) PROVE Cleared'
  BY <1>7 DEF SharedUnlock
<1>8. ASSUME NEW t \in Threads, ExclusiveLoad(t) PROVE Cleared'
  BY ThreadsAreSlots, <1>8 DEF ExclusiveLoad
<1>9. ASSUME NEW t \in Threads, ScanSlot(t) PROVE Cleared'
  BY ThreadsAreSlots, <1>9 DEF ScanSlot, AfterScan
<1>10. ASSUME NEW t \in Threads, HopeCas(t) PROVE Cleared'
  <2> SUFFICES ASSUME NEW u \in Threads, NEW r \in Threads,
                      (Passed(u, r) /\ ws[u] = wstate /\ wstate.state = "HLOCK")'
               PROVE  Clear(r)'
    BY DEF Cleared
  <2>1. u # t
    BY <1>10, ThreadsAreSlots DEF HopeCas
  <2>2. wstate' = wstate
    <3> SUFFICES ASSUME wstate' # wstate PROVE FALSE
      OBVIOUS
    <3>1. wstate = ws[t] /\ wstate' = At(wstate.seq + 1, "HLOCK")
      BY <1>10 DEF HopeCas
    <3>2. Rank(wstate') = Rank(wstate) + 1
      BY <3>1, <1>10, RankMoves DEF HopeCas
    <3>3. Rank(ws[u]) <= Rank(wstate) /\ ws[u] = wstate'
      BY <2>1, <1>10 DEF HopeCas
    <3>4. Rank(wstate) \in Nat
      BY RankMoves
    <3>5. QED
      BY <3>2, <3>3, <3>4
  <2>3. Clear(r)
    BY <2>1, <2>2, <1>10 DEF HopeCas
  <2>4. QED
    BY <2>2, <2>3, <1>10 DEF HopeCas
<1>11. ASSUME NEW t \in Threads, Recheck(t) PROVE Cleared'
  BY <1>11 DEF Recheck
<1>12. ASSUME NEW t \in Threads, TakeCas(t) PROVE Cleared'
  BY <1>12 DEF TakeCas
<1>13. ASSUME NEW t \in Threads, ExclusiveUnlock(t) PROVE Cleared'
  BY <1>13 DEF ExclusiveUnlock, LeaveExclusive
<1>14. ASSUME NEW t \in Threads, Downgrade(t) PROVE Cleared'
  BY <1>14 DEF Downgrade, LeaveExclusive
<1>15. ASSUME NEW t \in Threads, AbortSlot(t) PROVE Cleared'
  BY <1>15 DEF AbortSlot, Owners, Aborting
<1>16. ASSUME NEW t \in Threads, UnlockDone(t) PROVE Cleared'
  BY <1>16 DEF UnlockDone
<1>17. ASSUME NEW t \in Threads, DowngradeDone(t) PROVE Cleared'
  BY <1>17 DEF DowngradeDone
<1>18. ASSUME NEW t \in Threads, SetReadUnlock(t) PROVE Cleared'
  BY <1>18 DEF SetReadUnlock
<1>19. CASE UNCHANGED vars
  BY <1>19 DEF vars
<1>20. QED
  BY <1>1, <1>2, <1>3, <1>4, <1>5, <1>6, <1>7, <1>8, <1>9, <1>10, <1>11, <1>12,
     <1>13, <1>14, <1>15, <1>16, <1>17, <1>18, <1>19
     DEF Next, Shared, Exclusive, Release

(* A pending arrival is marked before the writer that stopped it lets go.  *)
LEMMA ReaderYieldsOnlyToWriterStep == IInv /\ [Next]_vars => ReaderYieldsOnlyToWriter'
<1> SUFFICES ASSUME IInv, [Next]_vars PROVE ReaderYieldsOnlyToWriter'
  OBVIOUS
<1> USE DEF IInv, TypeOK, Goto, Load, Win, Lose, Step,
      NOT_READING, READING, At, ReaderYieldsOnlyToWriter, Owners, Owner, Aborting
<1>1. ASSUME NEW t \in Threads, SharedCheck(t) PROVE ReaderYieldsOnlyToWriter'
  BY <1>1 DEF SharedCheck
<1>2. ASSUME NEW t \in Threads, Arrive(t) PROVE ReaderYieldsOnlyToWriter'
  BY <1>2 DEF Arrive
<1>3. ASSUME NEW t \in Threads, SharedLoad(t) PROVE ReaderYieldsOnlyToWriter'
  BY <1>3 DEF SharedLoad, Decide
<1>4. ASSUME NEW t \in Threads, SharedCas(t) PROVE ReaderYieldsOnlyToWriter'
  BY <1>4 DEF SharedCas, Locals
<1>5. ASSUME NEW t \in Threads, SharedReload(t) PROVE ReaderYieldsOnlyToWriter'
  BY <1>5 DEF SharedReload, Decide
<1>6. ASSUME NEW t \in Threads, RollbackArrive(t) PROVE ReaderYieldsOnlyToWriter'
  BY <1>6 DEF RollbackArrive
<1>7. ASSUME NEW t \in Threads, SharedUnlock(t) PROVE ReaderYieldsOnlyToWriter'
  BY <1>7 DEF SharedUnlock
<1>8. ASSUME NEW t \in Threads, ExclusiveLoad(t) PROVE ReaderYieldsOnlyToWriter'
  BY <1>8 DEF ExclusiveLoad
<1>9. ASSUME NEW t \in Threads, ScanSlot(t) PROVE ReaderYieldsOnlyToWriter'
  BY <1>9 DEF ScanSlot, AfterScan
<1>10. ASSUME NEW t \in Threads, HopeCas(t) PROVE ReaderYieldsOnlyToWriter'
  BY <1>10 DEF HopeCas, Locals
<1>11. ASSUME NEW t \in Threads, Recheck(t) PROVE ReaderYieldsOnlyToWriter'
  BY <1>11 DEF Recheck
<1>12. ASSUME NEW t \in Threads, TakeCas(t) PROVE ReaderYieldsOnlyToWriter'
  BY <1>12 DEF TakeCas, Locals
<1>13. ASSUME NEW t \in Threads, ExclusiveUnlock(t) PROVE ReaderYieldsOnlyToWriter'
  BY ThreadsAreSlots, <1>13 DEF ExclusiveUnlock, LeaveExclusive
<1>14. ASSUME NEW t \in Threads, Downgrade(t) PROVE ReaderYieldsOnlyToWriter'
  BY ThreadsAreSlots, <1>14 DEF Downgrade, LeaveExclusive
<1>15. ASSUME NEW t \in Threads, AbortSlot(t) PROVE ReaderYieldsOnlyToWriter'
  BY ThreadsAreSlots, <1>15 DEF AbortSlot
<1>16. ASSUME NEW t \in Threads, UnlockDone(t) PROVE ReaderYieldsOnlyToWriter'
  BY ThreadsAreSlots, <1>16 DEF UnlockDone
<1>17. ASSUME NEW t \in Threads, DowngradeDone(t) PROVE ReaderYieldsOnlyToWriter'
  BY ThreadsAreSlots, <1>17 DEF DowngradeDone
<1>18. ASSUME NEW t \in Threads, SetReadUnlock(t) PROVE ReaderYieldsOnlyToWriter'
  BY <1>18 DEF SetReadUnlock
<1>19. CASE UNCHANGED vars
  BY <1>19 DEF vars
<1>20. QED
  BY <1>1, <1>2, <1>3, <1>4, <1>5, <1>6, <1>7, <1>8, <1>9, <1>10, <1>11, <1>12,
     <1>13, <1>14, <1>15, <1>16, <1>17, <1>18, <1>19
     DEF Next, Shared, Exclusive, Release

-----------------------------------------------------------------------------
(* A new lock, NOLOCK and without readers, satisfies the invariant.        *)
LEMMA InitIInv == Init => IInv
<1> SUFFICES ASSUME Init PROVE IInv
  OBVIOUS
<1>1. wstate \in StructData /\ wstate.state = "NOLOCK"
  BY AtType DEF Init, At, LockStates
<1>2. TypeOK
  <2>1. ri \in [Threads -> 0 .. 2] /\ k \in [Threads -> 0 .. MaxThreads]
    BY ThreadsAreSlots DEF Init, NOT_READING
  <2>2. pc \in [Threads -> Locations] /\ ws \in [Threads -> StructData]
    BY <1>1 DEF Init, Locations
  <2>3. handed \in BOOLEAN /\ outcome \in SUBSET {"won", "lost"}
    BY DEF Init
  <2>4. QED
    BY <1>1, <2>1, <2>2, <2>3 DEF TypeOK
<1>3. Rank(wstate) <= Rank(wstate)
  BY <1>1, RankMoves
<1>4. Slots /\ Owners /\ NoReader /\ Locals /\ Cleared
  BY <1>1, <1>3 DEF Init, Slots, Owners, Owner, Aborting, NoReader, Locals,
     Cleared, Passed, NOT_READING, READING
<1>5. ReaderYieldsOnlyToWriter
  BY DEF Init, ReaderYieldsOnlyToWriter
<1>6. QED
  BY <1>2, <1>4, <1>5 DEF IInv

(* IInv is the inductive invariant.                                        *)
THEOREM Invariance == Spec => []IInv
<1>1. IInv /\ [Next]_vars => IInv'
  BY TypeOKStep, SlotsStep, OwnersStep, NoReaderStep, LocalsStep, ClearedStep,
     ReaderYieldsOnlyToWriterStep DEF IInv
<1>2. QED
  BY InitIInv, <1>1, PTL DEF Spec

(* The fields and locals of the lock keep their types.                     *)
THEOREM TypeCorrectness == Spec => []TypeOK
<1>1. IInv => TypeOK
  BY DEF IInv
<1>2. QED
  BY Invariance, <1>1, PTL

(* A thread that holds the lock in exclusive mode is alone.                *)
THEOREM Exclusion == Spec => []MutualExclusion
<1>1. IInv => MutualExclusion
  BY DEF IInv, Owners, Owner, NoReader, MutualExclusion
<1>2. QED
  BY Invariance, <1>1, PTL

(* A shared attempt gives up only while a writer is in the way.            *)
THEOREM ReaderPreference == Spec => []ReaderYieldsOnlyToWriter
<1>1. IInv => ReaderYieldsOnlyToWriter
  BY DEF IInv
<1>2. QED
  BY Invariance, <1>1, PTL

-----------------------------------------------------------------------------
(* A step of StrongTryRWLock is a step of TryRWLock or leaves Mode and     *)
(* Readers as they are.                                                    *)
LEMMA RefinementStep == IInv /\ [Next]_vars => [Abstract!Next]_Abstract!vars
<1> SUFFICES ASSUME IInv, [Next]_vars PROVE [Abstract!Next]_Abstract!vars
  OBVIOUS
<1> USE DEF IInv, TypeOK, Goto, Load, Win, Lose, Step, Readers, READING,
      NOT_READING
<1>1. ASSUME NEW t \in Threads, SharedCheck(t) PROVE UNCHANGED <<Mode, Readers>>
  BY <1>1 DEF SharedCheck, Mode
<1>2. ASSUME NEW t \in Threads, Arrive(t) PROVE UNCHANGED <<Mode, Readers>>
  BY <1>2 DEF Arrive, Mode, Slots
<1>3. ASSUME NEW t \in Threads, SharedLoad(t) PROVE UNCHANGED <<Mode, Readers>> \/ Abstract!AcquireShared(t)
  BY <1>3 DEF SharedLoad, Decide, Mode, NoReader, Abstract!AcquireShared
<1>4. ASSUME NEW t \in Threads, SharedCas(t) PROVE UNCHANGED <<Mode, Readers>> \/ Abstract!AcquireShared(t)
  BY <1>4 DEF SharedCas, Mode, At, Locals, Abstract!AcquireShared
<1>5. ASSUME NEW t \in Threads, SharedReload(t) PROVE UNCHANGED <<Mode, Readers>> \/ Abstract!AcquireShared(t)
  BY <1>5 DEF SharedReload, Decide, Mode, NoReader, Abstract!AcquireShared
<1>6. ASSUME NEW t \in Threads, RollbackArrive(t) PROVE UNCHANGED <<Mode, Readers>>
  BY <1>6 DEF RollbackArrive, Mode, Slots
<1>7. ASSUME NEW t \in Threads, SharedUnlock(t) PROVE Abstract!ReleaseShared(t)
  BY <1>7 DEF SharedUnlock, Mode, Abstract!ReleaseShared
<1>8. ASSUME NEW t \in Threads, ExclusiveLoad(t) PROVE UNCHANGED <<Mode, Readers>>
  BY <1>8 DEF ExclusiveLoad, Mode
<1>9. ASSUME NEW t \in Threads, ScanSlot(t) PROVE UNCHANGED <<Mode, Readers>>
  BY <1>9 DEF ScanSlot, AfterScan, Mode
<1>10. ASSUME NEW t \in Threads, HopeCas(t) PROVE UNCHANGED <<Mode, Readers>>
  BY <1>10 DEF HopeCas, At, Locals, Mode
<1>11. ASSUME NEW t \in Threads, Recheck(t) PROVE UNCHANGED <<Mode, Readers>>
  BY <1>11 DEF Recheck, Mode
<1>12. ASSUME NEW t \in Threads, TakeCas(t) PROVE UNCHANGED <<Mode, Readers>> \/ Abstract!AcquireExclusive
  BY <1>12 DEF TakeCas, At, Locals, Mode, Cleared, Clear, Passed, Abstract!AcquireExclusive
<1>13. ASSUME NEW t \in Threads, ExclusiveUnlock(t) PROVE Abstract!Downgrade
  BY <1>13 DEF ExclusiveUnlock, LeaveExclusive, At, Owners, Mode, Abstract!Downgrade
<1>14. ASSUME NEW t \in Threads, Downgrade(t) PROVE Abstract!Downgrade
  BY <1>14 DEF Downgrade, LeaveExclusive, At, Owners, Mode, Abstract!Downgrade
<1>15. ASSUME NEW t \in Threads, AbortSlot(t)
      PROVE UNCHANGED <<Mode, Readers>> \/ \E r \in Threads : Abstract!AcquireShared(r)
  BY ThreadsAreSlots, <1>15 DEF AbortSlot, Mode, Owners, Aborting, Abstract!AcquireShared
<1>16. ASSUME NEW t \in Threads, UnlockDone(t) PROVE Abstract!ReleaseReadOnly
  BY <1>16 DEF UnlockDone, At, Owners, Aborting, Mode, Abstract!ReleaseReadOnly
<1>17. ASSUME NEW t \in Threads, DowngradeDone(t) PROVE UNCHANGED <<Mode, Readers>>
  BY <1>17 DEF DowngradeDone, Mode
<1>18. ASSUME NEW t \in Threads, SetReadUnlock(t) PROVE Abstract!ReleaseReadOnly
  BY <1>18 DEF SetReadUnlock, At, Owners, Mode, Abstract!ReleaseReadOnly
<1>19. ASSUME UNCHANGED vars PROVE UNCHANGED <<Mode, Readers>>
  BY <1>19 DEF vars, Mode
<1>20. QED
  BY <1>1, <1>2, <1>3, <1>4, <1>5, <1>6, <1>7, <1>8, <1>9, <1>10, <1>11, <1>12,
     <1>13, <1>14, <1>15, <1>16, <1>17, <1>18, <1>19
  DEF Next, Shared, Exclusive, Release, Abstract!Next, Abstract!vars

(* StrongTryRWLock implements the abstract try-lock.                       *)
THEOREM Refinement == Spec => AbstractSpec
<1>1. Init => Abstract!Init
  BY DEF Init, Abstract!Init, Mode, Readers, At
<1>2. QED
  BY Invariance, <1>1, RefinementStep, PTL DEF Spec, AbstractSpec, Abstract!Spec
-----------------------------------------------------------------------------
(***************************************************************************)
(* That attempts which meet on an unused lock do not all fail.  As long as *)
(* nobody has won, wstate has made at most one move, from NOLOCK to HLOCK, *)
(* so no recheck and no CAS of an exclusive attempt fails; and a shared    *)
(* attempt whose arrival made an exclusive one fail is bound to win.       *)
(***************************************************************************)

(* The converse of Owners: a lock that is taken has somebody to release it. *)
Owned ==
  /\ wstate.state = "WLOCK" => \E t \in Threads : pc[t] = "writing"
  /\ wstate.state = "RLOCK" => handed \/ \E t \in Threads : Aborting(t)

(* A shared attempt that others can see.                                   *)
Arrived(t) == pc[t] \in {"s_load", "s_cas", "s_reload"}

(* What an attempt knows of wstate while nobody has won.                   *)
Undecided(t) ==
  /\ pc[t] \notin {"reading", "writing", "s_rollback"} /\ ~Aborting(t)
  /\ pc[t] \in {"s_cas", "x_recheck", "x_take"} => ws[t] = wstate
  /\ pc[t] \in {"x_scan", "x_hope"} =>
       \/ ws[t] = wstate
       \/ ws[t].state = "NOLOCK" /\ wstate = At(ws[t].seq + 1, "HLOCK")

NobodyWon ==
  "won" \notin outcome =>
    /\ ~handed
    /\ \A t \in Threads : Undecided(t)
    /\ "lost" \in outcome => \E t \in Threads : Arrived(t)

(* A lock changes hands but is never left taken by nobody.                 *)
LEMMA OwnedStep == IInv /\ Owned /\ [Next]_vars => Owned'
<1> SUFFICES ASSUME IInv, Owned, [Next]_vars PROVE Owned'
  OBVIOUS
<1> USE DEF IInv, TypeOK, Goto, Load, Win, Lose, Step, At, Owned, Owners, Owner,
      Aborting, Locals
<1>1. ASSUME NEW t \in Threads, SharedCheck(t) PROVE Owned'
  BY <1>1 DEF SharedCheck
<1>2. ASSUME NEW t \in Threads, Arrive(t) PROVE Owned'
  BY <1>2 DEF Arrive
<1>3. ASSUME NEW t \in Threads, SharedLoad(t) PROVE Owned'
  BY <1>3 DEF SharedLoad, Decide
<1>4. ASSUME NEW t \in Threads, SharedCas(t) PROVE Owned'
  BY <1>4 DEF SharedCas
<1>5. ASSUME NEW t \in Threads, SharedReload(t) PROVE Owned'
  BY <1>5 DEF SharedReload, Decide
<1>6. ASSUME NEW t \in Threads, RollbackArrive(t) PROVE Owned'
  BY <1>6 DEF RollbackArrive
<1>7. ASSUME NEW t \in Threads, SharedUnlock(t) PROVE Owned'
  BY <1>7 DEF SharedUnlock
<1>8. ASSUME NEW t \in Threads, ExclusiveLoad(t) PROVE Owned'
  BY <1>8 DEF ExclusiveLoad
<1>9. ASSUME NEW t \in Threads, ScanSlot(t) PROVE Owned'
  BY <1>9 DEF ScanSlot, AfterScan
<1>10. ASSUME NEW t \in Threads, HopeCas(t) PROVE Owned'
  BY <1>10 DEF HopeCas
<1>11. ASSUME NEW t \in Threads, Recheck(t) PROVE Owned'
  BY <1>11 DEF Recheck
<1>12. ASSUME NEW t \in Threads, TakeCas(t) PROVE Owned'
  BY <1>12 DEF TakeCas
<1>13. ASSUME NEW t \in Threads, ExclusiveUnlock(t) PROVE Owned'
  BY <1>13 DEF ExclusiveUnlock, LeaveExclusive
<1>14. ASSUME NEW t \in Threads, Downgrade(t) PROVE Owned'
  BY <1>14 DEF Downgrade, LeaveExclusive
<1>15. ASSUME NEW t \in Threads, AbortSlot(t) PROVE Owned'
  BY <1>15 DEF AbortSlot
<1>16. ASSUME NEW t \in Threads, UnlockDone(t) PROVE Owned'
  BY <1>16 DEF UnlockDone
<1>17. ASSUME NEW t \in Threads, DowngradeDone(t) PROVE Owned'
  BY <1>17 DEF DowngradeDone
<1>18. ASSUME NEW t \in Threads, SetReadUnlock(t) PROVE Owned'
  BY <1>18 DEF SetReadUnlock
<1>19. CASE UNCHANGED vars
  BY <1>19 DEF vars
<1>20. QED
  BY <1>1, <1>2, <1>3, <1>4, <1>5, <1>6, <1>7, <1>8, <1>9, <1>10, <1>11, <1>12,
     <1>13, <1>14, <1>15, <1>16, <1>17, <1>18, <1>19 DEF Next, Shared, Exclusive, Release

(* The first to leave an unused lock's crowd is a winner.                  *)
LEMMA NobodyWonStep == IInv /\ Owned /\ NobodyWon /\ [Next]_vars => NobodyWon'
<1> SUFFICES ASSUME IInv, Owned, NobodyWon, [Next]_vars PROVE NobodyWon'
  OBVIOUS
<1> USE DEF IInv, TypeOK, Goto, Load, Win, Lose, Step, At, Owned, NobodyWon,
      Undecided, Arrived, Aborting, Record, Unused, Locals
<1>1. ASSUME NEW t \in Threads, SharedCheck(t) PROVE NobodyWon'
  BY <1>1 DEF SharedCheck
<1>2. ASSUME NEW t \in Threads, Arrive(t) PROVE NobodyWon'
  BY <1>2 DEF Arrive
<1>3. ASSUME NEW t \in Threads, SharedLoad(t) PROVE NobodyWon'
  BY <1>3 DEF SharedLoad, Decide
<1>4. ASSUME NEW t \in Threads, SharedCas(t) PROVE NobodyWon'
  BY <1>4 DEF SharedCas
<1>5. ASSUME NEW t \in Threads, SharedReload(t) PROVE NobodyWon'
  BY <1>5 DEF SharedReload, Decide
<1>6. ASSUME NEW t \in Threads, RollbackArrive(t) PROVE NobodyWon'
  BY <1>6 DEF RollbackArrive
<1>7. ASSUME NEW t \in Threads, SharedUnlock(t) PROVE NobodyWon'
  BY <1>7 DEF SharedUnlock
<1>8. ASSUME NEW t \in Threads, ExclusiveLoad(t) PROVE NobodyWon'
  BY <1>8 DEF ExclusiveLoad
<1>9. ASSUME NEW t \in Threads, ScanSlot(t) PROVE NobodyWon'
  <2>1. pc[t] = "x_scan" /\ k[t] \in Threads
    BY <1>9, ThreadsAreSlots DEF ScanSlot
  <2>2. CASE ri[k[t]] # NOT_READING
    <3>1. "won" \notin outcome => k[t] # t /\ Arrived(k[t])
      BY <2>1, <2>2 DEF Slots
    <3>2. QED
      BY <1>9, <2>1, <2>2, <3>1 DEF ScanSlot
  <2>3. CASE ri[k[t]] = NOT_READING
    BY <1>9, <2>1, <2>3 DEF ScanSlot, AfterScan
  <2>4. QED
    BY <2>2, <2>3
<1>10. ASSUME NEW t \in Threads, HopeCas(t) PROVE NobodyWon'
  BY <1>10 DEF HopeCas
<1>11. ASSUME NEW t \in Threads, Recheck(t) PROVE NobodyWon'
  BY <1>11 DEF Recheck
<1>12. ASSUME NEW t \in Threads, TakeCas(t) PROVE NobodyWon'
  BY <1>12 DEF TakeCas
<1>13. ASSUME NEW t \in Threads, ExclusiveUnlock(t) PROVE NobodyWon'
  BY <1>13 DEF ExclusiveUnlock, LeaveExclusive
<1>14. ASSUME NEW t \in Threads, Downgrade(t) PROVE NobodyWon'
  BY <1>14 DEF Downgrade, LeaveExclusive
<1>15. ASSUME NEW t \in Threads, AbortSlot(t) PROVE NobodyWon'
  BY <1>15 DEF AbortSlot
<1>16. ASSUME NEW t \in Threads, UnlockDone(t) PROVE NobodyWon'
  BY <1>16 DEF UnlockDone
<1>17. ASSUME NEW t \in Threads, DowngradeDone(t) PROVE NobodyWon'
  BY <1>17 DEF DowngradeDone
<1>18. ASSUME NEW t \in Threads, SetReadUnlock(t) PROVE NobodyWon'
  BY <1>18 DEF SetReadUnlock
<1>19. CASE UNCHANGED vars
  BY <1>19 DEF vars
<1>20. QED
  BY <1>1, <1>2, <1>3, <1>4, <1>5, <1>6, <1>7, <1>8, <1>9, <1>10, <1>11, <1>12,
     <1>13, <1>14, <1>15, <1>16, <1>17, <1>18, <1>19 DEF Next, Shared, Exclusive, Release

(* Attempts that meet on an unused lock do not all fail: one gets in, and  *)
(* an attempt without company succeeds.                                    *)
THEOREM StrongTry == Spec => []NoCollectiveFailure
<1>1. Init => Owned /\ NobodyWon
  BY DEF Init, Owned, NobodyWon, Undecided, Aborting, At
<1>2. NobodyWon => NoCollectiveFailure
  BY DEF NobodyWon, NoCollectiveFailure, Unused, Arrived
<1>3. QED
  BY Invariance, <1>1, <1>2, OwnedStep, NobodyWonStep, PTL DEF Spec
===============================================================================
