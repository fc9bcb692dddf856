-------------------------- MODULE RomulusLog_proofs --------------------------
(***************************************************************************)
(* RomulusLog keeps RInv of Romulus_proofs for every number of threads and *)
(* every size of the heap: its lock gives what Romulus asks for, that the  *)
(* writer is alone, and keeps readers out while a request changes main.    *)
(***************************************************************************)
EXTENDS RomulusLog, Romulus_proofs

(* Where a writer has waited for the readers.                              *)
Drained == Critical \ (Resting \union {"w_mutating2", "w_exclude"})

LockTypes ==
  /\ mode \in {"free", "locked", "alone"}
  /\ owner \in Threads \union {NONE}
  /\ readers \subseteq Threads
  /\ val \in [Threads -> Seq(Nat)]
  /\ \A t \in Threads : Len(val[t]) <= Blocks + 1

(* The thread in the critical section is the owner of the lock; the        *)
(* readers are those that read, and none is left when a request runs.      *)
Held ==
  /\ mode = "free" <=> owner = NONE
  /\ \A t \in Threads : pc[t] \in Critical <=> owner = t
  /\ \A t \in Threads : pc[t] = "reading" <=> t \in readers
  /\ \A t \in Threads : pc[t] \in Drained => mode = "alone"
  /\ mode = "alone" => readers = {}

LInv == RInv /\ LockTypes /\ Held

(* What the lock is for: no request runs on main while a reader reads it.  *)
ReadersOut ==
  \A t, u \in Threads : pc[t] = "reading" => pc[u] # "w_run"

-----------------------------------------------------------------------------
LEMMA NotCritical ==
  {"idle", "r_lock", "reading", "w_lock", "w_check"} \intersect Critical = {}
BY DEF Critical, Resting, Mutated, Excluding, Published, Turning

LEMMA InitLInv ==
  ASSUME LogsFit, Init
  PROVE  LInv
<1> USE DEF Init, rwlock!Init
<1>1. RInv
  BY InitRInv
<1>2. pc = [t \in Threads |-> "idle"] /\ val = [t \in Threads |-> <<>>]
  BY DEF RomInit
<1>3. LockTypes
  BY <1>2, SizeFacts DEF LockTypes
<1>4. Held
  BY <1>2, IdleFacts, SizeFacts DEF Held, Drained
<1>5. QED
  BY <1>1, <1>3, <1>4 DEF LInv

LEMMA HeldAlone ==
  ASSUME LInv
  PROVE  Alone /\ pc \in [Threads -> Critical \union Outside]
BY DEF LInv, Held, Alone, RInv, PlaceTypes

(* Steps that do not touch the lock.                                       *)
LEMMA LockKept ==
  ASSUME LInv, NEW t \in Threads, NEW to, pc' = [pc EXCEPT ![t] = to],
         UNCHANGED <<lockVars, val>>,
         pc[t] \in Critical <=> to \in Critical,
         pc[t] # "reading" /\ to # "reading",
         to \in Drained => pc[t] \in Drained
  PROVE  LockTypes' /\ Held'
<1>1. LockTypes'
  BY DEF LInv, LockTypes, lockVars
<1>2. Held'
  BY HeldAlone DEF LInv, Held, lockVars
<1>3. QED
  BY <1>1, <1>2

(* A step of the combiner within the critical section.                     *)
LEMMA InLock ==
  ASSUME LInv, NEW t \in Threads, pc[t] \in Critical, NEW to \in Critical,
         pc' = [pc EXCEPT ![t] = to], UNCHANGED <<lockVars, val>>,
         to \in Resting \union {"w_mutating2", "w_exclude"} \/ pc[t] \in Drained
  PROVE  LockTypes' /\ Held'
<1>1. pc[t] # "reading" /\ to # "reading"
  BY DEF Critical, Resting, Mutated, Excluding, Published, Turning
<1>2. QED
  BY <1>1, LockKept DEF Drained

Places == {"w_run", "w_copying", "w_copying2", "w_clear", "w_back", "w_back2", "w_idle"}

LEMMA PlaceFacts ==
  /\ Places \subseteq Drained /\ Drained \subseteq Critical
  /\ Resting \union {"w_mutating2", "w_exclude"} \subseteq Critical
BY DEF Places, Drained, Critical, Resting, Mutated, Excluding, Published, Turning

LEMMA CombineStep ==
  ASSUME LInv, NEW t \in Threads, Combine(t), UNCHANGED <<lockVars, val>>
  PROVE  LInv'
<1> USE DEF Goto, Places
<1>1. Alone /\ RInv
  BY HeldAlone DEF LInv
<1>2. CASE CheckFc(t)
  <2>1. pc[t] = "w_check" /\ \E to \in {"idle", "w_lock"} : pc' = [pc EXCEPT ![t] = to]
    BY <1>2 DEF CheckFc
  <2>2. LockTypes' /\ Held'
    BY <2>1, LockKept DEF Drained, Critical, Resting, Mutated, Excluding, Published, Turning
  <2>3. QED
    BY <1>1, <1>2, <2>2, CheckFcStep DEF LInv
<1>3. CASE Collect(t)
  <2>1. /\ pc[t] = "w_collect"
        /\ \E to \in Resting : pc' = [pc EXCEPT ![t] = to]
    BY <1>3 DEF Collect, Resting
  <2>2. LockTypes' /\ Held'
    BY <2>1, InLock, PlaceFacts DEF Resting
  <2>3. QED
    BY <1>1, <1>3, <2>2, CollectStep DEF LInv
<1>4. CASE SetMutating(t)
  <2>1. pc[t] = "w_mutating" /\ pc' = [pc EXCEPT ![t] = "w_mutating2"]
    BY <1>4 DEF SetMutating
  <2>2. LockTypes' /\ Held'
    BY <2>1, InLock, PlaceFacts DEF Resting
  <2>3. QED
    BY <1>1, <1>4, <2>2, SetMutatingStep DEF LInv
<1>5. CASE FenceState(t, "w_mutating2", "w_exclude") /\ UNCHANGED ghostVars
  <2>1. pc[t] = "w_mutating2" /\ pc' = [pc EXCEPT ![t] = "w_exclude"]
    BY <1>5 DEF FenceState
  <2>2. LockTypes' /\ Held'
    BY <2>1, InLock, PlaceFacts
  <2>3. QED
    BY <1>1, <1>5, <2>2, FenceMutatingStep DEF LInv
<1>6. CASE RunNext(t) \/ StoreWord(t) \/ GrowUsed(t)
  <2>1. pc[t] = "w_run" /\ pc' = [pc EXCEPT ![t] = "w_run"]
    BY <1>6 DEF RunNext, StoreWord, GrowUsed
  <2>2. LockTypes' /\ Held'
    BY <2>1, InLock, PlaceFacts
  <2>3. QED
    BY <1>1, <1>6, <2>2, RunNextStep, StoreWordStep, GrowUsedStep DEF LInv
<1>7. CASE FlushMain(t)
  <2>1. pc[t] = "w_run" /\ pc' = [pc EXCEPT ![t] = "w_copying"]
    BY <1>7 DEF FlushMain
  <2>2. LockTypes' /\ Held'
    BY <2>1, InLock, PlaceFacts
  <2>3. QED
    BY <1>1, <1>7, <2>2, FlushMainStep DEF LInv
<1>8. CASE SetCopying(t)
  <2>1. pc[t] = "w_copying" /\ pc' = [pc EXCEPT ![t] = "w_copying2"]
    BY <1>8 DEF SetCopying
  <2>2. LockTypes' /\ Held'
    BY <2>1, InLock, PlaceFacts
  <2>3. QED
    BY <1>1, <1>8, <2>2, SetCopyingStep DEF LInv
<1>9. CASE ClearFc(t)
  <2>1. pc[t] = "w_clear" /\ \E to \in {"w_clear", "w_back"} : pc' = [pc EXCEPT ![t] = to]
    BY <1>9 DEF ClearFc
  <2>2. LockTypes' /\ Held'
    BY <2>1, InLock, PlaceFacts
  <2>3. QED
    BY <1>1, <1>9, <2>2, ClearFcStep DEF LInv
<1>10. CASE CopyToBack(t)
  <2>1. pc[t] = "w_back" /\ pc' = [pc EXCEPT ![t] = "w_back2"]
    BY <1>10 DEF CopyToBack
  <2>2. LockTypes' /\ Held'
    BY <2>1, InLock, PlaceFacts
  <2>3. QED
    BY <1>1, <1>10, <2>2, CopyToBackStep DEF LInv
<1>11. CASE FenceBack(t)
  <2>1. pc[t] = "w_back2" /\ pc' = [pc EXCEPT ![t] = "w_idle"]
    BY <1>11 DEF FenceBack
  <2>2. LockTypes' /\ Held'
    BY <2>1, InLock, PlaceFacts
  <2>3. QED
    BY <1>1, <1>11, <2>2, FenceBackStep DEF LInv
<1>12. CASE SetIdle(t)
  <2>1. pc[t] = "w_idle" /\ pc' = [pc EXCEPT ![t] = "w_unlock"]
    BY <1>12 DEF SetIdle
  <2>2. LockTypes' /\ Held'
    BY <2>1, InLock, PlaceFacts DEF Resting
  <2>3. QED
    BY <1>1, <1>12, <2>2, SetIdleStep DEF LInv
<1>13. QED
  BY <1>2, <1>3, <1>4, <1>5, <1>6, <1>7, <1>8, <1>9, <1>10, <1>11, <1>12
     DEF Combine

-----------------------------------------------------------------------------
(* Steps that touch the lock.                                              *)
LEMMA TryLockStep ==
  ASSUME LInv, NEW t \in Threads, TryLock(t)
  PROVE  LInv'
<1> USE DEF TryLock, Goto, rwlock!Lock, lockVars
<1>1. pc[t] = "w_lock" /\ RInv /\ boot = "up"
  BY DEF LInv
<1>2. pc[t] \notin Critical
  BY <1>1 DEF Critical, Resting, Mutated, Excluding, Published, Turning
<1>3. CASE mode = "free"
  <2>1. pc' = [pc EXCEPT ![t] = "w_collect"] /\ mode' = "locked" /\ owner' = t
    BY <1>3
  <2>2. \A u \in Threads : pc[u] \notin Critical
    BY <1>3, SizeFacts DEF LInv, Held
  <2>3. RInv'
    BY <1>1, <1>2, <2>1, <2>2, BystanderGoes DEF Reading
  <2>4. LockTypes'
    BY <2>1 DEF LInv, LockTypes
  <2>5. "w_collect" \in Critical /\ "w_collect" \notin Drained
    BY DEF Critical, Resting, Drained
  <2>6. Held'
    BY <1>1, <2>1, <2>2, <2>5, HeldAlone, SizeFacts DEF LInv, Held, Drained
  <2>7. QED
    BY <2>3, <2>4, <2>6 DEF LInv
<1>4. CASE mode # "free"
  <2>1. pc' = [pc EXCEPT ![t] = "w_check"] /\ UNCHANGED lockVars
    BY <1>4
  <2>2. RInv'
    BY <1>1, <1>2, <2>1, BystanderGoes DEF Reading, Outside
  <2>3. LockTypes' /\ Held'
    BY <1>1, <1>2, <2>1, LockKept DEF Drained, Critical, Resting, Mutated,
                                      Excluding, Published, Turning
  <2>4. QED
    BY <2>2, <2>3 DEF LInv
<1>5. QED
  BY <1>3, <1>4

LEMMA WaitForReadersStep ==
  ASSUME LInv, NEW t \in Threads, WaitForReaders(t)
  PROVE  LInv'
<1> USE DEF WaitForReaders, Goto, rwlock!Drain
<1>1. /\ pc[t] = "w_exclude" /\ boot = "up" /\ Alone /\ RInv
      /\ pc' = [pc EXCEPT ![t] = "w_run"] /\ mode' = "alone" /\ readers = {}
      /\ UNCHANGED <<owner, readers, val>>
  BY HeldAlone DEF LInv
<1>2. RInv'
  <2>1. i[t] = 0 /\ i \in [Threads -> 0 .. MaxThreads]
    BY <1>1 DEF RInv, PlaceTypes, Scanning
  <2>2. QED
    BY <1>1, <2>1, WriterGoes DEF Excluding, Scanning
<1>3. LockTypes'
  BY <1>1 DEF LInv, LockTypes
<1>4. pc[t] \in Critical /\ "w_run" \in Critical
  BY <1>1 DEF Critical, Mutated, Excluding
<1>5. Held'
  BY <1>1, <1>4, HeldAlone, SizeFacts DEF LInv, Held, Drained
<1>6. QED
  BY <1>2, <1>3, <1>5 DEF LInv

LEMMA SyncCopyingStep ==
  ASSUME LInv, NEW t \in Threads, SyncCopying(t)
  PROVE  LInv'
<1>1. /\ pc[t] = "w_copying2" /\ pc' = [pc EXCEPT ![t] = "w_clear"]
      /\ Goto(t, "w_copying2", "w_clear") /\ pstate' = {state}
      /\ Commit /\ UNCHANGED <<heapVars, backVars, state, logVars, combVars, boot, i>>
      /\ UNCHANGED <<lockVars, val>>
  BY DEF SyncCopying, FenceState, Goto
<1>2. RInv'
  BY <1>1, HeldAlone, CommitStep DEF LInv
<1>3. LockTypes' /\ Held'
  BY <1>1, InLock, PlaceFacts DEF Places
<1>4. QED
  BY <1>2, <1>3 DEF LInv

LEMMA UnlockedStep ==
  ASSUME LInv, NEW t \in Threads, Unlock(t)
  PROVE  LInv'
<1> USE DEF Unlock, rwlock!Unlock
<1>1. RInv'
  BY HeldAlone, UnlockStep DEF LInv
<1>2. /\ pc' = [pc EXCEPT ![t] = "idle"] /\ owner = t /\ mode' = "free"
      /\ owner' = NONE /\ UNCHANGED <<readers, val>> /\ pc[t] \in Critical
  BY DEF Goto, Critical, Resting
<1>3. LockTypes'
  BY <1>2 DEF LInv, LockTypes
<1>4. Held'
  <2>1. /\ pc[t] # "reading" /\ "idle" # "reading" /\ "idle" \notin Critical
        /\ Drained \subseteq Critical /\ owner' \notin Threads
        /\ pc \in [Threads -> Critical \union Outside]
    BY <1>2, NotCritical, HeldAlone, SizeFacts DEF Drained
  <2>2. \A u \in Threads : pc'[u] \notin Critical
    BY <1>2, <2>1 DEF LInv, Held
  <2>3. QED
    BY <1>2, <2>1, <2>2 DEF LInv, Held
<1>5. QED
  BY <1>1, <1>3, <1>4 DEF LInv

-----------------------------------------------------------------------------
(* Readers.                                                                *)
LEMMA BeginReadStep ==
  ASSUME LInv, NEW t \in Threads, BeginRead(t)
  PROVE  LInv'
<1>1. /\ Goto(t, "idle", "r_lock") /\ Open(t, READ) /\ "r_lock" \in Reading
      /\ UNCHANGED <<memVars, combVars, boot, i, lockVars, val>>
  BY DEF BeginRead, Reading
<1>2. RInv'
  BY <1>1, OpenReadStep DEF LInv
<1>3. LockTypes' /\ Held'
  BY <1>1, NotCritical, LockKept DEF Goto, Drained
<1>4. QED
  BY <1>2, <1>3 DEF LInv

LEMMA SharedLockStep ==
  ASSUME LInv, NEW t \in Threads, SharedLock(t)
  PROVE  LInv'
<1> USE DEF SharedLock, Goto, rwlock!SharedLock
<1>1. /\ pc[t] = "r_lock" /\ pc' = [pc EXCEPT ![t] = "reading"] /\ mode = "free"
      /\ readers' = readers \union {t} /\ UNCHANGED <<mode, owner, val>>
      /\ RInv /\ boot = "up"
  BY DEF LInv
<1>2. RInv'
  BY <1>1, NotCritical, BystanderGoes DEF Reading, Outside
<1>3. LockTypes'
  BY <1>1 DEF LInv, LockTypes
<1>4. Held'
  BY <1>1, NotCritical, HeldAlone DEF LInv, Held, Drained
<1>5. QED
  BY <1>2, <1>3, <1>4 DEF LInv

LEMMA ReadWordStep ==
  ASSUME LInv, NEW t \in Threads, ReadWord(t)
  PROVE  LInv'
<1> USE DEF ReadWord, Goto
<1>1. /\ pc[t] = "reading" /\ pc' = [pc EXCEPT ![t] = "reading"]
      /\ UNCHANGED lockVars /\ RInv /\ boot = "up"
      /\ pc \in [Threads -> Critical \union Outside]
  BY HeldAlone DEF LInv
<1>2. RInv'
  BY <1>1, NotCritical, BystanderGoes DEF Reading, Outside
<1>3. LockTypes'
  <2>1. val[t] \in Seq(Nat) /\ Len(val[t]) \in Nat /\ Len(val[t]) <= Blocks
    BY DEF LInv, LockTypes
  <2>2. main[Len(val[t])] \in Nat
    BY <2>1, SizeFacts DEF LInv, RInv, HeapTypes, Words
  <2>3. /\ Append(val[t], main[Len(val[t])]) \in Seq(Nat)
        /\ Len(Append(val[t], main[Len(val[t])])) <= Blocks + 1
    BY <2>1, <2>2, SizeFacts
  <2>4. val' = [val EXCEPT ![t] = Append(val[t], main[Len(val[t])])]
    OBVIOUS
  <2>5. QED
    BY <1>1, <2>3, <2>4 DEF LInv, LockTypes, lockVars
<1>4. Held'
  <2>1. pc' = pc
    BY <1>1
  <2>2. QED
    BY <1>1, <2>1 DEF LInv, Held, lockVars
<1>5. QED
  BY <1>2, <1>3, <1>4 DEF LInv

LEMMA SharedUnlockStep ==
  ASSUME LInv, NEW t \in Threads, SharedUnlock(t)
  PROVE  LInv'
<1> USE DEF SharedUnlock, rwlock!SharedUnlock
<1>1. RInv'
  <2>1. Len(hist) \in Nat /\ Len(hist) <= Len(hist)
    BY DEF LInv, RInv, CallTypes
  <2>2. QED
    BY <2>1, CloseReadStep DEF LInv
<1>2. /\ pc[t] = "reading" /\ pc' = [pc EXCEPT ![t] = "idle"]
      /\ readers' = readers \ {t} /\ UNCHANGED <<mode, owner>>
      /\ val' = [val EXCEPT ![t] = <<>>]
  BY DEF Goto
<1>3. LockTypes'
  BY <1>2, SizeFacts DEF LInv, LockTypes
<1>4. Held'
  BY <1>2, NotCritical, HeldAlone DEF LInv, Held, Drained
<1>5. QED
  BY <1>1, <1>3, <1>4 DEF LInv

LEMMA PostedStep ==
  ASSUME LInv, NEW t \in Threads, NEW op \in Words, Post(t, op),
         UNCHANGED <<lockVars, val>>
  PROVE  LInv'
<1>1. RInv'
  BY PostStep DEF LInv
<1>2. LockTypes' /\ Held'
  BY NotCritical, LockKept DEF Post, Goto, Drained
<1>3. QED
  BY <1>1, <1>2 DEF LInv

LEMMA CrashedStep ==
  ASSUME LInv, Crash
  PROVE  LInv'
<1>1. RInv'
  BY CrashStep DEF Crash, LInv
<1>2. /\ pc' = [t \in Threads |-> "idle"] /\ val' = [t \in Threads |-> <<>>]
      /\ mode' = "free" /\ owner' = NONE /\ readers' = {}
  BY DEF Crash, RomCrash
<1>3. LockTypes'
  BY <1>2, SizeFacts DEF LockTypes
<1>4. Held'
  BY <1>2, NotCritical, SizeFacts DEF Held, Drained
<1>5. QED
  BY <1>1, <1>3, <1>4 DEF LInv

LEMMA RecoveredStep ==
  ASSUME LInv, Recover, UNCHANGED <<lockVars, val>>
  PROVE  LInv'
<1>1. RInv'
  BY RecoverStep DEF LInv
<1>2. pc' = pc
  BY DEF Recover, RecoverCopy, RecoverFence, RecoverIdle
<1>3. LockTypes' /\ Held'
  BY <1>2 DEF LInv, LockTypes, Held, lockVars
<1>4. QED
  BY <1>1, <1>3 DEF LInv

-----------------------------------------------------------------------------
LEMMA NextLInv ==
  ASSUME LInv, [Next]_vars
  PROVE  LInv'
<1>1. ASSUME NEW t \in Threads, Step(t) PROVE LInv'
  BY <1>1, TryLockStep, WaitForReadersStep, SyncCopyingStep, UnlockedStep,
     CombineStep, SharedLockStep, ReadWordStep, SharedUnlockStep DEF Step
<1>2. ASSUME NEW t \in Threads, Begin(t) PROVE LInv'
  <2>1. work.words \subseteq Words
    BY DEF LInv, RInv, CallTypes, Workload
  <2>2. QED
    BY <1>2, <2>1, PostedStep, BeginReadStep DEF Begin
<1>3. CASE UNCHANGED vars
  <2>1. RInv'
    BY <1>3, Stutter DEF LInv, vars
  <2>2. LockTypes' /\ Held'
    BY <1>3 DEF LInv, LockTypes, Held, lockVars, vars, romVars
  <2>3. QED
    BY <2>1, <2>2 DEF LInv
<1>4. QED
  BY <1>1, <1>2, <1>3, CrashedStep, RecoveredStep DEF Next, Done

LEMMA LInvShows ==
  ASSUME LInv
  PROVE  TypeOK /\ CopiesConsistent /\ ClearedAreDone /\ ReadersOut
<1>1. CopiesConsistent /\ ClearedAreDone
  BY Consistent, Cleaned DEF LInv
<1>2. TypeOK
  BY <1>1 DEF LInv, LockTypes, TypeOK, CopiesConsistent
<1>3. ReadersOut
  BY PlaceFacts DEF LInv, Held, ReadersOut, Places
<1>4. QED
  BY <1>1, <1>2, <1>3

LEMMA Invariance ==
  ASSUME LogsFit
  PROVE  Spec => []LInv
<1>1. Init => LInv
  BY InitLInv
<1>2. LInv /\ [Next]_vars => LInv'
  BY NextLInv
<1>3. QED
  BY <1>1, <1>2, PTL DEF Spec

(* Between transactions main and back agree, and at any step, whatever a   *)
(* crash leaves, the copy that recover() will trust is a whole commit that *)
(* has everything answered so far: the protocol IDLE, MUTATING, COPYING    *)
(* and recover() of RomulusLog.hpp, with its log and its flushes.          *)
THEOREM Durable ==
  ASSUME LogsFit
  PROVE  Spec => []CopiesConsistent
<1>1. LInv => CopiesConsistent
  BY LInvShows
<1>2. QED
  BY <1>1, Invariance, PTL

(* Flat combining in ns_write_transaction: a request that its thread finds *)
(* gone from fc has been run, and none is cleared that has not.            *)
THEOREM Combined ==
  ASSUME LogsFit
  PROVE  Spec => []ClearedAreDone
<1>1. LInv => ClearedAreDone
  BY LInvShows
<1>2. QED
  BY <1>1, Invariance, PTL

(* The types, and what the reader-writer lock is for: no request stores to *)
(* main while a reader reads it.                                           *)
THEOREM Excluded ==
  ASSUME LogsFit
  PROVE  Spec => [](TypeOK /\ ReadersOut)
<1>1. LInv => TypeOK /\ ReadersOut
  BY LInvShows
<1>2. QED
  BY <1>1, Invariance, PTL

-----------------------------------------------------------------------------
(* What a reader has read is what main holds.                              *)
Seen ==
  \A t \in Threads :
    /\ pc[t] # "reading" => val[t] = <<>>
    /\ \A n \in 1 .. Len(val[t]) : val[t][n] = main[n - 1]

LEMMA NextLinear ==
  ASSUME LInv, Linear, [Next]_vars
  PROVE  Linear'
<1>1. RInv /\ Alone
  BY HeldAlone DEF LInv
<1>2. ASSUME NEW t \in Threads, Step(t) PROVE Linear'
  <2>1. CASE TryLock(t)
    <3>1. PICK to \in {"w_collect", "w_check"} :
            pc[t] = "w_lock" /\ pc' = [pc EXCEPT ![t] = to]
      BY <2>1 DEF TryLock, Goto
    <3>2. UNCHANGED <<fc, lfc, out, main, todo, hist, call, i>> /\ pc'[t] = to
      BY <1>1, <2>1, <3>1
         DEF TryLock, memVars, heapVars, combVars, ghostVars, RInv, PlaceTypes
    <3>3. Harmless(t)
      BY <3>1, <3>2 DEF Harmless, Finishing, Turning, Reading
    <3>4. QED
      BY <1>1, <3>1, <3>2, <3>3, GoesLinear
  <2>2. CASE WaitForReaders(t)
    <3>1. /\ pc[t] \in Excluding /\ pc' = [pc EXCEPT ![t] = "w_run"] /\ boot = "up"
          /\ UNCHANGED <<fc, lfc, out, main, todo, hist, call, i>> /\ i[t] = 0
      BY <1>1, <2>2 DEF WaitForReaders, Goto, Excluding, memVars, heapVars, combVars,
                        ghostVars, RInv, PlaceTypes, Scanning
    <3>2. QED
      BY <1>1, <3>1, EnterRunLinear
  <2>3. CASE SyncCopying(t)
    <3>1. /\ Goto(t, "w_copying2", "w_clear") /\ Commit /\ UNCHANGED <<combVars, i>>
      BY <2>3 DEF SyncCopying, FenceState
    <3>2. QED
      BY <1>1, <3>1, CommitLinear
  <2>4. CASE Unlock(t)
    BY <1>1, <2>4, UnlockLinear DEF Unlock
  <2>5. CASE Combine(t)
    BY <1>1, <2>5, CheckFcLinear, CollectLinear, WriterGoesLinear, RunNextLinear,
       StoreWordLinear, FlushMainLinear, ClearFcLinear DEF Combine
  <2>6. CASE SharedLock(t) \/ ReadWord(t)
    <3>1. PICK from \in {"r_lock", "reading"} :
            pc[t] = from /\ pc' = [pc EXCEPT ![t] = "reading"]
      BY <2>6 DEF SharedLock, ReadWord, Goto
    <3>2. UNCHANGED <<fc, lfc, out, main, todo, hist, call, i>> /\ pc'[t] = "reading"
      BY <1>1, <2>6, <3>1
         DEF SharedLock, ReadWord, memVars, heapVars, combVars, ghostVars, RInv, PlaceTypes
    <3>3. Harmless(t)
      BY <3>1, <3>2 DEF Harmless, Finishing, Turning, Reading
    <3>4. QED
      BY <1>1, <3>1, <3>2, <3>3, GoesLinear
  <2>7. CASE SharedUnlock(t)
    BY <1>1, <2>7, CloseReadLinear DEF SharedUnlock
  <2>8. QED
    BY <1>2, <2>1, <2>2, <2>3, <2>4, <2>5, <2>6, <2>7 DEF Step
<1>3. ASSUME NEW t \in Threads, Begin(t) PROVE Linear'
  <2>1. work.words \subseteq Words
    BY <1>1 DEF RInv, CallTypes, Workload
  <2>2. ASSUME BeginRead(t) PROVE Linear'
    <3>1. /\ Goto(t, "idle", "r_lock") /\ Open(t, READ) /\ "r_lock" \in Reading
          /\ UNCHANGED <<memVars, combVars, i>>
      BY <2>2 DEF BeginRead, Reading
    <3>2. QED
      BY <1>1, <3>1, OpenReadLinear
  <2>3. QED
    BY <1>1, <1>3, <2>1, <2>2, PostLinear DEF Begin
<1>4. CASE UNCHANGED vars
  BY <1>4, StutterLinear DEF vars
<1>5. QED
  BY <1>1, <1>2, <1>3, <1>4, CrashLinear, RecoverLinear DEF Next, Done, Crash

LEMMA NextSeen ==
  ASSUME LInv, Seen, [Next]_vars
  PROVE  Seen'
<1>1. /\ RInv /\ pc \in [Threads -> Critical \union Outside]
      /\ \A t \in Threads : val[t] \in Seq(Nat)
  BY HeldAlone DEF LInv, LockTypes
<1>2. ASSUME UNCHANGED val, \A t \in Threads : pc'[t] # "reading" => pc[t] # "reading",
             main' = main \/ \A t \in Threads : pc[t] # "reading"
      PROVE  Seen'
  <2>1. CASE main' = main
    BY <1>2, <2>1 DEF Seen
  <2>2. CASE \A t \in Threads : pc[t] # "reading"
    BY <1>2, <2>2 DEF Seen
  <2>3. QED
    BY <1>2, <2>1, <2>2
<1>3. ASSUME NEW t \in Threads, Step(t) PROVE Seen'
  <2>1. CASE TryLock(t) \/ WaitForReaders(t) \/ SyncCopying(t) \/ Unlock(t) \/ SharedLock(t)
    <3>1. PICK from, to : pc[t] = from /\ pc' = [pc EXCEPT ![t] = to] /\ from # "reading"
      BY <2>1 DEF TryLock, WaitForReaders, SyncCopying, FenceState, Unlock, SharedLock, Goto
    <3>2. main' = main /\ val' = val
      BY <2>1 DEF TryLock, WaitForReaders, SyncCopying, FenceState, Unlock, SharedLock,
                  memVars, heapVars
    <3>3. \A u \in Threads : pc'[u] # "reading" => pc[u] # "reading"
      BY <1>1, <3>1
    <3>4. QED
      BY <1>2, <3>2, <3>3
  <2>2. CASE StoreWord(t) /\ UNCHANGED <<lockVars, val>>
    <3>1. pc[t] = "w_run" /\ pc' = [pc EXCEPT ![t] = "w_run"]
      BY <2>2 DEF StoreWord, Goto
    <3>2. \A u \in Threads : pc[u] # "reading"
      BY <3>1, LInvShows DEF ReadersOut
    <3>3. QED
      BY <1>2, <2>2, <3>2
  <2>3. CASE Combine(t) /\ ~StoreWord(t) /\ UNCHANGED <<lockVars, val>>
    <3>1. PICK from, to : pc[t] = from /\ pc' = [pc EXCEPT ![t] = to] /\ from # "reading"
      BY <2>3 DEF Combine, CheckFc, Collect, SetMutating, FenceState, RunNext, GrowUsed,
                  FlushMain, SetCopying, ClearFc, CopyToBack, FenceBack, SetIdle, Goto
    <3>2. main' = main
      BY <2>3 DEF Combine, CheckFc, Collect, SetMutating, FenceState, RunNext, GrowUsed,
                  FlushMain, SetCopying, ClearFc, CopyToBack, FenceBack, SetIdle,
                  memVars, heapVars
    <3>3. \A u \in Threads : pc'[u] # "reading" => pc[u] # "reading"
      BY <1>1, <3>1
    <3>4. QED
      BY <1>2, <2>3, <3>2, <3>3
  <2>4. CASE ReadWord(t)
    <3>1. /\ pc[t] = "reading" /\ pc' = pc /\ main' = main
          /\ val' = [val EXCEPT ![t] = Append(val[t], main[Len(val[t])])]
      BY <1>1, <2>4 DEF ReadWord, Goto, memVars, heapVars
    <3>2. val \in [Threads -> Seq(Nat)] /\ main[Len(val[t])] \in Nat /\ Len(val[t]) \in Nat
      BY <1>1, <2>4, SizeFacts DEF ReadWord, LInv, LockTypes, RInv, HeapTypes, Words
    <3>3. ASSUME NEW n \in 1 .. Len(val'[t]) PROVE val'[t][n] = main[n - 1]
      <4>1. val'[t] = Append(val[t], main[Len(val[t])])
        BY <3>1, <3>2
      <4>2. /\ Len(val'[t]) = Len(val[t]) + 1 /\ val'[t][Len(val[t]) + 1] = main[Len(val[t])]
            /\ \A k \in 1 .. Len(val[t]) : val'[t][k] = val[t][k]
        BY <3>2, <4>1, Appended
      <4>3. QED
        BY <3>2, <4>2 DEF Seen
    <3>4. QED
      BY <3>1, <3>2, <3>3 DEF Seen
  <2>5. CASE SharedUnlock(t)
    <3>1. /\ pc[t] = "reading" /\ pc' = [pc EXCEPT ![t] = "idle"]
          /\ main' = main /\ val' = [val EXCEPT ![t] = <<>>]
      BY <2>5 DEF SharedUnlock, Goto, memVars, heapVars
    <3>2. val' \in [Threads -> Seq(Nat)] /\ val'[t] = <<>> /\ Len(val'[t]) = 0
      BY <3>1 DEF LInv, LockTypes
    <3>3. \A u \in Threads \ {t} : val'[u] = val[u] /\ pc'[u] = pc[u]
      BY <1>1, <3>1 DEF LInv, LockTypes
    <3>4. \A n \in 1 .. Len(val'[t]) : val'[t][n] = main'[n - 1]
      BY <3>2
    <3>5. \A u \in Threads \ {t} : /\ pc'[u] # "reading" => val'[u] = <<>>
                                   /\ \A n \in 1 .. Len(val'[u]) : val'[u][n] = main'[n - 1]
      BY <3>1, <3>3 DEF Seen
    <3>6. QED
      BY <3>2, <3>4, <3>5 DEF Seen
  <2>6. QED
    BY <1>3, <2>1, <2>2, <2>3, <2>4, <2>5 DEF Step
<1>4. ASSUME NEW t \in Threads, Begin(t) PROVE Seen'
  <2>1. PICK from, to : pc[t] = from /\ pc' = [pc EXCEPT ![t] = to] /\ from # "reading"
    BY <1>4 DEF Begin, Post, BeginRead, Goto
  <2>2. main' = main /\ val' = val
    BY <1>4 DEF Begin, Post, BeginRead, memVars, heapVars
  <2>3. QED
    BY <1>1, <1>2, <2>1, <2>2
<1>5. CASE Crash
  BY <1>5 DEF Crash, RomCrash, Seen
<1>6. CASE Recover /\ UNCHANGED <<lockVars, val>>
  <2>1. pc' = pc /\ boot # "up"
    BY <1>6 DEF Recover, RecoverCopy, RecoverFence, RecoverIdle
  <2>2. \A t \in Threads : pc[t] # "reading"
    BY <1>1, <2>1 DEF RInv, Copies
  <2>3. QED
    BY <1>2, <1>6, <2>1, <2>2
<1>7. CASE UNCHANGED vars
  BY <1>2, <1>7 DEF vars, romVars, memVars, heapVars
<1>8. QED
  BY <1>3, <1>4, <1>5, <1>6, <1>7 DEF Next, Done

(* Nobody reads while main is not the last commit.                         *)
LEMMA ReadersCurrent ==
  ASSUME LInv, NEW t \in Threads, pc[t] = "reading"
  PROVE  View(main) = Last(hist)
<1>1. RInv /\ boot = "up"
  BY DEF LInv, RInv, Copies
<1>2. \A u \in Threads : pc[u] \notin Drained
  BY DEF LInv, Held
<1>3. \E q \in Resting \union {"w_mutating2", "w_exclude"} : Phase(q)
  <2>1. CASE \E u \in Threads : pc[u] \in Critical
    <3>1. PICK u \in Threads : pc[u] \in Critical
      BY <2>1
    <3>2. QED
      BY <1>1, <1>2, <3>1, Here DEF Drained
  <2>2. CASE \A u \in Threads : pc[u] \notin Critical
    <3>1. At("w_unlock") /\ "w_unlock" \in Resting \intersect Critical
      BY <2>2 DEF At, Critical, Resting
    <3>2. QED
      BY <1>1, <3>1 DEF RInv, Copies
  <2>3. QED
    BY <2>1, <2>2
<1>4. PICK q \in Resting \union {"w_mutating2", "w_exclude"} : Phase(q)
  BY <1>3
<1>5. CASE q \in Resting
  BY <1>4, <1>5 DEF Phase, PhaseMain, Resting
<1>6. CASE q \in {"w_mutating2", "w_exclude"}
  <2>1. Last(hist) = View(back)
    BY <1>4, <1>6 DEF Phase, PhaseBack, Mutated, Excluding
  <2>2. QED
    BY <1>1, <1>4, <1>6, <2>1, RestingTwins DEF Excluding
<1>7. QED
  BY <1>4, <1>5, <1>6

LEMMA SharedUnlockMaps ==
  ASSUME LInv, Linear, Seen, NEW t \in Threads, SharedUnlock(t)
  PROVE  Abstract!Next
<1>1. /\ pc[t] = "reading" /\ Close(t, ValueRead(t), Len(hist)) /\ Len(val[t]) > Blocks
  BY DEF SharedUnlock, Goto
<1>2. ValueRead(t) = hist[Len(hist)]
  <2>1. val[t] \in Seq(Nat) /\ Len(val[t]) = Blocks + 1
    BY <1>1, SizeFacts DEF LInv, LockTypes
  <2>2. ASSUME NEW a \in Words PROVE val[t][a + 1] = main[a]
    <3>1. a \in Nat /\ a + 1 \in 1 .. Len(val[t]) /\ (a + 1) - 1 = a
      BY <2>1, SizeFacts
    <3>2. val[t][a + 1] = main[(a + 1) - 1]
      BY <3>1 DEF Seen
    <3>3. QED
      BY <3>1, <3>2
  <2>3. [a \in Words |-> val[t][a + 1]] = main
    BY <2>2 DEF LInv, RInv, HeapTypes
  <2>4. QED
    BY <1>1, <2>3, ReadersCurrent DEF ValueRead, Last
<1>3. Len(hist) \in call[t].from .. Len(hist)
  <2>1. Len(hist) \in Nat /\ call[t].from \in Nat
    BY DEF LInv, RInv, CallTypes, Calls
  <2>2. QED
    BY <2>1 DEF Linear, Opened
<1>4. Close(t, hist[Len(hist)], Len(hist))
  BY <1>1, <1>2
<1>5. QED
  BY <1>1, <1>3, <1>4, ReadMaps DEF LInv

LEMMA NextMaps ==
  ASSUME LInv, Linear, Seen, [Next]_vars
  PROVE  [Abstract!Next]_Abstract!vars
<1>1. RInv /\ Alone
  BY HeldAlone DEF LInv
<1>2. ASSUME NEW t \in Threads, Step(t) PROVE [Abstract!Next]_Abstract!vars
  <2>1. CASE TryLock(t) \/ WaitForReaders(t) \/ SharedLock(t) \/ ReadWord(t)
    <3>1. UNCHANGED ghostVars
      BY <2>1 DEF TryLock, WaitForReaders, SharedLock, ReadWord
    <3>2. QED
      BY <3>1, QuietMaps
  <2>2. CASE SyncCopying(t)
    <3>1. Goto(t, "w_copying2", "w_clear") /\ Commit /\ boot = "up"
      BY <2>2 DEF SyncCopying, FenceState, Goto
    <3>2. QED
      BY <1>1, <3>1, CommitMaps
  <2>3. CASE Unlock(t)
    <3>1. pc[t] \in {"w_nothing", "w_unlock"} /\ Return(t)
      BY <2>3 DEF Unlock, Goto
    <3>2. QED
      BY <1>1, <3>1, Answered, ReturnMaps
  <2>4. CASE CheckFc(t) /\ fc[t] = NONE
    <3>1. pc[t] = "w_check" /\ Return(t)
      BY <2>4 DEF CheckFc, Goto
    <3>2. QED
      BY <1>1, <2>4, <3>1, Answered, ReturnMaps
  <2>5. CASE Combine(t) /\ ~(CheckFc(t) /\ fc[t] = NONE)
    <3>1. UNCHANGED ghostVars
      BY <2>5 DEF Combine, CheckFc, Collect, SetMutating, FenceState, RunNext, StoreWord,
                  GrowUsed, FlushMain, SetCopying, ClearFc, CopyToBack, FenceBack, SetIdle
    <3>2. QED
      BY <3>1, QuietMaps
  <2>6. CASE SharedUnlock(t)
    BY <2>6, SharedUnlockMaps
  <2>7. QED
    BY <1>2, <2>1, <2>2, <2>3, <2>4, <2>5, <2>6 DEF Step
<1>3. ASSUME NEW t \in Threads, Begin(t) PROVE [Abstract!Next]_Abstract!vars
  <2>1. \E op \in Words \union {READ} :
          (Goto(t, "idle", "r_lock") \/ Goto(t, "idle", "w_lock")) /\ Open(t, op)
    <3>1. work.words \subseteq Words
      BY <1>1 DEF RInv, CallTypes, Workload
    <3>2. QED
      BY <1>3, <3>1 DEF Begin, Post, BeginRead
  <2>2. QED
    BY <1>1, <2>1, OpenMaps
<1>4. CASE Crash
  BY <1>1, <1>4, CrashMaps DEF Crash
<1>5. CASE (Recover /\ UNCHANGED <<lockVars, val>>) \/ UNCHANGED vars
  <2>1. UNCHANGED ghostVars
    BY <1>5 DEF Recover, RecoverCopy, RecoverFence, RecoverIdle, vars, romVars
  <2>2. QED
    BY <2>1, QuietMaps
<1>6. QED
  BY <1>2, <1>3, <1>4, <1>5 DEF Next, Done

(* The refinement: RomulusLog is a durable linearizable store.  A commit   *)
(* is the requests one combiner has run, one after the other; an answer is *)
(* what its own request did; a read is of the last commit, and a crash     *)
(* keeps a commit that has everything answered, or the one in main that    *)
(* COPYING announces.                                                      *)
THEOREM Linearizable ==
  ASSUME LogsFit
  PROVE  Spec => DurableTransactions
<1> DEFINE KInv == LInv /\ Linear /\ Seen
<1>1. Init => KInv
  BY InitLInv, InitLinear DEF Init, Seen, RomInit
<1>2. KInv /\ [Next]_vars => KInv'
  BY NextLInv, NextLinear, NextSeen
<1>3. Init => Abstract!Init
  BY InitMaps DEF Init
<1>4. KInv /\ [Next]_vars => [Abstract!Next]_Abstract!vars
  BY NextMaps
<1>5. QED
  <2> HIDE DEF KInv
  <2>1. Spec => Abstract!Init /\ [][Abstract!Next]_Abstract!vars
    BY <1>1, <1>2, <1>3, <1>4, PTL DEF Spec
  <2>2. QED
    BY <2>1 DEF DurableTransactions, Abstract!Spec

=============================================================================
