----------------------------- MODULE RomulusLog -----------------------------
(***************************************************************************)
(* ptmdb/ptms/romuluslog/RomulusLog.hpp (ptms/romuluslog holds the same    *)
(* algorithm): Romulus with a reader-writer lock.  Readers read main, and  *)
(* a combiner that has waited for them runs all posted requests.  The lock *)
(* is the WriterPrefLock that CRWWPSpinLock implements.                    *)
(***************************************************************************)
EXTENDS Romulus

VARIABLES
  mode, owner, readers,   \* rwlock
  val                     \* Per reader: the words it has read.

lockVars == <<mode, owner, readers>>
vars == <<romVars, lockVars, val>>

rwlock == INSTANCE WriterPrefLock

Init ==
  /\ RomInit
  /\ rwlock!Init
  /\ val = [t \in Threads |-> <<>>]

-----------------------------------------------------------------------------
TryLock(t) ==
  /\ IF mode = "free" THEN Goto(t, "w_lock", "w_collect") /\ rwlock!Lock(t)
     ELSE Goto(t, "w_lock", "w_check") /\ UNCHANGED lockVars
  /\ UNCHANGED <<memVars, combVars, boot, i, ghostVars, val>>

(* Running the requests without waiting for the readers.                   *)
WaitForReadersNot(t) ==
  /\ Goto(t, "w_exclude", "w_run")
  /\ UNCHANGED <<memVars, combVars, boot, i, ghostVars, lockVars, val>>

WaitForReaders(t) ==
  /\ Goto(t, "w_exclude", "w_run")
  /\ rwlock!Drain(t)
  /\ UNCHANGED <<memVars, combVars, boot, i, ghostVars, val>>

SyncCopying(t) ==
  /\ FenceState(t, "w_copying2", "w_clear")
  /\ Commit
  /\ UNCHANGED <<lockVars, val>>

(* The end of the call; one that found nothing to do was executed by       *)
(* another thread.                                                         *)
Unlock(t) ==
  /\ Goto(t, "w_unlock", "idle") \/ Goto(t, "w_nothing", "idle")
  /\ rwlock!Unlock(t)
  /\ Return(t)
  /\ UNCHANGED <<memVars, combVars, boot, i, val>>

Combine(t) ==
  \/ CheckFc(t)
  \/ Collect(t)
  \/ SetMutating(t)
  \/ FenceState(t, "w_mutating2", "w_exclude") /\ UNCHANGED ghostVars
  \/ RunNext(t)
  \/ StoreWord(t)
  \/ GrowUsed(t)
  \/ FlushMain(t)
  \/ SetCopying(t)
  \/ ClearFc(t)
  \/ CopyToBack(t)
  \/ FenceBack(t)
  \/ SetIdle(t)

-----------------------------------------------------------------------------
(* ns_read_transaction: the lock, the words one by one, the lock.          *)
BeginRead(t) ==
  /\ Goto(t, "idle", "r_lock")
  /\ Open(t, READ)
  /\ UNCHANGED <<memVars, combVars, boot, i, lockVars, val>>

SharedLock(t) ==
  /\ Goto(t, "r_lock", "reading")
  /\ rwlock!SharedLock(t)
  /\ UNCHANGED <<memVars, combVars, boot, i, ghostVars, val>>

ReadWord(t) ==
  /\ Goto(t, "reading", "reading")
  /\ Len(val[t]) <= Blocks
  /\ val' = [val EXCEPT ![t] = Append(@, main[Len(@)])]
  /\ UNCHANGED <<memVars, combVars, boot, i, ghostVars, lockVars>>

ValueRead(t) == View([a \in Words |-> val[t][a + 1]])

SharedUnlock(t) ==
  /\ Goto(t, "reading", "idle")
  /\ Len(val[t]) > Blocks
  /\ rwlock!SharedUnlock(t)
  /\ val' = [val EXCEPT ![t] = <<>>]
  /\ Close(t, ValueRead(t), Len(hist))
  /\ UNCHANGED <<memVars, combVars, boot, i>>

-----------------------------------------------------------------------------
Crash ==
  /\ RomCrash
  /\ mode' = "free" /\ owner' = NONE /\ readers' = {}
  /\ val' = [t \in Threads |-> <<>>]

Step(t) ==
  \/ TryLock(t)
  \/ WaitForReaders(t)
  \/ SyncCopying(t)
  \/ Unlock(t)
  \/ Combine(t) /\ UNCHANGED <<lockVars, val>>
  \/ SharedLock(t)
  \/ ReadWord(t)
  \/ SharedUnlock(t)

Begin(t) ==
  \/ t \in work.writers /\ \E op \in work.words :
       Post(t, op) /\ UNCHANGED <<lockVars, val>>
  \/ t \in work.readers /\ BeginRead(t)

(* All transactions of the instance are over.                              *)
Done ==
  /\ \A t \in Threads : pc[t] = "idle" /\ work.budget[t] = 0
  /\ boot = "up"
  /\ UNCHANGED vars

Next ==
  \/ \E t \in Threads : Step(t) \/ Begin(t)
  \/ Crash
  \/ Recover /\ UNCHANGED <<lockVars, val>>
  \/ Done

Spec == Init /\ [][Next]_vars

(* What a thread of the workload's fair keeps doing, and so does main().    *)
RunsOn(t) == t \in work.fair /\ Step(t)
Restart == Recover /\ UNCHANGED <<lockVars, val>>

FairSpec == Spec /\ (\A t \in Threads : WF_vars(RunsOn(t))) /\ WF_vars(Restart)
-----------------------------------------------------------------------------
(* What the variables hold.                                                *)
TypeOK ==
  /\ RomTypeOK
  /\ mode \in {"free", "locked", "alone"}
  /\ owner \in Threads \union {NONE}
  /\ readers \subseteq Threads
  /\ \A t \in Threads : Len(val[t]) <= Blocks + 1

(* The comment of ns_write_transaction: blocking, starvation-free.  A      *)
(* request is answered although tryExclusiveLock() may always fail.        *)
Due(t) == work.fair = Threads /\ pc[t] # "idle"

EventuallyAnswered == \A t \in Threads : Due(t) ~> pc[t] = "idle"
=============================================================================
