------------------------------ MODULE RomulusLR ------------------------------
(***************************************************************************)
(* ptms/romuluslr/RomulusLR.hpp: Romulus with Left-Right instead of a      *)
(* reader-writer lock.  Readers never wait: leftRight tells them which     *)
(* copy to read, and a writer moves them to the other one, waiting twice   *)
(* for those that announced themselves under the old versionIndex.  What   *)
(* RomulusLR shares with RomulusLog is in Romulus.                         *)
(***************************************************************************)
EXTENDS Romulus

VARIABLES
  writersMutex,           \* Its holder, or NONE.
  leftRight,              \* "LEFT" is main, "RIGHT" is back.
  g_right,
  versionIndex,
  ri,                     \* ri[v]: the threads READING in indicator v.
  vi, lr,                 \* Per thread: localVI, tl_lrromulus.
  val                     \* Per reader: the words it has read.

lrVars == <<writersMutex, leftRight, g_right, versionIndex>>
readVars == <<ri, vi, lr, val>>
vars == <<romVars, lrVars, readVars>>

LrInit ==
  /\ writersMutex = NONE
  /\ leftRight = "LEFT"
  /\ g_right = FALSE
  /\ versionIndex = 0
  /\ ri = [v \in {0, 1} |-> {}]
  /\ vi = [t \in Threads |-> 0]
  /\ lr = [t \in Threads |-> "LEFT"]
  /\ val = [t \in Threads |-> <<>>]

Init == RomInit /\ LrInit

-----------------------------------------------------------------------------
TryLock(t) ==
  /\ IF writersMutex = NONE
     THEN Goto(t, "w_lock", "w_collect") /\ writersMutex' = t
     ELSE Goto(t, "w_lock", "w_check") /\ UNCHANGED writersMutex
  /\ UNCHANGED <<memVars, combVars, boot, i, ghostVars, leftRight, g_right,
                 versionIndex, readVars>>

(* Readers go to back, the last commit, while main changes.                *)
TraverseRight(t) ==
  /\ Goto(t, "w_exclude", "w_right")
  /\ g_right' = TRUE
  /\ leftRight' = "RIGHT"
  /\ lr' = [lr EXCEPT ![t] = "LEFT"]
  /\ UNCHANGED <<memVars, combVars, boot, i, ghostVars, writersMutex,
                 versionIndex, ri, vi, val>>

(* while (!ri[v].isEmpty()): a scan that starts again at a reader.         *)
WaitEmpty(t, v, from, to) ==
  LET last == i[t] = MaxThreads - 1 IN
  /\ Goto(t, from, IF i[t] \notin ri[v] /\ last THEN to ELSE from)
  /\ i' = [i EXCEPT ![t] = IF @ \in ri[v] \/ last THEN 0 ELSE @ + 1]
  /\ UNCHANGED <<memVars, combVars, boot, ghostVars, lrVars, readVars>>

ToggleVersion(t, from, to) ==
  /\ Goto(t, from, to)
  /\ versionIndex' = 1 - versionIndex
  /\ UNCHANGED <<memVars, combVars, boot, i, ghostVars, writersMutex,
                 leftRight, g_right, readVars>>

(* One wait only: readers that loaded versionIndex before the last toggle  *)
(* and announce themselves late are overlooked.                            *)
toggleVersion(t, at) ==
  \/ ToggleVersion(t, at[1], at[3])
  \/ WaitEmpty(t, 1 - versionIndex, at[3], at[4])

(* Wait for the readers of the next version, make it current, and wait for *)
(* those of the previous one.                                              *)
toggleVersionAndWait(t, at) ==
  \/ WaitEmpty(t, 1 - versionIndex, at[1], at[2])
  \/ ToggleVersion(t, at[2], at[3])
  \/ WaitEmpty(t, 1 - versionIndex, at[3], at[4])

SyncCopying(t) ==
  /\ FenceState(t, "w_copying2", "w_left")
  /\ UNCHANGED <<ghostVars, lrVars, readVars>>

(* Readers go to main: the commit becomes visible.                         *)
TraverseLeft(t) ==
  /\ Goto(t, "w_left", "w_left2")
  /\ leftRight' = "LEFT"
  /\ Commit
  /\ UNCHANGED <<memVars, combVars, boot, i, writersMutex, g_right,
                 versionIndex, readVars>>

(* No reader looks at back any more.                                       *)
LeaveRight(t) ==
  /\ Goto(t, "w_left5", "w_clear")
  /\ g_right' = FALSE
  /\ UNCHANGED <<memVars, combVars, boot, i, ghostVars, writersMutex,
                 leftRight, versionIndex, readVars>>

Unlock(t) ==
  /\ Goto(t, "w_unlock", "idle") \/ Goto(t, "w_nothing", "idle")
  /\ writersMutex' = NONE
  /\ Return(t)
  /\ UNCHANGED <<memVars, combVars, boot, i, leftRight, g_right, versionIndex,
                 readVars>>

Combine(t) ==
  \/ CheckFc(t)
  \/ Collect(t)
  \/ SetMutating(t)
  \/ FenceState(t, "w_mutating2", "w_exclude") /\ UNCHANGED ghostVars
  \/ RunNext(t)
  \/ StoreWord(t)
  \/ GrowUsed(t)
  \/ FlushMain(t)
  \/ SetCopying(t)
  \/ ClearFc(t)
  \/ CopyToBack(t)
  \/ FenceBack(t)
  \/ SetIdle(t)

-----------------------------------------------------------------------------
(* ns_read_transaction.  versionIndex is loaded, the reader announces      *)
(* itself under it, and only then looks at leftRight.                      *)
BeginRead(t) ==
  /\ Goto(t, "idle", "r_arrive")
  /\ Open(t, READ)
  /\ vi' = [vi EXCEPT ![t] = versionIndex]
  /\ UNCHANGED <<memVars, combVars, boot, i, lrVars, ri, lr, val>>

Arrive(t) ==
  /\ Goto(t, "r_arrive", "r_side")
  /\ ri' = [ri EXCEPT ![vi[t]] = @ \union {t}]
  /\ UNCHANGED <<memVars, combVars, boot, i, ghostVars, lrVars, vi, lr, val>>

LoadLeftRight(t) ==
  /\ Goto(t, "r_side", "reading")
  /\ lr' = [lr EXCEPT ![t] = leftRight]
  /\ UNCHANGED <<memVars, combVars, boot, i, ghostVars, lrVars, ri, vi, val>>

pload(t, a) == IF ~g_right \/ lr[t] = "LEFT" THEN main[a] ELSE back[a]

ReadWord(t) ==
  /\ Goto(t, "reading", "reading")
  /\ Len(val[t]) <= Blocks
  /\ val' = [val EXCEPT ![t] = Append(@, pload(t, Len(@)))]
  /\ UNCHANGED <<memVars, combVars, boot, i, ghostVars, lrVars, ri, vi, lr>>

ValueRead(t) == View([a \in Words |-> val[t][a + 1]])

(* The commit the side of a reader stands for: a reader of back that       *)
(* overlaps the switch to main still reads the commit before.              *)
SideCommit(t) ==
  IF lr[t] = "RIGHT" /\ leftRight = "LEFT" THEN Len(hist) - 1 ELSE Len(hist)

(* Departing from the indicator that is current by now.                    *)
DepartElsewhere(t) ==
  /\ Goto(t, "reading", "idle")
  /\ Len(val[t]) > Blocks
  /\ ri' = [ri EXCEPT ![versionIndex] = @ \ {t}]
  /\ val' = [val EXCEPT ![t] = <<>>]
  /\ Close(t, ValueRead(t), SideCommit(t))
  /\ UNCHANGED <<memVars, combVars, boot, i, lrVars, vi, lr>>

Depart(t) ==
  /\ Goto(t, "reading", "idle")
  /\ Len(val[t]) > Blocks
  /\ ri' = [ri EXCEPT ![vi[t]] = @ \ {t}]
  /\ val' = [val EXCEPT ![t] = <<>>]
  /\ Close(t, ValueRead(t), SideCommit(t))
  /\ UNCHANGED <<memVars, combVars, boot, i, lrVars, vi, lr>>

-----------------------------------------------------------------------------
Crash ==
  /\ RomCrash
  /\ writersMutex' = NONE /\ leftRight' = "LEFT" /\ g_right' = FALSE
  /\ versionIndex' = 0 /\ ri' = [v \in {0, 1} |-> {}]
  /\ vi' = [t \in Threads |-> 0] /\ lr' = [t \in Threads |-> "LEFT"]
  /\ val' = [t \in Threads |-> <<>>]

Write(t) ==
  \/ TryLock(t)
  \/ TraverseRight(t)
  \/ toggleVersionAndWait(t, <<"w_right", "w_right2", "w_right3", "w_run">>)
  \/ SyncCopying(t)
  \/ TraverseLeft(t)
  \/ toggleVersionAndWait(t, <<"w_left2", "w_left3", "w_left4", "w_left5">>)
  \/ LeaveRight(t)
  \/ Unlock(t)
  \/ Combine(t) /\ UNCHANGED <<lrVars, readVars>>

Read(t) == Arrive(t) \/ LoadLeftRight(t) \/ ReadWord(t) \/ Depart(t)

Begin(t) ==
  \/ t \in work.writers /\ \E op \in work.words :
       Post(t, op) /\ UNCHANGED <<lrVars, readVars>>
  \/ t \in work.readers /\ BeginRead(t)

(* All transactions of the instance are over.                              *)
Done ==
  /\ \A t \in Threads : pc[t] = "idle" /\ work.budget[t] = 0
  /\ boot = "up"
  /\ UNCHANGED vars

Next ==
  \/ \E t \in Threads : Write(t) \/ Read(t) \/ Begin(t)
  \/ Crash
  \/ Recover /\ UNCHANGED <<lrVars, readVars>>
  \/ Done

Spec == Init /\ [][Next]_vars

(* The threads of a workload's fair are sure to run.  Where these are the  *)
(* readers only, their progress must not need a writer's.                  *)
RunsOn(t) == t \in work.fair /\ (Read(t) \/ Write(t))

FairSpec == Spec /\ \A t \in Threads : WF_vars(RunsOn(t))
-----------------------------------------------------------------------------
(* What the variables hold.                                                *)
TypeOK ==
  /\ RomTypeOK
  /\ writersMutex \in Threads \union {NONE}
  /\ {leftRight} \union Range(lr) \subseteq {"LEFT", "RIGHT"}
  /\ versionIndex \in {0, 1} /\ Range(vi) \subseteq {0, 1}
  /\ \A t \in Threads : Len(val[t]) <= Blocks + 1

(* The copy a reader is reading does not change under it: while it reads   *)
(* main no request runs, and while it reads back nothing is copied there   *)
(* and g_right still sends its loads there.                                *)
ReaderUndisturbed ==
  \A t \in Threads : pc[t] = "reading" =>
    /\ lr[t] = "LEFT" => \A u \in Threads : pc[u] # "w_run"
    /\ lr[t] = "RIGHT" => g_right /\ \A u \in Threads : pc[u] # "w_back"

(* A call whose thread is sure to run, and all others too unless it is a   *)
(* read.                                                                   *)
Due(t) ==
  /\ pc[t] # "idle"
  /\ work.fair = Threads \/ (t \in work.fair /\ call[t].op = READ)

(* The comments of ns_read_transaction, wait-free, and of                  *)
(* ns_write_transaction, blocking and starvation-free: a read ends even if *)
(* all writers stop, and if none stops the two waits of a writer end       *)
(* although readers keep coming.                                           *)
EventuallyAnswered == \A t \in Threads : Due(t) ~> pc[t] = "idle"
=============================================================================
