--------------------------- MODULE RedoOpt_proofs ---------------------------
(***************************************************************************)
(* RedoOpt: the locks of the replicas are handed over and never lost, for  *)
(* any number of threads; the current replica stays as it was published;   *)
(* the ring shows durable commits only; a read-only transaction runs on    *)
(* one commit.  Crashes and restarts are included, and so is any value of  *)
(* the ringTicket apply_redologs does not assign.                          *)
(*                                                                         *)
(* The invariant has layers: who has which replica (LockInv), the loops of *)
(* getNewComb and makeCopy (ScanInv), and what was published (KeptInv).    *)
(* Each is inductive given those before.  A fourth, DataInv, says what is  *)
(* in the replicas that are not current, in the States and in the ring; it *)
(* needs HeadKept, a hypothesis on the runs that the code does not ensure. *)
(***************************************************************************)
EXTENDS RedoOpt, FiniteSetTheorems, TLAPS

(* Where a thread has no replica to write, may have one, has one it        *)
(* writes, has one it has downgraded, and reads one.                       *)
Without == {"idle", "w_announce", "w_init", "w_pick", "w_try", "w_advance",
            "w_advance_cas", "x_load", "x_head", "x_ring", "x_advance",
            "x_advance_cas", "x_result", "r_enqueue", "r_announce", "r_load",
            "r_lock", "r_ring", "f_load", "f_head"}
Either == {"w_load", "w_tail", "w_state", "w_ring", "w_ring_load",
           "w_help_ring", "w_exit"}
Replaying == {"w_redo_copy", "w_redo_check", "w_redo_next"}
Copying == {"c_head", "c_copy", "c_check"}
Running == {"w_help", "w_protect", "w_run", "w_merge"}
Flushing == {"w_flush", "w_flush_copy", "w_flush_all", "w_head"}
Filling == {"w_replay", "w_redo", "c_init", "c_assert_false", "w_recheck"}
             \union Replaying \union Copying \union Running \union Flushing
Downgraded == {"w_publish", "w_lost"}
Sharing == {"r_check", "r_run", "r_leave", "r_unlock"}

(* A commit's place in curComb; the replica is one of combs[].             *)
Places == [seq : Nat, tid : Nat, idx : Combs]

(* The replica a thread has to release.                                    *)
Claim(t) == IF pc[t] = "w_unlock" THEN cc[t].idx ELSE nc[t]

-----------------------------------------------------------------------------
(***************************************************************************)
(* Layer 1: the locks.                                                     *)
(***************************************************************************)
LockTypes ==
  /\ lock \in [Combs -> {"free", "write", "readonly"}]
  /\ readers \in [Combs -> SUBSET Threads]
  /\ pc \in [Threads -> Locations]
  /\ nc \in [Threads -> Combs \union {NONE}]
  /\ cc \in [Threads -> Places]
  /\ curComb \in Places

(* The thread's replica is in its mode, and nobody else's.                 *)
Held(t) ==
  /\ pc[t] \in Without \union Sharing \union {"w_unlock"} => nc[t] = NONE
  /\ pc[t] \in Filling \union Downgraded => nc[t] # NONE
  /\ Claim(t) # curComb.idx
  /\ Claim(t) # NONE =>
       lock[Claim(t)] =
         IF pc[t] \in Downgraded \union {"w_unlock"} THEN "readonly" ELSE "write"
  /\ \A u \in Threads \ {t} : Claim(t) = NONE \/ Claim(t) # Claim(u)
  /\ \A c \in Combs : t \in readers[c] <=> pc[t] \in Sharing /\ cc[t].idx = c

(* A lock that is taken has somebody to release it, unless the replica is  *)
(* the current one.                                                        *)
Claimed ==
  /\ lock[curComb.idx] = "readonly"
  /\ \A c \in Combs :
       /\ lock[c] # "free" /\ c # curComb.idx =>
            \E t \in Threads : Claim(t) = c
       /\ lock[c] = "write" => readers[c] = {}

LockInv == LockTypes /\ Claimed /\ \A t \in Threads : Held(t)

(* A step from pc[t] to p that leaves the locks alone.                     *)
Keeps(t, p) ==
  \/ nc[t] = NONE /\ {pc[t], p} \subseteq Without \union Either
  \/ nc[t] # NONE /\ {pc[t], p} \subseteq Either \union Filling
  \/ {pc[t], p} \subseteq Downgraded
  \/ {pc[t], p} \subseteq Sharing /\ cc' = cc

Moves(t) ==
  /\ UNCHANGED <<lock, readers, nc, curComb>>
  /\ \E p \in Locations : pc' = [pc EXCEPT ![t] = p] /\ Keeps(t, p)
  /\ cc' = cc \/ \E v \in Places : cc' = [cc EXCEPT ![t] = v]

LEMMA Moved ==
  ASSUME LockInv, NEW t \in Threads, Moves(t)
  PROVE  LockInv'
<1>1. PICK p \in Locations : pc' = [pc EXCEPT ![t] = p] /\ Keeps(t, p)
  BY DEF Moves
<1>2. UNCHANGED <<lock, readers, nc, curComb>>
  BY DEF Moves
<1>3. /\ cc' \in [Threads -> Places]
      /\ \A u \in Threads \ {t} : cc'[u] = cc[u]
      /\ pc[t] \in Sharing => cc' = cc
  BY <1>1 DEF Moves, Keeps, LockInv, LockTypes, Without, Either, Filling, Copying,
     Replaying, Running, Flushing, Downgraded, Sharing
<1>4. LockTypes'
  BY <1>1, <1>2, <1>3 DEF LockInv, LockTypes
<1>5. /\ pc[t] \in Sharing <=> p \in Sharing
      /\ pc[t] \in Downgraded <=> p \in Downgraded
      /\ pc[t] # "w_unlock" /\ p # "w_unlock"
      /\ p \in Without => nc[t] = NONE
      /\ p \in Filling => nc[t] # NONE
      /\ p \in Sharing => nc[t] = NONE
      /\ p \in Downgraded => nc[t] # NONE
  BY <1>1 DEF Keeps, LockInv, Held, Without, Either, Filling, Copying,
     Replaying, Running, Flushing, Downgraded, Sharing
<1>6. \A u \in Threads : Claim(u)' = Claim(u)
  BY <1>1, <1>2, <1>3, <1>5 DEF Claim, LockInv, LockTypes
<1>7. ASSUME NEW u \in Threads
      PROVE  Held(u)'
  <2>1. Held(u)
    BY DEF LockInv
  <2>2. CASE u = t
    <3>1. pc'[t] = p /\ nc'[t] = nc[t] /\ (p \in Sharing => cc'[t] = cc[t])
      BY <1>1, <1>2, <1>3, <1>5 DEF LockInv, LockTypes
    <3>2. \A c \in Combs :
            t \in readers'[c] <=> pc'[t] \in Sharing /\ cc'[t].idx = c
      BY <1>2, <1>5, <2>1, <2>2, <3>1 DEF Held
    <3>3. /\ Claim(t)' # curComb'.idx
          /\ \A v \in Threads \ {t} : Claim(t)' = NONE \/ Claim(t)' # Claim(v)'
          /\ Claim(t)' # NONE =>
               lock'[Claim(t)'] = IF pc'[t] \in Downgraded \union {"w_unlock"}
                                  THEN "readonly" ELSE "write"
      BY <1>2, <1>5, <1>6, <2>1, <2>2, <3>1 DEF Held
    <3>4. QED
      BY <1>5, <2>2, <3>1, <3>2, <3>3 DEF Held
  <2>3. CASE u # t
    <3>1. pc'[u] = pc[u] /\ cc'[u] = cc[u] /\ nc'[u] = nc[u]
      BY <1>1, <1>2, <1>3, <2>3 DEF LockInv, LockTypes
    <3>2. QED
      BY <1>2, <1>6, <2>1, <3>1 DEF Held
  <2>4. QED
    BY <2>2, <2>3
<1>8. Claimed'
  BY <1>2, <1>6 DEF LockInv, Claimed
<1>9. QED
  BY <1>4, <1>7, <1>8 DEF LockInv

(* The steps that leave the locks alone.                                   *)
LEMMA PlacesFacts == Ticket0 \in Places /\ NONE \notin Combs
BY RedoAssumption, NoneIsNoReplica DEF Places, Ticket0, SeqTidIdx, Combs

LEMMA MovesTo ==
  ASSUME NEW t \in Threads, NEW p \in Locations, NEW v \in Places,
         pc' = [pc EXCEPT ![t] = p], Keeps(t, p),
         UNCHANGED <<lock, readers, nc, curComb>>,
         cc' = cc \/ cc' = [cc EXCEPT ![t] = v]
  PROVE  Moves(t)
BY DEF Moves

LEMMA PrepareMoves ==
  ASSUME LockInv, NEW t \in Threads,
         \/ BeginWrite(t) \/ Announce(t) \/ WriteInit(t) \/ LoadCurComb(t)
         \/ LoadTail(t) \/ CopyState(t) \/ RingCheck(t) \/ ReadRing(t)
         \/ HelpRing(t) \/ PickCheck(t)
  PROVE  Moves(t)
<1>1. /\ Held(t) /\ pc[t] \in Locations /\ nc[t] \in Combs \union {NONE}
      /\ pc \in [Threads -> Locations] /\ cc[t] \in Places /\ curComb \in Places
  BY DEF LockInv, LockTypes
<1> USE PlacesFacts DEF Goto, sharedVars, nvmVars, volatileVars, lockVars
<1>2. CASE BeginWrite(t)
  BY <1>1, <1>2 DEF Moves, Held, Locations, Keeps, Without, Either, Filling, Replaying,
     Copying, Running, Flushing, Downgraded, Sharing,
     BeginWrite, Open
<1>3. CASE Announce(t)
  <2>1. CASE pc[t] = "w_announce"
    BY <1>1, <1>3, <2>1 DEF Moves, Held, Locations, Keeps, Without, Either, Filling, Replaying,
     Copying, Running, Flushing, Downgraded, Sharing,
     Announce
  <2>2. CASE pc[t] = "r_announce"
    BY <1>1, <1>3, <2>2 DEF Moves, Held, Locations, Keeps, Without, Either, Filling, Replaying,
     Copying, Running, Flushing, Downgraded, Sharing,
     Announce
  <2>3. QED
    BY <1>3, <2>1, <2>2 DEF Announce
<1>4. CASE WriteInit(t)
  BY <1>1, <1>4 DEF Moves, Held, Locations, Keeps, Without, Either, Filling, Replaying,
     Copying, Running, Flushing, Downgraded, Sharing,
     WriteInit
<1>5. CASE LoadCurComb(t)
  <2>1. \/ pc[t] = "w_load" /\ pc' = [pc EXCEPT ![t] = "w_tail"]
        \/ pc[t] = "x_load" /\ pc' = [pc EXCEPT ![t] = "x_head"]
        \/ pc[t] = "r_load" /\ pc' = [pc EXCEPT ![t] = "r_lock"]
        \/ pc[t] = "f_load" /\ pc' = [pc EXCEPT ![t] = "f_head"]
    BY <1>5 DEF LoadCurComb
  <2>2. UNCHANGED <<lock, readers, nc, curComb>> /\ cc' = [cc EXCEPT ![t] = curComb]
    BY <1>5 DEF LoadCurComb
  <2>3. \E p \in Locations : pc' = [pc EXCEPT ![t] = p] /\ Keeps(t, p)
    BY <1>1, <2>1 DEF Held, Locations, Keeps, Without, Either, Filling, Replaying,
     Copying, Running, Flushing, Downgraded, Sharing
  <2>4. QED
    BY <1>1, <2>2, <2>3 DEF Moves
<1>6. CASE LoadTail(t)
  BY <1>1, <1>6 DEF Moves, Held, Locations, Keeps, Without, Either, Filling, Replaying,
     Copying, Running, Flushing, Downgraded, Sharing,
     LoadTail, Break, Continue
<1>7. CASE CopyState(t)
  BY <1>1, <1>7 DEF Moves, Held, Locations, Keeps, Without, Either, Filling, Replaying,
     Copying, Running, Flushing, Downgraded, Sharing,
     CopyState, Break, Continue
<1>8. CASE RingCheck(t)
  BY <1>1, <1>8 DEF Moves, Held, Locations, Keeps, Without, Either, Filling, Replaying,
     Copying, Running, Flushing, Downgraded, Sharing,
     RingCheck, Continue
<1>9. CASE ReadRing(t)
  BY <1>1, <1>9 DEF Moves, Held, Locations, Keeps, Without, Either, Filling, Replaying,
     Copying, Running, Flushing, Downgraded, Sharing,
     ReadRing, Continue, AfterRing
<1>10. CASE HelpRing(t)
  <2>1. pc[t] = "w_help_ring" /\ pc' = [pc EXCEPT ![t] = AfterRing(t)]
    BY <1>10 DEF HelpRing
  <2>2. UNCHANGED <<lock, readers, nc, curComb, cc>>
    BY <1>10 DEF HelpRing, FencedCurComb
  <2>3. AfterRing(t) \in Locations /\ Keeps(t, AfterRing(t))
    BY <1>1, <2>1 DEF AfterRing, Held, Locations, Keeps, Without, Either, Filling, Replaying,
     Copying, Running, Flushing, Downgraded, Sharing
  <2>4. QED
    BY <1>1, <2>1, <2>2, <2>3, MovesTo
<1>11. CASE PickCheck(t)
  BY <1>1, <1>11 DEF Moves, Held, Locations, Keeps, Without, Either, Filling, Replaying,
     Copying, Running, Flushing, Downgraded, Sharing,
     PickCheck, Continue
<1>12. QED
  BY <1>2, <1>3, <1>4, <1>5, <1>6, <1>7, <1>8, <1>9, <1>10, <1>11

(* What copying a word leaves alone.                                       *)
LEMMA CopyWordFrame ==
  ASSUME NEW t, CopyWord(t)
  PROVE  /\ UNCHANGED <<lock, readers, nc, cc, curComb>>
         /\ pc[t] = "c_copy" /\ pc' = [pc EXCEPT ![t] = "c_check"]
         /\ \E a : loc' = [loc EXCEPT ![t].left = @ \ {a}]
<1>1. UNCHANGED <<lock, readers, nc, cc, curComb>>
  BY Zenon DEF CopyWord, volatileVars, lockVars
<1>2. pc[t] = "c_copy" /\ pc' = [pc EXCEPT ![t] = "c_check"]
  BY Zenon DEF CopyWord, Goto
<1>3. \E a : loc' = [loc EXCEPT ![t].left = @ \ {a}]
  BY Zenon DEF CopyWord
<1>4. QED
  BY <1>1, <1>2, <1>3

LEMMA CatchUpMoves ==
  ASSUME LockInv, NEW t \in Threads,
         \/ BeginReplay(t) \/ ReplayNext(t) \/ CopyRedoLog(t) \/ CheckRedoLog(t)
         \/ Replayed(t) \/ CopyInit(t) \/ CopyHead(t) \/ CopyWord(t)
         \/ CopyCheck(t)
  PROVE  Moves(t)
<1>1. /\ Held(t) /\ pc[t] \in Locations /\ nc[t] \in Combs \union {NONE}
      /\ pc \in [Threads -> Locations] /\ cc[t] \in Places /\ curComb \in Places
  BY DEF LockInv, LockTypes
<1> USE PlacesFacts DEF Goto, sharedVars, nvmVars, volatileVars, lockVars
<1>2. CASE BeginReplay(t)
  BY <1>1, <1>2 DEF Moves, Held, Locations, Keeps, Without, Either, Filling, Replaying,
     Copying, Running, Flushing, Downgraded, Sharing,
     BeginReplay
<1>3. CASE ReplayNext(t)
  BY <1>1, <1>3, SMTT(60)
     DEF Moves, Held, Locations, Keeps, Without, Either, Filling, Replaying, Copying,
         Running, Flushing, Downgraded, Sharing, ReplayNext, ReplayDone
<1>4. CASE CopyRedoLog(t)
  BY <1>1, <1>4 DEF Moves, Held, Locations, Keeps, Without, Either, Filling, Replaying,
     Copying, Running, Flushing, Downgraded, Sharing,
     CopyRedoLog, Store
<1>5. CASE CheckRedoLog(t)
  <2>1. PICK p \in {"w_redo_next", "c_init"} : pc' = [pc EXCEPT ![t] = p]
    BY <1>5 DEF CheckRedoLog
  <2>2. UNCHANGED <<lock, readers, nc, curComb, cc>> /\ pc[t] = "w_redo_check"
    BY <1>5 DEF CheckRedoLog
  <2>3. p \in Locations /\ Keeps(t, p)
    BY <1>1, <2>1, <2>2 DEF Held, Locations, Keeps, Without, Either, Filling, Replaying,
     Copying, Running, Flushing, Downgraded, Sharing
  <2>4. QED
    BY <1>1, <2>1, <2>2, <2>3, MovesTo
<1>6. CASE Replayed(t)
  BY <1>1, <1>6 DEF Moves, Held, Locations, Keeps, Without, Either, Filling, Replaying,
     Copying, Running, Flushing, Downgraded, Sharing,
     Replayed, Break
<1>7. CASE CopyInit(t)
  BY <1>1, <1>7 DEF Moves, Held, Locations, Keeps, Without, Either, Filling, Replaying,
     Copying, Running, Flushing, Downgraded, Sharing,
     CopyInit
<1>8. CASE CopyHead(t)
  BY <1>1, <1>8, SMTT(60) DEF Moves, Held, Locations, Keeps, Without, Either, Filling, Replaying,
     Copying, Running, Flushing, Downgraded, Sharing,
     CopyHead, CopyRetry, Break
<1>9. CASE CopyWord(t)
  <2>1. /\ UNCHANGED <<lock, readers, nc, curComb, cc>> /\ pc[t] = "c_copy"
        /\ pc' = [pc EXCEPT ![t] = "c_check"]
    BY <1>9, CopyWordFrame
  <2>2. "c_check" \in Locations /\ Keeps(t, "c_check")
    BY <1>1, <2>1 DEF Held, Locations, Keeps, Without, Either, Filling, Replaying,
     Copying, Running, Flushing, Downgraded, Sharing
  <2>3. QED
    BY <1>1, <2>1, <2>2, MovesTo
<1>10. CASE CopyCheck(t)
  BY <1>1, <1>10 DEF Moves, Held, Locations, Keeps, Without, Either, Filling, Replaying,
     Copying, Running, Flushing, Downgraded, Sharing,
     CopyCheck, CopyRetry, Copied
<1>11. QED
  BY <1>2, <1>3, <1>4, <1>5, <1>6, <1>7, <1>8, <1>9, <1>10

(* What applying a request leaves alone, whatever it stores.               *)
LEMMA RunRequestFrame ==
  ASSUME NEW t, RunRequest(t)
  PROVE  /\ UNCHANGED <<curComb, pcur>>
         /\ pc' = [pc EXCEPT ![t] = "w_help"]
         /\ DOMAIN loc' = DOMAIN loc
         /\ \A u \in DOMAIN loc \ {t} : loc'[u] = loc[u]
<1>1. UNCHANGED <<curComb, pcur>>
  BY DEF RunRequest, Store
<1>2. pc' = [pc EXCEPT ![t] = "w_help"]
  BY Zenon DEF RunRequest, Goto
<1>3. DOMAIN loc' = DOMAIN loc /\ \A u \in DOMAIN loc \ {t} : loc'[u] = loc[u]
  BY DEF RunRequest
<1>4. QED
  BY <1>1, <1>2, <1>3

LEMMA HelpMoves ==
  ASSUME LockInv, NEW t \in Threads,
         \/ Recheck(t) \/ HelpNext(t) \/ HelpProtected(t) \/ HelpRun(t)
         \/ MergeLines(t) \/ FlushLines(t) \/ FlushCopyInit(t) \/ FlushAll(t)
  PROVE  Moves(t)
<1>1. /\ Held(t) /\ pc[t] \in Locations /\ nc[t] \in Combs \union {NONE}
      /\ pc \in [Threads -> Locations] /\ cc[t] \in Places /\ curComb \in Places
  BY DEF LockInv, LockTypes
<1> USE PlacesFacts DEF Goto, sharedVars, nvmVars, volatileVars, lockVars
<1>2. CASE Recheck(t)
  BY <1>1, <1>2 DEF Moves, Held, Locations, Keeps, Without, Either, Filling, Replaying,
     Copying, Running, Flushing, Downgraded, Sharing,
     Recheck, Continue
<1>3. CASE HelpNext(t)
  BY <1>1, <1>3 DEF Moves, Held, Locations, Keeps, Without, Either, Filling, Replaying,
     Copying, Running, Flushing, Downgraded, Sharing,
     HelpNext
<1>4. CASE HelpProtected(t)
  BY <1>1, <1>4 DEF Moves, Held, Locations, Keeps, Without, Either, Filling, Replaying,
     Copying, Running, Flushing, Downgraded, Sharing,
     HelpProtected
<1>5. CASE HelpRun(t)
  <2>1. PICK p \in {"w_help", "w_merge"} : pc' = [pc EXCEPT ![t] = p]
    BY <1>5, RunRequestFrame DEF HelpRun
  <2>2. UNCHANGED <<lock, readers, nc, curComb, cc>> /\ pc[t] = "w_run"
    BY <1>5, RunRequestFrame DEF HelpRun
  <2>3. p \in Locations /\ Keeps(t, p)
    BY <1>1, <2>1, <2>2 DEF Held, Locations, Keeps, Without, Either, Filling, Replaying,
     Copying, Running, Flushing, Downgraded, Sharing
  <2>4. QED
    BY <1>1, <2>1, <2>2, <2>3, MovesTo
<1>6. CASE MergeLines(t)
  BY <1>1, <1>6 DEF Moves, Held, Locations, Keeps, Without, Either, Filling, Replaying,
     Copying, Running, Flushing, Downgraded, Sharing,
     MergeLines, Continue, Undo, Store
<1>7. CASE FlushLines(t)
  BY <1>1, <1>7 DEF Moves, Held, Locations, Keeps, Without, Either, Filling, Replaying,
     Copying, Running, Flushing, Downgraded, Sharing,
     FlushLines
<1>8. CASE FlushCopyInit(t)
  BY <1>1, <1>8 DEF Moves, Held, Locations, Keeps, Without, Either, Filling, Replaying,
     Copying, Running, Flushing, Downgraded, Sharing,
     FlushCopyInit
<1>9. CASE FlushAll(t)
  BY <1>1, <1>9 DEF Moves, Held, Locations, Keeps, Without, Either, Filling, Replaying,
     Copying, Running, Flushing, Downgraded, Sharing,
     FlushAll, Undo, Store, Break
<1>10. QED
  BY <1>2, <1>3, <1>4, <1>5, <1>6, <1>7, <1>8, <1>9

LEMMA FinishMoves ==
  ASSUME LockInv, NEW t \in Threads,
         \/ AdvanceRead(t) \/ AdvanceCas(t) \/ ExitHead(t) \/ ExitRing(t)
         \/ ExitAdvance(t) \/ ExitAdvanceCas(t) \/ FetchResult(t)
  PROVE  Moves(t)
<1>1. /\ Held(t) /\ pc[t] \in Locations /\ nc[t] \in Combs \union {NONE}
      /\ pc \in [Threads -> Locations] /\ cc[t] \in Places /\ curComb \in Places
  BY DEF LockInv, LockTypes
<1> USE PlacesFacts DEF Goto, sharedVars, nvmVars, volatileVars, lockVars
<1>2. CASE AdvanceRead(t)
  BY <1>1, <1>2 DEF Moves, Held, Locations, Keeps, Without, Either, Filling, Replaying,
     Copying, Running, Flushing, Downgraded, Sharing,
     AdvanceRead, Committed, Return
<1>3. CASE AdvanceCas(t)
  <2>1. pc[t] = "w_advance_cas" /\ pc' = [pc EXCEPT ![t] = "idle"]
    BY <1>3 DEF AdvanceCas, Committed, Return, FencedCurComb
  <2>2. UNCHANGED <<lock, readers, nc, curComb>> /\ cc' = [cc EXCEPT ![t] = Ticket0]
    BY <1>3 DEF AdvanceCas, Committed, Return, FencedCurComb
  <2>3. "idle" \in Locations /\ Keeps(t, "idle")
    BY <1>1, <2>1, <2>2 DEF Held, Locations, Keeps, Without, Either, Filling, Replaying,
     Copying, Running, Flushing, Downgraded, Sharing
  <2>4. QED
    BY <2>1, <2>2, <2>3, MovesTo
<1>4. CASE ExitHead(t)
  BY <1>1, <1>4 DEF Moves, Held, Locations, Keeps, Without, Either, Filling, Replaying,
     Copying, Running, Flushing, Downgraded, Sharing,
     ExitHead, FetchHead
<1>5. CASE ExitRing(t)
  BY <1>1, <1>5 DEF Moves, Held, Locations, Keeps, Without, Either, Filling, Replaying,
     Copying, Running, Flushing, Downgraded, Sharing,
     ExitRing
<1>6. CASE ExitAdvance(t)
  BY <1>1, <1>6 DEF Moves, Held, Locations, Keeps, Without, Either, Filling, Replaying,
     Copying, Running, Flushing, Downgraded, Sharing,
     ExitAdvance
<1>7. CASE ExitAdvanceCas(t)
  BY <1>1, <1>7 DEF Moves, Held, Locations, Keeps, Without, Either, Filling, Replaying,
     Copying, Running, Flushing, Downgraded, Sharing,
     ExitAdvanceCas, FencedCurComb
<1>8. CASE FetchResult(t)
  <2>1. pc[t] = "x_result" /\ pc' = [pc EXCEPT ![t] = "idle"]
    BY <1>8 DEF FetchResult, Return
  <2>2. UNCHANGED <<lock, readers, nc, curComb>> /\ cc' = [cc EXCEPT ![t] = Ticket0]
    BY <1>8 DEF FetchResult, Return
  <2>3. "idle" \in Locations /\ Keeps(t, "idle")
    BY <1>1, <2>1, <2>2 DEF Held, Locations, Keeps, Without, Either, Filling, Replaying,
     Copying, Running, Flushing, Downgraded, Sharing
  <2>4. QED
    BY <2>1, <2>2, <2>3, MovesTo
<1>9. QED
  BY <1>2, <1>3, <1>4, <1>5, <1>6, <1>7, <1>8

LEMMA ReadMoves ==
  ASSUME LockInv, NEW t \in Threads,
         \/ BeginRead(t) \/ ReadEnqueue(t) \/ ReadCheck(t) \/ ReadWord(t)
         \/ ReadReturn(t) \/ FallbackHead(t)
  PROVE  Moves(t)
<1>1. /\ Held(t) /\ pc[t] \in Locations /\ nc[t] \in Combs \union {NONE}
      /\ pc \in [Threads -> Locations] /\ cc[t] \in Places /\ curComb \in Places
  BY DEF LockInv, LockTypes
<1> USE PlacesFacts DEF Goto, sharedVars, nvmVars, volatileVars, lockVars
<1>2. CASE BeginRead(t)
  <2>1. pc[t] = "idle" /\ pc' = [pc EXCEPT ![t] = TryLocation(0)]
    BY <1>2 DEF BeginRead, Open
  <2>2. UNCHANGED <<lock, readers, nc, curComb, cc>>
    BY <1>2 DEF BeginRead
  <2>3. TryLocation(0) \in Locations /\ Keeps(t, TryLocation(0))
    BY <1>1, <2>1 DEF TryLocation, Held, Locations, Keeps, Without, Either, Filling, Replaying,
     Copying, Running, Flushing, Downgraded, Sharing
  <2>4. QED
    BY <1>1, <2>1, <2>2, <2>3, MovesTo
<1>3. CASE ReadEnqueue(t)
  BY <1>1, <1>3 DEF Moves, Held, Locations, Keeps, Without, Either, Filling, Replaying,
     Copying, Running, Flushing, Downgraded, Sharing,
     ReadEnqueue
<1>4. CASE ReadCheck(t)
  BY <1>1, <1>4 DEF Moves, Held, Locations, Keeps, Without, Either, Filling, Replaying,
     Copying, Running, Flushing, Downgraded, Sharing,
     ReadCheck
<1>5. CASE ReadWord(t)
  <2>1. PICK p \in {"r_unlock", "r_run"} : pc' = [pc EXCEPT ![t] = p]
    BY <1>5 DEF ReadWord
  <2>2. UNCHANGED <<lock, readers, nc, curComb, cc>> /\ pc[t] = "r_run"
    BY <1>5 DEF ReadWord
  <2>3. p \in Locations /\ Keeps(t, p)
    BY <1>1, <2>1, <2>2 DEF Held, Locations, Keeps, Without, Either, Filling, Replaying,
     Copying, Running, Flushing, Downgraded, Sharing
  <2>4. QED
    BY <1>1, <2>1, <2>2, <2>3, MovesTo
<1>6. CASE ReadReturn(t)
  <2>1. pc[t] = "r_ring" /\ pc' = [pc EXCEPT ![t] = "idle"]
    BY <1>6 DEF ReadReturn, Return, FencedCurComb
  <2>2. UNCHANGED <<lock, readers, nc, curComb>> /\ cc' = [cc EXCEPT ![t] = Ticket0]
    BY <1>6 DEF ReadReturn, Return, FencedCurComb
  <2>3. "idle" \in Locations /\ Keeps(t, "idle")
    BY <1>1, <2>1, <2>2 DEF Held, Locations, Keeps, Without, Either, Filling, Replaying,
     Copying, Running, Flushing, Downgraded, Sharing
  <2>4. QED
    BY <2>1, <2>2, <2>3, MovesTo
<1>7. CASE FallbackHead(t)
  BY <1>1, <1>7 DEF Moves, Held, Locations, Keeps, Without, Either, Filling, Replaying,
     Copying, Running, Flushing, Downgraded, Sharing,
     FallbackHead, FetchHead, FencedCurComb
<1>8. QED
  BY <1>2, <1>3, <1>4, <1>5, <1>6, <1>7

(* A step of t on the replicas of S, none of which another thread has.     *)
LEMMA Handover ==
  ASSUME LockInv, NEW t \in Threads, NEW S \in SUBSET Combs, LockTypes',
         readers' = readers,
         \A u \in Threads \ {t} : pc'[u] = pc[u] /\ cc'[u] = cc[u] /\ nc'[u] = nc[u],
         \A c \in S : \A u \in Threads \ {t} : Claim(u) # c,
         {curComb.idx, curComb'.idx} \subseteq S,
         {Claim(t), Claim(t)'} \subseteq S \union {NONE},
         \A c \in Combs \ S : lock'[c] = lock[c],
         \A c \in S : lock'[c] = IF c = curComb'.idx THEN "readonly"
                                 ELSE IF c # Claim(t)' THEN "free"
                                 ELSE IF pc'[t] \in Downgraded \union {"w_unlock"}
                                 THEN "readonly" ELSE "write",
         \A c \in S : lock'[c] = "write" => readers[c] = {},
         Claim(t)' # curComb'.idx,
         pc[t] \notin Sharing, pc'[t] \notin Sharing,
         pc'[t] \in Without \union {"w_unlock"} => nc'[t] = NONE,
         pc'[t] \in Filling \union Downgraded => nc'[t] # NONE
  PROVE  LockInv'
<1>1. \A u \in Threads \ {t} : Claim(u)' = Claim(u)
  BY DEF Claim
<1>2. \A u \in Threads : Held(u)
  BY DEF LockInv
<1>3. ASSUME NEW u \in Threads \ {t}
      PROVE  Held(u)'
  <2>1. pc'[u] = pc[u] /\ cc'[u] = cc[u] /\ nc'[u] = nc[u] /\ Claim(u)' = Claim(u)
    BY <1>1
  <2>2. Claim(u) \in Combs \union {NONE} /\ Claim(u) \notin S
    BY DEF Claim, LockInv, LockTypes, Places
  <2>3. Claim(u)' # curComb'.idx /\ Claim(u)' # NONE => lock'[Claim(u)'] = lock[Claim(u)]
    BY <2>1, <2>2
  <2>4. \A w \in Threads \ {u} : Claim(u)' = NONE \/ Claim(u)' # Claim(w)'
    BY <1>1, <1>2, <2>1, <2>2 DEF Held
  <2>5. QED
    BY <1>2, <2>1, <2>2, <2>3, <2>4 DEF Held
<1>4. Held(t)'
  <2>1. \A c \in Combs : t \in readers'[c] <=> pc'[t] \in Sharing /\ cc'[t].idx = c
    BY <1>2 DEF Held
  <2>2. Claim(t)' # NONE => lock'[Claim(t)'] =
          IF pc'[t] \in Downgraded \union {"w_unlock"} THEN "readonly" ELSE "write"
    OBVIOUS
  <2>3. \A w \in Threads \ {t} : Claim(t)' = NONE \/ Claim(t)' # Claim(w)'
    BY <1>1
  <2>4. QED
    BY <2>1, <2>2, <2>3 DEF Held
<1>5. Claimed'
  <2>1. lock'[curComb'.idx] = "readonly"
    OBVIOUS
  <2>2. ASSUME NEW c \in Combs
        PROVE  /\ lock'[c] # "free" /\ c # curComb'.idx => \E w \in Threads : Claim(w)' = c
               /\ lock'[c] = "write" => readers'[c] = {}
    <3>1. CASE c \in S
      BY <3>1
    <3>2. CASE c \notin S
      <4>1. lock'[c] = lock[c] /\ readers'[c] = readers[c] /\ c # curComb.idx
        BY <3>2
      <4>2. ASSUME lock[c] # "free"
            PROVE  \E w \in Threads : Claim(w)' = c
        <5>1. PICK w \in Threads : Claim(w) = c
          BY <4>1, <4>2 DEF LockInv, Claimed
        <5>2. w # t
          BY <3>2, <5>1, NoneIsNoReplica
        <5>3. QED
          BY <1>1, <5>1, <5>2
      <4>3. lock[c] = "write" => readers[c] = {}
        BY DEF LockInv, Claimed
      <4>4. QED
        BY <4>1, <4>2, <4>3
    <3>3. QED
      BY <3>1, <3>2
  <2>3. QED
    BY <2>1, <2>2 DEF Claimed
<1>6. QED
  BY <1>3, <1>4, <1>5 DEF LockInv

LEMMA PickTryLocks ==
  ASSUME LockInv, NEW t \in Threads, PickTry(t), loc[t].i \in Combs
  PROVE  LockInv'
<1> DEFINE c == loc[t].i
<1>1. /\ Held(t) /\ LockTypes /\ Claimed /\ pc[t] = "w_try" /\ nc[t] = NONE
      /\ UNCHANGED <<curComb, cc, readers>>
  BY DEF LockInv, Held, Without, PickTry, nvmVars
<1>2. CASE CanLock(c)
  <2>1. /\ lock' = [lock EXCEPT ![c] = "write"] /\ nc' = [nc EXCEPT ![t] = c]
        /\ pc' = [pc EXCEPT ![t] = "w_replay"]
    BY <1>2 DEF PickTry, Goto
  <2>2. /\ Claim(t) = NONE /\ Claim(t)' = c
        /\ pc'[t] = "w_replay" /\ nc'[t] = c
    BY <1>1, <2>1 DEF Claim, LockTypes
  <2>3. LockTypes'
    BY <1>1, <2>1 DEF LockTypes, Locations
  <2>4. lock[c] = "free" /\ readers[c] = {} /\ c # curComb.idx
    BY <1>1, <1>2 DEF CanLock, Claimed
  <2>5. \A u \in Threads \ {t} : Claim(u) # c /\ Claim(u) # curComb.idx
    BY <2>4, NoneIsNoReplica DEF LockInv, Held
  <2>6. curComb.idx \in Combs /\ lock[curComb.idx] = "readonly"
    BY <1>1 DEF LockTypes, Places, Claimed
  <2>7. \A d \in {c, curComb.idx} :
           lock'[d] = IF d = curComb.idx THEN "readonly" ELSE "write"
    BY <1>1, <2>1, <2>4, <2>6 DEF LockTypes
  <2>8. /\ \A d \in Combs \ {c, curComb.idx} : lock'[d] = lock[d]
        /\ \A u \in Threads \ {t} : pc'[u] = pc[u] /\ cc'[u] = cc[u] /\ nc'[u] = nc[u]
    BY <1>1, <2>1 DEF LockTypes
  <2>9. "w_replay" \notin Sharing \union Without \union {"w_unlock"} \union Downgraded
          /\ "w_try" \notin Sharing
    BY DEF Sharing, Without, Downgraded
  <2>10. c # NONE
    BY NoneIsNoReplica
  <2>11. \A d \in {c, curComb.idx} :
          lock'[d] = IF d = curComb'.idx THEN "readonly"
                     ELSE IF d # Claim(t)' THEN "free"
                     ELSE IF pc'[t] \in Downgraded \union {"w_unlock"}
                     THEN "readonly" ELSE "write"
    BY <1>1, <2>2, <2>7, <2>9
  <2>12. \A d \in {c, curComb.idx} : lock'[d] = "write" => readers[d] = {}
    BY <2>4, <2>6, <2>7
  <2>13. /\ {c, curComb.idx} \in SUBSET Combs
         /\ {curComb.idx, curComb'.idx} \subseteq {c, curComb.idx}
         /\ {Claim(t), Claim(t)'} \subseteq {c, curComb.idx} \union {NONE}
         /\ Claim(t)' # curComb'.idx
    BY <1>1, <2>2, <2>4, <2>6
  <2>14. \A d \in {c, curComb.idx} : \A u \in Threads \ {t} : Claim(u) # d
    BY <2>5
  <2>15. /\ pc[t] \notin Sharing /\ pc'[t] \notin Sharing
         /\ pc'[t] \in Without \union {"w_unlock"} => nc'[t] = NONE
         /\ pc'[t] \in Filling \union Downgraded => nc'[t] # NONE
    BY <1>1, <2>2, <2>9, <2>10
  <2>16. readers' = readers
    BY <1>1
  <2>17. QED
    BY <2>3, <2>8, <2>11, <2>12, <2>13, <2>14, <2>15, <2>16, Handover
<1>3. CASE ~CanLock(c)
  <2>1. Moves(t)
    BY <1>1, <1>3 DEF Moves, Keeps, PickTry, Goto, Locations, Without, nvmVars
  <2>2. QED
    BY <2>1, Moved
<1>4. QED
  BY <1>2, <1>3

LEMMA Own ==
  ASSUME LockInv, NEW t \in Threads, Claim(t) # NONE
  PROVE  /\ Claim(t) \in Combs /\ Claim(t) # curComb.idx /\ curComb.idx \in Combs
         /\ \A d \in {Claim(t), curComb.idx} :
              /\ \A u \in Threads \ {t} : Claim(u) # d
              /\ lock[d] = "write" => readers[d] = {}
         /\ lock[curComb.idx] = "readonly"
         /\ lock[Claim(t)] = IF pc[t] \in Downgraded \union {"w_unlock"}
                             THEN "readonly" ELSE "write"
<1>1. Held(t) /\ Claimed /\ \A u \in Threads \ {t} : Held(u)
  BY DEF LockInv
<1>2. Claim(t) \in Combs /\ curComb.idx \in Combs
  BY DEF LockInv, LockTypes, Claim, Places
<1>3. QED
  BY <1>1, <1>2 DEF Held, Claimed

LEMMA SetHeadLocks ==
  ASSUME LockInv, NEW t \in Threads, SetHead(t)
  PROVE  LockInv'
<1> DEFINE c == nc[t]
<1>1. /\ Held(t) /\ LockTypes /\ pc[t] = "w_head" /\ Claim(t) = c /\ c # NONE
      /\ c \in Combs
  BY NoneIsNoReplica
     DEF LockInv, LockTypes, Places, Held, Claim, SetHead, Filling, Flushing, Downgraded
<1>2. PICK p \in {"w_publish"} : pc' = [pc EXCEPT ![t] = p]
  BY DEF SetHead, Goto
<1>3. /\ lock' = [lock EXCEPT ![c] = "readonly"]
      /\ nc' = nc
      /\ UNCHANGED <<readers, cc>>
  BY DEF SetHead, Goto, nvmVars, volatileVars, lockVars
<1>4. curComb' = curComb
  BY DEF SetHead, Goto, nvmVars, volatileVars, lockVars
<1>5. /\ pc'[t] = p /\ nc'[t] = c /\ Claim(t)' = c
      /\ pc[t] \notin Sharing /\ pc'[t] \notin Sharing
      /\ pc'[t] \in Without \union {"w_unlock"} => nc'[t] = NONE
      /\ pc'[t] \in Filling \union Downgraded => nc'[t] # NONE
  BY <1>1, <1>2, <1>3, <1>4 DEF Claim, Held, LockTypes, Sharing, Without, Filling, Replaying,
     Copying, Running, Flushing, Downgraded
<1>6. LockTypes'
  BY <1>1, <1>2, <1>3, <1>4 DEF LockTypes, Locations, Places, SeqTidIdx
<1>7. /\ c # curComb.idx /\ curComb.idx \in Combs
      /\ \A d \in {c, curComb.idx} :
           /\ \A u \in Threads \ {t} : Claim(u) # d
           /\ lock[d] = "write" => readers[d] = {}
      /\ lock[curComb.idx] = "readonly"
      /\ lock[c] = IF pc[t] \in Downgraded \union {"w_unlock"} THEN "readonly" ELSE "write"
  BY <1>1, Own
<1>8. /\ \A d \in Combs \ {c, curComb.idx} : lock'[d] = lock[d]
      /\ \A u \in Threads \ {t} : pc'[u] = pc[u] /\ cc'[u] = cc[u] /\ nc'[u] = nc[u]
      /\ lock'[c] = "readonly" /\ lock'[curComb.idx] = "readonly"
  BY <1>1, <1>2, <1>3, <1>7 DEF LockTypes, Downgraded
<1>9. /\ \A d \in {c, curComb.idx} :
           lock'[d] = IF d = curComb'.idx THEN "readonly"
                      ELSE IF d # Claim(t)' THEN "free"
                      ELSE IF pc'[t] \in Downgraded \union {"w_unlock"}
                      THEN "readonly" ELSE "write"
      /\ \A d \in {c, curComb.idx} : lock'[d] = "write" => readers[d] = {}
      /\ Claim(t)' # curComb'.idx
      /\ {curComb.idx, curComb'.idx} \subseteq {c, curComb.idx}
      /\ {Claim(t), Claim(t)'} \subseteq {c, curComb.idx} \union {NONE}
  BY <1>1, <1>4, <1>5, <1>7, <1>8, NoneIsNoReplica DEF Downgraded, SeqTidIdx
<1>10. {c, curComb.idx} \in SUBSET Combs /\ readers' = readers
  BY <1>1, <1>3, <1>7
<1>11. \A d \in {c, curComb.idx} : \A u \in Threads \ {t} : Claim(u) # d
  BY <1>7
<1>12. QED
  BY <1>5, <1>6, <1>8, <1>9, <1>10, <1>11, Handover

LEMMA WithdrawLocks ==
  ASSUME LockInv, NEW t \in Threads, Withdraw(t)
  PROVE  LockInv'
<1> DEFINE c == nc[t]
<1>1. /\ Held(t) /\ LockTypes /\ pc[t] = "w_lost" /\ Claim(t) = c /\ c # NONE
      /\ c \in Combs
  BY NoneIsNoReplica
     DEF LockInv, LockTypes, Places, Held, Claim, Withdraw, Filling, Flushing, Downgraded
<1>2. PICK p \in {"w_exit", "w_load"} : pc' = [pc EXCEPT ![t] = p]
  BY DEF Withdraw, Goto, Undo, Store, Continue
<1>3. /\ lock' = [lock EXCEPT ![c] = "free"]
      /\ nc' = [nc EXCEPT ![t] = NONE]
      /\ UNCHANGED <<readers, cc>>
  BY DEF Withdraw, Goto, Undo, Store, Continue, nvmVars, volatileVars, lockVars
<1>4. curComb' = curComb
  BY DEF Withdraw, Goto, Undo, Store, Continue, nvmVars, volatileVars, lockVars
<1>5. /\ pc'[t] = p /\ nc'[t] = NONE /\ Claim(t)' = NONE
      /\ pc[t] \notin Sharing /\ pc'[t] \notin Sharing
      /\ pc'[t] \in Without \union {"w_unlock"} => nc'[t] = NONE
      /\ pc'[t] \in Filling \union Downgraded => nc'[t] # NONE
  BY <1>1, <1>2, <1>3, <1>4 DEF Claim, Held, LockTypes, Sharing, Without, Filling, Replaying,
     Copying, Running, Flushing, Downgraded
<1>6. LockTypes'
  BY <1>1, <1>2, <1>3, <1>4 DEF LockTypes, Locations, Places, SeqTidIdx
<1>7. /\ c # curComb.idx /\ curComb.idx \in Combs
      /\ \A d \in {c, curComb.idx} :
           /\ \A u \in Threads \ {t} : Claim(u) # d
           /\ lock[d] = "write" => readers[d] = {}
      /\ lock[curComb.idx] = "readonly"
      /\ lock[c] = IF pc[t] \in Downgraded \union {"w_unlock"} THEN "readonly" ELSE "write"
  BY <1>1, Own
<1>8. /\ \A d \in Combs \ {c, curComb.idx} : lock'[d] = lock[d]
      /\ \A u \in Threads \ {t} : pc'[u] = pc[u] /\ cc'[u] = cc[u] /\ nc'[u] = nc[u]
      /\ lock'[c] = "free" /\ lock'[curComb.idx] = "readonly"
  BY <1>1, <1>2, <1>3, <1>7 DEF LockTypes, Downgraded
<1>9. /\ \A d \in {c, curComb.idx} :
           lock'[d] = IF d = curComb'.idx THEN "readonly"
                      ELSE IF d # Claim(t)' THEN "free"
                      ELSE IF pc'[t] \in Downgraded \union {"w_unlock"}
                      THEN "readonly" ELSE "write"
      /\ \A d \in {c, curComb.idx} : lock'[d] = "write" => readers[d] = {}
      /\ Claim(t)' # curComb'.idx
      /\ {curComb.idx, curComb'.idx} \subseteq {c, curComb.idx}
      /\ {Claim(t), Claim(t)'} \subseteq {c, curComb.idx} \union {NONE}
  BY <1>1, <1>4, <1>5, <1>7, <1>8, NoneIsNoReplica DEF Downgraded, SeqTidIdx
<1>10. {c, curComb.idx} \in SUBSET Combs /\ readers' = readers
  BY <1>1, <1>3, <1>7
<1>11. \A d \in {c, curComb.idx} : \A u \in Threads \ {t} : Claim(u) # d
  BY <1>7
<1>12. QED
  BY <1>5, <1>6, <1>8, <1>9, <1>10, <1>11, Handover

LEMMA UnlockOldLocks ==
  ASSUME LockInv, NEW t \in Threads, UnlockOld(t)
  PROVE  LockInv'
<1> DEFINE c == cc[t].idx
<1>1. /\ Held(t) /\ LockTypes /\ pc[t] = "w_unlock" /\ Claim(t) = c /\ c # NONE
      /\ c \in Combs
  BY NoneIsNoReplica
     DEF LockInv, LockTypes, Places, Held, Claim, UnlockOld, Filling, Flushing, Downgraded
<1>2. PICK p \in {"w_advance"} : pc' = [pc EXCEPT ![t] = p]
  BY DEF UnlockOld, Goto
<1>3. /\ lock' = [lock EXCEPT ![c] = "free"]
      /\ nc' = nc
      /\ UNCHANGED <<readers, cc>>
  BY DEF UnlockOld, Goto, nvmVars, volatileVars, lockVars
<1>4. curComb' = curComb
  BY DEF UnlockOld, Goto, nvmVars, volatileVars, lockVars
<1>5. /\ pc'[t] = p /\ nc'[t] = NONE /\ Claim(t)' = NONE
      /\ pc[t] \notin Sharing /\ pc'[t] \notin Sharing
      /\ pc'[t] \in Without \union {"w_unlock"} => nc'[t] = NONE
      /\ pc'[t] \in Filling \union Downgraded => nc'[t] # NONE
  BY <1>1, <1>2, <1>3, <1>4 DEF Claim, Held, LockTypes, Sharing, Without, Filling, Replaying,
     Copying, Running, Flushing, Downgraded
<1>6. LockTypes'
  BY <1>1, <1>2, <1>3, <1>4 DEF LockTypes, Locations, Places, SeqTidIdx
<1>7. /\ c # curComb.idx /\ curComb.idx \in Combs
      /\ \A d \in {c, curComb.idx} :
           /\ \A u \in Threads \ {t} : Claim(u) # d
           /\ lock[d] = "write" => readers[d] = {}
      /\ lock[curComb.idx] = "readonly"
      /\ lock[c] = IF pc[t] \in Downgraded \union {"w_unlock"} THEN "readonly" ELSE "write"
  BY <1>1, Own
<1>8. /\ \A d \in Combs \ {c, curComb.idx} : lock'[d] = lock[d]
      /\ \A u \in Threads \ {t} : pc'[u] = pc[u] /\ cc'[u] = cc[u] /\ nc'[u] = nc[u]
      /\ lock'[c] = "free" /\ lock'[curComb.idx] = "readonly"
  BY <1>1, <1>2, <1>3, <1>7 DEF LockTypes, Downgraded
<1>9. /\ \A d \in {c, curComb.idx} :
           lock'[d] = IF d = curComb'.idx THEN "readonly"
                      ELSE IF d # Claim(t)' THEN "free"
                      ELSE IF pc'[t] \in Downgraded \union {"w_unlock"}
                      THEN "readonly" ELSE "write"
      /\ \A d \in {c, curComb.idx} : lock'[d] = "write" => readers[d] = {}
      /\ Claim(t)' # curComb'.idx
      /\ {curComb.idx, curComb'.idx} \subseteq {c, curComb.idx}
      /\ {Claim(t), Claim(t)'} \subseteq {c, curComb.idx} \union {NONE}
  BY <1>1, <1>4, <1>5, <1>7, <1>8, NoneIsNoReplica DEF Downgraded, SeqTidIdx
<1>10. {c, curComb.idx} \in SUBSET Combs /\ readers' = readers
  BY <1>1, <1>3, <1>7
<1>11. \A d \in {c, curComb.idx} : \A u \in Threads \ {t} : Claim(u) # d
  BY <1>7
<1>12. QED
  BY <1>5, <1>6, <1>8, <1>9, <1>10, <1>11, Handover

LEMMA ExitUnlockLocks ==
  ASSUME LockInv, NEW t \in Threads, ExitUnlock(t), nc[t] # NONE
  PROVE  LockInv'
<1> DEFINE c == nc[t]
<1>1. /\ Held(t) /\ LockTypes /\ pc[t] = "w_exit" /\ Claim(t) = c /\ c # NONE
      /\ c \in Combs
  BY NoneIsNoReplica
     DEF LockInv, LockTypes, Places, Held, Claim, ExitUnlock, Filling, Flushing, Downgraded
<1>2. PICK p \in {"x_load"} : pc' = [pc EXCEPT ![t] = p]
  BY DEF ExitUnlock, Goto
<1>3. /\ lock' = [d \in Combs |-> IF d = c THEN "free" ELSE lock[d]]
      /\ nc' = [nc EXCEPT ![t] = NONE]
      /\ UNCHANGED <<readers, cc>>
  BY DEF ExitUnlock, Goto, nvmVars, volatileVars, lockVars
<1>4. curComb' = curComb
  BY DEF ExitUnlock, Goto, nvmVars, volatileVars, lockVars
<1>5. /\ pc'[t] = p /\ nc'[t] = NONE /\ Claim(t)' = NONE
      /\ pc[t] \notin Sharing /\ pc'[t] \notin Sharing
      /\ pc'[t] \in Without \union {"w_unlock"} => nc'[t] = NONE
      /\ pc'[t] \in Filling \union Downgraded => nc'[t] # NONE
  BY <1>1, <1>2, <1>3, <1>4 DEF Claim, Held, LockTypes, Sharing, Without, Filling, Replaying,
     Copying, Running, Flushing, Downgraded
<1>6. LockTypes'
  BY <1>1, <1>2, <1>3, <1>4 DEF LockTypes, Locations, Places, SeqTidIdx
<1>7. /\ c # curComb.idx /\ curComb.idx \in Combs
      /\ \A d \in {c, curComb.idx} :
           /\ \A u \in Threads \ {t} : Claim(u) # d
           /\ lock[d] = "write" => readers[d] = {}
      /\ lock[curComb.idx] = "readonly"
      /\ lock[c] = IF pc[t] \in Downgraded \union {"w_unlock"} THEN "readonly" ELSE "write"
  BY <1>1, Own
<1>8. /\ \A d \in Combs \ {c, curComb.idx} : lock'[d] = lock[d]
      /\ \A u \in Threads \ {t} : pc'[u] = pc[u] /\ cc'[u] = cc[u] /\ nc'[u] = nc[u]
      /\ lock'[c] = "free" /\ lock'[curComb.idx] = "readonly"
  BY <1>1, <1>2, <1>3, <1>7 DEF LockTypes, Downgraded
<1>9. /\ \A d \in {c, curComb.idx} :
           lock'[d] = IF d = curComb'.idx THEN "readonly"
                      ELSE IF d # Claim(t)' THEN "free"
                      ELSE IF pc'[t] \in Downgraded \union {"w_unlock"}
                      THEN "readonly" ELSE "write"
      /\ \A d \in {c, curComb.idx} : lock'[d] = "write" => readers[d] = {}
      /\ Claim(t)' # curComb'.idx
      /\ {curComb.idx, curComb'.idx} \subseteq {c, curComb.idx}
      /\ {Claim(t), Claim(t)'} \subseteq {c, curComb.idx} \union {NONE}
  BY <1>1, <1>4, <1>5, <1>7, <1>8, NoneIsNoReplica DEF Downgraded, SeqTidIdx
<1>10. {c, curComb.idx} \in SUBSET Combs /\ readers' = readers
  BY <1>1, <1>3, <1>7
<1>11. \A d \in {c, curComb.idx} : \A u \in Threads \ {t} : Claim(u) # d
  BY <1>7
<1>12. QED
  BY <1>5, <1>6, <1>8, <1>9, <1>10, <1>11, Handover

LEMMA PublishLocks ==
  ASSUME LockInv, NEW t \in Threads, Publish(t), Current(t)
  PROVE  LockInv'
<1> DEFINE c == nc[t]
<1>1. /\ Held(t) /\ LockTypes /\ pc[t] = "w_publish" /\ Claim(t) = c /\ c # NONE
      /\ c \in Combs
  BY NoneIsNoReplica
     DEF LockInv, LockTypes, Places, Held, Claim, Publish, Filling, Flushing, Downgraded
<1>2. PICK p \in {"w_unlock"} : pc' = [pc EXCEPT ![t] = p]
  BY DEF Publish, Published, Current, Goto
<1>3. /\ lock' = lock
      /\ nc' = [nc EXCEPT ![t] = NONE]
      /\ UNCHANGED <<readers, cc>>
  BY DEF Publish, Published, Current, Goto, nvmVars, volatileVars, lockVars
<1>4. cc[t] = curComb /\ curComb' = SeqTidIdx(cc[t].seq + 1, t, c)
  BY DEF Publish, Published, Current, Goto, nvmVars, volatileVars, lockVars
<1>5. /\ pc'[t] = p /\ nc'[t] = NONE /\ Claim(t)' = curComb.idx
      /\ pc[t] \notin Sharing /\ pc'[t] \notin Sharing
      /\ pc'[t] \in Without \union {"w_unlock"} => nc'[t] = NONE
      /\ pc'[t] \in Filling \union Downgraded => nc'[t] # NONE
  BY <1>1, <1>2, <1>3, <1>4 DEF Claim, Held, LockTypes, Sharing, Without, Filling, Replaying,
     Copying, Running, Flushing, Downgraded
<1>6. LockTypes'
  <2>1. curComb' \in Places
    BY <1>1, <1>4, RedoAssumption DEF LockTypes, Places, SeqTidIdx, Threads
  <2>2. QED
    BY <1>1, <1>2, <1>3, <2>1, RedoAssumption DEF LockTypes, Locations
<1>7. /\ c # curComb.idx /\ curComb.idx \in Combs
      /\ \A d \in {c, curComb.idx} :
           /\ \A u \in Threads \ {t} : Claim(u) # d
           /\ lock[d] = "write" => readers[d] = {}
      /\ lock[curComb.idx] = "readonly"
      /\ lock[c] = IF pc[t] \in Downgraded \union {"w_unlock"} THEN "readonly" ELSE "write"
  BY <1>1, Own
<1>8. /\ \A d \in Combs \ {c, curComb.idx} : lock'[d] = lock[d]
      /\ \A u \in Threads \ {t} : pc'[u] = pc[u] /\ cc'[u] = cc[u] /\ nc'[u] = nc[u]
      /\ lock'[c] = "readonly" /\ lock'[curComb.idx] = "readonly"
  BY <1>1, <1>2, <1>3, <1>7 DEF LockTypes, Downgraded
<1>9. /\ \A d \in {c, curComb.idx} :
           lock'[d] = IF d = curComb'.idx THEN "readonly"
                      ELSE IF d # Claim(t)' THEN "free"
                      ELSE IF pc'[t] \in Downgraded \union {"w_unlock"}
                      THEN "readonly" ELSE "write"
      /\ \A d \in {c, curComb.idx} : lock'[d] = "write" => readers[d] = {}
      /\ Claim(t)' # curComb'.idx
      /\ {curComb.idx, curComb'.idx} \subseteq {c, curComb.idx}
      /\ {Claim(t), Claim(t)'} \subseteq {c, curComb.idx} \union {NONE}
  BY <1>1, <1>4, <1>5, <1>7, <1>8, NoneIsNoReplica DEF Downgraded, SeqTidIdx
<1>10. {c, curComb.idx} \in SUBSET Combs /\ readers' = readers
  BY <1>1, <1>3, <1>7
<1>11. \A d \in {c, curComb.idx} : \A u \in Threads \ {t} : Claim(u) # d
  BY <1>7
<1>12. QED
  BY <1>5, <1>6, <1>8, <1>9, <1>10, <1>11, Handover

(* The steps of a reader.                                                  *)
LEMMA ReaderStep ==
  ASSUME LockInv, NEW t \in Threads, NEW p \in Locations,
         UNCHANGED <<lock, nc, cc, curComb>>,
         pc' = [pc EXCEPT ![t] = p],
         \/ /\ pc[t] \in Without /\ p \in Sharing
            /\ lock[cc[t].idx] # "write"
            /\ readers' = [readers EXCEPT ![cc[t].idx] = @ \union {t}]
         \/ /\ pc[t] \in Sharing /\ p \in Without
            /\ readers' = [readers EXCEPT ![cc[t].idx] = @ \ {t}]
  PROVE  LockInv'
<1>1. LockTypes /\ Claimed /\ (\A u \in Threads : Held(u)) /\ cc[t].idx \in Combs
  BY DEF LockInv, LockTypes, Places
<1>2. LockTypes'
  BY <1>1 DEF LockTypes
<1>3. /\ pc'[t] = p /\ \A u \in Threads \ {t} : pc'[u] = pc[u]
      /\ {pc[t], p} \cap ({"w_unlock"} \union Filling \union Downgraded) = {}
      /\ p \in Sharing <=> pc[t] \notin Sharing
      /\ pc[t] \in Without \union Sharing
  BY <1>1 DEF LockTypes, Without, Sharing, Filling, Replaying, Copying, Running,
     Flushing, Downgraded
<1>4. \A u \in Threads : Claim(u)' = Claim(u)
  BY <1>3 DEF Claim
<1>5. \A c \in Combs :
        /\ c # cc[t].idx => readers'[c] = readers[c]
        /\ \A u \in Threads \ {t} : u \in readers'[c] <=> u \in readers[c]
        /\ t \in readers'[c] <=> p \in Sharing /\ cc[t].idx = c
  BY <1>1, <1>3 DEF Held, LockTypes
<1>6. ASSUME NEW u \in Threads
      PROVE  Held(u)'
  <2>1. Held(u)
    BY <1>1
  <2>2. CASE u = t
    BY <1>3, <1>4, <1>5, <2>1, <2>2 DEF Held
  <2>3. CASE u # t
    BY <1>3, <1>4, <1>5, <2>1, <2>3 DEF Held
  <2>4. QED
    BY <2>2, <2>3
<1>7. \A c \in Combs : lock[c] = "write" => readers'[c] = {}
  <2>1. ASSUME NEW c \in Combs, lock[c] = "write"
        PROVE  readers'[c] = {}
    <3>1. readers[c] = {}
      BY <1>1, <2>1 DEF Claimed
    <3>2. CASE c # cc[t].idx
      BY <1>5, <3>1, <3>2
    <3>3. CASE c = cc[t].idx
      BY <1>1, <2>1, <3>1, <3>3 DEF LockTypes
    <3>4. QED
      BY <3>2, <3>3
  <2>2. QED
    BY <2>1
<1>8. Claimed'
  BY <1>1, <1>4, <1>7 DEF Claimed
<1>9. QED
  BY <1>2, <1>6, <1>8 DEF LockInv

LEMMA ReadLocks ==
  ASSUME LockInv, NEW t \in Threads,
         ReadLock(t) \/ ReadLeave(t) \/ ReadUnlock(t)
  PROVE  LockInv'
<1> USE DEF Goto, nvmVars
<1>1. CASE ReadLock(t) /\ lock[cc[t].idx] = "write"
  <2>1. /\ pc[t] = "r_lock" /\ pc' = [pc EXCEPT ![t] = TryLocation(loc[t].iter + 1)]
        /\ UNCHANGED <<lock, readers, nc, curComb, cc>>
    BY <1>1 DEF ReadLock, NextTry
  <2>2. nc[t] = NONE /\ cc[t] \in Places
    BY <2>1 DEF LockInv, LockTypes, Held, Without
  <2>3. /\ TryLocation(loc[t].iter + 1) \in Locations
        /\ Keeps(t, TryLocation(loc[t].iter + 1))
    BY <2>1, <2>2 DEF TryLocation, Locations, Keeps, Without
  <2>4. QED
    BY <2>1, <2>2, <2>3, MovesTo, Moved
<1>2. CASE ReadLock(t) /\ lock[cc[t].idx] # "write"
  <2>1. /\ pc[t] \in Without /\ pc' = [pc EXCEPT ![t] = "r_check"]
        /\ UNCHANGED <<lock, nc, curComb, cc>>
        /\ readers' = [readers EXCEPT ![cc[t].idx] = @ \union {t}]
    BY <1>2 DEF ReadLock, Without
  <2>2. "r_check" \in Locations \cap Sharing
    BY DEF Locations, Sharing
  <2>3. QED
    BY <1>2, <2>1, <2>2, ReaderStep
<1>3. CASE ReadLeave(t)
  <2>1. /\ pc[t] \in Sharing /\ pc' = [pc EXCEPT ![t] = TryLocation(loc[t].iter + 1)]
        /\ UNCHANGED <<lock, nc, curComb, cc>>
        /\ readers' = [readers EXCEPT ![cc[t].idx] = @ \ {t}]
    BY <1>3 DEF ReadLeave, NextTry, SharedUnlock, Sharing
  <2>2. TryLocation(loc[t].iter + 1) \in Locations \cap Without
    BY DEF Locations, Without, TryLocation
  <2>3. QED
    BY <2>1, <2>2, ReaderStep
<1>4. CASE ReadUnlock(t)
  <2>1. /\ pc[t] \in Sharing /\ pc' = [pc EXCEPT ![t] = "r_ring"]
        /\ UNCHANGED <<lock, nc, curComb, cc>>
        /\ readers' = [readers EXCEPT ![cc[t].idx] = @ \ {t}]
    BY <1>4 DEF ReadUnlock, SharedUnlock, Sharing
  <2>2. "r_ring" \in Locations \cap Without
    BY DEF Locations, Without
  <2>3. QED
    BY <2>1, <2>2, ReaderStep
<1>5. QED
  BY <1>1, <1>2, <1>3, <1>4

(* A fresh set of volatile variables, at the start and after a crash.      *)
FreshLocks ==
  /\ curComb.idx \in Combs /\ curComb \in Places
  /\ lock = [c \in Combs |-> IF c = curComb.idx THEN "readonly" ELSE "free"]
  /\ readers = [c \in Combs |-> {}]
  /\ pc = [t \in Threads |-> "idle"]
  /\ cc = [t \in Threads |-> Ticket0]
  /\ nc = [t \in Threads |-> NONE]

LEMMA FreshLockInv == FreshLocks => LockInv
<1> SUFFICES ASSUME FreshLocks PROVE LockInv
  OBVIOUS
<1> USE DEF FreshLocks
<1>1. LockTypes
  BY PlacesFacts DEF LockTypes, Locations
<1>2. Claimed
  BY DEF Claimed
<1>3. ASSUME NEW t \in Threads
      PROVE  Held(t)
  <2>1. Claim(t) = NONE
    BY DEF Claim
  <2>2. "idle" \notin Sharing \union Filling \union Downgraded
    BY DEF Sharing, Filling, Replaying, Copying, Running, Flushing, Downgraded
  <2>3. QED
    BY <2>1, <2>2, NoneIsNoReplica DEF Held
<1>4. QED
  BY <1>1, <1>2, <1>3 DEF LockInv

LEMMA CrashLocks ==
  ASSUME pcur \subseteq Places, CrashRestart
  PROVE  LockInv'
<1>1. PICK left \in pcur : curComb' = SeqTidIdx(0, 0, left.idx) /\ Volatile(left.idx, INVALID)
  BY DEF CrashRestart
<1>2. curComb' \in Places /\ curComb'.idx = left.idx /\ left.idx \in Combs
  BY <1>1, PlacesFacts DEF Places, SeqTidIdx, Ticket0
<1>3. FreshLocks'
  BY <1>1, <1>2 DEF FreshLocks, Volatile
<1>4. FreshLocks' => LockInv'
  BY FreshLockInv, PTL
<1>5. QED
  BY <1>3, <1>4

LEMMA InitLocks == Init => LockInv
<1>1. ASSUME Init PROVE LockInv
  <2>1. curComb.idx = 0 /\ curComb \in Places
    BY <1>1, PlacesFacts DEF Init, Ticket0, SeqTidIdx
  <2>2. curComb.idx \in Combs
    BY <2>1 DEF Places
  <2>3. QED
    BY <1>1, <2>1, <2>2, FreshLockInv DEF Init, FreshLocks
<1>2. QED
  BY <1>1

-----------------------------------------------------------------------------
(***************************************************************************)
(* Layer 2: the loops of getNewComb and makeCopy.                          *)
(***************************************************************************)
LocFields == DOMAIN Loc0

(* Where a thread has not used its index yet.                              *)
Starting == {"idle", "w_announce", "w_init", "w_load", "w_tail", "w_state",
             "w_ring", "w_ring_load", "w_help_ring"}

LocShape(t) ==
  /\ DOMAIN loc[t] = LocFields
  /\ pc[t] \in Starting => loc[t].i = 0 /\ loc[t].max = MAX_COMBS
  /\ pc[t] \in {"w_pick", "w_try"} =>
       /\ loc[t].i \in Nat /\ loc[t].max \in Nat
       /\ loc[t].i < loc[t].max /\ loc[t].max <= MaxThreads + 1
  /\ pc[t] = "w_help" => loc[t].i \in 0 .. MaxThreads
  /\ pc[t] \in {"w_protect", "w_run"} => loc[t].i \in Threads

(* makeCopy has seen a commit for each round it lost.                      *)
Copies(t) ==
  pc[t] \in Copying =>
    /\ loc[t].i \in {0, 1} /\ loc[t].cp \in Places /\ loc[t].cinit \in Nat
    /\ loc[t].cp.seq >= loc[t].cinit + loc[t].i
    /\ loc[t].cp.seq < curComb.seq \/ loc[t].cp = curComb

Scan(t) == LocShape(t) /\ Copies(t) /\ pc[t] # "c_assert_false"

ScanInv ==
  /\ pcur \subseteq Places
  /\ DOMAIN loc = Threads
  /\ \A t \in Threads : Scan(t)

(* Other threads are where they were, and curComb only moves on.           *)
Stays(t) ==
  /\ \A u \in Threads \ {t} : /\ pc'[u] = pc[u] /\ cc'[u] = cc[u]
                              /\ nc'[u] = nc[u] /\ loc'[u] = loc[u]
  /\ DOMAIN loc' = Threads
  /\ pcur' \subseteq pcur \union {curComb'}
  /\ \/ curComb' = curComb
     \/ pc[t] = "w_publish" /\ curComb' = SeqTidIdx(curComb.seq + 1, t, nc[t])

LEMMA StayingScan ==
  ASSUME LockInv, LockInv', ScanInv, NEW t \in Threads, Stays(t), Scan(t)'
  PROVE  ScanInv'
<1>1. curComb \in Places /\ curComb' \in Places
  BY DEF LockInv, LockTypes
<1>2. curComb' = curComb \/ curComb'.seq = curComb.seq + 1
  BY DEF Stays, SeqTidIdx
<1>3. ASSUME NEW u \in Threads \ {t}
      PROVE  Scan(u)'
  BY <1>1, <1>2 DEF ScanInv, Stays, Scan, LocShape, Copies, Places
<1>4. pcur' \subseteq Places
  BY <1>1 DEF ScanInv, Stays
<1>5. QED
  BY <1>3, <1>4 DEF ScanInv, Stays

LEMMA PrepareStays ==
  ASSUME LockInv, ScanInv, NEW t \in Threads,
         \/ BeginWrite(t) \/ Announce(t) \/ WriteInit(t) \/ LoadCurComb(t)
         \/ LoadTail(t) \/ CopyState(t) \/ RingCheck(t) \/ ReadRing(t)
         \/ HelpRing(t) \/ PickCheck(t) \/ PickTry(t)
  PROVE  Stays(t)
<1>1. /\ pc \in [Threads -> Locations] /\ nc \in [Threads -> Combs \union {NONE}]
      /\ cc \in [Threads -> Places] /\ DOMAIN loc = Threads
  BY DEF LockInv, LockTypes, ScanInv
<1> USE DEF Stays, Goto, Set, sharedVars, nvmVars
<1>2. CASE BeginWrite(t)
  BY <1>1, <1>2 DEF BeginWrite, Open
<1>3. CASE Announce(t)
  BY <1>1, <1>3 DEF Announce
<1>4. CASE WriteInit(t)
  BY <1>1, <1>4 DEF WriteInit
<1>5. CASE LoadCurComb(t)
  BY <1>1, <1>5 DEF LoadCurComb
<1>6. CASE LoadTail(t)
  BY <1>1, <1>6 DEF LoadTail, Break, Continue
<1>7. CASE CopyState(t)
  BY <1>1, <1>7 DEF CopyState, Break, Continue
<1>8. CASE RingCheck(t)
  BY <1>1, <1>8 DEF RingCheck, Continue
<1>9. CASE ReadRing(t)
  BY <1>1, <1>9 DEF ReadRing, Continue, AfterRing
<1>10. CASE HelpRing(t)
  BY <1>1, <1>10 DEF HelpRing, AfterRing, FencedCurComb
<1>11. CASE PickCheck(t)
  BY <1>1, <1>11 DEF PickCheck, Continue
<1>12. CASE PickTry(t)
  BY <1>1, <1>12 DEF PickTry, PickNext
<1>13. QED
  BY <1>2, <1>3, <1>4, <1>5, <1>6, <1>7, <1>8, <1>9, <1>10, <1>11, <1>12

LEMMA CatchUpStays ==
  ASSUME LockInv, ScanInv, NEW t \in Threads,
         \/ BeginReplay(t) \/ ReplayNext(t) \/ CopyRedoLog(t) \/ CheckRedoLog(t)
         \/ Replayed(t) \/ CopyInit(t) \/ CopyHead(t) \/ CopyWord(t)
         \/ CopyCheck(t)
  PROVE  Stays(t)
<1>1. /\ pc \in [Threads -> Locations] /\ nc \in [Threads -> Combs \union {NONE}]
      /\ cc \in [Threads -> Places] /\ DOMAIN loc = Threads
  BY DEF LockInv, LockTypes, ScanInv
<1> USE DEF Stays, Goto, Set, sharedVars, nvmVars
<1>2. CASE BeginReplay(t)
  BY <1>1, <1>2 DEF BeginReplay
<1>3. CASE ReplayNext(t)
  BY <1>1, <1>3 DEF ReplayNext, ReplayDone
<1>4. CASE CopyRedoLog(t)
  BY <1>1, <1>4 DEF CopyRedoLog, Store
<1>5. CASE CheckRedoLog(t)
  BY <1>1, <1>5 DEF CheckRedoLog
<1>6. CASE Replayed(t)
  BY <1>1, <1>6 DEF Replayed, Break
<1>7. CASE CopyInit(t)
  BY <1>1, <1>7 DEF CopyInit
<1>8. CASE CopyHead(t)
  BY <1>1, <1>8 DEF CopyHead, CopyRetry, Break
<1>9. CASE CopyWord(t)
  BY <1>1, <1>9 DEF CopyWord
<1>10. CASE CopyCheck(t)
  BY <1>1, <1>10 DEF CopyCheck, CopyRetry, Copied
<1>11. QED
  BY <1>2, <1>3, <1>4, <1>5, <1>6, <1>7, <1>8, <1>9, <1>10

LEMMA HelpStays ==
  ASSUME LockInv, ScanInv, NEW t \in Threads,
         \/ Recheck(t) \/ HelpNext(t) \/ HelpProtected(t) \/ HelpRun(t)
         \/ MergeLines(t) \/ FlushLines(t) \/ FlushCopyInit(t) \/ FlushAll(t)
         \/ SetHead(t)
  PROVE  Stays(t)
<1>1. /\ pc \in [Threads -> Locations] /\ nc \in [Threads -> Combs \union {NONE}]
      /\ cc \in [Threads -> Places] /\ DOMAIN loc = Threads
  BY DEF LockInv, LockTypes, ScanInv
<1> USE DEF Stays, Goto, Set, sharedVars, nvmVars
<1>2. CASE Recheck(t)
  BY <1>1, <1>2 DEF Recheck, Continue
<1>3. CASE HelpNext(t)
  BY <1>1, <1>3 DEF HelpNext
<1>4. CASE HelpProtected(t)
  BY <1>1, <1>4 DEF HelpProtected
<1>5. CASE HelpRun(t)
  <2>1. CASE ~Current(t)
    BY <1>1, <1>5, <2>1 DEF HelpRun
  <2>2. CASE RunRequest(t)
    <3>1. UNCHANGED <<cc, nc>>
      BY <1>5 DEF HelpRun
    <3>2. DOMAIN loc' = Threads /\ \A u \in Threads \ {t} : loc'[u] = loc[u]
      BY <1>1, <2>2, RunRequestFrame
    <3>3. QED
      BY <1>1, <2>2, <3>1, <3>2, RunRequestFrame
  <2>3. QED
    BY <1>5, <2>1, <2>2 DEF HelpRun
<1>6. CASE MergeLines(t)
  BY <1>1, <1>6 DEF MergeLines, Continue, Undo, Store
<1>7. CASE FlushLines(t)
  BY <1>1, <1>7 DEF FlushLines, PWBLines
<1>8. CASE FlushCopyInit(t)
  BY <1>1, <1>8 DEF FlushCopyInit
<1>9. CASE FlushAll(t)
  BY <1>1, <1>9 DEF FlushAll, Undo, Store, Break, PWBLines
<1>10. CASE SetHead(t)
  BY <1>1, <1>10 DEF SetHead
<1>11. QED
  BY <1>2, <1>3, <1>4, <1>5, <1>6, <1>7, <1>8, <1>9, <1>10

LEMMA FinishStays ==
  ASSUME LockInv, ScanInv, NEW t \in Threads,
         \/ Publish(t) \/ Withdraw(t) \/ UnlockOld(t) \/ AdvanceRead(t)
         \/ AdvanceCas(t) \/ ExitUnlock(t) \/ ExitHead(t) \/ ExitRing(t)
         \/ ExitAdvance(t) \/ ExitAdvanceCas(t) \/ FetchResult(t)
  PROVE  Stays(t)
<1>1. /\ pc \in [Threads -> Locations] /\ nc \in [Threads -> Combs \union {NONE}]
      /\ cc \in [Threads -> Places] /\ DOMAIN loc = Threads
  BY DEF LockInv, LockTypes, ScanInv
<1> USE DEF Stays, Goto, Set, sharedVars, nvmVars
<1>2. CASE Publish(t)
  BY <1>1, <1>2 DEF Publish, Published, Current
<1>3. CASE Withdraw(t)
  BY <1>1, <1>3 DEF Withdraw, Undo, Store, Continue
<1>4. CASE UnlockOld(t)
  BY <1>1, <1>4 DEF UnlockOld
<1>5. CASE AdvanceRead(t)
  BY <1>1, <1>5 DEF AdvanceRead, Committed, Return
<1>6. CASE AdvanceCas(t)
  BY <1>1, <1>6 DEF AdvanceCas, Committed, Return, FencedCurComb
<1>7. CASE ExitUnlock(t)
  BY <1>1, <1>7 DEF ExitUnlock
<1>8. CASE ExitHead(t)
  BY <1>1, <1>8 DEF ExitHead, FetchHead
<1>9. CASE ExitRing(t)
  BY <1>1, <1>9 DEF ExitRing
<1>10. CASE ExitAdvance(t)
  BY <1>1, <1>10 DEF ExitAdvance
<1>11. CASE ExitAdvanceCas(t)
  BY <1>1, <1>11 DEF ExitAdvanceCas, FencedCurComb
<1>12. CASE FetchResult(t)
  BY <1>1, <1>12 DEF FetchResult, Return
<1>13. QED
  BY <1>2, <1>3, <1>4, <1>5, <1>6, <1>7, <1>8, <1>9, <1>10, <1>11, <1>12

LEMMA ReadStays ==
  ASSUME LockInv, ScanInv, NEW t \in Threads,
         \/ BeginRead(t) \/ ReadEnqueue(t) \/ ReadLock(t) \/ ReadCheck(t)
         \/ ReadWord(t) \/ ReadLeave(t) \/ ReadUnlock(t) \/ ReadReturn(t)
         \/ FallbackHead(t)
  PROVE  Stays(t)
<1>1. /\ pc \in [Threads -> Locations] /\ nc \in [Threads -> Combs \union {NONE}]
      /\ cc \in [Threads -> Places] /\ DOMAIN loc = Threads
  BY DEF LockInv, LockTypes, ScanInv
<1> USE DEF Stays, Goto, Set, sharedVars, nvmVars
<1>2. CASE BeginRead(t)
  BY <1>1, <1>2 DEF BeginRead, Open, TryLocation
<1>3. CASE ReadEnqueue(t)
  BY <1>1, <1>3 DEF ReadEnqueue
<1>4. CASE ReadLock(t)
  BY <1>1, <1>4 DEF ReadLock, NextTry
<1>5. CASE ReadCheck(t)
  BY <1>1, <1>5 DEF ReadCheck
<1>6. CASE ReadWord(t)
  BY <1>1, <1>6 DEF ReadWord
<1>7. CASE ReadLeave(t)
  BY <1>1, <1>7 DEF ReadLeave, NextTry
<1>8. CASE ReadUnlock(t)
  BY <1>1, <1>8 DEF ReadUnlock
<1>9. CASE ReadReturn(t)
  BY <1>1, <1>9 DEF ReadReturn, Return, FencedCurComb
<1>10. CASE FallbackHead(t)
  BY <1>1, <1>10 DEF FallbackHead, FetchHead, FencedCurComb
<1>11. QED
  BY <1>2, <1>3, <1>4, <1>5, <1>6, <1>7, <1>8, <1>9, <1>10

LEMMA Loc0Facts ==
  /\ LocFields = DOMAIN Loc0 /\ Loc0.i = 0 /\ Loc0.max = MAX_COMBS
  /\ {"init", "iter", "lt", "la", "rt", "tk", "i", "max", "op", "any", "copy",
      "cl", "undo", "cp", "cinit", "left", "val"} = LocFields
BY DEF Loc0, LocFields

LEMMA ContinueScans ==
  ASSUME LockInv, ScanInv, NEW t \in Threads, Continue(t) \/ Break(t)
  PROVE  Scan(t)'
<1>1. /\ pc \in [Threads -> Locations] /\ DOMAIN loc = Threads
      /\ DOMAIN loc[t] = LocFields
  BY DEF LockInv, LockTypes, ScanInv, Scan, LocShape
<1>2. CASE Continue(t)
  <2>1. pc'[t] \in {"w_exit", "w_load"}
    BY <1>1, <1>2 DEF Continue, Goto
  <2>2. DOMAIN loc'[t] = LocFields /\ loc'[t].i = 0 /\ loc'[t].max = MAX_COMBS
    BY <1>1, <1>2, Loc0Facts DEF Continue, Set
  <2>3. QED
    BY <2>1, <2>2 DEF Scan, LocShape, Copies, Copying
<1>3. CASE Break(t)
  BY <1>1, <1>3 DEF Break, Goto, Scan, LocShape, Copies, Copying, Starting
<1>4. QED
  BY <1>2, <1>3

LEMMA PrepareScans ==
  ASSUME LockInv, ScanInv, NEW t \in Threads,
         \/ BeginWrite(t) \/ Announce(t) \/ WriteInit(t) \/ LoadCurComb(t)
         \/ LoadTail(t) \/ CopyState(t) \/ RingCheck(t) \/ ReadRing(t)
         \/ HelpRing(t) \/ PickCheck(t) \/ PickTry(t)
  PROVE  Scan(t)'
<1>1. /\ pc \in [Threads -> Locations] /\ DOMAIN loc = Threads /\ curComb \in Places
      /\ Scan(t)
  BY DEF LockInv, LockTypes, ScanInv
<1> USE RedoAssumption, Loc0Facts DEF Scan, LocShape, Copies, Starting, Copying, Goto,
     Set, sharedVars, nvmVars
<1>2. CASE BeginWrite(t)
  BY <1>1, <1>2 DEF BeginWrite, Open
<1>3. CASE Announce(t)
  BY <1>1, <1>3 DEF Announce
<1>4. CASE WriteInit(t)
  BY <1>1, <1>4 DEF WriteInit
<1>5. CASE LoadCurComb(t)
  BY <1>1, <1>5 DEF LoadCurComb
<1>6. CASE LoadTail(t)
  <2>1. CASE Continue(t) \/ Break(t)
    BY <2>1, ContinueScans
  <2>2. CASE ~Continue(t) /\ ~Break(t)
    BY <1>1, <1>6, <2>2 DEF LoadTail
  <2>3. QED
    BY <2>1, <2>2
<1>7. CASE CopyState(t)
  <2>1. CASE Continue(t) \/ Break(t)
    BY <2>1, ContinueScans
  <2>2. CASE ~Continue(t) /\ ~Break(t)
    BY <1>1, <1>7, <2>2 DEF CopyState
  <2>3. QED
    BY <2>1, <2>2
<1>8. CASE RingCheck(t)
  <2>1. CASE Continue(t) \/ Break(t)
    BY <2>1, ContinueScans
  <2>2. CASE ~Continue(t) /\ ~Break(t)
    BY <1>1, <1>8, <2>2 DEF RingCheck
  <2>3. QED
    BY <2>1, <2>2
<1>9. CASE ReadRing(t)
  <2>1. CASE Continue(t) \/ Break(t)
    BY <2>1, ContinueScans
  <2>2. CASE ~Continue(t) /\ ~Break(t)
    BY <1>1, <1>9, <2>2 DEF ReadRing, AfterRing
  <2>3. QED
    BY <2>1, <2>2
<1>10. CASE HelpRing(t)
  BY <1>1, <1>10 DEF HelpRing, AfterRing, FencedCurComb
<1>11. CASE PickCheck(t)
  <2>1. CASE Continue(t) \/ Break(t)
    BY <2>1, ContinueScans
  <2>2. CASE ~Continue(t) /\ ~Break(t)
    BY <1>1, <1>11, <2>2 DEF PickCheck
  <2>3. QED
    BY <2>1, <2>2
<1>12. CASE PickTry(t)
  BY <1>1, <1>12, SMTT(60) DEF PickTry, PickNext
<1>13. QED
  BY <1>2, <1>3, <1>4, <1>5, <1>6, <1>7, <1>8, <1>9, <1>10, <1>11, <1>12

(* curComb has moved; a second time makes two commits since the start.     *)
LEMMA CopyRetryScans ==
  ASSUME LockInv, ScanInv, NEW t \in Threads, CopyRetry(t), pc[t] \in Copying,
         loc[t].cp # curComb, curComb' = curComb
  PROVE  Scan(t)'
<1>1. /\ pc \in [Threads -> Locations] /\ DOMAIN loc = Threads /\ curComb \in Places
      /\ DOMAIN loc[t] = LocFields /\ Copies(t)
  BY DEF LockInv, LockTypes, ScanInv, Scan, LocShape
<1>2. /\ DOMAIN loc'[t] = LocFields /\ loc'[t].cp = curComb /\ loc'[t].i = loc[t].i + 1
      /\ loc'[t].cinit = loc[t].cinit
  BY <1>1, Loc0Facts DEF CopyRetry
<1>3. /\ loc[t].i \in {0, 1} /\ loc[t].cinit \in Nat /\ loc[t].cp \in Places
      /\ curComb.seq >= loc[t].cinit + loc[t].i + 1
  BY <1>1 DEF Copies, Places
<1>4. pc'[t] = IF curComb.seq >= loc[t].cinit + 2 THEN "w_exit"
               ELSE IF loc[t].i = 1 THEN "c_assert_false" ELSE "c_head"
  BY <1>1 DEF CopyRetry, Goto
<1>5. \/ pc'[t] = "w_exit"
      \/ pc'[t] = "c_head" /\ loc[t].i = 0
  BY <1>1, <1>3, <1>4 DEF Places
<1>6. QED
  BY <1>1, <1>2, <1>3, <1>5 DEF Scan, LocShape, Copies, Copying, Starting

LEMMA CatchUpScans ==
  ASSUME LockInv, ScanInv, NEW t \in Threads,
         \/ BeginReplay(t) \/ ReplayNext(t) \/ CopyRedoLog(t) \/ CheckRedoLog(t)
         \/ Replayed(t) \/ CopyInit(t) \/ CopyHead(t) \/ CopyWord(t)
         \/ CopyCheck(t)
  PROVE  Scan(t)'
<1>1. /\ pc \in [Threads -> Locations] /\ DOMAIN loc = Threads /\ curComb \in Places
      /\ Scan(t)
  BY DEF LockInv, LockTypes, ScanInv
<1> USE RedoAssumption, Loc0Facts DEF Scan, LocShape, Copies, Starting, Copying, Goto,
     Set, sharedVars, nvmVars
<1>2. CASE BeginReplay(t)
  BY <1>1, <1>2 DEF BeginReplay
<1>3. CASE ReplayNext(t)
  BY <1>1, <1>3 DEF ReplayNext, ReplayDone
<1>4. CASE CopyRedoLog(t)
  BY <1>1, <1>4 DEF CopyRedoLog, Store
<1>5. CASE CheckRedoLog(t)
  BY <1>1, <1>5 DEF CheckRedoLog
<1>6. CASE Replayed(t)
  BY <1>1, <1>6 DEF Replayed, Break
<1>7. CASE CopyInit(t)
  <2>1. /\ pc'[t] = "c_head" /\ DOMAIN loc'[t] = LocFields /\ curComb' = curComb
        /\ loc'[t].cp = curComb /\ loc'[t].cinit = curComb.seq /\ loc'[t].i = 0
    BY <1>1, <1>7 DEF CopyInit
  <2>2. QED
    BY <1>1, <2>1 DEF Places
<1>8. CASE CopyHead(t)
  <2>1. CASE Break(t)
    BY <2>1, ContinueScans
  <2>2. CASE CopyRetry(t) /\ loc[t].cp # curComb
    <3>1. pc[t] \in Copying /\ curComb' = curComb
      BY <1>8 DEF CopyHead
    <3>2. QED
      BY <2>2, <3>1, CopyRetryScans
  <2>3. CASE ~Break(t) /\ ~(CopyRetry(t) /\ loc[t].cp # curComb)
    BY <1>1, <1>8, <2>3, SMTT(30) DEF CopyHead
  <2>4. QED
    BY <2>1, <2>2, <2>3
<1>9. CASE CopyWord(t)
  <2>1. /\ pc[t] = "c_copy" /\ pc'[t] = "c_check" /\ curComb' = curComb
    BY <1>1, <1>9, CopyWordFrame
  <2>2. /\ DOMAIN loc'[t] = LocFields /\ loc'[t].i = loc[t].i
        /\ loc'[t].cp = loc[t].cp /\ loc'[t].cinit = loc[t].cinit
    <3>1. PICK a : loc' = [loc EXCEPT ![t].left = @ \ {a}]
      BY <1>9, CopyWordFrame
    <3>2. QED
      BY <1>1, <3>1
  <2>3. QED
    BY <1>1, <2>1, <2>2
<1>10. CASE CopyCheck(t)
  BY <1>1, <1>10 DEF CopyCheck, CopyRetry, Copied
<1>11. QED
  BY <1>2, <1>3, <1>4, <1>5, <1>6, <1>7, <1>8, <1>9, <1>10

LEMMA HelpScans ==
  ASSUME LockInv, ScanInv, NEW t \in Threads,
         \/ Recheck(t) \/ HelpNext(t) \/ HelpProtected(t) \/ HelpRun(t)
         \/ MergeLines(t) \/ FlushLines(t) \/ FlushCopyInit(t) \/ FlushAll(t)
         \/ SetHead(t)
  PROVE  Scan(t)'
<1>1. /\ pc \in [Threads -> Locations] /\ DOMAIN loc = Threads /\ curComb \in Places
      /\ Scan(t)
  BY DEF LockInv, LockTypes, ScanInv
<1> USE RedoAssumption, Loc0Facts DEF Scan, LocShape, Copies, Starting, Copying, Goto,
     Set, sharedVars, nvmVars
<1>2. CASE Recheck(t)
  <2>1. CASE Continue(t) \/ Break(t)
    BY <2>1, ContinueScans
  <2>2. CASE ~Continue(t) /\ ~Break(t)
    BY <1>1, <1>2, <2>2 DEF Recheck
  <2>3. QED
    BY <2>1, <2>2
<1>3. CASE HelpNext(t)
  <2>1. PICK p \in {"w_merge", "w_help", "w_protect"} :
          /\ pc'[t] = p /\ pc[t] = "w_help"
          /\ p = "w_merge" \/ loc[t].i # MaxThreads
    BY <1>1, <1>3 DEF HelpNext
  <2>2. /\ DOMAIN loc'[t] = LocFields
        /\ p = "w_help" => loc'[t].i = loc[t].i + 1
        /\ p = "w_protect" => loc'[t].i = loc[t].i
    BY <1>1, <1>3, <2>1 DEF HelpNext
  <2>3. loc[t].i \in 0 .. MaxThreads
    BY <1>1, <2>1, SMTT(60)
  <2>4. QED
    BY <2>1, <2>2, <2>3, SMTT(60) DEF Threads
<1>4. CASE HelpProtected(t)
  BY <1>1, <1>4 DEF HelpProtected
<1>5. CASE HelpRun(t)
  <2>1. CASE ~Current(t)
    BY <1>1, <1>5, <2>1 DEF HelpRun
  <2>2. CASE RunRequest(t)
    <3>1. /\ pc'[t] = "w_help" /\ pc[t] = "w_run" /\ DOMAIN loc'[t] = LocFields
          /\ loc'[t].i = loc[t].i + 1
      BY <1>1, <1>5, <2>2 DEF RunRequest, HelpRun
    <3>2. loc[t].i \in Threads
      BY <1>1, <3>1
    <3>3. QED
      BY <3>1, <3>2 DEF Threads
  <2>3. QED
    BY <1>5, <2>1, <2>2 DEF HelpRun
<1>6. CASE MergeLines(t)
  <2>1. CASE Continue(t)
    BY <2>1, ContinueScans
  <2>2. CASE ~Continue(t)
    <3>1. /\ pc'[t] \in {"w_flush_copy", "w_flush"}
          /\ DOMAIN loc'[t] = LocFields
      BY <1>1, <1>6, <2>2 DEF MergeLines
    <3>2. QED
      BY <3>1
  <2>3. QED
    BY <2>1, <2>2
<1>7. CASE FlushLines(t)
  BY <1>1, <1>7 DEF FlushLines, PWBLines
<1>8. CASE FlushCopyInit(t)
  BY <1>1, <1>8 DEF FlushCopyInit
<1>9. CASE FlushAll(t)
  BY <1>1, <1>9 DEF FlushAll, Undo, Store, Break, PWBLines
<1>10. CASE SetHead(t)
  BY <1>1, <1>10 DEF SetHead
<1>11. QED
  BY <1>2, <1>3, <1>4, <1>5, <1>6, <1>7, <1>8, <1>9, <1>10

LEMMA FinishScans ==
  ASSUME LockInv, ScanInv, NEW t \in Threads,
         \/ Publish(t) \/ Withdraw(t) \/ UnlockOld(t) \/ AdvanceRead(t)
         \/ AdvanceCas(t) \/ ExitUnlock(t) \/ ExitHead(t) \/ ExitRing(t)
         \/ ExitAdvance(t) \/ ExitAdvanceCas(t) \/ FetchResult(t)
  PROVE  Scan(t)'
<1>1. /\ pc \in [Threads -> Locations] /\ DOMAIN loc = Threads /\ curComb \in Places
      /\ Scan(t)
  BY DEF LockInv, LockTypes, ScanInv
<1> USE RedoAssumption, Loc0Facts DEF Scan, LocShape, Copies, Starting, Copying, Goto,
     Set, sharedVars, nvmVars
<1>2. CASE Publish(t)
  BY <1>1, <1>2 DEF Publish, Published, Current
<1>3. CASE Withdraw(t)
  BY <1>1, <1>3 DEF Withdraw, Undo, Store, Continue
<1>4. CASE UnlockOld(t)
  BY <1>1, <1>4 DEF UnlockOld
<1>5. CASE AdvanceRead(t)
  BY <1>1, <1>5 DEF AdvanceRead, Committed, Return
<1>6. CASE AdvanceCas(t)
  BY <1>1, <1>6 DEF AdvanceCas, Committed, Return, FencedCurComb
<1>7. CASE ExitUnlock(t)
  BY <1>1, <1>7 DEF ExitUnlock
<1>8. CASE ExitHead(t)
  BY <1>1, <1>8 DEF ExitHead, FetchHead
<1>9. CASE ExitRing(t)
  BY <1>1, <1>9 DEF ExitRing
<1>10. CASE ExitAdvance(t)
  BY <1>1, <1>10 DEF ExitAdvance
<1>11. CASE ExitAdvanceCas(t)
  BY <1>1, <1>11 DEF ExitAdvanceCas, FencedCurComb
<1>12. CASE FetchResult(t)
  BY <1>1, <1>12 DEF FetchResult, Return
<1>13. QED
  BY <1>2, <1>3, <1>4, <1>5, <1>6, <1>7, <1>8, <1>9, <1>10, <1>11, <1>12

LEMMA ReadScans ==
  ASSUME LockInv, ScanInv, NEW t \in Threads,
         \/ BeginRead(t) \/ ReadEnqueue(t) \/ ReadLock(t) \/ ReadCheck(t)
         \/ ReadWord(t) \/ ReadLeave(t) \/ ReadUnlock(t) \/ ReadReturn(t)
         \/ FallbackHead(t)
  PROVE  Scan(t)'
<1>1. /\ pc \in [Threads -> Locations] /\ DOMAIN loc = Threads /\ curComb \in Places
      /\ Scan(t)
  BY DEF LockInv, LockTypes, ScanInv
<1> USE RedoAssumption, Loc0Facts DEF Scan, LocShape, Copies, Starting, Copying, Goto,
     Set, sharedVars, nvmVars
<1>2. CASE BeginRead(t)
  BY <1>1, <1>2 DEF BeginRead, Open, TryLocation
<1>3. CASE ReadEnqueue(t)
  BY <1>1, <1>3 DEF ReadEnqueue
<1>4. CASE ReadLock(t)
  <2>1. DOMAIN loc'[t] = LocFields
    BY <1>1, <1>4 DEF ReadLock, NextTry
  <2>2. pc'[t] \in {"r_check", "f_load", "r_enqueue", "r_load"}
    BY <1>1, <1>4 DEF ReadLock, NextTry, TryLocation
  <2>3. QED
    BY <2>1, <2>2
<1>5. CASE ReadCheck(t)
  BY <1>1, <1>5 DEF ReadCheck
<1>6. CASE ReadWord(t)
  BY <1>1, <1>6 DEF ReadWord
<1>7. CASE ReadLeave(t)
  <2>1. DOMAIN loc'[t] = LocFields
    BY <1>1, <1>7 DEF ReadLeave, NextTry
  <2>2. pc'[t] \in {"r_check", "f_load", "r_enqueue", "r_load"}
    BY <1>1, <1>7 DEF ReadLeave, NextTry, TryLocation
  <2>3. QED
    BY <2>1, <2>2
<1>8. CASE ReadUnlock(t)
  BY <1>1, <1>8 DEF ReadUnlock
<1>9. CASE ReadReturn(t)
  BY <1>1, <1>9 DEF ReadReturn, Return, FencedCurComb
<1>10. CASE FallbackHead(t)
  BY <1>1, <1>10 DEF FallbackHead, FetchHead, FencedCurComb
<1>11. QED
  BY <1>2, <1>3, <1>4, <1>5, <1>6, <1>7, <1>8, <1>9, <1>10

LEMMA LockStep ==
  ASSUME LockInv, ScanInv, NEW t \in Threads, ThreadStep(t)
  PROVE  LockInv'
<1>1. CASE Moves(t)
  BY <1>1, Moved
<1>2. CASE PickTry(t)
  <2>1. loc[t].i \in Combs
    BY <1>2, RedoAssumption DEF PickTry, ScanInv, Scan, LocShape, Combs
  <2>2. QED
    BY <1>2, <2>1, PickTryLocks
<1>3. CASE SetHead(t) \/ Withdraw(t) \/ UnlockOld(t)
  BY <1>3, SetHeadLocks, WithdrawLocks, UnlockOldLocks
<1>4. CASE ExitUnlock(t)
  <2>1. CASE nc[t] # NONE
    BY <1>4, <2>1, ExitUnlockLocks
  <2>2. CASE nc[t] = NONE
    <3>1. /\ pc[t] = "w_exit" /\ pc' = [pc EXCEPT ![t] = "x_load"]
          /\ UNCHANGED <<readers, curComb, cc>> /\ nc' = [nc EXCEPT ![t] = NONE]
          /\ lock' = [c \in Combs |-> IF c = nc[t] THEN "free" ELSE lock[c]]
      BY <1>4 DEF ExitUnlock, Goto, nvmVars
    <3>2. lock' = lock /\ nc' = nc
      BY <2>2, <3>1, NoneIsNoReplica DEF LockInv, LockTypes
    <3>3. "x_load" \in Locations /\ Keeps(t, "x_load")
      BY <2>2, <3>1 DEF Locations, Keeps, Without, Either
    <3>4. QED
      BY <3>1, <3>2, <3>3, PlacesFacts, MovesTo, Moved
  <2>3. QED
    BY <2>1, <2>2
<1>5. CASE Publish(t)
  <2>1. CASE Current(t)
    BY <1>5, <2>1, PublishLocks
  <2>2. CASE ~Current(t)
    <3>1. /\ pc[t] = "w_publish" /\ pc' = [pc EXCEPT ![t] = "w_lost"]
          /\ UNCHANGED <<lock, readers, nc, curComb, cc>>
      BY <1>5, <2>2 DEF Publish, Goto, volatileVars, lockVars
    <3>2. "w_lost" \in Locations /\ Keeps(t, "w_lost")
      BY <3>1 DEF Locations, Keeps, Downgraded
    <3>3. QED
      BY <3>1, <3>2, PlacesFacts, MovesTo, Moved
  <2>3. QED
    BY <2>1, <2>2
<1>6. CASE ReadLock(t) \/ ReadLeave(t) \/ ReadUnlock(t)
  BY <1>6, ReadLocks
<1>7. Prepare(t) => Moves(t) \/ PickTry(t)
  BY PrepareMoves DEF Prepare
<1>8. CatchUp(t) => Moves(t)
  BY CatchUpMoves DEF CatchUp
<1>9. Help(t) => Moves(t) \/ SetHead(t)
  BY HelpMoves DEF Help
<1>10. Finish(t) => \/ Moves(t) \/ Publish(t) \/ Withdraw(t) \/ UnlockOld(t)
                    \/ ExitUnlock(t)
  BY FinishMoves DEF Finish
<1>11. Read(t) => Moves(t) \/ ReadLock(t) \/ ReadLeave(t) \/ ReadUnlock(t)
  BY ReadMoves DEF Read
<1>12. QED
  BY <1>1, <1>2, <1>3, <1>4, <1>5, <1>6, <1>7, <1>8, <1>9, <1>10, <1>11 DEF ThreadStep

LEMMA ScanStep ==
  ASSUME LockInv, ScanInv, NEW t \in Threads, ThreadStep(t)
  PROVE  ScanInv' /\ Stays(t)
<1>1. Stays(t)
  BY PrepareStays, CatchUpStays, HelpStays, FinishStays, ReadStays
     DEF ThreadStep, Prepare, CatchUp, Help, Finish, Read
<1>2. Scan(t)'
  BY PrepareScans, CatchUpScans, HelpScans, FinishScans, ReadScans
     DEF ThreadStep, Prepare, CatchUp, Help, Finish, Read
<1>3. QED
  BY <1>1, <1>2, LockStep, StayingScan

FreshScan ==
  /\ pcur = {curComb} /\ curComb \in Places
  /\ pc = [t \in Threads |-> "idle"]
  /\ loc = [t \in Threads |-> Loc0]

LEMMA FreshScanInv == FreshScan => ScanInv
BY Loc0Facts DEF FreshScan, ScanInv, Scan, LocShape, Copies, Copying

LEMMA InitScan == Init => ScanInv
<1>1. Init => FreshScan
  BY PlacesFacts DEF Init, FreshScan
<1>2. QED
  BY <1>1, FreshScanInv

LEMMA CrashScan ==
  ASSUME ScanInv, CrashRestart
  PROVE  ScanInv'
<1>1. PICK left \in pcur : /\ curComb' = SeqTidIdx(0, 0, left.idx) /\ pcur' = {curComb'}
                           /\ Volatile(left.idx, INVALID)
  BY DEF CrashRestart
<1>2. curComb' \in Places
  BY <1>1, PlacesFacts DEF ScanInv, Places, SeqTidIdx, Ticket0
<1>3. FreshScan'
  BY <1>1, <1>2 DEF FreshScan, Volatile
<1>4. FreshScan' => ScanInv'
  BY FreshScanInv, PTL
<1>5. QED
  BY <1>3, <1>4

LEMMA Locked == Spec => [](LockInv /\ ScanInv)
<1>1. Init => LockInv /\ ScanInv
  BY InitLocks, InitScan
<1>2. LockInv /\ ScanInv /\ [Next]_vars => LockInv' /\ ScanInv'
  <2> SUFFICES ASSUME LockInv, ScanInv, [Next]_vars PROVE LockInv' /\ ScanInv'
    OBVIOUS
  <2>1. ASSUME NEW t \in Threads, ThreadStep(t) PROVE LockInv' /\ ScanInv'
    BY <2>1, LockStep, ScanStep
  <2>2. CASE CrashRestart
    BY <2>2, CrashLocks, CrashScan DEF ScanInv
  <2>3. CASE UNCHANGED vars
    <3>1. UNCHANGED <<lock, readers, pc, cc, nc, loc, curComb, pcur>>
      BY <2>3 DEF vars, sharedVars, nvmVars, volatileVars, lockVars
    <3>2. QED
      BY <3>1 DEF LockInv, LockTypes, Claimed, Held, Claim, ScanInv, Scan, LocShape, Copies
  <2>4. QED
    BY <2>1, <2>2, <2>3 DEF Next, Done
<1>3. QED
  BY <1>1, <1>2, PTL DEF Spec

-----------------------------------------------------------------------------
LEMMA Handed == LockInv => LockHandover
<1> SUFFICES ASSUME LockInv, NEW c \in Combs
             PROVE  /\ Cardinality(WriteOwners(c)) = IF lock[c] = "write" THEN 1 ELSE 0
                    /\ Cardinality(Unlockers(c)) =
                         IF lock[c] = "readonly" /\ c # curComb.idx THEN 1 ELSE 0
  BY DEF LockHandover
<1>1. \A t \in Threads : Held(t) /\ (Claim(t) = c => c # curComb.idx)
  BY DEF LockInv, Held
<1>2. lock[c] \in {"free", "write", "readonly"}
  BY DEF LockInv, LockTypes
<1>3. \A t \in WriteOwners(c) : t \in Threads /\ Claim(t) = c /\ lock[c] = "write"
  BY <1>1, NoneIsNoReplica DEF WriteOwners, Held, Claim, Downgraded
<1>4. \A t \in Unlockers(c) : /\ t \in Threads /\ Claim(t) = c
                              /\ lock[c] = "readonly" /\ c # curComb.idx
  BY <1>1, NoneIsNoReplica DEF Unlockers, Held, Claim, Downgraded
<1>5. \A t \in Threads : Claim(t) = c =>
        /\ lock[c] = "write" => t \in WriteOwners(c)
        /\ lock[c] = "readonly" => t \in Unlockers(c)
  BY <1>1, NoneIsNoReplica DEF WriteOwners, Unlockers, Held, Claim, Downgraded
<1>6. \A t, u \in Threads : Claim(t) = c /\ Claim(u) = c => t = u
  BY <1>1, NoneIsNoReplica DEF Held
<1>7. lock[c] # "free" /\ c # curComb.idx => \E t \in Threads : Claim(t) = c
  BY DEF LockInv, Claimed
<1>8. Cardinality(WriteOwners(c)) = IF lock[c] = "write" THEN 1 ELSE 0
  <2>1. CASE lock[c] = "write"
    <3>1. PICK t \in Threads : Claim(t) = c
      BY <1>7, <2>1 DEF LockInv, Claimed
    <3>2. WriteOwners(c) = {t}
      BY <1>3, <1>5, <1>6, <2>1, <3>1
    <3>3. QED
      BY <2>1, <3>2, FS_Singleton
  <2>2. CASE lock[c] # "write"
    <3>1. WriteOwners(c) = {}
      BY <1>3, <2>2
    <3>2. QED
      BY <2>2, <3>1, FS_EmptySet
  <2>3. QED
    BY <2>1, <2>2
<1>9. Cardinality(Unlockers(c)) =
        IF lock[c] = "readonly" /\ c # curComb.idx THEN 1 ELSE 0
  <2>1. CASE lock[c] = "readonly" /\ c # curComb.idx
    <3>1. PICK t \in Threads : Claim(t) = c
      BY <1>7, <2>1
    <3>2. Unlockers(c) = {t}
      BY <1>4, <1>5, <1>6, <2>1, <3>1
    <3>3. QED
      BY <2>1, <3>2, FS_Singleton
  <2>2. CASE ~(lock[c] = "readonly" /\ c # curComb.idx)
    <3>1. Unlockers(c) = {}
      BY <1>4, <2>2
    <3>2. QED
      BY <2>2, <3>1, FS_EmptySet
  <2>3. QED
    BY <2>1, <2>2
<1>10. QED
  BY <1>8, <1>9

(* A pigeonhole: of the MaxThreads replicas besides the current one, the   *)
(* other threads can hold or read no more than one each.                   *)
LEMMA Available == LockInv => ReplicaAvailable
<1> SUFFICES ASSUME LockInv, NEW t \in Threads, pc[t] \in {"w_pick", "w_try"},
                    ~\E c \in Combs : CanLock(c)
             PROVE  FALSE
  BY DEF ReplicaAvailable
<1> DEFINE Use(u) == IF pc[u] \in Sharing THEN cc[u].idx ELSE Claim(u)
           S == Combs \ {curComb.idx}
           T == Threads \ {t}
           f == [c \in S |-> CHOOSE u \in T : Use(u) = c]
<1>1. /\ \A u \in Threads : Held(u)
      /\ Claimed /\ LockTypes /\ curComb.idx \in Combs
  BY DEF LockInv, LockTypes, Places
<1>2. pc[t] \notin Sharing /\ Use(t) = NONE
  BY <1>1 DEF Held, Claim, Sharing, Without
<1>3. ASSUME NEW c \in S
      PROVE  \E u \in T : Use(u) = c
  <2>1. lock[c] # "free" \/ readers[c] # {}
    BY DEF CanLock
  <2>2. CASE lock[c] # "free"
    <3>1. PICK u \in Threads : Claim(u) = c
      BY <1>1, <2>2 DEF Claimed
    <3>2. u # t /\ pc[u] \notin Sharing
      BY <1>1, <1>2, <3>1, NoneIsNoReplica DEF Held, Claim, Sharing
    <3>3. QED
      BY <3>1, <3>2
  <2>3. CASE readers[c] # {}
    <3>1. PICK u \in Threads : u \in readers[c]
      BY <1>1, <2>3 DEF LockTypes
    <3>2. pc[u] \in Sharing /\ cc[u].idx = c
      BY <1>1, <3>1 DEF Held
    <3>3. QED
      BY <1>2, <3>2
  <2>4. QED
    BY <2>1, <2>2, <2>3
<1>4. f \in [S -> T] /\ \A c \in S : Use(f[c]) = c
  BY <1>3
<1>5. /\ IsFiniteSet(Combs) /\ Cardinality(Combs) = MaxThreads + 1
      /\ IsFiniteSet(Threads) /\ Cardinality(Threads) = MaxThreads
  BY FS_Interval, RedoAssumption DEF Combs, Threads
<1>6. /\ IsFiniteSet(S) /\ Cardinality(S) = MaxThreads
      /\ IsFiniteSet(T) /\ Cardinality(T) = MaxThreads - 1
  BY <1>1, <1>5, FS_RemoveElement, RedoAssumption
<1>7. Cardinality(T) < Cardinality(S)
  BY <1>6, RedoAssumption
<1> HIDE DEF f, S, T, Use
<1>8. PICK x, y \in S : x # y /\ f[x] = f[y]
  BY <1>4, <1>6, <1>7, FS_PigeonHole
<1>9. QED
  BY <1>4, <1>8

(* StrongTryRIRWLock in RedoOpt: every replica lock that is taken has one  *)
(* thread that will release it, although it is often another than took it, *)
(* and getNewComb always has a free replica to find.                       *)
THEOREM Locks == Spec => []ReplicaLocks
<1>1. LockInv => ReplicaLocks
  BY Handed, Available DEF ReplicaLocks
<1>2. QED
  BY <1>1, Locked, PTL

(* makeCopy: assert(false) at its end is never reached.                    *)
THEOREM NoThirdCopy == Spec => []TwoCopiesSuffice
<1>1. ScanInv => TwoCopiesSuffice
  BY DEF ScanInv, Scan, TwoCopiesSuffice
<1>2. QED
  BY <1>1, Locked, PTL

-----------------------------------------------------------------------------
(***************************************************************************)
(* Layer 3: what was published stays as it is, whatever the heads of the   *)
(* other replicas say.                                                     *)
(***************************************************************************)
(* Commit s is the one published as number s, and the last one is where    *)
(* curComb says.                                                           *)
Commits ==
  /\ \E S : hist \in Seq(S)
  /\ Len(hist) = curComb.seq + 1
  /\ \A s \in CommitSeqs : Commit(s).tk.seq = s
  /\ mem[curComb.idx] = Commit(curComb.seq).mem
  /\ head[curComb.idx] = Commit(curComb.seq).tk

Durables ==
  /\ \A v \in pcur : v.seq \in CommitSeqs
  /\ RingImpliesDurable

Domains ==
  /\ DOMAIN mem = Combs /\ DOMAIN head = Combs
  /\ DOMAIN ring = 0 .. RINGSIZE - 1 /\ DOMAIN lastIdx = Threads

(* What a thread goes by while it advances the ring, takes back a          *)
(* replica, or reads one.                                                  *)
Uses(t) ==
  /\ cc[t].seq <= curComb.seq
  /\ pc[t] \in {"w_state", "w_ring", "w_ring_load", "w_help_ring"} =>
       loc[t].lt.seq = cc[t].seq
  /\ pc[t] \in {"w_unlock", "w_advance", "w_advance_cas"} =>
       cc[t].seq < curComb.seq
  /\ pc[t] \in {"x_advance", "x_advance_cas"} => loc[t].tk.seq = cc[t].seq
  /\ pc[t] \in Downgraded => head[nc[t]] = NewTicket(t)
  /\ pc[t] = "r_run" =>
       /\ loc[t].tk.seq \in CommitSeqs
       /\ mem[cc[t].idx] = Commit(loc[t].tk.seq).mem
       /\ \A u \in Threads : nc[u] # cc[t].idx

KeptInv == Commits /\ Durables /\ Domains /\ \A t \in Threads : Uses(t)

(* Every step but a successful Publish: it writes to the thread's own      *)
(* replica only, and to the ring what is durable.                          *)
OwnOnly(t) ==
  /\ UNCHANGED <<hist, curComb>> /\ pcur' \subseteq pcur
  /\ DOMAIN mem' = DOMAIN mem /\ DOMAIN head' = DOMAIN head
  /\ \A c \in Combs : c # nc[t] => mem'[c] = mem[c] /\ head'[c] = head[c]
  /\ DOMAIN lastIdx' = DOMAIN lastIdx
  /\ \A u \in Threads \ {t} : lastIdx'[u] = lastIdx[u]
  /\ nc'[t] = NONE \/ nc'[t] = nc[t] \/ readers[nc'[t]] = {}

(* Where the ring is left alone, or advanced behind a fence.               *)
RingKept == ring' = ring
RingSet(s) ==
  /\ s \in CommitSeqs /\ \A v \in pcur' : v.seq >= s
  /\ DOMAIN ring' = DOMAIN ring
  /\ \A i \in DOMAIN ring : ring'[i] = ring[i] \/ ring'[i].seq = s

LEMMA OthersUse ==
  ASSUME LockInv, KeptInv, NEW t \in Threads, NEW u \in Threads \ {t}, Stays(t),
         OwnOnly(t)
  PROVE  Uses(u)'
<1>1. /\ pc'[u] = pc[u] /\ cc'[u] = cc[u] /\ nc'[u] = nc[u] /\ loc'[u] = loc[u]
      /\ lastIdx'[u] = lastIdx[u] /\ UNCHANGED <<hist, curComb>>
  BY DEF Stays, OwnOnly
<1>2. Uses(u) /\ Held(u) /\ cc[u].idx \in Combs
  BY DEF KeptInv, LockInv, LockTypes, Places
<1>3. ASSUME pc[u] \in Downgraded
      PROVE  head'[nc[u]] = head[nc[u]]
  <2>1. Claim(u) = nc[u] /\ nc[u] # NONE /\ nc[u] \in Combs
    BY <1>2, <1>3 DEF Held, Claim, Downgraded, LockInv, LockTypes
  <2>2. nc[t] # NONE => Claim(t) = nc[t]
    BY DEF LockInv, Held, Claim
  <2>3. nc[u] # nc[t]
    BY <1>2, <2>1, <2>2 DEF Held
  <2>4. QED
    BY <2>1, <2>3 DEF OwnOnly
<1>4. ASSUME pc[u] = "r_run"
      PROVE  /\ mem'[cc[u].idx] = mem[cc[u].idx]
             /\ \A w \in Threads : nc'[w] # cc[u].idx
  <2>1. u \in readers[cc[u].idx] /\ \A w \in Threads : nc[w] # cc[u].idx
    BY <1>2, <1>4 DEF Held, Sharing, Uses
  <2>2. nc'[t] # cc[u].idx
    BY <1>2, <2>1, NoneIsNoReplica DEF OwnOnly
  <2>3. \A w \in Threads : nc'[w] # cc[u].idx
    BY <2>1, <2>2 DEF Stays
  <2>4. QED
    BY <1>2, <2>1, <2>3 DEF OwnOnly
<1>5. QED
  BY <1>1, <1>2, <1>3, <1>4 DEF Uses, NewTicket, CommitSeqs, Commit

LEMMA OwnKept ==
  ASSUME LockInv, KeptInv, NEW t \in Threads, Stays(t), OwnOnly(t), Uses(t)',
         RingKept \/ \E s \in CommitSeqs : RingSet(s)
  PROVE  KeptInv'
<1>1. curComb.idx \in Combs /\ nc[t] # curComb.idx
  <2>1. Held(t) /\ curComb.idx \in Combs
    BY DEF LockInv, LockTypes, Places
  <2>2. QED
    BY <2>1, NoneIsNoReplica DEF Held, Claim
<1>2. Commits'
  BY <1>1 DEF KeptInv, Commits, OwnOnly, CommitSeqs, Commit
<1>3. Domains'
  BY DEF KeptInv, Domains, OwnOnly, RingKept, RingSet
<1>4. Durables'
  <2>1. CommitSeqs' = CommitSeqs /\ pcur' \subseteq pcur
    BY DEF OwnOnly, CommitSeqs
  <2>2. \A i \in 0 .. RINGSIZE - 1 :
          /\ ring'[i].seq \in CommitSeqs
          /\ \A v \in pcur' : v.seq >= ring'[i].seq
    BY <2>1 DEF KeptInv, Durables, RingImpliesDurable, Domains, RingKept, RingSet
  <2>3. QED
    BY <2>1, <2>2 DEF KeptInv, Durables, RingImpliesDurable
<1>5. \A u \in Threads : Uses(u)'
  BY OthersUse
<1>6. QED
  BY <1>2, <1>3, <1>4, <1>5 DEF KeptInv

Keeping(t) == OwnOnly(t) /\ Uses(t)' /\ (RingKept \/ \E s \in CommitSeqs : RingSet(s))

LEMMA Kept ==
  ASSUME LockInv, ScanInv, KeptInv, NEW t \in Threads
  PROVE  /\ pc \in [Threads -> Locations] /\ nc \in [Threads -> Combs \union {NONE}]
         /\ cc \in [Threads -> Places] /\ DOMAIN loc = Threads /\ DOMAIN loc[t] = LocFields
         /\ DOMAIN mem = Combs /\ DOMAIN head = Combs /\ DOMAIN lastIdx = Threads
         /\ curComb \in Places /\ curComb.seq \in Nat /\ cc[t].seq \in Nat
         /\ CommitSeqs = 0 .. curComb.seq /\ cc[t].idx \in Combs
         /\ Commit(curComb.seq).tk.seq = curComb.seq
         /\ head[curComb.idx].seq = curComb.seq
         /\ Uses(t) /\ Held(t)
<1>1. curComb \in Places /\ curComb.seq \in Nat /\ Len(hist) = curComb.seq + 1
  BY DEF LockInv, LockTypes, Places, KeptInv, Commits
<1>2. CommitSeqs = 0 .. curComb.seq
  BY <1>1 DEF CommitSeqs
<1>3. Commit(curComb.seq).tk.seq = curComb.seq /\ head[curComb.idx].seq = curComb.seq
  BY <1>1, <1>2 DEF KeptInv, Commits
<1>4. QED
  BY <1>1, <1>2, <1>3 DEF LockInv, LockTypes, ScanInv, Scan, LocShape, KeptInv, Domains, Places

LEMMA CurrentUnwritten ==
  ASSUME LockInv
  PROVE  \A u \in Threads : nc[u] # curComb.idx
<1>1. curComb.idx \in Combs
  BY DEF LockInv, LockTypes, Places
<1>2. QED
  BY <1>1, NoneIsNoReplica DEF LockInv, Held, Claim

LEMMA ReturnedUse ==
  ASSUME LockInv, ScanInv, KeptInv, NEW t \in Threads, \E val, at : Return(t, val, at)
  PROVE  UNCHANGED hist /\ (curComb' = curComb => Uses(t)')
<1>1. UNCHANGED hist /\ pc'[t] = "idle" /\ cc'[t] = Ticket0
  BY Kept DEF Return, Goto
<1>2. Ticket0.seq = 0
  BY DEF Ticket0, SeqTidIdx
<1>3. QED
  BY <1>1, <1>2, Kept DEF Uses, Downgraded

LEMMA CommittedUse ==
  ASSUME LockInv, ScanInv, KeptInv, NEW t \in Threads, Committed(t)
  PROVE  /\ UNCHANGED hist /\ (curComb' = curComb => Uses(t)')
         /\ DOMAIN lastIdx' = DOMAIN lastIdx
         /\ \A u \in Threads \ {t} : lastIdx'[u] = lastIdx[u]
<1>1. \E val, at : Return(t, val, at)
  BY Zenon DEF Committed
<1>2. lastIdx' = [lastIdx EXCEPT ![t] = (@ + 1) % STATESSIZE]
  BY DEF Committed
<1>3. QED
  BY <1>1, <1>2, Kept, ReturnedUse

LEMMA RingCasSets ==
  ASSUME NEW s \in CommitSeqs, NEW old, NEW new, new.seq = s, FencedCurComb(s),
         RingCas(s, old, new)
  PROVE  RingSet(s)
BY DEF FencedCurComb, RingCas, RingSet

LEMMA PrepareKeeps ==
  ASSUME LockInv, ScanInv, KeptInv, NEW t \in Threads,
         \/ BeginWrite(t) \/ Announce(t) \/ WriteInit(t) \/ LoadCurComb(t)
         \/ LoadTail(t) \/ CopyState(t) \/ RingCheck(t) \/ ReadRing(t)
         \/ PickCheck(t) \/ PickTry(t)
  PROVE  Keeping(t)
<1> USE Kept, Loc0Facts DEF Keeping, OwnOnly, RingKept, Uses, Downgraded, Goto, Set, sharedVars,
        nvmVars, volatileVars, lockVars, combVars, stateVars, reqVars, ghostVars
<1>1. CASE BeginWrite(t)
  BY <1>1 DEF BeginWrite, Open
<1>2. CASE Announce(t)
  BY <1>2 DEF Announce
<1>3. CASE WriteInit(t)
  BY <1>3 DEF WriteInit
<1>4. CASE LoadCurComb(t)
  BY <1>4 DEF LoadCurComb
<1>5. CASE LoadTail(t)
  BY <1>5 DEF LoadTail, Break, Continue, Current
<1>6. CASE CopyState(t)
  BY <1>6 DEF CopyState, Break, Continue
<1>7. CASE RingCheck(t)
  BY <1>7 DEF RingCheck, Continue
<1>8. CASE ReadRing(t)
  BY <1>8 DEF ReadRing, Continue, AfterRing
<1>9. CASE PickCheck(t)
  BY <1>9 DEF PickCheck, Continue
<1>10. CASE PickTry(t)
  BY <1>10 DEF PickTry, PickNext, CanLock
<1>11. QED
  BY <1>1, <1>2, <1>3, <1>4, <1>5, <1>6, <1>7, <1>8, <1>9, <1>10

LEMMA CatchUpKeeps ==
  ASSUME LockInv, ScanInv, KeptInv, NEW t \in Threads,
         \/ BeginReplay(t) \/ ReplayNext(t) \/ CopyRedoLog(t)
         \/ CheckRedoLog(t) \/ Replayed(t) \/ CopyInit(t) \/ CopyHead(t)
         \/ CopyWord(t) \/ CopyCheck(t)
  PROVE  Keeping(t)
<1> USE Kept, Loc0Facts DEF Keeping, OwnOnly, RingKept, Uses, Downgraded, Goto, Set, sharedVars,
        nvmVars, volatileVars, lockVars, combVars, stateVars, reqVars, ghostVars
<1>1. CASE BeginReplay(t)
  BY <1>1 DEF BeginReplay
<1>2. CASE ReplayNext(t)
  BY <1>2 DEF ReplayNext, ReplayDone
<1>3. CASE CopyRedoLog(t)
  BY <1>3 DEF CopyRedoLog, Store
<1>4. CASE CheckRedoLog(t)
  BY <1>4 DEF CheckRedoLog
<1>5. CASE Replayed(t)
  BY <1>5 DEF Replayed, Break
<1>6. CASE CopyInit(t)
  BY <1>6 DEF CopyInit
<1>7. CASE CopyHead(t)
  BY <1>7 DEF CopyHead, CopyRetry, Break
<1>8. CASE CopyWord(t)
  BY <1>8 DEF CopyWord
<1>9. CASE CopyCheck(t)
  BY <1>9 DEF CopyCheck, CopyRetry, Copied
<1>10. QED
  BY <1>1, <1>2, <1>3, <1>4, <1>5, <1>6, <1>7, <1>8, <1>9

LEMMA HelpKeeps ==
  ASSUME LockInv, ScanInv, KeptInv, NEW t \in Threads,
         \/ Recheck(t) \/ HelpNext(t) \/ HelpProtected(t) \/ MergeLines(t)
         \/ FlushLines(t) \/ FlushCopyInit(t) \/ FlushAll(t) \/ SetHead(t)
  PROVE  Keeping(t)
<1> USE Kept, Loc0Facts DEF Keeping, OwnOnly, RingKept, Uses, Downgraded, Goto, Set, sharedVars,
        nvmVars, volatileVars, lockVars, combVars, stateVars, reqVars, ghostVars
<1>1. CASE Recheck(t)
  BY <1>1 DEF Recheck, Continue
<1>2. CASE HelpNext(t)
  BY <1>2 DEF HelpNext
<1>3. CASE HelpProtected(t)
  BY <1>3 DEF HelpProtected
<1>4. CASE MergeLines(t)
  BY <1>4 DEF MergeLines, Continue, Undo, Store
<1>5. CASE FlushLines(t)
  BY <1>5 DEF FlushLines, PWBLines
<1>6. CASE FlushCopyInit(t)
  BY <1>6 DEF FlushCopyInit
<1>7. CASE FlushAll(t)
  BY <1>7 DEF FlushAll, Undo, Store, Break, PWBLines
<1>8. CASE SetHead(t)
  <2>1. nc[t] \in Combs
    BY <1>8 DEF SetHead, Held, Filling, Flushing
  <2>2. /\ head' = [head EXCEPT ![nc[t]] = NewTicket(t)] /\ pc'[t] = "w_publish"
        /\ UNCHANGED <<mem, curComb, pcur, lastIdx, cc, nc, ring, hist>>
    BY <1>8 DEF SetHead
  <2>3. NewTicket(t)' = NewTicket(t) /\ head'[nc'[t]] = NewTicket(t)
    BY <2>1, <2>2 DEF NewTicket
  <2>4. QED
    BY <2>2, <2>3
<1>9. QED
  BY <1>1, <1>2, <1>3, <1>4, <1>5, <1>6, <1>7, <1>8

LEMMA FinishKeeps ==
  ASSUME LockInv, ScanInv, KeptInv, NEW t \in Threads,
         \/ Withdraw(t) \/ UnlockOld(t) \/ AdvanceRead(t) \/ ExitUnlock(t)
         \/ ExitHead(t) \/ ExitRing(t) \/ ExitAdvance(t) \/ FetchResult(t)
  PROVE  Keeping(t)
<1> USE Kept, Loc0Facts DEF Keeping, OwnOnly, RingKept, Uses, Downgraded, Goto, Set, sharedVars,
        nvmVars, volatileVars, lockVars, combVars, stateVars, reqVars, ghostVars
<1>1. CASE Withdraw(t)
  BY <1>1 DEF Withdraw, Undo, Store, Continue
<1>2. CASE UnlockOld(t)
  BY <1>2 DEF UnlockOld
<1>3. CASE AdvanceRead(t)
  <2>1. CASE ring[Slot(cc[t].seq + 1)].seq < cc[t].seq + 1
    BY <1>3, <2>1 DEF AdvanceRead
  <2>2. CASE ~(ring[Slot(cc[t].seq + 1)].seq < cc[t].seq + 1)
    <3>1. Committed(t)
      BY <1>3, <2>2, Zenon DEF AdvanceRead
    <3>2. UNCHANGED <<mem, curComb, pcur, head, nc, ring>>
      BY <1>3 DEF AdvanceRead
    <3>3. QED
      BY <3>1, <3>2, CommittedUse
  <2>3. QED
    BY <2>1, <2>2
<1>4. CASE ExitUnlock(t)
  BY <1>4 DEF ExitUnlock
<1>5. CASE ExitHead(t)
  BY <1>5 DEF ExitHead, FetchHead
<1>6. CASE ExitRing(t)
  BY <1>6 DEF ExitRing
<1>7. CASE ExitAdvance(t)
  BY <1>7 DEF ExitAdvance
<1>8. CASE FetchResult(t)
  <2>1. \E val, at : Return(t, val, at)
    BY <1>8, Zenon DEF FetchResult
  <2>2. UNCHANGED <<mem, curComb, pcur, head, nc, ring, lastIdx>>
    BY <1>8 DEF FetchResult
  <2>3. QED
    BY <2>1, <2>2, ReturnedUse
<1>9. QED
  BY <1>1, <1>2, <1>3, <1>4, <1>5, <1>6, <1>7, <1>8

LEMMA ReadKeeps ==
  ASSUME LockInv, ScanInv, KeptInv, NEW t \in Threads,
         \/ BeginRead(t) \/ ReadEnqueue(t) \/ ReadLock(t) \/ ReadCheck(t)
         \/ ReadWord(t) \/ ReadLeave(t) \/ ReadUnlock(t) \/ ReadReturn(t)
         \/ FallbackHead(t)
  PROVE  Keeping(t)
<1> USE Kept, Loc0Facts DEF Keeping, OwnOnly, RingKept, Uses, Downgraded, Goto, Set, sharedVars,
        nvmVars, volatileVars, lockVars, combVars, stateVars, reqVars, ghostVars
<1>1. CASE BeginRead(t)
  BY <1>1 DEF BeginRead, Open, TryLocation
<1>2. CASE ReadEnqueue(t)
  BY <1>2 DEF ReadEnqueue
<1>3. CASE ReadLock(t)
  BY <1>3 DEF ReadLock, NextTry, TryLocation
<1>4. CASE ReadCheck(t)
  <2>1. CASE Current(t) /\ head[cc[t].idx].seq = cc[t].seq
    <3>1. /\ cc[t] = curComb /\ mem[cc[t].idx] = Commit(cc[t].seq).mem
          /\ \A u \in Threads : nc[u] # cc[t].idx
      BY <2>1, CurrentUnwritten DEF Current, KeptInv, Commits
    <3>2. /\ loc'[t].tk.seq = cc[t].seq /\ pc'[t] = "r_run"
          /\ UNCHANGED <<sharedVars, cc, nc>>
      BY <1>4, <2>1 DEF ReadCheck
    <3>3. loc'[t].tk.seq \in CommitSeqs
      BY <3>1, <3>2
    <3>4. Uses(t)'
      BY <3>1, <3>2, <3>3 DEF CommitSeqs, Commit
    <3>5. QED
      BY <3>2, <3>4
  <2>2. CASE ~(Current(t) /\ head[cc[t].idx].seq = cc[t].seq)
    BY <1>4, <2>2 DEF ReadCheck
  <2>3. QED
    BY <2>1, <2>2
<1>5. CASE ReadWord(t)
  <2>1. /\ UNCHANGED <<sharedVars, cc, nc>> /\ loc'[t].tk = loc[t].tk
        /\ pc'[t] \in {"r_unlock", "r_run"} /\ pc[t] = "r_run"
    BY <1>5 DEF ReadWord
  <2>2. Uses(t)'
    BY <2>1 DEF CommitSeqs, Commit
  <2>3. QED
    BY <2>1, <2>2
<1>6. CASE ReadLeave(t)
  BY <1>6 DEF ReadLeave, NextTry, TryLocation
<1>7. CASE ReadUnlock(t)
  BY <1>7 DEF ReadUnlock
<1>8. CASE ReadReturn(t)
  <2>1. \E val, at : Return(t, val, at)
    BY <1>8, Zenon DEF ReadReturn
  <2>2. UNCHANGED <<mem, curComb, head, nc, ring, lastIdx>> /\ pcur' \subseteq pcur
    BY <1>8 DEF ReadReturn, FencedCurComb
  <2>3. QED
    BY <2>1, <2>2, ReturnedUse
<1>9. CASE FallbackHead(t)
  BY <1>9 DEF FallbackHead, FetchHead, FencedCurComb
<1>10. QED
  BY <1>1, <1>2, <1>3, <1>4, <1>5, <1>6, <1>7, <1>8, <1>9

LEMMA RingKeeps ==
  ASSUME LockInv, ScanInv, KeptInv, NEW t \in Threads,
         HelpRing(t) \/ AdvanceCas(t) \/ ExitAdvanceCas(t)
  PROVE  Keeping(t)
<1> USE Kept, Loc0Facts DEF Keeping, OwnOnly, Goto, Set, lockVars, combVars, stateVars, reqVars,
        ghostVars
<1>1. CASE HelpRing(t)
  <2>1. /\ pc[t] = "w_help_ring" /\ FencedCurComb(cc[t].seq)
        /\ RingCas(cc[t].seq, loc[t].rt, loc[t].lt)
        /\ pc'[t] \in {"w_pick", "w_replay"}
        /\ UNCHANGED <<head, lastIdx, cc, nc, hist>>
    BY <1>1 DEF HelpRing, AfterRing
  <2>2. cc[t].seq \in CommitSeqs /\ loc[t].lt.seq = cc[t].seq
    BY <2>1 DEF Uses
  <2>3. RingSet(cc[t].seq)
    BY <2>1, <2>2, RingCasSets
  <2>4. QED
    BY <2>1, <2>2, <2>3 DEF FencedCurComb, Uses, Downgraded
<1>2. CASE AdvanceCas(t)
  <2>1. /\ pc[t] = "w_advance_cas" /\ FencedCurComb(cc[t].seq + 1)
        /\ RingCas(cc[t].seq + 1, loc[t].rt, NewTicket(t)) /\ Committed(t)
        /\ UNCHANGED <<head, nc>>
    BY <1>2, Zenon DEF AdvanceCas, combVars
  <2>2. cc[t].seq + 1 \in CommitSeqs /\ NewTicket(t).seq = cc[t].seq + 1
    BY <2>1 DEF Uses, NewTicket, SeqTidIdx
  <2>3. RingSet(cc[t].seq + 1)
    BY <2>1, <2>2, RingCasSets
  <2>4. QED
    BY <2>1, <2>2, <2>3, CommittedUse DEF FencedCurComb
<1>3. CASE ExitAdvanceCas(t)
  <2>1. /\ pc[t] = "x_advance_cas" /\ FencedCurComb(cc[t].seq)
        /\ RingCas(cc[t].seq, loc[t].rt, loc[t].tk)
        /\ pc'[t] = "x_result"
        /\ UNCHANGED <<head, lastIdx, cc, nc, hist>>
    BY <1>3 DEF ExitAdvanceCas
  <2>2. cc[t].seq \in CommitSeqs /\ loc[t].tk.seq = cc[t].seq
    BY <2>1 DEF Uses
  <2>3. RingSet(cc[t].seq)
    BY <2>1, <2>2, RingCasSets
  <2>4. QED
    BY <2>1, <2>2, <2>3 DEF FencedCurComb, Uses, Downgraded
<1>4. QED
  BY <1>1, <1>2, <1>3

LEMMA RunKeeps ==
  ASSUME LockInv, ScanInv, KeptInv, NEW t \in Threads, HelpRun(t)
  PROVE  Keeping(t)
<1> USE Kept DEF Keeping, OwnOnly, RingKept, Uses, Downgraded, Goto, nvmVars, lockVars, combVars,
        reqVars, ghostVars
<1>1. UNCHANGED <<head, lastIdx, cc, nc, hist, ring>>
  BY Zenon DEF HelpRun, combVars, ghostVars
<1>2. CASE ~Current(t)
  BY <1>1, <1>2 DEF HelpRun
<1>3. CASE Current(t)
  <2>1. RunRequest(t)
    BY <1>3, Zenon DEF HelpRun
  <2>2. UNCHANGED <<curComb, pcur>> /\ pc'[t] = "w_help"
    BY <2>1, RunRequestFrame
  <2>3. PICK words : mem' = [mem EXCEPT ![nc[t]] = words]
    BY <2>1, Zenon DEF RunRequest, Store
  <2>4. QED
    BY <1>1, <2>2, <2>3
<1>4. QED
  BY <1>2, <1>3

LEMMA LostKeeps ==
  ASSUME LockInv, ScanInv, KeptInv, NEW t \in Threads, Publish(t), ~Current(t)
  PROVE  Keeping(t)
<1>1. /\ pc[t] = "w_publish" /\ pc'[t] = "w_lost" /\ UNCHANGED <<cc, nc, lastIdx, hist>>
      /\ UNCHANGED <<curComb, pcur, mem, head, ring>>
  BY Kept DEF Publish, Goto, volatileVars, combVars, stateVars, ghostVars
<1>2. QED
  BY <1>1, Kept DEF Keeping, OwnOnly, RingKept, Uses, Downgraded, NewTicket

LEMMA Appended ==
  ASSUME NEW S, NEW s \in Seq(S), NEW e
  PROVE  /\ \E T : Append(s, e) \in Seq(T)
         /\ Len(Append(s, e)) = Len(s) + 1
         /\ \A i \in 1 .. Len(s) : Append(s, e)[i] = s[i]
         /\ Append(s, e)[Len(s) + 1] = e
<1> DEFINE T == S \union {e}
<1>1. s \in Seq(T) /\ e \in T
  OBVIOUS
<1> HIDE DEF T
<1>2. Append(s, e) \in Seq(T)
  BY <1>1
<1>3. QED
  BY <1>1, <1>2

LEMMA PublishedKeeps ==
  ASSUME LockInv, ScanInv, KeptInv, NEW t \in Threads, Publish(t), Current(t)
  PROVE  KeptInv'
<1> DEFINE new == SeqTidIdx(cc[t].seq + 1, t, nc[t])
           e == [mem |-> mem[nc[t]], tk |-> NewTicket(t), applied |-> NewState(t).applied]
<1>1. /\ pc[t] = "w_publish" /\ curComb' = new /\ pcur' = pcur \union {new}
      /\ hist' = Append(hist, e) /\ nc' = [nc EXCEPT ![t] = NONE]
      /\ pc' = [pc EXCEPT ![t] = "w_unlock"]
      /\ UNCHANGED <<mem, head, ring, lastIdx, cc, loc>>
  BY DEF Publish, Published, RecordCommit, Goto, volatileVars, combVars, stateVars
<1>2. /\ new.seq = curComb.seq + 1 /\ new.idx = nc[t]
      /\ NewTicket(t).seq = curComb.seq + 1 /\ cc[t] = curComb /\ curComb.seq \in Nat
  BY Kept DEF Current, NewTicket, SeqTidIdx
<1>3. e.mem = mem[nc[t]] /\ e.tk = NewTicket(t)
  OBVIOUS
<1>4. PICK S : hist \in Seq(S)
  BY DEF KeptInv, Commits
<1>5. Len(hist) = curComb.seq + 1
  BY DEF KeptInv, Commits
<1> HIDE DEF new, e
<1>6. PICK T : Append(hist, e) \in Seq(T)
  BY <1>4, Appended
<1>7. /\ hist' \in Seq(T) /\ Len(hist') = curComb.seq + 2
      /\ \A i \in 1 .. curComb.seq + 1 : hist'[i] = hist[i]
      /\ hist'[curComb.seq + 2] = e
  <2>1. /\ Len(Append(hist, e)) = Len(hist) + 1
        /\ \A i \in 1 .. Len(hist) : Append(hist, e)[i] = hist[i]
        /\ Append(hist, e)[Len(hist) + 1] = e
    BY <1>4, Appended
  <2>2. QED
    BY <1>1, <1>2, <1>5, <1>6, <2>1
<1>8. /\ CommitSeqs = 0 .. curComb.seq /\ CommitSeqs' = 0 .. curComb.seq + 1
      /\ \A s \in CommitSeqs : hist'[s + 1] = hist[s + 1]
  <2>1. Len(hist) - 1 = curComb.seq /\ Len(hist') - 1 = curComb.seq + 1
    BY <1>2, <1>5, <1>7
  <2>2. CommitSeqs = 0 .. curComb.seq /\ CommitSeqs' = 0 .. curComb.seq + 1
    BY <2>1 DEF CommitSeqs
  <2>3. \A s \in 0 .. curComb.seq : s + 1 \in 1 .. curComb.seq + 1
    BY <1>2
  <2>4. QED
    BY <1>7, <2>2, <2>3
<1>9. Commits'
  <2>1. head[nc[t]] = NewTicket(t)
    BY <1>1, Kept DEF Uses, Downgraded
  <2>2. curComb'.seq = curComb.seq + 1 /\ curComb'.idx = nc[t]
    BY <1>1, <1>2
  <2>3. \A s \in CommitSeqs' : hist'[s + 1].tk.seq = s
    <3>1. \A s \in CommitSeqs : hist[s + 1].tk.seq = s
      BY DEF KeptInv, Commits, Commit
    <3>2. hist'[curComb.seq + 1 + 1].tk.seq = curComb.seq + 1
      BY <1>2, <1>3, <1>7
    <3>3. \A s \in CommitSeqs' : s \in CommitSeqs \/ s = curComb.seq + 1
      BY <1>2, <1>8
    <3>4. QED
      BY <1>8, <3>1, <3>2, <3>3
  <2>4. /\ mem'[curComb'.idx] = hist'[curComb'.seq + 1].mem
        /\ head'[curComb'.idx] = hist'[curComb'.seq + 1].tk
    BY <1>1, <1>2, <1>3, <1>7, <2>1, <2>2
  <2>5. Len(hist') = curComb'.seq + 1 /\ \E U : hist' \in Seq(U)
    BY <1>2, <1>7, <2>2
  <2>6. QED
    BY <2>3, <2>4, <2>5 DEF Commits, Commit
<1>10. Durables'
  BY <1>1, <1>2, <1>8 DEF KeptInv, Durables, RingImpliesDurable
<1>11. Domains'
  BY <1>1 DEF KeptInv, Domains
<1>12. ASSUME NEW u \in Threads
       PROVE  Uses(u)'
  <2>1. Uses(u) /\ cc[u] \in Places
    BY DEF KeptInv, LockInv, LockTypes
  <2>2. cc[u].seq <= curComb'.seq /\ (u = t => cc[u].seq < curComb'.seq)
    BY <1>1, <1>2, <2>1 DEF Uses, Places
  <2>3. CASE u = t
    BY <1>1, <2>2, <2>3, Kept DEF Uses, Downgraded
  <2>4. CASE u # t
    <3>1. /\ pc'[u] = pc[u] /\ nc'[u] = nc[u] /\ NewTicket(u)' = NewTicket(u)
          /\ UNCHANGED <<cc, loc, mem, head>>
      BY <1>1, <2>4, Kept DEF NewTicket
    <3>2. ASSUME pc[u] = "r_run"
          PROVE  /\ loc[u].tk.seq \in CommitSeqs'
                 /\ mem[cc[u].idx] = hist'[loc[u].tk.seq + 1].mem
                 /\ \A w \in Threads : nc'[w] # cc[u].idx
      <4>1. /\ loc[u].tk.seq \in CommitSeqs
            /\ mem[cc[u].idx] = hist[loc[u].tk.seq + 1].mem
            /\ cc[u].idx \in Combs /\ \A w \in Threads : nc[w] # cc[u].idx
        BY <2>1, <3>2 DEF Uses, Commit, Places
      <4>2. CommitSeqs \subseteq CommitSeqs'
        BY <1>2, <1>8
      <4>3. \A w \in Threads : nc'[w] # cc[u].idx
        BY <1>1, <4>1, NoneIsNoReplica, Kept
      <4>4. QED
        BY <1>8, <4>1, <4>2, <4>3
    <3>3. cc[u].seq < curComb.seq => cc[u].seq < curComb'.seq
      BY <1>1, <1>2, <2>1 DEF Places
    <3>4. QED
      BY <2>1, <2>2, <3>1, <3>2, <3>3 DEF Uses, Commit
  <2>5. QED
    BY <2>3, <2>4
<1>13. QED
  BY <1>9, <1>10, <1>11, <1>12 DEF KeptInv

FreshFile ==
  /\ curComb = Ticket0 \/ \E c \in Combs : curComb = SeqTidIdx(0, 0, c)
  /\ pcur = {curComb}
  /\ DOMAIN mem = Combs /\ DOMAIN head = Combs /\ DOMAIN lastIdx = Threads
  /\ head[curComb.idx] = Ticket0
  /\ ring = [s \in 0 .. RINGSIZE - 1 |-> Ticket0]
  /\ pc = [t \in Threads |-> "idle"]
  /\ cc = [t \in Threads |-> Ticket0]
  /\ hist = <<[mem |-> mem[curComb.idx], tk |-> Ticket0, applied |-> State0.applied]>>

LEMMA FreshKeptInv == FreshFile => KeptInv
<1> SUFFICES ASSUME FreshFile PROVE KeptInv
  OBVIOUS
<1> DEFINE e == [mem |-> mem[curComb.idx], tk |-> Ticket0, applied |-> State0.applied]
<1>1. Ticket0.seq = 0 /\ curComb.seq = 0
  BY DEF FreshFile, Ticket0, SeqTidIdx
<1>2. e.mem = mem[curComb.idx] /\ e.tk = Ticket0 /\ hist = <<e>>
  BY DEF FreshFile
<1> HIDE DEF e
<1>3. /\ \E S : hist \in Seq(S)
      /\ Len(hist) = 1 /\ CommitSeqs = {0} /\ Commit(0) = e
  <2>1. hist \in Seq({e}) /\ Len(hist) = 1 /\ hist[1] = e
    BY <1>2
  <2>2. QED
    BY <2>1 DEF CommitSeqs, Commit
<1>4. Commits
  <2>1. head[curComb.idx] = Ticket0
    BY DEF FreshFile
  <2>2. QED
    BY <1>1, <1>2, <1>3, <2>1 DEF Commits
<1>5. Durables
  BY <1>1, <1>3 DEF Durables, RingImpliesDurable, FreshFile
<1>6. Domains /\ \A t \in Threads : Uses(t)
  BY <1>1 DEF Domains, Uses, Downgraded, FreshFile
<1>7. QED
  BY <1>4, <1>5, <1>6 DEF KeptInv

LEMMA InitKept == Init => KeptInv
<1>1. ASSUME Init PROVE FreshFile
  <2>1. 0 \in Combs /\ Ticket0.idx = 0
    BY RedoAssumption DEF Combs, Ticket0, SeqTidIdx
  <2>2. QED
    BY <1>1, <2>1 DEF Init, FreshFile
<1>2. QED
  BY <1>1, FreshKeptInv

LEMMA CrashKept ==
  ASSUME ScanInv, CrashRestart
  PROVE  KeptInv'
<1>1. PICK left \in pcur, m \in [Combs -> [Addrs -> Survivors]] :
        /\ curComb' = SeqTidIdx(0, 0, left.idx) /\ pcur' = {curComb'} /\ mem' = m
        /\ Volatile(left.idx, INVALID)
        /\ hist' = <<[mem |-> m[left.idx], tk |-> Ticket0, applied |-> State0.applied]>>
  BY DEF CrashRestart
<1>2. left.idx \in Combs /\ curComb'.idx = left.idx
  BY <1>1 DEF ScanInv, Places, SeqTidIdx
<1>3. FreshFile'
  BY <1>1, <1>2 DEF FreshFile, Volatile
<1>4. FreshFile' => KeptInv'
  BY FreshKeptInv, PTL
<1>5. QED
  BY <1>3, <1>4

LEMMA KeptStep ==
  ASSUME LockInv, ScanInv, KeptInv, NEW t \in Threads, ThreadStep(t)
  PROVE  KeptInv'
<1>1. Stays(t)
  BY ScanStep
<1>2. Keeping(t) => KeptInv'
  BY <1>1, OwnKept DEF Keeping
<1>3. CASE Prepare(t)
  BY <1>2, <1>3, PrepareKeeps, RingKeeps DEF Prepare
<1>4. CASE CatchUp(t)
  BY <1>2, <1>4, CatchUpKeeps DEF CatchUp
<1>5. CASE Help(t)
  BY <1>2, <1>5, HelpKeeps, RunKeeps DEF Help
<1>6. CASE Finish(t)
  BY <1>2, <1>6, FinishKeeps, RingKeeps, LostKeeps, PublishedKeeps DEF Finish
<1>7. CASE Read(t)
  BY <1>2, <1>7, ReadKeeps DEF Read
<1>8. QED
  BY <1>3, <1>4, <1>5, <1>6, <1>7 DEF ThreadStep

LEMMA PublishedKept == Spec => [](LockInv /\ ScanInv /\ KeptInv)
<1>1. Init => KeptInv
  BY InitKept
<1>2. LockInv /\ ScanInv /\ KeptInv /\ [Next]_vars => KeptInv'
  <2> SUFFICES ASSUME LockInv, ScanInv, KeptInv, [Next]_vars PROVE KeptInv'
    OBVIOUS
  <2>1. ASSUME NEW t \in Threads, ThreadStep(t) PROVE KeptInv'
    BY <2>1, KeptStep
  <2>2. CASE CrashRestart
    BY <2>2, CrashKept
  <2>3. CASE UNCHANGED vars
    <3>1. UNCHANGED <<pc, cc, nc, loc, curComb, pcur, mem, head, ring, lastIdx, hist>>
      BY <2>3
         DEF vars, sharedVars, nvmVars, volatileVars, combVars, stateVars, ghostVars
    <3>2. QED
      BY <3>1 DEF KeptInv, Commits, Durables, RingImpliesDurable, Domains, Uses, CommitSeqs,
         Commit, NewTicket
  <2>4. QED
    BY <2>1, <2>2, <2>3 DEF Next, Done
<1>3. QED
  BY <1>1, <1>2, Locked, PTL DEF Spec

(* RedoOpt: whatever the heads of stale replicas say, the replica curComb  *)
(* names keeps the content and the head it was published with, and stays   *)
(* locked for readers: no replay, copy, late helper or withdrawal of an    *)
(* attempt that lost the CAS touches it.                                   *)
THEOREM CurrentKept == Spec => []CurrentReplicaIntact
<1>1. LockInv /\ ScanInv /\ KeptInv => CurrentReplicaIntact
  <2> SUFFICES ASSUME LockInv, KeptInv PROVE CurrentReplicaIntact
    OBVIOUS
  <2>1. curComb.seq = Len(hist) - 1
    BY DEF LockInv, LockTypes, Places, KeptInv, Commits
  <2>2. QED
    BY <2>1 DEF CurrentReplicaIntact, LockInv, Claimed, KeptInv, Commits
<1>2. QED
  BY <1>1, PublishedKept, PTL

(* RedoOpt: a ticket is put into the ring only after the fence that makes  *)
(* its commit durable, so whoever finds it there need not write back       *)
(* curComb.                                                                *)
THEOREM RingDurable == Spec => []RingImpliesDurable
<1>1. LockInv /\ ScanInv /\ KeptInv => RingImpliesDurable
  BY DEF KeptInv, Durables
<1>2. QED
  BY <1>1, PublishedKept, PTL

(* RedoOpt: from its first word to its last a read-only transaction reads  *)
(* one commit: its shared lock keeps a replaced replica from being reused, *)
(* and the look at curComb after the lock excludes one reused before.      *)
THEOREM Snapshots == Spec => []SnapshotHeld
<1>1. LockInv /\ ScanInv /\ KeptInv => SnapshotHeld
  BY DEF KeptInv, Uses, SnapshotHeld
<1>2. QED
  BY <1>1, PublishedKept, PTL

-----------------------------------------------------------------------------
(***************************************************************************)
(* Layer 4: what is in the replicas, the States and the ring, in the runs  *)
(* where the ringTicket apply_redologs has not assigned happens to be the  *)
(* ticket that is in head already.  The code does not ensure it: here is   *)
(* what it would take to have ReplicasConsistent.                          *)
(***************************************************************************)
NothingToReplay(t) ==
  /\ pc[t] = "w_redo" /\ loc[t].i = loc[t].lt.seq + 1
  /\ ~(loc[t].la.seq < loc[t].lt.seq)
HeadKept == \A t \in Threads : NothingToReplay(t) /\ ReplayNext(t) => head' = head

(* tk is the ticket of commit s; replica c holds the store of commit s.    *)
Recorded(s, tk) == s \in CommitSeqs /\ tk = Commit(s).tk
Holds(c, s) == s \in CommitSeqs /\ mem[c] = Commit(s).mem

(* What the head of a replica promises.                                    *)
Content(c) ==
  head[c] = INVALID \/ (Recorded(head[c].seq, head[c]) /\ Holds(c, head[c].seq))

Over(store, words) ==
  [a \in Addrs |-> IF a \in DOMAIN words THEN words[a] ELSE store[a]]

Entries == [mem : Stores, tk : Tickets, applied : [Threads -> BOOLEAN]]

DataTypes ==
  /\ mem \in [Combs -> Stores]
  /\ pm \in [Combs -> [Addrs -> SUBSET Nat]]
  /\ \A c \in Combs, a \in Addrs : mem[c][a] \in pm[c][a]
  /\ head \in [Combs -> Tickets]
  /\ flushcopy \in [Combs -> BOOLEAN]
  /\ ring \in [0 .. RINGSIZE - 1 -> Tickets]
  /\ lastIdx \in [Threads -> 0 .. STATESSIZE - 1]
  /\ enqueuers \in [Threads -> Ops]
  /\ announce \in [Threads -> BOOLEAN]
  /\ hist \in Seq(Entries)

StateTypes ==
  /\ DOMAIN sauron = Threads
  /\ \A t \in Threads : /\ DOMAIN sauron[t] = 0 .. STATESSIZE - 1
                        /\ \A k \in 0 .. STATESSIZE - 1 :
                             /\ DOMAIN sauron[t][k] = DOMAIN State0
                             /\ DOMAIN sauron[t][k].results = Threads
                             /\ StateOK(sauron[t][k])

(* A request is in its slot before it is announced.                        *)
Silent ==
  \A i \in Threads :
    /\ enqueuers[i] = NONE =>
         /\ ~announce[i] /\ pc[i] \notin {"w_announce", "r_announce"}
         /\ \A t \in Threads, k \in 0 .. STATESSIZE - 1 : ~sauron[t][k].applied[i]

(* A State that still has the ticket of commit s has its redo log.         *)
Logged(s) ==
  LET tk == Commit(s).tk IN
  s > 0 /\ StateOf(tk).ticket = tk =>
    /\ Commit(s).mem = Over(Commit(s - 1).mem, StateOf(tk).log)
    /\ StateOf(tk).logSize = Cardinality(DOMAIN StateOf(tk).log)

History ==
  /\ Len(hist) = curComb.seq + 1
  /\ \A s \in CommitSeqs :
       /\ Commit(s).tk.seq = s /\ Commit(s).tk.tid \in Threads
       /\ Commit(s).tk.idx \in 0 .. STATESSIZE - 1
       /\ Logged(s)

CurrentIntact ==
  Holds(curComb.idx, curComb.seq) /\ Recorded(curComb.seq, head[curComb.idx])

Ring ==
  /\ \A v \in pcur : v.seq \in CommitSeqs
  /\ \A k \in 0 .. RINGSIZE - 1 :
       Recorded(ring[k].seq, ring[k]) /\ \A v \in pcur : v.seq >= ring[k].seq

FreeContent ==
  \A c \in Combs : (\A t \in Threads : nc[t] # c) => Content(c)

Working == Running \union Flushing \union Downgraded
Based == {"w_state", "w_ring", "w_ring_load", "w_help_ring", "w_pick", "w_try"}
           \union Filling \union Downgraded
Drafted == Based \ {"w_state"}
Fresh == {"w_load", "w_tail", "w_state", "w_ring", "w_ring_load", "w_help_ring",
          "w_replay", "w_exit"}

(* What the locals of a thread name, while it may use them.                *)
Names(t) ==
  /\ cc[t].seq <= curComb.seq
  /\ loc[t].op \in Ops /\ loc[t].cl \in LineSeqs
  /\ pc[t] \in Based => Recorded(cc[t].seq, loc[t].lt)
  /\ pc[t] \in {"w_tail"} \union Based =>
       \A s \in CommitSeqs : Commit(s).tk.tid = t => s <= cc[t].seq
  /\ pc[t] \in {"w_unlock", "w_advance", "w_advance_cas"} =>
       Recorded(cc[t].seq + 1, NewTicket(t))
  /\ pc[t] = "x_advance" => cc[t].seq = 0 \/ Recorded(cc[t].seq, loc[t].tk)
  /\ pc[t] = "x_advance_cas" => Recorded(cc[t].seq, loc[t].tk)
  /\ pc[t] = "r_run" => /\ Recorded(cc[t].seq, loc[t].tk)
                        /\ Holds(cc[t].idx, cc[t].seq)
                        /\ \A u \in Threads : nc[u] # cc[t].idx

(* The new State: its ticket, and its log against the undo log.            *)
Drafts(t) ==
  LET l == loc[t]  st == NewState(t) IN
  /\ pc[t] \in Drafted =>
       /\ st.ticket = NewTicket(t)
       /\ Partial(l.undo) /\ DOMAIN st.log = DOMAIN l.undo
       /\ pc[t] \in Running \union Flushing \union Downgraded \/ DOMAIN l.undo = {}
  /\ pc[t] \in Running /\ ~l.any => DOMAIN l.undo = {}
  /\ pc[t] \in {"w_protect", "w_run"} => l.op # NONE /\ enqueuers[l.i] # NONE
  /\ pc[t] \in Downgraded => st.logSize = Cardinality(DOMAIN l.undo)

(* The replica of a thread, while it replays, copies and runs requests.    *)
Replays(t) ==
  LET c == nc[t]  l == loc[t] IN
  /\ pc[t] \in Fresh /\ c # NONE => Content(c)
  /\ pc[t] \in {"w_redo"} \union Replaying =>
       /\ Recorded(l.la.seq, l.la) /\ head[c] = l.la
       /\ l.i \in Nat /\ l.i > l.la.seq
  /\ pc[t] = "w_redo" =>
       Holds(c, l.i - 1) /\ (l.i > l.la.seq + 1 => Recorded(l.i - 1, l.tk))
  /\ pc[t] \in Replaying => l.i <= l.lt.seq /\ Recorded(l.i, l.tk)
  /\ pc[t] = "w_redo_copy" => Holds(c, l.i - 1)
  /\ pc[t] = "w_redo_check" /\ StateOf(l.tk).ticket = l.tk => Holds(c, l.i)
  /\ pc[t] = "w_redo_next" => Holds(c, l.i)
  /\ pc[t] = "c_init" => head[c] = INVALID \/ Recorded(head[c].seq, head[c])

CopiesRight(t) ==
  LET c == nc[t]  l == loc[t] IN
  /\ pc[t] \in Copying => head[c] = INVALID /\ l.cp.seq >= cc[t].seq
  /\ pc[t] \in {"c_copy", "c_check"} =>
       /\ Recorded(l.cp.seq, l.tk) /\ l.left \subseteq Addrs
       /\ l.cp = curComb =>
            \A a \in Addrs \ l.left : mem[c][a] = Commit(l.cp.seq).mem[a]

Works(t) ==
  LET c == nc[t]  l == loc[t] IN
  /\ pc[t] = "w_recheck" =>
       /\ Recorded(head[c].seq, head[c]) /\ Holds(c, head[c].seq)
       /\ head[c].seq >= cc[t].seq
  /\ pc[t] \in Working =>
       /\ mem[c] = Over(Commit(cc[t].seq).mem, NewState(t).log)
       /\ \A a \in DOMAIN l.undo : l.undo[a] = Commit(cc[t].seq).mem[a]
       /\ head[c] = IF pc[t] \in Downgraded THEN NewTicket(t) ELSE l.lt
       /\ \A u \in Threads : cc[u].idx = c => cc[u].seq <= cc[t].seq

Good(t) == Names(t) /\ Drafts(t) /\ Replays(t) /\ CopiesRight(t) /\ Works(t)

Shared ==
  /\ DataTypes /\ StateTypes /\ Silent
  /\ History /\ CurrentIntact /\ Ring /\ FreeContent

DataInv == Shared /\ \A t \in Threads : Good(t)

(* What a step of t leaves to others: its own replica, States and slots    *)
(* are all it writes, and commits stay what they are.                      *)
Touch(t) ==
  /\ Stays(t)
  /\ \A u \in Threads \ {t} : sauron'[u] = sauron[u] /\ lastIdx'[u] = lastIdx[u]
  /\ \A u \in Threads : enqueuers'[u] = enqueuers[u] \/ enqueuers'[u] # NONE
  /\ \A c \in Combs : c # nc[t] => mem'[c] = mem[c] /\ head'[c] = head[c]
  /\ \A s \in CommitSeqs : s \in CommitSeqs' /\ Commit(s)' = Commit(s)
  /\ \A s \in CommitSeqs' \ CommitSeqs : (Commit(s).tk)'.tid = t
  /\ \A s \in CommitSeqs :
       LET tk == Commit(s).tk IN
       sauron'[tk.tid][tk.idx].ticket = tk =>
         sauron'[tk.tid][tk.idx] = sauron[tk.tid][tk.idx]
  /\ cc'[t].idx = cc[t].idx \/ cc'[t].idx = curComb.idx \/ cc'[t].seq = 0
  /\ nc'[t] = NONE \/ nc'[t] = nc[t] \/ readers[nc'[t]] = {}
  /\ cc'[t].seq <= cc[t].seq \/ cc'[t] = curComb

LEMMA Apart ==
  ASSUME LockInv, NEW t \in Threads, NEW u \in Threads \ {t}, nc[u] # NONE
  PROVE  nc[u] \in Combs /\ nc[u] # nc[t] /\ nc[u] # curComb.idx
<1>1. Held(u) /\ Held(t) /\ nc[u] \in Combs /\ Claim(u) = nc[u]
  BY DEF LockInv, LockTypes, Held, Claim
<1>2. nc[t] # NONE => Claim(t) = nc[t]
  BY <1>1 DEF Held, Claim
<1>3. QED
  BY <1>1, <1>2 DEF Held

LEMMA OtherNames ==
  ASSUME LockInv, LockInv', DataInv, NEW t \in Threads, NEW u \in Threads \ {t}, Touch(t)
  PROVE  Names(u)'
<1>1. /\ pc'[u] = pc[u] /\ cc'[u] = cc[u] /\ nc'[u] = nc[u] /\ loc'[u] = loc[u]
      /\ sauron'[u] = sauron[u] /\ lastIdx'[u] = lastIdx[u]
  BY DEF Touch, Stays
<1>2. curComb \in Places /\ curComb' \in Places /\ cc[u] \in Places
  BY DEF LockInv, LockTypes
<1>3. curComb.seq <= curComb'.seq
  BY <1>2 DEF Touch, Stays, SeqTidIdx, Places
<1>4. Names(u)
  BY DEF DataInv, Good
<1>5. cc'[u].seq <= curComb'.seq
  BY <1>1, <1>2, <1>3, <1>4 DEF Names, Places
<1>6. ASSUME NEW s, NEW tk, Recorded(s, tk)
      PROVE  s \in CommitSeqs' /\ tk = Commit(s)'.tk
  BY <1>6 DEF Recorded, Touch
<1>7. ASSUME pc[u] \in {"w_tail"} \union Based
      PROVE  \A s \in CommitSeqs' : (Commit(s).tk)'.tid = u => s <= cc[u].seq
  BY <1>4, <1>7 DEF Names, Touch
<1>8. ASSUME pc[u] = "r_run"
      PROVE  Holds(cc[u].idx, cc[u].seq)' /\ \A w \in Threads : nc'[w] # cc[u].idx
  <2>1. /\ cc[u].idx \in Combs /\ Holds(cc[u].idx, cc[u].seq)
        /\ \A w \in Threads : nc[w] # cc[u].idx
    BY <1>2, <1>4, <1>8 DEF Names, Places
  <2>2. u \in readers[cc[u].idx]
    BY <1>8, <2>1 DEF LockInv, Held, Sharing
  <2>3. nc'[t] # cc[u].idx
    BY <2>1, <2>2, NoneIsNoReplica DEF Touch
  <2>4. \A w \in Threads : nc'[w] # cc[u].idx
    BY <2>1, <2>3 DEF Touch, Stays
  <2>5. QED
    BY <1>1, <2>1, <2>4 DEF Holds, Touch
<1>9. QED
  BY <1>1, <1>4, <1>5, <1>6, <1>7, <1>8 DEF Names, Recorded, NewTicket

LEMMA OtherDrafts ==
  ASSUME DataInv, NEW t \in Threads, NEW u \in Threads \ {t}, Touch(t), ScanInv
  PROVE  Drafts(u)'
<1>1. /\ pc'[u] = pc[u] /\ cc'[u] = cc[u] /\ nc'[u] = nc[u] /\ loc'[u] = loc[u]
      /\ sauron'[u] = sauron[u] /\ lastIdx'[u] = lastIdx[u]
  BY DEF Touch, Stays
<1>2. Drafts(u)
  BY DEF DataInv, Good
<1>3. pc[u] \in {"w_protect", "w_run"} => enqueuers'[loc[u].i] # NONE
  <2>1. pc[u] \in {"w_protect", "w_run"} => loc[u].i \in Threads
    BY DEF ScanInv, Scan, LocShape
  <2>2. QED
    BY <1>2, <2>1 DEF Touch, Drafts
<1>4. QED
  BY <1>1, <1>2, <1>3 DEF Drafts, NewState, NewTicket

LEMMA OtherReplica ==
  ASSUME LockInv, LockInv', ScanInv, DataInv, NEW t \in Threads, NEW u \in Threads \ {t},
         Touch(t)
  PROVE  Replays(u)' /\ CopiesRight(u)' /\ Works(u)'
<1>1. /\ pc'[u] = pc[u] /\ cc'[u] = cc[u] /\ nc'[u] = nc[u] /\ loc'[u] = loc[u]
      /\ sauron'[u] = sauron[u] /\ lastIdx'[u] = lastIdx[u]
  BY DEF Touch, Stays
<1>2. nc[u] # NONE => /\ nc[u] \in Combs /\ mem'[nc[u]] = mem[nc[u]]
                      /\ head'[nc[u]] = head[nc[u]] /\ nc[u] # curComb.idx
  BY Apart DEF Touch
<1>3. \A s \in CommitSeqs : s \in CommitSeqs' /\ Commit(s)' = Commit(s)
  BY DEF Touch
<1>4. Replays(u) /\ CopiesRight(u) /\ Works(u) /\ Names(u) /\ Drafts(u)
  BY DEF DataInv, Good
<1>5. ASSUME NEW s, NEW tk, Recorded(s, tk)
      PROVE  Recorded(s, tk)'
  BY <1>3, <1>5 DEF Recorded
<1>6. ASSUME NEW s, nc[u] # NONE, Holds(nc[u], s)
      PROVE  Holds(nc[u], s)'
  BY <1>1, <1>2, <1>3, <1>6 DEF Holds
<1>7. nc[u] # NONE /\ Content(nc[u]) => Content(nc[u])'
  BY <1>1, <1>2, <1>5, <1>6 DEF Content
<1>8. pc[u] \in Filling \union Downgraded => nc[u] # NONE
  BY DEF LockInv, Held
<1>9. Replays(u)'
  <2>1. pc[u] \in Replaying =>
          loc[u].i \in CommitSeqs /\ loc[u].tk = Commit(loc[u].i).tk
    BY <1>4 DEF Replays, Recorded
  <2>2. pc[u] = "w_redo_check" /\ StateOf(loc[u].tk)'.ticket = loc[u].tk
          => Holds(nc[u], loc[u].i)'
    <3>1. SUFFICES ASSUME pc[u] = "w_redo_check",
                          sauron'[loc[u].tk.tid][loc[u].tk.idx].ticket = loc[u].tk
                   PROVE  Holds(nc[u], loc[u].i)'
      BY <1>1 DEF StateOf
    <3>2. sauron[loc[u].tk.tid][loc[u].tk.idx].ticket = loc[u].tk
      BY <2>1, <3>1 DEF Touch, Replaying
    <3>3. Holds(nc[u], loc[u].i)
      BY <1>4, <3>1, <3>2 DEF Replays, StateOf
    <3>4. mem'[nc[u]] = mem[nc[u]] /\ nc'[u] = nc[u] /\ loc'[u].i = loc[u].i
      BY <1>1, <1>2, <1>8, <3>1 DEF Filling, Replaying
    <3>5. QED
      BY <1>3, <3>3, <3>4 DEF Holds
  <2>3. pc[u] \in {"w_redo", "c_init"} \union Replaying =>
          head'[nc[u]] = head[nc[u]] /\ nc[u] # NONE
    BY <1>2, <1>8 DEF Filling
  <2>4. pc[u] \in Fresh /\ nc[u] # NONE => Content(nc[u])'
    BY <1>4, <1>7 DEF Replays
  <2>5. pc[u] \in {"w_redo"} \union Replaying =>
          /\ Recorded(loc[u].la.seq, loc[u].la)'
          /\ loc[u].i \in Nat /\ loc[u].i > loc[u].la.seq /\ head[nc[u]] = loc[u].la
    BY <1>1, <1>3, <1>4 DEF Replays, Recorded
  <2>6. pc[u] = "w_redo" =>
          /\ Holds(nc[u], loc[u].i - 1)'
          /\ loc[u].i > loc[u].la.seq + 1 => Recorded(loc[u].i - 1, loc[u].tk)'
    BY <1>1, <1>2, <1>3, <1>4, <2>3 DEF Replays, Recorded, Holds
  <2>7. pc[u] \in Replaying => loc[u].i <= loc[u].lt.seq /\ Recorded(loc[u].i, loc[u].tk)'
    BY <1>1, <1>3, <1>4 DEF Replays, Recorded
  <2>8. /\ pc[u] = "w_redo_copy" => Holds(nc[u], loc[u].i - 1)'
        /\ pc[u] = "w_redo_next" => Holds(nc[u], loc[u].i)'
    BY <1>1, <1>2, <1>3, <1>4, <2>3 DEF Replays, Holds, Replaying
  <2>9. pc[u] = "c_init" => head[nc[u]] = INVALID \/ Recorded(head[nc[u]].seq, head[nc[u]])'
    BY <1>1, <1>3, <1>4, <2>3 DEF Replays, Recorded
  <2>10. QED
    BY <1>1, <2>2, <2>3, <2>4, <2>5, <2>6, <2>7, <2>8, <2>9 DEF Replays, Replaying
<1>10. CopiesRight(u)'
  <2>1. pc[u] \in Copying /\ loc[u].cp = curComb' => curComb' = curComb
    <3>1. pc[u] \in Copying => /\ loc[u].cp \in Places
                               /\ loc[u].cp.seq < curComb.seq \/ loc[u].cp = curComb
      BY DEF ScanInv, Scan, Copies
    <3>2. curComb \in Places /\ (curComb' = curComb \/ curComb'.seq = curComb.seq + 1)
      BY DEF LockInv, LockTypes, Touch, Stays, SeqTidIdx
    <3>3. QED
      BY <3>1, <3>2 DEF Places
  <2>2. QED
    BY <1>1, <1>2, <1>3, <1>4, <1>5, <1>8, <2>1 DEF CopiesRight, Copying, Filling, Recorded
<1>11. Works(u)'
  <2>1. pc[u] \in Working => cc[u].seq \in CommitSeqs
    BY <1>4 DEF Names, Based, Working, Filling, Recorded
  <2>2. ASSUME pc[u] \in Working, NEW w \in Threads, cc'[w].idx = nc[u]
        PROVE  cc'[w].seq <= cc[u].seq
    <3>1. nc[u] # NONE /\ nc[u] # curComb.idx
      BY <1>2, <1>8, <2>2 DEF Working, Filling
    <3>2. cc'[w] = cc[w] \/ w = t
      BY DEF Touch, Stays
    <3>3. cc[u] \in Places /\ cc[w] \in Places /\ cc'[w] \in Places
      BY DEF LockInv, LockTypes
    <3>4. cc[w].idx = nc[u] => cc[w].seq <= cc[u].seq
      BY <1>4, <2>2 DEF Works
    <3>5. cc'[w].seq = 0 \/ (cc[w].idx = nc[u] /\ cc'[w].seq <= cc[w].seq)
      BY <2>2, <3>1, <3>2, <3>3 DEF Touch, Places
    <3>6. QED
      BY <3>3, <3>4, <3>5 DEF Places
  <2>3. pc[u] = "w_recheck" =>
          /\ Recorded(head[nc[u]].seq, head[nc[u]])' /\ Holds(nc[u], head[nc[u]].seq)'
          /\ head'[nc[u]] = head[nc[u]]
    BY <1>1, <1>2, <1>3, <1>4, <1>8 DEF Works, Filling, Recorded, Holds
  <2>4. QED
    BY <1>1, <1>2, <1>3, <1>4, <1>8, <2>1, <2>2, <2>3
       DEF Works, Working, Filling, NewState, NewTicket
<1>12. QED
  BY <1>9, <1>10, <1>11


(***************************************************************************)
(* The steps that write none of the data.                                  *)
(***************************************************************************)
Quiet ==
  UNCHANGED <<mem, pm, head, flushcopy, sauron, lastIdx, ring, hist, enqueuers,
              announce, curComb>>

QuietStep(t) ==
  /\ Quiet /\ pcur' \subseteq pcur
  /\ pc'[t] \notin {"w_announce", "r_announce"}
  /\ cc'[t] \in {cc[t], curComb, Ticket0}
  /\ \/ nc'[t] = nc[t]
     \/ nc'[t] = NONE /\ Content(nc[t])
     \/ nc[t] = NONE /\ readers[nc'[t]] = {}

LEMMA QuietKeeps ==
  ASSUME LockInv, LockInv', ScanInv, DataInv, NEW t \in Threads, Stays(t), QuietStep(t),
         Good(t)'
  PROVE  DataInv'
<1>1. Touch(t)
  <2>1. /\ \A u \in Threads \ {t} : sauron'[u] = sauron[u] /\ lastIdx'[u] = lastIdx[u]
        /\ \A u \in Threads : enqueuers'[u] = enqueuers[u]
        /\ \A c \in Combs : mem'[c] = mem[c] /\ head'[c] = head[c]
        /\ CommitSeqs' = CommitSeqs
        /\ \A s \in CommitSeqs : Commit(s)' = Commit(s)
    BY DEF QuietStep, Quiet, CommitSeqs, Commit
  <2>2. \A s \in CommitSeqs :
          LET tk == Commit(s).tk IN sauron'[tk.tid][tk.idx] = sauron[tk.tid][tk.idx]
    BY DEF QuietStep, Quiet
  <2>3. /\ cc'[t].idx = cc[t].idx \/ cc'[t].idx = curComb.idx \/ cc'[t].seq = 0
        /\ cc'[t].seq <= cc[t].seq \/ cc'[t] = curComb
    BY DEF QuietStep, LockInv, LockTypes, Places, Ticket0, SeqTidIdx
  <2>4. QED
    BY <2>1, <2>2, <2>3 DEF Touch, QuietStep
<1>2. DataTypes' /\ StateTypes'
  <2>1. DataTypes'
    BY DEF QuietStep, Quiet, DataInv, Shared, DataTypes
  <2>2. StateTypes'
    BY DEF QuietStep, Quiet, DataInv, Shared, StateTypes
  <2>3. QED
    BY <2>1, <2>2
<1>3. Silent'
  <2>1. pc' \in [Threads -> Locations]
    BY SMTT(60) DEF LockInv, LockTypes
  <2>2. QED
    BY <2>1 DEF QuietStep, Quiet, DataInv, Shared, Silent, Stays
<1>4. History'
  BY DEF QuietStep, Quiet, DataInv, Shared, History, Logged, CommitSeqs, Commit, StateOf
<1>5. CurrentIntact'
  BY DEF QuietStep, Quiet, DataInv, Shared, CurrentIntact, Holds, Recorded, CommitSeqs, Commit
<1>6. Ring'
  BY DEF QuietStep, Quiet, DataInv, Shared, Ring, Recorded, CommitSeqs, Commit
<1>7. FreeContent'
  <2>1. \A c \in Combs : Content(c) => Content(c)'
    BY DEF QuietStep, Quiet, Content, Recorded, Holds, CommitSeqs, Commit
  <2>2. ASSUME NEW c \in Combs, \A u \in Threads : nc'[u] # c
        PROVE  Content(c)
    <3>1. \A u \in Threads \ {t} : nc[u] # c
      BY <2>2 DEF Stays
    <3>2. CASE nc[t] = c
      BY <2>2, <3>2, NoneIsNoReplica DEF QuietStep
    <3>3. CASE nc[t] # c
      BY <3>1, <3>3 DEF DataInv, Shared, FreeContent
    <3>4. QED
      BY <3>2, <3>3
  <2>3. QED
    BY <2>1, <2>2 DEF FreeContent
<1>8. \A u \in Threads : Good(u)'
  BY <1>1, OtherNames, OtherDrafts, OtherReplica DEF Good
<1>9. QED
  BY <1>2, <1>3, <1>4, <1>5, <1>6, <1>7, <1>8 DEF DataInv, Shared


(* Where a thread relies on nothing but the content of its replica.        *)
Resting == {"idle", "w_announce", "w_init", "w_load", "w_exit", "x_load",
            "x_head", "x_ring", "x_result", "r_enqueue", "r_announce", "r_load",
            "r_lock", "r_check", "r_leave", "r_unlock", "r_ring", "f_load", "f_head"}

LEMMA Rests ==
  ASSUME NEW t \in Threads, pc'[t] \in Resting, cc'[t].seq <= curComb'.seq,
         loc'[t].op \in Ops, loc'[t].cl \in LineSeqs,
         pc'[t] \in {"w_load", "w_exit"} /\ nc'[t] # NONE => Content(nc[t])',
         pc'[t] \notin {"w_load", "w_exit"} => nc'[t] = NONE
  PROVE  Good(t)'
<1>1. /\ pc'[t] \notin Based \union {"w_tail", "w_unlock", "w_advance", "w_advance_cas",
                                     "x_advance", "x_advance_cas", "r_run"}
      /\ pc'[t] \notin Filling \union Downgraded
  BY DEF Resting, Based, Filling, Replaying, Copying, Running, Flushing, Downgraded
<1>2. Names(t)'
  BY <1>1 DEF Names
<1>3. Drafts(t)'
  BY <1>1 DEF Drafts, Drafted, Based, Filling, Running
<1>4. Replays(t)'
  BY <1>1 DEF Replays, Resting, Fresh, Replaying
<1>5. CopiesRight(t)' /\ Works(t)'
  BY <1>1 DEF CopiesRight, Works, Working, Filling, Copying
<1>6. QED
  BY <1>2, <1>3, <1>4, <1>5 DEF Good

(* What an attempt is based on stays the same until it ends.               *)
LEMMA NamesKept ==
  ASSUME NEW t \in Threads, Names(t), UNCHANGED <<hist, curComb>>, cc'[t] = cc[t],
         loc'[t].lt = loc[t].lt, loc'[t].op \in Ops, loc'[t].cl \in LineSeqs,
         pc[t] \in Based, pc'[t] \in Based
  PROVE  Names(t)'
<1>1. pc'[t] \notin {"w_unlock", "w_advance", "w_advance_cas", "x_advance",
                     "x_advance_cas", "r_run"}
  BY DEF Based, Filling, Replaying, Copying, Running, Flushing, Downgraded
<1>2. QED
  BY <1>1 DEF Names, Recorded, CommitSeqs, Commit

(* The facts about a thread that its steps start from.                     *)
Typed(t) ==
  /\ pc \in [Threads -> Locations] /\ nc \in [Threads -> Combs \union {NONE}]
  /\ cc \in [Threads -> Places] /\ curComb \in Places
  /\ DOMAIN loc = Threads /\ DOMAIN loc[t] = LocFields
  /\ cc[t].seq \in Nat /\ curComb.seq \in Nat

LEMMA Known ==
  ASSUME LockInv, ScanInv, DataInv, NEW t \in Threads
  PROVE  Typed(t) /\ Held(t) /\ LocShape(t) /\ Good(t)
BY DEF LockInv, LockTypes, ScanInv, Scan, LocShape, DataInv, Typed, Places

(* `continue` and `break`.                                                 *)
LEMMA Retreat ==
  ASSUME LockInv, ScanInv, DataInv, NEW t \in Threads, Continue(t) \/ Break(t),
         UNCHANGED <<cc, curComb>>, nc'[t] # NONE => Content(nc[t])'
  PROVE  /\ Good(t)' /\ pc'[t] \in {"w_load", "w_exit"}
<1>1. Typed(t) /\ Names(t)
  BY Known DEF Good
<1>2. /\ pc'[t] \in {"w_load", "w_exit"}
      /\ loc'[t].op = loc[t].op /\ loc'[t].cl = loc[t].cl
  <2>1. CASE Continue(t)
    BY <1>1, <2>1, Loc0Facts DEF Continue, Goto, Set, Typed
  <2>2. CASE Break(t)
    BY <1>1, <2>2 DEF Break, Goto, Typed
  <2>3. QED
    BY <2>1, <2>2
<1>3. QED
  BY <1>1, <1>2, Rests DEF Names, Resting


LEMMA QuietRetreat ==
  ASSUME LockInv, ScanInv, DataInv, NEW t \in Threads, Quiet, UNCHANGED <<nc, cc>>,
         Continue(t) \/ Break(t), nc[t] = NONE \/ Content(nc[t])
  PROVE  Good(t)' /\ pc'[t] \in {"w_load", "w_exit"}
<1>1. nc[t] # NONE => Content(nc[t])'
  BY DEF Quiet, Content, Recorded, Holds, CommitSeqs, Commit
<1>2. QED
  BY <1>1, Retreat DEF Quiet

LEMMA PrepareQuiet ==
  ASSUME LockInv, ScanInv, DataInv, NEW t \in Threads,
         \/ WriteInit(t) \/ LoadCurComb(t) \/ LoadTail(t) \/ RingCheck(t)
         \/ ReadRing(t) \/ PickCheck(t) \/ PickTry(t)
  PROVE  QuietStep(t) /\ Good(t)'
<1>1. Typed(t) /\ Held(t) /\ Good(t)
  BY Known
<1>2. pc[t] \in Fresh => nc[t] = NONE \/ Content(nc[t])
  BY <1>1 DEF Good, Replays
<1> USE DEF sharedVars, nvmVars, volatileVars, lockVars, combVars, stateVars, reqVars,
        ghostVars, Goto
<1>3. CASE WriteInit(t)
  <2>1. QuietStep(t) /\ pc'[t] = "w_load" /\ nc'[t] = NONE
    BY <1>1, <1>3 DEF WriteInit, QuietStep, Quiet, Typed, Held, Without
  <2>2. loc'[t].op = loc[t].op /\ loc'[t].cl = loc[t].cl /\ cc' = cc
    BY <1>1, <1>3, Loc0Facts DEF WriteInit, Typed
  <2>3. QED
    BY <1>1, <2>1, <2>2, Rests DEF Resting, Good, Names, QuietStep, Quiet
<1>4. CASE LoadCurComb(t)
  <2>1. /\ QuietStep(t) /\ pc'[t] \in {"w_tail", "x_head", "r_lock", "f_head"}
        /\ cc'[t] = curComb /\ curComb' = curComb /\ nc' = nc /\ loc' = loc
        /\ pc'[t] = "w_tail" => pc[t] = "w_load"
        /\ pc'[t] # "w_tail" => nc[t] = NONE
    BY <1>1, <1>4 DEF LoadCurComb, QuietStep, Quiet, Typed, Held, Without
  <2>2. CASE pc'[t] # "w_tail"
    BY <1>1, <2>1, <2>2, Rests DEF Resting, Good, Names, Typed
  <2>3. CASE pc'[t] = "w_tail"
    <3>1. \A s \in CommitSeqs : s <= curComb.seq
      BY <1>1 DEF DataInv, Shared, History, CommitSeqs, Typed
    <3>2. Names(t)'
      BY <1>1, <2>1, <2>3, <3>1
         DEF Good, Names, QuietStep, Quiet, CommitSeqs, Commit, Based, Filling, Replaying,
             Copying, Running, Flushing, Downgraded, Typed
    <3>3. Drafts(t)' /\ Replays(t)' /\ CopiesRight(t)' /\ Works(t)'
      BY <1>2, <2>1, <2>3
         DEF Drafts, Replays, CopiesRight, Works, QuietStep, Quiet, Content, Recorded, Holds,
             CommitSeqs, Commit, Drafted, Based, Fresh, Working, Filling, Replaying, Copying,
             Running, Flushing, Downgraded
    <3>4. QED
      BY <2>1, <3>2, <3>3 DEF Good
  <2>4. QED
    BY <2>1, <2>2, <2>3
<1>5. CASE LoadTail(t)
  <2>1. QuietStep(t) /\ UNCHANGED <<nc, cc>> /\ pc[t] = "w_tail"
    BY <1>1, <1>5 DEF LoadTail, Continue, Break, QuietStep, Quiet, Typed
  <2>2. CASE Continue(t) \/ Break(t)
    BY <1>2, <2>1, <2>2, QuietRetreat DEF QuietStep, Fresh
  <2>3. CASE ~(Continue(t) \/ Break(t))
    <3>1. /\ cc[t] = curComb /\ pc'[t] = "w_state" /\ loc'[t].lt = head[cc[t].idx]
          /\ loc'[t].op = loc[t].op /\ loc'[t].cl = loc[t].cl
      BY <1>1, <1>5, <2>3, Loc0Facts DEF LoadTail, Current, Typed
    <3>2. Recorded(cc[t].seq, loc'[t].lt)
      BY <3>1 DEF DataInv, Shared, CurrentIntact
    <3>3. Names(t)'
      BY <1>1, <2>1, <3>1, <3>2
         DEF Good, Names, QuietStep, Quiet, Recorded, CommitSeqs, Commit
    <3>4. Drafts(t)' /\ Replays(t)' /\ CopiesRight(t)' /\ Works(t)'
      BY <1>2, <2>1, <3>1
         DEF Drafts, Replays, CopiesRight, Works, QuietStep, Quiet, Content, Recorded, Holds,
             CommitSeqs, Commit, Drafted, Fresh, Working, Filling, Replaying, Copying,
             Running, Flushing, Downgraded
    <3>5. QED
      BY <2>1, <3>3, <3>4 DEF Good
  <2>4. QED
    BY <2>1, <2>2, <2>3
<1>6. CASE RingCheck(t)
  <2>1. QuietStep(t) /\ UNCHANGED <<nc, cc>> /\ pc[t] = "w_ring"
    BY <1>1, <1>6 DEF RingCheck, Continue, QuietStep, Quiet, Typed
  <2>2. CASE Continue(t)
    BY <1>2, <2>1, <2>2, QuietRetreat DEF QuietStep, Fresh
  <2>3. CASE ~Continue(t)
    <3>1. pc'[t] = "w_ring_load" /\ loc' = loc
      BY <1>1, <1>6, <2>3 DEF RingCheck, Typed
    <3>2. Names(t)'
      BY <1>1, <2>1, <3>1, NamesKept DEF Good, Names, QuietStep, Quiet, Based
    <3>3. Drafts(t)' /\ Replays(t)' /\ CopiesRight(t)' /\ Works(t)'
      BY <1>1, <1>2, <2>1, <3>1
         DEF Good, Drafts, Replays, CopiesRight, Works, QuietStep, Quiet, Content, Recorded,
             Holds, CommitSeqs, Commit, NewState, NewTicket, Based, Drafted, Fresh, Working,
             Filling, Replaying, Copying, Running, Flushing, Downgraded
    <3>4. QED
      BY <2>1, <3>2, <3>3 DEF Good
  <2>4. QED
    BY <2>1, <2>2, <2>3
<1>7. CASE ReadRing(t)
  <2>1. QuietStep(t) /\ UNCHANGED <<nc, cc>> /\ pc[t] = "w_ring_load"
    BY <1>1, <1>7 DEF ReadRing, Continue, AfterRing, QuietStep, Quiet, Typed
  <2>2. CASE Continue(t)
    BY <1>2, <2>1, <2>2, QuietRetreat DEF QuietStep, Fresh
  <2>3. CASE ~Continue(t)
    <3>1. /\ pc'[t] \in {"w_pick", "w_replay", "w_help_ring"}
          /\ loc'[t].lt = loc[t].lt /\ loc'[t].op = loc[t].op /\ loc'[t].cl = loc[t].cl
          /\ loc'[t].undo = loc[t].undo /\ loc'[t].any = loc[t].any
      BY <1>1, <1>7, <2>3, Loc0Facts DEF ReadRing, AfterRing, Typed
    <3>2. Names(t)'
      BY <1>1, <2>1, <3>1, NamesKept, SMTT(60) DEF Good, Names, QuietStep, Quiet, Based, Filling
    <3>3. Drafts(t)' /\ Replays(t)' /\ CopiesRight(t)' /\ Works(t)'
      BY <1>1, <1>2, <2>1, <3>1
         DEF Good, Drafts, Replays, CopiesRight, Works, QuietStep, Quiet, Content, Recorded,
             Holds, CommitSeqs, Commit, NewState, NewTicket, Based, Drafted, Fresh, Working,
             Filling, Replaying, Copying, Running, Flushing, Downgraded
    <3>4. QED
      BY <2>1, <3>2, <3>3 DEF Good
  <2>4. QED
    BY <2>1, <2>2, <2>3
<1>8. CASE PickCheck(t)
  <2>1. QuietStep(t) /\ UNCHANGED <<nc, cc>> /\ pc[t] = "w_pick" /\ nc[t] = NONE
    BY <1>1, <1>8 DEF PickCheck, Continue, QuietStep, Quiet, Typed, Held, Without
  <2>2. CASE Continue(t)
    BY <2>1, <2>2, QuietRetreat DEF QuietStep
  <2>3. CASE ~Continue(t)
    <3>1. pc'[t] = "w_try" /\ loc' = loc
      BY <1>1, <1>8, <2>3 DEF PickCheck, Typed
    <3>2. Names(t)'
      BY <1>1, <2>1, <3>1, NamesKept DEF Good, Names, QuietStep, Quiet, Based
    <3>3. Drafts(t)' /\ Replays(t)' /\ CopiesRight(t)' /\ Works(t)'
      BY <1>1, <2>1, <3>1
         DEF Good, Drafts, Replays, CopiesRight, Works, QuietStep, Quiet, Content, Recorded,
             Holds, CommitSeqs, Commit, NewState, NewTicket, Based, Drafted, Fresh, Working,
             Filling, Replaying, Copying, Running, Flushing, Downgraded
    <3>4. QED
      BY <2>1, <3>2, <3>3 DEF Good
  <2>4. QED
    BY <2>1, <2>2, <2>3
<1>9. CASE PickTry(t)
  <2>1. /\ Quiet /\ cc' = cc /\ pcur' = pcur /\ pc[t] = "w_try" /\ nc[t] = NONE
        /\ loc'[t].lt = loc[t].lt /\ loc'[t].op = loc[t].op /\ loc'[t].cl = loc[t].cl
        /\ loc'[t].undo = loc[t].undo /\ loc'[t].any = loc[t].any
        /\ \/ pc'[t] = "w_pick" /\ nc' = nc
           \/ pc'[t] = "w_replay" /\ nc'[t] = loc[t].i /\ CanLock(loc[t].i)
    BY <1>1, <1>9, Loc0Facts DEF PickTry, PickNext, Quiet, Typed, Held, Without
  <2>2. QuietStep(t)
    BY <2>1 DEF QuietStep, CanLock
  <2>3. Names(t)'
    BY <1>1, <2>1, NamesKept DEF Good, Names, Quiet, Based, Filling
  <2>4. CASE pc'[t] = "w_pick" /\ nc' = nc
    <3>1. Drafts(t)' /\ Replays(t)' /\ CopiesRight(t)' /\ Works(t)'
      BY <1>1, <2>1, <2>4
         DEF Good, Drafts, Replays, CopiesRight, Works, Quiet, NewState, NewTicket, Drafted,
             Based, Fresh, Working, Filling, Replaying, Copying, Running, Flushing, Downgraded
    <3>2. QED
      BY <2>2, <2>3, <3>1 DEF Good
  <2>5. CASE pc'[t] = "w_replay" /\ nc'[t] = loc[t].i /\ CanLock(loc[t].i)
    <3>1. loc[t].i \in Combs
      BY <2>1, RedoAssumption DEF ScanInv, Scan, LocShape, Combs
    <3>2. \A u \in Threads : nc[u] # loc[t].i
      <4>1. ASSUME NEW u \in Threads, nc[u] = loc[t].i PROVE FALSE
        <5>1. Held(u) /\ nc[u] # NONE
          BY <3>1, <4>1, NoneIsNoReplica DEF LockInv
        <5>2. lock[nc[u]] # "free"
          BY <5>1 DEF Held, Claim
        <5>3. QED
          BY <2>5, <4>1, <5>2 DEF CanLock
      <4>2. QED
        BY <4>1
    <3>3. Content(nc'[t])
      BY <2>5, <3>1, <3>2 DEF DataInv, Shared, FreeContent
    <3>4. Content(nc[t])'
      BY <2>1, <3>3 DEF Quiet, Content, Recorded, Holds, CommitSeqs, Commit
    <3>5. Drafts(t)' /\ Replays(t)' /\ CopiesRight(t)' /\ Works(t)'
      BY <1>1, <2>1, <2>5, <3>4
         DEF Good, Drafts, Replays, CopiesRight, Works, Quiet, NewState, NewTicket, Drafted,
             Based, Fresh, Working, Filling, Replaying, Copying, Running, Flushing, Downgraded
    <3>6. QED
      BY <2>2, <2>3, <3>5 DEF Good
  <2>6. QED
    BY <2>1, <2>4, <2>5
<1>10. QED
  BY <1>3, <1>4, <1>5, <1>6, <1>7, <1>8, <1>9


(* makeCopy starts again, or gives up.                                     *)
LEMMA CopyRetryGood ==
  ASSUME LockInv, ScanInv, DataInv, NEW t \in Threads, Quiet, UNCHANGED <<nc, cc>>,
         pc[t] \in Copying, CopyRetry(t)
  PROVE  Good(t)' /\ pc'[t] \notin {"w_announce", "r_announce"}
<1>1. Typed(t) /\ Held(t) /\ Good(t)
  BY Known
<1>2. /\ loc'[t].cp = curComb /\ loc'[t].lt = loc[t].lt /\ loc'[t].op = loc[t].op
      /\ loc'[t].cl = loc[t].cl /\ loc'[t].undo = loc[t].undo /\ loc'[t].any = loc[t].any
  BY <1>1, Loc0Facts DEF CopyRetry, Typed
<1>3. pc'[t] \in {"w_exit", "c_assert_false", "c_head"}
  BY <1>1 DEF CopyRetry, Goto, Typed
<1>4. head[nc[t]] = INVALID /\ head' = head /\ nc' = nc
  BY <1>1 DEF Good, CopiesRight, Quiet
<1>5. CASE pc'[t] = "w_exit"
  <2>1. Content(nc[t])'
    BY <1>4 DEF Content
  <2>2. QED
    BY <1>1, <1>2, <1>5, <2>1, Rests DEF Good, Names, Resting, Quiet
<1>6. CASE pc'[t] # "w_exit"
  <2>1. Names(t)'
    BY <1>1, <1>2, <1>3, <1>6, NamesKept DEF Good, Names, Quiet, Based, Filling, Copying
  <2>2. Drafts(t)' /\ Replays(t)' /\ Works(t)'
    BY <1>1, <1>2, <1>3, <1>4, <1>6
       DEF Good, Drafts, Replays, Works, Quiet, NewState, NewTicket, Drafted,
           Based, Fresh, Working, Filling, Replaying, Copying, Running, Flushing, Downgraded
  <2>3. CopiesRight(t)'
    BY <1>1, <1>2, <1>3, <1>4, <1>6 DEF Good, Names, CopiesRight, Quiet, Typed
  <2>4. QED
    BY <1>3, <2>1, <2>2, <2>3 DEF Good
<1>7. QED
  BY <1>3, <1>5, <1>6

LEMMA CatchUpQuiet ==
  ASSUME LockInv, ScanInv, DataInv, NEW t \in Threads,
         \/ BeginReplay(t) \/ CheckRedoLog(t) \/ CopyHead(t)
         \/ CopyCheck(t) /\ (loc[t].cp # curComb \/ loc[t].left # {})
  PROVE  QuietStep(t) /\ Good(t)'
<1>1. Typed(t) /\ Held(t) /\ Good(t)
  BY Known
<1> USE DEF sharedVars, nvmVars, volatileVars, lockVars, combVars, stateVars, reqVars,
        ghostVars, Goto
<1>2. CASE BeginReplay(t)
  <2>1. /\ QuietStep(t) /\ UNCHANGED <<nc, cc>> /\ pc[t] = "w_replay"
        /\ loc'[t].lt = loc[t].lt /\ loc'[t].op = loc[t].op /\ loc'[t].cl = loc[t].cl
        /\ loc'[t].undo = loc[t].undo /\ loc'[t].any = loc[t].any
    BY <1>1, <1>2, Loc0Facts DEF BeginReplay, QuietStep, Quiet, Typed
  <2>2. \/ pc'[t] = "c_init" /\ head[nc[t]] = INVALID
        \/ /\ pc'[t] = "w_redo" /\ head[nc[t]] # INVALID
           /\ loc'[t].la = head[nc[t]] /\ loc'[t].i = head[nc[t]].seq + 1
    BY <1>1, <1>2, Loc0Facts DEF BeginReplay, Typed
  <2>3. Content(nc[t])
    BY <1>1, <2>1 DEF Good, Replays, Fresh, Held, Filling
  <2>4. Names(t)'
    BY <1>1, <2>1, <2>2, NamesKept DEF Good, Names, QuietStep, Quiet, Based, Filling
  <2>5. Replays(t)'
    BY <2>1, <2>2, <2>3
       DEF Replays, QuietStep, Quiet, Content, Recorded, Holds, CommitSeqs, Commit, Fresh,
           Replaying
  <2>6. Drafts(t)' /\ CopiesRight(t)' /\ Works(t)'
    BY <1>1, <2>1, <2>2
       DEF Good, Drafts, CopiesRight, Works, QuietStep, Quiet, NewState, NewTicket, Drafted,
           Based, Working, Filling, Copying, Running, Flushing, Downgraded
  <2>7. QED
    BY <2>1, <2>4, <2>5, <2>6 DEF Good
<1>3. CASE CheckRedoLog(t)
  <2>1. /\ QuietStep(t) /\ UNCHANGED <<nc, cc>> /\ pc[t] = "w_redo_check" /\ loc' = loc
        /\ \/ pc'[t] = "w_redo_next" /\ StateOf(loc[t].tk).ticket = loc[t].tk
           \/ pc'[t] = "c_init"
    BY <1>1, <1>3 DEF CheckRedoLog, QuietStep, Quiet, Typed
  <2>2. Names(t)'
    BY <1>1, <2>1, NamesKept DEF Good, Names, QuietStep, Quiet, Based, Filling, Replaying
  <2>3. Replays(t)'
    BY <1>1, <2>1
       DEF Good, Replays, QuietStep, Quiet, Recorded, Holds, CommitSeqs, Commit, Fresh,
           Replaying
  <2>4. Drafts(t)' /\ CopiesRight(t)' /\ Works(t)'
    BY <1>1, <2>1
       DEF Good, Drafts, CopiesRight, Works, QuietStep, Quiet, NewState, NewTicket, Drafted,
           Based, Working, Filling, Copying, Replaying, Running, Flushing, Downgraded
  <2>5. QED
    BY <2>1, <2>2, <2>3, <2>4 DEF Good
<1>4. CASE CopyHead(t)
  <2>1. Quiet /\ UNCHANGED <<nc, cc, pcur>> /\ pc[t] = "c_head"
    BY <1>1, <1>4 DEF CopyHead, CopyRetry, Quiet, Typed
  <2>2. CASE CopyRetry(t)
    BY <2>1, <2>2, CopyRetryGood DEF QuietStep, Copying
  <2>3. CASE Break(t)
    <3>1. Content(nc[t])
      BY <1>1, <2>1 DEF Good, CopiesRight, Copying, Content
    <3>2. QED
      BY <2>1, <2>3, <3>1, QuietRetreat DEF QuietStep
  <2>4. CASE ~CopyRetry(t) /\ ~Break(t)
    <3>1. /\ loc[t].cp = curComb /\ pc'[t] = "c_copy"
          /\ loc'[t].tk = head[loc[t].cp.idx] /\ loc'[t].left = Addrs
          /\ loc'[t].cp = loc[t].cp
          /\ loc'[t].lt = loc[t].lt /\ loc'[t].op = loc[t].op /\ loc'[t].cl = loc[t].cl
          /\ loc'[t].undo = loc[t].undo /\ loc'[t].any = loc[t].any
      BY <1>1, <1>4, <2>4, Loc0Facts DEF CopyHead, Typed
    <3>2. Names(t)'
      BY <1>1, <2>1, <3>1, NamesKept DEF Good, Names, QuietStep, Quiet, Based, Filling, Copying
    <3>3. Recorded(curComb.seq, loc'[t].tk)
      BY <3>1 DEF DataInv, Shared, CurrentIntact
    <3>4. CopiesRight(t)'
      BY <1>1, <2>1, <3>1, <3>3
         DEF Good, CopiesRight, Quiet, Recorded, CommitSeqs, Commit, Copying
    <3>5. Drafts(t)' /\ Replays(t)' /\ Works(t)'
      BY <1>1, <2>1, <3>1
         DEF Good, Drafts, Replays, Works, Quiet, NewState, NewTicket, Drafted, Based, Fresh,
             Working, Filling, Copying, Replaying, Running, Flushing, Downgraded
    <3>6. QED
      BY <2>1, <3>1, <3>2, <3>4, <3>5 DEF Good, QuietStep
  <2>5. QED
    BY <2>2, <2>3, <2>4
<1>5. CASE CopyCheck(t) /\ (loc[t].cp # curComb \/ loc[t].left # {})
  <2>1. Quiet /\ UNCHANGED <<nc, cc, pcur>> /\ pc[t] = "c_check"
    BY <1>1, <1>5 DEF CopyCheck, CopyRetry, Quiet, Typed
  <2>2. CASE CopyRetry(t)
    BY <2>1, <2>2, CopyRetryGood DEF QuietStep, Copying
  <2>3. CASE ~CopyRetry(t)
    <3>1. pc'[t] = "c_copy" /\ loc' = loc
      BY <1>1, <1>5, <2>3 DEF CopyCheck, Typed
    <3>2. Names(t)'
      BY <1>1, <2>1, <3>1, NamesKept DEF Good, Names, Quiet, Based, Filling, Copying
    <3>3. CopiesRight(t)'
      BY <1>1, <2>1, <3>1
         DEF Good, CopiesRight, Quiet, Recorded, CommitSeqs, Commit, Copying
    <3>4. Drafts(t)' /\ Replays(t)' /\ Works(t)'
      BY <1>1, <2>1, <3>1
         DEF Good, Drafts, Replays, Works, Quiet, NewState, NewTicket, Drafted, Based, Fresh,
             Working, Filling, Copying, Replaying, Running, Flushing, Downgraded
    <3>5. QED
      BY <2>1, <3>1, <3>2, <3>3, <3>4 DEF Good, QuietStep
  <2>4. QED
    BY <2>2, <2>3
<1>6. QED
  BY <1>2, <1>3, <1>4, <1>5


(* A store without new words, and one that takes them all back.            *)
LEMMA OverNothing ==
  ASSUME NEW m \in Stores, NEW w, DOMAIN w = {}
  PROVE  Over(m, w) = m
BY DEF Over, Stores

LEMMA CommitTypes ==
  ASSUME DataInv, NEW s \in CommitSeqs
  PROVE  /\ Commit(s).mem \in Stores /\ Commit(s).tk \in Tickets
         /\ Commit(s).tk.seq = s /\ Commit(s).tk.tid \in Threads
         /\ Commit(s).tk.idx \in 0 .. STATESSIZE - 1
         /\ s \in Nat /\ s < Len(hist) /\ Len(hist) \in Nat
<1>1. hist \in Seq(Entries) /\ Len(hist) \in Nat
  BY DEF DataInv, Shared, DataTypes
<1>2. s + 1 \in 1 .. Len(hist)
  BY <1>1 DEF CommitSeqs
<1>3. Commit(s) \in Entries
  BY <1>1, <1>2 DEF Commit
<1>4. QED
  BY <1>1, <1>2, <1>3 DEF Entries, DataInv, Shared, History, CommitSeqs

LEMMA HelpQuiet ==
  ASSUME LockInv, ScanInv, DataInv, NEW t \in Threads,
         \/ Recheck(t) \/ HelpNext(t) \/ HelpProtected(t) \/ FlushCopyInit(t)
         \/ HelpRun(t) /\ ~Current(t)
         \/ MergeLines(t) /\ ~loc[t].any
  PROVE  QuietStep(t) /\ Good(t)'
<1>1. Typed(t) /\ Held(t) /\ Good(t) /\ LocShape(t)
  BY Known
<1> USE DEF sharedVars, nvmVars, volatileVars, lockVars, combVars, stateVars, reqVars,
        ghostVars, Goto
<1>2. CASE Recheck(t)
  <2>1. QuietStep(t) /\ UNCHANGED <<nc, cc>> /\ pc[t] = "w_recheck"
    BY <1>1, <1>2 DEF Recheck, Continue, QuietStep, Quiet, Typed
  <2>2. /\ Recorded(head[nc[t]].seq, head[nc[t]]) /\ Holds(nc[t], head[nc[t]].seq)
        /\ head[nc[t]].seq >= cc[t].seq
    BY <1>1, <2>1 DEF Good, Works
  <2>3. CASE Continue(t)
    BY <2>1, <2>2, <2>3, QuietRetreat DEF QuietStep, Content
  <2>4. CASE ~Continue(t)
    <3>1. /\ cc[t] = curComb /\ pc'[t] = "w_help" /\ loc'[t].any = FALSE
          /\ loc'[t].lt = loc[t].lt /\ loc'[t].op = loc[t].op /\ loc'[t].cl = loc[t].cl
          /\ loc'[t].undo = loc[t].undo
      BY <1>1, <1>2, <2>4, Loc0Facts DEF Recheck, Current, Typed
    <3>2. Names(t)'
      BY <1>1, <2>1, <3>1, NamesKept DEF Good, Names, QuietStep, Quiet, Based, Filling, Running
    <3>3. Drafts(t)' /\ Replays(t)' /\ CopiesRight(t)'
      BY <1>1, <2>1, <3>1
         DEF Good, Drafts, Replays, CopiesRight, QuietStep, Quiet, NewState, NewTicket, Drafted,
             Based, Fresh, Filling, Copying, Replaying, Running, Flushing, Downgraded
    <3>4. head[nc[t]].seq = cc[t].seq /\ Len(hist) = cc[t].seq + 1
      <4>1. head[nc[t]].seq \in CommitSeqs /\ Len(hist) = curComb.seq + 1
        BY <2>2 DEF Recorded, DataInv, Shared, History
      <4>2. QED
        BY <1>1, <2>2, <3>1, <4>1, CommitTypes DEF Typed
    <3>5. Recorded(cc[t].seq, loc[t].lt)
      BY <1>1, <2>1 DEF Good, Names, Based, Filling
    <3>6. /\ head[nc[t]] = loc[t].lt /\ mem[nc[t]] = Commit(cc[t].seq).mem
          /\ Commit(cc[t].seq).mem \in Stores
      BY <2>2, <3>4, <3>5, CommitTypes DEF Recorded, Holds
    <3>7. DOMAIN NewState(t).log = {} /\ DOMAIN loc[t].undo = {}
      BY <1>1, <2>1 DEF Good, Drafts, Drafted, Based, Filling, Working, Running, Flushing,
                        Downgraded
    <3>8. mem[nc[t]] = Over(Commit(cc[t].seq).mem, NewState(t).log)
      BY <3>6, <3>7, OverNothing
    <3>9. \A u \in Threads : cc[u].seq <= cc[t].seq
      BY <3>1 DEF DataInv, Good, Names
    <3>10. Works(t)'
      BY <2>1, <3>1, <3>6, <3>7, <3>8, <3>9
         DEF Works, QuietStep, Quiet, CommitSeqs, Commit, NewState, Downgraded
    <3>11. QED
      BY <2>1, <3>2, <3>3, <3>10 DEF Good
  <2>5. QED
    BY <2>3, <2>4
<1>3. CASE HelpNext(t)
  <2>1. /\ QuietStep(t) /\ UNCHANGED <<nc, cc>> /\ pc[t] = "w_help"
        /\ pc'[t] \in {"w_help", "w_protect", "w_merge"}
        /\ loc'[t].lt = loc[t].lt /\ loc'[t].cl = loc[t].cl
        /\ loc'[t].undo = loc[t].undo /\ loc'[t].any = loc[t].any
        /\ \/ pc'[t] # "w_protect" /\ loc'[t].op = loc[t].op
           \/ /\ pc'[t] = "w_protect" /\ loc[t].i # MaxThreads
              /\ loc'[t].i = loc[t].i /\ loc'[t].op = enqueuers[loc[t].i]
              /\ announce[loc[t].i] # NewState(t).applied[loc[t].i]
    BY <1>1, <1>3, Loc0Facts DEF HelpNext, QuietStep, Quiet, Typed
  <2>2. ASSUME pc'[t] = "w_protect"
        PROVE  enqueuers[loc[t].i] \in Ops \ {NONE}
    <3>1. loc[t].i \in Threads
      BY <1>1, <2>1, <2>2, RedoAssumption DEF LocShape, Threads
    <3>2. lastIdx[t] \in 0 .. STATESSIZE - 1 /\ enqueuers[loc[t].i] \in Ops
      BY <3>1 DEF DataInv, Shared, DataTypes
    <3>3. NewState(t).applied \in [Threads -> BOOLEAN] /\ announce \in [Threads -> BOOLEAN]
      BY <3>2 DEF DataInv, Shared, DataTypes, StateTypes, StateOK, NewState
    <3>4. enqueuers[loc[t].i] = NONE =>
            ~announce[loc[t].i] /\ ~NewState(t).applied[loc[t].i]
      BY <3>1, <3>2 DEF DataInv, Shared, Silent, NewState
    <3>5. QED
      BY <2>1, <2>2, <3>1, <3>2, <3>3, <3>4
  <2>3. Names(t)'
    BY <1>1, <2>1, <2>2, NamesKept DEF Good, Names, QuietStep, Quiet, Based, Filling, Running
  <2>4. Drafts(t)'
    BY <1>1, <2>1, <2>2
       DEF Good, Drafts, QuietStep, Quiet, NewState, NewTicket, Drafted, Based, Filling,
           Running, Downgraded
  <2>5. Replays(t)' /\ CopiesRight(t)'
    BY <2>1 DEF Replays, CopiesRight, Fresh, Replaying, Copying
  <2>6. Works(t)'
    BY <1>1, <2>1
       DEF Good, Works, QuietStep, Quiet, CommitSeqs, Commit, NewState, NewTicket, Working,
           Running, Downgraded
  <2>7. QED
    BY <2>1, <2>3, <2>4, <2>5, <2>6 DEF Good
<1>4. CASE HelpProtected(t) \/ (HelpRun(t) /\ ~Current(t))
  <2>1. /\ QuietStep(t) /\ UNCHANGED <<nc, cc>>
        /\ loc'[t].lt = loc[t].lt /\ loc'[t].cl = loc[t].cl
        /\ loc'[t].undo = loc[t].undo /\ loc'[t].any = loc[t].any
        /\ \/ pc'[t] = "w_merge" /\ pc[t] \in {"w_protect", "w_run"} /\ loc'[t].op = NONE
           \/ pc'[t] = "w_run" /\ pc[t] = "w_protect" /\ loc' = loc
    <3>1. CASE HelpProtected(t)
      BY <1>1, <3>1, Loc0Facts DEF HelpProtected, QuietStep, Quiet, Typed
    <3>2. CASE HelpRun(t) /\ ~Current(t)
      BY <1>1, <3>2, Loc0Facts DEF HelpRun, QuietStep, Quiet, Typed
    <3>3. QED
      BY <1>4, <3>1, <3>2
  <2>2. Names(t)'
    BY <1>1, <2>1, NamesKept DEF Good, Names, QuietStep, Quiet, Based, Filling, Running, Ops
  <2>3. Drafts(t)'
    BY <1>1, <2>1
       DEF Good, Drafts, QuietStep, Quiet, NewState, NewTicket, Drafted, Based, Filling,
           Running, Downgraded
  <2>4. Replays(t)' /\ CopiesRight(t)'
    BY <2>1 DEF Replays, CopiesRight, Fresh, Replaying, Copying
  <2>5. Works(t)'
    BY <1>1, <2>1
       DEF Good, Works, QuietStep, Quiet, CommitSeqs, Commit, NewState, NewTicket, Working,
           Running, Downgraded
  <2>6. QED
    BY <2>1, <2>2, <2>3, <2>4, <2>5 DEF Good
<1>5. CASE FlushCopyInit(t)
  <2>1. /\ QuietStep(t) /\ UNCHANGED <<nc, cc>>
        /\ pc[t] = "w_flush_copy" /\ pc'[t] = "w_flush_all"
        /\ loc'[t].lt = loc[t].lt /\ loc'[t].op = loc[t].op /\ loc'[t].cl = loc[t].cl
        /\ loc'[t].undo = loc[t].undo /\ loc'[t].any = loc[t].any
    BY <1>1, <1>5, Loc0Facts DEF FlushCopyInit, QuietStep, Quiet, Typed
  <2>2. Names(t)'
    BY <1>1, <2>1, NamesKept DEF Good, Names, QuietStep, Quiet, Based, Filling, Flushing
  <2>3. Drafts(t)' /\ Replays(t)' /\ CopiesRight(t)'
    BY <1>1, <2>1
       DEF Good, Drafts, Replays, CopiesRight, QuietStep, Quiet, NewState, NewTicket, Drafted,
           Based, Fresh, Filling, Running, Flushing, Downgraded, Replaying, Copying
  <2>4. Works(t)'
    BY <1>1, <2>1
       DEF Good, Works, QuietStep, Quiet, CommitSeqs, Commit, NewState, NewTicket, Working,
           Flushing, Downgraded
  <2>5. QED
    BY <2>1, <2>2, <2>3, <2>4 DEF Good
<1>6. CASE MergeLines(t) /\ ~loc[t].any
  <2>1. QuietStep(t) /\ UNCHANGED <<nc, cc>> /\ pc[t] = "w_merge" /\ Continue(t)
    BY <1>1, <1>6 DEF MergeLines, Continue, QuietStep, Quiet, Typed
  <2>2. /\ DOMAIN loc[t].undo = {} /\ DOMAIN NewState(t).log = {}
        /\ Recorded(cc[t].seq, loc[t].lt)
    BY <1>1, <1>6, <2>1 DEF Good, Drafts, Names, Running, Drafted, Based, Filling
  <2>3. /\ mem[nc[t]] = Over(Commit(cc[t].seq).mem, NewState(t).log)
        /\ head[nc[t]] = loc[t].lt
    BY <1>1, <2>1 DEF Good, Works, Working, Running, Downgraded
  <2>4. Content(nc[t])
    <3>1. cc[t].seq \in CommitSeqs /\ loc[t].lt.seq = cc[t].seq
      BY <2>2, CommitTypes DEF Recorded
    <3>2. mem[nc[t]] = Commit(cc[t].seq).mem
      BY <2>2, <2>3, <3>1, OverNothing, CommitTypes
    <3>3. QED
      BY <2>2, <2>3, <3>1, <3>2 DEF Content, Recorded, Holds
  <2>5. QED
    BY <2>1, <2>4, QuietRetreat DEF QuietStep
<1>7. QED
  BY <1>2, <1>3, <1>4, <1>5, <1>6


(* The head of a replica is the ticket of a commit, unless its content is  *)
(* invalid or somebody is about to publish it.                             *)
LEMMA HeadKnown ==
  ASSUME LockInv, ScanInv, DataInv, NEW c \in Combs
  PROVE  \/ head[c] = INVALID \/ Recorded(head[c].seq, head[c])
         \/ \E u \in Threads : nc[u] = c /\ pc[u] \in Downgraded
<1>1. CASE \A u \in Threads : nc[u] # c
  BY <1>1 DEF DataInv, Shared, FreeContent, Content
<1>2. CASE \E u \in Threads : nc[u] = c /\ pc[u] \notin Downgraded
  <2>1. PICK u \in Threads : nc[u] = c /\ pc[u] \notin Downgraded
    BY <1>2
  <2>2. Typed(u) /\ Held(u) /\ Good(u) /\ nc[u] # NONE /\ pc[u] # "c_assert_false"
    BY <2>1, Known, NoneIsNoReplica DEF ScanInv, Scan
  <2>3. pc[u] \in Either \union Filling
    BY <2>1, <2>2 DEF Held, Without, Either, Filling, Downgraded, Sharing, Replaying, Copying,
       Running, Flushing, Typed, Locations
  <2>4. CASE pc[u] \in Fresh
    BY <2>1, <2>2, <2>4 DEF Good, Replays, Content
  <2>5. CASE pc[u] \in {"w_redo"} \union Replaying
    BY <2>1, <2>2, <2>5 DEF Good, Replays
  <2>6. CASE pc[u] = "c_init"
    BY <2>1, <2>2, <2>6 DEF Good, Replays
  <2>7. CASE pc[u] \in Copying
    BY <2>1, <2>2, <2>7 DEF Good, CopiesRight
  <2>8. CASE pc[u] = "w_recheck"
    BY <2>1, <2>2, <2>8 DEF Good, Works
  <2>9. CASE pc[u] \in Running \union Flushing
    <3>1. head[c] = loc[u].lt /\ Recorded(cc[u].seq, loc[u].lt)
      BY <2>1, <2>2, <2>9 DEF Good, Works, Names, Working, Based, Filling
    <3>2. QED
      BY <3>1, CommitTypes DEF Recorded
  <2>10. QED
    BY <2>2, <2>3, <2>4, <2>5, <2>6, <2>7, <2>8, <2>9 DEF Either, Filling, Fresh
<1>3. QED
  BY <1>1, <1>2

LEMMA FinishQuiet ==
  ASSUME LockInv, ScanInv, DataInv, NEW t \in Threads,
         \/ UnlockOld(t) \/ ExitUnlock(t) \/ ExitHead(t) \/ ExitRing(t) \/ ExitAdvance(t)
         \/ FetchResult(t)
         \/ Publish(t) /\ ~Current(t)
         \/ AdvanceRead(t) /\ ring[Slot(cc[t].seq + 1)].seq < cc[t].seq + 1
  PROVE  QuietStep(t) /\ Good(t)'
<1>1. Typed(t) /\ Held(t) /\ Good(t)
  BY Known
<1>2. Ticket0.seq <= curComb.seq
  BY <1>1 DEF Typed, Ticket0, SeqTidIdx
<1>3. NONE \in Ops /\ <<>> \in LineSeqs /\ Loc0.op = NONE /\ Loc0.cl = <<>>
  BY DEF Ops, LineSeqs, Loc0
<1> USE DEF sharedVars, nvmVars, volatileVars, lockVars, combVars, stateVars, reqVars,
        ghostVars, Goto, Set
<1>4. CASE UnlockOld(t) \/ (AdvanceRead(t) /\ ring[Slot(cc[t].seq + 1)].seq < cc[t].seq + 1)
  <2>1. /\ QuietStep(t) /\ UNCHANGED <<nc, cc>> /\ nc[t] = NONE
        /\ pc[t] \in {"w_unlock", "w_advance"} /\ pc'[t] \in {"w_advance", "w_advance_cas"}
        /\ loc'[t].op = loc[t].op /\ loc'[t].cl = loc[t].cl
    <3>1. CASE UnlockOld(t)
      BY <1>1, <3>1 DEF UnlockOld, QuietStep, Quiet, Typed, Held
    <3>2. CASE AdvanceRead(t) /\ ring[Slot(cc[t].seq + 1)].seq < cc[t].seq + 1
      BY <1>1, <3>2, Loc0Facts DEF AdvanceRead, QuietStep, Quiet, Typed, Held, Without
    <3>3. QED
      BY <1>4, <3>1, <3>2
  <2>2. Names(t)'
    BY <1>1, <2>1
       DEF Good, Names, QuietStep, Quiet, Recorded, CommitSeqs, Commit, NewTicket, Based,
           Filling, Replaying, Copying, Running, Flushing, Downgraded
  <2>3. Drafts(t)' /\ Replays(t)' /\ CopiesRight(t)' /\ Works(t)'
    BY <2>1 DEF Drafts, Replays, CopiesRight, Works, Drafted, Based, Fresh, Filling, Replaying,
                Copying, Working, Running, Flushing, Downgraded
  <2>4. QED
    BY <2>1, <2>2, <2>3 DEF Good
<1>5. CASE ExitUnlock(t)
  <2>1. /\ Quiet /\ UNCHANGED <<cc, pcur>> /\ nc'[t] = NONE /\ pc[t] = "w_exit"
        /\ pc'[t] = "x_load" /\ loc'[t] = Loc0
    BY <1>1, <1>5 DEF ExitUnlock, Quiet, Typed
  <2>2. nc[t] = NONE \/ Content(nc[t])
    BY <1>1, <2>1 DEF Good, Replays, Fresh
  <2>3. Good(t)'
    BY <1>1, <1>3, <2>1, Rests DEF Good, Names, Resting, Quiet
  <2>4. QED
    BY <2>1, <2>2, <2>3 DEF QuietStep
<1>6. CASE ExitHead(t)
  <2>1. /\ QuietStep(t) /\ UNCHANGED <<nc, cc>> /\ nc[t] = NONE /\ pc[t] = "x_head"
        /\ loc'[t].op = loc[t].op /\ loc'[t].cl = loc[t].cl
        /\ \/ /\ pc'[t] = "x_advance" /\ head[cc[t].idx].seq = cc[t].seq
              /\ loc'[t].tk = head[cc[t].idx]
           \/ pc'[t] = "x_ring"
    BY <1>1, <1>6, Loc0Facts DEF ExitHead, FetchHead, QuietStep, Quiet, Typed, Held, Without
  <2>2. CASE pc'[t] = "x_ring"
    BY <1>1, <2>1, <2>2, Rests DEF Good, Names, Resting, QuietStep, Quiet
  <2>3. CASE pc'[t] = "x_advance"
    <3>1. cc[t].idx \in Combs
      BY <1>1 DEF Typed, Places
    <3>2. cc[t].seq = 0 \/ Recorded(cc[t].seq, loc'[t].tk)
      <4>1. CASE \E u \in Threads : nc[u] = cc[t].idx /\ pc[u] \in Downgraded
        <5>1. PICK u \in Threads : nc[u] = cc[t].idx /\ pc[u] \in Downgraded
          BY <4>1
        <5>2. Good(u) /\ cc[u] \in Places
          BY DEF DataInv, LockInv, LockTypes
        <5>3. head[cc[t].idx] = NewTicket(u) /\ cc[t].seq <= cc[u].seq
          BY <5>1, <5>2 DEF Good, Works, Working
        <5>4. head[cc[t].idx].seq = cc[u].seq + 1
          BY <5>3 DEF NewTicket, SeqTidIdx
        <5>5. QED
          BY <1>1, <2>1, <2>3, <5>2, <5>3, <5>4 DEF Typed, Places
      <4>2. CASE head[cc[t].idx] = INVALID
        BY <2>1, <2>3, <4>2 DEF INVALID, SeqTidIdx
      <4>3. CASE Recorded(head[cc[t].idx].seq, head[cc[t].idx])
        BY <2>1, <2>3, <4>3
      <4>4. QED
        BY <3>1, <4>1, <4>2, <4>3, HeadKnown
    <3>3. Names(t)'
      BY <1>1, <2>1, <2>3, <3>2
         DEF Good, Names, QuietStep, Quiet, Recorded, CommitSeqs, Commit, Based, Filling,
             Replaying, Copying, Running, Flushing, Downgraded
    <3>4. Drafts(t)' /\ Replays(t)' /\ CopiesRight(t)' /\ Works(t)'
      BY <2>3 DEF Drafts, Replays, CopiesRight, Works, Drafted, Based, Fresh, Filling,
                  Replaying, Copying, Working, Running, Flushing, Downgraded
    <3>5. QED
      BY <2>1, <3>3, <3>4 DEF Good
  <2>4. QED
    BY <2>1, <2>2, <2>3
<1>7. CASE ExitAdvance(t)
  <2>1. /\ QuietStep(t) /\ UNCHANGED <<nc, cc>> /\ nc[t] = NONE /\ pc[t] = "x_advance"
        /\ loc'[t].op = loc[t].op /\ loc'[t].cl = loc[t].cl /\ loc'[t].tk = loc[t].tk
        /\ \/ pc'[t] = "x_advance_cas" /\ ring[Slot(cc[t].seq)].seq < cc[t].seq
           \/ pc'[t] = "x_result"
    BY <1>1, <1>7, Loc0Facts DEF ExitAdvance, QuietStep, Quiet, Typed, Held, Without
  <2>2. CASE pc'[t] = "x_result"
    BY <1>1, <2>1, <2>2, Rests DEF Good, Names, Resting, QuietStep, Quiet
  <2>3. CASE pc'[t] = "x_advance_cas"
    <3>1. Slot(cc[t].seq) \in 0 .. RINGSIZE - 1
      BY <1>1, RedoAssumption, SMTT(60) DEF Typed, Slot
    <3>2. ring[Slot(cc[t].seq)].seq \in Nat
      BY <3>1 DEF DataInv, Shared, DataTypes, Tickets
    <3>3. Recorded(cc[t].seq, loc[t].tk)
      BY <1>1, <2>1, <2>3, <3>2 DEF Good, Names, Typed
    <3>4. Names(t)'
      BY <1>1, <2>1, <2>3, <3>3
         DEF Good, Names, QuietStep, Quiet, Recorded, CommitSeqs, Commit, Based, Filling,
             Replaying, Copying, Running, Flushing, Downgraded
    <3>5. Drafts(t)' /\ Replays(t)' /\ CopiesRight(t)' /\ Works(t)'
      BY <2>3 DEF Drafts, Replays, CopiesRight, Works, Drafted, Based, Fresh, Filling,
                  Replaying, Copying, Working, Running, Flushing, Downgraded
    <3>6. QED
      BY <2>1, <3>4, <3>5 DEF Good
  <2>4. QED
    BY <2>1, <2>2, <2>3
<1>8. CASE ExitRing(t) \/ FetchResult(t)
  <2>1. /\ QuietStep(t) /\ nc' = nc /\ nc[t] = NONE /\ pc'[t] \in {"x_result", "idle"}
        /\ cc'[t] \in {cc[t], Ticket0}
        /\ \/ loc'[t].op = loc[t].op /\ loc'[t].cl = loc[t].cl
           \/ loc'[t] = Loc0
    <3>1. CASE ExitRing(t)
      BY <1>1, <3>1, Loc0Facts DEF ExitRing, QuietStep, Quiet, Typed, Held, Without
    <3>2. CASE FetchResult(t)
      BY <1>1, <3>2 DEF FetchResult, Return, QuietStep, Quiet, Typed, Held, Without
    <3>3. QED
      BY <1>8, <3>1, <3>2
  <2>2. QED
    BY <1>1, <1>2, <1>3, <2>1, Rests DEF Good, Names, Resting, QuietStep, Quiet
<1>9. CASE Publish(t) /\ ~Current(t)
  <2>1. /\ QuietStep(t) /\ UNCHANGED <<nc, cc, loc>> /\ pc[t] = "w_publish"
        /\ pc'[t] = "w_lost"
    BY <1>1, <1>9 DEF Publish, QuietStep, Quiet, Typed
  <2>2. Names(t)'
    BY <1>1, <2>1, NamesKept DEF Good, Names, QuietStep, Quiet, Based, Downgraded
  <2>3. Drafts(t)' /\ Replays(t)' /\ CopiesRight(t)'
    BY <1>1, <2>1
       DEF Good, Drafts, Replays, CopiesRight, QuietStep, Quiet, NewState, NewTicket, Drafted,
           Based, Fresh, Filling, Running, Flushing, Downgraded, Replaying, Copying
  <2>4. Works(t)'
    BY <1>1, <2>1
       DEF Good, Works, QuietStep, Quiet, CommitSeqs, Commit, NewState, NewTicket, Working,
           Downgraded
  <2>5. QED
    BY <2>1, <2>2, <2>3, <2>4 DEF Good
<1>10. QED
  BY <1>4, <1>5, <1>6, <1>7, <1>8, <1>9


LEMMA ReadQuiet ==
  ASSUME LockInv, ScanInv, DataInv, NEW t \in Threads,
         \/ BeginRead(t) \/ ReadLock(t) \/ ReadCheck(t) \/ ReadWord(t) \/ ReadLeave(t)
         \/ ReadUnlock(t) \/ ReadReturn(t) \/ FallbackHead(t)
  PROVE  QuietStep(t) /\ Good(t)'
<1>1. Typed(t) /\ Held(t) /\ Good(t)
  BY Known
<1>2. Ticket0.seq <= curComb.seq
  BY <1>1 DEF Typed, Ticket0, SeqTidIdx
<1>3. NONE \in Ops /\ <<>> \in LineSeqs /\ Loc0.op = NONE /\ Loc0.cl = <<>>
  BY DEF Ops, LineSeqs, Loc0
<1>4. \A n : TryLocation(n) \in {"f_load", "r_enqueue", "r_load"}
  BY DEF TryLocation
<1>5. loc[t].op \in Ops /\ loc[t].cl \in LineSeqs /\ cc[t].seq <= curComb.seq
  BY <1>1 DEF Good, Names
<1> USE DEF sharedVars, nvmVars, volatileVars, lockVars, combVars, stateVars, reqVars,
        ghostVars, Goto, Set
<1>6. CASE BeginRead(t) \/ ReadLock(t) \/ ReadLeave(t)
  <2>1. /\ QuietStep(t) /\ nc' = nc /\ cc' = cc /\ nc[t] = NONE
        /\ pc'[t] \in {"f_load", "r_enqueue", "r_load", "r_check"}
        /\ loc'[t].op = loc[t].op /\ loc'[t].cl = loc[t].cl
    <3>1. CASE BeginRead(t)
      BY <1>1, <1>4, <3>1 DEF BeginRead, Open, QuietStep, Quiet, Typed, Held, Without
    <3>2. CASE ReadLock(t)
      BY <1>1, <1>4, <3>2, Loc0Facts
         DEF ReadLock, NextTry, QuietStep, Quiet, Typed, Held, Without
    <3>3. CASE ReadLeave(t)
      BY <1>1, <1>4, <3>3, Loc0Facts
         DEF ReadLeave, NextTry, QuietStep, Quiet, Typed, Held, Sharing
    <3>4. QED
      BY <1>6, <3>1, <3>2, <3>3
  <2>2. QED
    BY <1>5, <2>1, Rests DEF Resting, QuietStep, Quiet
<1>7. CASE ReadCheck(t)
  <2>1. /\ QuietStep(t) /\ UNCHANGED <<nc, cc>> /\ nc[t] = NONE
        /\ loc'[t].op = loc[t].op /\ loc'[t].cl = loc[t].cl
        /\ \/ pc'[t] = "r_run" /\ cc[t] = curComb /\ loc'[t].tk = head[curComb.idx]
           \/ pc'[t] = "r_leave"
    BY <1>1, <1>7, Loc0Facts DEF ReadCheck, Current, QuietStep, Quiet, Typed, Held, Sharing
  <2>2. CASE pc'[t] = "r_leave"
    BY <1>5, <2>1, <2>2, Rests DEF Resting, QuietStep, Quiet
  <2>3. CASE pc'[t] = "r_run"
    <3>1. Holds(cc[t].idx, cc[t].seq) /\ Recorded(cc[t].seq, loc'[t].tk)
      BY <2>1, <2>3 DEF DataInv, Shared, CurrentIntact
    <3>2. \A u \in Threads : nc[u] # cc[t].idx
      <4>1. ASSUME NEW u \in Threads, nc[u] = cc[t].idx PROVE FALSE
        <5>1. nc[u] # NONE /\ Held(u) /\ nc[u] = curComb.idx
          BY <1>1, <2>1, <2>3, <4>1, NoneIsNoReplica DEF LockInv, Typed, Places
        <5>2. QED
          BY <5>1 DEF Held, Claim
      <4>2. QED
        BY <4>1
    <3>3. Names(t)'
      BY <1>5, <2>1, <2>3, <3>1, <3>2
         DEF Names, QuietStep, Quiet, Recorded, Holds, CommitSeqs, Commit, Based, Filling,
             Replaying, Copying, Running, Flushing, Downgraded
    <3>4. Drafts(t)' /\ Replays(t)' /\ CopiesRight(t)' /\ Works(t)'
      BY <2>3 DEF Drafts, Replays, CopiesRight, Works, Drafted, Based, Fresh, Filling,
                  Replaying, Copying, Working, Running, Flushing, Downgraded
    <3>5. QED
      BY <2>1, <3>3, <3>4 DEF Good
  <2>4. QED
    BY <2>1, <2>2, <2>3
<1>8. CASE ReadWord(t)
  <2>1. /\ QuietStep(t) /\ UNCHANGED <<nc, cc>> /\ nc[t] = NONE /\ pc[t] = "r_run"
        /\ loc'[t].op = loc[t].op /\ loc'[t].cl = loc[t].cl /\ loc'[t].tk = loc[t].tk
        /\ pc'[t] \in {"r_unlock", "r_run"}
    BY <1>1, <1>8, Loc0Facts DEF ReadWord, QuietStep, Quiet, Typed, Held, Sharing
  <2>2. CASE pc'[t] = "r_unlock"
    BY <1>5, <2>1, <2>2, Rests DEF Resting, QuietStep, Quiet
  <2>3. CASE pc'[t] = "r_run"
    <3>1. Names(t)'
      BY <1>1, <2>1, <2>3
         DEF Good, Names, QuietStep, Quiet, Recorded, Holds, CommitSeqs, Commit, Based, Filling,
             Replaying, Copying, Running, Flushing, Downgraded
    <3>2. Drafts(t)' /\ Replays(t)' /\ CopiesRight(t)' /\ Works(t)'
      BY <2>3 DEF Drafts, Replays, CopiesRight, Works, Drafted, Based, Fresh, Filling,
                  Replaying, Copying, Working, Running, Flushing, Downgraded
    <3>3. QED
      BY <2>1, <3>1, <3>2 DEF Good
  <2>4. QED
    BY <2>1, <2>2, <2>3
<1>9. CASE ReadUnlock(t) \/ FallbackHead(t)
  <2>1. /\ QuietStep(t) /\ UNCHANGED <<nc, cc>> /\ nc[t] = NONE
        /\ pc'[t] \in {"r_ring", "x_result", "x_ring"}
        /\ loc'[t].op = loc[t].op /\ loc'[t].cl = loc[t].cl
    <3>1. CASE ReadUnlock(t)
      BY <1>1, <3>1 DEF ReadUnlock, QuietStep, Quiet, Typed, Held, Sharing
    <3>2. CASE FallbackHead(t)
      BY <1>1, <3>2, Loc0Facts
         DEF FallbackHead, FencedCurComb, FetchHead, QuietStep, Quiet, Typed, Held, Without
    <3>3. QED
      BY <1>9, <3>1, <3>2
  <2>2. QED
    BY <1>5, <2>1, Rests DEF Resting, QuietStep, Quiet
<1>10. CASE ReadReturn(t)
  <2>1. /\ QuietStep(t) /\ nc' = nc /\ nc[t] = NONE /\ pc'[t] = "idle"
        /\ cc'[t] = Ticket0 /\ loc'[t] = Loc0
    <3>1. /\ Quiet \/ UNCHANGED nvmVars \/ FencedCurComb(curComb.seq)
          /\ pc'[t] = "idle" /\ nc' = nc /\ nc[t] = NONE
          /\ cc'[t] = Ticket0 /\ loc'[t] = Loc0
          /\ UNCHANGED volatileVars /\ hist' = hist
      BY <1>1, <1>10 DEF ReadReturn, Return, Typed, Held, Without
    <3>2. UNCHANGED <<curComb, mem, pm>> /\ pcur' \subseteq pcur
      BY <1>10 DEF ReadReturn, FencedCurComb
    <3>3. QED
      BY <3>1, <3>2 DEF QuietStep, Quiet
  <2>2. QED
    BY <1>2, <1>3, <2>1, Rests DEF Resting, QuietStep, Quiet
<1>11. QED
  BY <1>6, <1>7, <1>8, <1>9, <1>10

LEMMA ReplayQuiet ==
  ASSUME LockInv, ScanInv, DataInv, NEW t \in Threads,
         \/ ReplayNext(t) /\ loc[t].i # loc[t].lt.seq + 1
         \/ Replayed(t) /\ ~(curComb.seq >= loc[t].init + 2)
  PROVE  QuietStep(t) /\ Good(t)'
<1>1. Typed(t) /\ Held(t) /\ Good(t)
  BY Known
<1> USE DEF sharedVars, nvmVars, volatileVars, lockVars, combVars, stateVars, reqVars,
        ghostVars, Goto, Set
<1>2. CASE ReplayNext(t) /\ loc[t].i # loc[t].lt.seq + 1
  <2> DEFINE n == loc[t].i
             tk == ring[Slot(n)]
  <2>1. /\ QuietStep(t) /\ UNCHANGED <<nc, cc>> /\ pc[t] = "w_redo"
        /\ pc'[t] \in {"c_init", "w_redo_next", "w_redo_copy"}
        /\ pc'[t] = "c_init" => loc' = loc
        /\ loc'[t].lt = loc[t].lt /\ loc'[t].op = loc[t].op /\ loc'[t].cl = loc[t].cl
        /\ loc'[t].undo = loc[t].undo /\ loc'[t].any = loc[t].any
        /\ loc'[t].la = loc[t].la /\ loc'[t].i = n
    BY <1>1, <1>2, Loc0Facts DEF ReplayNext, QuietStep, Quiet, Typed
  <2>2. pc'[t] # "c_init" =>
          /\ ~(n > loc[t].lt.seq) /\ tk.seq = n /\ loc'[t].tk = tk
          /\ StateOf(tk).ticket = tk
          /\ pc'[t] = "w_redo_next" => StateOf(tk).logSize = 0
    BY <1>1, <1>2, Loc0Facts DEF ReplayNext, Typed
  <2>3. /\ Recorded(loc[t].la.seq, loc[t].la) /\ head[nc[t]] = loc[t].la
        /\ n \in Nat /\ n > loc[t].la.seq /\ Holds(nc[t], n - 1)
    BY <1>1, <2>1 DEF Good, Replays
  <2>4. Names(t)'
    BY <1>1, <2>1, NamesKept DEF Good, Names, QuietStep, Quiet, Based, Filling, Replaying
  <2>5. Drafts(t)' /\ CopiesRight(t)' /\ Works(t)'
    BY <1>1, <2>1
       DEF Good, Drafts, CopiesRight, Works, QuietStep, Quiet, NewState, NewTicket, Drafted,
           Based, Working, Filling, Copying, Replaying, Running, Flushing, Downgraded
  <2>6. CASE pc'[t] = "c_init"
    <3>1. Replays(t)'
      BY <2>1, <2>3, <2>6
         DEF Replays, QuietStep, Quiet, Recorded, CommitSeqs, Commit, Fresh, Replaying
    <3>2. QED
      BY <2>1, <2>4, <2>5, <3>1 DEF Good
  <2>7. CASE pc'[t] # "c_init"
    <3>1. Recorded(n, tk)
      <4>1. Slot(n) \in 0 .. RINGSIZE - 1
        BY <2>3, RedoAssumption, SMTT(60) DEF Slot
      <4>2. Recorded(tk.seq, tk)
        BY <4>1 DEF DataInv, Shared, Ring
      <4>3. QED
        BY <2>2, <2>7, <4>2
    <3>2. loc[t].lt.seq \in Nat /\ loc[t].la.seq \in Nat
      BY <1>1, <2>1, <2>3, CommitTypes DEF Good, Names, Based, Filling, Recorded
    <3>3. StateOf(tk).logSize = 0 => Holds(nc[t], n)
      <4>1. SUFFICES ASSUME StateOf(tk).logSize = 0 PROVE Holds(nc[t], n)
        OBVIOUS
      <4>2. tk = Commit(n).tk /\ n \in CommitSeqs /\ n > 0 /\ Logged(n)
        BY <2>3, <3>1, <3>2 DEF Recorded, DataInv, Shared, History
      <4>3. /\ Commit(n).mem = Over(Commit(n - 1).mem, StateOf(tk).log)
            /\ StateOf(tk).logSize = Cardinality(DOMAIN StateOf(tk).log)
        BY <2>2, <2>7, <4>2, SMTT(60) DEF Logged
      <4>4. DOMAIN StateOf(tk).log \subseteq Addrs
        BY <4>2, CommitTypes DEF DataInv, Shared, StateTypes, StateOK, Partial, StateOf
      <4>5. DOMAIN StateOf(tk).log = {}
        BY <4>1, <4>3, <4>4, RedoAssumption, FS_Subset, FS_EmptySet
      <4>6. n - 1 \in CommitSeqs /\ mem[nc[t]] = Commit(n - 1).mem
        BY <2>3 DEF Holds
      <4>7. QED
        BY <4>2, <4>3, <4>5, <4>6, CommitTypes, OverNothing DEF Holds
    <3>4. Replays(t)'
      <4>1. n <= loc[t].lt.seq /\ loc'[t].tk = tk
        BY <2>2, <2>3, <2>7, <3>2
      <4>2. /\ nc' = nc /\ mem' = mem /\ head' = head /\ hist' = hist
            /\ pc'[t] \in {"w_redo_copy", "w_redo_next"}
        BY <2>1, <2>7 DEF QuietStep, Quiet
      <4>3. pc'[t] = "w_redo_next" => Holds(nc[t], n)
        BY <2>2, <2>7, <3>3
      <4>4. QED
        BY <2>1, <2>3, <3>1, <4>1, <4>2, <4>3
           DEF Replays, Recorded, Holds, CommitSeqs, Commit, Fresh, Replaying
    <3>5. QED
      BY <2>1, <2>4, <2>5, <3>4 DEF Good
  <2>8. QED
    BY <2>6, <2>7
<1>3. CASE Replayed(t) /\ ~(curComb.seq >= loc[t].init + 2)
  <2>1. /\ QuietStep(t) /\ UNCHANGED <<nc, cc>> /\ pc[t] = "w_redo_next"
        /\ pc'[t] = "w_redo" /\ loc'[t].i = loc[t].i + 1
        /\ loc'[t].lt = loc[t].lt /\ loc'[t].op = loc[t].op /\ loc'[t].cl = loc[t].cl
        /\ loc'[t].undo = loc[t].undo /\ loc'[t].any = loc[t].any
        /\ loc'[t].la = loc[t].la /\ loc'[t].tk = loc[t].tk
    BY <1>1, <1>3, Loc0Facts DEF Replayed, QuietStep, Quiet, Typed
  <2>2. Names(t)'
    BY <1>1, <2>1, NamesKept DEF Good, Names, QuietStep, Quiet, Based, Filling, Replaying
  <2>3. Drafts(t)' /\ CopiesRight(t)' /\ Works(t)'
    BY <1>1, <2>1
       DEF Good, Drafts, CopiesRight, Works, QuietStep, Quiet, NewState, NewTicket, Drafted,
           Based, Working, Filling, Copying, Replaying, Running, Flushing, Downgraded
  <2>4. /\ Recorded(loc[t].la.seq, loc[t].la) /\ head[nc[t]] = loc[t].la
        /\ loc[t].i \in Nat /\ loc[t].i > loc[t].la.seq
        /\ Recorded(loc[t].i, loc[t].tk) /\ Holds(nc[t], loc[t].i)
    BY <1>1, <2>1 DEF Good, Replays, Replaying
  <2>5. loc[t].la.seq \in Nat /\ (loc[t].i + 1) - 1 = loc[t].i
    BY <2>4, CommitTypes DEF Recorded
  <2>6. Replays(t)'
    BY <2>1, <2>4, <2>5
       DEF Replays, QuietStep, Quiet, Recorded, Holds, CommitSeqs, Commit, Fresh, Replaying
  <2>7. QED
    BY <2>1, <2>2, <2>3, <2>6 DEF Good
<1>4. QED
  BY <1>2, <1>3


(***************************************************************************)
(* The steps that write to the thread's replica and its new State.         *)
(***************************************************************************)
(* The new State, whose ticket no commit has, is written.                  *)
Redrafts(t) ==
  /\ pc[t] \in Based
  /\ \E st : /\ sauron' = [sauron EXCEPT ![t][lastIdx[t]] = st]
             /\ st.ticket = NewTicket(t)
             /\ DOMAIN st = DOMAIN State0 /\ DOMAIN st.results = Threads /\ StateOK(st)
             /\ \A i \in Threads : enqueuers[i] = NONE => ~st.applied[i]

OwnStep(t) ==
  /\ UNCHANGED <<hist, curComb, pcur, ring, enqueuers, announce, lastIdx, cc>>
  /\ mem' \in [Combs -> Stores] /\ head' \in [Combs -> Tickets]
  /\ flushcopy' \in [Combs -> BOOLEAN]
  /\ pm' \in [Combs -> [Addrs -> SUBSET Nat]]
  /\ \A c \in Combs, a \in Addrs : mem'[c][a] \in pm'[c][a]
  /\ \A c \in Combs : c # nc[t] => mem'[c] = mem[c] /\ head'[c] = head[c]
  /\ nc'[t] = nc[t] \/ (nc'[t] = NONE /\ \A c \in Combs : c = nc[t] => Content(c)')
  /\ sauron' = sauron \/ Redrafts(t)
  /\ pc'[t] \notin {"w_announce", "r_announce"}

(* A State with a ticket no commit has.                                    *)
LEMMA RedraftsApart ==
  ASSUME LockInv, DataInv, NEW t \in Threads, Redrafts(t), NEW s \in CommitSeqs,
         sauron'[Commit(s).tk.tid][Commit(s).tk.idx].ticket = Commit(s).tk
  PROVE  sauron'[Commit(s).tk.tid][Commit(s).tk.idx] = sauron[Commit(s).tk.tid][Commit(s).tk.idx]
<1>1. PICK st : sauron' = [sauron EXCEPT ![t][lastIdx[t]] = st] /\ st.ticket = NewTicket(t)
  BY DEF Redrafts
<1>2. /\ DOMAIN sauron = Threads /\ DOMAIN sauron[t] = 0 .. STATESSIZE - 1
      /\ lastIdx[t] \in 0 .. STATESSIZE - 1
  BY DEF DataInv, Shared, DataTypes, StateTypes
<1>3. CASE Commit(s).tk.tid = t /\ Commit(s).tk.idx = lastIdx[t]
  <2>1. Commit(s).tk = NewTicket(t)
    BY <1>1, <1>2, <1>3
  <2>2. s = cc[t].seq + 1 /\ s <= cc[t].seq /\ cc[t].seq \in Nat
    BY <1>3, <2>1, CommitTypes
       DEF NewTicket, SeqTidIdx, DataInv, Good, Names, Redrafts, LockInv, LockTypes, Places
  <2>3. QED
    BY <2>2
<1>4. CASE ~(Commit(s).tk.tid = t /\ Commit(s).tk.idx = lastIdx[t])
  BY <1>1, <1>2, <1>4, CommitTypes
<1>5. QED
  BY <1>3, <1>4

LEMMA OwnKeeps ==
  ASSUME LockInv, LockInv', ScanInv, DataInv, NEW t \in Threads, Stays(t), OwnStep(t), Good(t)'
  PROVE  DataInv'
<1>1. CommitSeqs' = CommitSeqs /\ \A s \in CommitSeqs : Commit(s)' = Commit(s)
  BY DEF OwnStep, CommitSeqs, Commit
<1>2. ASSUME NEW s \in CommitSeqs,
             sauron'[Commit(s).tk.tid][Commit(s).tk.idx].ticket = Commit(s).tk
      PROVE  sauron'[Commit(s).tk.tid][Commit(s).tk.idx] =
               sauron[Commit(s).tk.tid][Commit(s).tk.idx]
  BY <1>2, RedraftsApart DEF OwnStep
<1>3. /\ DOMAIN sauron = Threads
      /\ \A u \in Threads : DOMAIN sauron[u] = 0 .. STATESSIZE - 1
      /\ lastIdx[t] \in 0 .. STATESSIZE - 1
  BY DEF DataInv, Shared, DataTypes, StateTypes
<1>4. Touch(t)
  <2>1. \A u \in Threads \ {t} : sauron'[u] = sauron[u]
    BY <1>3 DEF OwnStep, Redrafts
  <2>2. \A s \in CommitSeqs' \ CommitSeqs : (Commit(s).tk)'.tid = t
    BY <1>1
  <2>3. cc[t].seq <= cc[t].seq
    BY DEF LockInv, LockTypes, Places
  <2>4. QED
    BY <1>1, <1>2, <2>1, <2>2, <2>3 DEF Touch, OwnStep
<1>5. DataTypes'
  BY DEF OwnStep, DataInv, Shared, DataTypes
<1>6. StateTypes'
  <2>1. CASE sauron' = sauron
    BY <2>1 DEF DataInv, Shared, StateTypes
  <2>2. CASE Redrafts(t)
    BY <1>3, <2>2 DEF Redrafts, DataInv, Shared, StateTypes
  <2>3. QED
    BY <2>1, <2>2 DEF OwnStep
<1>7. Silent'
  <2>1. \A i \in Threads : pc'[i] \in {"w_announce", "r_announce"} => pc'[i] = pc[i]
    BY DEF OwnStep, Stays
  <2>2. ASSUME NEW i \in Threads, enqueuers[i] = NONE, NEW u \in Threads,
               NEW k \in 0 .. STATESSIZE - 1
        PROVE  ~sauron'[u][k].applied[i]
    <3>1. ~sauron[u][k].applied[i]
      BY <2>2 DEF DataInv, Shared, Silent
    <3>2. CASE sauron' = sauron
      BY <3>1, <3>2
    <3>3. CASE Redrafts(t)
      <4>1. PICK st : /\ sauron' = [sauron EXCEPT ![t][lastIdx[t]] = st]
                      /\ ~st.applied[i]
        BY <2>2, <3>3 DEF Redrafts
      <4>2. CASE u = t /\ k = lastIdx[t]
        BY <1>3, <4>1, <4>2
      <4>3. CASE ~(u = t /\ k = lastIdx[t])
        <5>1. sauron'[u][k] = sauron[u][k]
          BY <1>3, <4>1, <4>3
        <5>2. QED
          BY <3>1, <5>1
      <4>4. QED
        BY <4>2, <4>3
    <3>4. QED
      BY <3>2, <3>3 DEF OwnStep
  <2>3. QED
    BY <2>1, <2>2 DEF OwnStep, DataInv, Shared, Silent
<1>8. History'
  <2>1. ASSUME NEW s \in CommitSeqs
        PROVE  Logged(s)'
    <3>1. Logged(s) /\ (s > 0 => s - 1 \in CommitSeqs) /\ Commit(s)' = Commit(s)
      BY <1>1, CommitTypes DEF DataInv, Shared, History, CommitSeqs
    <3>2. s > 0 => Commit(s - 1)' = Commit(s - 1)
      BY <1>1, <3>1
    <3>3. QED
      BY <1>2, <3>1, <3>2 DEF Logged, StateOf
  <2>2. QED
    BY <1>1, <2>1 DEF OwnStep, DataInv, Shared, History
<1>9. CurrentIntact'
  <2>1. curComb.idx \in Combs /\ nc[t] # curComb.idx
    BY NoneIsNoReplica DEF LockInv, LockTypes, Places, Held, Claim
  <2>2. QED
    BY <1>1, <2>1 DEF OwnStep, DataInv, Shared, CurrentIntact, Holds, Recorded
<1>10. Ring'
  BY <1>1 DEF OwnStep, DataInv, Shared, Ring, Recorded
<1>11. FreeContent'
  <2>1. ASSUME NEW c \in Combs, \A u \in Threads : nc'[u] # c
        PROVE  Content(c)'
    <3>1. CASE nc[t] = c
      BY <2>1, <3>1 DEF OwnStep
    <3>2. CASE nc[t] # c
      <4>1. Content(c)
        BY <2>1, <3>2 DEF Stays, DataInv, Shared, FreeContent
      <4>2. QED
        BY <1>1, <3>2, <4>1 DEF OwnStep, Content, Recorded, Holds
    <3>3. QED
      BY <3>1, <3>2
  <2>2. QED
    BY <2>1 DEF FreeContent
<1>12. \A u \in Threads : Good(u)'
  BY <1>4, OtherNames, OtherDrafts, OtherReplica DEF Good
<1>13. QED
  BY <1>5, <1>6, <1>7, <1>8, <1>9, <1>10, <1>11, <1>12 DEF DataInv, Shared


(* Stores to one replica.                                                  *)
LEMMA Stored ==
  ASSUME DataInv, NEW c \in Combs, NEW words, Partial(words), Store(c, words)
  PROVE  /\ mem' \in [Combs -> Stores] /\ pm' \in [Combs -> [Addrs -> SUBSET Nat]]
         /\ \A d \in Combs, a \in Addrs : mem'[d][a] \in pm'[d][a]
         /\ \A d \in Combs \ {c} : mem'[d] = mem[d]
         /\ mem'[c] = Over(mem[c], words)
         /\ UNCHANGED <<curComb, pcur>>
<1>1. /\ mem \in [Combs -> Stores] /\ pm \in [Combs -> [Addrs -> SUBSET Nat]]
      /\ \A d \in Combs, a \in Addrs : mem[d][a] \in pm[d][a]
  BY DEF DataInv, Shared, DataTypes
<1>2. Over(mem[c], words) \in Stores
  BY <1>1 DEF Over, Stores, Partial
<1>3. mem' = [mem EXCEPT ![c] = Over(mem[c], words)]
  BY DEF Store, Over
<1>4. mem' \in [Combs -> Stores] /\ mem'[c] = Over(mem[c], words)
  BY <1>1, <1>2, <1>3
<1>5. \A d \in Combs \ {c} : mem'[d] = mem[d] /\ pm'[d] = pm[d]
  BY <1>1, <1>3 DEF Store
<1>6. pm'[c] = [a \in Addrs |-> IF a \in DOMAIN words THEN pm[c][a] \union {words[a]}
                                ELSE pm[c][a]]
  BY <1>1 DEF Store
<1>7. pm'[c] \in [Addrs -> SUBSET Nat]
  BY <1>1, <1>6 DEF Partial
<1>8. pm' \in [Combs -> [Addrs -> SUBSET Nat]]
  BY <1>1, <1>7 DEF Store
<1>9. \A a \in Addrs : mem'[c][a] \in pm'[c][a]
  BY <1>1, <1>4, <1>6 DEF Over
<1>10. QED
  BY <1>1, <1>4, <1>5, <1>8, <1>9 DEF Store

(* The undo log takes the replica back to the commit the attempt is based  *)
(* on.                                                                     *)
LEMMA Undone ==
  ASSUME LockInv, ScanInv, DataInv, NEW t \in Threads, pc[t] \in Working, Undo(t)
  PROVE  /\ mem'[nc[t]] = Commit(cc[t].seq).mem
         /\ mem' \in [Combs -> Stores] /\ pm' \in [Combs -> [Addrs -> SUBSET Nat]]
         /\ \A d \in Combs, a \in Addrs : mem'[d][a] \in pm'[d][a]
         /\ \A d \in Combs \ {nc[t]} : mem'[d] = mem[d]
         /\ UNCHANGED <<curComb, pcur>>
         /\ nc[t] \in Combs /\ cc[t].seq \in CommitSeqs
         /\ Recorded(cc[t].seq, loc[t].lt) /\ loc[t].lt \in Tickets
         /\ loc[t].lt.seq = cc[t].seq
<1>1. Held(t) /\ Typed(t) /\ Good(t)
  BY Known
<1>2. nc[t] \in Combs
  BY <1>1 DEF Held, Typed, Working, Filling
<1>3. Recorded(cc[t].seq, loc[t].lt)
  BY <1>1 DEF Good, Names, Based, Working, Filling
<1>4. cc[t].seq \in CommitSeqs /\ Commit(cc[t].seq).mem \in Stores
  BY <1>3, CommitTypes DEF Recorded
<1>5. loc[t].lt \in Tickets /\ loc[t].lt.seq = cc[t].seq
  BY <1>3, CommitTypes DEF Recorded
<1>6. Partial(loc[t].undo) /\ DOMAIN NewState(t).log = DOMAIN loc[t].undo
  BY <1>1 DEF Good, Drafts, Drafted, Based, Working, Filling, Running, Flushing, Downgraded
<1>7. /\ mem[nc[t]] = Over(Commit(cc[t].seq).mem, NewState(t).log)
      /\ \A a \in DOMAIN loc[t].undo : loc[t].undo[a] = Commit(cc[t].seq).mem[a]
  BY <1>1 DEF Good, Works
<1>8. Over(mem[nc[t]], loc[t].undo) = Commit(cc[t].seq).mem
  BY <1>4, <1>6, <1>7 DEF Over, Stores
<1>9. QED
  BY <1>2, <1>3, <1>4, <1>5, <1>6, <1>8, Stored DEF Undo

LEMMA CopyStateGood ==
  ASSUME LockInv, ScanInv, DataInv, NEW t \in Threads, CopyState(t)
  PROVE  (QuietStep(t) \/ OwnStep(t)) /\ Good(t)'
<1>1. Typed(t) /\ Held(t) /\ Good(t)
  BY Known
<1> USE DEF sharedVars, nvmVars, volatileVars, lockVars, combVars, stateVars, reqVars,
        ghostVars, Goto
<1> DEFINE tail == StateOf(loc[t].lt)
<1>2. CASE tail.applied[t] = announce[t]
  <2>1. QuietStep(t) /\ UNCHANGED <<nc, cc>> /\ pc[t] = "w_state" /\ (Continue(t) \/ Break(t))
    BY <1>1, <1>2 DEF CopyState, Continue, Break, QuietStep, Quiet, Typed
  <2>2. nc[t] = NONE \/ Content(nc[t])
    BY <1>1, <2>1 DEF Good, Replays, Fresh
  <2>3. QED
    BY <2>1, <2>2, QuietRetreat DEF QuietStep
<1>3. CASE tail.applied[t] # announce[t]
  <2> DEFINE st == [ticket |-> NewTicket(t), applied |-> tail.applied,
                    results |-> tail.results, log |-> Empty, logSize |-> 0]
  <2>1. /\ pc[t] = "w_state" /\ pc'[t] = "w_ring" /\ UNCHANGED <<nc, cc>>
        /\ UNCHANGED <<mem, pm, head, flushcopy, hist, curComb, pcur, ring, enqueuers,
                       announce, lastIdx>>
        /\ loc'[t].lt = loc[t].lt /\ loc'[t].op = loc[t].op /\ loc'[t].cl = <<>>
        /\ loc'[t].undo = Empty /\ loc'[t].any = loc[t].any
        /\ sauron' = [sauron EXCEPT ![t][lastIdx[t]] = st]
    BY <1>1, <1>3, Loc0Facts DEF CopyState, Typed
  <2>2. Recorded(cc[t].seq, loc[t].lt)
    BY <1>1, <2>1 DEF Good, Names, Based
  <2>3. loc[t].lt.tid \in Threads /\ loc[t].lt.idx \in 0 .. STATESSIZE - 1
    BY <2>2, CommitTypes DEF Recorded
  <2>4. /\ DOMAIN tail.results = Threads /\ StateOK(tail)
        /\ \A i \in Threads : enqueuers[i] = NONE => ~tail.applied[i]
    BY <2>3 DEF DataInv, Shared, StateTypes, Silent, StateOf
  <2>5. lastIdx[t] \in 0 .. STATESSIZE - 1 /\ NewTicket(t) \in Tickets
    BY <1>1, RedoAssumption, SMTT(60)
       DEF DataInv, Shared, DataTypes, NewTicket, SeqTidIdx, Tickets, Typed, Threads
  <2>6. StateOK(st)
    <3>1. Partial(Empty) /\ 0 \in 0 .. Cardinality(Addrs)
      BY RedoAssumption, FS_CardinalityType DEF Partial, Empty
    <3>2. QED
      BY <2>4, <2>5, <3>1 DEF StateOK
  <2>7. Redrafts(t)
    <3>1. st.ticket = NewTicket(t) /\ DOMAIN st = DOMAIN State0
      BY DEF State0
    <3>2. \A i \in Threads : enqueuers[i] = NONE => ~st.applied[i]
      BY <2>4
    <3>3. DOMAIN st.results = Threads
      BY <2>4
    <3> HIDE DEF st
    <3>4. QED
      BY <2>1, <2>6, <3>1, <3>2, <3>3 DEF Redrafts, Based
  <2>8. OwnStep(t)
    BY <2>1, <2>7 DEF OwnStep, DataInv, Shared, DataTypes
  <2>9. Names(t)'
    <3>1. <<>> \in LineSeqs /\ loc[t].op \in Ops /\ Names(t)
      BY <1>1 DEF LineSeqs, Good, Names
    <3>2. QED
      BY <2>1, <3>1, NamesKept DEF Based
  <2>10. Drafts(t)'
    <3>1. NewState(t)' = st /\ NewTicket(t)' = NewTicket(t)
      BY <2>1, <2>5 DEF NewState, NewTicket, DataInv, Shared, StateTypes
    <3>2. DOMAIN Empty = {}
      BY DEF Empty
    <3>3. QED
      BY <2>1, <3>1, <3>2 DEF Drafts, Running, Downgraded, Partial
  <2>11. Replays(t)' /\ CopiesRight(t)' /\ Works(t)'
    BY <1>1, <2>1
       DEF Good, Replays, CopiesRight, Works, Content, Recorded, Holds, CommitSeqs, Commit,
           Fresh, Replaying, Copying, Working, Running, Flushing, Downgraded
  <2>12. QED
    BY <2>8, <2>9, <2>10, <2>11 DEF Good
<1>4. QED
  BY <1>2, <1>3


(* The steps that only store a head.                                       *)
LEMMA HeadStep ==
  ASSUME LockInv, ScanInv, DataInv, NEW t \in Threads, NEW v \in Tickets,
         head' = [head EXCEPT ![nc[t]] = v], UNCHANGED <<nc, cc, mem, pm, sauron, lastIdx>>,
         UNCHANGED <<hist, curComb, pcur, ring, enqueuers, announce>>,
         flushcopy' \in [Combs -> BOOLEAN], pc'[t] \notin {"w_announce", "r_announce"},
         nc[t] # NONE
  PROVE  OwnStep(t) /\ nc[t] \in Combs /\ head'[nc[t]] = v
<1>1. nc[t] \in Combs
  BY DEF LockInv, LockTypes
<1>2. QED
  BY <1>1 DEF OwnStep, DataInv, Shared, DataTypes

LEMMA HeadSteps ==
  ASSUME LockInv, ScanInv, DataInv, HeadKept, NEW t \in Threads,
         \/ ReplayNext(t) /\ loc[t].i = loc[t].lt.seq + 1
         \/ Replayed(t) /\ curComb.seq >= loc[t].init + 2
         \/ CopyInit(t)
         \/ CopyCheck(t) /\ loc[t].cp = curComb /\ loc[t].left = {}
  PROVE  OwnStep(t) /\ Good(t)'
<1>1. Typed(t) /\ Held(t) /\ Good(t)
  BY Known
<1> USE DEF sharedVars, nvmVars, volatileVars, lockVars, combVars, stateVars, reqVars,
        ghostVars, Goto, Set
<1>2. ASSUME Recorded(cc[t].seq, loc[t].lt) PROVE loc[t].lt.seq = cc[t].seq
  BY <1>2, CommitTypes DEF Recorded
<1>3. flushcopy \in [Combs -> BOOLEAN]
  BY DEF DataInv, Shared, DataTypes
<1>4. CASE ReplayNext(t) /\ loc[t].i = loc[t].lt.seq + 1
  <2> DEFINE v == IF loc[t].la.seq < loc[t].lt.seq THEN loc[t].tk ELSE loc[t].la
  <2>1. /\ UNCHANGED <<nc, cc, mem, pm, sauron, lastIdx, flushcopy>>
        /\ UNCHANGED <<hist, curComb, pcur, ring, enqueuers, announce>>
        /\ pc[t] = "w_redo" /\ pc'[t] = "w_recheck"
        /\ loc'[t].lt = loc[t].lt /\ loc'[t].op = loc[t].op /\ loc'[t].cl = loc[t].cl
        /\ loc'[t].undo = loc[t].undo /\ loc'[t].any = loc[t].any
    BY <1>1, <1>4, Loc0Facts DEF ReplayNext, ReplayDone, Typed
  <2>2. head' = [head EXCEPT ![nc[t]] = v]
    <3>1. CASE loc[t].la.seq < loc[t].lt.seq
      BY <1>4, <3>1 DEF ReplayNext, ReplayDone
    <3>2. CASE ~(loc[t].la.seq < loc[t].lt.seq)
      <4>1. head' = head
        BY <1>4, <2>1, <3>2 DEF HeadKept, NothingToReplay
      <4>2. head[nc[t]] = loc[t].la
        BY <1>1, <2>1 DEF Good, Replays
      <4>3. head \in [Combs -> Tickets]
        BY DEF DataInv, Shared, DataTypes
      <4>4. QED
        BY <3>2, <4>1, <4>2, <4>3
    <3>3. QED
      BY <3>1, <3>2
  <2>3. /\ Recorded(loc[t].la.seq, loc[t].la) /\ loc[t].i > loc[t].la.seq
        /\ Holds(nc[t], loc[t].i - 1)
        /\ loc[t].i > loc[t].la.seq + 1 => Recorded(loc[t].i - 1, loc[t].tk)
        /\ nc[t] # NONE
    BY <1>1, <2>1 DEF Good, Replays, Held, Filling
  <2>4. Recorded(cc[t].seq, loc[t].lt) /\ loc[t].lt.seq = cc[t].seq /\ cc[t].seq \in Nat
    BY <1>1, <1>2, <2>1 DEF Good, Names, Based, Filling, Typed
  <2>5. loc[t].i - 1 = cc[t].seq /\ loc[t].la.seq \in Nat
    BY <1>4, <2>3, <2>4, CommitTypes DEF Recorded
  <2>6. Recorded(cc[t].seq, v) /\ Holds(nc[t], cc[t].seq)
    BY <1>4, <2>3, <2>4, <2>5
  <2>7. v \in Tickets /\ v.seq = cc[t].seq
    BY <2>6, CommitTypes DEF Recorded
  <2> HIDE DEF v
  <2>8. OwnStep(t) /\ head'[nc[t]] = v
    BY <1>3, <2>1, <2>2, <2>3, <2>7, HeadStep
  <2>9. Names(t)'
    BY <1>1, <2>1, NamesKept DEF Good, Names, Based, Filling
  <2>10. Drafts(t)' /\ Replays(t)' /\ CopiesRight(t)'
    BY <1>1, <2>1
       DEF Good, Drafts, Replays, CopiesRight, NewState, NewTicket, Drafted, Based, Fresh,
           Filling, Copying, Replaying, Running, Flushing, Downgraded
  <2>11. Works(t)'
    BY <2>1, <2>4, <2>6, <2>7, <2>8, SMTT(120)
       DEF Works, Recorded, Holds, CommitSeqs, Commit, Working, Running, Flushing, Downgraded
  <2>12. QED
    BY <2>8, <2>9, <2>10, <2>11 DEF Good
<1>5. CASE Replayed(t) /\ curComb.seq >= loc[t].init + 2
  <2>1. /\ UNCHANGED <<nc, cc, mem, pm, sauron, lastIdx, flushcopy>>
        /\ UNCHANGED <<hist, curComb, pcur, ring, enqueuers, announce>>
        /\ pc[t] = "w_redo_next" /\ pc'[t] = "w_exit" /\ loc' = loc
        /\ head' = [head EXCEPT ![nc[t]] = loc[t].tk]
    BY <1>1, <1>5 DEF Replayed, Break, Typed
  <2>2. Recorded(loc[t].i, loc[t].tk) /\ Holds(nc[t], loc[t].i) /\ nc[t] # NONE
    BY <1>1, <2>1 DEF Good, Replays, Replaying, Held, Filling
  <2>3. loc[t].tk \in Tickets /\ loc[t].tk.seq = loc[t].i
    BY <2>2, CommitTypes DEF Recorded
  <2>4. OwnStep(t) /\ head'[nc[t]] = loc[t].tk
    BY <1>3, <2>1, <2>2, <2>3, HeadStep
  <2>5. Content(nc[t])'
    BY <2>1, <2>2, <2>3, <2>4 DEF Content, Recorded, Holds, CommitSeqs, Commit
  <2>6. Good(t)'
    BY <1>1, <2>1, <2>5, Rests DEF Good, Names, Resting
  <2>7. QED
    BY <2>4, <2>6
<1>6. CASE CopyInit(t)
  <2>1. /\ UNCHANGED <<nc, cc, mem, pm, sauron, lastIdx, flushcopy>>
        /\ UNCHANGED <<hist, curComb, pcur, ring, enqueuers, announce>>
        /\ pc[t] = "c_init" /\ pc'[t] = "c_head" /\ loc'[t].cp = curComb
        /\ head' = [head EXCEPT ![nc[t]] = INVALID]
        /\ loc'[t].lt = loc[t].lt /\ loc'[t].op = loc[t].op /\ loc'[t].cl = loc[t].cl
        /\ loc'[t].undo = loc[t].undo /\ loc'[t].any = loc[t].any
    BY <1>1, <1>6, Loc0Facts DEF CopyInit, Typed
  <2>2. INVALID \in Tickets /\ nc[t] # NONE
    BY <1>1, <2>1 DEF INVALID, SeqTidIdx, Tickets, Held, Filling
  <2>3. OwnStep(t) /\ head'[nc[t]] = INVALID
    BY <1>3, <2>1, <2>2, HeadStep
  <2>4. Names(t)'
    BY <1>1, <2>1, NamesKept DEF Good, Names, Based, Filling, Copying
  <2>5. CopiesRight(t)'
    BY <1>1, <2>1, <2>3 DEF Good, Names, CopiesRight, Copying
  <2>6. Drafts(t)' /\ Replays(t)' /\ Works(t)'
    BY <1>1, <2>1
       DEF Good, Drafts, Replays, Works, NewState, NewTicket, Drafted, Based, Fresh, Working,
           Filling, Copying, Replaying, Running, Flushing, Downgraded
  <2>7. QED
    BY <2>3, <2>4, <2>5, <2>6 DEF Good
<1>7. CASE CopyCheck(t) /\ loc[t].cp = curComb /\ loc[t].left = {}
  <2>1. /\ UNCHANGED <<nc, cc, mem, pm, sauron, lastIdx>>
        /\ UNCHANGED <<hist, curComb, pcur, ring, enqueuers, announce>>
        /\ pc[t] = "c_check" /\ pc'[t] = "w_recheck"
        /\ head' = [head EXCEPT ![nc[t]] = loc[t].tk]
        /\ flushcopy' = [flushcopy EXCEPT ![nc[t]] = FALSE]
        /\ loc'[t].lt = loc[t].lt /\ loc'[t].op = loc[t].op /\ loc'[t].cl = loc[t].cl
        /\ loc'[t].undo = loc[t].undo /\ loc'[t].any = loc[t].any
    BY <1>1, <1>7, Loc0Facts DEF CopyCheck, Copied, Typed
  <2>2. /\ Recorded(curComb.seq, loc[t].tk) /\ nc[t] \in Combs /\ curComb.seq >= cc[t].seq
        /\ \A a \in Addrs : mem[nc[t]][a] = Commit(curComb.seq).mem[a]
    BY <1>1, <1>7, <2>1 DEF Good, CopiesRight, Copying, Held, Filling, Typed
  <2>3. loc[t].tk \in Tickets /\ loc[t].tk.seq = curComb.seq
    BY <2>2, CommitTypes DEF Recorded
  <2>4. Holds(nc[t], curComb.seq)
    <3>1. mem[nc[t]] \in Stores /\ Commit(curComb.seq).mem \in Stores
      BY <2>2, CommitTypes DEF Recorded, DataInv, Shared, DataTypes
    <3>2. QED
      BY <2>2, <3>1 DEF Holds, Recorded, Stores
  <2>5. flushcopy' \in [Combs -> BOOLEAN] /\ nc[t] # NONE
    BY <1>3, <2>1, <2>2, NoneIsNoReplica
  <2>6. OwnStep(t) /\ head'[nc[t]] = loc[t].tk
    BY <2>1, <2>3, <2>5, HeadStep
  <2>7. Names(t)'
    BY <1>1, <2>1, NamesKept DEF Good, Names, Based, Filling, Copying
  <2>8. Drafts(t)' /\ Replays(t)' /\ CopiesRight(t)'
    BY <1>1, <2>1
       DEF Good, Drafts, Replays, CopiesRight, NewState, NewTicket, Drafted, Based, Fresh,
           Filling, Copying, Replaying, Running, Flushing, Downgraded
  <2>9. Works(t)'
    BY <2>1, <2>2, <2>3, <2>4, <2>6
       DEF Works, Recorded, Holds, CommitSeqs, Commit, Working, Running, Flushing, Downgraded
  <2>10. QED
    BY <2>6, <2>7, <2>8, <2>9 DEF Good
<1>8. QED
  BY <1>4, <1>5, <1>6, <1>7


(* The steps that copy words or a redo log.                                *)
LEMMA CopySteps ==
  ASSUME LockInv, ScanInv, DataInv, NEW t \in Threads, CopyRedoLog(t) \/ CopyWord(t)
  PROVE  OwnStep(t) /\ Good(t)'
<1>1. Typed(t) /\ Held(t) /\ Good(t)
  BY Known
<1> USE DEF sharedVars, nvmVars, volatileVars, lockVars, combVars, stateVars, reqVars,
        ghostVars, Goto, Set
<1>2. head \in [Combs -> Tickets] /\ flushcopy \in [Combs -> BOOLEAN]
  BY DEF DataInv, Shared, DataTypes
<1>3. CASE CopyRedoLog(t)
  <2> DEFINE c == nc[t]
             i == loc[t].i
             tk == loc[t].tk
             words == StateOf(tk).log
  <2>1. /\ UNCHANGED <<nc, cc, loc, head, flushcopy, sauron, lastIdx>>
        /\ UNCHANGED <<hist, ring, enqueuers, announce>>
        /\ pc[t] = "w_redo_copy" /\ pc'[t] = "w_redo_check" /\ Store(c, words)
    BY <1>1, <1>3 DEF CopyRedoLog, Typed
  <2>2. /\ Recorded(loc[t].la.seq, loc[t].la) /\ head[c] = loc[t].la
        /\ i \in Nat /\ i > loc[t].la.seq
        /\ i <= loc[t].lt.seq /\ Recorded(i, tk) /\ Holds(c, i - 1)
    BY <1>1, <2>1 DEF Good, Replays, Replaying
  <2>3. /\ tk = Commit(i).tk /\ i \in CommitSeqs /\ tk.tid \in Threads
        /\ tk.idx \in 0 .. STATESSIZE - 1 /\ Logged(i) /\ i > 0
    <3>1. i \in CommitSeqs /\ tk = Commit(i).tk
      BY <2>2, Zenon DEF Recorded
    <3>2. Logged(i)
      BY <2>2, <3>1 DEF DataInv, Shared, History
    <3>3. i > 0
      BY <2>2, SMTT(60) DEF Recorded, CommitSeqs
    <3>4. QED
      BY <2>2, <3>1, <3>2, <3>3, CommitTypes, Zenon
  <2>4. Partial(words) /\ c \in Combs
    BY <1>1, <2>1, <2>3
       DEF DataInv, Shared, StateTypes, StateOK, StateOf, Held, Filling, Replaying, Typed
  <2>5. /\ mem' \in [Combs -> Stores] /\ pm' \in [Combs -> [Addrs -> SUBSET Nat]]
        /\ \A d \in Combs, a \in Addrs : mem'[d][a] \in pm'[d][a]
        /\ \A d \in Combs \ {c} : mem'[d] = mem[d]
        /\ mem'[c] = Over(mem[c], words) /\ UNCHANGED <<curComb, pcur>>
    BY <2>1, <2>4, Stored
  <2>6. OwnStep(t)
    BY <1>2, <2>1, <2>5 DEF OwnStep
  <2>7. Names(t)'
    BY <1>1, <2>1, <2>5, NamesKept DEF Good, Names, Based, Filling, Replaying
  <2>8. Drafts(t)' /\ CopiesRight(t)' /\ Works(t)'
    BY <1>1, <2>1
       DEF Good, Drafts, CopiesRight, Works, NewState, NewTicket, Drafted, Based, Working,
           Filling, Copying, Replaying, Running, Flushing, Downgraded
  <2>9. StateOf(tk).ticket = tk => mem'[c] = Commit(i).mem
    BY <2>2, <2>3, <2>5, Zenon DEF Logged, Holds
  <2>10. Replays(t)'
    BY <2>1, <2>2, <2>9, Zenon
       DEF Replays, Recorded, Holds, CommitSeqs, Commit, StateOf, Fresh, Replaying
  <2>11. QED
    BY <2>6, <2>7, <2>8, <2>10 DEF Good
<1>4. CASE CopyWord(t)
  <2> DEFINE c == nc[t]
             from == mem[loc[t].cp.idx]
  <2>1. PICK b \in loc[t].left :
           /\ mem' = [mem EXCEPT ![c][b] = from[b]]
           /\ pm' = [pm EXCEPT ![c][b] = IF mem[c][b] = from[b] THEN @ ELSE {from[b]}]
           /\ loc' = [loc EXCEPT ![t].left = @ \ {b}]
    BY <1>4, Zenon DEF CopyWord
  <2>2. /\ UNCHANGED <<nc, cc, head, flushcopy, sauron, lastIdx>>
        /\ UNCHANGED <<hist, curComb, pcur, ring, enqueuers, announce>>
        /\ pc[t] = "c_copy" /\ pc'[t] = "c_check"
    BY <1>1, <1>4 DEF CopyWord, Typed
  <2>3. /\ loc'[t].lt = loc[t].lt /\ loc'[t].op = loc[t].op /\ loc'[t].cl = loc[t].cl
        /\ loc'[t].undo = loc[t].undo /\ loc'[t].any = loc[t].any
        /\ loc'[t].tk = loc[t].tk /\ loc'[t].cp = loc[t].cp
        /\ loc'[t].left = loc[t].left \ {b}
    BY <1>1, <2>1, Loc0Facts DEF Typed
  <2>4. /\ head[c] = INVALID /\ loc[t].cp.seq >= cc[t].seq
        /\ Recorded(loc[t].cp.seq, loc[t].tk) /\ loc[t].left \subseteq Addrs
        /\ loc[t].cp = curComb =>
             \A a \in Addrs \ loc[t].left : mem[c][a] = Commit(loc[t].cp.seq).mem[a]
    BY <1>1, <2>2 DEF Good, CopiesRight, Copying
  <2>5. /\ c \in Combs /\ loc[t].cp.idx \in Combs /\ b \in Addrs /\ c # curComb.idx
    BY <1>1, <2>1, <2>2, <2>4
       DEF Held, Claim, Filling, Copying, Typed, ScanInv, Scan, Copies, Places
  <2>6. /\ mem \in [Combs -> Stores] /\ pm \in [Combs -> [Addrs -> SUBSET Nat]]
        /\ \A d \in Combs, a \in Addrs : mem[d][a] \in pm[d][a]
    BY DEF DataInv, Shared, DataTypes
  <2>7. from[b] \in Nat
    BY <2>5, <2>6 DEF Stores
  <2>8. /\ mem' \in [Combs -> Stores] /\ pm' \in [Combs -> [Addrs -> SUBSET Nat]]
        /\ \A d \in Combs \ {c} : mem'[d] = mem[d]
        /\ \A a \in Addrs : mem'[c][a] = IF a = b THEN from[b] ELSE mem[c][a]
    BY <2>1, <2>5, <2>6, <2>7 DEF Stores
  <2>9. \A d \in Combs, a \in Addrs : mem'[d][a] \in pm'[d][a]
    <3>1. ASSUME NEW d \in Combs, NEW a \in Addrs PROVE mem'[d][a] \in pm'[d][a]
      <4>1. CASE d = c /\ a = b
        BY <2>1, <2>5, <2>6, <2>8, <4>1, SMTT(30)
      <4>2. CASE ~(d = c /\ a = b)
        BY <2>1, <2>5, <2>6, <2>8, <4>2, SMTT(30)
      <4>3. QED
        BY <4>1, <4>2
    <3>2. QED
      BY <3>1
  <2>10. OwnStep(t)
    BY <1>2, <2>2, <2>8, <2>9 DEF OwnStep
  <2>11. Names(t)'
    BY <1>1, <2>2, <2>3, NamesKept DEF Good, Names, Based, Filling, Copying
  <2>12. Drafts(t)' /\ Replays(t)' /\ Works(t)'
    BY <1>1, <2>2, <2>3
       DEF Good, Drafts, Replays, Works, NewState, NewTicket, Drafted, Based, Fresh, Working,
           Filling, Copying, Replaying, Running, Flushing, Downgraded
  <2>13. loc[t].cp = curComb => from = Commit(loc[t].cp.seq).mem
    BY DEF DataInv, Shared, CurrentIntact, Holds
  <2>14. CopiesRight(t)'
    <3>1. loc[t].cp = curComb =>
            \A a \in Addrs \ (loc[t].left \ {b}) : mem'[c][a] = Commit(loc[t].cp.seq).mem[a]
      BY <2>4, <2>8, <2>13
    <3>2. QED
      BY <2>2, <2>3, <2>4, <3>1 DEF CopiesRight, Recorded, CommitSeqs, Commit
  <2>15. QED
    BY <2>10, <2>11, <2>12, <2>14, Zenon DEF Good
<1>5. QED
  BY <1>3, <1>4


LEMMA AddLineType ==
  ASSUME NEW a \in Addrs, NEW l \in LineSeqs
  PROVE  AddLine(a, [lines |-> l, copy |-> FALSE]).lines \in LineSeqs
BY DEF AddLine, LineSeqs

(* One more request is run on the replica: the redo log, the undo log and  *)
(* the words still belong together.                                        *)
LEMMA RunRequestGood ==
  ASSUME LockInv, ScanInv, DataInv, NEW t \in Threads, HelpRun(t), Current(t)
  PROVE  OwnStep(t) /\ Good(t)'
<1> DEFINE i == loc[t].i
           c == nc[t]
           op == loc[t].op
           after == Run(mem[c], op)
           words == [a \in {op} \ {READ} |-> after[a]]
           cur == NewState(t)
           base == Commit(cc[t].seq).mem
           newlog == [a \in DOMAIN cur.log \union DOMAIN words |-> after[a]]
           undo == loc[t].undo
           newundo == [a \in DOMAIN undo \union DOMAIN words |->
                         IF a \in DOMAIN undo THEN undo[a] ELSE mem[c][a]]
           st == [cur EXCEPT !.results[i] = after, !.applied[i] = ~@, !.log = newlog]
<1>1. Typed(t) /\ Held(t) /\ Good(t) /\ LocShape(t)
  BY Known
<1>2. pc[t] = "w_run" /\ RunRequest(t)
  BY SMTT(60) DEF HelpRun
<1>3. /\ UNCHANGED <<nc, cc, head, flushcopy, lastIdx>>
      /\ UNCHANGED <<hist, ring, enqueuers, announce>>
      /\ pc'[t] = "w_help" /\ Store(c, words)
      /\ sauron' = [sauron EXCEPT ![t][lastIdx[t]] = st]
      /\ loc'[t].lt = loc[t].lt /\ loc'[t].op = NONE /\ loc'[t].any = TRUE
      /\ loc'[t].undo = newundo
  BY <1>1, <1>2, Loc0Facts
     DEF HelpRun, RunRequest, Goto, Typed, lockVars, combVars, reqVars, ghostVars
<1>4. /\ c \in Combs /\ i \in Threads /\ op \in Addrs \union {READ} /\ enqueuers[i] # NONE
      /\ Recorded(cc[t].seq, loc[t].lt) /\ loc[t].cl \in LineSeqs
  BY <1>1, <1>2
     DEF Held, Filling, Running, Typed, LocShape, Good, Names, Drafts, Based, Ops
<1>5. loc'[t].cl \in LineSeqs
  <2>1. loc'[t].cl = loc[t].cl \/
          (op # READ /\ loc'[t].cl = AddLine(op, [lines |-> loc[t].cl, copy |-> FALSE]).lines)
    BY <1>1, <1>2, Loc0Facts DEF RunRequest, Typed
  <2>2. QED
    BY <1>4, <2>1, AddLineType
<1>6. /\ mem[c] \in Stores /\ base \in Stores /\ cc[t].seq \in CommitSeqs
  BY <1>4, CommitTypes DEF Recorded, DataInv, Shared, DataTypes
<1>7. /\ after \in Stores /\ DOMAIN words = {op} \ {READ} /\ Partial(words)
      /\ \A a \in Addrs \ DOMAIN words : after[a] = mem[c][a]
  <2>1. after \in Stores
    BY <1>4, <1>6, RedoAssumption, SMTT(30) DEF Run, Stores
  <2>2. DOMAIN words = {op} \ {READ} /\ DOMAIN words \subseteq Addrs
    BY <1>4
  <2>3. Partial(words)
    BY <2>1, <2>2, SMTT(60) DEF Stores, Partial
  <2>4. \A a \in Addrs \ DOMAIN words : after[a] = mem[c][a]
    BY <1>4, <1>6, <2>2, SMTT(60) DEF Run, Stores
  <2>5. QED
    BY <2>1, <2>2, <2>3, <2>4
<1>8. /\ mem' \in [Combs -> Stores] /\ pm' \in [Combs -> [Addrs -> SUBSET Nat]]
      /\ \A d \in Combs, a \in Addrs : mem'[d][a] \in pm'[d][a]
      /\ \A d \in Combs \ {c} : mem'[d] = mem[d]
      /\ mem'[c] = Over(mem[c], words) /\ UNCHANGED <<curComb, pcur>>
  BY <1>3, <1>4, <1>7, Stored
<1>9. mem'[c] = after
  BY <1>6, <1>7, <1>8, ZenonT(60) DEF Over, Stores
<1>10. /\ DOMAIN sauron = Threads /\ DOMAIN sauron[t] = 0 .. STATESSIZE - 1
       /\ lastIdx[t] \in 0 .. STATESSIZE - 1 /\ DOMAIN cur = DOMAIN State0
       /\ DOMAIN cur.results = Threads /\ StateOK(cur)
       /\ \A k \in Threads : enqueuers[k] = NONE => ~cur.applied[k]
  BY DEF DataInv, Shared, DataTypes, StateTypes, Silent, NewState
<1>11. /\ DOMAIN State0 = {"ticket", "applied", "results", "log", "logSize"}
  BY DEF State0
<1>12. /\ st.ticket = cur.ticket /\ st.log = newlog /\ st.logSize = cur.logSize
       /\ st.applied = [cur.applied EXCEPT ![i] = ~@]
       /\ st.results = [cur.results EXCEPT ![i] = after]
       /\ DOMAIN st = DOMAIN State0
  BY <1>10, <1>11
<1>13. /\ cur.ticket = NewTicket(t) /\ Partial(undo) /\ DOMAIN cur.log = DOMAIN undo
       /\ mem[c] = Over(base, cur.log)
       /\ \A a \in DOMAIN undo : undo[a] = base[a]
       /\ head[c] = loc[t].lt
       /\ \A u \in Threads : cc[u].idx = c => cc[u].seq <= cc[t].seq
  BY <1>1, <1>2 DEF Good, Drafts, Works, Drafted, Based, Filling, Working, Running, Downgraded
<1> HIDE DEF after, words, st, newlog, newundo, cur
<1>14. /\ DOMAIN newlog = DOMAIN undo \union DOMAIN words
       /\ DOMAIN newundo = DOMAIN undo \union DOMAIN words
       /\ \A a \in DOMAIN newlog : newlog[a] = after[a]
       /\ \A a \in DOMAIN newundo : newundo[a] = IF a \in DOMAIN undo THEN undo[a] ELSE mem[c][a]
       /\ DOMAIN newlog \subseteq Addrs
  BY <1>7, <1>13 DEF newlog, newundo, Partial
<1>15. Partial(newlog) /\ Partial(newundo)
  BY <1>6, <1>7, <1>13, <1>14 DEF Partial, Stores
<1>16. StateOK(st)
  <2>1. st.applied \in [Threads -> BOOLEAN]
    BY <1>10, <1>12 DEF StateOK
  <2>2. \A k \in Threads : st.results[k] = NONE \/ st.results[k] \in Stores
    BY <1>7, <1>10, <1>12 DEF StateOK
  <2>3. QED
    BY <1>10, <1>12, <1>15, <2>1, <2>2 DEF StateOK
<1>17. \A k \in Threads : enqueuers[k] = NONE => ~st.applied[k]
  BY <1>4, <1>10, <1>12 DEF StateOK
<1>18. Redrafts(t)
  <2>1. st.ticket = NewTicket(t) /\ DOMAIN st.results = Threads /\ pc[t] \in Based
    BY <1>2, <1>10, <1>12, <1>13 DEF Based, Filling, Running
  <2>2. QED
    BY <1>3, <1>12, <1>16, <1>17, <2>1 DEF Redrafts
<1>19. OwnStep(t)
  BY <1>3, <1>8, <1>18 DEF OwnStep, DataInv, Shared, DataTypes
<1>20. Names(t)'
  BY <1>1, <1>2, <1>3, <1>5, <1>8, NamesKept DEF Good, Based, Filling, Running, Ops
<1>21. NewState(t)' = st /\ NewTicket(t)' = NewTicket(t)
  BY <1>3, <1>10 DEF NewState, NewTicket
<1>22. Drafts(t)'
  BY <1>3, <1>12, <1>13, <1>14, <1>15, <1>21 DEF Drafts, Running, Downgraded
<1>23. \A a \in DOMAIN newundo : newundo[a] = base[a]
  BY <1>6, <1>13, <1>14, <1>15 DEF Over, Partial
<1>24. mem'[c] = Over(base, newlog)
  BY <1>6, <1>7, <1>9, <1>13, <1>14 DEF Over, Stores
<1>25. Works(t)'
  BY <1>3, <1>6, <1>12, <1>13, <1>21, <1>23, <1>24
     DEF Works, CommitSeqs, Commit, Working, Running, Downgraded
<1>26. Replays(t)' /\ CopiesRight(t)'
  BY <1>3 DEF Replays, CopiesRight, Fresh, Replaying, Copying
<1>27. QED
  BY <1>19, <1>20, <1>22, <1>25, <1>26 DEF Good


(* The lines are flushed, or the attempt is given up and undone.           *)
LEMMA FlushSteps ==
  ASSUME LockInv, ScanInv, DataInv, NEW t \in Threads,
         \/ MergeLines(t) /\ loc[t].any
         \/ FlushLines(t) \/ FlushAll(t)
  PROVE  OwnStep(t) /\ Good(t)'
<1> DEFINE c == nc[t]
<1>1. Typed(t) /\ Held(t) /\ Good(t)
  BY Known
<1>2. /\ head \in [Combs -> Tickets] /\ flushcopy \in [Combs -> BOOLEAN]
      /\ mem \in [Combs -> Stores] /\ pm \in [Combs -> [Addrs -> SUBSET Nat]]
      /\ \A d \in Combs, a \in Addrs : mem[d][a] \in pm[d][a]
  BY DEF DataInv, Shared, DataTypes
<1>3. /\ UNCHANGED <<nc, cc, head, sauron, lastIdx>>
      /\ UNCHANGED <<hist, ring, enqueuers, announce>>
      /\ pc[t] \in {"w_merge", "w_flush", "w_flush_all"}
      /\ flushcopy' = flushcopy \/ flushcopy' = [flushcopy EXCEPT ![c] = TRUE]
         \/ flushcopy' = [flushcopy EXCEPT ![c] = FALSE]
  BY DEF MergeLines, FlushLines, FlushAll, lockVars, stateVars, reqVars, ghostVars
<1>4. c \in Combs /\ flushcopy' \in [Combs -> BOOLEAN]
  BY <1>1, <1>2, <1>3 DEF Held, Filling, Running, Flushing, Typed
<1>5. CASE Undo(t) /\ (Continue(t) \/ Break(t))
  <2>1. /\ mem'[c] = Commit(cc[t].seq).mem
        /\ mem' \in [Combs -> Stores] /\ pm' \in [Combs -> [Addrs -> SUBSET Nat]]
        /\ \A d \in Combs, a \in Addrs : mem'[d][a] \in pm'[d][a]
        /\ \A d \in Combs \ {c} : mem'[d] = mem[d]
        /\ UNCHANGED <<curComb, pcur>> /\ cc[t].seq \in CommitSeqs
        /\ Recorded(cc[t].seq, loc[t].lt) /\ loc[t].lt.seq = cc[t].seq
    BY <1>3, <1>5, Undone DEF Working, Running, Flushing
  <2>2. head[c] = loc[t].lt
    BY <1>1, <1>3 DEF Good, Works, Working, Running, Flushing, Downgraded
  <2>3. Content(nc[t])'
    BY <1>3, <2>1, <2>2 DEF Content, Recorded, Holds, CommitSeqs, Commit
  <2>4. Good(t)' /\ pc'[t] \in {"w_load", "w_exit"}
    BY <1>3, <1>5, <2>1, <2>3, Retreat
  <2>5. OwnStep(t)
    BY <1>2, <1>3, <1>4, <2>1, <2>4 DEF OwnStep
  <2>6. QED
    BY <2>4, <2>5
<1>6. CASE ~(Undo(t) /\ (Continue(t) \/ Break(t)))
  <2>1. /\ UNCHANGED <<mem, curComb, pcur>>
        /\ pm' = pm \/ \E lines : PWBLines(c, lines)
        /\ pc'[t] \in {"w_flush", "w_flush_copy", "w_head"}
        /\ loc'[t].lt = loc[t].lt /\ loc'[t].op = loc[t].op /\ loc'[t].cl = loc[t].cl
        /\ loc'[t].undo = loc[t].undo
    <3>1. CASE MergeLines(t) /\ loc[t].any
      BY <1>1, <1>6, <3>1, Loc0Facts DEF MergeLines, nvmVars, Goto, Typed
    <3>2. CASE FlushLines(t)
      BY <1>1, <3>2 DEF FlushLines, Goto, Typed
    <3>3. CASE FlushAll(t)
      BY <1>1, <1>6, <3>3, Loc0Facts DEF FlushAll, Goto, Typed
    <3>4. QED
      BY <3>1, <3>2, <3>3
  <2>2. /\ pm' \in [Combs -> [Addrs -> SUBSET Nat]]
        /\ \A d \in Combs, a \in Addrs : mem[d][a] \in pm'[d][a]
    <3>1. CASE pm' = pm
      BY <1>2, <3>1
    <3>2. CASE \E lines : PWBLines(c, lines)
      <4>1. PICK lines : pm' = [pm EXCEPT ![c] =
                           [a \in Addrs |-> IF a \in lines THEN {mem[c][a]} ELSE @[a]]]
        BY <3>2 DEF PWBLines
      <4>2. pm'[c] = [a \in Addrs |-> IF a \in lines THEN {mem[c][a]} ELSE pm[c][a]]
        BY <1>2, <1>4, <4>1
      <4>3. pm'[c] \in [Addrs -> SUBSET Nat] /\ \A a \in Addrs : mem[c][a] \in pm'[c][a]
        BY <1>2, <1>4, <4>2 DEF Stores
      <4>4. \A d \in Combs \ {c} : pm'[d] = pm[d]
        BY <1>2, <4>1
      <4>5. pm' \in [Combs -> [Addrs -> SUBSET Nat]]
        BY <1>2, <4>1, <4>3
      <4>6. QED
        BY <1>2, <4>3, <4>4, <4>5
    <3>3. QED
      BY <2>1, <3>1, <3>2
  <2>3. OwnStep(t)
    BY <1>2, <1>3, <1>4, <2>1, <2>2 DEF OwnStep
  <2>4. Names(t)'
    BY <1>1, <1>3, <2>1, NamesKept DEF Good, Names, Based, Filling, Running, Flushing
  <2>5. Drafts(t)' /\ Replays(t)' /\ CopiesRight(t)'
    BY <1>1, <1>3, <2>1
       DEF Good, Drafts, Replays, CopiesRight, NewState, NewTicket, Drafted, Based, Fresh,
           Filling, Running, Flushing, Downgraded, Replaying, Copying
  <2>6. Works(t)'
    BY <1>1, <1>3, <2>1
       DEF Good, Works, CommitSeqs, Commit, NewState, NewTicket, Working, Running, Flushing,
           Downgraded
  <2>7. QED
    BY <2>3, <2>4, <2>5, <2>6 DEF Good
<1>7. QED
  BY <1>5, <1>6

LEMMA SetHeadGood ==
  ASSUME LockInv, ScanInv, DataInv, NEW t \in Threads, SetHead(t)
  PROVE  OwnStep(t) /\ Good(t)'
<1> DEFINE c == nc[t]
           cur == NewState(t)
           size == Cardinality(DOMAIN loc[t].undo)
           st == [cur EXCEPT !.logSize = size]
<1>1. Typed(t) /\ Held(t) /\ Good(t)
  BY Known
<1>2. /\ UNCHANGED <<mem, pm, curComb, pcur, nc, cc, loc, flushcopy, lastIdx>>
      /\ UNCHANGED <<hist, ring, enqueuers, announce>>
      /\ pc[t] = "w_head" /\ pc'[t] = "w_publish"
      /\ head' = [head EXCEPT ![c] = NewTicket(t)]
      /\ sauron' = [sauron EXCEPT ![t][lastIdx[t]].logSize = size]
  BY <1>1 DEF SetHead, Goto, Typed, nvmVars, reqVars, ghostVars
<1>3. /\ DOMAIN sauron = Threads /\ DOMAIN sauron[t] = 0 .. STATESSIZE - 1
      /\ lastIdx[t] \in 0 .. STATESSIZE - 1 /\ DOMAIN cur = DOMAIN State0
      /\ DOMAIN cur.results = Threads /\ StateOK(cur)
      /\ \A k \in Threads : enqueuers[k] = NONE => ~cur.applied[k]
  BY DEF DataInv, Shared, DataTypes, StateTypes, Silent, NewState
<1>4. DOMAIN State0 = {"ticket", "applied", "results", "log", "logSize"}
  BY DEF State0
<1>5. /\ st.ticket = cur.ticket /\ st.log = cur.log /\ st.logSize = size
      /\ st.applied = cur.applied /\ st.results = cur.results /\ DOMAIN st = DOMAIN State0
  BY <1>3, <1>4
<1>6. sauron' = [sauron EXCEPT ![t][lastIdx[t]] = st]
  BY <1>2, <1>3 DEF NewState
<1>7. /\ cur.ticket = NewTicket(t) /\ Partial(loc[t].undo)
      /\ DOMAIN cur.log = DOMAIN loc[t].undo
      /\ mem[c] = Over(Commit(cc[t].seq).mem, cur.log)
      /\ \A a \in DOMAIN loc[t].undo : loc[t].undo[a] = Commit(cc[t].seq).mem[a]
      /\ \A u \in Threads : cc[u].idx = c => cc[u].seq <= cc[t].seq
  BY <1>1, <1>2 DEF Good, Drafts, Works, Drafted, Based, Filling, Working, Flushing, Downgraded
<1> HIDE DEF st, cur
<1>8. size \in 0 .. Cardinality(Addrs)
  BY <1>7, RedoAssumption, FS_Subset, FS_CardinalityType DEF Partial
<1>9. StateOK(st)
  BY <1>3, <1>5, <1>8 DEF StateOK
<1>10. Redrafts(t)
  <2>1. pc[t] \in Based
    BY <1>2 DEF Based, Filling, Flushing
  <2>2. QED
    BY <1>3, <1>5, <1>6, <1>7, <1>9, <2>1 DEF Redrafts
<1>11. NewTicket(t) \in Tickets /\ c \in Combs
  BY <1>1, <1>2, <1>3, RedoAssumption, SMTT(60)
     DEF NewTicket, SeqTidIdx, Tickets, Typed, Threads, Held, Filling, Flushing
<1>12. /\ mem \in [Combs -> Stores] /\ pm \in [Combs -> [Addrs -> SUBSET Nat]]
       /\ \A d \in Combs, a \in Addrs : mem[d][a] \in pm[d][a]
       /\ head' \in [Combs -> Tickets] /\ head'[c] = NewTicket(t)
       /\ \A d \in Combs \ {c} : head'[d] = head[d]
       /\ flushcopy \in [Combs -> BOOLEAN]
  BY <1>2, <1>11 DEF DataInv, Shared, DataTypes
<1>13. OwnStep(t)
  BY <1>2, <1>10, <1>12 DEF OwnStep
<1>14. Names(t)'
  BY <1>1, <1>2, NamesKept DEF Good, Names, Based, Filling, Flushing, Downgraded
<1>15. NewState(t)' = st /\ NewTicket(t)' = NewTicket(t)
  BY <1>2, <1>3, <1>6 DEF NewState, NewTicket
<1>16. Drafts(t)'
  BY <1>2, <1>5, <1>7, <1>15 DEF Drafts, Running, Downgraded
<1>17. Works(t)'
  BY <1>2, <1>5, <1>7, <1>12, <1>15
     DEF Works, CommitSeqs, Commit, Working, Downgraded
<1>18. Replays(t)' /\ CopiesRight(t)'
  BY <1>2 DEF Replays, CopiesRight, Fresh, Replaying, Copying
<1>19. QED
  BY <1>13, <1>14, <1>16, <1>17, <1>18 DEF Good

LEMMA WithdrawGood ==
  ASSUME LockInv, ScanInv, DataInv, NEW t \in Threads, Withdraw(t)
  PROVE  OwnStep(t) /\ Good(t)'
<1> DEFINE c == nc[t]
<1>1. Typed(t) /\ Good(t) /\ NONE \notin Combs
  BY Known, NoneIsNoReplica
<1>2. /\ UNCHANGED <<cc, sauron, lastIdx, flushcopy>>
      /\ UNCHANGED <<hist, ring, enqueuers, announce>>
      /\ pc[t] = "w_lost" /\ Undo(t) /\ Continue(t) /\ nc'[t] = NONE
      /\ head' = [head EXCEPT ![c] = loc[t].lt]
  BY <1>1 DEF Withdraw, Typed, stateVars, reqVars, ghostVars
<1>3. /\ mem'[c] = Commit(cc[t].seq).mem
      /\ mem' \in [Combs -> Stores] /\ pm' \in [Combs -> [Addrs -> SUBSET Nat]]
      /\ \A d \in Combs, a \in Addrs : mem'[d][a] \in pm'[d][a]
      /\ \A d \in Combs \ {c} : mem'[d] = mem[d]
      /\ UNCHANGED <<curComb, pcur>>
      /\ c \in Combs /\ cc[t].seq \in CommitSeqs
      /\ Recorded(cc[t].seq, loc[t].lt) /\ loc[t].lt \in Tickets
      /\ loc[t].lt.seq = cc[t].seq
  BY <1>2, Undone DEF Working, Downgraded
<1>4. /\ head' \in [Combs -> Tickets] /\ head'[c] = loc[t].lt
      /\ \A d \in Combs \ {c} : head'[d] = head[d]
      /\ flushcopy \in [Combs -> BOOLEAN]
  BY <1>2, <1>3 DEF DataInv, Shared, DataTypes
<1>5. \A d \in Combs : d = c => Content(d)'
  BY <1>2, <1>3, <1>4 DEF Content, Recorded, Holds, CommitSeqs, Commit
<1>6. Good(t)' /\ pc'[t] \in {"w_load", "w_exit"}
  BY <1>2, <1>3, Retreat
<1>7. OwnStep(t)
  BY <1>2, <1>3, <1>4, <1>5, <1>6 DEF OwnStep
<1>8. QED
  BY <1>6, <1>7

(***************************************************************************)
(* The steps that write to the slots of the requests and of the ring.      *)
(***************************************************************************)
SlotStep(t) ==
  /\ UNCHANGED <<mem, pm, head, flushcopy, sauron, hist, curComb, nc>>
  /\ pcur' \subseteq pcur
  /\ cc'[t] = cc[t] \/ cc'[t] = Ticket0
  /\ lastIdx' \in [Threads -> 0 .. STATESSIZE - 1]
  /\ \A u \in Threads \ {t} : lastIdx'[u] = lastIdx[u]
  /\ enqueuers' \in [Threads -> Ops] /\ announce' \in [Threads -> BOOLEAN]
  /\ \A u \in Threads : enqueuers'[u] = enqueuers[u] \/ enqueuers'[u] # NONE
  /\ \A u \in Threads : enqueuers'[u] = NONE => announce'[u] = announce[u]
  /\ pc'[t] \in {"w_announce", "r_announce"} => enqueuers'[t] # NONE
  /\ ring' \in [0 .. RINGSIZE - 1 -> Tickets]
  /\ \A k \in 0 .. RINGSIZE - 1 :
       \/ ring'[k] = ring[k]
       \/ Recorded(ring'[k].seq, ring'[k]) /\ \A v \in pcur' : v.seq >= ring'[k].seq

LEMMA SlotKeeps ==
  ASSUME LockInv, LockInv', ScanInv, DataInv, NEW t \in Threads, Stays(t), SlotStep(t), Good(t)'
  PROVE  DataInv'
<1>1. CommitSeqs' = CommitSeqs /\ \A s \in CommitSeqs : Commit(s)' = Commit(s)
  BY DEF SlotStep, CommitSeqs, Commit
<1>2. Touch(t)
  <2>1. /\ cc'[t].idx = cc[t].idx \/ cc'[t].seq = 0
        /\ cc'[t].seq <= cc[t].seq \/ cc'[t] = curComb
    BY DEF SlotStep, LockInv, LockTypes, Places, Ticket0, SeqTidIdx
  <2>2. \A s \in CommitSeqs :
          LET tk == Commit(s).tk IN sauron'[tk.tid][tk.idx] = sauron[tk.tid][tk.idx]
    BY DEF SlotStep
  <2>3. QED
    BY <1>1, <2>1, <2>2 DEF Touch, SlotStep
<1>3. DataTypes' /\ StateTypes'
  <2>1. DataTypes'
    BY DEF SlotStep, DataInv, Shared, DataTypes
  <2>2. StateTypes'
    BY DEF SlotStep, DataInv, Shared, StateTypes
  <2>3. QED
    BY <2>1, <2>2
<1>4. Silent'
  <2>1. pc' \in [Threads -> Locations]
    BY DEF LockInv, LockTypes
  <2>2. QED
    BY <2>1, SMTT(60) DEF SlotStep, DataInv, Shared, Silent, Stays
<1>5. History'
  BY DEF SlotStep, DataInv, Shared, History, Logged, CommitSeqs, Commit, StateOf
<1>6. CurrentIntact'
  BY DEF SlotStep, DataInv, Shared, CurrentIntact, Holds, Recorded, CommitSeqs, Commit
<1>7. Ring'
  <2>1. \A s, tk : Recorded(s, tk)' <=> Recorded(s, tk)
    BY DEF SlotStep, Recorded, CommitSeqs, Commit
  <2>2. \A k \in 0 .. RINGSIZE - 1 :
          /\ Recorded(ring'[k].seq, ring'[k]) /\ \A v \in pcur' : v.seq >= ring'[k].seq
    BY DEF SlotStep, DataInv, Shared, Ring
  <2>3. \A v \in pcur' : v.seq \in CommitSeqs'
    BY <1>1 DEF SlotStep, DataInv, Shared, Ring
  <2>4. QED
    BY <1>1, <2>2, <2>3 DEF Ring, Recorded
<1>8. FreeContent'
  BY DEF SlotStep, DataInv, Shared, FreeContent, Content, Recorded, Holds, CommitSeqs, Commit
<1>9. \A u \in Threads : Good(u)'
  BY <1>2, OtherNames, OtherDrafts, OtherReplica DEF Good
<1>10. QED
  BY <1>3, <1>4, <1>5, <1>6, <1>7, <1>8, <1>9 DEF DataInv, Shared

LEMMA RequestSteps ==
  ASSUME LockInv, ScanInv, DataInv, NEW t \in Threads,
         BeginWrite(t) \/ Announce(t) \/ ReadEnqueue(t)
  PROVE  SlotStep(t) /\ Good(t)'
<1>1. Typed(t) /\ Held(t) /\ Good(t)
  BY Known
<1>2. /\ lastIdx \in [Threads -> 0 .. STATESSIZE - 1] /\ ring \in [0 .. RINGSIZE - 1 -> Tickets]
      /\ enqueuers \in [Threads -> Ops] /\ announce \in [Threads -> BOOLEAN]
      /\ pc[t] \in {"w_announce", "r_announce"} => enqueuers[t] # NONE
  BY DEF DataInv, Shared, DataTypes, Silent
<1>3. READ \in Ops /\ Addrs \subseteq Ops /\ NONE \notin Addrs /\ NONE # READ
  BY RedoAssumption DEF Ops
<1>4. /\ UNCHANGED <<mem, pm, head, flushcopy, sauron, hist, curComb, nc, cc, loc>>
      /\ UNCHANGED <<pcur, lastIdx, ring>>
      /\ pc[t] \in {"idle", "w_announce", "r_announce", "r_enqueue"}
      /\ pc'[t] \in {"w_announce", "r_announce", "w_init", "r_load"}
  BY <1>1
     DEF BeginWrite, Announce, ReadEnqueue, Open, Goto, Typed, nvmVars, combVars, stateVars,
     ghostVars
<1>5. SlotStep(t)
  <2>1. CASE BeginWrite(t) \/ ReadEnqueue(t)
    <3>1. /\ \E a \in Ops \ {NONE} : enqueuers' = [enqueuers EXCEPT ![t] = a]
          /\ announce' = announce
      BY <1>3, <2>1 DEF BeginWrite, ReadEnqueue
    <3>2. /\ enqueuers' \in [Threads -> Ops] /\ enqueuers'[t] # NONE
          /\ \A u \in Threads \ {t} : enqueuers'[u] = enqueuers[u]
      BY <1>2, <3>1
    <3>3. QED
      BY <1>2, <1>4, <3>1, <3>2 DEF SlotStep
  <2>2. CASE Announce(t)
    <3>1. /\ announce' = [announce EXCEPT ![t] = ~announce[t]] /\ enqueuers' = enqueuers
          /\ pc[t] \in {"w_announce", "r_announce"}
      BY <2>2 DEF Announce
    <3>2. /\ announce' \in [Threads -> BOOLEAN] /\ enqueuers[t] # NONE
          /\ \A u \in Threads \ {t} : announce'[u] = announce[u]
      BY <1>2, <3>1
    <3>3. QED
      BY <1>2, <1>4, <3>1, <3>2 DEF SlotStep
  <2>3. QED
    BY <2>1, <2>2
<1>6. nc'[t] = NONE
  BY <1>1, <1>4 DEF Held, Without
<1>7. QED
  BY <1>1, <1>4, <1>5, <1>6, Rests DEF Good, Names, Resting

(* The ring slot of a commit is advanced after the fence.                  *)
LEMMA RingAdvanced ==
  ASSUME DataInv, NEW s, NEW old, NEW tk, Recorded(s, tk), FencedCurComb(s), RingCas(s, old,
         tk),
         UNCHANGED hist
  PROVE  /\ ring' \in [0 .. RINGSIZE - 1 -> Tickets]
         /\ \A k \in 0 .. RINGSIZE - 1 :
              \/ ring'[k] = ring[k]
              \/ Recorded(ring'[k].seq, ring'[k]) /\ \A v \in pcur' : v.seq >= ring'[k].seq
         /\ pcur' \subseteq pcur /\ UNCHANGED <<curComb, mem, pm>>
<1>1. tk \in Tickets /\ tk.seq = s
  BY CommitTypes DEF Recorded
<1>2. ring \in [0 .. RINGSIZE - 1 -> Tickets]
  BY DEF DataInv, Shared, DataTypes
<1>3. \A k \in 0 .. RINGSIZE - 1 : ring'[k] = ring[k] \/ ring'[k] = tk
  BY <1>2 DEF RingCas
<1>4. ring' \in [0 .. RINGSIZE - 1 -> Tickets]
  BY <1>1, <1>2 DEF RingCas
<1>5. \A v \in pcur' : v.seq >= s
  BY DEF FencedCurComb
<1>6. QED
  BY <1>1, <1>3, <1>4, <1>5 DEF FencedCurComb

LEMMA HelpRingGood ==
  ASSUME LockInv, ScanInv, DataInv, NEW t \in Threads, HelpRing(t)
  PROVE  SlotStep(t) /\ Good(t)'
<1>1. Typed(t) /\ Held(t) /\ Good(t)
  BY Known
<1>2. /\ UNCHANGED <<head, flushcopy, sauron, hist, nc, cc, enqueuers, announce, lastIdx>>
      /\ pc[t] = "w_help_ring" /\ pc'[t] \in {"w_pick", "w_replay"}
      /\ pc'[t] = "w_replay" => nc[t] # NONE
      /\ FencedCurComb(cc[t].seq) /\ RingCas(cc[t].seq, loc[t].rt, loc[t].lt)
      /\ loc'[t].lt = loc[t].lt /\ loc'[t].op = loc[t].op /\ loc'[t].cl = loc[t].cl
      /\ loc'[t].undo = loc[t].undo /\ loc'[t].any = loc[t].any
  BY <1>1, Loc0Facts
     DEF HelpRing, AfterRing, Goto, Typed, combVars, stateVars, reqVars, ghostVars
<1>3. Recorded(cc[t].seq, loc[t].lt)
  BY <1>1, <1>2 DEF Good, Names, Based
<1>4. /\ ring' \in [0 .. RINGSIZE - 1 -> Tickets]
      /\ \A k \in 0 .. RINGSIZE - 1 :
           \/ ring'[k] = ring[k]
           \/ Recorded(ring'[k].seq, ring'[k]) /\ \A v \in pcur' : v.seq >= ring'[k].seq
      /\ pcur' \subseteq pcur /\ UNCHANGED <<curComb, mem, pm>>
  BY <1>2, <1>3, RingAdvanced
<1>5. SlotStep(t)
  BY <1>2, <1>4 DEF SlotStep, DataInv, Shared, DataTypes
<1>6. Names(t)'
  BY <1>1, <1>2, <1>4, NamesKept DEF Good, Names, Based, Filling
<1>7. nc[t] = NONE \/ Content(nc[t])
  BY <1>1, <1>2, SMTT(60) DEF Good, Replays, Fresh
<1>8. Drafts(t)' /\ Replays(t)' /\ CopiesRight(t)' /\ Works(t)'
  BY <1>1, <1>2, <1>4, <1>7
     DEF Good, Drafts, Replays, CopiesRight, Works, Content, Recorded,
         Holds, CommitSeqs, Commit, NewState, NewTicket, Based, Drafted, Fresh, Working,
         Filling, Replaying, Copying, Running, Flushing, Downgraded
<1>9. QED
  BY <1>5, <1>6, <1>8 DEF Good

LEMMA AdvanceSteps ==
  ASSUME LockInv, ScanInv, DataInv, NEW t \in Threads,
         \/ AdvanceCas(t) \/ ExitAdvanceCas(t)
         \/ AdvanceRead(t) /\ ~(ring[Slot(cc[t].seq + 1)].seq < cc[t].seq + 1)
  PROVE  SlotStep(t) /\ Good(t)'
<1>1. Typed(t) /\ Held(t) /\ Good(t)
  BY Known
<1>2. /\ DOMAIN lastIdx = Threads /\ lastIdx \in [Threads -> 0 .. STATESSIZE - 1]
      /\ (lastIdx[t] + 1) % STATESSIZE \in 0 .. STATESSIZE - 1
  BY RedoAssumption DEF DataInv, Shared, DataTypes
<1>3. NONE \in Ops /\ <<>> \in LineSeqs /\ Loc0.op = NONE /\ Loc0.cl = <<>>
      /\ Ticket0.seq = 0
  BY DEF Ops, LineSeqs, Loc0, Ticket0, SeqTidIdx
<1>4. CASE AdvanceCas(t) \/ (AdvanceRead(t) /\ ~(ring[Slot(cc[t].seq + 1)].seq < cc[t].seq + 1))
  <2>1. /\ UNCHANGED <<head, flushcopy, sauron, hist, nc, enqueuers, announce, curComb, mem, pm>>
        /\ pc[t] \in {"w_advance", "w_advance_cas"} /\ Committed(t)
        /\ pc'[t] = "idle" /\ cc'[t] = Ticket0 /\ loc'[t] = Loc0
        /\ lastIdx' = [lastIdx EXCEPT ![t] = (@ + 1) % STATESSIZE]
    <3>1. Committed(t) /\ pc[t] \in {"w_advance", "w_advance_cas"}
      BY <1>4 DEF AdvanceCas, AdvanceRead
    <3>2. UNCHANGED <<head, flushcopy, sauron, nc, enqueuers, announce, curComb, mem, pm>>
      BY <1>4 DEF AdvanceCas, AdvanceRead, FencedCurComb, combVars, reqVars, nvmVars
    <3>3. QED
      BY <1>1, <3>1, <3>2 DEF Committed, Return, Goto, Set, Typed
  <2>2. /\ ring' \in [0 .. RINGSIZE - 1 -> Tickets]
        /\ \A k \in 0 .. RINGSIZE - 1 :
             \/ ring'[k] = ring[k]
             \/ Recorded(ring'[k].seq, ring'[k]) /\ \A v \in pcur' : v.seq >= ring'[k].seq
        /\ pcur' \subseteq pcur
    <3>1. CASE AdvanceCas(t)
      <4>1. Recorded(cc[t].seq + 1, NewTicket(t))
        BY <1>1, <3>1 DEF AdvanceCas, Good, Names
      <4>2. QED
        BY <2>1, <3>1, <4>1, RingAdvanced DEF AdvanceCas
    <3>2. CASE AdvanceRead(t) /\ ~(ring[Slot(cc[t].seq + 1)].seq < cc[t].seq + 1)
      BY <3>2 DEF AdvanceRead, nvmVars, combVars, DataInv, Shared, DataTypes
    <3>3. QED
      BY <1>4, <3>1, <3>2
  <2>3. /\ lastIdx' \in [Threads -> 0 .. STATESSIZE - 1]
        /\ \A u \in Threads \ {t} : lastIdx'[u] = lastIdx[u]
    BY <1>2, <2>1
  <2>4. SlotStep(t)
    BY <2>1, <2>2, <2>3 DEF SlotStep, DataInv, Shared, DataTypes
  <2>5. nc'[t] = NONE
    BY <1>1, <2>1 DEF Held, Without
  <2>6. QED
    BY <1>1, <1>3, <2>1, <2>4, <2>5, Rests DEF Resting, Typed
<1>5. CASE ExitAdvanceCas(t)
  <2>1. /\ UNCHANGED <<head, flushcopy, sauron, hist, nc, cc, enqueuers, announce, lastIdx>>
        /\ pc[t] = "x_advance_cas" /\ pc'[t] = "x_result"
        /\ FencedCurComb(cc[t].seq) /\ RingCas(cc[t].seq, loc[t].rt, loc[t].tk)
        /\ loc'[t].op = loc[t].op /\ loc'[t].cl = loc[t].cl
    BY <1>1, <1>5, Loc0Facts
       DEF ExitAdvanceCas, Goto, Typed, combVars, stateVars, reqVars, ghostVars
  <2>2. Recorded(cc[t].seq, loc[t].tk)
    BY <1>1, <2>1 DEF Good, Names
  <2>3. /\ ring' \in [0 .. RINGSIZE - 1 -> Tickets]
        /\ \A k \in 0 .. RINGSIZE - 1 :
             \/ ring'[k] = ring[k]
             \/ Recorded(ring'[k].seq, ring'[k]) /\ \A v \in pcur' : v.seq >= ring'[k].seq
        /\ pcur' \subseteq pcur /\ UNCHANGED <<curComb, mem, pm>>
    BY <2>1, <2>2, RingAdvanced
  <2>4. SlotStep(t)
    BY <2>1, <2>3 DEF SlotStep, DataInv, Shared, DataTypes
  <2>5. nc'[t] = NONE
    BY <1>1, <2>1 DEF Held, Without
  <2>6. QED
    BY <1>1, <2>1, <2>3, <2>4, <2>5, Rests DEF Good, Names, Resting
<1>6. QED
  BY <1>4, <1>5

(***************************************************************************)
(* The CAS of curComb.                                                     *)
(***************************************************************************)
LEMMA PublishKeeps ==
  ASSUME LockInv, LockInv', ScanInv, DataInv, NEW t \in Threads, Stays(t),
         Publish(t), Current(t)
  PROVE  DataInv'
<1>1. Typed(t) /\ Held(t) /\ Good(t) /\ pc[t] = "w_publish" /\ cc[t] = curComb
  BY Known DEF Publish, Current
<1>2. PICK n \in Nat, c \in Combs : n = cc[t].seq + 1 /\ c = nc[t]
  BY <1>1 DEF Held, Typed, Downgraded
<1>3. PICK st, tk, e :
        /\ st = NewState(t) /\ tk = NewTicket(t)
        /\ e = [mem |-> mem[c], tk |-> tk, applied |-> st.applied]
  OBVIOUS
<1>4. /\ UNCHANGED <<mem, pm, head, flushcopy, sauron, lastIdx, ring>>
      /\ UNCHANGED <<enqueuers, announce, cc, loc>>
      /\ curComb' = SeqTidIdx(n, t, c) /\ pcur' = pcur \union {SeqTidIdx(n, t, c)}
      /\ hist' = Append(hist, e)
      /\ nc'[t] = NONE /\ \A u \in Threads \ {t} : nc'[u] = nc[u]
      /\ pc'[t] = "w_unlock"
  BY <1>1, <1>2, <1>3
     DEF Publish, Published, RecordCommit, Goto, Typed, volatileVars, combVars, stateVars,
     reqVars, Current
<1>5. /\ c # NONE /\ c # curComb.idx
      /\ lastIdx[t] \in 0 .. STATESSIZE - 1 /\ tk \in Tickets
      /\ tk.seq = n /\ tk.tid = t /\ tk.idx = lastIdx[t]
      /\ StateOf(tk) = st /\ n \in Nat /\ n - 1 = cc[t].seq
  <2>1. lastIdx[t] \in 0 .. STATESSIZE - 1
    BY DEF DataInv, Shared, DataTypes
  <2>2. c \in Combs /\ c # NONE /\ Claim(t) = c
    BY <1>1, <1>2, <1>3 DEF Held, Typed, Downgraded, Claim
  <2>3. QED
    BY <1>1, <1>2, <1>3, <2>1, <2>2, RedoAssumption, SMTT(60)
       DEF Held, Typed, NewTicket, SeqTidIdx, Tickets, StateOf, NewState, Threads
<1>6. /\ mem[c] = Over(Commit(n - 1).mem, st.log) /\ head[c] = tk
      /\ st.ticket = tk /\ st.logSize = Cardinality(DOMAIN st.log)
  <2>1. /\ mem[c] = Over(Commit(cc[t].seq).mem, st.log) /\ head[c] = tk
    BY <1>1, <1>2, <1>3 DEF Good, Works, Working, Downgraded
  <2>2. /\ st.ticket = tk /\ DOMAIN st.log = DOMAIN loc[t].undo
        /\ st.logSize = Cardinality(DOMAIN loc[t].undo)
    BY <1>1, <1>2, <1>3 DEF Good, Drafts, Drafted, Based, Downgraded
  <2>3. QED
    BY <1>2, <1>3, <1>5, <2>1, <2>2
<1>7. st.applied \in [Threads -> BOOLEAN] /\ e \in Entries
  <2>1. st.applied \in [Threads -> BOOLEAN]
    BY <1>2, <1>3, <1>5, RedoAssumption
       DEF DataInv, Shared, DataTypes, StateTypes, StateOK, NewState
  <2>2. mem[c] \in Stores
    BY <1>5 DEF DataInv, Shared, DataTypes
  <2>3. QED
    BY <1>2, <1>3, <1>5, <2>1, <2>2 DEF Entries
<1>8. /\ hist \in Seq(Entries) /\ Len(hist) = n /\ hist' \in Seq(Entries) /\ Len(hist') = n + 1
      /\ hist'[n + 1] = e /\ \A i \in 1 .. n : hist'[i] = hist[i]
  <2>1. hist \in Seq(Entries) /\ Len(hist) = n
    BY <1>1, <1>2, <1>3 DEF DataInv, Shared, DataTypes, History
  <2>2. QED
    BY <1>4, <1>7, <2>1
<1>9. /\ CommitSeqs = 0 .. n - 1 /\ CommitSeqs' = 0 .. n
      /\ \A s \in CommitSeqs : s \in CommitSeqs' /\ Commit(s)' = Commit(s)
      /\ Commit(n)' = e
  BY <1>5, <1>8 DEF CommitSeqs, Commit
<1>10. e.mem = mem[c] /\ e.tk = tk
  BY <1>2, <1>3
<1>11. \A s, x : Recorded(s, x) => Recorded(s, x)'
  BY <1>9 DEF Recorded
<1>12. Touch(t)
  <2>1. \A s \in CommitSeqs' \ CommitSeqs : (Commit(s).tk)'.tid = t
    <3>1. ASSUME NEW s \in CommitSeqs' \ CommitSeqs PROVE (Commit(s).tk)'.tid = t
      <4>1. s = n
        BY <1>5, <1>9, <3>1
      <4>2. (Commit(s).tk)' = e.tk
        BY <1>9, <4>1
      <4>3. QED
        BY <1>5, <1>10, <4>2
    <3>2. QED
      BY <3>1
  <2>2. cc'[t].seq <= cc[t].seq
    BY <1>1, <1>4 DEF Typed
  <2>3. QED
    BY <1>4, <1>9, <2>1, <2>2 DEF Touch
<1>13. DataTypes' /\ StateTypes'
  <2>1. DataTypes'
    BY <1>4, <1>8 DEF DataInv, Shared, DataTypes
  <2>2. StateTypes'
    BY <1>4 DEF DataInv, Shared, StateTypes
  <2>3. QED
    BY <2>1, <2>2
<1>14. Silent'
  BY <1>4 DEF DataInv, Shared, Silent, Stays
<1>15. History'
  <2>1. Len(hist') = curComb'.seq + 1
    BY <1>4, <1>8 DEF SeqTidIdx
  <2>2. ASSUME NEW s \in CommitSeqs
        PROVE  /\ Commit(s)'.tk.seq = s /\ Commit(s)'.tk.tid \in Threads
               /\ Commit(s)'.tk.idx \in 0 .. STATESSIZE - 1
               /\ Logged(s)'
    <3>1. /\ Logged(s) /\ Commit(s)' = Commit(s)
          /\ s > 0 => s - 1 \in CommitSeqs
      BY <1>5, <1>9 DEF DataInv, Shared, History
    <3>2. s > 0 => Commit(s - 1)' = Commit(s - 1)
      BY <1>9, <3>1
    <3>3. Logged(s)'
      BY <1>4, <3>1, <3>2 DEF Logged, StateOf
    <3>4. QED
      BY <3>1, <3>3, CommitTypes
  <2>3. /\ Commit(n)'.tk.seq = n /\ Commit(n)'.tk.tid \in Threads
        /\ Commit(n)'.tk.idx \in 0 .. STATESSIZE - 1
    BY <1>5, <1>9, <1>10
  <2>4. Logged(n)'
    <3>1. n - 1 \in CommitSeqs /\ Commit(n - 1)' = Commit(n - 1)
      BY <1>1, <1>5, <1>9 DEF Typed
    <3>2. /\ Commit(n)'.tk = tk /\ Commit(n)'.mem = mem[c]
          /\ sauron'[Commit(n)'.tk.tid][Commit(n)'.tk.idx] = st
      BY <1>4, <1>5, <1>9, <1>10 DEF StateOf
    <3>3. QED
      BY <1>6, <3>1, <3>2 DEF Logged, StateOf
  <2>5. \A s \in CommitSeqs' : s \in CommitSeqs \/ s = n
    BY <1>5, <1>9
  <2>6. QED
    BY <2>1, <2>2, <2>3, <2>4, <2>5 DEF History
<1>16. /\ n \in CommitSeqs' /\ mem'[c] = Commit(n)'.mem /\ head'[c] = Commit(n)'.tk
       /\ head'[c].seq = n /\ curComb'.seq = n /\ curComb'.idx = c
  BY <1>4, <1>5, <1>6, <1>9, <1>10 DEF SeqTidIdx
<1>17. CurrentIntact'
  BY <1>16 DEF CurrentIntact, Holds, Recorded
<1>18. Ring'
  <2>1. \A v \in pcur' : v.seq \in CommitSeqs'
    BY <1>4, <1>9, <1>16 DEF DataInv, Shared, Ring
  <2>2. ASSUME NEW k \in 0 .. RINGSIZE - 1
        PROVE  Recorded(ring[k].seq, ring[k])' /\ \A v \in pcur' : v.seq >= ring'[k].seq
    <3>1. Recorded(ring[k].seq, ring[k]) /\ \A v \in pcur : v.seq >= ring[k].seq
      BY DEF DataInv, Shared, Ring
    <3>2. n >= ring[k].seq
      BY <1>9, <3>1 DEF Recorded
    <3>3. QED
      BY <1>4, <1>11, <1>16, <3>1, <3>2 DEF Recorded
  <2>3. QED
    BY <2>1, <2>2 DEF Ring
<1>19. FreeContent'
  <2>1. ASSUME NEW d \in Combs, \A u \in Threads : nc'[u] # d
        PROVE  Content(d)'
    <3>1. CASE d = c
      BY <1>16, <3>1 DEF Content, Recorded, Holds
    <3>2. CASE d # c
      <4>1. Content(d)
        BY <1>2, <1>3, <1>4, <2>1, <3>2 DEF DataInv, Shared, FreeContent
      <4>2. QED
        BY <1>4, <1>9, <4>1 DEF Content, Recorded, Holds
    <3>3. QED
      BY <3>1, <3>2
  <2>2. QED
    BY <2>1 DEF FreeContent
<1>20. Good(t)'
  <2>1. Names(t)'
    <3>1. /\ cc'[t].seq <= curComb'.seq
          /\ loc'[t].op \in Ops /\ loc'[t].cl \in LineSeqs
      BY <1>1, <1>2, <1>3, <1>4, <1>16 DEF Good, Names, Typed
    <3>2. Recorded(cc[t].seq + 1, NewTicket(t))'
      BY <1>2, <1>3, <1>4, <1>9, <1>10 DEF Recorded, NewTicket
    <3>3. QED
      BY <1>4, <3>1, <3>2
         DEF Names, Based, Filling, Replaying, Copying, Running, Flushing, Downgraded
  <2>2. Drafts(t)' /\ Replays(t)' /\ CopiesRight(t)' /\ Works(t)'
    BY <1>4 DEF Drafts, Replays, CopiesRight, Works, Drafted, Based, Fresh, Filling, Replaying,
       Copying, Running, Flushing, Downgraded, Working
  <2>3. QED
    BY <2>1, <2>2 DEF Good
<1>21. \A u \in Threads : Good(u)'
  BY <1>12, <1>20, OtherNames, OtherDrafts, OtherReplica DEF Good
<1>22. QED
  BY <1>13, <1>14, <1>15, <1>17, <1>18, <1>19, <1>21 DEF DataInv, Shared

(***************************************************************************)
(* The start, and every restart: one commit, and nothing in progress.      *)
(***************************************************************************)
FreshData ==
  /\ curComb.idx \in Combs /\ curComb.seq = 0 /\ pcur = {curComb}
  /\ mem \in [Combs -> Stores] /\ pm \in [Combs -> [Addrs -> SUBSET Nat]]
  /\ \A c \in Combs, a \in Addrs : mem[c][a] \in pm[c][a]
  /\ head \in [Combs -> {Ticket0, INVALID}] /\ head[curComb.idx] = Ticket0
  /\ \A c \in Combs : head[c] = INVALID \/ mem[c] = mem[curComb.idx]
  /\ flushcopy = [c \in Combs |-> FALSE]
  /\ ring = [s \in 0 .. RINGSIZE - 1 |-> Ticket0]
  /\ sauron = [t \in Threads |-> [i \in 0 .. STATESSIZE - 1 |-> State0]]
  /\ lastIdx = [t \in Threads |-> 1]
  /\ enqueuers = [t \in Threads |-> NONE]
  /\ announce = [t \in Threads |-> FALSE]
  /\ pc = [t \in Threads |-> "idle"]
  /\ cc = [t \in Threads |-> Ticket0]
  /\ nc = [t \in Threads |-> NONE]
  /\ loc = [t \in Threads |-> Loc0]
  /\ hist = <<[mem |-> mem[curComb.idx], tk |-> Ticket0, applied |-> State0.applied]>>

LEMMA FreshDataInv == FreshData => DataInv
<1> SUFFICES ASSUME FreshData PROVE DataInv
  OBVIOUS
<1>1. /\ Ticket0 \in Tickets /\ INVALID \in Tickets /\ 0 \in Threads
      /\ Ticket0.seq = 0 /\ Ticket0.tid = 0 /\ Ticket0.idx = 0
      /\ 0 \in 0 .. STATESSIZE - 1 /\ 1 \in 0 .. STATESSIZE - 1
  BY RedoAssumption DEF Ticket0, INVALID, SeqTidIdx, Tickets, Threads
<1>2. /\ DOMAIN State0.results = Threads /\ StateOK(State0)
      /\ State0.applied = [t \in Threads |-> FALSE]
  <2>1. Partial(Empty) /\ 0 \in 0 .. Cardinality(Addrs)
    BY RedoAssumption, FS_CardinalityType DEF Partial, Empty
  <2>2. QED
    BY <1>1, <2>1 DEF State0, StateOK
<1>3. NONE \in Ops /\ <<>> \in LineSeqs
  BY DEF Ops, LineSeqs
<1>4. mem[curComb.idx] \in Stores
  BY DEF FreshData
<1>5. /\ hist \in Seq(Entries) /\ Len(hist) = 1 /\ CommitSeqs = {0}
      /\ Commit(0).mem = mem[curComb.idx] /\ Commit(0).tk = Ticket0
  <2>1. [mem |-> mem[curComb.idx], tk |-> Ticket0, applied |-> State0.applied] \in Entries
    BY <1>1, <1>2, <1>4 DEF Entries
  <2>2. hist \in Seq(Entries) /\ Len(hist) = 1
    BY <2>1 DEF FreshData
  <2>3. QED
    BY <2>2 DEF FreshData, CommitSeqs, Commit
<1>6. DataTypes
  <2>1. head \in [Combs -> Tickets]
    BY <1>1 DEF FreshData
  <2>2. /\ flushcopy \in [Combs -> BOOLEAN] /\ ring \in [0 .. RINGSIZE - 1 -> Tickets]
        /\ lastIdx \in [Threads -> 0 .. STATESSIZE - 1]
        /\ enqueuers \in [Threads -> Ops] /\ announce \in [Threads -> BOOLEAN]
    BY <1>1, <1>3 DEF FreshData
  <2>3. QED
    BY <1>5, <2>1, <2>2 DEF FreshData, DataTypes
<1>7. StateTypes
  BY <1>2 DEF FreshData, StateTypes
<1>8. Silent
  <2>1. \A t \in Threads, k \in 0 .. STATESSIZE - 1 : sauron[t][k] = State0
    BY DEF FreshData
  <2>2. QED
    BY <1>2, <2>1 DEF FreshData, Silent
<1>9. History
  BY <1>1, <1>5 DEF FreshData, History, Logged
<1>10. CurrentIntact
  BY <1>5 DEF FreshData, CurrentIntact, Holds, Recorded
<1>11. Ring
  BY <1>1, <1>5 DEF FreshData, Ring, Recorded
<1>12. FreeContent
  BY <1>1, <1>5 DEF FreshData, FreeContent, Content, Recorded, Holds
<1>13. ASSUME NEW t \in Threads
       PROVE  Good(t)
  <2>1. pc[t] = "idle" /\ cc[t] = Ticket0 /\ loc[t].op = NONE /\ loc[t].cl = <<>>
    BY DEF FreshData, Loc0
  <2>2. Names(t)
    BY <1>1, <1>3, <2>1
       DEF FreshData, Names, Based, Filling, Replaying, Copying, Running, Flushing, Downgraded
  <2>3. Drafts(t) /\ Replays(t) /\ CopiesRight(t) /\ Works(t)
    BY <2>1 DEF Drafts, Replays, CopiesRight, Works, Drafted, Based, Fresh, Filling, Replaying,
       Copying, Running, Flushing, Downgraded, Working
  <2>4. QED
    BY <2>2, <2>3 DEF Good
<1>14. QED
  BY <1>6, <1>7, <1>8, <1>9, <1>10, <1>11, <1>12, <1>13 DEF DataInv, Shared

LEMMA InitData == Init => DataInv
<1>1. ASSUME Init PROVE FreshData
  <2>1. 0 \in Combs /\ Ticket0.seq = 0 /\ Ticket0.idx = 0
    BY RedoAssumption DEF Combs, Ticket0, SeqTidIdx
  <2>2. Store0 \in Stores /\ \A a \in Addrs : Store0[a] = 0
    BY DEF Store0, Stores
  <2>3. QED
    BY <1>1, <2>1, <2>2 DEF Init, FreshData
<1>2. QED
  BY <1>1, FreshDataInv

LEMMA CrashData ==
  ASSUME ScanInv, DataInv, CrashRestart
  PROVE  DataInv'
<1>1. PICK left \in pcur, m \in [Combs -> [Addrs -> Survivors]] :
        /\ curComb' = SeqTidIdx(0, 0, left.idx) /\ pcur' = {curComb'} /\ mem' = m
        /\ pm' = [c \in Combs |-> [a \in Addrs |-> {m[c][a]}]]
        /\ Volatile(left.idx, INVALID)
        /\ hist' = <<[mem |-> m[left.idx], tk |-> Ticket0, applied |-> State0.applied]>>
  BY DEF CrashRestart
<1>2. left.idx \in Combs
  BY DEF ScanInv, Places
<1>3. Survivors \subseteq Nat
  BY DEF Survivors, DataInv, Shared, DataTypes
<1>4. /\ m \in [Combs -> Stores] /\ pm' \in [Combs -> [Addrs -> SUBSET Nat]]
      /\ \A c \in Combs, a \in Addrs : m[c][a] \in pm'[c][a]
  BY <1>1, <1>3 DEF Stores
<1>5. FreshData'
  BY <1>1, <1>2, <1>4 DEF FreshData, Volatile, SeqTidIdx
<1>6. FreshData' => DataInv'
  BY FreshDataInv, PTL
<1>7. QED
  BY <1>5, <1>6

LEMMA DataStep ==
  ASSUME LockInv, ScanInv, DataInv, HeadKept, NEW t \in Threads, ThreadStep(t)
  PROVE  DataInv'
<1>1. LockInv' /\ Stays(t)
  BY LockStep, ScanStep
<1>2. ASSUME QuietStep(t) \/ OwnStep(t) \/ SlotStep(t), Good(t)'
      PROVE  DataInv'
  BY <1>1, <1>2, QuietKeeps, OwnKeeps, SlotKeeps
<1>3. CASE Prepare(t)
  <2>1. CASE CopyState(t)
    BY <1>2, <2>1, CopyStateGood
  <2>2. CASE BeginWrite(t) \/ Announce(t)
    BY <1>2, <2>2, RequestSteps
  <2>3. CASE HelpRing(t)
    BY <1>2, <2>3, HelpRingGood
  <2>4. CASE \/ WriteInit(t) \/ LoadCurComb(t) \/ LoadTail(t) \/ RingCheck(t)
             \/ ReadRing(t) \/ PickCheck(t) \/ PickTry(t)
    BY <1>2, <2>4, PrepareQuiet
  <2>5. QED
    BY <1>3, <2>1, <2>2, <2>3, <2>4 DEF Prepare
<1>4. CASE CatchUp(t)
  <2>1. CASE ReplayNext(t) \/ Replayed(t)
    BY <1>2, <2>1, ReplayQuiet, HeadSteps
  <2>2. CASE CopyCheck(t)
    <3>1. CASE loc[t].cp # curComb \/ loc[t].left # {}
      BY <1>2, <2>2, <3>1, CatchUpQuiet
    <3>2. CASE loc[t].cp = curComb /\ loc[t].left = {}
      BY <1>2, <2>2, <3>2, HeadSteps
    <3>3. QED
      BY <3>1, <3>2
  <2>3. CASE CopyInit(t)
    BY <1>2, <2>3, HeadSteps
  <2>4. CASE CopyRedoLog(t) \/ CopyWord(t)
    BY <1>2, <2>4, CopySteps
  <2>5. CASE BeginReplay(t) \/ CheckRedoLog(t) \/ CopyHead(t)
    BY <1>2, <2>5, CatchUpQuiet
  <2>6. QED
    BY <1>4, <2>1, <2>2, <2>3, <2>4, <2>5 DEF CatchUp
<1>5. CASE Help(t)
  <2>1. CASE HelpRun(t)
    BY <1>2, <2>1, HelpQuiet, RunRequestGood
  <2>2. CASE MergeLines(t)
    BY <1>2, <2>2, HelpQuiet, FlushSteps
  <2>3. CASE FlushLines(t) \/ FlushAll(t)
    BY <1>2, <2>3, FlushSteps
  <2>4. CASE SetHead(t)
    BY <1>2, <2>4, SetHeadGood
  <2>5. CASE Recheck(t) \/ HelpNext(t) \/ HelpProtected(t) \/ FlushCopyInit(t)
    BY <1>2, <2>5, HelpQuiet
  <2>6. QED
    BY <1>5, <2>1, <2>2, <2>3, <2>4, <2>5 DEF Help
<1>6. CASE Finish(t)
  <2>1. CASE Publish(t)
    BY <1>1, <1>2, <2>1, FinishQuiet, PublishKeeps
  <2>2. CASE Withdraw(t)
    BY <1>2, <2>2, WithdrawGood
  <2>3. CASE AdvanceRead(t)
    BY <1>2, <2>3, FinishQuiet, AdvanceSteps
  <2>4. CASE AdvanceCas(t) \/ ExitAdvanceCas(t)
    BY <1>2, <2>4, AdvanceSteps
  <2>5. CASE \/ UnlockOld(t) \/ ExitUnlock(t) \/ ExitHead(t) \/ ExitRing(t) \/ ExitAdvance(t)
             \/ FetchResult(t)
    BY <1>2, <2>5, FinishQuiet
  <2>6. QED
    BY <1>6, <2>1, <2>2, <2>3, <2>4, <2>5 DEF Finish
<1>7. CASE Read(t)
  <2>1. CASE ReadEnqueue(t)
    BY <1>2, <2>1, RequestSteps
  <2>2. CASE \/ BeginRead(t) \/ ReadLock(t) \/ ReadCheck(t) \/ ReadWord(t) \/ ReadLeave(t)
             \/ ReadUnlock(t) \/ ReadReturn(t) \/ FallbackHead(t)
    BY <1>2, <2>2, ReadQuiet
  <2>3. QED
    BY <1>7, <2>1, <2>2 DEF Read
<1>8. QED
  BY <1>3, <1>4, <1>5, <1>6, <1>7 DEF ThreadStep

LEMMA DataKept == Spec /\ [][HeadKept]_vars => [](LockInv /\ ScanInv /\ DataInv)
<1>1. Init => LockInv /\ ScanInv /\ DataInv
  BY InitLocks, InitScan, InitData
<1>2. LockInv /\ ScanInv /\ DataInv /\ [Next]_vars /\ [HeadKept]_vars
        => LockInv' /\ ScanInv' /\ DataInv'
  <2> SUFFICES ASSUME LockInv, ScanInv, DataInv, [Next]_vars, [HeadKept]_vars
               PROVE  LockInv' /\ ScanInv' /\ DataInv'
    OBVIOUS
  <2>1. ASSUME NEW t \in Threads, ThreadStep(t), HeadKept
        PROVE  LockInv' /\ ScanInv' /\ DataInv'
    BY <2>1, LockStep, ScanStep, DataStep
  <2>2. CASE CrashRestart
    BY <2>2, CrashLocks, CrashScan, CrashData DEF ScanInv
  <2>3. CASE UNCHANGED vars
    <3>1. UNCHANGED <<lock, readers, pc, cc, nc, loc, curComb, pcur>>
      BY <2>3 DEF vars, sharedVars, nvmVars, volatileVars, lockVars
    <3>2. LockInv' /\ ScanInv'
      BY <3>1 DEF LockInv, LockTypes, Claimed, Held, Claim, ScanInv, Scan, LocShape, Copies
    <3>3. UNCHANGED <<mem, pm, head, flushcopy, sauron, lastIdx, ring, hist, enqueuers, announce>>
      BY <2>3
         DEF vars, sharedVars, nvmVars, volatileVars, combVars, stateVars, reqVars, ghostVars
    <3>4. Shared'
      BY <3>1, <3>3, ZenonT(60) DEF DataInv, Shared, DataTypes, StateTypes, Silent, History, Logged,
         CurrentIntact, Ring, FreeContent, Content, Recorded, Holds, CommitSeqs, Commit, StateOf
    <3>5. ASSUME NEW t \in Threads
          PROVE  Good(t)'
      <4>1. Good(t)
        BY DEF DataInv
      <4>2. Names(t)' /\ Drafts(t)'
        BY <3>1, <3>3, <4>1
           DEF Good, Names, Drafts, Recorded, Holds, CommitSeqs, Commit, NewTicket,
           NewState
      <4>3. Replays(t)' /\ CopiesRight(t)'
        <5>1. Replays(t)'
          BY <3>1, <3>3, <4>1, SMTT(120)
             DEF Good, Replays, Content, Recorded, Holds, CommitSeqs, Commit, StateOf
        <5>2. CopiesRight(t)'
          BY <3>1, <3>3, <4>1, SMTT(60)
             DEF Good, CopiesRight, Recorded, CommitSeqs, Commit
        <5>3. QED
          BY <5>1, <5>2
      <4>4. Works(t)'
        BY <3>1, <3>3, <4>1
           DEF Good, Works, Recorded, Holds, CommitSeqs, Commit, NewTicket, NewState
      <4>5. QED
        BY <4>2, <4>3, <4>4 DEF Good
    <3>6. QED
      BY <3>2, <3>4, <3>5 DEF DataInv
  <2>4. QED
    BY <2>1, <2>2, <2>3 DEF Next, Done
<1>3. QED
  BY <1>1, <1>2, PTL DEF Spec

LEMMA Typing == LockInv /\ ScanInv /\ DataInv => TypeOK
<1> SUFFICES ASSUME LockInv, ScanInv, DataInv PROVE TypeOK
  OBVIOUS
<1>1. Places \subseteq Tickets /\ \A v \in Places : v.idx \in Combs
  BY RedoAssumption DEF Places, Tickets, Combs
<1>2. \A v \in pcur \union {curComb} : v \in Tickets /\ v.idx \in Combs
  BY <1>1 DEF ScanInv, LockInv, LockTypes
<1>3. \A t \in Threads : /\ cc[t] \in Tickets /\ cc[t].idx \in Combs
                         /\ loc[t].cl \in LineSeqs /\ loc[t].op \in Ops
  BY <1>1 DEF LockInv, LockTypes, DataInv, Good, Names
<1>4. \A t \in Threads, i \in 0 .. STATESSIZE - 1 : StateOK(sauron[t][i])
  BY DEF DataInv, Shared, StateTypes
<1>5. QED
  BY <1>2, <1>3, <1>4 DEF LockInv, LockTypes, DataInv, Shared, DataTypes, TypeOK

(* RedoOpt: the replica curComb names holds what its commit published, a   *)
(* replica nobody writes holds the commit its head names, and a writer     *)
(* that goes on to help others works on the current store: no redo log     *)
(* replayed too late, no copy made while curComb moved and no attempt      *)
(* taken back leaves a replica that is not what its head says - as long as *)
(* apply_redologs, when it replays nothing, leaves head as it was.         *)
THEOREM ConsistentIfHeadKept == Spec /\ [][HeadKept]_vars => []ReplicasConsistent
<1>1. ASSUME LockInv, ScanInv, DataInv
      PROVE  ReplicasConsistent
  <2>1. CurrentReplicaIntact
    <3>1. curComb.seq \in Nat /\ Len(hist) \in Nat /\ Len(hist) = curComb.seq + 1
      BY <1>1 DEF LockInv, LockTypes, Places, DataInv, Shared, DataTypes, History
    <3>2. QED
      BY <1>1, <3>1
         DEF CurrentReplicaIntact, LockInv, Claimed, DataInv, Shared, CurrentIntact, Holds,
             Recorded
  <2>2. HeadTellsContent
    BY <1>1 DEF HeadTellsContent, DataInv, Shared, FreeContent, Content, Holds
  <2>3. ASSUME NEW t \in Threads, pc[t] = "w_recheck", Current(t)
        PROVE  mem[nc[t]] = Commit(cc[t].seq).mem
    <3>1. /\ Holds(nc[t], head[nc[t]].seq) /\ head[nc[t]].seq >= cc[t].seq
      BY <1>1, <2>3 DEF DataInv, Good, Works
    <3>2. /\ head[nc[t]].seq \in CommitSeqs /\ cc[t].seq = Len(hist) - 1
          /\ cc[t].seq \in Nat /\ Len(hist) \in Nat
      BY <1>1, <2>3, <3>1 DEF Holds, Current, DataInv, Shared, DataTypes, History, LockInv,
         LockTypes, Places
    <3>3. head[nc[t]].seq = cc[t].seq
      BY <3>1, <3>2 DEF CommitSeqs
    <3>4. QED
      BY <3>1, <3>3 DEF Holds
  <2>4. RingNamesCommits
    BY <1>1 DEF RingNamesCommits, DataInv, Shared, Ring, Recorded
  <2>5. QED
    BY <1>1, <2>1, <2>2, <2>3, <2>4, Typing DEF ReplicasConsistent, UpToDate
<1>2. QED
  BY <1>1, DataKept, PTL

=============================================================================
