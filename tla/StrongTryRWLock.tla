--------------------------- MODULE StrongTryRWLock ---------------------------
(***************************************************************************)
(* common/StrongTryRIRWLock.hpp, one atomic access of wstate or of a slot  *)
(* of the read indicator per step.  A thread that is not inside a call is  *)
(* "idle", "reading" (its sharedTryLock returned true) or "writing" (its   *)
(* exclusiveTryLock returned true).  The read-only mode a downgrade leaves *)
(* behind belongs to no thread (handed): in the PTMs the thread that       *)
(* replaces a replica unlocks it, not the one that downgraded it.          *)
(***************************************************************************)
EXTENDS Integers

CONSTANTS
  MaxThreads,             \* maxThreads, the slots of the read indicator.
  MaxSeq                  \* Bound on wstate.seq (62 bits in the code).

ASSUME ConstantsAssumption ==
  /\ MaxThreads \in Nat \ {0}
  /\ MaxSeq \in Nat

Threads == 0 .. MaxThreads - 1

NOT_READING == 0
READING == 1

VARIABLES
  wstate,                 \* The writer state: [seq, state].
  ri,                     \* ri.states, one counter per thread.
  pc,                     \* Where each thread is in its call.
  ws,                     \* The copy of wstate a call works with.
  k,                      \* The next slot a scan of ri visits.
  handed,                 \* A downgraded lock waits for its setReadUnlock.
  outcome                 \* History: how the attempts ended since the lock
                          \* was last unused, a subset of {"won", "lost"}.

vars == <<wstate, ri, pc, ws, k, handed, outcome>>

LockStates == {"NOLOCK", "HLOCK", "RLOCK", "WLOCK"}

StructData == [seq : Nat, state : LockStates]

At(q, s) == [seq |-> q, state |-> s]

Locations ==
  {"idle", "reading", "writing",
   "s_arrive", "s_load", "s_cas", "s_reload", "s_rollback",
   "x_scan", "x_recheck", "x_hope", "x_take", "u_abort", "d_abort"}

TypeOK ==
  /\ wstate \in StructData
  /\ ri \in [Threads -> 0 .. 2]
  /\ pc \in [Threads -> Locations]
  /\ ws \in [Threads -> StructData]
  /\ k \in [Threads -> 0 .. MaxThreads]
  /\ handed \in BOOLEAN
  /\ outcome \in SUBSET {"won", "lost"}

Init ==
  /\ wstate = At(0, "NOLOCK")
  /\ ri = [t \in Threads |-> NOT_READING]
  /\ pc = [t \in Threads |-> "idle"]
  /\ ws = [t \in Threads |-> wstate]
  /\ k = [t \in Threads |-> 0]
  /\ handed = FALSE
  /\ outcome = {}

Unused == ~handed /\ \A t \in Threads : pc[t] = "idle"

Goto(t, l) == pc' = [pc EXCEPT ![t] = l]

Load(t) == ws' = [ws EXCEPT ![t] = wstate]

(* Attempts are recorded from the last moment at which nobody used the    *)
(* lock.                                                                   *)
Record(result) ==
  outcome' = (IF Unused THEN {} ELSE outcome) \union result

Win(t, l)  == Goto(t, l) /\ Record({"won"})
Lose(t)    == Goto(t, "idle") /\ Record({"lost"})
Step(t, l) == Goto(t, l) /\ Record({})

-----------------------------------------------------------------------------
(***************************************************************************)
(* sharedTryLock and sharedUnlock.                                         *)
(***************************************************************************)
SharedCheck(t) ==
  /\ pc[t] = "idle"
  /\ IF wstate.state = "WLOCK" THEN Lose(t) ELSE Step(t, "s_arrive")
  /\ UNCHANGED <<wstate, ri, ws, k, handed>>

Arrive(t) ==
  /\ pc[t] = "s_arrive"
  /\ ri' = [ri EXCEPT ![t] = READING]
  /\ Step(t, "s_load")
  /\ UNCHANGED <<wstate, ws, k, handed>>

(* Where the call goes once it has seen a state other than HLOCK.          *)
Decide(t) ==
  IF wstate.state = "WLOCK" THEN Step(t, "s_rollback") ELSE Win(t, "reading")

(* Mutant of SharedLoad: a reader gives way to a writer that only hopes.   *)
SharedLoadYields(t) ==
  /\ pc[t] = "s_load"
  /\ Load(t)
  /\ IF wstate.state = "HLOCK" THEN Step(t, "s_rollback") ELSE Decide(t)
  /\ UNCHANGED <<wstate, ri, k, handed>>

SharedLoad(t) ==
  /\ pc[t] = "s_load"
  /\ Load(t)
  /\ IF wstate.state = "HLOCK" THEN Step(t, "s_cas") ELSE Decide(t)
  /\ UNCHANGED <<wstate, ri, k, handed>>

SharedCas(t) ==
  /\ pc[t] = "s_cas"
  /\ IF wstate = ws[t]
     THEN wstate' = At(ws[t].seq, "NOLOCK") /\ Win(t, "reading")
     ELSE UNCHANGED wstate /\ Step(t, "s_reload")
  /\ UNCHANGED <<ri, ws, k, handed>>

SharedReload(t) ==
  /\ pc[t] = "s_reload"
  /\ Load(t)
  /\ Decide(t)
  /\ UNCHANGED <<wstate, ri, k, handed>>

(* The fetch_add of rollbackArrive: an arrival that an unlocking writer    *)
(* has marked READING+1 stands.                                            *)
RollbackArrive(t) ==
  /\ pc[t] = "s_rollback"
  /\ ri' = [ri EXCEPT ![t] = @ - 1]
  /\ IF ri[t] = READING THEN Lose(t) ELSE Win(t, "reading")
  /\ UNCHANGED <<wstate, ws, k, handed>>

SharedUnlock(t) ==
  /\ pc[t] = "reading"
  /\ ri' = [ri EXCEPT ![t] = NOT_READING]
  /\ Step(t, "idle")
  /\ UNCHANGED <<wstate, ws, k, handed>>

-----------------------------------------------------------------------------
(***************************************************************************)
(* exclusiveTryLock.  After the NOLOCK -> HLOCK attempt the call works     *)
(* with `next` whether its CAS succeeded or not, so both paths end in the  *)
(* same scan, recheck and CAS on a value whose state is HLOCK.             *)
(***************************************************************************)
ExclusiveLoad(t) ==
  /\ pc[t] = "idle"
  /\ wstate.state = "NOLOCK" => wstate.seq < MaxSeq
  /\ IF wstate.state \in {"WLOCK", "RLOCK"}
     THEN Lose(t) /\ UNCHANGED <<ws, k>>
     ELSE Step(t, "x_scan") /\ Load(t) /\ k' = [k EXCEPT ![t] = 0]
  /\ UNCHANGED <<wstate, ri, handed>>

AfterScan(t) == IF ws[t].state = "HLOCK" THEN "x_recheck" ELSE "x_hope"

(* One iteration of isEmpty().                                             *)
ScanSlot(t) ==
  /\ pc[t] = "x_scan"
  /\ IF ri[k[t]] # NOT_READING
     THEN Lose(t) /\ UNCHANGED k
     ELSE /\ k' = [k EXCEPT ![t] = @ + 1]
          /\ Step(t, IF k[t] + 1 = MaxThreads THEN AfterScan(t) ELSE "x_scan")
  /\ UNCHANGED <<wstate, ri, ws, handed>>

(* Mutant of HopeCas: the slots scanned before the CAS are not rescanned.  *)
HopeCasNoRescan(t) ==
  LET next == At(ws[t].seq + 1, "HLOCK") IN
  /\ pc[t] = "x_hope"
  /\ wstate' = IF wstate = ws[t] THEN next ELSE wstate
  /\ ws' = [ws EXCEPT ![t] = next]
  /\ Step(t, "x_recheck")
  /\ UNCHANGED <<ri, k, handed>>

HopeCas(t) ==
  LET next == At(ws[t].seq + 1, "HLOCK") IN
  /\ pc[t] = "x_hope"
  /\ wstate' = IF wstate = ws[t] THEN next ELSE wstate
  /\ ws' = [ws EXCEPT ![t] = next]
  /\ k' = [k EXCEPT ![t] = 0]
  /\ Step(t, "x_scan")
  /\ UNCHANGED <<ri, handed>>

Recheck(t) ==
  /\ pc[t] = "x_recheck"
  /\ IF wstate # ws[t] THEN Lose(t) ELSE Step(t, "x_take")
  /\ UNCHANGED <<wstate, ri, ws, k, handed>>

(* Mutant of TakeCas: a store of WLOCK after the recheck, not a CAS.       *)
TakeStore(t) ==
  /\ pc[t] = "x_take"
  /\ wstate' = At(ws[t].seq, "WLOCK")
  /\ Win(t, "writing")
  /\ UNCHANGED <<ri, ws, k, handed>>

TakeCas(t) ==
  /\ pc[t] = "x_take"
  /\ IF wstate = ws[t]
     THEN wstate' = At(ws[t].seq, "WLOCK") /\ Win(t, "writing")
     ELSE UNCHANGED wstate /\ Lose(t)
  /\ UNCHANGED <<ri, ws, k, handed>>

-----------------------------------------------------------------------------
(***************************************************************************)
(* exclusiveUnlock, downgrade and setReadUnlock.                           *)
(***************************************************************************)
LeaveExclusive(t, l) ==
  /\ pc[t] = "writing"
  /\ wstate' = At(wstate.seq, "RLOCK")
  /\ k' = [k EXCEPT ![t] = 0]
  /\ Step(t, l)
  /\ UNCHANGED <<ri, ws, handed>>

ExclusiveUnlock(t) == LeaveExclusive(t, "u_abort")
Downgrade(t)       == LeaveExclusive(t, "d_abort")

(* Mutant of AbortSlot: pending arrivals are left to roll back.            *)
AbortNothing(t) ==
  /\ pc[t] \in {"u_abort", "d_abort"}
  /\ k[t] < MaxThreads
  /\ k' = [k EXCEPT ![t] = @ + 1]
  /\ Step(t, pc[t])
  /\ UNCHANGED <<wstate, ri, ws, handed>>

(* Mutant of AbortSlot: the loop runs over the end of the slots.           *)
AbortSlotPast(t) ==
  /\ pc[t] \in {"u_abort", "d_abort"}
  /\ k[t] <= MaxThreads
  /\ ri' = [ri EXCEPT ![k[t]] = IF @ = READING THEN READING + 1 ELSE @]
  /\ k' = [k EXCEPT ![t] = @ + 1]
  /\ Step(t, pc[t])
  /\ UNCHANGED <<wstate, ws, handed>>

(* One iteration of abortRollback().  The load that precedes the CAS only  *)
(* skips a CAS that would fail.                                            *)
AbortSlot(t) ==
  /\ pc[t] \in {"u_abort", "d_abort"}
  /\ k[t] < MaxThreads
  /\ ri' = [ri EXCEPT ![k[t]] = IF @ = READING THEN READING + 1 ELSE @]
  /\ k' = [k EXCEPT ![t] = @ + 1]
  /\ Step(t, pc[t])
  /\ UNCHANGED <<wstate, ws, handed>>

UnlockDone(t) ==
  /\ pc[t] = "u_abort"
  /\ k[t] = MaxThreads
  /\ wstate' = At(wstate.seq, "NOLOCK")
  /\ Step(t, "idle")
  /\ UNCHANGED <<ri, ws, k, handed>>

DowngradeDone(t) ==
  /\ pc[t] = "d_abort"
  /\ k[t] = MaxThreads
  /\ handed' = TRUE
  /\ Step(t, "idle")
  /\ UNCHANGED <<wstate, ri, ws, k>>

(* The caller is whoever the users of the lock agreed on: one thread.      *)
SetReadUnlock(t) ==
  /\ pc[t] = "idle"
  /\ handed
  /\ handed' = FALSE
  /\ wstate' = At(wstate.seq, "NOLOCK")
  /\ Step(t, "idle")
  /\ UNCHANGED <<ri, ws, k>>

-----------------------------------------------------------------------------
Shared(t) ==
  \/ SharedCheck(t) \/ Arrive(t) \/ SharedLoad(t) \/ SharedCas(t)
  \/ SharedReload(t) \/ RollbackArrive(t) \/ SharedUnlock(t)

Exclusive(t) ==
  \/ ExclusiveLoad(t) \/ ScanSlot(t) \/ HopeCas(t) \/ Recheck(t) \/ TakeCas(t)

Release(t) ==
  \/ ExclusiveUnlock(t) \/ Downgrade(t) \/ AbortSlot(t)
  \/ UnlockDone(t) \/ DowngradeDone(t) \/ SetReadUnlock(t)

Next == \E t \in Threads : Shared(t) \/ Exclusive(t) \/ Release(t)

Spec == Init /\ [][Next]_vars

-----------------------------------------------------------------------------
(***************************************************************************)
(* Properties.                                                             *)
(***************************************************************************)

(* A thread whose exclusiveTryLock returned true is alone: no other writer *)
(* and no reader is inside until it unlocks or downgrades, although it     *)
(* looks at the slots of the read indicator one after the other.           *)
MutualExclusion ==
  \A t, u \in Threads :
    pc[t] = "writing" /\ t # u => pc[u] \notin {"reading", "writing"}

Aborting(t) == pc[t] \in {"u_abort", "d_abort"}

(* rollbackArrive gives a shared attempt up only while a writer holds the  *)
(* lock, or is about to mark this very slot before it lets go: a reader    *)
(* that raced with exclusiveUnlock or downgrade is always let in.          *)
ReaderYieldsOnlyToWriter ==
  \A r \in Threads :
    pc[r] = "s_rollback" /\ ri[r] = READING =>
      \/ wstate.state = "WLOCK"
      \/ \E t \in Threads : Aborting(t) /\ k[t] <= r

(* "specifically designed to not have spurious failures when doing         *)
(* trylock()": attempts that meet on an unused lock do not all fail, one   *)
(* of them gets in.  In particular an attempt without company succeeds.    *)
NoCollectiveFailure ==
  Unused /\ "lost" \in outcome => "won" \in outcome

(* StrongTryRWLock implements TryRWLock.  A reader that is rolling back    *)
(* holds the lock from the moment its slot is marked READING+1, and the    *)
(* lock is already read-only while a writer is unlocking it.               *)
Mode ==
  IF wstate.state = "WLOCK" THEN "write"
  ELSE IF wstate.state = "RLOCK" THEN "readonly"
  ELSE "free"

Readers ==
  {t \in Threads : \/ pc[t] = "reading"
                   \/ pc[t] = "s_rollback" /\ ri[t] = READING + 1}

Abstract == INSTANCE TryRWLock WITH mode <- Mode, readers <- Readers

AbstractSpec == Abstract!Spec
=============================================================================
