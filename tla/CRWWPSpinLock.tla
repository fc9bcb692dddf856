---------------------------- MODULE CRWWPSpinLock ----------------------------
(***************************************************************************)
(* ptmdb/ptms/rwlocks/CRWWPSpinLock.hpp, the lock of RomulusLog: C-RW-WP   *)
(* with a spin lock for the writers and one slot per reader.  A step is    *)
(* one atomic access.  Calls go on for ever; nothing is bounded.           *)
(***************************************************************************)
EXTENDS Integers

CONSTANTS
  MaxThreads,             \* ThreadRegistry::getMaxThreads().
  NONE                    \* No thread.

ASSUME SpinAssumption ==
  /\ MaxThreads \in Nat \ {0}
  /\ NONE \notin 0 .. MaxThreads - 1

Threads == 0 .. MaxThreads - 1

NOT_READING == 0
READING == 1

VARIABLES
  writers,                \* splock.writers
  states,                 \* ri.states
  pc, k,                  \* Per thread: location, index of its scan.
  owner                   \* Who set writers to 1.

vars == <<writers, states, pc, k, owner>>

Init ==
  /\ writers = 0
  /\ states = [t \in Threads |-> NOT_READING]
  /\ pc = [t \in Threads |-> "idle"]
  /\ k = [t \in Threads |-> 0]
  /\ owner = NONE

isLocked == writers = 1

Goto(t, from, to) ==
  /\ pc[t] = from
  /\ pc' = [pc EXCEPT ![t] = to]

Call(t, op) == Goto(t, "idle", op) /\ UNCHANGED <<writers, states, k, owner>>

-----------------------------------------------------------------------------
(* splock.tryLock(): a load, then a CAS.                                   *)
TryLockLoad(t, load, cas, failed) ==
  /\ Goto(t, load, IF isLocked THEN failed ELSE cas)
  /\ UNCHANGED <<writers, states, k, owner>>

TryLockCas(t, cas, failed) ==
  /\ Goto(t, cas, IF isLocked THEN failed ELSE "x_locked")
  /\ IF isLocked THEN UNCHANGED <<writers, owner>>
                 ELSE writers' = 1 /\ owner' = t
  /\ UNCHANGED <<states, k>>

(* exclusiveLock() tries until it has the spin lock.                       *)
Lock(t) ==
  \/ TryLockLoad(t, "x_load", "x_cas", "x_load")
  \/ TryLockCas(t, "x_cas", "x_load")

(* tryExclusiveLock() gives up.                                            *)
TryExclusiveLock(t) ==
  \/ TryLockLoad(t, "t_load", "t_cas", "idle")
  \/ TryLockCas(t, "t_cas", "idle")

(* while (!ri.isEmpty()): a scan that starts again at the first reader it  *)
(* meets.                                                                  *)
WaitForReaders(t) ==
  /\ \/ Goto(t, "x_locked", "x_scan") /\ k' = [k EXCEPT ![t] = 0]
     \/ /\ Goto(t, "x_scan", "x_scan")
        /\ \/ states[k[t]] # NOT_READING /\ k' = [k EXCEPT ![t] = 0]
           \/ /\ states[k[t]] = NOT_READING /\ k[t] < MaxThreads - 1
              /\ k' = [k EXCEPT ![t] = @ + 1]
     \/ /\ Goto(t, "x_scan", "x_in")
        /\ states[k[t]] = NOT_READING /\ k[t] = MaxThreads - 1
        /\ k' = [k EXCEPT ![t] = 0]
  /\ UNCHANGED <<writers, states, owner>>

(* exclusiveUnlock(), also without a wait for the readers.                 *)
ExclusiveUnlock(t) ==
  /\ Goto(t, "x_locked", "idle") \/ Goto(t, "x_in", "idle")
  /\ writers' = 0
  /\ owner' = NONE
  /\ UNCHANGED <<states, k>>

-----------------------------------------------------------------------------
Arrive(t) ==
  /\ Goto(t, "s_arrive", "s_check")
  /\ states' = [states EXCEPT ![t] = READING]
  /\ UNCHANGED <<writers, k, owner>>

(* A reader that does not look at the writer once it has arrived.          *)
SharedCheckNothing(t) ==
  /\ Goto(t, "s_check", "reading")
  /\ UNCHANGED <<writers, states, k, owner>>

SharedCheck(t) ==
  /\ \/ ~isLocked /\ Goto(t, "s_check", "reading")
     \/ isLocked /\ Goto(t, "s_check", "s_depart")
  /\ UNCHANGED <<writers, states, k, owner>>

Depart(t) ==
  /\ Goto(t, "s_depart", "s_spin") \/ Goto(t, "reading", "idle")
  /\ states' = [states EXCEPT ![t] = NOT_READING]
  /\ UNCHANGED <<writers, k, owner>>

(* while (splock.isLocked()).                                              *)
Spin(t) ==
  /\ ~isLocked
  /\ Goto(t, "s_spin", "s_arrive")
  /\ UNCHANGED <<writers, states, k, owner>>

-----------------------------------------------------------------------------
Step(t) ==
  \/ Lock(t)
  \/ TryExclusiveLock(t)
  \/ WaitForReaders(t)
  \/ ExclusiveUnlock(t)
  \/ Arrive(t)
  \/ SharedCheck(t)
  \/ Depart(t)
  \/ Spin(t)

Begin(t) == Call(t, "x_load") \/ Call(t, "t_load") \/ Call(t, "s_arrive")

Next == \E t \in Threads : Step(t) \/ Begin(t)

Spec == Init /\ [][Next]_vars

(* A thread that has begun a call keeps running; none has to begin one.    *)
Fairness == \A t \in Threads : WF_vars(Step(t))

FairSpec == Spec /\ Fairness

-----------------------------------------------------------------------------
(* The values of the variables.                                            *)
TypeOK ==
  /\ writers \in {0, 1}
  /\ states \in [Threads -> {NOT_READING, READING}]
  /\ pc \in [Threads -> {"idle", "x_load", "x_cas", "t_load", "t_cas",
                         "x_locked", "x_scan", "x_in", "s_arrive", "s_check",
                         "s_depart", "s_spin", "reading"}]
  /\ k \in [Threads -> Threads]
  /\ owner \in Threads \union {NONE}

(* A writer past waitForReaders() shares the lock with nobody, and during  *)
(* isEmpty() no reader is left, or gets in again, below the scan.          *)
Exclusion ==
  \A t \in Threads :
    /\ pc[t] = "x_in" => \A u \in Threads \ {t} :
                           pc[u] \notin {"x_locked", "x_scan", "x_in", "reading"}
    /\ pc[t] = "x_scan" => \A u \in 0 .. k[t] - 1 : pc[u] # "reading"

(* The lock is the WriterPrefLock RomulusLog is modelled with.             *)
Abstract == INSTANCE WriterPrefLock WITH
  mode <- IF owner = NONE THEN "free"
          ELSE IF pc[owner] = "x_in" THEN "alone" ELSE "locked",
  readers <- {t \in Threads : pc[t] = "reading"}

AbstractLock == Abstract!Spec

(* What RomulusLog relies on: readers and writers of exclusiveLock and     *)
(* sharedLock keep out of each other's way, although the writer visits the *)
(* slots of the readers one by one, and the lock is a WriterPrefLock.      *)
LockSound == [](TypeOK /\ Exclusion) /\ AbstractLock

(* Writer preference: a writer that has the spin lock becomes alone,       *)
(* however often readers come back.                                        *)
WriterPreference ==
  \A t \in Threads : pc[t] = "x_scan" ~> pc[t] = "x_in"
=============================================================================
