------------------------------ MODULE TryRWLock ------------------------------
(***************************************************************************)
(* What StrongTryRIRWLock promises to its users (CX and the Redo family):  *)
(* a reader-writer lock whose operations never wait.  The lock is free,    *)
(* held by one writer, or in read-only mode: the mode a writer leaves      *)
(* behind with downgrade(), in which readers come and go and no writer     *)
(* enters until somebody calls setReadUnlock().                            *)
(***************************************************************************)
CONSTANT Threads          \* The threads that use the lock.

VARIABLES
  mode,                   \* "free", "write" or "readonly".
  readers                 \* The threads that hold the lock in shared mode.

vars == <<mode, readers>>

Init ==
  /\ mode = "free"
  /\ readers = {}

(* A successful sharedTryLock(). *)
AcquireShared(t) ==
  /\ mode # "write"
  /\ t \notin readers
  /\ readers' = readers \union {t}
  /\ UNCHANGED mode

(* sharedUnlock(). *)
ReleaseShared(t) ==
  /\ t \in readers
  /\ readers' = readers \ {t}
  /\ UNCHANGED mode

(* A successful exclusiveTryLock(). *)
AcquireExclusive ==
  /\ mode = "free"
  /\ readers = {}
  /\ mode' = "write"
  /\ UNCHANGED readers

(* downgrade(), and the first half of exclusiveUnlock(). *)
Downgrade ==
  /\ mode = "write"
  /\ mode' = "readonly"
  /\ UNCHANGED readers

(* setReadUnlock(), and the second half of exclusiveUnlock(). *)
ReleaseReadOnly ==
  /\ mode = "readonly"
  /\ mode' = "free"
  /\ UNCHANGED readers

Next ==
  \/ \E t \in Threads : AcquireShared(t) \/ ReleaseShared(t)
  \/ AcquireExclusive
  \/ Downgrade
  \/ ReleaseReadOnly

Spec == Init /\ [][Next]_vars
=============================================================================
