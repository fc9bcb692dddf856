--------------------------- MODULE WriterPrefLock ---------------------------
(***************************************************************************)
(* What the C-RW-WP locks promise: a reader-writer lock that a writer      *)
(* takes in two stages.  Taking it shuts new readers out; the writer is    *)
(* alone once it has waited for the readers that were inside.              *)
(***************************************************************************)
CONSTANTS
  Threads,                \* The threads that use the lock.
  NONE                    \* No thread.

VARIABLES
  mode,                   \* "free", "locked" or, once drained, "alone".
  owner,                  \* The writer that has the lock, or NONE.
  readers                 \* The threads that hold it in shared mode.

vars == <<mode, owner, readers>>

Init ==
  /\ mode = "free"
  /\ owner = NONE
  /\ readers = {}

Lock(t) ==
  /\ mode = "free"
  /\ mode' = "locked"
  /\ owner' = t
  /\ UNCHANGED readers

Drain(t) ==
  /\ mode = "locked"
  /\ owner = t
  /\ readers = {}
  /\ mode' = "alone"
  /\ UNCHANGED <<owner, readers>>

(* A writer that finds nothing to do need not wait for the readers.        *)
Unlock(t) ==
  /\ owner = t
  /\ mode' = "free"
  /\ owner' = NONE
  /\ UNCHANGED readers

SharedLock(t) ==
  /\ mode = "free"
  /\ t \notin readers
  /\ readers' = readers \union {t}
  /\ UNCHANGED <<mode, owner>>

SharedUnlock(t) ==
  /\ t \in readers
  /\ readers' = readers \ {t}
  /\ UNCHANGED <<mode, owner>>

Next ==
  \E t \in Threads :
    \/ Lock(t)
    \/ Drain(t)
    \/ Unlock(t)
    \/ SharedLock(t)
    \/ SharedUnlock(t)

Spec == Init /\ [][Next]_vars
=============================================================================
