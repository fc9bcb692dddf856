-------------------------------- MODULE CRWWP --------------------------------
(***************************************************************************)
(* ptms/rwlocks/CRWWP.hpp: C-RW-WP with a ticket lock for the writers and  *)
(* an array of counters, shared by threads whose ids hash to the same one, *)
(* for the readers.  A step is one atomic access.  MaxTicket bounds the    *)
(* calls of exclusiveLock(); readers come and go for ever.                 *)
(***************************************************************************)
EXTENDS Integers

CONSTANTS
  Threads,
  Slots,                  \* COUNTER_SIZE; counters are 0 .. Slots - 1.
  Hash,                   \* hashFunc(this_thread::get_id()) % COUNTER_SIZE.
  MaxTicket,              \* Bound on ticket; the code has 2^64.
  NONE                    \* No thread.

VARIABLES
  ticket, grant,          \* cohort
  counters,               \* ri.counters
  pc,
  tk,                     \* Per thread: tkt, or the grant isLocked() loaded.
  k,                      \* Per thread: the counter isEmpty() looks at.
  owner                   \* The writer whose ticket was granted.

vars == <<ticket, grant, counters, pc, tk, k, owner>>

Init ==
  /\ ticket = 0
  /\ grant = 0
  /\ counters = [s \in 0 .. Slots - 1 |-> 0]
  /\ pc = [t \in Threads |-> "idle"]
  /\ tk = [t \in Threads |-> 0]
  /\ k = [t \in Threads |-> 0]
  /\ owner = NONE

Goto(t, from, to) ==
  /\ pc[t] = from
  /\ pc' = [pc EXCEPT ![t] = to]

SharedLock(t) ==
  /\ Goto(t, "idle", "s_arrive")
  /\ UNCHANGED <<ticket, grant, counters, tk, k, owner>>

-----------------------------------------------------------------------------
(* exclusiveLock(): fetch_add in cohort.lock(), then wait for the grant.   *)
LockTicket(t) ==
  /\ ticket < MaxTicket
  /\ Goto(t, "idle", "x_wait")
  /\ tk' = [tk EXCEPT ![t] = ticket]
  /\ ticket' = ticket + 1
  /\ UNCHANGED <<grant, counters, k, owner>>

LockGrant(t) ==
  /\ tk[t] = grant
  /\ Goto(t, "x_wait", "x_scan")
  /\ owner' = t
  /\ UNCHANGED <<ticket, grant, counters, tk, k>>

(* A scan that only notices a counter of exactly one reader.               *)
ScanOne(t) ==
  /\ \/ Goto(t, "x_scan", "x_scan") /\ counters[k[t]] = 1
        /\ k' = [k EXCEPT ![t] = 0]
     \/ /\ counters[k[t]] # 1
        /\ Goto(t, "x_scan", IF k[t] = Slots - 1 THEN "x_in" ELSE "x_scan")
        /\ k' = [k EXCEPT ![t] = (@ + 1) % Slots]
  /\ UNCHANGED <<ticket, grant, counters, tk, owner>>

(* while (!ri.isEmpty()).                                                  *)
Scan(t) ==
  /\ \/ Goto(t, "x_scan", "x_scan") /\ counters[k[t]] > 0
        /\ k' = [k EXCEPT ![t] = 0]
     \/ /\ counters[k[t]] = 0
        /\ Goto(t, "x_scan", IF k[t] = Slots - 1 THEN "x_in" ELSE "x_scan")
        /\ k' = [k EXCEPT ![t] = (@ + 1) % Slots]
  /\ UNCHANGED <<ticket, grant, counters, tk, owner>>

ExclusiveUnlock(t) ==
  /\ Goto(t, "x_in", "idle")
  /\ grant' = grant + 1
  /\ owner' = NONE
  /\ UNCHANGED <<ticket, counters, tk, k>>

-----------------------------------------------------------------------------
Arrive(t) ==
  /\ Goto(t, "s_arrive", "s_grant")
  /\ counters' = [counters EXCEPT ![Hash[t]] = @ + 1]
  /\ UNCHANGED <<ticket, grant, tk, k, owner>>

(* isLocked() loads grant and then ticket: after arrive(), and in the wait *)
(* of a reader that was turned away.                                       *)
LoadGrant(t) ==
  /\ Goto(t, "s_grant", "s_check") \/ Goto(t, "s_spin", "s_spin2")
  /\ tk' = [tk EXCEPT ![t] = grant]
  /\ UNCHANGED <<ticket, grant, counters, k, owner>>

SharedCheck(t) ==
  /\ Goto(t, "s_check", IF tk[t] = ticket THEN "reading" ELSE "s_depart")
  /\ UNCHANGED <<ticket, grant, counters, tk, k, owner>>

Depart(t) ==
  /\ Goto(t, "s_depart", "s_spin") \/ Goto(t, "reading", "idle")
  /\ counters' = [counters EXCEPT ![Hash[t]] = @ - 1]
  /\ UNCHANGED <<ticket, grant, tk, k, owner>>

(* while (cohort.isLocked()).                                              *)
Spin(t) ==
  /\ Goto(t, "s_spin2", IF tk[t] = ticket THEN "s_arrive" ELSE "s_spin")
  /\ UNCHANGED <<ticket, grant, counters, tk, k, owner>>

-----------------------------------------------------------------------------
Step(t) ==
  \/ LockGrant(t)
  \/ Scan(t)
  \/ ExclusiveUnlock(t)
  \/ Arrive(t)
  \/ LoadGrant(t)
  \/ SharedCheck(t)
  \/ Depart(t)
  \/ Spin(t)

Next ==
  \E t \in Threads : Step(t) \/ LockTicket(t) \/ SharedLock(t)

Spec == Init /\ [][Next]_vars

Fairness == \A t \in Threads : WF_vars(Step(t))

-----------------------------------------------------------------------------
(* The two loads of isLocked() are not atomic and counters are shared, and *)
(* still the lock is a WriterPrefLock.                                     *)
Abstract == INSTANCE WriterPrefLock WITH
  mode <- IF owner = NONE THEN "free"
          ELSE IF pc[owner] = "x_in" THEN "alone" ELSE "locked",
  readers <- {t \in Threads : pc[t] = "reading"}

AbstractLock == Abstract!Spec

(* The comment of the class: starvation-free for writers.  Every call of   *)
(* exclusiveLock() gets the lock, whatever readers and other writers do.   *)
WriterStarvationFree ==
  \A t \in Threads : pc[t] = "x_wait" ~> pc[t] = "x_in"
=============================================================================
