----------------------------- MODULE DurableStore -----------------------------
(***************************************************************************)
(* What the PTMs promise: durable linearizable transactions.  Commits are  *)
(* ordered; a commit may carry the requests of several threads, one after  *)
(* the other; a write answers with what its own commit did; a read answers *)
(* with a store that was current during the call; and a crash keeps a      *)
(* prefix of the commits that has everything that was answered, or all of  *)
(* them and some of the requests that were still open.                     *)
(***************************************************************************)
EXTENDS Integers, Sequences, SequencesExt

CONSTANTS
  MaxThreads,             \* Threads are 0 .. MaxThreads - 1.
  Store0,                 \* The first store.
  Ops,                    \* The requests that write.
  READ,                   \* The request of a read-only transaction.
  NONE,                   \* No request, no result.
  Apply(_, _)             \* The store a request makes of another.

Threads == 0 .. MaxThreads - 1

VARIABLES
  log,                    \* The stores committed since the last restart.
  acked,                  \* Every commit up to log[acked] has been observed.
  req,                    \* The request each thread has open.
  start,                  \* Len(log) when it was opened.
  res,                    \* Its result, once committed: [at, val].
  ret                     \* The last answer given to each thread.

vars == <<log, acked, req, start, res, ret>>

Observe(i) == acked' = IF i > acked THEN i ELSE acked

Init ==
  /\ log = <<Store0>>
  /\ acked = 1
  /\ req = [t \in Threads |-> NONE]
  /\ start = [t \in Threads |-> 0]
  /\ res = [t \in Threads |-> NONE]
  /\ ret = [t \in Threads |-> NONE]

Invoke(t, op) ==
  /\ req[t] = NONE
  /\ req' = [req EXCEPT ![t] = op]
  /\ start' = [start EXCEPT ![t] = Len(log)]
  /\ UNCHANGED <<log, acked, res, ret>>

(* The orders in which requests that are open may take effect together.    *)
Orders ==
  LET open == {t \in Threads : req[t] # NONE /\ res[t] = NONE}
  IN {o \in UNION {[1 .. n -> open] : n \in 0 .. MaxThreads} :
        \A j, k \in DOMAIN o : o[j] = o[k] => j = k}

(* The store after the first n requests of order o.                        *)
After(o) ==
  LET after[n \in 0 .. Len(o)] ==
        IF n = 0 THEN Last(log) ELSE Apply(after[n - 1], req[o[n]])
  IN after

Commit(o) ==
  /\ log' = Append(log, After(o)[Len(o)])
  /\ res' = [t \in Threads |->
               IF t \notin ToSet(o) THEN res[t]
               ELSE [at |-> Len(log) + 1,
                     val |-> After(o)[CHOOSE n \in 1 .. Len(o) : o[n] = t]]]
  /\ UNCHANGED <<acked, req, start, ret>>

Close(t, val) ==
  /\ req' = [req EXCEPT ![t] = NONE]
  /\ start' = [start EXCEPT ![t] = 0]
  /\ res' = [res EXCEPT ![t] = NONE]
  /\ ret' = [ret EXCEPT ![t] = val]
  /\ UNCHANGED log

Answer(t) ==
  /\ res[t] # NONE
  /\ Observe(res[t].at)
  /\ Close(t, res[t].val)

AnswerRead(t) ==
  /\ req[t] = READ
  /\ \E i \in start[t] .. Len(log) : Observe(i) /\ Close(t, log[i])

Crash ==
  /\ \/ \E i \in acked .. Len(log) : log' = <<log[i]>>
     \/ \E o \in Orders : log' = <<After(o)[Len(o)]>>
  /\ acked' = 1
  /\ req' = [t \in Threads |-> NONE]
  /\ start' = [t \in Threads |-> 0]
  /\ res' = [t \in Threads |-> NONE]
  /\ UNCHANGED ret

Next ==
  \/ \E t \in Threads :
       \/ \E op \in Ops \union {READ} : Invoke(t, op)
       \/ Answer(t)
       \/ AnswerRead(t)
  \/ \E o \in Orders : Commit(o)
  \/ Crash

Spec == Init /\ [][Next]_vars
=============================================================================
