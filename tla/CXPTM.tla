-------------------------------- MODULE CXPTM --------------------------------
(***************************************************************************)
(* ptms/cxptm/CXPTM.hpp (cxpuc/CXPUC.hpp has the same control).  Every     *)
(* update transaction is a node of one list; its thread brings a replica   *)
(* (a Combined) up to that node by running all the transactions before it, *)
(* and makes the replica current with a CAS of curComb.  Nodes long gone   *)
(* are linked to themselves, and a replica whose head is one of them is    *)
(* copied from the current one.                                            *)
(*                                                                         *)
(* enqueue is one step here: CXQueue shows that the node is in the list,   *)
(* with its ticket, when it returns.  A node is its ticket; the sentinel   *)
(* is 0.  The locks are the TryRWLock that StrongTryRWLock implements, and *)
(* persistent words are as in RedoOpt: of each, the values a crash may     *)
(* leave.  Hazard pointers and reference counts are left out.              *)
(***************************************************************************)
EXTENDS Integers, Sequences, FiniteSets, SequencesExt, TLC

CONSTANTS
  MaxThreads,             \* The threads there are.
  MAX_THREADS,            \* maxThreads: the slots for threads.
  MAX_COMBINEDS,
  MAX_READ_TRIES,
  MIN_SIZE, MAX_SIZE,     \* min_size and max_size of CircularArray.
  Addrs,                  \* The persistent words.
  READ, NONE,
  Workloads               \* What the runs bound: words, writers, readers,
                          \* transactions of each thread, crashes.

(* The nodes kept outnumber the threads (1000 and 65 in the code).         *)
ASSUME SizesAssumption ==
  /\ MaxThreads \in Nat \ {0}
  /\ MAX_THREADS \in Nat /\ MAX_THREADS >= MaxThreads
  /\ MIN_SIZE \in Nat /\ MIN_SIZE >= MaxThreads
  /\ MAX_SIZE \in Nat /\ MAX_SIZE > MIN_SIZE

Threads == 0 .. MaxThreads - 1
Combs == 0 .. MAX_COMBINEDS - 1

Store0 == [a \in Addrs |-> 0]

(* The transaction of a request: one word counts.                          *)
Run(store, op) == IF op = READ THEN store ELSE [store EXCEPT ![op] = @ + 1]

VARIABLES
  queue,                  \* The nodes of the list: [tid, op].
  result,                 \* Node::result.
  cut,                    \* The nodes that are linked to themselves.
  curComb,                \* per->curComb as [idx, seq]; seq is history.
  pcur,                   \* The curComb a crash may leave.
  mem, pm,                \* Replicas: in the caches; what a crash may leave.
  head, lock, readers,    \* combs[]: head, rwLock (mode and holders).
  preRetired,
  pc, loc,                \* Per thread: location and locals.
  hist,                   \* History: hist[s + 1] is what commit s published.
  call,                   \* History: [op, from, took] of an open call.
  ret, acked,
  work                    \* What is left of one of the Workloads.

listVars == <<queue, result, cut, preRetired>>
nvmVars == <<curComb, pcur, mem, pm>>
combVars == <<head, lock, readers>>
ghostVars == <<hist, call, ret, acked, work>>
vars == <<listVars, nvmVars, combVars, pc, loc, ghostVars>>

Loc0 ==
  [tk |-> 0,              \* myTicket
   c |-> 0,               \* newCombIndex
   i |-> 0,               \* the loop the thread is in
   mn |-> NONE,
   lc |-> [idx |-> 0, seq |-> 0],  \* lcombIndex
   copied |-> FALSE,      \* lcomb # nullptr
   dirty |-> {},          \* tl_pwb_log
   val |-> [a \in {} |-> 0]]

Call0 == [op |-> NONE, from |-> 0, took |-> NONE]

(* The constructor maps an existing file.                                  *)
Init ==
  /\ queue = <<>> /\ result = <<>> /\ cut = {}
  /\ preRetired = [t \in Threads |-> <<>>]
  /\ curComb = [idx |-> 0, seq |-> 0]
  /\ pcur = {curComb}
  /\ mem = [c \in Combs |-> Store0]
  /\ pm = [c \in Combs |-> [a \in Addrs |-> {0}]]
  /\ head = [c \in Combs |-> IF c = 0 THEN 0 ELSE NONE]
  /\ lock = [c \in Combs |-> IF c = 0 THEN "readonly" ELSE "free"]
  /\ readers = [c \in Combs |-> {}]
  /\ pc = [t \in Threads |-> "idle"]
  /\ loc = [t \in Threads |-> Loc0]
  /\ hist = <<Store0>>
  /\ call = [t \in Threads |-> Call0]
  /\ ret = [t \in Threads |-> NONE]
  /\ acked = 1 /\ work \in Workloads

-----------------------------------------------------------------------------
Goto(t, l) == pc' = [pc EXCEPT ![t] = l]
Set(t, l) == loc' = [loc EXCEPT ![t] = l]
At(t, l) == pc[t] = l

(* Mutant of Round: the first failure ends the loop.                       *)
RoundOnce(t, n, again, over) == Goto(t, over) /\ UNCHANGED loc

(* The loop goes round again, from `again`, or ends after n rounds.        *)
Round(t, n, again, over) ==
  /\ Goto(t, IF loc[t].i + 1 < n THEN again ELSE over)
  /\ Set(t, [loc[t] EXCEPT !.i = @ + 1])

Open(t, op) ==
  /\ At(t, "idle")
  /\ work.budget[t] > 0
  /\ work' = [work EXCEPT !.budget[t] = @ - 1]
  /\ call' = [call EXCEPT ![t] = [op |-> op, from |-> Len(hist), took |-> NONE]]
  /\ UNCHANGED <<hist, ret, acked>>

(* The call answers val, the result of commit at - 1.                      *)
Return(t, val, at) ==
  /\ Goto(t, "idle")
  /\ Set(t, Loc0)
  /\ ret' = [ret EXCEPT ![t] = val]
  /\ call' = [call EXCEPT ![t] = Call0]
  /\ acked' = IF at > acked THEN at ELSE acked
  /\ UNCHANGED <<hist, work>>

Answer(t) ==
  Return(t, result[loc[t].tk],
         IF call[t].took = NONE THEN 0 ELSE call[t].took.at)

Enqueue(t, op) ==
  /\ queue' = Append(queue, [tid |-> t, op |-> op])
  /\ result' = Append(result, NONE)
  /\ UNCHANGED <<cut, preRetired>>

(* The fence after a PWB of curComb issued when commit s was current.      *)
FencedCurComb(s) ==
  /\ pcur' = {v \in pcur : v.seq >= s}
  /\ UNCHANGED <<curComb, mem, pm>>

(* The PWBs of some words of replica c.                                    *)
Flush(c, words) ==
  /\ pm' = [pm EXCEPT ![c] =
       [a \in Addrs |-> IF a \in words THEN {mem[c][a]} ELSE @[a]]]
  /\ UNCHANGED <<curComb, pcur, mem>>

SharedUnlock(t, c) == readers' = [readers EXCEPT ![c] = @ \ {t}]

(* sharedTryLock of the replica the thread has loaded.                     *)
SharedTryLock(t) ==
  /\ lock[loc[t].lc.idx] # "write"
  /\ readers' = [readers EXCEPT ![loc[t].lc.idx] = @ \union {t}]
  /\ UNCHANGED <<head, lock>>

-----------------------------------------------------------------------------
(***************************************************************************)
(* ns_write_transaction: take a replica.                                   *)
(***************************************************************************)
BeginWrite(t) ==
  /\ t \in work.writers
  /\ \E op \in work.words : Open(t, op) /\ Enqueue(t, op)
  /\ Goto(t, "w_scan")
  /\ Set(t, [Loc0 EXCEPT !.tk = Len(queue')])
  /\ UNCHANGED <<nvmVars, combVars>>

CanLock(c) == lock[c] = "free" /\ readers[c] = {}

(* Mutant of TryExclusive: wait for the replica.                           *)
WaitExclusive(t) ==
  /\ At(t, "w_scan")
  /\ loc[t].i \in Combs
  /\ \/ /\ CanLock(loc[t].i)
        /\ lock' = [lock EXCEPT ![loc[t].i] = "write"]
        /\ Set(t, [loc[t] EXCEPT !.c = loc[t].i])
        /\ Goto(t, "w_head")
     \/ ~CanLock(loc[t].i) /\ UNCHANGED <<lock, pc, loc>>
  /\ UNCHANGED <<listVars, nvmVars, head, readers, ghostVars>>

(* exclusiveTryLock of the i-th replica.                                   *)
TryExclusive(t) ==
  /\ At(t, "w_scan")
  /\ loc[t].i \in Combs
  /\ \/ /\ CanLock(loc[t].i)
        /\ lock' = [lock EXCEPT ![loc[t].i] = "write"]
        /\ Set(t, [loc[t] EXCEPT !.c = loc[t].i])
        /\ Goto(t, "w_head")
     \/ /\ ~CanLock(loc[t].i)
        /\ Set(t, [loc[t] EXCEPT !.i = @ + 1])
        /\ UNCHANGED <<lock, pc>>
  /\ UNCHANGED <<listVars, nvmVars, head, readers, ghostVars>>

Past(lhead, tk) == lhead # NONE /\ lhead >= tk

(* A replica that is past my node has been current: the answer is there.   *)
CheckHead(t) ==
  /\ At(t, "w_head")
  /\ LET mn == head[loc[t].c] IN
     \/ /\ Past(mn, loc[t].tk)
        /\ lock' = [lock EXCEPT ![loc[t].c] = "free"]
        /\ Goto(t, "w_return") /\ UNCHANGED loc
     \/ /\ ~Past(mn, loc[t].tk)
        /\ Goto(t, "w_apply") /\ Set(t, [loc[t] EXCEPT !.mn = mn])
        /\ UNCHANGED lock
  /\ UNCHANGED <<listVars, nvmVars, head, readers, ghostVars>>

-----------------------------------------------------------------------------
(***************************************************************************)
(* The loop over the nodes, up to my own.                                  *)
(***************************************************************************)
CutOff(n) == n \in cut \union {NONE}

(* Run the next node's mutation on the replica and save its result.        *)
Mutate(t) ==
  LET l == loc[t]
      n == l.mn + 1
      op == queue[n].op
      new == Run(mem[l.c], op)
  IN
  /\ At(t, "w_apply") /\ ~CutOff(l.mn) /\ l.mn # l.tk
  /\ mem' = [mem EXCEPT ![l.c] = new]
  /\ pm' = [pm EXCEPT ![l.c] = [a \in Addrs |-> @[a] \union {new[a]}]]
  /\ result' = [result EXCEPT ![n] = new]
  /\ Set(t, [l EXCEPT !.mn = n,
                      !.dirty = IF op = READ THEN @ ELSE @ \union {op}])
  /\ UNCHANGED <<queue, cut, preRetired, curComb, pcur, combVars, pc, ghostVars>>

(* The list is cut before my node: copy the current replica, once.         *)
Lost(t) ==
  /\ At(t, "w_apply") /\ CutOff(loc[t].mn) /\ loc[t].mn # loc[t].tk
  /\ Goto(t, IF loc[t].copied THEN "w_giveup" ELSE "g_load")
  /\ Set(t, [loc[t] EXCEPT !.i = 0])
  /\ UNCHANGED <<listVars, nvmVars, combVars, ghostVars>>

(* getCombined; the loads of curComb of all loops.                         *)
LoadCurComb(t) ==
  /\ \E step \in {<<"g_load", "g_lock">>, <<"p_load", "p_lock">>} :
       At(t, step[1]) /\ Goto(t, step[2])
  /\ Set(t, [loc[t] EXCEPT !.lc = curComb])
  /\ UNCHANGED <<listVars, nvmVars, combVars, ghostVars>>

GetLock(t) ==
  /\ At(t, "g_lock")
  /\ FencedCurComb(loc[t].lc.seq)
  /\ \/ SharedTryLock(t) /\ Goto(t, "g_check") /\ UNCHANGED loc
     \/ /\ lock[loc[t].lc.idx] = "write"
        /\ Round(t, MAX_THREADS, "g_load", "w_giveup")
        /\ UNCHANGED combVars
  /\ UNCHANGED <<listVars, ghostVars>>

GetCheck(t) ==
  LET l == loc[t]
      lhead == head[l.lc.idx]
  IN
  /\ At(t, "g_check")
  /\ \/ /\ lhead < l.tk /\ lhead \notin cut
        /\ Goto(t, "copy") /\ UNCHANGED <<loc, readers>>
     \/ /\ lhead < l.tk /\ lhead \in cut
        /\ SharedUnlock(t, l.lc.idx)
        /\ Round(t, MAX_THREADS, "g_load", "w_giveup")
     \/ /\ lhead >= l.tk
        /\ SharedUnlock(t, l.lc.idx)
        /\ Goto(t, "g_recheck") /\ UNCHANGED loc
  /\ UNCHANGED <<listVars, nvmVars, head, lock, ghostVars>>

GetRecheck(t) ==
  /\ At(t, "g_recheck")
  /\ \/ loc[t].lc.idx = curComb.idx /\ Goto(t, "w_giveup") /\ UNCHANGED loc
     \/ loc[t].lc.idx # curComb.idx /\ Round(t, MAX_THREADS, "g_load", "w_giveup")
  /\ UNCHANGED <<listVars, nvmVars, combVars, ghostVars>>

(* copyFromTo, under both locks.                                           *)
Copy(t) ==
  LET l == loc[t] IN
  /\ At(t, "copy")
  /\ mem' = [mem EXCEPT ![l.c] = mem[l.lc.idx]]
  /\ pm' = [pm EXCEPT ![l.c] = [a \in Addrs |-> {mem[l.lc.idx][a]}]]
  /\ head' = [head EXCEPT ![l.c] = head[l.lc.idx]]
  /\ SharedUnlock(t, l.lc.idx)
  /\ Set(t, [l EXCEPT !.mn = head[l.lc.idx], !.copied = TRUE])
  /\ Goto(t, "w_apply")
  /\ UNCHANGED <<listVars, curComb, pcur, lock, ghostVars>>

(* My node is in the current replica already.                              *)
GiveUp(t) ==
  LET l == loc[t] IN
  /\ At(t, "w_giveup")
  /\ head' = [head EXCEPT ![l.c] = IF l.mn = NONE THEN @ ELSE l.mn]
  /\ Flush(l.c, l.dirty)
  /\ lock' = [lock EXCEPT ![l.c] = "free"]
  /\ Goto(t, "w_return")
  /\ UNCHANGED <<listVars, readers, loc, ghostVars>>

(* Mutant of Applied: the deferred PWBs are forgotten.                     *)
AppliedUnflushed(t) ==
  LET l == loc[t] IN
  /\ At(t, "w_apply") /\ l.mn = l.tk
  /\ head' = [head EXCEPT ![l.c] = l.mn]
  /\ lock' = [lock EXCEPT ![l.c] = "readonly"]
  /\ Goto(t, "p_load") /\ Set(t, [l EXCEPT !.i = 0])
  /\ UNCHANGED <<listVars, nvmVars, readers, ghostVars>>

(* updateHead, downgrade and flushDeferredPWBs.                            *)
Applied(t) ==
  LET l == loc[t] IN
  /\ At(t, "w_apply") /\ l.mn = l.tk
  /\ head' = [head EXCEPT ![l.c] = l.mn]
  /\ lock' = [lock EXCEPT ![l.c] = "readonly"]
  /\ Flush(l.c, l.dirty)
  /\ Goto(t, "p_load") /\ Set(t, [l EXCEPT !.i = 0])
  /\ UNCHANGED <<listVars, readers, ghostVars>>

-----------------------------------------------------------------------------
(***************************************************************************)
(* Make the replica current.                                               *)
(***************************************************************************)
PublishLock(t) ==
  /\ At(t, "p_lock")
  /\ \/ SharedTryLock(t) /\ Goto(t, "p_check") /\ UNCHANGED loc
     \/ /\ lock[loc[t].lc.idx] = "write"
        /\ Round(t, MAX_THREADS, "p_load", "w_release")
        /\ UNCHANGED combVars
  /\ UNCHANGED <<listVars, nvmVars, ghostVars>>

(* Not for me to make current: no head, or my node is current already, or  *)
(* the CAS failed.                                                         *)
PublishNot(t) ==
  LET l == loc[t]
      lhead == head[l.lc.idx]
  IN
  /\ At(t, "p_check")
  /\ SharedUnlock(t, l.lc.idx)
  /\ \/ /\ lhead # NONE /\ lhead >= l.tk
        /\ Goto(t, "p_recheck") /\ UNCHANGED loc
     \/ /\ ~Past(lhead, l.tk)
        /\ ~(lhead # NONE /\ curComb.idx = l.lc.idx)
        /\ Round(t, MAX_THREADS, "p_load", "w_release")
  /\ UNCHANGED <<listVars, nvmVars, head, lock, ghostVars>>

PublishRecheck(t) ==
  /\ At(t, "p_recheck")
  /\ \/ loc[t].lc.idx = curComb.idx /\ Goto(t, "w_release") /\ UNCHANGED loc
     \/ loc[t].lc.idx # curComb.idx /\ Round(t, MAX_THREADS, "p_load", "w_release")
  /\ UNCHANGED <<listVars, nvmVars, combVars, ghostVars>>

(* Does commit of the nodes up to n answer the call u has open?            *)
Carries(n, u) ==
  /\ call[u].op # NONE /\ call[u].took = NONE
  /\ loc[u].tk \in 1 .. n

(* The CAS of curComb succeeds.                                            *)
Publish(t) ==
  LET l == loc[t]
      new == [idx |-> l.c, seq |-> curComb.seq + 1]
  IN
  /\ At(t, "p_check")
  /\ head[l.lc.idx] # NONE /\ head[l.lc.idx] < l.tk
  /\ curComb.idx = l.lc.idx
  /\ curComb' = new
  /\ pcur' = pcur \union {new}
  /\ hist' = Append(hist, mem[l.c])
  /\ call' = [u \in Threads |->
       IF ~Carries(l.tk, u) THEN call[u]
       ELSE [call[u] EXCEPT !.took =
               [at |-> Len(hist'), val |-> result[loc[u].tk]]]]
  /\ Goto(t, "p_fence")
  /\ UNCHANGED <<listVars, mem, pm, combVars, loc, ret, acked, work>>

(* PWB of curComb and PSYNC, then setReadUnlock of the old replica; its    *)
(* head is where the nodes to retire begin.                                *)
Fence(t) ==
  /\ At(t, "p_fence")
  /\ FencedCurComb(curComb.seq)
  /\ Goto(t, "p_unlock")
  /\ UNCHANGED <<listVars, combVars, loc, ghostVars>>

(* Mutant of UnlockOld: the old replica stays read-only.                   *)
UnlockOldNot(t) ==
  LET old == loc[t].lc.idx IN
  /\ At(t, "p_unlock")
  /\ SharedUnlock(t, old)
  /\ Goto(t, "p_retire") /\ Set(t, [loc[t] EXCEPT !.mn = head[old]])
  /\ UNCHANGED <<listVars, nvmVars, head, lock, ghostVars>>

UnlockOld(t) ==
  LET old == loc[t].lc.idx IN
  /\ At(t, "p_unlock")
  /\ lock' = [lock EXCEPT ![old] = "free"]
  /\ SharedUnlock(t, old)
  /\ Goto(t, "p_retire") /\ Set(t, [loc[t] EXCEPT !.mn = head[old]])
  /\ UNCHANGED <<listVars, nvmVars, head, ghostVars>>

(* CircularArray::clean: the nodes MIN_SIZE before n are cut off.          *)
Clean(pre, n) == {k \in ToSet(pre) : k <= n - MIN_SIZE}

(* CircularArray::add.                                                     *)
Retire(t) ==
  LET n == loc[t].mn
      pre == preRetired[t]
      gone == IF Len(pre) = MAX_SIZE THEN Clean(pre, n) ELSE {}
  IN
  /\ At(t, "p_retire") /\ n # loc[t].tk
  /\ cut' = cut \union gone
  /\ preRetired' = [preRetired EXCEPT ![t] =
       Append(SelectSeq(pre, LAMBDA k : k \notin gone), n)]
  /\ Set(t, [loc[t] EXCEPT !.mn = @ + 1])
  /\ UNCHANGED <<queue, result, nvmVars, combVars, pc, ghostVars>>

Retired(t) ==
  /\ At(t, "p_retire") /\ loc[t].mn = loc[t].tk
  /\ Answer(t)
  /\ UNCHANGED <<listVars, nvmVars, combVars>>

(* Others made my node current.                                            *)
Release(t) ==
  /\ At(t, "w_release")
  /\ lock' = [lock EXCEPT ![loc[t].c] = "free"]
  /\ Goto(t, "w_return")
  /\ UNCHANGED <<listVars, nvmVars, head, readers, loc, ghostVars>>

(* PWB of curComb, PSYNC and the result.                                   *)
WriteReturn(t) ==
  /\ At(t, "w_return")
  /\ FencedCurComb(curComb.seq)
  /\ Answer(t)
  /\ UNCHANGED <<listVars, combVars>>

-----------------------------------------------------------------------------
(***************************************************************************)
(* ns_read_transaction.                                                    *)
(***************************************************************************)
BeginRead(t) ==
  /\ t \in work.readers
  /\ Open(t, READ)
  /\ Goto(t, "r_load")
  /\ UNCHANGED <<listVars, nvmVars, combVars, loc>>

(* After MAX_READ_TRIES the read is also put in the list.                  *)
ReadLoad(t) ==
  /\ At(t, "r_load")
  /\ Set(t, [loc[t] EXCEPT !.lc = curComb])
  /\ Goto(t, IF loc[t].i = MAX_READ_TRIES THEN "r_enqueue" ELSE "r_lock")
  /\ UNCHANGED <<listVars, nvmVars, combVars, ghostVars>>

ReadEnqueue(t) ==
  /\ At(t, "r_enqueue")
  /\ Enqueue(t, READ)
  /\ Set(t, [loc[t] EXCEPT !.tk = Len(queue')])
  /\ Goto(t, "r_lock")
  /\ UNCHANGED <<nvmVars, combVars, ghostVars>>

NextTry(t) == Round(t, MAX_READ_TRIES + MAX_THREADS, "r_load", "r_result")

(* The lock's atomic operation is the fence of the PWB of curComb.         *)
ReadLock(t) ==
  /\ At(t, "r_lock")
  /\ FencedCurComb(loc[t].lc.seq)
  /\ \/ SharedTryLock(t) /\ Goto(t, "r_check") /\ UNCHANGED loc
     \/ lock[loc[t].lc.idx] = "write" /\ NextTry(t) /\ UNCHANGED combVars
  /\ UNCHANGED <<listVars, ghostVars>>

ReadCheck(t) ==
  /\ At(t, "r_check")
  /\ \/ /\ curComb.idx = loc[t].lc.idx
        /\ Goto(t, "r_run") /\ Set(t, [loc[t] EXCEPT !.lc = curComb])
        /\ UNCHANGED readers
     \/ /\ curComb.idx # loc[t].lc.idx
        /\ SharedUnlock(t, loc[t].lc.idx)
        /\ NextTry(t)
  /\ UNCHANGED <<listVars, nvmVars, head, lock, ghostVars>>

(* The transaction loads one word after the other.                         *)
ReadWord(t) ==
  /\ At(t, "r_run")
  /\ \E a \in Addrs \ DOMAIN loc[t].val :
       Set(t, [loc[t] EXCEPT !.val = @ @@ (a :> mem[loc[t].lc.idx][a])])
  /\ Goto(t, IF DOMAIN loc'[t].val = Addrs THEN "r_unlock" ELSE "r_run")
  /\ UNCHANGED <<listVars, nvmVars, combVars, ghostVars>>

ReadUnlock(t) ==
  /\ At(t, "r_unlock")
  /\ SharedUnlock(t, loc[t].lc.idx)
  /\ Return(t, loc[t].val, loc[t].lc.seq + 1)
  /\ UNCHANGED <<listVars, nvmVars, head, lock>>

(* The readers that had no replica to read have their result.              *)
ReadResult(t) ==
  /\ At(t, "r_result")
  /\ Answer(t)
  /\ UNCHANGED <<listVars, nvmVars, combVars>>

-----------------------------------------------------------------------------
(* Power is lost, and the constructor maps the file.                       *)
Crash ==
  /\ work.crashes > 0
  /\ work' = [work EXCEPT !.crashes = @ - 1]
  /\ \E left \in pcur :
       /\ curComb' = [idx |-> left.idx, seq |-> 0]
       /\ pcur' = {curComb'}
       /\ \E m \in [Addrs -> UNION {pm[left.idx][a] : a \in Addrs}] :
            /\ \A a \in Addrs : m[a] \in pm[left.idx][a]
            /\ mem' = [c \in Combs |-> m]
            /\ pm' = [c \in Combs |-> [a \in Addrs |-> {m[a]}]]
            /\ hist' = <<m>>
       /\ head' = [c \in Combs |-> IF c = left.idx THEN 0 ELSE NONE]
       /\ lock' = [c \in Combs |-> IF c = left.idx THEN "readonly" ELSE "free"]
  /\ readers' = [c \in Combs |-> {}]
  /\ queue' = <<>> /\ result' = <<>> /\ cut' = {}
  /\ preRetired' = [t \in Threads |-> <<>>]
  /\ pc' = [t \in Threads |-> "idle"]
  /\ loc' = [t \in Threads |-> Loc0]
  /\ call' = [t \in Threads |-> Call0]
  /\ acked' = 1
  /\ UNCHANGED ret

Write(t) ==
  \/ BeginWrite(t) \/ TryExclusive(t) \/ CheckHead(t) \/ Mutate(t) \/ Lost(t)
  \/ LoadCurComb(t) \/ GetLock(t) \/ GetCheck(t) \/ GetRecheck(t) \/ Copy(t)
  \/ GiveUp(t) \/ Applied(t) \/ PublishLock(t) \/ PublishNot(t)
  \/ PublishRecheck(t) \/ Publish(t) \/ Fence(t) \/ UnlockOld(t) \/ Retire(t)
  \/ Retired(t) \/ Release(t) \/ WriteReturn(t)

Read(t) ==
  \/ BeginRead(t) \/ ReadLoad(t) \/ ReadEnqueue(t) \/ ReadLock(t)
  \/ ReadCheck(t) \/ ReadWord(t) \/ ReadUnlock(t) \/ ReadResult(t)

Done ==
  /\ \A t \in Threads : pc[t] = "idle" /\ work.budget[t] = 0
  /\ UNCHANGED vars

Next == (\E t \in Threads : Write(t) \/ Read(t)) \/ Crash \/ Done

Spec == Init /\ [][Next]_vars

(* Thread 0 keeps running, whatever the others do.                         *)
LoneSpec == Spec /\ WF_vars(Write(0) \/ Read(0))

-----------------------------------------------------------------------------
TypeOK ==
  /\ \A n \in 1 .. Len(queue) :
       queue[n].tid \in Threads /\ queue[n].op \in Addrs \union {READ}
  /\ Len(result) = Len(queue)
  /\ cut \subseteq 0 .. Len(queue)
  /\ curComb.idx \in Combs /\ curComb \in pcur
  /\ \A c \in Combs :
       /\ head[c] \in {NONE} \union (0 .. Len(queue))
       /\ lock[c] \in {"free", "write", "readonly"}
       /\ readers[c] \subseteq Threads
       /\ \A a \in Addrs : mem[c][a] \in pm[c][a]
  /\ \A t \in Threads :
       /\ Len(preRetired[t]) <= MAX_SIZE
       /\ loc[t].tk \in 0 .. Len(queue) /\ loc[t].c \in Combs

(* What the list's first n transactions make of the store of the file.     *)
StoreAt(n) ==
  LET at[k \in 0 .. n] ==
        IF k = 0 THEN hist[1] ELSE Run(at[k - 1], queue[k].op)
  IN at[n]

(* A replica nobody is writing holds what its head says, whether it was    *)
(* caught up node by node, copied, or left half way by a thread that gave  *)
(* up: later threads go on from there.                                     *)
HeadTellsContent ==
  \A c \in Combs :
    lock[c] # "write" /\ head[c] # NONE => mem[c] = StoreAt(head[c])

(* "ERROR: not enough Combined instances" is never reached.                *)
ReplicaAvailable ==
  \A t \in Threads : pc[t] = "w_scan" => loc[t].i < MAX_COMBINEDS

(* Whoever leaves without having made its replica current, after loops     *)
(* that all stop after MAX_THREADS rounds, finds its transaction in the     *)
(* current replica and its result there.                                   *)
LeavesCommitted ==
  \A t \in Threads :
    pc[t] \in {"w_giveup", "w_release", "w_return", "r_result"} =>
      /\ loc[t].tk \in 1 .. head[curComb.idx]
      /\ result[loc[t].tk] # NONE

(* The file never holds a half-written replica: whatever curComb a crash   *)
(* leaves, the replica it points to is a commit, whole, and no earlier one *)
(* than what has been answered to writers.  A reader may answer from a     *)
(* commit that is not durable yet: it compares only the index in curComb.  *)
CrashLeavesCommit ==
  \A v \in pcur :
    /\ v.seq < Len(hist)
    /\ work.readers = {} => v.seq + 1 >= acked
    /\ \A a \in Addrs : pm[v.idx][a] = {hist[v.seq + 1][a]}

(* Replicas hold what their heads say, and what the file shows after a     *)
(* crash is whole.                                                         *)
ReplicasConsistent == TypeOK /\ HeadTellsContent /\ CrashLeavesCommit

(* CXPTM implements DurableStore.                                          *)
Abstract == INSTANCE DurableStore WITH
  Ops <- Addrs,
  Apply <- Run,
  log <- hist,
  req <- [t \in Threads |-> call[t].op],
  start <- [t \in Threads |-> call[t].from],
  res <- [t \in Threads |-> call[t].took]

DurableLinearizability == Abstract!Spec

(* Wait-freedom: a transaction that has begun is answered, even if all     *)
(* other threads stop.                                                     *)
WaitFree == pc[0] # "idle" ~> pc[0] = "idle"
=============================================================================
