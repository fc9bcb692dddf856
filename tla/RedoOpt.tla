------------------------------- MODULE RedoOpt -------------------------------
(***************************************************************************)
(* ptmdb/ptms/redoopt/RedoOpt.hpp, the wait-free persistent transactional  *)
(* memory under RedoDB (ptms/redoopt holds the same algorithm).  Every     *)
(* thread announces its transaction; whoever builds the next replica runs  *)
(* all announced transactions on it and publishes it with one CAS of       *)
(* curComb.  Replicas catch up by replaying the redo logs of the States    *)
(* the ring points to, or by copying the current replica.                  *)
(*                                                                         *)
(* A step is one access to a variable other threads write, together with   *)
(* the accesses to private or locked memory around it; a value that is     *)
(* thrown away when the next look at curComb or at a ticket finds it       *)
(* changed is read in the step of that look.  Memory is sequentially       *)
(* consistent.  The lock of a replica is the TryRWLock that                *)
(* StrongTryRWLock implements.  Of each persistent word the model keeps    *)
(* the values a crash may leave: those stored since its last write-back.   *)
(***************************************************************************)
EXTENDS Integers, Sequences, FiniteSets, SequencesExt

CONSTANTS
  MaxThreads,             \* MAX_THREADS; threads are 0 .. MaxThreads - 1.
  RINGSIZE,               \* Slots of the ring.
  STATESSIZE,             \* States per thread.
  MAX_COMBS,              \* Replicas getNewComb scans at first.
  CopyTimes,              \* What a measured copy may take; 0 is under 1 us.
  MAX_READ_TRIES,         \* Tries before a read is announced like a write.
  RedoLimit,              \* Longest redo log worth replaying.
  CLLimit,                \* Most cache lines flushed one by one.
  UninitTickets,          \* What apply_redologs may find in a ringTicket
                          \* it never assigned; NONE is lastAppliedTicket.
  Addrs,                  \* The persistent words, each on its cache line.
  READ, NONE,             \* The request that writes nothing; no request.
  Wrap,                   \* A word counts modulo Wrap.
  Writers, Readers,       \* Who runs which kind of transaction.
  Scheduled,              \* The threads that are sure to keep running.
  Budget,                 \* Bound on the transactions of each thread.
  MaxCrashes              \* Bound on the crashes.

ASSUME RedoAssumption ==
  /\ MaxThreads \in Nat \ {0}
  /\ RINGSIZE \in Nat \ {0}
  /\ STATESSIZE \in Nat /\ STATESSIZE > 1
  /\ MAX_READ_TRIES \in Nat
  /\ MAX_COMBS \in 1 .. MaxThreads + 1
  /\ CopyTimes \subseteq Nat
  /\ Wrap \in Nat /\ Wrap > 1
  /\ IsFiniteSet(Addrs)
  /\ READ \notin Addrs /\ NONE \notin Addrs \union {READ}
  /\ Budget \in [0 .. MaxThreads - 1 -> Nat]
  /\ MaxCrashes \in Nat

Threads == 0 .. MaxThreads - 1
Combs == 0 .. MaxThreads  \* MAX_COMBINEDS is MAX_THREADS + 1.

ASSUME NoneIsNoReplica == NONE \notin Combs

SeqTidIdx(s, t, i) == [seq |-> s, tid |-> t, idx |-> i]

(* The head of a replica whose content is not to be used.                  *)
INVALID == SeqTidIdx(0, 1, 0)

Empty == [a \in {} |-> 0]

(* What the transaction of a request does to a store; with a small Wrap    *)
(* words come back to earlier values.                                      *)
Run(store, op) ==
  IF op = READ THEN store ELSE [store EXCEPT ![op] = (@ + 1) % Wrap]

VARIABLES
  curComb,                \* per->curComb: [seq, tid, idx of the replica].
  pcur,                   \* The curComb a crash may leave.
  mem,                    \* The replicas as the caches show them.
  pm,                     \* Per replica and word, what a crash may leave.
  head, lock, readers,    \* combs[]: head, rwLock (mode and holders),
  flushcopy, clsets,      \* flushcopy and the lines still to flush.
  ring,
  sauron,                 \* sauron[tid].states[idx].
  lastIdx,                \* sauron[tid].lastIdx.
  copyTime,
  enqueuers, announce,
  pc, cc, nc, loc,        \* Per thread: location, cComb, newComb, locals.
  hist,                   \* History: hist[s + 1] is what commit s published.
  call,                   \* History: [op, from, pub, took] of an open call.
  ret,                    \* The last result of each thread.
  acked,                  \* History: commits whose effects were answered.
  budget, crashes

nvmVars   == <<curComb, pcur, mem, pm>>
lockVars  == <<lock, readers>>
combVars  == <<head, flushcopy, clsets>>
stateVars == <<sauron, lastIdx>>
reqVars   == <<enqueuers, announce, copyTime>>
ghostVars == <<hist, call, ret, acked, budget, crashes>>
volatileVars == <<lockVars, combVars, ring, stateVars, reqVars>>
sharedVars == <<nvmVars, volatileVars, ghostVars>>
vars == <<sharedVars, pc, cc, nc, loc>>

-----------------------------------------------------------------------------
(***************************************************************************)
(* Initial state: a freshly created file, and the locals of a call.        *)
(***************************************************************************)
Ticket0 == SeqTidIdx(0, 0, 0)
Store0 == [a \in Addrs |-> 0]

State0 == [ticket |-> Ticket0, applied |-> [t \in Threads |-> FALSE],
           results |-> [t \in Threads |-> NONE], log |-> Empty, logSize |-> 0]

Loc0 ==
  [init |-> 0,            \* initCombSeq
   iter |-> 0,            \* iter of a write, i of a read
   lt |-> Ticket0,        \* ltail; lastAppliedTicket while replaying is la
   la |-> Ticket0,
   rt |-> Ticket0,        \* ringtail, oldTicket: the expected value of a CAS
   tk |-> Ticket0,        \* the ticket whose State is being used
   i |-> 0,               \* the index of the loop the thread is in
   max |-> MAX_COMBS,     \* maxCombs
   op |-> NONE,           \* mutation
   any |-> FALSE,         \* atleastone
   copy |-> FALSE,        \* tlocal.copy
   cl |-> <<>>,           \* the cache lines of the new State
   undo |-> Empty,        \* its undo log
   cp |-> Ticket0,        \* initComb of makeCopy, curC of flushCopy
   cinit |-> 0,           \* its initCombSeq
   left |-> {},           \* the words copyFromTo has still to copy
   val |-> Empty]         \* what a read-only transaction has read so far

Call0 == [op |-> NONE, from |-> 0, pub |-> FALSE, took |-> NONE]

Volatile(idx, other) ==
  /\ head' = [c \in Combs |-> IF c = idx THEN Ticket0 ELSE other]
  /\ lock' = [c \in Combs |-> IF c = idx THEN "readonly" ELSE "free"]
  /\ readers' = [c \in Combs |-> {}]
  /\ flushcopy' = [c \in Combs |-> FALSE]
  /\ clsets' = [c \in Combs |-> <<>>]
  /\ ring' = [s \in 0 .. RINGSIZE - 1 |-> Ticket0]
  /\ sauron' = [t \in Threads |-> [i \in 0 .. STATESSIZE - 1 |-> State0]]
  /\ lastIdx' = [t \in Threads |-> 1]
  /\ copyTime' = 100000
  /\ enqueuers' = [t \in Threads |-> NONE]
  /\ announce' = [t \in Threads |-> FALSE]
  /\ pc' = [t \in Threads |-> "idle"]
  /\ cc' = [t \in Threads |-> Ticket0]
  /\ nc' = [t \in Threads |-> NONE]
  /\ loc' = [t \in Threads |-> Loc0]

Init ==
  /\ curComb = Ticket0
  /\ pcur = {Ticket0}
  /\ mem = [c \in Combs |-> Store0]
  /\ pm = [c \in Combs |-> [a \in Addrs |-> {0}]]
  /\ head = [c \in Combs |-> Ticket0]
  /\ lock = [c \in Combs |-> IF c = 0 THEN "readonly" ELSE "free"]
  /\ readers = [c \in Combs |-> {}]
  /\ flushcopy = [c \in Combs |-> FALSE]
  /\ clsets = [c \in Combs |-> <<>>]
  /\ ring = [s \in 0 .. RINGSIZE - 1 |-> Ticket0]
  /\ sauron = [t \in Threads |-> [i \in 0 .. STATESSIZE - 1 |-> State0]]
  /\ lastIdx = [t \in Threads |-> 1]
  /\ copyTime = 100000
  /\ enqueuers = [t \in Threads |-> NONE]
  /\ announce = [t \in Threads |-> FALSE]
  /\ pc = [t \in Threads |-> "idle"]
  /\ cc = [t \in Threads |-> Ticket0]
  /\ nc = [t \in Threads |-> NONE]
  /\ loc = [t \in Threads |-> Loc0]
  /\ hist = <<[mem |-> Store0, tk |-> Ticket0, applied |-> State0.applied]>>
  /\ call = [t \in Threads |-> Call0]
  /\ ret = [t \in Threads |-> NONE]
  /\ acked = 1
  /\ budget = Budget
  /\ crashes = 0

-----------------------------------------------------------------------------
(***************************************************************************)
(* Helpers.                                                                *)
(***************************************************************************)
StateOf(tk) == sauron[tk.tid][tk.idx]
NewState(t) == sauron[t][lastIdx[t]]
NewTicket(t) == SeqTidIdx(cc[t].seq + 1, t, lastIdx[t])
Slot(s) == s % RINGSIZE
Current(t) == cc[t] = curComb

Goto(t, l) == pc' = [pc EXCEPT ![t] = l]
Set(t, l)  == loc' = [loc EXCEPT ![t] = l]

(* `continue` and `break` of the two attempts of a write.                  *)
Continue(t) ==
  /\ Goto(t, IF loc[t].iter = 1 THEN "w_exit" ELSE "w_load")
  /\ Set(t, [loc[t] EXCEPT !.iter = @ + 1, !.i = 0, !.max = MAX_COMBS])

Break(t) == Goto(t, "w_exit") /\ UNCHANGED loc

(* Stores of `words`, a function from some of the addresses, to replica c. *)
Store(c, words) ==
  /\ mem' = [mem EXCEPT ![c] =
               [a \in Addrs |-> IF a \in DOMAIN words THEN words[a] ELSE @[a]]]
  /\ pm' = [pm EXCEPT ![c] =
              [a \in Addrs |-> IF a \in DOMAIN words
                               THEN @[a] \union {words[a]} ELSE @[a]]]
  /\ UNCHANGED <<curComb, pcur>>

(* Mutant of Undo: what a lost attempt has stored stays.                   *)
UndoNothing(t) == UNCHANGED nvmVars

(* apply_undolog of the new State on the new replica.                      *)
Undo(t) == Store(nc[t], loc[t].undo)

(* PWB of lines of replica c.                                              *)
PWBLines(c, lines) ==
  pm' = [pm EXCEPT ![c] =
           [a \in Addrs |-> IF a \in lines THEN {mem[c][a]} ELSE @[a]]]

(* Mutant of FencedCurComb: the PWB is missing.                            *)
NoFencedCurComb(s) == UNCHANGED nvmVars

(* The fence after a PWB of curComb that was issued when commit s, or a    *)
(* later one, was current.                                                 *)
FencedCurComb(s) ==
  /\ pcur' = {v \in pcur : v.seq >= s}
  /\ UNCHANGED <<curComb, mem, pm>>

(* Compare-and-swap of the ring slot of commit s.                          *)
RingCas(s, old, new) ==
  ring' = [ring EXCEPT ![Slot(s)] = IF @ = old THEN new ELSE @]

(* Mutant of AddLine: too many lines, and nobody is told.                  *)
AddLineForgets(a, set) ==
  IF set.lines # <<>> /\ Len(set.lines) + 1 > CLLimit
  THEN [lines |-> <<>>, copy |-> FALSE]
  ELSE IF \E i \in 1 .. Len(set.lines) : set.lines[i] = a THEN set
  ELSE [set EXCEPT !.lines = Append(@, a)]

(* addIfAbsent: the limit is tested before the line is looked up.          *)
AddLine(a, set) ==
  IF set.lines # <<>> /\ Len(set.lines) + 1 > CLLimit
  THEN [lines |-> <<>>, copy |-> TRUE]
  ELSE IF \E i \in 1 .. Len(set.lines) : set.lines[i] = a THEN set
  ELSE [set EXCEPT !.lines = Append(@, a)]

Lines(s) == ToSet(s)

(* Every call ends here: the answer and what it shows to be committed.     *)
Return(t, val, at) ==
  /\ Goto(t, "idle")
  /\ Set(t, Loc0)
  /\ cc' = [cc EXCEPT ![t] = Ticket0]
  /\ ret' = [ret EXCEPT ![t] = val]
  /\ call' = [call EXCEPT ![t] = Call0]
  /\ acked' = IF at > acked THEN at ELSE acked
  /\ UNCHANGED <<hist, budget, crashes>>

Open(t, op) ==
  /\ pc[t] = "idle"
  /\ budget[t] > 0
  /\ budget' = [budget EXCEPT ![t] = @ - 1]
  /\ call' = [call EXCEPT ![t] =
       [op |-> op, from |-> Len(hist), pub |-> FALSE, took |-> NONE]]
  /\ UNCHANGED <<hist, ret, acked, crashes>>
-----------------------------------------------------------------------------
(***************************************************************************)
(* ns_write_transaction: announce the request, then try twice.             *)
(***************************************************************************)
BeginWrite(t) ==
  /\ t \in Writers
  /\ \E a \in Addrs :
       Open(t, a) /\ enqueuers' = [enqueuers EXCEPT ![t] = a]
  /\ Goto(t, "w_announce")
  /\ UNCHANGED <<nvmVars, lockVars, combVars, ring, stateVars, announce,
                 copyTime, cc, nc, loc>>

Announce(t) ==
  /\ pc[t] \in {"w_announce", "r_announce"}
  /\ announce' = [announce EXCEPT ![t] = ~@]
  /\ call' = [call EXCEPT ![t].pub = TRUE]
  /\ Goto(t, IF pc[t] = "w_announce" THEN "w_init" ELSE "r_load")
  /\ UNCHANGED <<nvmVars, lockVars, combVars, ring, stateVars, enqueuers,
                 copyTime, cc, nc, loc, hist, ret, acked, budget, crashes>>

WriteInit(t) ==
  /\ pc[t] = "w_init"
  /\ loc' = [loc EXCEPT ![t].init = curComb.seq]
  /\ Goto(t, "w_load")
  /\ UNCHANGED <<sharedVars, cc, nc>>

(* Each attempt begins with a load of curComb.                             *)
LoadCurComb(t) ==
  /\ \/ pc[t] = "w_load" /\ Goto(t, "w_tail")
     \/ pc[t] = "x_load" /\ Goto(t, "x_head")
     \/ pc[t] = "r_load" /\ Goto(t, "r_lock")
     \/ pc[t] = "f_load" /\ Goto(t, "f_head")
  /\ cc' = [cc EXCEPT ![t] = curComb]
  /\ UNCHANGED <<sharedVars, nc, loc>>

(* ltail is read while cComb is current, or not used.                      *)
LoadTail(t) ==
  /\ pc[t] = "w_tail"
  /\ IF cc[t].seq >= loc[t].init + 2 THEN Break(t)
     ELSE IF ~Current(t) THEN Continue(t)
     ELSE /\ Goto(t, "w_state")
          /\ loc' = [loc EXCEPT ![t].lt = head[cc[t].idx]]
  /\ UNCHANGED <<sharedVars, cc, nc>>

(* The new State starts as a copy of the tail's results, under the next    *)
(* ticket; from here on its old redo log is gone.                          *)
CopyState(t) ==
  LET tail == StateOf(loc[t].lt) IN
  /\ pc[t] = "w_state"
  /\ IF tail.applied[t] = announce[t]
     THEN /\ IF Current(t) THEN Break(t) ELSE Continue(t)
          /\ UNCHANGED sauron
     ELSE /\ sauron' = [sauron EXCEPT ![t][lastIdx[t]] =
               [ticket |-> NewTicket(t), applied |-> tail.applied,
                results |-> tail.results, log |-> Empty, logSize |-> 0]]
          /\ loc' = [loc EXCEPT ![t].cl = <<>>, ![t].undo = Empty]
          /\ Goto(t, "w_ring")
  /\ UNCHANGED <<nvmVars, lockVars, combVars, ring, lastIdx, reqVars, cc,
                 nc, ghostVars>>

RingCheck(t) ==
  /\ pc[t] = "w_ring"
  /\ IF Current(t) THEN Goto(t, "w_ring_load") /\ UNCHANGED loc
     ELSE Continue(t)
  /\ UNCHANGED <<sharedVars, cc, nc>>

AfterRing(t) == IF nc[t] = NONE THEN "w_pick" ELSE "w_replay"

(* Mutant of ReadRing: a ring that lags behind is left to others.          *)
ReadRingNoHelp(t) ==
  /\ pc[t] = "w_ring_load"
  /\ Goto(t, AfterRing(t))
  /\ UNCHANGED <<sharedVars, cc, nc, loc>>

ReadRing(t) ==
  LET ringtail == ring[Slot(cc[t].seq)] IN
  /\ pc[t] = "w_ring_load"
  /\ IF ringtail = loc[t].lt THEN Goto(t, AfterRing(t)) /\ UNCHANGED loc
     ELSE IF ringtail.seq > cc[t].seq THEN Continue(t)
     ELSE /\ Goto(t, "w_help_ring")
          /\ loc' = [loc EXCEPT ![t].rt = ringtail]
  /\ UNCHANGED <<sharedVars, cc, nc>>

(* The commit is made durable before the ring makes it visible.            *)
HelpRing(t) ==
  /\ pc[t] = "w_help_ring"
  /\ FencedCurComb(cc[t].seq)
  /\ RingCas(cc[t].seq, loc[t].rt, loc[t].lt)
  /\ Goto(t, AfterRing(t))
  /\ loc' = [loc EXCEPT ![t].rt = Ticket0]
  /\ UNCHANGED <<lockVars, combVars, stateVars, reqVars, cc, nc, ghostVars>>

-----------------------------------------------------------------------------
(***************************************************************************)
(* getNewComb.  The scan tests curComb before each exclusiveTryLock.  The  *)
(* time a scan lasts is not modelled: after each pass it goes one replica  *)
(* further, unless the last copy was too fast for the clock, when it never *)
(* does.  The code asserts that it goes no further than MaxThreads + 1;    *)
(* here it stays there, since the earliest time for it is not its own.     *)
(***************************************************************************)
(* Mutant of CanLock: exclusiveTryLock does not look at the readers.       *)
CanLockUnread(c) == lock[c] = "free"

CanLock(c) == lock[c] = "free" /\ readers[c] = {}

PickCheck(t) ==
  /\ pc[t] = "w_pick"
  /\ IF Current(t) THEN Goto(t, "w_try") /\ UNCHANGED loc ELSE Continue(t)
  /\ UNCHANGED <<sharedVars, cc, nc>>

(* Mutant of PickNext: the scan never goes further.                        *)
PickNextNarrow(t) ==
  loc' = [loc EXCEPT ![t].i = IF @ + 1 < loc[t].max THEN @ + 1 ELSE 0]

PickNext(t) ==
  IF loc[t].i + 1 < loc[t].max
  THEN loc' = [loc EXCEPT ![t].i = @ + 1]
  ELSE loc' = [loc EXCEPT ![t].i = 0, ![t].max =
                 IF copyTime = 0 \/ @ = MaxThreads + 1 THEN @ ELSE @ + 1]

PickTry(t) ==
  LET c == loc[t].i IN
  /\ pc[t] = "w_try"
  /\ IF CanLock(c)
     THEN /\ lock' = [lock EXCEPT ![c] = "write"]
          /\ nc' = [nc EXCEPT ![t] = c]
          /\ loc' = [loc EXCEPT ![t].i = 0, ![t].max = MAX_COMBS]
          /\ Goto(t, "w_replay")
     ELSE PickNext(t) /\ Goto(t, "w_pick") /\ UNCHANGED <<lock, nc>>
  /\ UNCHANGED <<nvmVars, readers, combVars, ring, stateVars, reqVars, cc,
                 ghostVars>>

-----------------------------------------------------------------------------
(***************************************************************************)
(* apply_redologs.                                                         *)
(***************************************************************************)
BeginReplay(t) ==
  LET last == head[nc[t]] IN
  /\ pc[t] = "w_replay"
  /\ IF last = INVALID
     THEN Goto(t, "c_init") /\ UNCHANGED loc
     ELSE /\ Goto(t, "w_redo")
          /\ loc' = [loc EXCEPT ![t].copy = flushcopy[nc[t]], ![t].la = last,
                                ![t].i = last.seq + 1, ![t].tk = Ticket0]
  /\ UNCHANGED <<sharedVars, cc, nc>>

(* head.store(ringTicket) when the loop has ended; if it never ran,        *)
(* ringTicket is uninitialised.                                            *)
ReplayDone(t) ==
  /\ \E u \in UninitTickets :
       head' = [head EXCEPT ![nc[t]] =
                  IF loc[t].la.seq < loc[t].lt.seq THEN loc[t].tk
                  ELSE IF u = NONE THEN loc[t].la ELSE u]
  /\ loc' = [loc EXCEPT ![t].la = Ticket0, ![t].tk = Ticket0, ![t].i = 0]
  /\ Goto(t, "w_recheck")

ReplayNext(t) ==
  LET n == loc[t].i
      tk == ring[Slot(n)]
      st == StateOf(tk) IN
  /\ pc[t] = "w_redo"
  /\ IF n = loc[t].lt.seq + 1 THEN ReplayDone(t)
     ELSE IF n > loc[t].lt.seq \/ tk.seq # n
             \/ st.ticket # tk \/ st.logSize > RedoLimit
     THEN Goto(t, "c_init") /\ UNCHANGED <<head, loc>>
     ELSE /\ Goto(t, IF st.logSize = 0 THEN "w_redo_next" ELSE "w_redo_copy")
          /\ loc' = [loc EXCEPT ![t].tk = tk]
          /\ UNCHANGED head
  /\ UNCHANGED <<nvmVars, lockVars, flushcopy, clsets, ring, stateVars,
                 reqVars, cc, nc, ghostVars>>

(* copy_redolog.  The State may be reused meanwhile; no line is noted for  *)
(* flushing.                                                               *)
CopyRedoLog(t) ==
  /\ pc[t] = "w_redo_copy"
  /\ Store(nc[t], StateOf(loc[t].tk).log)
  /\ Goto(t, "w_redo_check")
  /\ UNCHANGED <<volatileVars, cc, nc, loc, ghostVars>>

CheckRedoLog(t) ==
  /\ pc[t] = "w_redo_check"
  /\ Goto(t, IF StateOf(loc[t].tk).ticket = loc[t].tk THEN "w_redo_next"
             ELSE "c_init")
  /\ UNCHANGED <<sharedVars, cc, nc, loc>>

(* After one log: give up if others have surely applied the request by     *)
(* now, or go on to the next log.                                          *)
Replayed(t) ==
  /\ pc[t] = "w_redo_next"
  /\ IF curComb.seq >= loc[t].init + 2
     THEN /\ head' = [head EXCEPT ![nc[t]] = loc[t].tk]
          /\ Break(t)
     ELSE /\ Goto(t, "w_redo")
          /\ loc' = [loc EXCEPT ![t].i = @ + 1]
          /\ UNCHANGED head
  /\ UNCHANGED <<nvmVars, lockVars, flushcopy, clsets, ring, stateVars,
                 reqVars, cc, nc, ghostVars>>

-----------------------------------------------------------------------------
(***************************************************************************)
(* makeCopy and copyFromTo.                                                *)
(***************************************************************************)
CopyInit(t) ==
  /\ pc[t] = "c_init"
  /\ clsets' = [clsets EXCEPT ![nc[t]] = <<>>]
  /\ head' = [head EXCEPT ![nc[t]] = INVALID]
  /\ loc' = [loc EXCEPT ![t].cp = curComb, ![t].cinit = curComb.seq,
                        ![t].i = 0, ![t].la = Ticket0, ![t].tk = Ticket0]
  /\ Goto(t, "c_head")
  /\ UNCHANGED <<nvmVars, lockVars, flushcopy, ring, stateVars, reqVars, cc,
                 nc, ghostVars>>

(* Mutant of CopyRetry: the second commit is not noticed.                  *)
CopyRetryLate(t) ==
  /\ loc' = [loc EXCEPT ![t].cp = curComb, ![t].i = @ + 1]
  /\ Goto(t, IF curComb.seq > loc[t].cinit + 2 THEN "w_exit"
             ELSE IF loc[t].i = 1 THEN "c_assert_false"
             ELSE "c_head")

(* curComb moved: once more, unless two commits have passed.  The code     *)
(* asserts that there is no third time.                                    *)
CopyRetry(t) ==
  /\ loc' = [loc EXCEPT ![t].cp = curComb, ![t].i = @ + 1]
  /\ Goto(t, IF curComb.seq >= loc[t].cinit + 2 THEN "w_exit"
             ELSE IF loc[t].i = 1 THEN "c_assert_false"
             ELSE "c_head")

CopyHead(t) ==
  LET hd == head[loc[t].cp.idx] IN
  /\ pc[t] = "c_head"
  /\ IF loc[t].cp # curComb THEN CopyRetry(t)
     ELSE IF StateOf(hd).applied[t] = announce[t] THEN Break(t)
     ELSE /\ Goto(t, "c_copy")
          /\ loc' = [loc EXCEPT ![t].tk = hd, ![t].left = Addrs]
  /\ UNCHANGED <<sharedVars, cc, nc>>

(* Non-temporal stores of one word after the other, skipped where the      *)
(* caches show no difference; curComb is looked at in between.             *)
CopyWord(t) ==
  LET c == nc[t]
      from == mem[loc[t].cp.idx] IN
  /\ pc[t] = "c_copy"
  /\ \E a \in loc[t].left :
       /\ mem' = [mem EXCEPT ![c][a] = from[a]]
       /\ pm' = [pm EXCEPT ![c][a] =
                    IF mem[c][a] = from[a] THEN @ ELSE {from[a]}]
       /\ loc' = [loc EXCEPT ![t].left = @ \ {a}]
  /\ Goto(t, "c_check")
  /\ UNCHANGED <<curComb, pcur, volatileVars, cc, nc, ghostVars>>

(* The copy is complete: head is the one read before it began.             *)
Copied(t) ==
  /\ flushcopy' = [flushcopy EXCEPT ![nc[t]] = FALSE]
  /\ copyTime' \in CopyTimes
  /\ head' = [head EXCEPT ![nc[t]] = loc[t].tk]
  /\ loc' = [loc EXCEPT ![t].copy = FALSE, ![t].cp = Ticket0,
               ![t].cinit = 0, ![t].i = 0, ![t].tk = Ticket0]
  /\ Goto(t, "w_recheck")

CopyCheck(t) ==
  /\ pc[t] = "c_check"
  /\ IF loc[t].cp # curComb
     THEN CopyRetry(t) /\ UNCHANGED <<head, flushcopy, copyTime>>
     ELSE IF loc[t].left # {}
     THEN Goto(t, "c_copy") /\ UNCHANGED <<head, flushcopy, copyTime, loc>>
     ELSE Copied(t)
  /\ UNCHANGED <<nvmVars, lockVars, clsets, ring, stateVars, enqueuers,
                 announce, cc, nc, ghostVars>>

-----------------------------------------------------------------------------
(***************************************************************************)
(* The helping loop: run every announced request on the new replica.       *)
(***************************************************************************)
Recheck(t) ==
  /\ pc[t] = "w_recheck"
  /\ IF Current(t)
     THEN /\ Goto(t, "w_help")
          /\ loc' = [loc EXCEPT ![t].i = 0, ![t].any = FALSE]
     ELSE Continue(t)
  /\ UNCHANGED <<sharedVars, cc, nc>>

(* The loads of announce[i] and of enqueuers[i] are one step: a thread     *)
(* posts a request before it announces it, so that what they find was      *)
(* there at one time, or a commit lies between and HelpRun will see it.    *)
HelpNext(t) ==
  LET i == loc[t].i IN
  /\ pc[t] = "w_help"
  /\ IF i = MaxThreads THEN Goto(t, "w_merge") /\ UNCHANGED loc
     ELSE IF announce[i] = NewState(t).applied[i]
     THEN loc' = [loc EXCEPT ![t].i = @ + 1] /\ UNCHANGED pc
     ELSE loc' = [loc EXCEPT ![t].op = enqueuers[i]] /\ Goto(t, "w_protect")
  /\ UNCHANGED <<sharedVars, cc, nc>>

(* The call of a mutation, whose pstore notes an undo and a redo log entry *)
(* and the cache line, unless the word was logged before.                  *)
RunRequest(t) ==
  LET i == loc[t].i
      c == nc[t]
      op == loc[t].op
      after == Run(mem[c], op)
      words == [a \in {op} \ {READ} |-> after[a]]
      logged == op \in DOMAIN loc[t].undo
      lines == IF op = READ \/ logged \/ loc[t].copy
               THEN [lines |-> loc[t].cl, copy |-> loc[t].copy]
               ELSE AddLine(op, [lines |-> loc[t].cl, copy |-> FALSE])
      cur == NewState(t) IN
  /\ Store(c, words)
  /\ sauron' = [sauron EXCEPT ![t][lastIdx[t]] =
       [cur EXCEPT !.results[i] = after, !.applied[i] = ~@,
          !.log = [a \in DOMAIN cur.log \union DOMAIN words |-> after[a]]]]
  /\ loc' = [loc EXCEPT ![t].i = i + 1, ![t].op = NONE, ![t].any = TRUE,
       ![t].cl = lines.lines, ![t].copy = lines.copy,
       ![t].undo = [a \in DOMAIN @ \union DOMAIN words |->
                      IF a \in DOMAIN @ THEN @[a] ELSE mem[c][a]]]
  /\ Goto(t, "w_help")

(* The request is still there, so the hazard pointer protects it.          *)
HelpProtected(t) ==
  /\ pc[t] = "w_protect"
  /\ IF enqueuers[loc[t].i] = loc[t].op
     THEN Goto(t, "w_run") /\ UNCHANGED loc
     ELSE Goto(t, "w_merge") /\ loc' = [loc EXCEPT ![t].op = NONE]
  /\ UNCHANGED <<sharedVars, cc, nc>>

HelpRun(t) ==
  /\ pc[t] = "w_run"
  /\ IF ~Current(t)
     THEN /\ Goto(t, "w_merge")
          /\ loc' = [loc EXCEPT ![t].op = NONE]
          /\ UNCHANGED <<nvmVars, sauron>>
     ELSE RunRequest(t)
  /\ UNCHANGED <<lockVars, combVars, ring, lastIdx, reqVars, cc, nc,
                 ghostVars>>

-----------------------------------------------------------------------------
(***************************************************************************)
(* Flushing the new replica and publishing it.                             *)
(***************************************************************************)
Merged(t) ==
  FoldLeft(LAMBDA set, a : AddLine(a, set),
           [lines |-> clsets[nc[t]], copy |-> FALSE], loc[t].cl)

(* Lines of this transaction join those of earlier attempts on the same    *)
(* replica; too many of them, and the whole replica will be flushed.       *)
MergeLines(t) ==
  LET c == nc[t]
      copy == loc[t].copy \/ Merged(t).copy IN
  /\ pc[t] = "w_merge"
  /\ IF ~loc[t].any
     THEN Continue(t) /\ UNCHANGED <<nvmVars, flushcopy, clsets>>
     ELSE /\ IF loc[t].copy
             THEN /\ flushcopy' = [flushcopy EXCEPT ![c] = TRUE]
                  /\ UNCHANGED clsets
             ELSE /\ clsets' = [clsets EXCEPT ![c] = Merged(t).lines]
                  /\ UNCHANGED flushcopy
          /\ IF ~Current(t)
             THEN Undo(t) /\ Continue(t)
             ELSE /\ Goto(t, IF copy THEN "w_flush_copy" ELSE "w_flush")
                  /\ loc' = [loc EXCEPT ![t].copy = copy, ![t].any = FALSE]
                  /\ UNCHANGED nvmVars
  /\ UNCHANGED <<lockVars, head, ring, stateVars, reqVars, cc, nc, ghostVars>>

FlushLines(t) ==
  /\ pc[t] = "w_flush"
  /\ PWBLines(nc[t], Lines(clsets[nc[t]]))
  /\ clsets' = [clsets EXCEPT ![nc[t]] = <<>>]
  /\ Goto(t, "w_head")
  /\ UNCHANGED <<curComb, pcur, mem, lockVars, head, flushcopy, ring,
                 stateVars, reqVars, cc, nc, loc, ghostVars>>

FlushCopyInit(t) ==
  /\ pc[t] = "w_flush_copy"
  /\ loc' = [loc EXCEPT ![t].cp = curComb]
  /\ Goto(t, "w_flush_all")
  /\ UNCHANGED <<sharedVars, cc, nc>>

(* flushCopy of a replica of one chunk: it stops when somebody else has    *)
(* surely applied, or is seen to have applied, the request.                *)
FlushAll(t) ==
  LET c == nc[t]
      moved == loc[t].cp # curComb
      stop == /\ moved
              /\ \/ curComb.seq >= loc[t].cp.seq + 2
                 \/ StateOf(head[curComb.idx]).applied[t] = announce[t] IN
  /\ pc[t] = "w_flush_all"
  /\ IF stop
     THEN Undo(t) /\ Break(t) /\ UNCHANGED <<flushcopy, clsets>>
     ELSE /\ PWBLines(c, Addrs)
          /\ flushcopy' = [flushcopy EXCEPT ![c] = FALSE]
          /\ clsets' = [clsets EXCEPT ![c] = <<>>]
          /\ loc' = [loc EXCEPT ![t].copy = FALSE, ![t].cp = Ticket0]
          /\ Goto(t, "w_head")
          /\ UNCHANGED <<curComb, pcur, mem>>
  /\ UNCHANGED <<lockVars, head, ring, stateVars, reqVars, cc, nc, ghostVars>>

(* The redo log and the head of the new replica, then downgrade().         *)
SetHead(t) ==
  /\ pc[t] = "w_head"
  /\ sauron' = [sauron EXCEPT ![t][lastIdx[t]].logSize =
                  Cardinality(DOMAIN loc[t].undo)]
  /\ head' = [head EXCEPT ![nc[t]] = NewTicket(t)]
  /\ lock' = [lock EXCEPT ![nc[t]] = "readonly"]
  /\ Goto(t, "w_publish")
  /\ UNCHANGED <<nvmVars, readers, flushcopy, clsets, ring, lastIdx,
                 reqVars, cc, nc, loc, ghostVars>>

(* History: which open calls commit s = Len(hist) has just answered.       *)
RecordCommit(t) ==
  LET st == NewState(t)
      c  == nc[t] IN
  /\ hist' = Append(hist, [mem |-> mem[c], tk |-> NewTicket(t),
                           applied |-> st.applied])
  /\ call' = [i \in Threads |->
       IF call[i].pub /\ st.applied[i] # hist[Len(hist)].applied[i]
       THEN [call[i] EXCEPT !.took = [at |-> Len(hist) + 1,
                                      val |-> st.results[i]]]
       ELSE call[i]]
  /\ UNCHANGED <<ret, acked, budget, crashes>>

Published(t) ==
  LET new == SeqTidIdx(cc[t].seq + 1, t, nc[t]) IN
  /\ curComb' = new
  /\ pcur' = pcur \union {new}
  /\ RecordCommit(t)
  /\ nc' = [nc EXCEPT ![t] = NONE]
  /\ Goto(t, "w_unlock")

Publish(t) ==
  /\ pc[t] = "w_publish"
  /\ IF Current(t) THEN Published(t)
     ELSE Goto(t, "w_lost") /\ UNCHANGED <<curComb, pcur, nc, ghostVars>>
  /\ UNCHANGED <<mem, pm, volatileVars, cc, loc>>

(* The CAS failed: take everything back and let the replica go.            *)
Withdraw(t) ==
  /\ pc[t] = "w_lost"
  /\ Undo(t)
  /\ head' = [head EXCEPT ![nc[t]] = loc[t].lt]
  /\ lock' = [lock EXCEPT ![nc[t]] = "free"]
  /\ nc' = [nc EXCEPT ![t] = NONE]
  /\ Continue(t)
  /\ UNCHANGED <<readers, flushcopy, clsets, ring, stateVars, reqVars, cc,
                 ghostVars>>

(* Mutant of UnlockOld: it unlocks the replica that is current by now.     *)
UnlockCurrent(t) ==
  /\ pc[t] = "w_unlock"
  /\ lock' = [lock EXCEPT ![curComb.idx] = "free"]
  /\ Goto(t, "w_advance")
  /\ UNCHANGED <<nvmVars, readers, combVars, ring, stateVars, reqVars, cc,
                 nc, loc, ghostVars>>

(* setReadUnlock of the replica that was current.                          *)
UnlockOld(t) ==
  /\ pc[t] = "w_unlock"
  /\ lock' = [lock EXCEPT ![cc[t].idx] = "free"]
  /\ Goto(t, "w_advance")
  /\ UNCHANGED <<nvmVars, readers, combVars, ring, stateVars, reqVars, cc,
                 nc, loc, ghostVars>>

(* Mutant of Committed: the next transaction reuses the State.             *)
CommittedSameState(t) ==
  /\ UNCHANGED lastIdx
  /\ Return(t, NewState(t).results[t],
            IF call[t].took = NONE THEN 0 ELSE call[t].took.at)

Committed(t) ==
  /\ lastIdx' = [lastIdx EXCEPT ![t] = (@ + 1) % STATESSIZE]
  /\ Return(t, NewState(t).results[t],
            IF call[t].took = NONE THEN 0 ELSE call[t].took.at)

AdvanceRead(t) ==
  LET s == cc[t].seq + 1
      old == ring[Slot(s)] IN
  /\ pc[t] = "w_advance"
  /\ IF old.seq < s
     THEN /\ loc' = [loc EXCEPT ![t].rt = old]
          /\ Goto(t, "w_advance_cas")
          /\ UNCHANGED <<lastIdx, cc, ghostVars>>
     ELSE Committed(t)
  /\ UNCHANGED <<nvmVars, lockVars, combVars, ring, sauron, reqVars, nc>>

AdvanceCas(t) ==
  /\ pc[t] = "w_advance_cas"
  /\ FencedCurComb(cc[t].seq + 1)
  /\ RingCas(cc[t].seq + 1, loc[t].rt, NewTicket(t))
  /\ Committed(t)
  /\ UNCHANGED <<lockVars, combVars, sauron, reqVars, nc>>

-----------------------------------------------------------------------------
(***************************************************************************)
(* The end of a write that did not publish: fetch the result.              *)
(***************************************************************************)
ExitUnlock(t) ==
  /\ pc[t] = "w_exit"
  /\ lock' = [c \in Combs |-> IF c = nc[t] THEN "free" ELSE lock[c]]
  /\ nc' = [nc EXCEPT ![t] = NONE]
  /\ Set(t, Loc0)
  /\ Goto(t, "x_load")
  /\ UNCHANGED <<nvmVars, readers, combVars, ring, stateVars, reqVars, cc,
                 ghostVars>>

(* If the replica has moved on, the ring knows the State of that commit.   *)
FetchHead(t, here, elsewhere) ==
  IF head[cc[t].idx].seq = cc[t].seq
  THEN Goto(t, here) /\ loc' = [loc EXCEPT ![t].tk = head[cc[t].idx]]
  ELSE Goto(t, elsewhere) /\ UNCHANGED loc

ExitHead(t) ==
  /\ pc[t] = "x_head"
  /\ FetchHead(t, "x_advance", "x_ring")
  /\ UNCHANGED <<sharedVars, cc, nc>>

ExitRing(t) ==
  /\ pc[t] = "x_ring"
  /\ loc' = [loc EXCEPT ![t].tk = ring[Slot(cc[t].seq)]]
  /\ Goto(t, "x_result")
  /\ UNCHANGED <<sharedVars, cc, nc>>

ExitAdvance(t) ==
  LET old == ring[Slot(cc[t].seq)] IN
  /\ pc[t] = "x_advance"
  /\ IF old.seq < cc[t].seq
     THEN loc' = [loc EXCEPT ![t].rt = old] /\ Goto(t, "x_advance_cas")
     ELSE UNCHANGED loc /\ Goto(t, "x_result")
  /\ UNCHANGED <<sharedVars, cc, nc>>

ExitAdvanceCas(t) ==
  /\ pc[t] = "x_advance_cas"
  /\ FencedCurComb(cc[t].seq)
  /\ RingCas(cc[t].seq, loc[t].rt, loc[t].tk)
  /\ Goto(t, "x_result")
  /\ loc' = [loc EXCEPT ![t].rt = Ticket0]
  /\ UNCHANGED <<lockVars, combVars, stateVars, reqVars, cc, nc, ghostVars>>

FetchResult(t) ==
  /\ pc[t] = "x_result"
  /\ Return(t, StateOf(loc[t].tk).results[t],
            IF call[t].took = NONE THEN 0 ELSE call[t].took.at)
  /\ UNCHANGED <<nvmVars, volatileVars, nc>>

-----------------------------------------------------------------------------
(***************************************************************************)
(* ns_read_transaction: read the current replica under its shared lock;    *)
(* after MAX_READ_TRIES tries, announce the transaction as well.           *)
(***************************************************************************)
TryLocation(n) ==
  IF n = MAX_READ_TRIES + 2 THEN "f_load"
  ELSE IF n = MAX_READ_TRIES THEN "r_enqueue"
  ELSE "r_load"

BeginRead(t) ==
  /\ t \in Readers
  /\ Open(t, READ)
  /\ Goto(t, TryLocation(0))
  /\ UNCHANGED <<nvmVars, volatileVars, cc, nc, loc>>

ReadEnqueue(t) ==
  /\ pc[t] = "r_enqueue"
  /\ enqueuers' = [enqueuers EXCEPT ![t] = READ]
  /\ Goto(t, "r_announce")
  /\ UNCHANGED <<nvmVars, lockVars, combVars, ring, stateVars, announce,
                 copyTime, cc, nc, loc, ghostVars>>

NextTry(t) ==
  /\ Goto(t, TryLocation(loc[t].iter + 1))
  /\ loc' = [loc EXCEPT ![t].iter = @ + 1]

ReadLock(t) ==
  /\ pc[t] = "r_lock"
  /\ IF lock[cc[t].idx] = "write"
     THEN NextTry(t) /\ UNCHANGED readers
     ELSE /\ readers' = [readers EXCEPT ![cc[t].idx] = @ \union {t}]
          /\ Goto(t, "r_check")
          /\ UNCHANGED loc
  /\ UNCHANGED <<nvmVars, lock, combVars, ring, stateVars, reqVars, cc, nc,
                 ghostVars>>

(* Mutant of ReadCheck: the shared lock is taken for enough.               *)
ReadCheckNothing(t) ==
  /\ pc[t] = "r_check"
  /\ Goto(t, "r_run") /\ loc' = [loc EXCEPT ![t].tk = head[cc[t].idx]]
  /\ UNCHANGED <<sharedVars, cc, nc>>

ReadCheck(t) ==
  LET ticket == head[cc[t].idx] IN
  /\ pc[t] = "r_check"
  /\ IF Current(t) /\ ticket.seq = cc[t].seq
     THEN Goto(t, "r_run") /\ loc' = [loc EXCEPT ![t].tk = ticket]
     ELSE Goto(t, "r_leave") /\ UNCHANGED loc
  /\ UNCHANGED <<sharedVars, cc, nc>>

(* The transaction reads one word after the other.                         *)
ReadWord(t) ==
  /\ pc[t] = "r_run"
  /\ \E a \in Addrs \ DOMAIN loc[t].val :
       loc' = [loc EXCEPT ![t].val =
                 [b \in DOMAIN @ \union {a} |->
                    IF b = a THEN mem[cc[t].idx][a] ELSE @[b]]]
  /\ Goto(t, IF DOMAIN loc'[t].val = Addrs THEN "r_unlock" ELSE "r_run")
  /\ UNCHANGED <<sharedVars, cc, nc>>

SharedUnlock(t) ==
  readers' = [readers EXCEPT ![cc[t].idx] = @ \ {t}]

ReadLeave(t) ==
  /\ pc[t] = "r_leave"
  /\ SharedUnlock(t)
  /\ NextTry(t)
  /\ UNCHANGED <<nvmVars, lock, combVars, ring, stateVars, reqVars, cc, nc,
                 ghostVars>>

ReadUnlock(t) ==
  /\ pc[t] = "r_unlock"
  /\ SharedUnlock(t)
  /\ Goto(t, "r_ring")
  /\ UNCHANGED <<nvmVars, lock, combVars, ring, stateVars, reqVars, cc, nc,
                 loc, ghostVars>>

(* What was read may not be durable yet: the ring tells.                   *)
ReadReturn(t) ==
  /\ pc[t] = "r_ring"
  /\ IF ring[Slot(loc[t].tk.seq)].seq < loc[t].tk.seq
     THEN FencedCurComb(curComb.seq) ELSE UNCHANGED nvmVars
  /\ Return(t, loc[t].val, loc[t].tk.seq + 1)
  /\ UNCHANGED <<volatileVars, nc>>

(* All tries failed: somebody has run the announced transaction.           *)
FallbackHead(t) ==
  /\ pc[t] = "f_head"
  /\ FencedCurComb(cc[t].seq)
  /\ FetchHead(t, "x_result", "x_ring")
  /\ UNCHANGED <<volatileVars, cc, nc, ghostVars>>

-----------------------------------------------------------------------------
(***************************************************************************)
(* A crash leaves one of the possible contents of the persistent memory;   *)
(* the constructor starts again from the replica curComb names.  It reads  *)
(* nothing else of curComb, so what becomes of its own store is the same   *)
(* for the next restart.                                                   *)
(***************************************************************************)
(* Whatever some word may hold after a crash.                              *)
Survivors == UNION {pm[c][a] : c \in Combs, a \in Addrs}

CrashRestart ==
  /\ crashes < MaxCrashes
  /\ crashes' = crashes + 1
  /\ \E left \in pcur :
       \E m \in {f \in [Combs -> [Addrs -> Survivors]] :
                   \A c \in Combs, a \in Addrs : f[c][a] \in pm[c][a]} :
         /\ curComb' = SeqTidIdx(0, 0, left.idx)
         /\ pcur' = {curComb'}
         /\ mem' = m
         /\ pm' = [c \in Combs |-> [a \in Addrs |-> {m[c][a]}]]
         /\ Volatile(left.idx, INVALID)
         /\ hist' = <<[mem |-> m[left.idx], tk |-> Ticket0,
                       applied |-> State0.applied]>>
  /\ call' = [t \in Threads |-> Call0]
  /\ acked' = 1
  /\ UNCHANGED <<ret, budget>>

-----------------------------------------------------------------------------
Prepare(t) ==
  \/ BeginWrite(t) \/ Announce(t) \/ WriteInit(t) \/ LoadCurComb(t)
  \/ LoadTail(t) \/ CopyState(t) \/ RingCheck(t) \/ ReadRing(t)
  \/ HelpRing(t) \/ PickCheck(t) \/ PickTry(t)

CatchUp(t) ==
  \/ BeginReplay(t) \/ ReplayNext(t) \/ CopyRedoLog(t) \/ CheckRedoLog(t)
  \/ Replayed(t) \/ CopyInit(t) \/ CopyHead(t) \/ CopyWord(t)
  \/ CopyCheck(t)

Help(t) ==
  \/ Recheck(t) \/ HelpNext(t) \/ HelpProtected(t) \/ HelpRun(t)
  \/ MergeLines(t) \/ FlushLines(t) \/ FlushCopyInit(t) \/ FlushAll(t)
  \/ SetHead(t)

Finish(t) ==
  \/ Publish(t) \/ Withdraw(t) \/ UnlockOld(t) \/ AdvanceRead(t)
  \/ AdvanceCas(t) \/ ExitUnlock(t) \/ ExitHead(t)
  \/ ExitRing(t) \/ ExitAdvance(t) \/ ExitAdvanceCas(t) \/ FetchResult(t)

Read(t) ==
  \/ BeginRead(t) \/ ReadEnqueue(t) \/ ReadLock(t)
  \/ ReadCheck(t) \/ ReadWord(t) \/ ReadLeave(t) \/ ReadUnlock(t)
  \/ ReadReturn(t) \/ FallbackHead(t)

ThreadStep(t) == Prepare(t) \/ CatchUp(t) \/ Help(t) \/ Finish(t) \/ Read(t)

(* Every transaction of the bounded instance has been answered.            *)
Done ==
  /\ \A t \in Threads : pc[t] = "idle" /\ budget[t] = 0
  /\ UNCHANGED vars

Next == (\E t \in Threads : ThreadStep(t)) \/ CrashRestart \/ Done

Spec == Init /\ [][Next]_vars

(* The scheduler runs the threads of Scheduled for ever; the others may    *)
(* stop anywhere.                                                          *)
FairSpec == Spec /\ \A t \in Scheduled : WF_vars(ThreadStep(t))

-----------------------------------------------------------------------------
(***************************************************************************)
(* Type invariant.                                                         *)
(***************************************************************************)
Tickets == [seq : Nat, tid : Nat, idx : Nat]
Stores == [Addrs -> Nat]
Partial(f) == DOMAIN f \subseteq Addrs /\ \A a \in DOMAIN f : f[a] \in Nat
Ops == Addrs \union {READ, NONE}
LineSeqs == Seq(Addrs)

Locations ==
  {"idle", "w_announce", "w_init", "w_load", "w_tail", "w_state", "w_ring",
   "w_ring_load", "w_help_ring", "w_pick", "w_try", "w_replay", "w_redo",
   "w_redo_copy", "w_redo_check", "w_redo_next", "c_init", "c_head", "c_copy",
   "c_check", "c_assert_false", "w_recheck", "w_help", "w_protect", "w_run",
   "w_merge", "w_flush", "w_flush_copy", "w_flush_all", "w_head", "w_publish",
   "w_lost", "w_unlock", "w_advance", "w_advance_cas", "w_exit", "x_load",
   "x_head", "x_ring", "x_advance", "x_advance_cas", "x_result", "r_enqueue",
   "r_announce", "r_load", "r_lock", "r_check", "r_leave", "r_run", "r_unlock",
   "r_ring", "f_load", "f_head"}

StateOK(s) ==
  /\ s.ticket \in Tickets
  /\ s.applied \in [Threads -> BOOLEAN]
  /\ \A t \in Threads : s.results[t] = NONE \/ s.results[t] \in Stores
  /\ Partial(s.log)
  /\ s.logSize \in 0 .. Cardinality(Addrs)

(* Everything that names a replica, a thread or a State names one that     *)
(* exists.                                                                 *)
TypeOK ==
  /\ \A v \in pcur \union {curComb} : v \in Tickets /\ v.idx \in Combs
  /\ mem \in [Combs -> Stores]
  /\ \A c \in Combs, a \in Addrs : mem[c][a] \in pm[c][a]
  /\ head \in [Combs -> Tickets]
  /\ lock \in [Combs -> {"free", "write", "readonly"}]
  /\ readers \in [Combs -> SUBSET Threads]
  /\ flushcopy \in [Combs -> BOOLEAN]
  /\ ring \in [0 .. RINGSIZE - 1 -> Tickets]
  /\ \A t \in Threads, i \in 0 .. STATESSIZE - 1 : StateOK(sauron[t][i])
  /\ lastIdx \in [Threads -> 0 .. STATESSIZE - 1]
  /\ enqueuers \in [Threads -> Ops]
  /\ announce \in [Threads -> BOOLEAN]
  /\ pc \in [Threads -> Locations]
  /\ \A t \in Threads : cc[t] \in Tickets /\ cc[t].idx \in Combs
  /\ nc \in [Threads -> Combs \union {NONE}]
  /\ \A t \in Threads : loc[t].cl \in LineSeqs /\ loc[t].op \in Ops

-----------------------------------------------------------------------------
(***************************************************************************)
(* Properties.                                                             *)
(***************************************************************************)
Commit(s) == hist[s + 1]
CommitSeqs == 0 .. Len(hist) - 1

(* The replica curComb names holds exactly what its commit published, in   *)
(* read-only mode, and its head leads to that commit's State: no helper    *)
(* and no late attempt disturbs it.                                        *)
CurrentReplicaIntact ==
  LET c == curComb.idx IN
  /\ curComb.seq = Len(hist) - 1
  /\ mem[c] = Commit(curComb.seq).mem
  /\ head[c] = Commit(curComb.seq).tk
  /\ lock[c] = "readonly"

(* A replica nobody is writing holds the store of the commit its head      *)
(* names, so replaying the later redo logs brings it up to date.  Not yet  *)
(* published replicas are not meant.                                       *)
HeadTellsContent ==
  \A c \in Combs :
    \/ lock[c] = "write" \/ head[c] = INVALID
    \/ \E t \in Threads : nc[t] = c
    \/ /\ head[c].seq \in CommitSeqs
       /\ mem[c] = Commit(head[c].seq).mem

(* "Now newComb is as up to date as curComb": an attempt that goes on to   *)
(* help others, and finds curComb unchanged, works on the current store.   *)
UpToDate ==
  \A t \in Threads :
    pc[t] = "w_recheck" /\ Current(t) =>
      mem[nc[t]] = Commit(cc[t].seq).mem

(* A ticket in the ring is the one its commit was published with.          *)
RingNamesCommits ==
  \A i \in 0 .. RINGSIZE - 1 :
    ring[i].seq > 0 => /\ ring[i].seq \in CommitSeqs
                       /\ ring[i] = Commit(ring[i].seq).tk

(* Replicas hold what their heads, the ring and their users take them for. *)
ReplicasConsistent ==
  /\ TypeOK
  /\ CurrentReplicaIntact
  /\ HeadTellsContent
  /\ UpToDate
  /\ RingNamesCommits

(* One replica more than threads: getNewComb always finds a free replica,  *)
(* although each thread may hold one and the current one is held too.      *)
ReplicaAvailable ==
  \A t \in Threads :
    pc[t] \in {"w_pick", "w_try"} => \E c \in Combs : CanLock(c)

(* The threads that must take replica c out of its mode.                   *)
WriteOwners(c) ==
  {t \in Threads : nc[t] = c /\ pc[t] \notin {"w_publish", "w_lost"}}
Unlockers(c) ==
  {t \in Threads : \/ nc[t] = c /\ pc[t] \in {"w_publish", "w_lost"}
                   \/ cc[t].idx = c /\ pc[t] = "w_unlock"}

(* Locks are handed over, not owned: a downgraded replica is unlocked by   *)
(* whoever replaces it.  Never by two, never by nobody.                    *)
LockHandover ==
  \A c \in Combs :
    /\ Cardinality(WriteOwners(c)) = IF lock[c] = "write" THEN 1 ELSE 0
    /\ Cardinality(Unlockers(c)) =
         IF lock[c] = "readonly" /\ c # curComb.idx THEN 1 ELSE 0

(* Every replica lock that is taken has one thread that will release it,   *)
(* and there is always one to take.                                        *)
ReplicaLocks == LockHandover /\ ReplicaAvailable

(* The ring only shows commits that no crash can undo, which lets readers  *)
(* and writers skip the write-back of curComb.                             *)
RingImpliesDurable ==
  \A i \in 0 .. RINGSIZE - 1 :
    /\ ring[i].seq \in CommitSeqs
    /\ \A v \in pcur : v.seq >= ring[i].seq

(* What is still to be flushed of a replica names each line once.          *)
LinesOnce == \A c \in Combs : clsets[c] \in LineSeqs /\ IsInjective(clsets[c])

(* Whatever curComb a crash leaves, its replica is in persistent memory,   *)
(* word for word the store of a commit that is not older than anything     *)
(* that was answered: no replica is reused before the curComb that         *)
(* replaced it is durable, no line is published before it is flushed.      *)
CrashLeavesCommit ==
  /\ LinesOnce
  /\ \A v \in pcur :
       /\ v.seq + 1 \in acked .. Len(hist)
       /\ \A a \in Addrs : pm[v.idx][a] = {Commit(v.seq).mem[a]}

(* makeCopy's third round, its assert(false), is never reached.            *)
TwoCopiesSuffice == \A t \in Threads : pc[t] # "c_assert_false"

(* A read-only transaction runs on one commit from its first word to its   *)
(* last, although the replica may be replaced while it runs.               *)
SnapshotHeld ==
  \A t \in Threads :
    pc[t] = "r_run" =>
      /\ loc[t].tk.seq \in CommitSeqs
      /\ mem[cc[t].idx] = Commit(loc[t].tk.seq).mem

(* RedoOpt implements DurableStore.                                        *)
Abstract == INSTANCE DurableStore WITH
  Ops <- Addrs,
  Apply <- Run,
  log <- [i \in 1 .. Len(hist) |-> hist[i].mem],
  req <- [t \in Threads |-> call[t].op],
  start <- [t \in Threads |-> call[t].from],
  res <- [t \in Threads |-> call[t].took]

DurableLinearizability == Abstract!Spec

(* Wait-freedom: a transaction that has begun is answered, even if all     *)
(* other threads stop.                                                     *)
WaitFree == \A t \in Scheduled : pc[t] # "idle" ~> pc[t] = "idle"
=============================================================================
