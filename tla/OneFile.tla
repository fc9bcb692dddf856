-------------------------------- MODULE OneFile --------------------------------
(***************************************************************************)
(* ptms/ponefilewf/OneFilePTMWF.hpp: wait-free transactions over one copy  *)
(* of the data.  A thread announces its function, runs the functions of    *)
(* all threads into a write-set, commits the write-set with a CAS of       *)
(* curTx, and applies it word by word with double-word CASes; whoever      *)
(* meets a committed write-set applies it too.  The results of the         *)
(* functions are words of the write-set, and every word has the sequence   *)
(* number of the transaction that wrote it.                                *)
(*                                                                         *)
(* A function increments the words of its request and returns all words.   *)
(* A word is loaded together with its sequence number, and a write-set is  *)
(* copied at once: the DCAS, or the look at curTx and the request after    *)
(* the copy, rejects what was torn.  Persistent words and curTx are in the *)
(* model with the values a crash may leave, and a persistent log with the  *)
(* logs; a PWB is taken together with the fence that follows.  Allocation  *)
(* and nesting are left out.                                               *)
(***************************************************************************)
EXTENDS Integers, Sequences, FiniteSets, SequencesExt, TLC

CONSTANTS
  MaxThreads,             \* The threads there are, all registered.
  MAX_READ_TRIES,
  Addrs,                  \* The persistent words.
  READ, NONE,
  Workloads               \* What the runs bound: requests, writers, readers,
                          \* transactions of each thread, crashes.

Threads == 0 .. MaxThreads - 1

Store0 == [a \in Addrs |-> 0]

Run(store, op) ==
  IF op = READ THEN store
  ELSE [a \in Addrs |-> IF a \in op THEN store[a] + 1 ELSE store[a]]

NOERA == 0

VARIABLES
  curTx,                  \* [seq, idx]
  request,                \* PWriteSet::request of each thread.
  cell,                   \* Words, and results[] by thread: [val, seq].
  ws,                     \* writeSets[]: sequences of [at, val].
  mine, ops,              \* operations[], [op, seq]: as its thread stored it
                          \* last, and as the others see it.
  he, retired, freed,     \* Hazard eras; functions by [tid, seq].
  pcur, pm, plog,         \* What a crash may leave of curTx, words and logs.
  pc, loc,                \* Per thread: location and locals.
  hist,                   \* History: the stores committed since the restart.
  call,                   \* History: [op, from, took] of an open call.
  ret, acked,
  work                    \* What is left of one of the Workloads.

opVars == <<mine, ops>>
eraVars == <<he, retired, freed>>
nvmVars == <<pcur, pm, plog>>
ghostVars == <<hist, call, ret, acked, work>>
vars == <<curTx, request, cell, ws, opVars, eraVars, nvmVars, pc, loc, ghostVars>>

Tx0 == [seq |-> 0, idx |-> 0]

Loc0 ==
  [it |-> 0,              \* iter
   cur |-> Tx0,           \* myopd.curTx
   era |-> 0,             \* firstEra
   h |-> Tx0,             \* lcurTx of helpApply
   after |-> "idle",      \* where helpApply returns to
   i |-> 0,               \* the loop the thread is in
   old |-> NONE,          \* lval and lseq of apply
   o |-> NONE,            \* txfunc and operationsSeq of transformAll
   view |-> [a \in {} |-> 0]]

Call0 == [op |-> NONE, from |-> 0, took |-> NONE]

(* operationsInit and resultsInit.                                         *)
Op0 == [op |-> NONE, seq |-> 0]
Result0 == [val |-> NONE, seq |-> 1]

(* A new file.                                                             *)
Init ==
  /\ curTx = [seq |-> 1, idx |-> 0]
  /\ request = [t \in Threads |-> Tx0]
  /\ cell = [c \in Addrs \union Threads |->
               IF c \in Addrs THEN [val |-> 0, seq |-> 0] ELSE Result0]
  /\ ws = [t \in Threads |-> <<>>]
  /\ mine = [t \in Threads |-> Op0] /\ ops = mine
  /\ he = [t \in Threads |-> NOERA]
  /\ retired = [t \in Threads |-> {}] /\ freed = {}
  /\ pcur = {curTx}
  /\ pm = [a \in Addrs |-> {cell[a]}]
  /\ plog = [t \in Threads |-> {<<>>}]
  /\ pc = [t \in Threads |-> "idle"]
  /\ loc = [t \in Threads |-> Loc0]
  /\ hist = <<Store0>>
  /\ call = [t \in Threads |-> Call0]
  /\ ret = [t \in Threads |-> NONE]
  /\ acked = 1 /\ work \in Workloads

-----------------------------------------------------------------------------
Goto(t, l) == pc' = [pc EXCEPT ![t] = l]
Set(t, l) == loc' = [loc EXCEPT ![t] = l]
At(t, l) == pc[t] = l

(* Commit s in hist.                                                       *)
Index(s) == Len(hist) - (curTx.seq - s)

Open(t, op) ==
  /\ At(t, "idle")
  /\ work.budget[t] > 0
  /\ work' = [work EXCEPT !.budget[t] = @ - 1]
  /\ call' = [call EXCEPT ![t] = [op |-> op, from |-> Len(hist), took |-> NONE]]
  /\ UNCHANGED <<hist, ret, acked>>

(* The call answers val, from commit number at of hist.                    *)
Return(t, val, at) ==
  /\ Goto(t, "idle")
  /\ Set(t, Loc0)
  /\ ret' = [ret EXCEPT ![t] = val]
  /\ call' = [call EXCEPT ![t] = Call0]
  /\ acked' = IF at > acked THEN at ELSE acked
  /\ UNCHANGED <<hist, work>>

Clear(t) == ws' = [ws EXCEPT ![t] = <<>>]

(* The processor's store buffer holds back the announcement ...            *)
Drained(t) == ops' = [ops EXCEPT ![t] = mine[t]] /\ UNCHANGED mine

(* ... for as long as it likes, but not over a fence.                      *)
Drain(t) ==
  /\ ops[t] # mine[t]
  /\ Drained(t)
  /\ UNCHANGED <<curTx, request, cell, ws, eraVars, nvmVars, pc, loc, ghostVars>>

MaxIter == 4

(* The next iteration of innerUpdateTx, or its end.                        *)
NextIter(t) ==
  /\ Goto(t, IF loc[t].it + 1 < MaxIter THEN "w_load" ELSE "w_clear")
  /\ Set(t, [loc[t] EXCEPT !.it = @ + 1])

(* The next try of readTransaction, or innerUpdateTx.                      *)
NextTry(t) ==
  IF loc[t].it + 1 < MAX_READ_TRIES
  THEN Goto(t, "r_load") /\ Set(t, [loc[t] EXCEPT !.it = @ + 1])
  ELSE Goto(t, "w_announce") /\ Set(t, Loc0)

Again(t) ==
  IF pc[t] \in {"w_recheck", "w_run"} THEN NextIter(t) ELSE NextTry(t)

-----------------------------------------------------------------------------
(***************************************************************************)
(* innerUpdateTx                                                           *)
(***************************************************************************)
BeginWrite(t) ==
  /\ t \in work.writers
  /\ \E op \in work.requests : Open(t, op)
  /\ Goto(t, "w_announce")
  /\ UNCHANGED <<curTx, request, cell, ws, opVars, eraVars, nvmVars, loc>>

Announce(t) ==
  /\ At(t, "w_announce")
  /\ mine' = [mine EXCEPT ![t] = [op |-> call[t].op, seq |-> cell[t].seq]]
  /\ Set(t, [loc[t] EXCEPT !.era = curTx.seq])
  /\ Goto(t, "w_load")
  /\ UNCHANGED <<curTx, request, cell, ws, ops, eraVars, nvmVars, ghostVars>>

LoadTx(t) ==
  /\ At(t, "w_load")
  /\ Clear(t)
  /\ Set(t, [loc[t] EXCEPT !.cur = curTx])
  /\ Goto(t, "w_done")
  /\ UNCHANGED <<curTx, request, cell, opVars, eraVars, nvmVars, ghostVars>>

(* helpApply of tx, and on at `after`.                                     *)
Help(t, tx, after) ==
  /\ Goto(t, "h_request")
  /\ Set(t, [loc[t] EXCEPT !.h = tx, !.after = after])

CheckAnswered(t) ==
  /\ At(t, "w_done")
  /\ IF cell[t].seq > mine[t].seq
     THEN Goto(t, "w_clear") /\ UNCHANGED loc
     ELSE Help(t, loc[t].cur, "w_set")
  /\ UNCHANGED <<curTx, request, cell, ws, opVars, eraVars, nvmVars, ghostVars>>

(* he.set, and the same for a read.                                        *)
SetEra(t) ==
  /\ \E step \in {<<"w_set", "w_recheck">>, <<"r_set", "r_recheck">>} :
       At(t, step[1]) /\ Goto(t, step[2])
  /\ Clear(t)
  /\ he' = [he EXCEPT ![t] = loc[t].cur.seq]
  /\ Drained(t)
  /\ UNCHANGED <<curTx, request, cell, retired, freed, nvmVars, loc, ghostVars>>

Recheck(t) ==
  /\ \E step \in {<<"w_recheck", "w_trans">>, <<"r_recheck", "r_run">>} :
       /\ At(t, step[1])
       /\ IF loc[t].cur = curTx
          THEN /\ Goto(t, step[2])
               /\ Set(t, [loc[t] EXCEPT !.i = 0, !.view = Loc0.view])
          ELSE Again(t)
  /\ UNCHANGED <<curTx, request, cell, ws, opVars, eraVars, nvmVars, ghostVars>>

-----------------------------------------------------------------------------
(***************************************************************************)
(* helpApply                                                               *)
(***************************************************************************)
HelpReturn(t) == Goto(t, loc[t].after) /\ UNCHANGED loc

HelpRequest(t) ==
  LET l == loc[t] IN
  /\ At(t, "h_request")
  /\ IF request[l.h.idx] # l.h THEN HelpReturn(t)
     ELSE /\ Goto(t, IF l.h.idx = t THEN "h_apply" ELSE "h_copy")
          /\ Set(t, [l EXCEPT !.i = 0])
  /\ UNCHANGED <<curTx, request, cell, ws, opVars, eraVars, nvmVars, ghostVars>>

(* The copy may be of any write-set, until it has been checked.            *)
HelpCopy(t) ==
  /\ At(t, "h_copy")
  /\ ws' = [ws EXCEPT ![t] = ws[loc[t].h.idx]]
  /\ Drained(t)
  /\ Goto(t, "h_curtx")
  /\ UNCHANGED <<curTx, request, cell, eraVars, nvmVars, loc, ghostVars>>

HelpCurTx(t) ==
  /\ At(t, "h_curtx")
  /\ IF curTx # loc[t].h THEN HelpReturn(t)
     ELSE Goto(t, "h_recheck") /\ UNCHANGED loc
  /\ UNCHANGED <<curTx, request, cell, ws, opVars, eraVars, nvmVars, ghostVars>>

(* Mutant of HelpRecheck: the second look at the request is left out.      *)
HelpRecheckNot(t) ==
  /\ At(t, "h_recheck")
  /\ Goto(t, "h_apply") /\ UNCHANGED loc
  /\ UNCHANGED <<curTx, request, cell, ws, opVars, eraVars, nvmVars, ghostVars>>

HelpRecheck(t) ==
  /\ At(t, "h_recheck")
  /\ IF request[loc[t].h.idx] # loc[t].h THEN HelpReturn(t)
     ELSE Goto(t, "h_apply") /\ UNCHANGED loc
  /\ UNCHANGED <<curTx, request, cell, ws, opVars, eraVars, nvmVars, ghostVars>>

(* WriteSet::apply begins at another entry for each thread.                *)
Entry(t) == LET n == Len(ws[t]) IN ws[t][((t * 8 + loc[t].i) % n) + 1]

ApplyLoad(t) ==
  LET l == loc[t] IN
  /\ At(t, "h_apply") /\ l.i < Len(ws[t])
  /\ IF cell[Entry(t).at].seq < l.h.seq
     THEN Goto(t, "h_dcas") /\ Set(t, [l EXCEPT !.old = cell[Entry(t).at]])
     ELSE Set(t, [l EXCEPT !.i = @ + 1]) /\ UNCHANGED pc
  /\ UNCHANGED <<curTx, request, cell, ws, opVars, eraVars, nvmVars, ghostVars>>

(* While no crash can come, what it may leave is not kept.                 *)
MayLeave(values, new) == IF work.crashes = 0 THEN {new} ELSE values \union {new}

(* Mutant of Dcas: a store.                                                *)
DcasStores(t) ==
  LET l == loc[t]
      at == Entry(t).at
      new == [val |-> Entry(t).val, seq |-> l.h.seq]
  IN
  /\ At(t, "h_dcas")
  /\ cell' = [cell EXCEPT ![at] = new]
  /\ pm' = [a \in Addrs |-> IF a = at THEN MayLeave(pm[a], new) ELSE pm[a]]
  /\ Goto(t, "h_apply") /\ Set(t, [l EXCEPT !.i = @ + 1, !.old = NONE])
  /\ UNCHANGED <<curTx, request, ws, opVars, eraVars, pcur, plog, ghostVars>>

Dcas(t) ==
  LET l == loc[t]
      at == Entry(t).at
      new == [val |-> Entry(t).val, seq |-> l.h.seq]
  IN
  /\ At(t, "h_dcas")
  /\ IF cell[at] = l.old
     THEN /\ cell' = [cell EXCEPT ![at] = new]
          /\ pm' = [a \in Addrs |-> IF a = at THEN MayLeave(pm[a], new) ELSE pm[a]]
     ELSE UNCHANGED <<cell, pm>>
  /\ Goto(t, "h_apply") /\ Set(t, [l EXCEPT !.i = @ + 1, !.old = NONE])
  /\ UNCHANGED <<curTx, request, ws, opVars, eraVars, pcur, plog, ghostVars>>

(* flushModifications, and the CAS of the request, which is its fence.     *)
HelpClose(t) ==
  LET l == loc[t] IN
  /\ At(t, "h_apply") /\ l.i = Len(ws[t])
  /\ IF request[l.h.idx] = l.h
     THEN /\ request' = [request EXCEPT ![l.h.idx].seq = @ + 1]
          /\ pm' = [a \in Addrs |->
                      IF \E n \in 1 .. Len(ws[t]) : ws[t][n].at = a
                      THEN {cell[a]} ELSE pm[a]]
     ELSE UNCHANGED <<request, pm>>
  /\ HelpReturn(t)
  /\ UNCHANGED <<curTx, cell, ws, opVars, eraVars, pcur, plog, ghostVars>>

-----------------------------------------------------------------------------
(***************************************************************************)
(* transformAll                                                            *)
(***************************************************************************)

(* rawLoad of operations[i]; a thread sees its own stores.                 *)
TransformLoad(t) ==
  LET l == loc[t] IN
  /\ At(t, "w_trans") /\ l.i \in Threads
  /\ Set(t, [l EXCEPT !.o = IF l.i = t THEN mine[t] ELSE ops[l.i]])
  /\ Goto(t, "w_result")
  /\ UNCHANGED <<curTx, request, cell, ws, opVars, eraVars, nvmVars, ghostVars>>

TransformResult(t) ==
  LET l == loc[t] IN
  /\ At(t, "w_result")
  /\ IF cell[l.i].seq > l.o.seq
     THEN Goto(t, "w_trans") /\ Set(t, [l EXCEPT !.i = @ + 1, !.o = NONE])
     ELSE Goto(t, "w_curtx") /\ UNCHANGED loc
  /\ UNCHANGED <<curTx, request, cell, ws, opVars, eraVars, nvmVars, ghostVars>>

TransformCurTx(t) ==
  /\ At(t, "w_curtx")
  /\ IF loc[t].cur = curTx
     THEN Goto(t, "w_run") /\ Set(t, [loc[t] EXCEPT !.view = Loc0.view])
     ELSE NextIter(t)
  /\ UNCHANGED <<curTx, request, cell, ws, opVars, eraVars, nvmVars, ghostVars>>

(* lookupAddr and addToLog.                                                *)
Places(log, at) == {n \in 1 .. Len(log) : log[n].at = at}

Lookup(log, a) ==
  IF Places(log, a) = {} THEN cell[a].val
  ELSE log[CHOOSE n \in Places(log, a) : TRUE].val

Logged(log, e) ==
  IF Places(log, e.at) = {} THEN Append(log, e)
  ELSE [n \in DOMAIN log |-> IF log[n].at = e.at THEN e ELSE log[n]]

(* Mutant of TooNew: the sequence number is not looked at.                 *)
NeverTooNew(t, a) == FALSE

(* pload of one more word: aborted if a later transaction has written it.  *)
TooNew(t, a) == cell[a].seq > loc[t].cur.seq

View(t, a) == loc[t].view @@ (a :> Lookup(ws[t], a))

RunWord(t) ==
  /\ pc[t] \in {"w_run", "r_run"}
  /\ \E a \in Addrs \ DOMAIN loc[t].view :
       IF TooNew(t, a) THEN Again(t)
       ELSE Set(t, [loc[t] EXCEPT !.view = View(t, a)]) /\ UNCHANGED pc
  /\ UNCHANGED <<curTx, request, cell, ws, opVars, eraVars, nvmVars, ghostVars>>

(* The stores of the function of thread i and the one to results[i].       *)
RunStore(t) ==
  LET l == loc[t]
      new == Run(l.view, l.o.op)
      written == IF l.o.op = READ THEN {} ELSE l.o.op
      stores == SetToSeq({[at |-> a, val |-> new[a]] : a \in written})
                \o <<[at |-> l.i, val |-> new]>>
  IN
  /\ At(t, "w_run") /\ DOMAIN l.view = Addrs
  /\ ws' = [ws EXCEPT ![t] = FoldLeft(Logged, @, stores)]
  /\ Set(t, [l EXCEPT !.i = @ + 1, !.o = NONE, !.view = Loc0.view])
  /\ Goto(t, "w_trans")
  /\ UNCHANGED <<curTx, request, cell, opVars, eraVars, nvmVars, ghostVars>>

-----------------------------------------------------------------------------
(***************************************************************************)
(* commitTx                                                                *)
(***************************************************************************)
NewTx(t) == [seq |-> loc[t].cur.seq + 1, idx |-> t]

(* Nothing to do: what there was to do has been done by others.            *)
CommitBegin(t) ==
  /\ At(t, "w_trans") /\ loc[t].i = MaxThreads
  /\ \/ ws[t] = <<>> /\ Goto(t, "w_clear") /\ UNCHANGED loc
     \/ ws[t] # <<>> /\ loc[t].cur # curTx /\ NextIter(t)
     \/ ws[t] # <<>> /\ loc[t].cur = curTx /\ Goto(t, "c_request") /\ UNCHANGED loc
  /\ UNCHANGED <<curTx, request, cell, ws, opVars, eraVars, nvmVars, ghostVars>>

CommitRequest(t) ==
  /\ At(t, "c_request")
  /\ request' = [request EXCEPT ![t] = NewTx(t)]
  /\ Goto(t, "c_log")
  /\ UNCHANGED <<curTx, cell, ws, opVars, eraVars, nvmVars, loc, ghostVars>>

(* persistAndFlushLog: what may be in the file while log `new` is written  *)
(* over log `old`.  The entries for results[] count, but where they point  *)
(* to is not in the file.                                                  *)
InFile(log) ==
  [n \in DOMAIN log |-> IF log[n].at \in Addrs THEN log[n]
                        ELSE [log[n] EXCEPT !.val = 0]]

Mixed(old, new) ==
  UNION {{[k \in 1 .. n |-> IF k <= Len(old) /\ (k \in kept \/ k > Len(new))
                            THEN old[k] ELSE new[k]] : kept \in SUBSET (1 .. n)} :
         n \in {Len(old), Len(new)}}

PersistLog(t) ==
  /\ At(t, "c_log")
  /\ plog' = IF work.crashes = 0 THEN plog
             ELSE [plog EXCEPT ![t] = UNION {Mixed(old, InFile(ws[t])) : old \in @}]
  /\ Goto(t, "c_cas")
  /\ UNCHANGED <<curTx, request, cell, ws, opVars, eraVars, pcur, pm, loc, ghostVars>>

(* Is the result of thread u in a log, and does u wait for it?             *)
Carries(log, u) ==
  call[u].op # NONE /\ call[u].took = NONE /\ Places(log, u) # {}

(* The CAS of curTx, which is the fence of the log.                        *)
CommitCas(t) ==
  /\ At(t, "c_cas")
  /\ plog' = IF work.crashes = 0 THEN plog ELSE [plog EXCEPT ![t] = {InFile(ws[t])}]
  /\ IF curTx = loc[t].cur
     THEN /\ curTx' = NewTx(t)
          /\ pcur' = MayLeave(pcur, curTx')
          /\ hist' = Append(hist, [a \in Addrs |->
               IF Places(ws[t], a) = {} THEN Last(hist)[a] ELSE Lookup(ws[t], a)])
          /\ call' = [u \in Threads |->
               IF Carries(ws[t], u)
               THEN [call[u] EXCEPT !.took =
                       [at |-> Len(hist'), val |-> Lookup(ws[t], u)]]
               ELSE call[u]]
          /\ Goto(t, "c_pwb") /\ UNCHANGED loc
     ELSE NextIter(t) /\ UNCHANGED <<curTx, pcur, hist, call>>
  /\ UNCHANGED <<request, cell, ws, opVars, eraVars, pm, ret, acked, work>>

CommitPwb(t) ==
  /\ At(t, "c_pwb")
  /\ pcur' = {v \in pcur : v.seq >= NewTx(t).seq}
  /\ Help(t, NewTx(t), "c_clean")
  /\ UNCHANGED <<curTx, request, cell, ws, opVars, eraVars, pm, plog, ghostVars>>

(* canDelete, for all of the thread's retired functions at once.           *)
Deletable(t, era) ==
  {f \in retired[t] :
     /\ f.del # era
     /\ \A u \in Threads : he[u] = NOERA \/ he[u] < f.new \/ he[u] > f.del}

Clean(t) ==
  LET gone == Deletable(t, curTx.seq) IN
  /\ At(t, "c_clean")
  /\ retired' = [retired EXCEPT ![t] = @ \ gone]
  /\ freed' = freed \union {[tid |-> t, seq |-> f.seq] : f \in gone}
  /\ Goto(t, "w_clear")
  /\ UNCHANGED <<curTx, request, cell, ws, opVars, he, nvmVars, loc, ghostVars>>

ClearEra(t) ==
  /\ At(t, "w_clear")
  /\ he' = [he EXCEPT ![t] = NOERA]
  /\ Goto(t, "w_retire")
  /\ UNCHANGED <<curTx, request, cell, ws, opVars, retired, freed, nvmVars, loc, ghostVars>>

(* retireMyFunc, and the answer.                                           *)
RetireReturn(t) ==
  /\ At(t, "w_retire")
  /\ retired' = [retired EXCEPT ![t] = @ \union
       {[seq |-> mine[t].seq, new |-> loc[t].era, del |-> curTx.seq + 1]}]
  /\ Return(t, cell[t].val, IF call[t].took = NONE THEN 0 ELSE call[t].took.at)
  /\ UNCHANGED <<curTx, request, cell, ws, opVars, he, freed, nvmVars>>

-----------------------------------------------------------------------------
(***************************************************************************)
(* readTransaction                                                         *)
(***************************************************************************)
BeginRead(t) ==
  /\ t \in work.readers
  /\ Open(t, READ)
  /\ Goto(t, "r_load")
  /\ UNCHANGED <<curTx, request, cell, ws, opVars, eraVars, nvmVars, loc>>

ReadLoad(t) ==
  /\ At(t, "r_load")
  /\ Clear(t)
  /\ Goto(t, "h_request")
  /\ Set(t, [loc[t] EXCEPT !.cur = curTx, !.h = curTx, !.after = "r_set"])
  /\ UNCHANGED <<curTx, request, cell, opVars, eraVars, nvmVars, ghostVars>>

ReadReturn(t) ==
  /\ At(t, "r_run") /\ DOMAIN loc[t].view = Addrs
  /\ he' = [he EXCEPT ![t] = NOERA]
  /\ Return(t, loc[t].view, Index(loc[t].cur.seq))
  /\ UNCHANGED <<curTx, request, cell, ws, opVars, retired, freed, nvmVars>>

-----------------------------------------------------------------------------
(* Power is lost, and recover() writes the log of curTx's thread to the    *)
(* words: their values, not their sequence numbers.  It does not matter    *)
(* which request is in the file: helpers find the write-set empty.         *)
Crash ==
  /\ work.crashes > 0
  /\ work' = [work EXCEPT !.crashes = @ - 1]
  /\ \E left \in pcur :
     \E log \in plog[left.idx] :
     \E m \in [Addrs -> UNION {pm[a] : a \in Addrs}] :
       LET word(a) == [m[a] EXCEPT !.val =
             IF Places(log, a) = {} THEN @
             ELSE log[CHOOSE n \in Places(log, a) : TRUE].val]
       IN
       /\ \A a \in Addrs : m[a] \in pm[a]
       /\ curTx' = left /\ pcur' = {left}
       /\ cell' = [c \in Addrs \union Threads |->
                     IF c \in Addrs THEN word(c) ELSE Result0]
       /\ pm' = [a \in Addrs |-> {word(a)}]
       /\ plog' = [plog EXCEPT ![left.idx] = {log}]
       /\ hist' = <<[a \in Addrs |-> word(a).val]>>
  /\ ws' = [t \in Threads |-> <<>>]
  /\ mine' = [t \in Threads |-> Op0] /\ ops' = mine'
  /\ he' = [t \in Threads |-> NOERA]
  /\ retired' = [t \in Threads |-> {}] /\ freed' = {}
  /\ pc' = [t \in Threads |-> "idle"]
  /\ loc' = [t \in Threads |-> Loc0]
  /\ call' = [t \in Threads |-> Call0]
  /\ acked' = 1
  /\ UNCHANGED <<request, ret>>

Step(t) ==
  \/ BeginWrite(t) \/ Announce(t) \/ LoadTx(t) \/ CheckAnswered(t) \/ SetEra(t)
  \/ Recheck(t) \/ HelpRequest(t) \/ HelpCopy(t) \/ HelpCurTx(t)
  \/ HelpRecheck(t) \/ ApplyLoad(t) \/ Dcas(t) \/ HelpClose(t)
  \/ TransformLoad(t) \/ TransformResult(t) \/ TransformCurTx(t) \/ RunWord(t)
  \/ RunStore(t) \/ CommitBegin(t) \/ CommitRequest(t) \/ PersistLog(t)
  \/ CommitCas(t) \/ CommitPwb(t) \/ Clean(t) \/ ClearEra(t) \/ RetireReturn(t)
  \/ BeginRead(t) \/ ReadLoad(t) \/ ReadReturn(t)

Done ==
  /\ \A t \in Threads : pc[t] = "idle" /\ work.budget[t] = 0 /\ ops[t] = mine[t]
  /\ UNCHANGED vars

Next == (\E t \in Threads : Step(t) \/ Drain(t)) \/ Crash \/ Done

Spec == Init /\ [][Next]_vars

(* Thread 0 keeps running, whatever the others do.                         *)
Fairness == WF_vars(Step(0))

LoneSpec == Spec /\ Fairness

-----------------------------------------------------------------------------
TypeOK ==
  /\ curTx.idx \in Threads /\ curTx \in pcur
  /\ \A t \in Threads :
       /\ request[t].seq <= curTx.seq + 1
       /\ Len(ws[t]) <= Cardinality(Addrs) + MaxThreads
       /\ loc[t].cur.seq <= curTx.seq
       /\ he[t] <= curTx.seq
  /\ \A a \in Addrs : cell[a].seq <= curTx.seq /\ cell[a] \in pm[a]

(* Of the words, no transaction is applied before the one before it is     *)
(* applied completely, and the request is closed after the last word.      *)
AppliedInOrder ==
  LET n == Len(hist) IN
  /\ \A a \in Addrs : cell[a].val \in {hist[k][a] : k \in {n, IF n = 1 THEN 1 ELSE n - 1}}
  /\ request[curTx.idx] # curTx => \A a \in Addrs : cell[a].val = hist[n][a]

(* A function, in a transaction that will be aborted too, only sees words  *)
(* of the one commit that was current when its transaction began, with     *)
(* what functions before it in the write-set have written.                 *)
SnapshotHeld ==
  \A t \in Threads : pc[t] \in {"w_run", "r_run"} =>
    \A a \in DOMAIN loc[t].view :
      loc[t].view[a] = IF Places(ws[t], a) # {} THEN Lookup(ws[t], a)
                       ELSE hist[Index(loc[t].cur.seq)][a]

(* No thread runs a function that its owner has deleted.                   *)
FunctionsLive ==
  \A t \in Threads : pc[t] = "w_run" =>
    [tid |-> loc[t].i, seq |-> loc[t].o.seq] \notin freed

(* OneFile implements DurableStore, as long as nothing crashes.            *)
Abstract == INSTANCE DurableStore WITH
  Ops <- SUBSET Addrs,
  Store0 <- Store0,
  Apply <- Run,
  log <- hist,
  req <- [t \in Threads |-> call[t].op],
  start <- [t \in Threads |-> call[t].from],
  res <- [t \in Threads |-> call[t].took]

DurableLinearizability == Abstract!Spec

(* Wait-freedom: a transaction that has begun is answered, even if all     *)
(* other threads stop.                                                     *)
WaitFree == pc[0] # "idle" ~> pc[0] = "idle"
=============================================================================
