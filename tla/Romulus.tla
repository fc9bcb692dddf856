------------------------------- MODULE Romulus -------------------------------
(***************************************************************************)
(* The part RomulusLog and RomulusLR share: two copies of the heap in      *)
(* persistent memory, a persistent state that tells which of them is       *)
(* whole, a volatile log of what was stored, flat combining, and recovery. *)
(* The writers' lock serialises everything but posting a request, so a     *)
(* step is a store to persistent memory or an access to fc.                *)
(*                                                                         *)
(* The heap is word 0, the allocator's record of how many blocks are in    *)
(* use, and one word per block, each on a cache line of its own.  Of each  *)
(* persistent word the model keeps the values a crash may leave: those     *)
(* stored since its last PWB that a fence followed.                        *)
(***************************************************************************)
EXTENDS Integers, Sequences, FiniteSets, FiniteSetsExt, Functions

CONSTANTS
  MaxThreads,             \* ThreadRegistry::getMaxThreads()
  Blocks,                 \* Blocks that fit into main.
  READ, NONE,             \* A read-only transaction; no transaction.
  Workloads               \* What the runs bound: words, writers, readers,
                          \* transactions of each thread, crashes; logLimit,
                          \* which is used_size / 4 in words; and fair, the
                          \* threads that are sure to keep running.

Threads == 0 .. MaxThreads - 1
Words == 0 .. Blocks

Workload ==
  [words : SUBSET Words, writers : SUBSET Threads, readers : SUBSET Threads,
   budget : [Threads -> Nat], logLimit : Nat, crashes : Nat,
   fair : SUBSET Threads]

ASSUME RomulusAssumption ==
  /\ MaxThreads \in Nat \ {0}
  /\ Blocks \in Nat
  /\ READ \notin Words /\ NONE \notin Words \union {READ} \union Threads
  /\ NONE \notin [at : Nat, val : [Words -> Nat] \union {NONE}]
  /\ Workloads \subseteq Workload

(* Words that a log drops when it overflows are not written back before    *)
(* COPYING is, and a crash may lose them: where there are crashes, the     *)
(* runs and the theorems take logs that no transaction outgrows.           *)
LogsFit == \A w \in Workloads : w.crashes = 0 \/ w.logLimit > Blocks

VARIABLES
  main, back, state, used,      \* As the caches show them; used is used_size
                                \* in blocks.
  pmain, pback, pstate, pused,  \* What a crash may leave of them.
  entries, logSize, logEnabled, \* The log, as the set of words it names.
  fc, lfc,                      \* Requests posted; the combiner's copy.
  todo,                         \* The stores left of the running request.
  out,                          \* What each request of lfc returned.
  boot,                         \* "up", or where recover() is.
  pc, i,                        \* Per thread: location, loop index.
  hist, call, ret, acked,       \* History, as in RedoOpt.
  work                          \* What is left of one of the Workloads.

heapVars == <<main, pmain, used, pused>>
backVars == <<back, pback>>
headVars == <<state, pstate>>
logVars == <<entries, logSize, logEnabled>>
combVars == <<fc, lfc, todo, out>>
ghostVars == <<hist, call, ret, acked, work>>
memVars == <<heapVars, backVars, headVars, logVars>>
romVars == <<memVars, combVars, boot, pc, i, ghostVars>>

Call0 == [op |-> NONE, from |-> 0, took |-> NONE]
Heap0 == [a \in Words |-> 0]
Once(f) == [a \in DOMAIN f |-> {f[a]}]

(* A new file after createFile(): an empty heap, in both copies.           *)
RomInit ==
  /\ main = Heap0 /\ back = Heap0 /\ state = "IDLE" /\ used = 0
  /\ pmain = Once(Heap0) /\ pback = Once(Heap0)
  /\ pstate = {"IDLE"} /\ pused = {0}
  /\ entries = {} /\ logSize = 0 /\ logEnabled = TRUE
  /\ fc = [t \in Threads |-> NONE] /\ lfc = fc
  /\ todo = <<>> /\ out = fc
  /\ boot = "up"
  /\ pc = [t \in Threads |-> "idle"]
  /\ i = [t \in Threads |-> 0]
  /\ hist = <<Heap0>>
  /\ call = [t \in Threads |-> Call0]
  /\ ret = fc
  /\ acked = 1
  /\ work \in Workloads

Goto(t, from, to) ==
  /\ boot = "up"
  /\ pc[t] = from
  /\ pc' = [pc EXCEPT ![t] = to]

-----------------------------------------------------------------------------
(***************************************************************************)
(* Transactions.  Request 0 allocates a block and stores its first value;  *)
(* request n stores to block n if it is allocated.  Words of blocks that   *)
(* are not allocated hold anything and nobody looks at them.               *)
(***************************************************************************)
View(m) == [a \in Words |-> IF a <= m[0] THEN m[a] ELSE 0]

Stores(m, op) ==
  IF op = 0 /\ m[0] < Blocks THEN <<[a |-> 0, v |-> m[0] + 1],
                                    [a |-> m[0] + 1, v |-> 1]>>
  ELSE IF op \in 1 .. m[0] THEN <<[a |-> op, v |-> m[op] + 1]>>
  ELSE <<>>

Run(m, op) ==
  LET s == IF op = READ THEN <<>> ELSE Stores(m, op)
  IN [a \in Words |-> IF \E n \in DOMAIN s : s[n].a = a
                      THEN (CHOOSE e \in Range(s) : e.a = a).v ELSE m[a]]

Open(t, op) ==
  /\ work.budget[t] > 0
  /\ work' = [work EXCEPT !.budget[t] = @ - 1]
  /\ call' = [call EXCEPT ![t] = [Call0 EXCEPT !.op = op, !.from = Len(hist)]]
  /\ UNCHANGED <<hist, ret, acked>>

Close(t, val, at) ==
  /\ ret' = [ret EXCEPT ![t] = val]
  /\ call' = [call EXCEPT ![t] = Call0]
  /\ acked' = IF at > acked THEN at ELSE acked
  /\ UNCHANGED <<hist, work>>

Return(t) == Close(t, call[t].took.val, call[t].took.at)

(* The transactions of lfc are in persistent memory and become visible.    *)
Commit ==
  /\ hist' = Append(hist, View(main))
  /\ call' = [t \in Threads |->
                IF lfc[t] = NONE THEN call[t]
                ELSE [call[t] EXCEPT !.took = [at |-> Len(hist) + 1,
                                               val |-> out[t]]]]
  /\ UNCHANGED <<ret, acked, work>>

-----------------------------------------------------------------------------
(***************************************************************************)
(* ns_write_transaction: post the request; whoever holds the lock collects *)
(* the posted requests and runs them on main.                              *)
(***************************************************************************)
Post(t, op) ==
  /\ Goto(t, "idle", "w_lock")
  /\ Open(t, op)
  /\ fc' = [fc EXCEPT ![t] = op]
  /\ UNCHANGED <<memVars, lfc, todo, out, boot, i>>

(* Another thread had the lock; it may have executed my mutation.          *)
CheckFc(t) ==
  /\ IF fc[t] = NONE THEN Goto(t, "w_check", "idle") /\ Return(t)
                     ELSE Goto(t, "w_check", "w_lock") /\ UNCHANGED ghostVars
  /\ UNCHANGED <<memVars, combVars, boot, i>>

Collect(t) ==
  /\ lfc' = [lfc EXCEPT ![i[t]] = fc[i[t]]]
  /\ Goto(t, "w_collect", IF i[t] < MaxThreads - 1 THEN "w_collect"
                          ELSE IF \A u \in Threads : lfc'[u] = NONE
                          THEN "w_nothing" ELSE "w_mutating")
  /\ i' = [i EXCEPT ![t] = (@ + 1) % MaxThreads]
  /\ UNCHANGED <<memVars, fc, todo, out, boot, ghostVars>>

(* A writer that trusts the IDLE the last one left in the cache.           *)
SetMutatingUnfenced(t) ==
  /\ Goto(t, "w_mutating", "w_exclude")
  /\ state' = "MUTATING"
  /\ pstate' = pstate \union {"MUTATING"}
  /\ UNCHANGED <<heapVars, backVars, logVars, combVars, boot, i, ghostVars>>

SetMutating(t) ==
  /\ Goto(t, "w_mutating", "w_mutating2")
  /\ state' = "MUTATING"
  /\ pstate' = pstate \union {"MUTATING"}
  /\ UNCHANGED <<heapVars, backVars, logVars, combVars, boot, i, ghostVars>>

(* PWB and the fence that follows a store to state.                        *)
FenceState(t, from, to) ==
  /\ Goto(t, from, to)
  /\ pstate' = {state}
  /\ UNCHANGED <<heapVars, backVars, state, logVars, combVars, boot, i>>

(* The stores of the running request are done, and so is the update of     *)
(* used_size that ends an allocation.                                      *)
StoresDone == todo = <<>> /\ main[0] <= used

RunNext(t) ==
  /\ StoresDone
  /\ i[t] < MaxThreads
  /\ Goto(t, "w_run", "w_run")
  /\ todo' = IF lfc[i[t]] = NONE THEN <<>> ELSE Stores(main, lfc[i[t]])
  /\ out' = [out EXCEPT ![i[t]] = IF lfc[i[t]] = NONE THEN NONE
                                  ELSE Run(View(main), lfc[i[t]])]
  /\ i' = [i EXCEPT ![t] = @ + 1]
  /\ UNCHANGED <<memVars, fc, lfc, boot, ghostVars>>

add_to_log(a) ==
  IF ~logEnabled THEN UNCHANGED logVars
  ELSE IF logSize > work.logLimit
  THEN logEnabled' = FALSE /\ UNCHANGED <<entries, logSize>>
  ELSE /\ logSize' = IF a \in entries THEN logSize ELSE logSize + 1
       /\ entries' = entries \union {a}
       /\ UNCHANGED logEnabled

(* pstore() of the running request.                                        *)
StoreWord(t) ==
  /\ todo # <<>>
  /\ Goto(t, "w_run", "w_run")
  /\ LET e == Head(todo) IN
       /\ main' = [main EXCEPT ![e.a] = e.v]
       /\ pmain' = [pmain EXCEPT ![e.a] = @ \union {e.v}]
       /\ add_to_log(e.a)
  /\ todo' = Tail(todo)
  /\ UNCHANGED <<used, pused, backVars, headVars, fc, lfc, out, boot, i,
                 ghostVars>>

(* The end of alloc().                                                     *)
GrowUsed(t) ==
  /\ todo = <<>> /\ used < main[0]
  /\ Goto(t, "w_run", "w_run")
  /\ used' = main[0]
  /\ pused' = pused \union {main[0]}
  /\ UNCHANGED <<main, pmain, backVars, headVars, logVars, combVars, boot, i,
                 ghostVars>>

-----------------------------------------------------------------------------
(***************************************************************************)
(* The end of ns_write_transaction: main becomes durable, then COPYING,    *)
(* then main is copied to back.                                            *)
(***************************************************************************)
Flushed(p, m, ws) == [a \in Words |-> IF a \in ws THEN {m[a]} ELSE p[a]]

(* apply_pwb(main_addr) and PFENCE, which also completes the PWB of        *)
(* used_size.                                                              *)
FlushMain(t) ==
  /\ StoresDone
  /\ i[t] = MaxThreads
  /\ Goto(t, "w_run", "w_copying")
  /\ pmain' = Flushed(pmain, main, entries)
  /\ pused' = {used}
  /\ i' = [i EXCEPT ![t] = 0]
  /\ UNCHANGED <<main, used, backVars, headVars, logVars, combVars, boot,
                 ghostVars>>

SetCopying(t) ==
  /\ Goto(t, "w_copying", "w_copying2")
  /\ state' = "COPYING"
  /\ pstate' = pstate \union {"COPYING"}
  /\ UNCHANGED <<heapVars, backVars, logVars, combVars, boot, i, ghostVars>>

(* Clearing also the requests that were posted in the meantime.            *)
ClearFcAll(t) ==
  /\ Goto(t, "w_clear", IF i[t] < MaxThreads - 1 THEN "w_clear" ELSE "w_back")
  /\ fc' = [fc EXCEPT ![i[t]] = NONE]
  /\ i' = [i EXCEPT ![t] = (@ + 1) % MaxThreads]
  /\ UNCHANGED <<memVars, lfc, todo, out, boot, ghostVars>>

ClearFc(t) ==
  /\ Goto(t, "w_clear", IF i[t] < MaxThreads - 1 THEN "w_clear" ELSE "w_back")
  /\ fc' = IF lfc[i[t]] = NONE THEN fc ELSE [fc EXCEPT ![i[t]] = NONE]
  /\ i' = [i EXCEPT ![t] = (@ + 1) % MaxThreads]
  /\ UNCHANGED <<memVars, lfc, todo, out, boot, ghostVars>>

(* The words apply_log copies, or copyMainToBack if the log is not whole.  *)
Replicated == IF logEnabled THEN entries ELSE 0 .. used

CopyToBack(t) ==
  /\ Goto(t, "w_back", "w_back2")
  /\ back' = [a \in Words |-> IF a \in Replicated THEN main[a] ELSE back[a]]
  /\ pback' = [a \in Words |-> pback[a] \union {back'[a]}]
  /\ UNCHANGED <<heapVars, headVars, logVars, combVars, boot, i, ghostVars>>

(* The flush of back, clear_log and PFENCE.                                *)
FenceBack(t) ==
  /\ Goto(t, "w_back2", "w_idle")
  /\ pback' = Flushed(pback, back, Replicated)
  /\ entries' = {} /\ logSize' = 0 /\ logEnabled' = TRUE
  /\ UNCHANGED <<heapVars, back, headVars, combVars, boot, i, ghostVars>>

SetIdle(t) ==
  /\ Goto(t, "w_idle", "w_unlock")
  /\ state' = "IDLE"
  /\ pstate' = pstate \union {"IDLE"}
  /\ UNCHANGED <<heapVars, backVars, logVars, combVars, boot, i, ghostVars>>

-----------------------------------------------------------------------------
(***************************************************************************)
(* A crash at any step, recover() included, and recover().                 *)
(***************************************************************************)
Picks(p) == {f \in [Words -> UNION Range(p)] : \A a \in Words : f[a] \in p[a]}

(* What recover() will make of the copies m and b.                         *)
Recovered(m, b, s, u) ==
  IF s = "MUTATING" THEN [a \in Words |-> IF a <= u THEN b[a] ELSE m[a]] ELSE m

RomCrash ==
  /\ work.crashes > 0
  /\ work' = [work EXCEPT !.crashes = @ - 1]
  /\ \E m \in Picks(pmain), b \in Picks(pback), s \in pstate, u \in pused :
       /\ main' = m /\ back' = b /\ state' = s /\ used' = u
       /\ pmain' = Once(m) /\ pback' = Once(b)
       /\ pstate' = {s} /\ pused' = {u}
       /\ hist' = <<View(Recovered(m, b, s, u))>>
  /\ entries' = {} /\ logSize' = 0 /\ logEnabled' = TRUE
  /\ fc' = [t \in Threads |-> NONE] /\ lfc' = fc'
  /\ todo' = <<>> /\ out' = fc'
  /\ boot' = "recover"
  /\ pc' = [t \in Threads |-> "idle"]
  /\ i' = [t \in Threads |-> 0]
  /\ call' = [t \in Threads |-> Call0]
  /\ acked' = 1
  /\ UNCHANGED ret

(* copyMainToBack() or copyBackToMain().                                   *)
RecoverCopy ==
  /\ boot = "recover"
  /\ boot' = IF state = "IDLE" THEN "up" ELSE "fence"
  /\ main' = Recovered(main, back, state, used)
  /\ back' = IF state # "COPYING" THEN back
             ELSE [a \in Words |-> IF a <= used THEN main[a] ELSE back[a]]
  /\ pmain' = [a \in Words |-> pmain[a] \union {main'[a]}]
  /\ pback' = [a \in Words |-> pback[a] \union {back'[a]}]
  /\ UNCHANGED <<used, pused, headVars, logVars, combVars, pc, i, ghostVars>>

RecoverFence ==
  /\ boot = "fence"
  /\ boot' = "idle"
  /\ pmain' = Once(main) /\ pback' = Once(back)
  /\ UNCHANGED <<main, used, pused, back, headVars, logVars, combVars, pc, i,
                 ghostVars>>

RecoverIdle ==
  /\ boot = "idle"
  /\ boot' = "up"
  /\ state' = "IDLE"
  /\ pstate' = pstate \union {"IDLE"}
  /\ UNCHANGED <<heapVars, backVars, logVars, combVars, pc, i, ghostVars>>

Recover == RecoverCopy \/ RecoverFence \/ RecoverIdle
-----------------------------------------------------------------------------
(* What the variables hold.                                                *)
RomTypeOK ==
  /\ {main, back} \subseteq [Words -> Nat]
  /\ {pmain, pback} \subseteq [Words -> SUBSET Nat]
  /\ state \in pstate /\ pstate \subseteq {"IDLE", "MUTATING", "COPYING"}
  /\ used \in pused /\ pused \subseteq Words
  /\ entries \subseteq Words /\ logSize \in Nat /\ logEnabled \in BOOLEAN
  /\ {fc, lfc} \subseteq [Threads -> Words \union {NONE}]
  /\ boot \in {"up", "recover", "fence", "idle"}
  /\ i \in [Threads -> 0 .. MaxThreads]

(* Romulus' idea: at any step, whatever a crash leaves, the copy that      *)
(* recover() will trust is a whole commit that has everything answered so  *)
(* far: one already visible, or the one in main that COPYING announces.    *)
(* That needs a log no transaction outgrows: words it drops are not        *)
(* written back before COPYING is.                                         *)
TrustedCopyWhole ==
  work.logLimit > Blocks =>
  \A s \in pstate, u \in pused, m \in Picks(pmain), b \in Picks(pback) :
    LET r == View(Recovered(m, b, s, u)) IN
    \/ \E n \in acked .. Len(hist) : r = hist[n]
    \/ s = "COPYING" /\ r = View(main)

(* Between transactions the two copies agree, in the caches and in         *)
(* persistent memory, wherever recover() or a reader may look.             *)
TwinsAgree ==
  boot = "up" /\ state = "IDLE" =>
    \A a \in 0 .. used : back[a] = main[a] /\ pback[a] = {main[a]}

(* Between transactions main and back agree, and at any step the one that  *)
(* recovery will trust is a whole commit.                                  *)
CopiesConsistent == RomTypeOK /\ TwinsAgree /\ TrustedCopyWhole

(* A combiner has run each request it clears, and only those: a request    *)
(* that is gone from fc before its thread returned has a result, and so    *)
(* has the combiner's own, also where it finds nothing to do.              *)
ClearedAreDone ==
  \A t \in Threads :
    /\ pc[t] \in {"w_lock", "w_check"} /\ fc[t] = NONE => call[t].took # NONE
    /\ fc[t] # NONE => call[t].op = fc[t]
    /\ pc[t] \in {"w_nothing", "w_unlock"} => call[t].took # NONE

(* Both are durable linearizable stores: flat combining applies each       *)
(* request once, readers see whole commits, and a crash loses nothing that *)
(* was answered.                                                           *)
Abstract == INSTANCE DurableStore WITH
  Store0 <- Heap0,
  Ops <- Words,
  Apply <- Run,
  log <- hist,
  req <- [t \in Threads |-> call[t].op],
  start <- [t \in Threads |-> call[t].from],
  res <- [t \in Threads |-> call[t].took]

DurableTransactions == Abstract!Spec
=============================================================================
