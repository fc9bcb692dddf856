---------------------------- MODULE Romulus_proofs ----------------------------
(***************************************************************************)
(* What RomulusLog and RomulusLR share of their proofs: whatever a crash   *)
(* leaves, recover() finds a whole commit in the copy it trusts, and flat  *)
(* combining clears no request it has not run.                             *)
(*                                                                         *)
(* The writer is the only thread that changes the heap, and what holds of  *)
(* the two copies depends on where it is (Phase): back is the last commit  *)
(* until COPYING is durable, main is from then on, and the log names every *)
(* word in which they differ.  What holds of the requests depends on which *)
(* slots of fc the combiner has passed (Combining).                        *)
(***************************************************************************)
EXTENDS Romulus, FiniteSetTheorems, TLAPS

(* Where the thread with the writers' lock is, by what a crash may leave   *)
(* of state: anything, MUTATING only, both, COPYING only, anything.        *)
Excluding == {"w_exclude", "w_right", "w_right2", "w_right3"}
Mutated == Excluding \union {"w_run", "w_copying"}
Turning == {"w_left2", "w_left3", "w_left4", "w_left5"}
Published == Turning \union {"w_left", "w_clear", "w_back", "w_back2", "w_idle"}
Resting == {"w_collect", "w_nothing", "w_mutating", "w_unlock"}
Critical == Resting \union {"w_mutating2", "w_copying2"} \union Mutated
              \union Published

Reading == {"r_lock", "r_arrive", "r_side", "reading"}
Outside == Reading \union {"idle", "w_lock", "w_check"}

(* Loops over the threads.                                                 *)
Scanning == {"w_collect", "w_right", "w_right3", "w_left2", "w_left4", "w_clear"}

Whole == work.logLimit > Blocks

Results == [Words -> Nat] \union {NONE}
Calls == [op : Words \union {READ, NONE}, from : Nat,
          took : {NONE} \union [at : Nat, val : Results]]

-----------------------------------------------------------------------------
HeapTypes ==
  /\ main \in [Words -> Nat] /\ main[0] \in Words
  /\ back \in [Words -> Nat] /\ back[0] \in Words
  /\ pmain \in [Words -> SUBSET Nat] /\ pmain[0] \subseteq Words
  /\ pback \in [Words -> SUBSET Nat] /\ pback[0] \subseteq Words
  /\ \A a \in Words : main[a] \in pmain[a] /\ back[a] \in pback[a]
  /\ state \in pstate /\ pstate \subseteq {"IDLE", "MUTATING", "COPYING"}
  /\ used \in pused /\ pused \subseteq Words

LogTypes ==
  /\ entries \subseteq Words /\ logSize = Cardinality(entries)
  /\ logEnabled \in BOOLEAN
  /\ Whole => logEnabled

PlaceTypes ==
  /\ boot \in {"up", "recover", "fence", "idle"}
  /\ pc \in [Threads -> Critical \union Outside]
  /\ i \in [Threads -> 0 .. MaxThreads]
  /\ \A t \in Threads :
       /\ pc[t] \in Scanning => i[t] \in Threads
       /\ pc[t] \notin Scanning \union {"w_run"} => i[t] = 0

CallTypes ==
  /\ fc \in [Threads -> Words \union {NONE}]
  /\ lfc \in [Threads -> Words \union {NONE}]
  /\ out \in [Threads -> Results]
  /\ hist \in Seq([Words -> Nat]) /\ acked \in Nat
  /\ 1 <= acked /\ acked <= Len(hist)
  /\ call \in [Threads -> Calls]
  /\ \A t \in Threads : call[t].took # NONE => call[t].took.at <= Len(hist)
                                               /\ 1 <= call[t].took.at
  /\ work \in Workload /\ (work.crashes = 0 \/ Whole)

-----------------------------------------------------------------------------
Last(s) == s[Len(s)]

Agree(a) == back[a] = main[a]
Twins == \A a \in 0 .. used : Agree(a)
MainFlushed == \A a \in Words : pmain[a] = {main[a]}
BackFlushed == \A a \in Words : pback[a] = {back[a]}

(* The words the running request has not stored yet, and those in which    *)
(* main may differ from back.                                              *)
Pending == {todo[n].a : n \in DOMAIN todo}
Logged ==
  logEnabled => \A a \in (0 .. used) \union (0 .. main[0]) :
                  a \in entries \union Pending \/ Agree(a)

(* What is left of one request: nothing, a store to a block, or the two of *)
(* an allocation.                                                          *)
Todo ==
  \/ todo = <<>>
  \/ \E w \in Words \ {0} : \E v \in {1, main[w] + 1} : todo = <<[a |-> w, v |-> v]>>
  \/ main[0] < Blocks /\ todo = <<[a |-> 0, v |-> main[0] + 1],
                                  [a |-> main[0] + 1, v |-> 1]>>

(* The copies when the writer is at p, "w_unlock" when there is none.      *)
PhaseState(p) ==
  /\ p \in Resting => state = "IDLE"
  /\ p \in Mutated \union {"w_mutating2"} => state = "MUTATING"
  /\ p \in Published \union {"w_copying2"} => state = "COPYING"
  /\ p \in Mutated => pstate = {"MUTATING"}
  /\ p = "w_copying2" => pstate \subseteq {"MUTATING", "COPYING"}
  /\ p \in Published => pstate = {"COPYING"}

PhaseLog(p) ==
  /\ Logged
  /\ p = "w_run" => Todo
  /\ p # "w_run" => todo = <<>> /\ pused = {used} /\ main[0] <= used
  /\ p \in Resting \union Excluding \union {"w_mutating2", "w_idle"} =>
       entries = {} /\ logEnabled
  /\ p = "w_back2" => Twins

PhaseMain(p) ==
  /\ Whole => \A a \in Words : pmain[a] = {main[a]} \/ (p = "w_run" /\ a \in entries)
  /\ p \in (Resting \union Published) \ {"w_left"} => Last(hist) = View(main)

PhaseBack(p) ==
  /\ \A a \in Words : pback[a] = {back[a]} \/ (p = "w_back2" /\ a \in Replicated)
  /\ p \in Mutated \union {"w_mutating2", "w_copying2", "w_left"} =>
       Last(hist) = View(back) /\ \A u \in pused : back[0] <= u

Phase(p) == PhaseState(p) /\ PhaseLog(p) /\ PhaseMain(p) /\ PhaseBack(p)

(* The copies before and during recover().                                 *)
Booting ==
  /\ Whole /\ pstate = {state} /\ pused = {used}
  /\ entries = {} /\ logEnabled /\ todo = <<>> /\ Len(hist) = 1
  /\ boot = "recover" =>
       /\ MainFlushed /\ BackFlushed
       /\ hist[1] = View(Recovered(main, back, state, used))
       /\ state = "IDLE" => Twins
       /\ state # "MUTATING" => main[0] <= used
       /\ state = "MUTATING" => back[0] <= used
  /\ boot # "recover" => Twins /\ main[0] <= used /\ hist[1] = View(main)
                         /\ state # "IDLE"
  /\ boot = "fence" => IF state = "MUTATING" THEN BackFlushed ELSE MainFlushed
  /\ boot = "idle" => MainFlushed /\ BackFlushed

At(p) == \/ \E t \in Threads : pc[t] = p
         \/ p = "w_unlock" /\ \A t \in Threads : pc[t] \notin Critical

Copies ==
  /\ boot = "up" => \A p \in Critical : At(p) => Phase(p)
  /\ boot # "up" => Booting /\ \A t \in Threads : pc[t] = "idle"

-----------------------------------------------------------------------------
(* The slots of fc the combiner h has copied to lfc, and those it has      *)
(* cleared again.                                                          *)
Collected(h, u) == pc[h] # "w_collect" \/ u < i[h]
Cleared(h, u) ==
  \/ pc[h] \in {"w_back", "w_back2", "w_idle", "w_unlock"}
  \/ pc[h] = "w_clear" /\ u < i[h]

(* A request it collected stays posted until it clears it, and has taken   *)
(* effect by then; its own is among them, or was done before.              *)
Combining(h) ==
  /\ \A u \in Threads :
       Collected(h, u) /\ ~Cleared(h, u) /\ lfc[u] # NONE =>
         /\ fc[u] = lfc[u]
         /\ pc[h] \in Turning \union {"w_clear"} => call[u].took # NONE
  /\ Collected(h, h) /\ lfc[h] = NONE => fc[h] = NONE
  /\ Cleared(h, h) => fc[h] = NONE
  /\ pc[h] = "w_nothing" => lfc[h] = NONE

Requests ==
  \A t \in Threads :
    /\ fc[t] # NONE => call[t].op = fc[t]
    /\ pc[t] \in Reading \union {"idle"} => fc[t] = NONE
    /\ pc[t] \notin Reading \union {"idle"} /\ fc[t] = NONE => call[t].took # NONE
    /\ pc[t] \in Critical => Combining(t)

RInv ==
  HeapTypes /\ LogTypes /\ PlaceTypes /\ CallTypes /\ Copies /\ Requests

(* What the locks of the two give: a writer is alone.                      *)
Alone ==
  \A t, u \in Threads : pc[t] \in Critical /\ pc[u] \in Critical => t = u

-----------------------------------------------------------------------------
(* The operators of the heap.                                              *)
LEMMA SizeFacts ==
  /\ MaxThreads \in Nat \ {0} /\ Blocks \in Nat
  /\ 0 \in Words /\ \A a \in Words : a \in Nat /\ a <= Blocks
  /\ 0 \in Threads /\ 0 \in 0 .. MaxThreads
  /\ NONE \notin Words /\ NONE \notin Threads /\ READ \notin Words /\ READ # NONE
  /\ NONE \notin [at : Nat, val : Results]
BY RomulusAssumption DEF Words, Threads, Results

LEMMA ThreadFacts ==
  \A n \in Threads : /\ n \in Nat /\ n <= MaxThreads - 1
                     /\ n \in 0 .. MaxThreads /\ n + 1 \in 0 .. MaxThreads
                     /\ n < MaxThreads - 1 => n + 1 \in Threads
                     /\ n # MaxThreads - 1 => n + 1 \in Threads
BY SizeFacts DEF Threads

LEMMA Passed ==
  \A n, u \in Threads : u < n + 1 <=> u < n \/ u = n
BY ThreadFacts

(* The index of a loop that ends with % MaxThreads.                        *)
LEMMA Wraps ==
  \A n \in Threads :
    /\ n < MaxThreads - 1 => (n + 1) % MaxThreads = n + 1
    /\ ~(n < MaxThreads - 1) => (n + 1) % MaxThreads = 0
<1> SUFFICES ASSUME NEW n \in Threads
             PROVE  /\ n < MaxThreads - 1 => (n + 1) % MaxThreads = n + 1
                    /\ ~(n < MaxThreads - 1) => (n + 1) % MaxThreads = 0
  OBVIOUS
<1>1. CASE n < MaxThreads - 1
  BY <1>1, SizeFacts DEF Threads
<1>2. CASE n = MaxThreads - 1
  BY <1>2, SizeFacts DEF Threads
<1>3. QED
  BY <1>1, <1>2, SizeFacts DEF Threads

LEMMA ViewType ==
  ASSUME NEW m \in [Words -> Nat]
  PROVE  View(m) \in [Words -> Nat]
BY SizeFacts DEF View

(* What is beyond the blocks in use does not show.                         *)
LEMMA SameView ==
  ASSUME NEW m \in [Words -> Nat], NEW n \in [Words -> Nat], m[0] = n[0],
         \A a \in Words : a <= m[0] => m[a] = n[a]
  PROVE  View(m) = View(n)
BY DEF View

LEMMA StoresType ==
  ASSUME NEW m \in [Words -> Nat], NEW op \in Words, NEW e \in Range(Stores(m, op))
  PROVE  e.v \in Nat
<1>1. CASE Stores(m, op) = <<[a |-> 0, v |-> m[0] + 1], [a |-> m[0] + 1, v |-> 1]>>
  BY <1>1, SizeFacts DEF Range
<1>2. CASE Stores(m, op) = <<[a |-> op, v |-> m[op] + 1]>>
  BY <1>2, SizeFacts DEF Range
<1>3. CASE Stores(m, op) = <<>>
  BY <1>3 DEF Range
<1>4. QED
  BY <1>1, <1>2, <1>3 DEF Stores

LEMMA RunType ==
  ASSUME NEW m \in [Words -> Nat], NEW op \in Words
  PROVE  Run(m, op) \in [Words -> Nat]
<1> DEFINE s == Stores(m, op)
           r(a) == IF \E n \in DOMAIN s : s[n].a = a
                   THEN (CHOOSE e \in Range(s) : e.a = a).v ELSE m[a]
<1>1. ASSUME NEW a \in Words PROVE r(a) \in Nat
  <2>1. CASE \E n \in DOMAIN s : s[n].a = a
    <3>1. \E e \in Range(s) : e.a = a
      BY <2>1 DEF Range
    <3>2. (CHOOSE e \in Range(s) : e.a = a) \in Range(s)
      BY <3>1
    <3>3. QED
      BY <2>1, <3>2, StoresType
  <2>2. QED
    BY <2>1
<1>2. op # READ
  BY SizeFacts
<1>3. Run(m, op) = [a \in Words |-> r(a)]
  BY <1>2 DEF Run
<1> HIDE DEF r
<1>4. QED
  BY <1>1, <1>3

LEMMA PicksType ==
  ASSUME NEW p \in [Words -> SUBSET Nat], NEW f \in Picks(p)
  PROVE  f \in [Words -> Nat] /\ \A a \in Words : f[a] \in p[a]
<1>1. UNION Range(p) \subseteq Nat
  BY DEF Range
<1>2. QED
  BY <1>1 DEF Picks

LEMMA RecoveredType ==
  ASSUME NEW m \in [Words -> Nat], NEW b \in [Words -> Nat], NEW s, NEW u
  PROVE  Recovered(m, b, s, u) \in [Words -> Nat]
BY DEF Recovered

(* Where recover() takes back for main, it shows what back did.            *)
LEMMA RecoveredBack ==
  ASSUME NEW m \in [Words -> Nat], NEW b \in [Words -> Nat], NEW u \in Words,
         b[0] <= u
  PROVE  /\ View(Recovered(m, b, "MUTATING", u)) = View(b)
         /\ Recovered(m, b, "MUTATING", u)[0] = b[0]
<1>1. \A a \in Words : a <= b[0] => Recovered(m, b, "MUTATING", u)[a] = b[a]
  BY SizeFacts DEF Recovered
<1>2. Recovered(m, b, "MUTATING", u)[0] = b[0]
  BY <1>1, SizeFacts
<1>3. QED
  BY <1>1, <1>2, SameView, RecoveredType

-----------------------------------------------------------------------------
(* Nothing the phase is about changes, and the writer goes on to a place   *)
(* of the same phase or of a weaker one.                                   *)
LEMMA PhaseMoves ==
  ASSUME NEW p, NEW q, Phase(p), UNCHANGED <<memVars, todo, hist>>, Whole' = Whole,
         \/ q = p
         \/ {p, q} \subseteq Resting
         \/ p \in Excluding /\ q \in Excluding \union {"w_run"}
         \/ p \in Turning \union {"w_clear"} /\ q \in Turning \union {"w_clear", "w_back"}
  PROVE  Phase(q)'
<1> USE DEF Phase, memVars, heapVars, backVars, headVars, logVars, Resting,
            Excluding, Turning, Published, Mutated
<1>1. PhaseState(q)'
  BY DEF PhaseState
<1>2. PhaseLog(q)'
  <2>1. Logged' /\ (Twins => Twins')
    BY DEF PhaseLog, Logged, Twins, Agree, Pending
  <2>2. Todo <=> Todo'
    BY DEF Todo
  <2>3. p # "w_run" /\ todo = <<>> => Todo'
    BY DEF Todo
  <2>4. QED
    BY <2>1, <2>2, <2>3 DEF PhaseLog
<1>3. PhaseMain(q)'
  BY DEF PhaseMain, Last
<1>4. PhaseBack(q)'
  BY DEF PhaseBack, Last, Replicated
<1>5. QED
  BY <1>1, <1>2, <1>3, <1>4

(* A step of the writer.                                                   *)
LEMMA WriterStep ==
  ASSUME RInv, Alone, boot = "up", boot' = "up", NEW t \in Threads,
         pc[t] \in Critical, NEW to \in Critical \union Outside,
         pc' = [pc EXCEPT ![t] = to],
         HeapTypes', LogTypes', PlaceTypes', CallTypes', Requests',
         to \in Critical => Phase(to)',
         to \notin Critical => Phase("w_unlock")'
  PROVE  RInv'
<1>1. ASSUME NEW p \in Critical, At(p)' PROVE Phase(p)'
  <2>1. pc \in [Threads -> Critical \union Outside]
    BY DEF RInv, PlaceTypes
  <2>2. CASE \E u \in Threads : pc'[u] = p
    <3>1. PICK u \in Threads : pc'[u] = p
      BY <2>2
    <3>2. u = t
      BY <2>1, <3>1 DEF Alone
    <3>3. QED
      BY <2>1, <3>1, <3>2
  <2>3. CASE p = "w_unlock" /\ \A u \in Threads : pc'[u] \notin Critical
    BY <2>1, <2>3
  <2>4. QED
    BY <1>1, <2>2, <2>3 DEF At
<1>2. QED
  BY <1>1 DEF RInv, Copies

(* A step of a thread that does not have the lock, or that takes it.       *)
LEMMA BystanderStep ==
  ASSUME RInv, boot = "up", boot' = "up", NEW t \in Threads,
         pc[t] \notin Critical, NEW to \in Outside \union {"w_collect"},
         pc' = [pc EXCEPT ![t] = to],
         to = "w_collect" => \A u \in Threads : pc[u] \notin Critical,
         UNCHANGED <<memVars, todo, hist>>, Whole' = Whole,
         PlaceTypes', CallTypes', Requests'
  PROVE  RInv'
<1>1. HeapTypes' /\ LogTypes'
  BY DEF RInv, HeapTypes, LogTypes, memVars, heapVars, backVars, headVars, logVars
<1>2. ASSUME NEW p \in Critical, At(p)' PROVE Phase(p)'
  <2>1. pc \in [Threads -> Critical \union Outside]
    BY DEF RInv, PlaceTypes
  <2>2. ASSUME At(p) PROVE Phase(p)'
    BY <2>2, PhaseMoves DEF RInv, Copies
  <2>3. CASE \E u \in Threads : pc'[u] = p
    <3>1. PICK u \in Threads : pc'[u] = p
      BY <2>3
    <3>2. CASE u = t /\ to = "w_collect"
      <4>1. p = "w_collect" /\ At("w_unlock")
        BY <2>1, <3>1, <3>2 DEF At
      <4>2. Phase("w_unlock")
        BY <4>1 DEF RInv, Copies, Critical, Resting
      <4>3. QED
        BY <4>1, <4>2, PhaseMoves DEF Resting
    <3>3. CASE u = t /\ to # "w_collect"
      BY <1>2, <2>1, <3>1, <3>3 DEF Outside, Reading, Critical, Resting, Mutated,
                               Excluding, Published, Turning
    <3>4. CASE u # t
      BY <2>1, <2>2, <3>1, <3>4 DEF At
    <3>5. QED
      BY <3>2, <3>3, <3>4
  <2>4. CASE p = "w_unlock" /\ \A u \in Threads : pc'[u] \notin Critical
    <3>1. \A u \in Threads : pc[u] \notin Critical
      BY <2>1, <2>4
    <3>2. QED
      BY <2>2, <2>4, <3>1 DEF At
  <2>5. QED
    BY <1>2, <2>3, <2>4 DEF At
<1>3. QED
  BY <1>1, <1>2 DEF RInv, Copies

LEMMA PlaceKept ==
  ASSUME PlaceTypes, NEW t \in Threads, NEW to \in Critical \union Outside,
         pc' = [pc EXCEPT ![t] = to], boot' = boot,
         i' \in [Threads -> 0 .. MaxThreads],
         \A u \in Threads \ {t} : i'[u] = i[u],
         to \in Scanning => i'[t] \in Threads,
         to \notin Scanning \union {"w_run"} => i'[t] = 0
  PROVE  PlaceTypes'
BY DEF PlaceTypes

LEMMA BystanderRequests ==
  ASSUME RInv, NEW t \in Threads, pc[t] \notin Critical,
         NEW to \in Outside \union {"w_collect"}, pc' = [pc EXCEPT ![t] = to],
         lfc' = lfc, to = "w_collect" => i'[t] = 0,
         \A u \in Threads \ {t} :
           fc'[u] = fc[u] /\ call'[u] = call[u] /\ i'[u] = i[u],
         fc[t] = NONE \/ (fc'[t] = fc[t] /\ call'[t] = call[t]),
         fc'[t] # NONE => call'[t].op = fc'[t],
         to \in Reading \union {"idle"} => fc'[t] = NONE,
         to \notin Reading \union {"idle"} /\ fc'[t] = NONE => call'[t].took # NONE
  PROVE  Requests'
<1>1. pc \in [Threads -> Critical \union Outside]
  BY DEF RInv, PlaceTypes
<1>2. ASSUME NEW u \in Threads, pc'[u] \in Critical
      PROVE  Combining(u)'
  <2>1. CASE u = t
    <3>1. pc'[t] = "w_collect" /\ i'[t] = 0
      BY <1>1, <1>2, <2>1 DEF Outside, Reading, Critical, Resting, Mutated,
                              Excluding, Published, Turning
    <3>2. \A w \in Threads : ~Collected(t, w)' /\ ~Cleared(t, w)'
      <4>1. \A w \in Threads : ~(w < 0)
        BY ThreadFacts
      <4>2. QED
        BY <3>1, <4>1 DEF Collected, Cleared
    <3>3. QED
      BY <2>1, <3>1, <3>2 DEF Combining
  <2>2. CASE u # t
    <3>1. Combining(u) /\ pc'[u] = pc[u] /\ i'[u] = i[u]
      BY <1>1, <1>2, <2>2 DEF RInv, Requests
    <3>2. \A w \in Threads : /\ Collected(u, w)' = Collected(u, w)
                             /\ Cleared(u, w)' = Cleared(u, w)
      BY <3>1 DEF Collected, Cleared
    <3>3. \A w \in Threads : fc[w] # NONE \/ w # t =>
                               fc'[w] = fc[w] /\ call'[w] = call[w]
      OBVIOUS
    <3>4. ASSUME NEW w \in Threads, Collected(u, w), ~Cleared(u, w), lfc[w] # NONE
          PROVE  /\ fc'[w] = lfc[w]
                 /\ pc[u] \in Turning \union {"w_clear"} => call'[w].took # NONE
      BY <3>1, <3>3, <3>4 DEF Combining
    <3>5. QED
      BY <2>2, <3>1, <3>2, <3>3, <3>4 DEF Combining
  <2>3. QED
    BY <2>1, <2>2
<1>3. QED
  BY <1>1, <1>2 DEF RInv, Requests

LEMMA WriterRequests ==
  ASSUME RInv, Alone, NEW t \in Threads, pc[t] \in Critical,
         NEW to \in Critical \union Outside, pc' = [pc EXCEPT ![t] = to],
         \A u \in Threads \ {t} :
           /\ fc'[u] # NONE => call'[u].op = fc'[u]
           /\ fc[u] = NONE => fc'[u] = NONE
           /\ fc'[u] = NONE => fc[u] = NONE \/ call'[u].took # NONE
           /\ call[u].took # NONE => call'[u].took # NONE,
         fc'[t] # NONE => call'[t].op = fc'[t],
         to \in Reading \union {"idle"} => fc'[t] = NONE,
         to \notin Reading \union {"idle"} /\ fc'[t] = NONE => call'[t].took # NONE,
         to \in Critical => Combining(t)'
  PROVE  Requests'
<1>1. pc \in [Threads -> Critical \union Outside]
  BY DEF RInv, PlaceTypes
<1>2. \A u \in Threads : pc'[u] \in Critical => u = t
  BY <1>1 DEF Alone
<1>3. QED
  BY <1>1, <1>2 DEF RInv, Requests

(* The writer's requests while neither fc nor lfc nor a call changes.      *)
LEMMA CombiningKept ==
  ASSUME RInv, NEW t \in Threads, pc[t] \in Critical, NEW to \in Critical,
         pc' = [pc EXCEPT ![t] = to], i'[t] = 0 \/ to \notin {"w_collect", "w_clear"},
         UNCHANGED <<fc, lfc, call>>,
         pc[t] \notin {"w_collect", "w_clear"}, to # "w_collect",
         to \in Turning \union {"w_clear"} => pc[t] \in Turning,
         to = "w_nothing" => FALSE,
         to \in {"w_back", "w_back2", "w_idle", "w_unlock"} <=>
           pc[t] \in {"w_back", "w_back2", "w_idle", "w_unlock"}
  PROVE  Combining(t)'
<1>1. pc \in [Threads -> Critical \union Outside] /\ pc'[t] = to
  BY DEF RInv, PlaceTypes
<1>2. Combining(t)
  BY DEF RInv, Requests
<1>3. \A u \in Threads : Collected(t, u) /\ Collected(t, u)'
  BY <1>1 DEF Collected
<1>4. \A u \in Threads : Cleared(t, u)' <=> Cleared(t, u)
  <2>1. \A u \in Threads : ~(u < 0)
    BY ThreadFacts
  <2>2. QED
    BY <1>1, <2>1 DEF Cleared
<1>5. QED
  BY <1>1, <1>2, <1>3, <1>4 DEF Combining

(* The writer moves on and touches no request: one conjunct for all.       *)
LEMMA WriterKeepsRequests ==
  ASSUME RInv, Alone, NEW t \in Threads, pc[t] \in Critical, NEW to \in Critical,
         pc' = [pc EXCEPT ![t] = to], UNCHANGED <<fc, lfc, call>>,
         Combining(t)'
  PROVE  Requests'
<1>1. to \notin Reading \union {"idle"} /\ pc[t] \notin Reading \union {"idle"}
  BY DEF Critical, Resting, Mutated, Excluding, Published, Turning, Reading
<1>2. /\ \A u \in Threads : fc[u] # NONE => call[u].op = fc[u]
      /\ fc[t] = NONE => call[t].took # NONE
  BY <1>1 DEF RInv, Requests
<1>3. QED
  BY <1>1, <1>2, WriterRequests

(* A writer or a thread that finds its request gone has an answer.         *)
LEMMA Answered ==
  ASSUME RInv, NEW t \in Threads,
         \/ pc[t] \in {"w_nothing", "w_unlock"}
         \/ pc[t] \in {"w_lock", "w_check"} /\ fc[t] = NONE
  PROVE  /\ fc[t] = NONE /\ call[t].took # NONE
         /\ call[t].took.at \in Nat /\ call[t].took.at <= Len(hist)
<1>1. pc[t] \in {"w_nothing", "w_unlock"} => Combining(t) /\ pc[t] # "w_collect"
  BY DEF RInv, Requests, Critical, Resting
<1>2. fc[t] = NONE
  BY <1>1 DEF Combining, Collected, Cleared
<1>3. call[t].took # NONE
  BY <1>2 DEF RInv, Requests, Reading
<1>4. QED
  BY <1>2, <1>3 DEF RInv, CallTypes, Calls

LEMMA CloseTypes ==
  ASSUME RInv, NEW t \in Threads, NEW val, NEW at \in Nat, at <= Len(hist),
         Close(t, val, at), UNCHANGED <<fc, lfc, out>>
  PROVE  CallTypes' /\ Whole' = Whole
<1>1. Call0 \in Calls /\ Call0.took = NONE
  BY DEF Call0, Calls
<1>2. acked' \in Nat /\ 1 <= acked' /\ acked' <= Len(hist)
  BY DEF Close, RInv, CallTypes
<1>3. QED
  BY <1>1, <1>2 DEF Close, RInv, CallTypes, Whole

LEMMA OpenTypes ==
  ASSUME RInv, NEW t \in Threads, NEW op \in Words \union {READ}, Open(t, op),
         fc' \in [Threads -> Words \union {NONE}], UNCHANGED <<lfc, out>>
  PROVE  CallTypes' /\ Whole' = Whole
<1>1. Len(hist) \in Nat
  BY DEF RInv, CallTypes
<1>2. [Call0 EXCEPT !.op = op, !.from = Len(hist)] \in Calls
  BY <1>1 DEF Call0, Calls
<1>3. [Call0 EXCEPT !.op = op, !.from = Len(hist)].took = NONE
  BY DEF Call0
<1>4. /\ work' \in Workload /\ work'.crashes = work.crashes
      /\ work'.logLimit = work.logLimit
  <2>1. work \in Workload /\ work.budget[t] \in Nat /\ work.budget[t] - 1 \in Nat
    BY DEF Open, RInv, CallTypes, Workload
  <2>2. work' = [work EXCEPT !.budget = [work.budget EXCEPT ![t] = work.budget[t] - 1]]
    BY <2>1 DEF Open, Workload
  <2>3. QED
    BY <2>1, <2>2 DEF Workload
<1>5. Whole' = Whole
  BY <1>4 DEF Whole
<1>6. call' \in [Threads -> Calls] /\ hist' = hist /\ acked' = acked
  BY <1>2 DEF Open, RInv, CallTypes
<1>7. \A u \in Threads : call'[u].took # NONE => call'[u].took.at <= Len(hist)
                                                 /\ 1 <= call'[u].took.at
  BY <1>3 DEF Open, RInv, CallTypes
<1>8. QED
  BY <1>4, <1>5, <1>6, <1>7 DEF RInv, CallTypes

LEMMA HeapSame ==
  ASSUME RInv, UNCHANGED memVars, Whole' = Whole
  PROVE  HeapTypes' /\ LogTypes'
BY DEF RInv, HeapTypes, LogTypes, memVars, heapVars, backVars, headVars, logVars

(* A thread that goes from one place to another and changes nothing else   *)
(* but its index, and one that ends a call.                                *)
LEMMA BystanderGoes ==
  ASSUME RInv, NEW t \in Threads, boot = "up", pc[t] \notin Critical,
         NEW to \in Outside \union {"w_collect"}, pc' = [pc EXCEPT ![t] = to],
         to = "w_collect" => \A u \in Threads : pc[u] \notin Critical,
         pc[t] \in Reading \union {"idle"} <=> to \in Reading \union {"idle"},
         UNCHANGED <<memVars, combVars, boot, i, ghostVars>>
  PROVE  RInv'
<1> USE DEF combVars, ghostVars
<1>1. pc[t] \in Outside /\ i[t] = 0 /\ i \in [Threads -> 0 .. MaxThreads]
  BY DEF RInv, PlaceTypes, Outside, Reading, Scanning
<1>2. CallTypes' /\ Whole' = Whole
  BY DEF RInv, CallTypes, Whole
<1>3. PlaceTypes'
  BY <1>1, PlaceKept, SizeFacts DEF RInv, Critical, Resting
<1>4. Requests'
  <2>1. fc[t] # NONE => call[t].op = fc[t]
    BY DEF RInv, Requests
  <2>2. pc[t] \in Reading \union {"idle"} => fc[t] = NONE
    BY DEF RInv, Requests
  <2>3. pc[t] \notin Reading \union {"idle"} /\ fc[t] = NONE => call[t].took # NONE
    BY DEF RInv, Requests
  <2>4. QED
    BY <1>1, <2>1, <2>2, <2>3, BystanderRequests
<1>5. QED
  BY <1>2, <1>3, <1>4, BystanderStep

LEMMA PostStep ==
  ASSUME RInv, NEW t \in Threads, NEW op \in Words, Post(t, op)
  PROVE  RInv'
<1> USE DEF Post, Goto, Outside, Reading
<1>1. pc[t] = "idle" /\ fc[t] = NONE /\ i[t] = 0 /\ i \in [Threads -> 0 .. MaxThreads]
  BY DEF RInv, Requests, PlaceTypes, Scanning
<1>2. pc[t] \notin Critical
  BY <1>1 DEF Critical, Resting, Mutated, Excluding, Published, Turning
<1>3. fc' \in [Threads -> Words \union {NONE}] /\ fc'[t] = op /\ op # NONE
  BY SizeFacts DEF RInv, CallTypes
<1>4. CallTypes' /\ Whole' = Whole
  BY <1>3, OpenTypes
<1>5. PlaceTypes'
  BY <1>1, PlaceKept, SizeFacts DEF RInv, Scanning
<1>6. Requests'
  <2>1. call'[t].op = op /\ \A u \in Threads \ {t} : call'[u] = call[u] /\ fc'[u] = fc[u]
    BY DEF Open, Call0, RInv, CallTypes
  <2>2. QED
    BY <1>1, <1>2, <1>3, <2>1, BystanderRequests
<1>7. QED
  BY <1>2, <1>4, <1>5, <1>6, BystanderStep DEF Open

LEMMA CheckFcStep ==
  ASSUME RInv, NEW t \in Threads, CheckFc(t)
  PROVE  RInv'
<1> USE DEF CheckFc, Goto, Outside, Reading
<1>1. pc[t] = "w_check" /\ i[t] = 0 /\ i \in [Threads -> 0 .. MaxThreads]
  BY DEF RInv, PlaceTypes, Scanning
<1>2. pc[t] \notin Critical
  BY <1>1 DEF Critical, Resting, Mutated, Excluding, Published, Turning
<1>3. CASE fc[t] = NONE
  <2>1. CallTypes' /\ Whole' = Whole
    BY <1>1, <1>3, Answered, CloseTypes DEF Return, combVars
  <2>2. PlaceTypes'
    BY <1>1, <1>3, PlaceKept, SizeFacts DEF RInv, Scanning
  <2>3. Requests'
    <3>1. /\ \A u \in Threads \ {t} : call'[u] = call[u]
          /\ fc' = fc /\ lfc' = lfc /\ i' = i
      BY <1>3 DEF Return, Close, combVars, RInv, CallTypes
    <3>2. QED
      BY <1>2, <1>3, <3>1, BystanderRequests
  <2>4. QED
    BY <1>2, <1>3, <2>1, <2>2, <2>3, BystanderStep DEF Return, Close, combVars
<1>4. CASE fc[t] # NONE
  BY <1>1, <1>2, <1>4, BystanderGoes
<1>5. QED
  BY <1>3, <1>4

(* A reader begins, and ends with a commit that is visible.                *)
LEMMA OpenReadStep ==
  ASSUME RInv, NEW t \in Threads, NEW to \in Reading, Goto(t, "idle", to),
         Open(t, READ), UNCHANGED <<memVars, combVars, boot, i>>
  PROVE  RInv'
<1> USE DEF Goto, Outside, Reading, combVars
<1>1. pc[t] = "idle" /\ fc[t] = NONE /\ i[t] = 0 /\ i \in [Threads -> 0 .. MaxThreads]
  BY DEF RInv, Requests, PlaceTypes, Scanning
<1>2. pc[t] \notin Critical
  BY <1>1 DEF Critical, Resting, Mutated, Excluding, Published, Turning
<1>3. CallTypes' /\ Whole' = Whole
  BY OpenTypes DEF RInv, CallTypes
<1>4. PlaceTypes'
  BY <1>1, PlaceKept, SizeFacts DEF RInv, Scanning
<1>5. Requests'
  <2>1. \A u \in Threads \ {t} : call'[u] = call[u]
    BY DEF Open, RInv, CallTypes
  <2>2. QED
    BY <1>1, <1>2, <2>1, BystanderRequests
<1>6. QED
  BY <1>2, <1>3, <1>4, <1>5, BystanderStep DEF Open

LEMMA CloseReadStep ==
  ASSUME RInv, NEW t \in Threads, Goto(t, "reading", "idle"), NEW val,
         NEW at \in Nat, at <= Len(hist), Close(t, val, at),
         UNCHANGED <<memVars, combVars, boot, i>>
  PROVE  RInv'
<1> USE DEF Goto, Outside, Reading, combVars
<1>1. pc[t] = "reading" /\ fc[t] = NONE /\ i[t] = 0 /\ i \in [Threads -> 0 .. MaxThreads]
  BY DEF RInv, Requests, PlaceTypes, Scanning
<1>2. pc[t] \notin Critical
  BY <1>1 DEF Critical, Resting, Mutated, Excluding, Published, Turning
<1>3. CallTypes' /\ Whole' = Whole
  BY CloseTypes
<1>4. PlaceTypes'
  BY <1>1, PlaceKept, SizeFacts DEF RInv, Scanning
<1>5. Requests'
  <2>1. \A u \in Threads \ {t} : call'[u] = call[u]
    BY DEF Close, RInv, CallTypes
  <2>2. QED
    BY <1>1, <1>2, <2>1, BystanderRequests
<1>6. QED
  BY <1>2, <1>3, <1>4, <1>5, BystanderStep DEF Close

-----------------------------------------------------------------------------
(* The writer's steps that touch no copy.                                  *)
LEMMA WriterGoes ==
  ASSUME RInv, Alone, boot = "up", NEW t \in Threads, NEW to,
         \/ pc[t] \in Excluding /\ to \in Excluding \union {"w_run"}
         \/ pc[t] \in Turning /\ to \in Turning \union {"w_clear"},
         pc' = [pc EXCEPT ![t] = to],
         i' \in [Threads -> 0 .. MaxThreads],
         \A u \in Threads \ {t} : i'[u] = i[u],
         to \in Scanning => i'[t] \in Threads,
         to \notin Scanning \/ to = "w_clear" => i'[t] = 0,
         UNCHANGED <<memVars, combVars, boot, ghostVars>>
  PROVE  RInv'
<1> USE DEF combVars, ghostVars
<1>1. /\ pc[t] \in Critical /\ to \in Critical
      /\ pc[t] \notin {"w_collect", "w_clear", "w_back", "w_back2", "w_idle", "w_unlock"}
      /\ to \notin {"w_collect", "w_nothing", "w_back", "w_back2", "w_idle", "w_unlock"}
      /\ to \in Turning \union {"w_clear"} => pc[t] \in Turning
  BY DEF Critical, Mutated, Excluding, Published, Turning
<1>2. CallTypes' /\ Whole' = Whole
  BY DEF RInv, CallTypes, Whole
<1>3. PlaceTypes'
  BY <1>1, PlaceKept DEF RInv
<1>4. Phase(to)'
  <2>1. Phase(pc[t])
    BY <1>1 DEF RInv, Copies, At
  <2>2. QED
    BY <1>2, <2>1, PhaseMoves
<1>5. Combining(t)'
  BY <1>1, CombiningKept
<1>6. Requests'
  BY <1>1, <1>5, WriterKeepsRequests
<1>7. QED
  BY <1>1, <1>2, <1>3, <1>4, <1>6, HeapSame, WriterStep

LEMMA CollectStep ==
  ASSUME RInv, Alone, NEW t \in Threads, Collect(t)
  PROVE  RInv'
<1> USE DEF Collect, Goto
<1>1. /\ pc[t] = "w_collect" /\ pc[t] \in Critical /\ i[t] \in Threads
      /\ pc \in [Threads -> Critical \union Outside]
      /\ i \in [Threads -> 0 .. MaxThreads]
  BY DEF RInv, PlaceTypes, Scanning, Critical, Resting
<1>2. PICK to \in {"w_collect", "w_nothing", "w_mutating"} :
        /\ pc' = [pc EXCEPT ![t] = to]
        /\ i[t] < MaxThreads - 1 => to = "w_collect" /\ i'[t] = i[t] + 1
        /\ ~(i[t] < MaxThreads - 1) => to \in {"w_nothing", "w_mutating"} /\ i'[t] = 0
        /\ i' \in [Threads -> 0 .. MaxThreads]
        /\ \A u \in Threads \ {t} : i'[u] = i[u]
  BY <1>1, Wraps, ThreadFacts, SizeFacts
<1>3. to = "w_nothing" => \A u \in Threads : lfc'[u] = NONE
  BY <1>1, <1>2
<1>4. to \in Resting /\ to \in Critical
  BY <1>2 DEF Critical, Resting
<1>5. CallTypes' /\ Whole' = Whole
  BY <1>1 DEF RInv, CallTypes, Whole, ghostVars
<1>6. PlaceTypes'
  BY <1>1, <1>2, <1>4, PlaceKept, ThreadFacts DEF RInv, Scanning
<1>7. Phase(to)'
  <2>1. Phase("w_collect")
    BY <1>1 DEF RInv, Copies, At
  <2>2. QED
    BY <1>4, <1>5, <2>1, PhaseMoves DEF ghostVars, Resting
<1>8. Combining(t)'
  <2>1. Combining(t)
    BY <1>1 DEF RInv, Requests
  <2>2. \A u \in Threads : Collected(t, u)' => Collected(t, u) \/ u = i[t]
    <3>1. CASE i[t] < MaxThreads - 1
      BY <1>1, <1>2, <3>1, Passed DEF Collected
    <3>2. CASE ~(i[t] < MaxThreads - 1)
      <4>1. \A u \in Threads : u < i[t] \/ u = i[t]
        BY <1>1, <3>2, ThreadFacts, SizeFacts
      <4>2. QED
        BY <4>1 DEF Collected
    <3>3. QED
      BY <3>1, <3>2
  <2>3. \A u \in Threads : ~Cleared(t, u)' /\ ~Cleared(t, u)
    BY <1>1, <1>2, <1>4 DEF Cleared, Resting
  <2>4. /\ lfc' \in [Threads -> Words \union {NONE}] /\ lfc'[i[t]] = fc[i[t]]
        /\ \A u \in Threads \ {i[t]} : lfc'[u] = lfc[u]
        /\ UNCHANGED <<fc, call>>
    BY <1>1 DEF RInv, CallTypes, ghostVars
  <2>5. to \notin Turning \union {"w_clear"} /\ pc'[t] = to
    BY <1>1, <1>2, <1>4 DEF Resting, Turning
  <2>6. QED
    BY <1>3, <2>1, <2>2, <2>3, <2>4, <2>5 DEF Combining
<1>9. Requests'
  <2>1. \A u \in Threads : fc[u] # NONE => call[u].op = fc[u]
    BY DEF RInv, Requests
  <2>2. fc[t] = NONE => call[t].took # NONE
    BY <1>1 DEF RInv, Requests, Reading
  <2>3. to \notin Reading \union {"idle"}
    BY <1>4 DEF Resting, Reading
  <2>4. QED
    BY <1>1, <1>2, <1>4, <1>8, <2>1, <2>2, <2>3, WriterRequests DEF ghostVars
<1>10. QED
  BY <1>1, <1>2, <1>4, <1>5, <1>6, <1>7, <1>9, HeapSame, WriterStep

LEMMA ClearFcStep ==
  ASSUME RInv, Alone, NEW t \in Threads, ClearFc(t)
  PROVE  RInv'
<1> USE DEF ClearFc, Goto
<1>1. /\ pc[t] = "w_clear" /\ pc[t] \in Critical /\ i[t] \in Threads
      /\ pc \in [Threads -> Critical \union Outside]
      /\ i \in [Threads -> 0 .. MaxThreads]
  BY DEF RInv, PlaceTypes, Scanning, Critical, Published
<1>2. PICK to \in {"w_clear", "w_back"} :
        /\ pc' = [pc EXCEPT ![t] = to]
        /\ i[t] < MaxThreads - 1 => to = "w_clear" /\ i'[t] = i[t] + 1
        /\ ~(i[t] < MaxThreads - 1) => to = "w_back" /\ i'[t] = 0
        /\ i' \in [Threads -> 0 .. MaxThreads]
        /\ \A u \in Threads \ {t} : i'[u] = i[u]
  BY <1>1, Wraps, ThreadFacts, SizeFacts
<1>3. to \in Critical /\ to \in {"w_clear", "w_back"}
  BY <1>2 DEF Critical, Published
<1>4. /\ fc' \in [Threads -> Words \union {NONE}]
      /\ \A u \in Threads : fc'[u] = IF u = i[t] /\ lfc[u] # NONE THEN NONE ELSE fc[u]
  BY <1>1 DEF RInv, CallTypes
<1>5. CallTypes' /\ Whole' = Whole
  BY <1>1, <1>4 DEF RInv, CallTypes, Whole, ghostVars
<1>6. PlaceTypes'
  <2>1. /\ to \in Scanning => i'[t] \in Threads
        /\ to \notin Scanning \union {"w_run"} => i'[t] = 0
    BY <1>1, <1>2, ThreadFacts DEF Scanning
  <2>2. QED
    BY <1>1, <1>2, <1>3, <2>1, PlaceKept DEF RInv
<1>7. Phase(to)'
  <2>1. Phase("w_clear")
    BY <1>1 DEF RInv, Copies, At
  <2>2. QED
    BY <1>3, <1>5, <2>1, PhaseMoves DEF ghostVars
<1>8. Combining(t) /\ \A u \in Threads : Collected(t, u) /\ Collected(t, u)'
  BY <1>1, <1>2, <1>3 DEF RInv, Requests, Collected
<1>9. \A u \in Threads : Cleared(t, u)' <=> Cleared(t, u) \/ u = i[t]
  <2>1. CASE i[t] < MaxThreads - 1
    BY <1>1, <1>2, <2>1, Passed DEF Cleared
  <2>2. CASE ~(i[t] < MaxThreads - 1)
    BY <1>1, <1>2, <2>2, ThreadFacts, SizeFacts DEF Cleared, Threads
  <2>3. QED
    BY <2>1, <2>2
<1>10. Combining(t)'
  <2>1. /\ UNCHANGED <<lfc, call>> /\ pc'[t] \in {"w_clear", "w_back"}
        /\ \A u \in Threads : Cleared(t, u) => Cleared(t, u)'
    BY <1>1, <1>2, <1>3, <1>9 DEF ghostVars
  <2>2. QED
    BY <1>1, <1>4, <1>8, <1>9, <2>1 DEF Combining
<1>11. Requests'
  <2>1. \A u \in Threads : fc[u] # NONE => call[u].op = fc[u]
    BY DEF RInv, Requests
  <2>2. \A u \in Threads : fc'[u] = NONE => fc[u] = NONE \/ call[u].took # NONE
    <3>1. ~Cleared(t, i[t])
      BY <1>1, ThreadFacts DEF Cleared
    <3>2. QED
      BY <1>1, <1>4, <1>8, <3>1 DEF Combining
  <2>3. fc[t] = NONE => call[t].took # NONE
    BY <1>1 DEF RInv, Requests, Reading
  <2>4. to \notin Reading \union {"idle"}
    BY <1>3 DEF Reading
  <2>5. QED
    BY <1>1, <1>2, <1>3, <1>4, <1>10, <2>1, <2>2, <2>3, <2>4, WriterRequests
       DEF ghostVars
<1>12. QED
  BY <1>1, <1>2, <1>3, <1>5, <1>6, <1>7, <1>11, HeapSame, WriterStep DEF ghostVars

LEMMA UnlockStep ==
  ASSUME RInv, Alone, NEW t \in Threads,
         Goto(t, "w_unlock", "idle") \/ Goto(t, "w_nothing", "idle"),
         Return(t), UNCHANGED <<memVars, combVars, boot, i>>
  PROVE  RInv'
<1> USE DEF Goto, Outside, combVars
<1>1. /\ pc[t] \in {"w_unlock", "w_nothing"} /\ pc' = [pc EXCEPT ![t] = "idle"]
      /\ i[t] = 0 /\ i \in [Threads -> 0 .. MaxThreads] /\ boot = "up"
  BY DEF RInv, PlaceTypes, Scanning
<1>2. pc[t] \in Critical /\ "idle" \notin Critical
  BY <1>1 DEF Critical, Resting, Mutated, Excluding, Published, Turning
<1>3. fc[t] = NONE /\ CallTypes' /\ Whole' = Whole
  BY <1>1, Answered, CloseTypes DEF Return
<1>4. PlaceTypes'
  BY <1>1, PlaceKept, SizeFacts DEF RInv, Scanning
<1>5. Phase("w_unlock")'
  <2>1. Phase(pc[t]) /\ {pc[t], "w_unlock"} \subseteq Resting
    BY <1>1, <1>2 DEF RInv, Copies, At, Resting
  <2>2. QED
    BY <1>3, <2>1, PhaseMoves DEF Return, Close
<1>6. Requests'
  <2>1. \A u \in Threads \ {t} : call'[u] = call[u]
    BY DEF Return, Close, RInv, CallTypes
  <2>2. \A u \in Threads : fc[u] # NONE => call[u].op = fc[u]
    BY DEF RInv, Requests
  <2>3. QED
    BY <1>1, <1>2, <1>3, <2>1, <2>2, WriterRequests
<1>7. QED
  BY <1>1, <1>2, <1>3, <1>4, <1>5, <1>6, HeapSame, WriterStep

-----------------------------------------------------------------------------
(* The writer's steps on the copies, the log and state.                    *)
LEMMA WriterWrites ==
  ASSUME RInv, Alone, NEW t \in Threads, NEW from, NEW to, Goto(t, from, to),
         \/ /\ from \in {"w_mutating", "w_mutating2", "w_run", "w_copying", "w_copying2"}
            /\ to \in {"w_mutating2", "w_exclude", "w_run", "w_copying", "w_copying2", "w_left"}
         \/ /\ from \in {"w_back", "w_back2", "w_idle"}
            /\ to \in {"w_back2", "w_idle", "w_unlock"},
         i' \in [Threads -> 0 .. MaxThreads],
         \A u \in Threads \ {t} : i'[u] = i[u],
         to # "w_run" => i'[t] = 0,
         UNCHANGED <<fc, lfc, boot, ghostVars>>, out' \in [Threads -> Results],
         HeapTypes', LogTypes', Phase(to)'
  PROVE  RInv'
<1> USE DEF ghostVars, Goto
<1>1. /\ pc[t] = from /\ pc[t] \in Critical /\ to \in Critical
      /\ from \notin {"w_collect", "w_clear"} \union Turning
      /\ to \notin {"w_collect", "w_clear", "w_nothing"} \union Turning \union Scanning
      /\ to \in {"w_back", "w_back2", "w_idle", "w_unlock"} <=>
         from \in {"w_back", "w_back2", "w_idle", "w_unlock"}
  BY DEF Critical, Mutated, Excluding, Published, Turning, Resting, Scanning
<1>2. CallTypes'
  BY DEF RInv, CallTypes, Whole
<1>3. PlaceTypes'
  BY <1>1, PlaceKept DEF RInv
<1>4. Combining(t)'
  BY <1>1, CombiningKept
<1>5. Requests'
  BY <1>1, <1>4, WriterKeepsRequests
<1>6. QED
  BY <1>1, <1>2, <1>3, <1>5, WriterStep

(* What holds where the writer is.                                         *)
LEMMA Here ==
  ASSUME RInv, NEW t \in Threads, pc[t] \in Critical, boot = "up"
  PROVE  Phase(pc[t])
BY DEF RInv, Copies, At

(* Between transactions, and until requests run, main and back show the    *)
(* same.                                                                   *)
LEMMA RestingTwins ==
  ASSUME RInv, NEW p \in Resting \union Excluding \union {"w_mutating2"}, Phase(p)
  PROVE  /\ Twins /\ back[0] = main[0] /\ main[0] <= used /\ pused = {used}
         /\ View(back) = View(main)
<1>1. /\ entries = {} /\ logEnabled /\ todo = <<>> /\ pused = {used}
      /\ main[0] <= used /\ Logged
  BY DEF Phase, PhaseLog, Resting, Excluding
<1>2. Pending = {}
  BY <1>1 DEF Pending
<1>3. main[0] \in Words /\ used \in Words /\ main \in [Words -> Nat] /\ back \in [Words -> Nat]
  BY DEF RInv, HeapTypes
<1>4. /\ \A a \in 0 .. used : Agree(a)
      /\ \A a \in 0 .. main[0] : Agree(a)
  BY <1>1, <1>2 DEF Logged
<1>5. back[0] = main[0]
  BY <1>3, <1>4, SizeFacts DEF Agree
<1>6. View(back) = View(main)
  <2>1. \A a \in Words : a <= back[0] => back[a] = main[a]
    BY <1>3, <1>4, <1>5, SizeFacts DEF Agree, Words
  <2>2. QED
    BY <1>3, <1>5, <2>1, SameView
<1>7. QED
  BY <1>1, <1>4, <1>5, <1>6 DEF Twins

LEMMA SetMutatingStep ==
  ASSUME RInv, Alone, NEW t \in Threads, SetMutating(t)
  PROVE  RInv'
<1> USE DEF SetMutating, Goto, heapVars, backVars, logVars, combVars, ghostVars
<1>1. pc[t] = "w_mutating" /\ pc[t] \in Critical /\ i[t] = 0 /\ boot = "up"
  BY DEF RInv, PlaceTypes, Critical, Resting, Scanning
<1>2. Phase("w_mutating")
  BY <1>1, Here
<1>3. HeapTypes' /\ LogTypes'
  BY DEF RInv, HeapTypes, LogTypes, Whole
<1>4. /\ Last(hist) = View(back) /\ \A u \in pused : back[0] <= u
  BY <1>2, RestingTwins DEF Phase, PhaseMain, Resting, Published
<1>5. Phase("w_mutating2")'
  <2>1. PhaseState("w_mutating2")'
    BY DEF PhaseState, Resting, Published, Mutated, Excluding, Turning
  <2>2. PhaseLog("w_mutating2")'
    BY <1>2 DEF Phase, PhaseLog, Resting, Logged, Pending, Agree
  <2>3. PhaseMain("w_mutating2")'
    BY <1>2 DEF Phase, PhaseMain, Resting, Published, Turning, Whole
  <2>4. PhaseBack("w_mutating2")'
    BY <1>2, <1>4 DEF Phase, PhaseBack, Last
  <2>5. QED
    BY <2>1, <2>2, <2>3, <2>4 DEF Phase
<1>6. out \in [Threads -> Results] /\ i \in [Threads -> 0 .. MaxThreads]
  BY DEF RInv, CallTypes, PlaceTypes
<1>7. QED
  BY <1>1, <1>3, <1>5, <1>6, WriterWrites

(* PWB and fence after MUTATING.                                           *)
LEMMA FenceMutatingStep ==
  ASSUME RInv, Alone, NEW t \in Threads,
         FenceState(t, "w_mutating2", "w_exclude"), UNCHANGED ghostVars
  PROVE  RInv'
<1> USE DEF FenceState, Goto, heapVars, backVars, logVars, combVars, ghostVars
<1>1. pc[t] = "w_mutating2" /\ pc[t] \in Critical /\ i[t] = 0 /\ boot = "up"
  BY DEF RInv, PlaceTypes, Critical, Scanning
<1>2. Phase("w_mutating2")
  BY <1>1, Here
<1>3. HeapTypes' /\ LogTypes'
  BY DEF RInv, HeapTypes, LogTypes, Whole
<1>4. Phase("w_exclude")'
  <2>1. PhaseState("w_exclude")'
    BY <1>2 DEF Phase, PhaseState, Resting, Published, Mutated, Excluding, Turning
  <2>2. PhaseLog("w_exclude")'
    BY <1>2 DEF Phase, PhaseLog, Excluding, Resting, Logged, Pending, Agree
  <2>3. PhaseMain("w_exclude")'
    BY <1>2 DEF Phase, PhaseMain, Resting, Published, Turning, Whole
  <2>4. PhaseBack("w_exclude")'
    BY <1>2 DEF Phase, PhaseBack, Last, Mutated, Excluding
  <2>5. QED
    BY <2>1, <2>2, <2>3, <2>4 DEF Phase
<1>5. out \in [Threads -> Results] /\ i \in [Threads -> 0 .. MaxThreads]
  BY DEF RInv, CallTypes, PlaceTypes
<1>6. QED
  BY <1>1, <1>3, <1>4, <1>5, WriterWrites

LEMMA RunNextStep ==
  ASSUME RInv, Alone, NEW t \in Threads, RunNext(t)
  PROVE  RInv'
<1> USE DEF RunNext, Goto, memVars, heapVars, backVars, headVars, logVars, ghostVars
<1>1. /\ pc[t] = "w_run" /\ pc[t] \in Critical /\ boot = "up"
      /\ i \in [Threads -> 0 .. MaxThreads] /\ i[t] \in 0 .. MaxThreads
      /\ i[t] < MaxThreads
  BY DEF RInv, PlaceTypes, Critical, Mutated
<1>2. i[t] \in Threads /\ i[t] + 1 \in 0 .. MaxThreads
  BY <1>1, SizeFacts DEF Threads
<1>3. Phase("w_run")
  BY <1>1, Here
<1>4. HeapTypes' /\ LogTypes'
  BY DEF RInv, HeapTypes, LogTypes, Whole
<1>5. main \in [Words -> Nat] /\ main[0] \in Words
  BY DEF RInv, HeapTypes
<1>6. lfc[i[t]] # NONE => lfc[i[t]] \in Words
  BY <1>2 DEF RInv, CallTypes
<1>7. out' \in [Threads -> Results]
  <2>1. lfc[i[t]] # NONE => Run(View(main), lfc[i[t]]) \in Results
    BY <1>5, <1>6, ViewType, RunType DEF Results
  <2>2. QED
    BY <1>2, <2>1 DEF RInv, CallTypes, Results
<1>8. Todo'
  <2>1. CASE todo' = Stores(main, lfc[i[t]]) /\ lfc[i[t]] \in Words
    <3>1. CASE lfc[i[t]] = 0 /\ main[0] < Blocks
      BY <2>1, <3>1 DEF Stores, Todo
    <3>2. CASE ~(lfc[i[t]] = 0 /\ main[0] < Blocks) /\ lfc[i[t]] \in 1 .. main[0]
      <4>1. todo' = <<[a |-> lfc[i[t]], v |-> main[lfc[i[t]]] + 1]>>
        BY <2>1, <3>2 DEF Stores
      <4>2. lfc[i[t]] \in Words \ {0}
        BY <2>1, <3>2
      <4>3. QED
        BY <4>1, <4>2 DEF Todo
    <3>3. CASE ~(lfc[i[t]] = 0 /\ main[0] < Blocks) /\ lfc[i[t]] \notin 1 .. main[0]
      BY <2>1, <3>3 DEF Stores, Todo
    <3>4. QED
      BY <3>1, <3>2, <3>3
  <2>2. CASE todo' = <<>>
    BY <2>2 DEF Todo
  <2>3. QED
    BY <1>6, <2>1, <2>2
<1>9. Phase("w_run")'
  <2>1. PhaseState("w_run")'
    BY <1>3 DEF Phase, PhaseState
  <2>2. Logged'
    <3>1. Pending = {}
      BY DEF StoresDone, Pending
    <3>2. QED
      BY <1>3, <3>1 DEF Phase, PhaseLog, Logged, Agree
  <2>3. PhaseLog("w_run")'
    BY <1>8, <2>2 DEF PhaseLog, Resting, Excluding
  <2>4. PhaseMain("w_run")' /\ PhaseBack("w_run")'
    BY <1>3 DEF Phase, PhaseMain, PhaseBack, Last, Whole, Resting, Published, Turning
  <2>5. QED
    BY <2>1, <2>3, <2>4 DEF Phase
<1>10. i' \in [Threads -> 0 .. MaxThreads] /\ \A u \in Threads \ {t} : i'[u] = i[u]
  BY <1>1, <1>2
<1>11. QED
  BY <1>1, <1>4, <1>7, <1>9, <1>10, WriterWrites

LEMMA LogSize ==
  ASSUME NEW es \in SUBSET Words
  PROVE  /\ IsFiniteSet(es) /\ Cardinality(es) \in Nat /\ Cardinality(es) <= Blocks + 1
         /\ \A a \in Words : Cardinality(es \union {a}) =
              IF a \in es THEN Cardinality(es) ELSE Cardinality(es) + 1
<1>1. IsFiniteSet(Words) /\ Cardinality(Words) = Blocks + 1
  <2>1. 0 \in Int /\ Blocks \in Int /\ ~(0 > Blocks) /\ Blocks - 0 + 1 = Blocks + 1
    BY SizeFacts
  <2>2. QED
    BY <2>1, FS_Interval DEF Words
<1>2. IsFiniteSet(es) /\ Cardinality(es) <= Blocks + 1
  BY <1>1, FS_Subset
<1>3. QED
  BY <1>2, FS_CardinalityType, FS_AddElement

(* A log that no transaction outgrows takes every word.                    *)
LEMMA Logging ==
  ASSUME RInv, NEW a \in Words, add_to_log(a)
  PROVE  /\ logEnabled' => logEnabled /\ entries' = entries \union {a}
         /\ entries' \subseteq Words /\ logSize' = Cardinality(entries')
         /\ logEnabled' \in BOOLEAN
         /\ Whole => logEnabled'
<1>1. /\ entries \subseteq Words /\ logSize = Cardinality(entries)
      /\ logEnabled \in BOOLEAN /\ (Whole => logEnabled) /\ work.logLimit \in Nat
  BY DEF RInv, LogTypes, CallTypes, Workload
<1>2. /\ logSize \in Nat /\ logSize <= Blocks + 1
      /\ Cardinality(entries \union {a}) = IF a \in entries THEN logSize ELSE logSize + 1
  BY <1>1, LogSize
<1>3. CASE ~logEnabled
  BY <1>1, <1>3 DEF add_to_log, logVars
<1>4. CASE logEnabled /\ logSize > work.logLimit
  <2>1. ~Whole
    BY <1>1, <1>2, <1>4, SizeFacts DEF Whole
  <2>2. QED
    BY <1>1, <1>4, <2>1 DEF add_to_log
<1>5. CASE logEnabled /\ ~(logSize > work.logLimit)
  BY <1>1, <1>2, <1>5 DEF add_to_log
<1>6. QED
  BY <1>1, <1>3, <1>4, <1>5

(* One store of a request: what is left of it, and what main[0] becomes.   *)
LEMMA Storing ==
  ASSUME RInv, Todo, todo # <<>>, NEW e, e = Head(todo),
         main' = [main EXCEPT ![e.a] = e.v], todo' = Tail(todo)
  PROVE  /\ e.a \in Words /\ e.v \in Nat
         /\ main' \in [Words -> Nat] /\ main'[0] \in Words
         /\ e.a = 0 => e.v \in Words
         /\ Todo'
         /\ \A a : a \in Pending => a = e.a \/ a \in Pending'
         /\ \A a \in 0 .. main'[0] : a \in 0 .. main[0] \/ a \in Pending'
<1>1. main \in [Words -> Nat] /\ main[0] \in Words
  BY DEF RInv, HeapTypes
<1>2. CASE \E w \in Words \ {0} : \E v \in {1, main[w] + 1} : todo = <<[a |-> w, v |-> v]>>
  <2>0. PICK w \in Words \ {0} : \E v \in {1, main[w] + 1} : todo = <<[a |-> w, v |-> v]>>
    BY <1>2
  <2>1. PICK v \in {1, main[w] + 1} : todo = <<[a |-> w, v |-> v]>>
    BY <2>0
  <2>2. e = [a |-> w, v |-> v] /\ todo' = <<>> /\ v \in Nat
    BY <1>1, <2>1
  <2>3. Pending = {w}
    BY <2>1 DEF Pending
  <2>4. QED
    BY <1>1, <2>2, <2>3, SizeFacts DEF Todo
<1>3. CASE /\ main[0] < Blocks
           /\ todo = <<[a |-> 0, v |-> main[0] + 1], [a |-> main[0] + 1, v |-> 1]>>
  <2>1. PICK w \in Words \ {0} : w = main[0] + 1
    <3>1. main[0] + 1 \in Words \ {0}
      BY <1>1, <1>3, SizeFacts DEF Words
    <3>2. QED
      BY <3>1
  <2>2. e = [a |-> 0, v |-> w] /\ todo' = <<[a |-> w, v |-> 1]>>
    BY <1>3, <2>1
  <2>3. main'[0] = w /\ main' \in [Words -> Nat]
    BY <1>1, <2>1, <2>2, SizeFacts
  <2>4. Pending' = {w}
    <3>1. \A s : s = <<[a |-> w, v |-> 1]>> => {s[n].a : n \in DOMAIN s} = {w}
      OBVIOUS
    <3>2. QED
      BY <2>2, <3>1 DEF Pending
  <2>5. \A a : a \in Pending => a = 0 \/ a = w
    BY <1>3, <2>1 DEF Pending
  <2>6. Todo'
    <3>1. 1 \in {1, main'[w] + 1}
      OBVIOUS
    <3>2. QED
      BY <2>1, <2>2, <3>1 DEF Todo
  <2>7. \A a \in 0 .. w : a \in 0 .. main[0] \/ a = w
    BY <1>1, <2>1, SizeFacts DEF Words
  <2>8. QED
    BY <2>1, <2>2, <2>3, <2>4, <2>5, <2>6, <2>7, SizeFacts
<1>4. QED
  BY <1>2, <1>3 DEF Todo

LEMMA StoreWordStep ==
  ASSUME RInv, Alone, NEW t \in Threads, StoreWord(t)
  PROVE  RInv'
<1> USE DEF StoreWord, Goto, backVars, headVars, ghostVars
<1>1. /\ pc[t] = "w_run" /\ pc[t] \in Critical /\ boot = "up"
      /\ i \in [Threads -> 0 .. MaxThreads] /\ out \in [Threads -> Results]
  BY DEF RInv, PlaceTypes, CallTypes, Critical, Mutated
<1>2. Phase("w_run") /\ Todo
  BY <1>1, Here DEF Phase, PhaseLog
<1>3. PICK e : /\ e = Head(todo)
               /\ main' = [main EXCEPT ![e.a] = e.v]
               /\ pmain' = [pmain EXCEPT ![e.a] = @ \union {e.v}]
               /\ add_to_log(e.a)
  OBVIOUS
<1>4. /\ e.a \in Words /\ e.v \in Nat
      /\ main' \in [Words -> Nat] /\ main'[0] \in Words
      /\ e.a = 0 => e.v \in Words
      /\ Todo'
      /\ \A a : a \in Pending => a = e.a \/ a \in Pending'
      /\ \A a \in 0 .. main'[0] : a \in 0 .. main[0] \/ a \in Pending'
  <2>1. todo # <<>> /\ todo' = Tail(todo)
    OBVIOUS
  <2>2. QED
    BY <1>2, <1>3, <2>1, Storing
<1>5. /\ logEnabled' => logEnabled /\ entries' = entries \union {e.a}
      /\ entries' \subseteq Words /\ logSize' = Cardinality(entries')
      /\ logEnabled' \in BOOLEAN
      /\ Whole => logEnabled'
  BY <1>3, <1>4, Logging
<1>6. /\ main \in [Words -> Nat] /\ pmain \in [Words -> SUBSET Nat]
      /\ pmain[0] \subseteq Words /\ \A a \in Words : main[a] \in pmain[a]
  BY DEF RInv, HeapTypes
<1>7. /\ \A a \in Words \ {e.a} : main'[a] = main[a] /\ pmain'[a] = pmain[a]
      /\ main'[e.a] = e.v /\ pmain'[e.a] = pmain[e.a] \union {e.v}
      /\ pmain' \in [Words -> SUBSET Nat]
  BY <1>3, <1>4, <1>6
<1>8. HeapTypes' /\ LogTypes'
  <2>1. pmain'[0] \subseteq Words
    BY <1>4, <1>6, <1>7, SizeFacts
  <2>2. \A a \in Words : main'[a] \in pmain'[a]
    BY <1>4, <1>6, <1>7
  <2>3. QED
    BY <1>4, <1>5, <1>7, <2>1, <2>2 DEF RInv, HeapTypes, LogTypes, Whole
<1>9. Logged'
  <2> SUFFICES ASSUME logEnabled', NEW a \in (0 .. used) \union (0 .. main'[0])
               PROVE  a \in entries' \union Pending' \/ Agree(a)'
    BY DEF Logged
  <2>1. a \in (0 .. used) \union (0 .. main[0]) \/ a \in Pending'
    BY <1>4
  <2>2. a \in Words
    <3>1. used \in Words
      BY DEF RInv, HeapTypes
    <3>2. QED
      BY <1>4, <3>1, SizeFacts DEF Words
  <2>3. CASE a \in (0 .. used) \union (0 .. main[0])
    <3>1. a \in entries \union Pending \/ Agree(a)
      BY <1>2, <1>5, <2>3 DEF Phase, PhaseLog, Logged
    <3>2. QED
      BY <1>4, <1>5, <1>7, <2>2, <3>1 DEF Agree
  <2>4. QED
    BY <2>1, <2>3
<1>10. Phase("w_run")'
  <2>1. PhaseState("w_run")'
    BY <1>2 DEF Phase, PhaseState
  <2>2. PhaseLog("w_run")'
    BY <1>4, <1>9 DEF PhaseLog, Resting, Excluding
  <2>3. PhaseMain("w_run")'
    <3>1. Whole => \A a \in Words : pmain[a] = {main[a]} \/ a \in entries
      BY <1>2 DEF Phase, PhaseMain
    <3>2. Whole => entries' = entries \union {e.a}
      BY <1>5
    <3>3. QED
      BY <1>7, <3>1, <3>2 DEF PhaseMain, Whole, Resting, Published, Turning
  <2>4. PhaseBack("w_run")'
    BY <1>2 DEF Phase, PhaseBack, Last
  <2>5. QED
    BY <2>1, <2>2, <2>3, <2>4 DEF Phase
<1>11. QED
  BY <1>1, <1>8, <1>10, WriterWrites

LEMMA GrowUsedStep ==
  ASSUME RInv, Alone, NEW t \in Threads, GrowUsed(t)
  PROVE  RInv'
<1> USE DEF GrowUsed, Goto, backVars, headVars, logVars, combVars, ghostVars
<1>1. /\ pc[t] = "w_run" /\ pc[t] \in Critical /\ boot = "up"
      /\ i \in [Threads -> 0 .. MaxThreads] /\ out \in [Threads -> Results]
  BY DEF RInv, PlaceTypes, CallTypes, Critical, Mutated
<1>2. Phase("w_run")
  BY <1>1, Here
<1>3. /\ main[0] \in Words /\ used \in Words /\ back[0] \in Words /\ used \in pused
      /\ pused \subseteq Words
  BY DEF RInv, HeapTypes
<1>4. HeapTypes' /\ LogTypes'
  BY <1>3 DEF RInv, HeapTypes, LogTypes, Whole
<1>5. Phase("w_run")'
  <2>1. PhaseState("w_run")'
    BY <1>2 DEF Phase, PhaseState
  <2>2. Logged'
    BY <1>2, <1>3, SizeFacts DEF Phase, PhaseLog, Logged, Pending, Agree
  <2>3. PhaseLog("w_run")'
    BY <1>2, <2>2 DEF Phase, PhaseLog, Todo, Resting, Excluding
  <2>4. PhaseMain("w_run")'
    BY <1>2 DEF Phase, PhaseMain, Whole, Resting, Published, Turning
  <2>5. PhaseBack("w_run")'
    <3>1. back[0] <= used /\ back[0] <= main[0]
      BY <1>2, <1>3, SizeFacts DEF Phase, PhaseBack, Mutated
    <3>2. QED
      BY <1>2, <3>1 DEF Phase, PhaseBack, Last
  <2>6. QED
    BY <2>1, <2>3, <2>4, <2>5 DEF Phase
<1>6. QED
  BY <1>1, <1>4, <1>5, WriterWrites

LEMMA FlushMainStep ==
  ASSUME RInv, Alone, NEW t \in Threads, FlushMain(t)
  PROVE  RInv'
<1> USE DEF FlushMain, Goto, backVars, headVars, logVars, combVars, ghostVars
<1>1. /\ pc[t] = "w_run" /\ pc[t] \in Critical /\ boot = "up"
      /\ i \in [Threads -> 0 .. MaxThreads] /\ out \in [Threads -> Results]
  BY DEF RInv, PlaceTypes, CallTypes, Critical, Mutated
<1>2. Phase("w_run") /\ todo = <<>> /\ main[0] <= used
  BY <1>1, Here DEF StoresDone
<1>3. HeapTypes' /\ LogTypes'
  BY SizeFacts DEF RInv, HeapTypes, LogTypes, Whole, Flushed
<1>4. Phase("w_copying")'
  <2>1. PhaseState("w_copying")'
    BY <1>2 DEF Phase, PhaseState, Mutated, Published, Resting, Excluding, Turning
  <2>2. PhaseLog("w_copying")'
    BY <1>2 DEF Phase, PhaseLog, Logged, Pending, Agree, Resting, Excluding
  <2>3. PhaseMain("w_copying")'
    BY <1>2 DEF Phase, PhaseMain, Flushed, Whole, Resting, Published, Turning
  <2>4. PhaseBack("w_copying")'
    <3>1. back[0] <= used
      BY <1>2 DEF Phase, PhaseBack, Mutated, RInv, HeapTypes
    <3>2. QED
      BY <1>2, <3>1 DEF Phase, PhaseBack, Last, Mutated
  <2>5. QED
    BY <2>1, <2>2, <2>3, <2>4 DEF Phase
<1>5. /\ i' \in [Threads -> 0 .. MaxThreads] /\ i'[t] = 0
      /\ \A u \in Threads \ {t} : i'[u] = i[u]
  BY <1>1, SizeFacts
<1>6. QED
  BY <1>1, <1>3, <1>4, <1>5, WriterWrites

LEMMA SetCopyingStep ==
  ASSUME RInv, Alone, NEW t \in Threads, SetCopying(t)
  PROVE  RInv'
<1> USE DEF SetCopying, Goto, heapVars, backVars, logVars, combVars, ghostVars
<1>1. /\ pc[t] = "w_copying" /\ pc[t] \in Critical /\ boot = "up" /\ i[t] = 0
      /\ i \in [Threads -> 0 .. MaxThreads] /\ out \in [Threads -> Results]
  BY DEF RInv, PlaceTypes, CallTypes, Critical, Mutated, Scanning
<1>2. Phase("w_copying")
  BY <1>1, Here
<1>3. HeapTypes' /\ LogTypes'
  BY DEF RInv, HeapTypes, LogTypes, Whole
<1>4. Phase("w_copying2")'
  <2>1. PhaseState("w_copying2")'
    BY <1>2 DEF Phase, PhaseState, Mutated, Published, Resting, Excluding, Turning
  <2>2. PhaseLog("w_copying2")'
    BY <1>2 DEF Phase, PhaseLog, Logged, Pending, Agree, Resting, Excluding
  <2>3. PhaseMain("w_copying2")'
    BY <1>2 DEF Phase, PhaseMain, Whole, Resting, Published, Turning
  <2>4. PhaseBack("w_copying2")'
    BY <1>2 DEF Phase, PhaseBack, Last, Mutated
  <2>5. QED
    BY <2>1, <2>2, <2>3, <2>4 DEF Phase
<1>5. QED
  BY <1>1, <1>3, <1>4, WriterWrites

(* PWB and fence after COPYING, in RomulusLR.                              *)
LEMMA FenceCopyingStep ==
  ASSUME RInv, Alone, NEW t \in Threads,
         FenceState(t, "w_copying2", "w_left"), UNCHANGED ghostVars
  PROVE  RInv'
<1> USE DEF FenceState, Goto, heapVars, backVars, logVars, combVars, ghostVars
<1>1. /\ pc[t] = "w_copying2" /\ pc[t] \in Critical /\ boot = "up" /\ i[t] = 0
      /\ i \in [Threads -> 0 .. MaxThreads] /\ out \in [Threads -> Results]
  BY DEF RInv, PlaceTypes, CallTypes, Critical, Scanning
<1>2. Phase("w_copying2")
  BY <1>1, Here
<1>3. HeapTypes' /\ LogTypes'
  BY DEF RInv, HeapTypes, LogTypes, Whole
<1>4. Phase("w_left")'
  <2>1. PhaseState("w_left")'
    BY <1>2 DEF Phase, PhaseState, Mutated, Published, Resting, Excluding, Turning
  <2>2. PhaseLog("w_left")'
    BY <1>2 DEF Phase, PhaseLog, Logged, Pending, Agree, Resting, Excluding
  <2>3. PhaseMain("w_left")'
    BY <1>2 DEF Phase, PhaseMain, Whole, Resting, Published
  <2>4. PhaseBack("w_left")'
    BY <1>2 DEF Phase, PhaseBack, Last
  <2>5. QED
    BY <2>1, <2>2, <2>3, <2>4 DEF Phase
<1>5. QED
  BY <1>1, <1>3, <1>4, WriterWrites

LEMMA CopyToBackStep ==
  ASSUME RInv, Alone, NEW t \in Threads, CopyToBack(t)
  PROVE  RInv'
<1> USE DEF CopyToBack, Goto, heapVars, headVars, logVars, combVars, ghostVars
<1>1. /\ pc[t] = "w_back" /\ pc[t] \in Critical /\ boot = "up" /\ i[t] = 0
      /\ i \in [Threads -> 0 .. MaxThreads] /\ out \in [Threads -> Results]
  BY DEF RInv, PlaceTypes, CallTypes, Critical, Published, Scanning
<1>2. Phase("w_back") /\ todo = <<>> /\ main[0] <= used
  BY <1>1, Here DEF Phase, PhaseLog
<1>3. /\ main \in [Words -> Nat] /\ back \in [Words -> Nat] /\ used \in Words
      /\ main[0] \in Words /\ back[0] \in Words
      /\ pback \in [Words -> SUBSET Nat] /\ pback[0] \subseteq Words
  BY DEF RInv, HeapTypes
<1>4. HeapTypes' /\ LogTypes'
  <2>1. back' \in [Words -> Nat] /\ back'[0] \in Words
    BY <1>3, SizeFacts
  <2>2. pback' \in [Words -> SUBSET Nat] /\ pback'[0] \subseteq Words
    BY <1>3, <2>1, SizeFacts
  <2>3. QED
    BY <2>1, <2>2 DEF RInv, HeapTypes, LogTypes, Whole
<1>5. Twins'
  <2>1. SUFFICES ASSUME NEW a \in 0 .. used PROVE back'[a] = main[a]
    BY DEF Twins, Agree
  <2>2. a \in Words
    BY <1>3, SizeFacts DEF Words
  <2>3. a \in Replicated \/ back[a] = main[a]
    BY <1>2 DEF Phase, PhaseLog, Logged, Pending, Agree, Replicated
  <2>4. QED
    BY <2>2, <2>3
<1>6. Phase("w_back2")'
  <2>1. PhaseState("w_back2")'
    BY <1>2 DEF Phase, PhaseState, Mutated, Published, Resting, Excluding, Turning
  <2>2. Logged'
    <3>1. \A a \in 0 .. main[0] : a \in 0 .. used
      BY <1>2, <1>3, SizeFacts
    <3>2. QED
      BY <1>5, <3>1 DEF Logged, Twins
  <2>3. PhaseLog("w_back2")'
    BY <1>2, <1>5, <2>2 DEF Phase, PhaseLog, Resting, Excluding
  <2>4. PhaseMain("w_back2")'
    BY <1>2 DEF Phase, PhaseMain, Last, Whole, Resting, Published
  <2>5. PhaseBack("w_back2")'
    BY <1>2 DEF Phase, PhaseBack, Replicated, Mutated, Excluding
  <2>6. QED
    BY <2>1, <2>3, <2>4, <2>5 DEF Phase
<1>7. QED
  BY <1>1, <1>4, <1>6, WriterWrites

LEMMA FenceBackStep ==
  ASSUME RInv, Alone, NEW t \in Threads, FenceBack(t)
  PROVE  RInv'
<1> USE DEF FenceBack, Goto, heapVars, headVars, combVars, ghostVars
<1>1. /\ pc[t] = "w_back2" /\ pc[t] \in Critical /\ boot = "up" /\ i[t] = 0
      /\ i \in [Threads -> 0 .. MaxThreads] /\ out \in [Threads -> Results]
  BY DEF RInv, PlaceTypes, CallTypes, Critical, Published, Scanning
<1>2. Phase("w_back2") /\ todo = <<>> /\ main[0] <= used
  BY <1>1, Here DEF Phase, PhaseLog
<1>3. HeapTypes' /\ LogTypes'
  BY SizeFacts, FS_EmptySet DEF RInv, HeapTypes, LogTypes, Whole, Flushed
<1>4. Phase("w_idle")'
  <2>1. PhaseState("w_idle")'
    BY <1>2 DEF Phase, PhaseState, Mutated, Published, Resting, Excluding, Turning
  <2>2. Logged'
    <3>1. used \in Words /\ main[0] \in Words
      BY DEF RInv, HeapTypes
    <3>2. \A a \in 0 .. main[0] : a \in 0 .. used
      BY <1>2, <3>1, SizeFacts
    <3>3. Twins
      BY <1>2 DEF Phase, PhaseLog
    <3>4. QED
      BY <3>2, <3>3 DEF Logged, Twins, Agree
  <2>3. PhaseLog("w_idle")'
    BY <1>2, <2>2 DEF Phase, PhaseLog
  <2>4. PhaseMain("w_idle")'
    BY <1>2 DEF Phase, PhaseMain, Last, Whole, Resting, Published
  <2>5. PhaseBack("w_idle")'
    BY <1>2 DEF Phase, PhaseBack, Flushed, Mutated, Excluding
  <2>6. QED
    BY <2>1, <2>3, <2>4, <2>5 DEF Phase
<1>5. QED
  BY <1>1, <1>3, <1>4, WriterWrites

LEMMA SetIdleStep ==
  ASSUME RInv, Alone, NEW t \in Threads, SetIdle(t)
  PROVE  RInv'
<1> USE DEF SetIdle, Goto, heapVars, backVars, logVars, combVars, ghostVars
<1>1. /\ pc[t] = "w_idle" /\ pc[t] \in Critical /\ boot = "up" /\ i[t] = 0
      /\ i \in [Threads -> 0 .. MaxThreads] /\ out \in [Threads -> Results]
  BY DEF RInv, PlaceTypes, CallTypes, Critical, Published, Scanning
<1>2. Phase("w_idle")
  BY <1>1, Here
<1>3. HeapTypes' /\ LogTypes'
  BY DEF RInv, HeapTypes, LogTypes, Whole
<1>4. Phase("w_unlock")'
  <2>1. PhaseState("w_unlock")'
    BY DEF PhaseState, Mutated, Published, Excluding, Turning
  <2>2. PhaseLog("w_unlock")'
    BY <1>2 DEF Phase, PhaseLog, Logged, Pending, Agree
  <2>3. PhaseMain("w_unlock")'
    BY <1>2 DEF Phase, PhaseMain, Last, Whole, Resting, Published
  <2>4. PhaseBack("w_unlock")'
    BY <1>2 DEF Phase, PhaseBack, Last, Mutated, Excluding
  <2>5. QED
    BY <2>1, <2>2, <2>3, <2>4 DEF Phase
<1>5. QED
  BY <1>1, <1>3, <1>4, WriterWrites

(* The requests of lfc take effect: in RomulusLog with the fence after     *)
(* COPYING, in RomulusLR when readers are sent to main.                    *)
LEMMA CommitStep ==
  ASSUME RInv, Alone, NEW t \in Threads, NEW from, NEW to, Goto(t, from, to),
         \/ from = "w_copying2" /\ to = "w_clear" /\ pstate' = {state}
         \/ from = "w_left" /\ to = "w_left2" /\ pstate' = pstate,
         Commit, UNCHANGED <<heapVars, backVars, state, logVars, combVars, boot, i>>
  PROVE  RInv'
<1> USE DEF Goto, heapVars, backVars, logVars, combVars
<1>1. /\ pc[t] = from /\ pc[t] \in Critical /\ to \in Critical /\ boot = "up" /\ i[t] = 0
      /\ i \in [Threads -> 0 .. MaxThreads] /\ out \in [Threads -> Results]
      /\ pc \in [Threads -> Critical \union Outside]
  BY DEF RInv, PlaceTypes, CallTypes, Critical, Published, Turning, Scanning
<1>2. Phase(from)
  BY <1>1, Here
<1>3. /\ hist \in Seq([Words -> Nat]) /\ Len(hist) \in Nat /\ View(main) \in [Words -> Nat]
      /\ hist' = Append(hist, View(main))
      /\ hist' \in Seq([Words -> Nat]) /\ Len(hist') = Len(hist) + 1
      /\ Last(hist') = View(main)
  <2>1. hist \in Seq([Words -> Nat]) /\ Len(hist) \in Nat
    BY DEF RInv, CallTypes
  <2>2. View(main) \in [Words -> Nat]
    BY ViewType DEF RInv, HeapTypes
  <2>3. hist' = Append(hist, View(main))
    BY DEF Commit
  <2> HIDE DEF Commit
  <2>4. hist' \in Seq([Words -> Nat]) /\ Len(hist') = Len(hist) + 1
    BY <2>1, <2>2, <2>3
  <2>5. hist'[Len(hist) + 1] = View(main)
    BY <2>1, <2>2, <2>3
  <2>6. QED
    BY <2>1, <2>2, <2>3, <2>4, <2>5 DEF Last
<1>4. \A u \in Threads :
        /\ lfc[u] = NONE => call'[u] = call[u]
        /\ lfc[u] # NONE => call'[u] = [call[u] EXCEPT !.took =
                                          [at |-> Len(hist) + 1, val |-> out[u]]]
  BY DEF Commit
<1>5. \A u \in Threads :
        /\ call'[u] \in Calls /\ call'[u].op = call[u].op
        /\ call[u].took # NONE \/ lfc[u] # NONE => call'[u].took # NONE
        /\ call'[u].took # NONE => call'[u].took.at <= Len(hist) + 1
                                   /\ 1 <= call'[u].took.at
  <2> SUFFICES ASSUME NEW u \in Threads
      PROVE  /\ call'[u] \in Calls /\ call'[u].op = call[u].op
             /\ call[u].took # NONE \/ lfc[u] # NONE => call'[u].took # NONE
             /\ call'[u].took # NONE => call'[u].took.at <= Len(hist) + 1
                                        /\ 1 <= call'[u].took.at
    OBVIOUS
  <2>1. /\ call[u] \in Calls
        /\ call[u].took # NONE => call[u].took.at <= Len(hist) /\ 1 <= call[u].took.at
    BY DEF RInv, CallTypes
  <2>2. call[u].took # NONE => call[u].took.at \in Nat
    BY <2>1 DEF Calls
  <2>3. CASE lfc[u] = NONE
    <3>1. call'[u] = call[u]
      BY <1>4, <2>3
    <3>2. call[u].took # NONE => call[u].took.at <= Len(hist) + 1
      BY <1>3, <2>1, <2>2
    <3>3. QED
      BY <2>1, <2>3, <3>1, <3>2
  <2>4. CASE lfc[u] # NONE
    <3> DEFINE r == [at |-> Len(hist) + 1, val |-> out[u]]
    <3>1. r \in [at : Nat, val : Results] /\ r # NONE /\ r.at = Len(hist) + 1
      BY <1>1, <1>3, SizeFacts
    <3>2. call'[u] = [call[u] EXCEPT !.took = r]
      BY <1>4, <2>4
    <3> HIDE DEF r
    <3>3. call'[u] \in Calls /\ call'[u].op = call[u].op /\ call'[u].took = r
      BY <2>1, <3>1, <3>2 DEF Calls
    <3>4. QED
      BY <1>3, <3>1, <3>3
  <2>5. QED
    BY <2>3, <2>4
<1>6. CallTypes'
  <2>1. call' \in [Threads -> Calls]
    <3>1. call' = [u \in Threads |-> call'[u]]
      BY DEF Commit
    <3>2. QED
      BY <1>5, <3>1
  <2>2. acked' = acked /\ work' = work /\ acked \in Nat /\ 1 <= acked /\ acked <= Len(hist)
    BY DEF Commit, RInv, CallTypes
  <2>3. QED
    BY <1>3, <1>5, <2>1, <2>2 DEF RInv, CallTypes, Whole
<1>7. HeapTypes' /\ LogTypes'
  BY <1>2 DEF RInv, HeapTypes, LogTypes, Whole, Commit
<1>8. PlaceTypes'
  BY <1>1, PlaceKept, SizeFacts DEF RInv, Scanning
<1>9. Phase(to)'
  <2>1. PhaseState(to)'
    BY <1>2 DEF Phase, PhaseState, Mutated, Published, Resting, Excluding, Turning
  <2>2. PhaseLog(to)'
    BY <1>2 DEF Phase, PhaseLog, Logged, Pending, Agree, Resting, Excluding, Turning
  <2>3. PhaseMain(to)'
    <3>1. Last(hist)' = View(main)'
      BY <1>3
    <3>2. Whole' = Whole
      BY DEF Commit, Whole
    <3>3. QED
      BY <1>2, <3>1, <3>2 DEF Phase, PhaseMain
  <2>4. PhaseBack(to)'
    BY <1>2 DEF Phase, PhaseBack, Mutated, Excluding, Turning
  <2>5. QED
    BY <2>1, <2>2, <2>3, <2>4 DEF Phase
<1>10. Combining(t)'
  <2>1. Combining(t)
    BY <1>1 DEF RInv, Requests
  <2>2. pc'[t] = to /\ i'[t] = 0
    BY <1>1
  <2>3. \A u \in Threads : Collected(t, u) /\ ~Cleared(t, u) /\ ~Cleared(t, u)'
    <3>1. \A u \in Threads : ~(u < 0)
      BY ThreadFacts
    <3>2. QED
      BY <1>1, <2>2, <3>1 DEF Collected, Cleared
  <2>4. QED
    BY <1>5, <2>1, <2>2, <2>3 DEF Combining
<1>11. Requests'
  <2>1. \A u \in Threads : fc[u] # NONE => call'[u].op = fc[u]
    BY <1>5 DEF RInv, Requests
  <2>2. fc[t] = NONE => call'[t].took # NONE
    BY <1>1, <1>5 DEF RInv, Requests, Reading
  <2>3. to \notin Reading \union {"idle"}
    BY DEF Reading
  <2>4. QED
    BY <1>1, <1>5, <1>10, <2>1, <2>2, <2>3, WriterRequests
<1>12. QED
  BY <1>1, <1>6, <1>7, <1>8, <1>9, <1>11, WriterStep

-----------------------------------------------------------------------------
(* Crashes.  Whatever a crash leaves of the two copies, state and          *)
(* used_size, state names one that a commit is in.                         *)
Found(m, b, s, u) ==
  /\ s = "MUTATING" => b = back /\ back[0] <= u /\ Last(hist) = View(back)
  /\ s = "COPYING" => m = main /\ main[0] <= u
  /\ s = "IDLE" => /\ m = main /\ b = back /\ u = used /\ Twins
                   /\ main[0] <= used /\ Last(hist) = View(main)

LEMMA Singles ==
  ASSUME NEW p \in [Words -> SUBSET Nat], NEW m \in [Words -> Nat],
         \A a \in Words : p[a] = {m[a]}, NEW f \in Picks(p)
  PROVE  f = m
BY PicksType

LEMMA FoundUp ==
  ASSUME RInv, Whole, NEW q \in Critical, Phase(q),
         NEW m \in Picks(pmain), NEW b \in Picks(pback), NEW s \in pstate,
         NEW u \in pused
  PROVE  Found(m, b, s, u)
<1>1. /\ main \in [Words -> Nat] /\ pmain \in [Words -> SUBSET Nat]
      /\ back \in [Words -> Nat] /\ pback \in [Words -> SUBSET Nat]
      /\ pstate \subseteq {"IDLE", "MUTATING", "COPYING"}
  BY DEF RInv, HeapTypes
<1>2. /\ q # "w_run" => m = main
      /\ q # "w_back2" => b = back
  BY <1>1, Singles DEF Phase, PhaseMain, PhaseBack
<1>3. CASE q \in Resting
  BY <1>2, <1>3, RestingTwins DEF Phase, PhaseMain, Resting, Found
<1>4. CASE q \in Excluding \union {"w_mutating2"}
  BY <1>2, <1>4, RestingTwins DEF Phase, PhaseBack, Excluding, Mutated, Found
<1>5. CASE q \in {"w_run", "w_copying"}
  BY <1>2, <1>5 DEF Phase, PhaseState, PhaseBack, Mutated, Found
<1>6. CASE q = "w_copying2"
  BY <1>2, <1>6 DEF Phase, PhaseState, PhaseLog, PhaseBack, Found
<1>7. CASE q \in Published
  BY <1>2, <1>7 DEF Phase, PhaseState, PhaseLog, Published, Turning, Found
<1>8. QED
  BY <1>3, <1>4, <1>5, <1>6, <1>7 DEF Critical, Mutated

LEMMA FoundBooting ==
  ASSUME RInv, Booting, boot # "up",
         NEW m \in Picks(pmain), NEW b \in Picks(pback), NEW s \in pstate,
         NEW u \in pused
  PROVE  Found(m, b, s, u)
<1>1. /\ main \in [Words -> Nat] /\ pmain \in [Words -> SUBSET Nat]
      /\ back \in [Words -> Nat] /\ pback \in [Words -> SUBSET Nat]
      /\ pstate \subseteq {"IDLE", "MUTATING", "COPYING"}
      /\ used \in Words /\ main[0] \in Words
      /\ boot \in {"recover", "fence", "idle"}
  BY DEF RInv, HeapTypes, PlaceTypes
<1>2. /\ s = state /\ u = used /\ Last(hist) = hist[1]
      /\ MainFlushed => m = main
      /\ BackFlushed => b = back
  BY <1>1, Singles DEF Booting, Last, MainFlushed, BackFlushed
<1>3. CASE boot = "recover"
  <2>1. state = "MUTATING" => View(back) = hist[1]
    <3>1. SUFFICES ASSUME state = "MUTATING" PROVE View(back) = hist[1]
      OBVIOUS
    <3>2. hist[1] = View(Recovered(main, back, "MUTATING", used)) /\ back[0] <= used
      BY <1>3, <3>1 DEF Booting
    <3>3. QED
      BY <1>1, <3>2, RecoveredBack
  <2>2. state = "IDLE" => View(main) = hist[1]
    BY <1>3 DEF Booting, Recovered
  <2>3. QED
    BY <1>2, <1>3, <2>1, <2>2 DEF Booting, Found
<1>4. CASE boot # "recover"
  <2>1. Twins /\ main[0] <= used /\ hist[1] = View(main) /\ state # "IDLE"
    BY <1>4 DEF Booting
  <2>2. \A a \in Words : a <= main[0] => back[a] = main[a]
    BY <1>1, <2>1, SizeFacts DEF Twins, Agree, Words
  <2>3. back[0] = main[0]
    BY <1>1, <2>2, SizeFacts
  <2>4. View(back) = View(main)
    BY <1>1, <2>2, <2>3, SameView
  <2>5. state = "MUTATING" => b = back
    BY <1>1, <1>2, <1>4 DEF Booting
  <2>6. state = "COPYING" => m = main
    BY <1>1, <1>2, <1>4 DEF Booting
  <2>7. QED
    BY <1>2, <2>1, <2>3, <2>4, <2>5, <2>6 DEF Found
<1>5. QED
  BY <1>3, <1>4

LEMMA AnyFound ==
  ASSUME RInv, Whole,
         NEW m \in Picks(pmain), NEW b \in Picks(pback), NEW s \in pstate,
         NEW u \in pused
  PROVE  Found(m, b, s, u)
<1>1. CASE boot = "up"
  <2>1. \E q \in Critical : At(q)
    <3>1. CASE \E t \in Threads : pc[t] \in Critical
      BY <3>1 DEF At
    <3>2. CASE \A t \in Threads : pc[t] \notin Critical
      BY <3>2 DEF At, Critical, Resting
    <3>3. QED
      BY <3>1, <3>2
  <2>2. PICK q \in Critical : Phase(q)
    BY <1>1, <2>1 DEF RInv, Copies
  <2>3. QED
    BY <2>2, FoundUp
<1>2. CASE boot # "up"
  BY <1>2, FoundBooting DEF RInv, Copies
<1>3. QED
  BY <1>1, <1>2

LEMMA OnceFacts ==
  ASSUME NEW m \in [Words -> Nat]
  PROVE  Once(m) \in [Words -> SUBSET Nat] /\ \A a \in Words : Once(m)[a] = {m[a]}
BY DEF Once

(* Outside calls nothing is asked of a thread.                             *)
LEMMA IdleFacts ==
  /\ "idle" \in Outside /\ "idle" \notin Critical /\ "idle" \notin Scanning
  /\ "idle" \in Reading \union {"idle"}
BY DEF Outside, Critical, Resting, Mutated, Excluding, Published, Turning, Scanning

LEMMA CrashStep ==
  ASSUME RInv, RomCrash
  PROVE  RInv'
<1>1. PICK m \in Picks(pmain), b \in Picks(pback), s \in pstate, u \in pused :
        /\ main' = m /\ back' = b /\ state' = s /\ used' = u
        /\ pmain' = Once(m) /\ pback' = Once(b)
        /\ pstate' = {s} /\ pused' = {u}
        /\ hist' = <<View(Recovered(m, b, s, u))>>
  BY DEF RomCrash
<1>2. /\ work \in Workload /\ work.crashes > 0 /\ Whole
  BY DEF RomCrash, RInv, CallTypes
<1>3. work' \in Workload /\ work'.logLimit = work.logLimit /\ Whole'
  <2>1. work.crashes \in Nat /\ work.crashes - 1 \in Nat
    BY <1>2 DEF Workload
  <2>2. work' = [work EXCEPT !.crashes = work.crashes - 1]
    BY DEF RomCrash
  <2>3. QED
    BY <1>2, <2>1, <2>2 DEF Workload, Whole
<1>4. Found(m, b, s, u)
  BY <1>2, AnyFound
<1>5. /\ m \in [Words -> Nat] /\ m[0] \in Words
      /\ b \in [Words -> Nat] /\ b[0] \in Words
      /\ s \in {"IDLE", "MUTATING", "COPYING"} /\ u \in Words
  BY PicksType, SizeFacts DEF RInv, HeapTypes
<1>6. HeapTypes'
  BY <1>1, <1>5, OnceFacts, SizeFacts DEF HeapTypes
<1>7. LogTypes'
  BY <1>3, FS_EmptySet DEF RomCrash, LogTypes
<1>8. View(Recovered(m, b, s, u)) \in [Words -> Nat]
  BY <1>5, ViewType, RecoveredType
<1>9. CallTypes'
  <2>1. hist' \in Seq([Words -> Nat]) /\ Len(hist') = 1
    BY <1>1, <1>8
  <2>2. Call0 \in Calls /\ Call0.took = NONE
    BY DEF Call0, Calls
  <2>3. /\ fc' = [t \in Threads |-> NONE] /\ lfc' = fc' /\ out' = fc' /\ acked' = 1
        /\ call' = [t \in Threads |-> Call0]
    BY DEF RomCrash
  <2>4. QED
    BY <1>3, <2>1, <2>2, <2>3 DEF CallTypes, Results
<1>10. PlaceTypes' /\ Requests'
  <2>1. /\ pc' = [t \in Threads |-> "idle"] /\ i' = [t \in Threads |-> 0]
        /\ fc' = [t \in Threads |-> NONE] /\ boot' = "recover"
    BY DEF RomCrash
  <2>2. QED
    BY <2>1, IdleFacts, SizeFacts DEF PlaceTypes, Requests
<1>11. Booting'
  <2>1. MainFlushed' /\ BackFlushed'
    BY <1>1, <1>5, OnceFacts DEF MainFlushed, BackFlushed
  <2>2. /\ s = "IDLE" => Twins' /\ m[0] <= u
        /\ s = "COPYING" => m[0] <= u
        /\ s = "MUTATING" => b[0] <= u
    BY <1>1, <1>4 DEF Found, Twins, Agree
  <2>3. /\ entries' = {} /\ logEnabled' /\ todo' = <<>> /\ boot' = "recover"
    BY DEF RomCrash
  <2>4. hist'[1] = View(Recovered(main, back, state, used))' /\ Len(hist') = 1
    BY <1>1
  <2>5. QED
    BY <1>1, <1>3, <1>5, <2>1, <2>2, <2>3, <2>4 DEF Booting
<1>12. Copies'
  BY <1>11 DEF RomCrash, Copies
<1>13. QED
  BY <1>6, <1>7, <1>9, <1>10, <1>12 DEF RInv

(* A step of recover().                                                    *)
LEMMA BootStep ==
  ASSUME RInv, boot # "up", boot' \in {"up", "fence", "idle"},
         UNCHANGED <<logVars, combVars, pc, i, ghostVars>>, HeapTypes',
         boot' = "up" => Phase("w_unlock")',
         boot' # "up" => Booting'
  PROVE  RInv'
<1> USE DEF logVars, combVars, ghostVars
<1>1. LogTypes' /\ CallTypes' /\ PlaceTypes'
  BY DEF RInv, LogTypes, CallTypes, PlaceTypes, Whole
<1>2. Requests'
  <2>1. \A t \in Threads : Combining(t)' = Combining(t)
    BY DEF Combining, Collected, Cleared
  <2>2. QED
    BY <2>1 DEF RInv, Requests
<1>3. \A t \in Threads : pc[t] = "idle"
  BY DEF RInv, Copies
<1>4. Copies'
  <2>1. \A p \in Critical : At(p)' => p = "w_unlock"
    BY <1>3 DEF At, Critical, Resting, Mutated, Excluding, Published, Turning
  <2>2. QED
    BY <1>3, <2>1 DEF Copies
<1>5. QED
  BY <1>1, <1>2, <1>4 DEF RInv

LEMMA RecoverCopyStep ==
  ASSUME RInv, RecoverCopy
  PROVE  RInv'
<1> USE DEF RecoverCopy, headVars
<1>1. /\ Booting /\ boot = "recover" /\ MainFlushed /\ BackFlushed
      /\ pstate = {state} /\ pused = {used} /\ Whole
      /\ hist[1] = View(Recovered(main, back, state, used)) /\ Len(hist) = 1
      /\ state = "IDLE" => Twins
      /\ state # "MUTATING" => main[0] <= used
      /\ state = "MUTATING" => back[0] <= used
  BY DEF RInv, Copies, Booting
<1>2. /\ main \in [Words -> Nat] /\ back \in [Words -> Nat] /\ used \in Words
      /\ main[0] \in Words /\ back[0] \in Words
      /\ pmain \in [Words -> SUBSET Nat] /\ pmain[0] \subseteq Words
      /\ pback \in [Words -> SUBSET Nat] /\ pback[0] \subseteq Words
      /\ state \in {"IDLE", "MUTATING", "COPYING"}
  BY DEF RInv, HeapTypes
<1>3. main' \in [Words -> Nat] /\ main'[0] \in Words
  BY <1>2, RecoveredType, SizeFacts DEF Recovered
<1>4. back' \in [Words -> Nat] /\ back'[0] \in Words
  BY <1>2, SizeFacts
<1>5. HeapTypes'
  <2>1. /\ pmain' \in [Words -> SUBSET Nat] /\ pmain'[0] \subseteq Words
        /\ pback' \in [Words -> SUBSET Nat] /\ pback'[0] \subseteq Words
        /\ \A a \in Words : main'[a] \in pmain'[a] /\ back'[a] \in pback'[a]
    BY <1>2, <1>3, <1>4, SizeFacts
  <2>2. QED
    BY <1>3, <1>4, <2>1 DEF RInv, HeapTypes
<1>6. CASE state = "IDLE"
  <2>1. main' = main /\ back' = back /\ boot' = "up"
    BY <1>6 DEF Recovered
  <2>2. MainFlushed' /\ BackFlushed'
    BY <1>1, <2>1 DEF MainFlushed, BackFlushed
  <2>3. Phase("w_unlock")'
    <3>1. PhaseState("w_unlock")'
      BY <1>6 DEF PhaseState, Mutated, Published, Excluding, Turning
    <3>2. Logged'
      <4>1. \A a \in 0 .. main[0] : a \in 0 .. used
        BY <1>1, <1>2, <1>6, SizeFacts
      <4>2. QED
        BY <1>1, <1>6, <2>1, <4>1 DEF Logged, Twins, Agree
    <3>3. PhaseLog("w_unlock")'
      BY <1>1, <1>6, <2>1, <3>2 DEF PhaseLog, Booting, logVars, combVars
    <3>4. PhaseMain("w_unlock")'
      <4>1. Last(hist) = View(main)
        BY <1>1, <1>6 DEF Last, Recovered
      <4>2. QED
        BY <2>1, <2>2, <4>1 DEF PhaseMain, MainFlushed, Last, ghostVars
    <3>5. PhaseBack("w_unlock")'
      BY <2>2 DEF PhaseBack, BackFlushed, Mutated, Excluding
    <3>6. QED
      BY <3>1, <3>3, <3>4, <3>5 DEF Phase
  <2>4. QED
    BY <1>1, <1>5, <2>1, <2>3, BootStep
<1>7. CASE state # "IDLE"
  <2>1. boot' = "fence"
    BY <1>7
  <2>2. CASE state = "MUTATING"
    <3>1. /\ main' = Recovered(main, back, "MUTATING", used) /\ back' = back
          /\ hist[1] = View(main')
      BY <1>1, <2>2
    <3>2. main'[0] = back[0]
      BY <1>1, <1>2, <2>2, <3>1, RecoveredBack
    <3>3. Twins'
      <4>1. \A a \in 0 .. used : a \in Words /\ a <= used
        BY <1>2, SizeFacts DEF Words
      <4>2. QED
        BY <3>1, <4>1 DEF Twins, Agree, Recovered
    <3>4. BackFlushed'
      BY <1>1, <3>1 DEF BackFlushed
    <3>5. Booting'
      BY <1>1, <1>7, <2>1, <2>2, <3>1, <3>2, <3>3, <3>4
         DEF Booting, Whole, logVars, combVars, ghostVars
    <3>6. QED
      BY <1>1, <1>5, <2>1, <3>5, BootStep
  <2>3. CASE state = "COPYING"
    <3>1. /\ main' = main /\ hist[1] = View(main)
          /\ back' = [a \in Words |-> IF a <= used THEN main[a] ELSE back[a]]
      BY <1>1, <2>3 DEF Recovered
    <3>2. Twins'
      <4>1. \A a \in 0 .. used : a \in Words /\ a <= used
        BY <1>2, SizeFacts DEF Words
      <4>2. QED
        BY <3>1, <4>1 DEF Twins, Agree
    <3>3. MainFlushed'
      BY <1>1, <3>1 DEF MainFlushed
    <3>4. Booting'
      BY <1>1, <1>7, <2>1, <2>3, <3>1, <3>2, <3>3
         DEF Booting, Whole, logVars, combVars, ghostVars
    <3>5. QED
      BY <1>1, <1>5, <2>1, <3>4, BootStep
  <2>4. QED
    BY <1>2, <1>7, <2>2, <2>3
<1>8. QED
  BY <1>6, <1>7

LEMMA RecoverFenceStep ==
  ASSUME RInv, RecoverFence
  PROVE  RInv'
<1> USE DEF RecoverFence, headVars
<1>1. Booting /\ boot = "fence" /\ boot' = "idle"
  BY DEF RInv, Copies
<1>2. main \in [Words -> Nat] /\ main[0] \in Words /\ back \in [Words -> Nat] /\ back[0] \in Words
  BY DEF RInv, HeapTypes
<1>3. HeapTypes'
  BY <1>2, OnceFacts, SizeFacts DEF RInv, HeapTypes
<1>4. MainFlushed' /\ BackFlushed'
  BY <1>2, OnceFacts DEF MainFlushed, BackFlushed
<1>5. Booting'
  BY <1>1, <1>4 DEF Booting, Twins, Agree, Whole, logVars, combVars, ghostVars
<1>6. QED
  BY <1>1, <1>3, <1>5, BootStep

LEMMA RecoverIdleStep ==
  ASSUME RInv, RecoverIdle
  PROVE  RInv'
<1> USE DEF RecoverIdle, heapVars, backVars, logVars, combVars, ghostVars
<1>1. /\ Booting /\ boot = "idle" /\ boot' = "up" /\ MainFlushed /\ BackFlushed
      /\ Twins /\ main[0] <= used /\ hist[1] = View(main) /\ Len(hist) = 1
      /\ pused = {used} /\ entries = {} /\ logEnabled /\ todo = <<>>
  BY DEF RInv, Copies, Booting
<1>2. HeapTypes'
  BY DEF RInv, HeapTypes
<1>3. Phase("w_unlock")'
  <2>1. PhaseState("w_unlock")'
    BY DEF PhaseState, Mutated, Published, Excluding, Turning
  <2>2. Logged'
    <3>1. \A a \in 0 .. main[0] : a \in 0 .. used
      BY <1>1, SizeFacts DEF RInv, HeapTypes
    <3>2. QED
      BY <1>1, <3>1 DEF Logged, Twins, Agree
  <2>3. PhaseLog("w_unlock")'
    BY <1>1, <2>2 DEF PhaseLog
  <2>4. PhaseMain("w_unlock")' /\ PhaseBack("w_unlock")'
    BY <1>1 DEF PhaseMain, PhaseBack, MainFlushed, BackFlushed, Last, Mutated, Excluding
  <2>5. QED
    BY <2>1, <2>3, <2>4 DEF Phase
<1>4. QED
  BY <1>1, <1>2, <1>3, BootStep

LEMMA RecoverStep ==
  ASSUME RInv, Recover
  PROVE  RInv'
BY RecoverCopyStep, RecoverFenceStep, RecoverIdleStep DEF Recover
LEMMA Stutter ==
  ASSUME RInv, UNCHANGED romVars
  PROVE  RInv'
<1> USE DEF romVars, combVars, ghostVars
<1>1. Whole' = Whole /\ UNCHANGED <<memVars, todo, hist>>
  BY DEF Whole
<1>2. HeapTypes' /\ LogTypes'
  BY <1>1, HeapSame
<1>3. PlaceTypes' /\ CallTypes'
  BY DEF RInv, PlaceTypes, CallTypes, Whole
<1>4. Copies'
  <2>1. \A p \in Critical : Phase(p) => Phase(p)'
    BY <1>1, PhaseMoves
  <2>2. Booting => Booting'
    BY DEF Booting, MainFlushed, BackFlushed, Twins, Agree, Whole, memVars,
           heapVars, backVars, headVars, logVars
  <2>3. QED
    BY <2>1, <2>2 DEF RInv, Copies, At
<1>5. Requests'
  <2>1. \A t \in Threads : Combining(t)' = Combining(t)
    BY DEF Combining, Collected, Cleared
  <2>2. QED
    BY <2>1 DEF RInv, Requests
<1>6. QED
  BY <1>2, <1>3, <1>4, <1>5 DEF RInv

-----------------------------------------------------------------------------
(* The first states, and what RInv shows.                                  *)
LEMMA HeapZero ==
  Heap0 \in [Words -> Nat] /\ (\A a \in Words : Heap0[a] = 0) /\ View(Heap0) = Heap0
BY SizeFacts DEF Heap0, View

LEMMA InitRInv ==
  ASSUME LogsFit, RomInit
  PROVE  RInv
<1> USE DEF RomInit
<1>1. work \in Workload /\ (work.crashes = 0 \/ Whole)
  BY RomulusAssumption DEF LogsFit, Whole
<1>2. HeapTypes
  BY HeapZero, OnceFacts, SizeFacts DEF HeapTypes
<1>3. LogTypes
  BY FS_EmptySet DEF LogTypes
<1>4. PlaceTypes /\ Requests
  BY IdleFacts, SizeFacts DEF PlaceTypes, Requests
<1>5. CallTypes
  <2>1. Call0 \in Calls /\ Call0.took = NONE
    BY DEF Call0, Calls
  <2>2. hist \in Seq([Words -> Nat]) /\ Len(hist) = 1
    BY HeapZero
  <2>3. QED
    BY <1>1, <2>1, <2>2 DEF CallTypes, Results
<1>6. Phase("w_unlock")
  <2>1. PhaseState("w_unlock")
    BY DEF PhaseState, Mutated, Published, Excluding, Turning
  <2>2. Logged
    BY HeapZero, SizeFacts DEF Logged, Agree, Words
  <2>3. PhaseLog("w_unlock")
    BY <2>2, HeapZero, SizeFacts DEF PhaseLog
  <2>4. PhaseMain("w_unlock") /\ PhaseBack("w_unlock")
    BY HeapZero, OnceFacts DEF PhaseMain, PhaseBack, Last, Mutated, Excluding
  <2>5. QED
    BY <2>1, <2>3, <2>4 DEF Phase
<1>7. Copies
  <2>1. \A p \in Critical : At(p) => p = "w_unlock"
    BY IdleFacts DEF At
  <2>2. QED
    BY <1>6, <2>1 DEF Copies
<1>8. QED
  BY <1>2, <1>3, <1>4, <1>5, <1>7 DEF RInv

LEMMA Typed ==
  ASSUME RInv
  PROVE  RomTypeOK
<1>1. /\ entries \subseteq Words /\ logSize \in Nat
  BY LogSize DEF RInv, LogTypes
<1>2. QED
  BY <1>1 DEF RInv, HeapTypes, LogTypes, PlaceTypes, CallTypes, RomTypeOK

LEMMA Agreeing ==
  ASSUME RInv
  PROVE  TwinsAgree
<1> SUFFICES ASSUME boot = "up", state = "IDLE", NEW a \in 0 .. used
             PROVE  back[a] = main[a] /\ pback[a] = {main[a]}
  BY DEF TwinsAgree
<1>1. \E q \in Critical : At(q)
  <2>1. CASE \E t \in Threads : pc[t] \in Critical
    BY <2>1 DEF At
  <2>2. CASE \A t \in Threads : pc[t] \notin Critical
    BY <2>2 DEF At, Critical, Resting
  <2>3. QED
    BY <2>1, <2>2
<1>2. PICK q \in Critical : Phase(q)
  BY <1>1 DEF RInv, Copies
<1>3. q \in Resting
  BY <1>2 DEF Phase, PhaseState, Critical, Mutated
<1>4. Twins /\ q # "w_back2"
  BY <1>2, <1>3, RestingTwins DEF Resting
<1>5. a \in Words
  BY SizeFacts DEF RInv, HeapTypes, Words
<1>6. QED
  BY <1>2, <1>4, <1>5 DEF Twins, Agree, Phase, PhaseBack

LEMMA Trusted ==
  ASSUME RInv
  PROVE  TrustedCopyWhole
<1> SUFFICES ASSUME Whole, NEW s \in pstate, NEW u \in pused,
                    NEW m \in Picks(pmain), NEW b \in Picks(pback)
             PROVE  LET r == View(Recovered(m, b, s, u)) IN
                    \/ \E n \in acked .. Len(hist) : r = hist[n]
                    \/ s = "COPYING" /\ r = View(main)
  BY DEF TrustedCopyWhole, Whole
<1>1. Found(m, b, s, u)
  BY AnyFound
<1>2. /\ m \in [Words -> Nat] /\ b \in [Words -> Nat] /\ u \in Words
      /\ s \in {"IDLE", "MUTATING", "COPYING"}
  BY PicksType DEF RInv, HeapTypes
<1>3. Len(hist) \in acked .. Len(hist)
  BY DEF RInv, CallTypes
<1>4. CASE s = "MUTATING"
  BY <1>1, <1>2, <1>3, <1>4, RecoveredBack DEF Found, Last
<1>5. CASE s = "COPYING"
  BY <1>1, <1>5 DEF Found, Recovered
<1>6. CASE s = "IDLE"
  BY <1>1, <1>3, <1>6 DEF Found, Recovered, Last
<1>7. QED
  BY <1>2, <1>4, <1>5, <1>6

LEMMA Consistent ==
  ASSUME RInv
  PROVE  CopiesConsistent
BY Typed, Agreeing, Trusted DEF CopiesConsistent

LEMMA Cleaned ==
  ASSUME RInv
  PROVE  ClearedAreDone
BY Answered DEF ClearedAreDone, RInv, Requests

-----------------------------------------------------------------------------
(***************************************************************************)
(* DurableTransactions: the commits of hist are the log of DurableStore,   *)
(* the requests of one combiner, in the order of their threads, one of its *)
(* commits.                                                                *)
(***************************************************************************)

(* Where what was run is not yet committed.                                *)
Finishing == {"w_copying", "w_copying2", "w_left"}

(* The heap once the stores s are done.                                    *)
StoreTo(s, a) == CHOOSE e \in Range(s) : e.a = a
Coming(m, s) ==
  [a \in Words |-> IF \E n \in DOMAIN s : s[n].a = a THEN StoreTo(s, a).v ELSE m[a]]

(* What the last request of o has made of the last commit.                 *)
Result(o) == IF o = <<>> THEN Last(hist) ELSE out[o[Len(o)]]

(* o is the order in which the requests collected from the threads below n *)
(* were run, each on what the one before made; main is getting there.      *)
Order(o, n) ==
  /\ Len(o) <= n
  /\ \A j, k \in 1 .. Len(o) : o[j] = o[k] => j = k
  /\ \A u \in Threads : u < n /\ lfc[u] # NONE <=> \E k \in 1 .. Len(o) : o[k] = u
  /\ \A k \in 1 .. Len(o) :
       out[o[k]] = Run(IF k = 1 THEN Last(hist) ELSE out[o[k - 1]], lfc[o[k]])
  /\ View(Coming(main, todo)) = Result(o)

Ordered ==
  \A h \in Threads :
    /\ pc[h] = "w_run" => \E o \in Seq(Threads) : Order(o, i[h])
    /\ pc[h] \in Finishing => \E o \in Seq(Threads) : Order(o, MaxThreads)

(* A request that is posted has no result, unless it is one a combiner has *)
(* committed and not cleared yet.                                          *)
Committed(h, u) ==
  /\ lfc[u] # NONE
  /\ pc[h] \in Turning \union {"w_clear"}
  /\ pc[h] = "w_clear" => i[h] <= u

Undone ==
  \A u \in Threads :
    fc[u] # NONE => call[u].took = NONE \/ \E h \in Threads : Committed(h, u)

Opened ==
  \A t \in Threads :
    /\ pc[t] = "idle" => call[t] = Call0
    /\ pc[t] \in Reading => call[t].op = READ /\ call[t].took = NONE
    /\ call[t].from <= Len(hist)

Linear == Ordered /\ Undone /\ Opened

-----------------------------------------------------------------------------
(* Induction over Nat, for a set of numbers.                               *)
LEMMA Induction ==
  ASSUME NEW P \in SUBSET Nat, 0 \in P, \A n \in P : n + 1 \in P
  PROVE  P = Nat
<1> SUFFICES ASSUME NEW z \in Nat, z \notin P PROVE FALSE
  OBVIOUS
<1> DEFINE T == {0 .. n : n \in Nat \ P}
<1>1. T # {} /\ T \subseteq FiniteSubsetsOf(Nat)
  <2>1. \A n \in Nat : IsFiniteSet(0 .. n)
    BY FS_Interval
  <2>2. QED
    BY <2>1 DEF FiniteSubsetsOf
<1>2. PICK S \in T : \A U \in T : <<U, S>> \notin StrictSubsetOrdering(Nat)
  <2> HIDE DEF T
  <2>1. IsWellFoundedOn(StrictSubsetOrdering(Nat), FiniteSubsetsOf(Nat))
    BY FS_StrictSubsetOrderingWellFounded
  <2>2. QED
    BY <1>1, <2>1, WFMin
<1>3. PICK n \in Nat \ P : S = 0 .. n
  BY <1>2
<1>4. n # 0 /\ n - 1 \in Nat \ P
  BY <1>3
<1>5. 0 .. (n - 1) \in T
  BY <1>4
<1>6. 0 .. (n - 1) \subseteq S /\ n \in S /\ n \notin 0 .. (n - 1)
  BY <1>3
<1>7. <<0 .. (n - 1), S>> \in StrictSubsetOrdering(Nat)
  BY <1>3, <1>4, <1>6 DEF StrictSubsetOrdering
<1>8. QED
  BY <1>2, <1>5, <1>7

(* After(o) is what the requests of o did one after the other.             *)
LEMMA AfterOrder ==
  ASSUME hist \in Seq([Words -> Nat]), NEW o \in Seq(Threads),
         \A k \in 1 .. Len(o) : call[o[k]].op = lfc[o[k]],
         \A k \in 1 .. Len(o) :
           out[o[k]] = Run(IF k = 1 THEN Last(hist) ELSE out[o[k - 1]], lfc[o[k]])
  PROVE  \A n \in 0 .. Len(o) :
           Abstract!After(o)[n] = IF n = 0 THEN Last(hist) ELSE out[o[n]]
<1> DEFINE E(f) == [n \in 0 .. Len(o) |->
                      IF n = 0 THEN Abstract!Last(hist)
                      ELSE Run(f[n - 1], [t \in Threads |-> call[t].op][o[n]])]
           g == [n \in 0 .. Len(o) |-> IF n = 0 THEN Last(hist) ELSE out[o[n]]]
           after == Abstract!After(o)
           P == {n \in Nat : n <= Len(o) => after[n] = g[n]}
<1>1. Abstract!Last(hist) = Last(hist)
  BY DEF Abstract!Last, Last
<1>2. \A n \in 1 .. Len(o) : o[n] \in Threads /\ n - 1 \in 0 .. Len(o)
  OBVIOUS
<1>3. \A n \in 1 .. Len(o) : g[n] = Run(g[n - 1], [t \in Threads |-> call[t].op][o[n]])
  BY <1>2
<1>4. g = E(g)
  <2>1. \A n \in 0 .. Len(o) : g[n] = E(g)[n]
    BY <1>1, <1>3
  <2>2. QED
    BY <2>1
<1>5. after = CHOOSE f : f = E(f)
  BY DEF Abstract!After
<1> HIDE DEF after
<1>6. after = E(after)
  <2> HIDE DEF E, g
  <2>1. QED
    BY <1>4, <1>5
<1>7. 0 \in P
  BY <1>1, <1>6
<1>8. ASSUME NEW n \in P PROVE n + 1 \in P
  <2> SUFFICES ASSUME n + 1 <= Len(o) PROVE after[n + 1] = g[n + 1]
    OBVIOUS
  <2>1. n \in Nat /\ after[n] = g[n] /\ n + 1 \in 1 .. Len(o)
    OBVIOUS
  <2>2. after[n + 1] = Run(after[n], [t \in Threads |-> call[t].op][o[n + 1]])
    <3>1. (n + 1) - 1 = n /\ n + 1 # 0 /\ n + 1 \in 0 .. Len(o)
      BY <2>1
    <3>2. after[n + 1] = Run(after[(n + 1) - 1], [t \in Threads |-> call[t].op][o[n + 1]])
      BY <1>6, <3>1, Zenon
    <3>3. QED
      BY <3>1, <3>2
  <2>3. g[n + 1] = Run(g[n], [t \in Threads |-> call[t].op][o[n + 1]])
    BY <1>3, <2>1
  <2>4. QED
    BY <2>1, <2>2, <2>3
<1>9. P = Nat
  <2> HIDE DEF P
  <2>1. P \in SUBSET Nat
    BY DEF P
  <2>2. QED
    BY <1>7, <1>8, <2>1, Induction
<1>10. \A n \in 0 .. Len(o) : after[n] = g[n]
  <2> HIDE DEF g
  <2>1. QED
    BY <1>9
<1>11. QED
  BY <1>10 DEF after

-----------------------------------------------------------------------------
(* A step between places that say the same of the requests.                *)
Harmless(h) ==
  /\ pc'[h] = "w_run" => pc[h] = "w_run" /\ i'[h] = i[h]
  /\ pc'[h] \in Finishing => pc[h] \in Finishing
  /\ pc[h] \in Turning \union {"w_clear"} =>
       /\ pc'[h] \in Turning \union {"w_clear"}
       /\ pc'[h] = "w_clear" => i'[h] = 0 \/ (i'[h] = i[h] /\ pc[h] = "w_clear")
  /\ pc'[h] = "idle" => pc[h] = "idle"
  /\ pc'[h] \in Reading => pc[h] \in Reading

LEMMA OrderKept ==
  ASSUME UNCHANGED <<lfc, out, main, todo, hist>>, NEW o, NEW n, Order(o, n)
  PROVE  Order(o, n)'
BY DEF Order, Result, Last

LEMMA HarmlessLinear ==
  ASSUME Linear, UNCHANGED <<fc, lfc, out, main, todo, hist, call>>,
         \A h \in Threads : Harmless(h)
  PROVE  Linear'
<1>1. Ordered'
  <2> SUFFICES ASSUME NEW h \in Threads
      PROVE  /\ pc'[h] = "w_run" => \E o \in Seq(Threads) : Order(o, i[h])'
             /\ pc'[h] \in Finishing => \E o \in Seq(Threads) : Order(o, MaxThreads)'
    BY DEF Ordered
  <2>1. CASE pc'[h] = "w_run"
    <3>1. pc[h] = "w_run" /\ i'[h] = i[h]
      BY <2>1 DEF Harmless
    <3>2. PICK o \in Seq(Threads) : Order(o, i[h])
      BY <3>1 DEF Linear, Ordered
    <3>3. Order(o, i[h])'
      <4>1. ASSUME NEW n, n = i[h] PROVE Order(o, n)'
        BY <3>2, <4>1, OrderKept
      <4>2. QED
        BY <3>1, <4>1 DEF Order, Result, Last
    <3>4. QED
      BY <2>1, <3>3 DEF Finishing
  <2>2. CASE pc'[h] \in Finishing
    <3>1. PICK o \in Seq(Threads) : Order(o, MaxThreads)
      BY <2>2 DEF Harmless, Linear, Ordered
    <3>2. Order(o, MaxThreads)'
      BY <3>1, OrderKept
    <3>3. QED
      BY <2>2, <3>2 DEF Finishing
  <2>3. QED
    BY <2>1, <2>2
<1>2. Undone'
  <2> SUFFICES ASSUME NEW u \in Threads, fc[u] # NONE, call[u].took # NONE
               PROVE  \E h \in Threads : Committed(h, u)'
    BY DEF Undone
  <2>1. PICK h \in Threads : Committed(h, u)
    BY DEF Linear, Undone
  <2>2. Committed(h, u)'
    BY <2>1 DEF Committed, Harmless, Threads
  <2>3. QED
    BY <2>2
<1>3. Opened'
  BY DEF Linear, Opened, Harmless
<1>4. QED
  BY <1>1, <1>2, <1>3 DEF Linear

(* A step of a thread outside the writers' critical section.               *)
LEMMA OutsideOrdered ==
  ASSUME Linear, UNCHANGED <<lfc, out, main, todo, hist>>,
         \A h \in Threads : Harmless(h) \/ pc'[h] \in Outside
  PROVE  Ordered'
<1> SUFFICES ASSUME NEW h \in Threads
    PROVE  /\ pc'[h] = "w_run" => \E o \in Seq(Threads) : Order(o, i[h])'
           /\ pc'[h] \in Finishing => \E o \in Seq(Threads) : Order(o, MaxThreads)'
  BY DEF Ordered
<1>1. CASE pc'[h] = "w_run"
  <2>1. pc[h] = "w_run" /\ i'[h] = i[h]
    BY <1>1 DEF Harmless, Outside, Reading
  <2>2. PICK o \in Seq(Threads) : Order(o, i[h])
    BY <2>1 DEF Linear, Ordered
  <2>3. Order(o, i[h])'
    BY <2>1, <2>2 DEF Order, Result, Last
  <2>4. QED
    BY <1>1, <2>3 DEF Finishing
<1>2. CASE pc'[h] \in Finishing
  <2>1. PICK o \in Seq(Threads) : Order(o, MaxThreads)
    BY <1>2 DEF Harmless, Linear, Ordered, Outside, Reading, Finishing
  <2>2. Order(o, MaxThreads)'
    BY <2>1, OrderKept
  <2>3. QED
    BY <1>2, <2>2 DEF Finishing
<1>3. QED
  BY <1>1, <1>2

LEMMA PostLinear ==
  ASSUME RInv, Linear, NEW t \in Threads, NEW op \in Words, Post(t, op)
  PROVE  Linear'
<1> USE DEF Post, Goto, Open
<1>1. /\ pc[t] = "idle" /\ pc \in [Threads -> Critical \union Outside]
      /\ call \in [Threads -> Calls] /\ fc \in [Threads -> Words \union {NONE}]
      /\ Len(hist) \in Nat
  BY DEF RInv, PlaceTypes, CallTypes
<1>2. \A h \in Threads : Harmless(h) \/ pc'[h] \in Outside
  BY <1>1 DEF Harmless, Outside
<1>3. Ordered'
  BY <1>2, OutsideOrdered DEF memVars, heapVars
<1>4. \A u \in Threads : u # t => call'[u] = call[u] /\ fc'[u] = fc[u] /\ pc'[u] = pc[u]
  BY <1>1
<1>5. call'[t].took = NONE /\ call'[t].from = Len(hist) /\ pc'[t] = "w_lock"
  BY <1>1 DEF Call0
<1>6. Undone'
  <2> SUFFICES ASSUME NEW u \in Threads, fc'[u] # NONE, call'[u].took # NONE
               PROVE  \E h \in Threads : Committed(h, u)'
    BY DEF Undone
  <2>1. PICK h \in Threads : Committed(h, u)
    BY <1>4, <1>5 DEF Linear, Undone
  <2>2. h # t
    BY <1>1, <2>1 DEF Committed, Turning
  <2>3. Committed(h, u)'
    BY <1>4, <2>1, <2>2 DEF Committed
  <2>4. QED
    BY <2>3
<1>7. Opened'
  BY <1>1, <1>4, <1>5 DEF Linear, Opened, Reading
<1>8. QED
  BY <1>3, <1>6, <1>7 DEF Linear

LEMMA OpenReadLinear ==
  ASSUME RInv, Linear, NEW t \in Threads, NEW to \in Reading, Goto(t, "idle", to),
         Open(t, READ), UNCHANGED <<memVars, combVars, i>>
  PROVE  Linear'
<1> USE DEF Goto, Open
<1>1. /\ pc[t] = "idle" /\ pc \in [Threads -> Critical \union Outside]
      /\ call \in [Threads -> Calls] /\ Len(hist) \in Nat
  BY DEF RInv, PlaceTypes, CallTypes
<1>2. \A h \in Threads : Harmless(h) \/ pc'[h] \in Outside
  BY <1>1 DEF Harmless, Outside
<1>3. Ordered'
  BY <1>2, OutsideOrdered DEF memVars, heapVars, combVars
<1>4. \A u \in Threads : u # t => call'[u] = call[u] /\ pc'[u] = pc[u]
  BY <1>1
<1>5. /\ call'[t].took = NONE /\ call'[t].from = Len(hist) /\ call'[t].op = READ
      /\ pc'[t] = to
  BY <1>1 DEF Call0
<1>6. Undone'
  <2> SUFFICES ASSUME NEW u \in Threads, fc'[u] # NONE, call'[u].took # NONE
               PROVE  \E h \in Threads : Committed(h, u)'
    BY DEF Undone
  <2>1. PICK h \in Threads : Committed(h, u)
    BY <1>4, <1>5 DEF Linear, Undone, combVars
  <2>2. h # t
    BY <1>1, <2>1 DEF Committed, Turning
  <2>3. Committed(h, u)'
    BY <1>4, <2>1, <2>2 DEF Committed, combVars
  <2>4. QED
    BY <2>3
<1>7. Opened'
  BY <1>1, <1>4, <1>5 DEF Linear, Opened, Reading
<1>8. QED
  BY <1>3, <1>6, <1>7 DEF Linear

(* The end of a call: it has nothing posted any more.                      *)
LEMMA CloseLinear ==
  ASSUME RInv, Linear, NEW t \in Threads, NEW from, Goto(t, from, "idle"),
         from \notin Turning \union {"w_clear"}, fc[t] = NONE,
         NEW v, NEW at, Close(t, v, at), UNCHANGED <<memVars, combVars, i>>
  PROVE  Linear'
<1> USE DEF Goto, Close
<1>1. /\ pc[t] = from /\ pc \in [Threads -> Critical \union Outside]
      /\ call \in [Threads -> Calls] /\ Len(hist) \in Nat
  BY DEF RInv, PlaceTypes, CallTypes
<1>2. \A h \in Threads : Harmless(h) \/ pc'[h] \in Outside
  BY <1>1 DEF Harmless, Outside
<1>3. Ordered'
  BY <1>2, OutsideOrdered DEF memVars, heapVars, combVars
<1>4. \A u \in Threads : u # t => call'[u] = call[u] /\ pc'[u] = pc[u]
  BY <1>1
<1>5. call'[t] = Call0 /\ pc'[t] = "idle"
  BY <1>1
<1>6. Undone'
  <2> SUFFICES ASSUME NEW u \in Threads, fc'[u] # NONE, call'[u].took # NONE
               PROVE  \E h \in Threads : Committed(h, u)'
    BY DEF Undone
  <2>1. PICK h \in Threads : Committed(h, u)
    BY <1>4, <1>5 DEF Linear, Undone, combVars, Call0
  <2>2. h # t
    BY <1>1, <2>1 DEF Committed
  <2>3. Committed(h, u)'
    BY <1>4, <2>1, <2>2 DEF Committed, combVars
  <2>4. QED
    BY <2>3
<1>7. Opened'
  <2>1. call'[t].from <= Len(hist')
    BY <1>1, <1>5 DEF Call0
  <2>2. QED
    BY <1>1, <1>4, <1>5, <2>1 DEF Linear, Opened, Reading
<1>8. QED
  BY <1>3, <1>6, <1>7 DEF Linear

LEMMA CollectLinear ==
  ASSUME RInv, Linear, Alone, NEW t \in Threads, Collect(t)
  PROVE  Linear'
<1> USE DEF Collect, Goto
<1>1. /\ pc[t] = "w_collect" /\ pc \in [Threads -> Critical \union Outside]
      /\ pc[t] \in Critical
  BY DEF RInv, PlaceTypes, Critical, Resting
<1>2. /\ UNCHANGED <<fc, call, hist>>
      /\ pc'[t] \in {"w_collect", "w_nothing", "w_mutating"}
      /\ \A u \in Threads : u # t => pc'[u] = pc[u] /\ pc[u] \notin Critical
  BY <1>1 DEF ghostVars, Alone
<1>3. \A h \in Threads : pc'[h] # "w_run" /\ pc'[h] \notin Finishing
  BY <1>2 DEF Finishing, Critical, Mutated, Published
<1>4. \A h, u \in Threads : ~Committed(h, u)
  BY <1>1, <1>2 DEF Committed, Turning, Critical, Published
<1>5. \A h \in Threads : /\ pc'[h] = "idle" => pc[h] = "idle"
                         /\ pc'[h] \in Reading => pc[h] \in Reading
  BY <1>2 DEF Reading
<1>6. QED
  BY <1>2, <1>3, <1>4, <1>5 DEF Linear, Ordered, Undone, Opened

LEMMA ClearFcLinear ==
  ASSUME RInv, Linear, Alone, NEW t \in Threads, ClearFc(t)
  PROVE  Linear'
<1> USE DEF ClearFc, Goto
<1>1. /\ pc[t] = "w_clear" /\ pc \in [Threads -> Critical \union Outside]
      /\ pc[t] \in Critical /\ i[t] \in Threads /\ i \in [Threads -> 0 .. MaxThreads]
      /\ fc \in [Threads -> Words \union {NONE}]
  BY DEF RInv, PlaceTypes, CallTypes, Critical, Published, Scanning
<1>2. /\ UNCHANGED <<lfc, call, hist>>
      /\ pc'[t] = IF i[t] < MaxThreads - 1 THEN "w_clear" ELSE "w_back"
      /\ \A u \in Threads : u # t => pc'[u] = pc[u] /\ pc[u] \notin Critical
  BY <1>1 DEF ghostVars, Alone
<1>3. \A h \in Threads : pc'[h] # "w_run" /\ pc'[h] \notin Finishing
  BY <1>2 DEF Finishing, Critical, Mutated, Published
<1>4. \A u \in Threads : fc'[u] # NONE =>
        fc[u] # NONE /\ (u = i[t] => lfc[u] = NONE)
  BY <1>1
<1>5. ASSUME NEW u \in Threads, NEW h \in Threads, Committed(h, u), fc'[u] # NONE
      PROVE  Committed(t, u)'
  <2>1. h = t
    BY <1>2, <1>5 DEF Committed, Turning, Critical, Published
  <2>2. lfc[u] # NONE /\ i[t] <= u /\ u # i[t]
    BY <1>1, <1>4, <1>5, <2>1 DEF Committed
  <2>3. i[t] < MaxThreads - 1 /\ i[t] + 1 <= u /\ i'[t] = i[t] + 1
    <3>1. i[t] < MaxThreads - 1 /\ i[t] + 1 <= u /\ i'[t] = (i[t] + 1) % MaxThreads
      BY <1>1, <2>2, SizeFacts DEF Threads
    <3>2. QED
      BY <1>1, <3>1, Wraps
  <2>4. QED
    BY <1>2, <2>2, <2>3 DEF Committed
<1>6. Undone'
  BY <1>2, <1>4, <1>5 DEF Linear, Undone
<1>7. \A h \in Threads : /\ pc'[h] = "idle" => pc[h] = "idle"
                         /\ pc'[h] \in Reading => pc[h] \in Reading
  BY <1>2 DEF Reading
<1>8. QED
  BY <1>2, <1>3, <1>6, <1>7 DEF Linear, Ordered, Opened

-----------------------------------------------------------------------------
(* The stores of a request, done one after the other.                      *)
LEMMA Nothing ==
  ASSUME NEW m \in [Words -> Nat]
  PROVE  Coming(m, <<>>) = m
BY DEF Coming

LEMMA ComingOne ==
  ASSUME NEW m \in [Words -> Nat], NEW e, e.a \in Words
  PROVE  Coming(m, <<e>>) = [m EXCEPT ![e.a] = e.v]
<1> DEFINE s == <<e>>
<1>1. Range(s) = {e} /\ DOMAIN s = {1} /\ s[1] = e
  BY DEF Range
<1> HIDE DEF s
<1>2. \A b \in Words : (\E n \in DOMAIN s : s[n].a = b) <=> b = e.a
  BY <1>1
<1>3. StoreTo(s, e.a) = e
  BY <1>1 DEF StoreTo
<1>4. Coming(m, s) = [m EXCEPT ![e.a] = e.v]
  BY <1>2, <1>3 DEF Coming
<1>5. QED
  BY <1>4 DEF s

LEMMA ComingTwo ==
  ASSUME NEW m \in [Words -> Nat], NEW e, NEW f, e.a \in Words, f.a \in Words,
         e.a # f.a
  PROVE  Coming(m, <<e, f>>) =
           [a \in Words |-> IF a = f.a THEN f.v ELSE IF a = e.a THEN e.v ELSE m[a]]
<1> DEFINE s == <<e, f>>
<1>1. Range(s) = {e, f} /\ DOMAIN s = {1, 2} /\ s[1] = e /\ s[2] = f
  BY DEF Range
<1> HIDE DEF s
<1>2. \A c \in Words : (\E n \in DOMAIN s : s[n].a = c) <=> c = e.a \/ c = f.a
  BY <1>1
<1>3. StoreTo(s, e.a) = e
  BY <1>1 DEF StoreTo
<1>4. StoreTo(s, f.a) = f
  BY <1>1 DEF StoreTo
<1>5. Coming(m, s) = [a \in Words |-> IF a = f.a THEN f.v ELSE IF a = e.a THEN e.v ELSE m[a]]
  BY <1>2, <1>3, <1>4 DEF Coming
<1>6. QED
  BY <1>5 DEF s

LEMMA HeadTail ==
  ASSUME NEW e, NEW f
  PROVE  /\ Head(<<e>>) = e /\ Tail(<<e>>) = <<>>
         /\ Head(<<e, f>>) = e /\ Tail(<<e, f>>) = <<f>>
OBVIOUS

LEMMA ComingAlloc ==
  ASSUME NEW m \in [Words -> Nat], NEW w \in Words, w # 0
  PROVE  Coming([m EXCEPT ![0] = w], <<[a |-> w, v |-> 1]>>)
           = Coming(m, <<[a |-> 0, v |-> w], [a |-> w, v |-> 1]>>)
<1> DEFINE n == [m EXCEPT ![0] = w]
<1>1. 0 \in Words /\ w \in Nat
  BY SizeFacts
<1>2. n \in [Words -> Nat]
  BY <1>1
<1>3. PICK e, f : e = [a |-> 0, v |-> w] /\ f = [a |-> w, v |-> 1]
  OBVIOUS
<1>4. e.a = 0 /\ e.v = w /\ f.a = w /\ f.v = 1
  BY <1>3
<1>5. Coming(n, <<f>>) = [n EXCEPT ![w] = 1]
  <2> HIDE DEF n
  <2>1. Coming(n, <<f>>) = [n EXCEPT ![f.a] = f.v]
    BY <1>2, <1>4, ComingOne, ZenonT(40)
  <2>2. QED
    BY <1>4, <2>1
<1>6. Coming(m, <<e, f>>) =
        [a \in Words |-> IF a = f.a THEN f.v ELSE IF a = e.a THEN e.v ELSE m[a]]
  BY <1>1, <1>4, ComingTwo
<1>7. [n EXCEPT ![w] = 1] = [a \in Words |-> IF a = w THEN 1 ELSE IF a = 0 THEN w ELSE m[a]]
  BY <1>1
<1>8. Coming(n, <<f>>) = Coming(m, <<e, f>>)
  <2> HIDE DEF n
  <2>1. QED
    BY <1>4, <1>5, <1>6, <1>7
<1>9. QED
  BY <1>3, <1>8

(* A store leaves where main is going as it is.                            *)
LEMMA ComingSame ==
  ASSUME main \in [Words -> Nat], main[0] \in Words, Todo, todo # <<>>,
         main' = [main EXCEPT ![Head(todo).a] = Head(todo).v], todo' = Tail(todo)
  PROVE  Coming(main', todo') = Coming(main, todo)
<1>1. ASSUME NEW w \in Words, NEW v \in Nat, todo = <<[a |-> w, v |-> v]>>
      PROVE  Coming(main', todo') = Coming(main, todo)
  <2> DEFINE e == [a |-> w, v |-> v]
  <2>1. e.a = w /\ e.v = v
    OBVIOUS
  <2>2. todo = <<e>>
    BY <1>1
  <2> HIDE DEF e
  <2>3. main' = [main EXCEPT ![w] = v] /\ todo' = <<>>
    BY <2>1, <2>2, HeadTail
  <2>4. main' \in [Words -> Nat]
    BY <2>3
  <2>5. Coming(main, todo) = [main EXCEPT ![w] = v]
    BY <2>1, <2>2, ComingOne
  <2>6. Coming(main', todo') = main'
    BY <2>3, <2>4, Nothing
  <2>7. QED
    BY <2>3, <2>5, <2>6
<1>2. CASE main[0] < Blocks /\ todo = <<[a |-> 0, v |-> main[0] + 1],
                                        [a |-> main[0] + 1, v |-> 1]>>
  <2>1. PICK w \in Words : w = main[0] + 1 /\ w # 0
    BY <1>2, SizeFacts DEF Words
  <2>2. PICK e, f : e = [a |-> 0, v |-> w] /\ f = [a |-> w, v |-> 1]
    OBVIOUS
  <2>3. todo = <<e, f>> /\ e.a = 0 /\ e.v = w
    BY <1>2, <2>1, <2>2
  <2>4. main' = [main EXCEPT ![0] = w] /\ todo' = <<f>>
    BY <2>3, HeadTail
  <2>5. Coming([main EXCEPT ![0] = w], <<f>>) = Coming(main, <<e, f>>)
    BY <2>1, <2>2, ComingAlloc
  <2>6. QED
    BY <2>3, <2>4, <2>5
<1>3. \A w \in Words : main[w] + 1 \in Nat
  OBVIOUS
<1>4. QED
  BY <1>1, <1>2, <1>3 DEF Todo

(* A request does to a heap what it does to what shows of it.              *)
LEMMA ViewRun ==
  ASSUME NEW m \in [Words -> Nat], m[0] \in Words, NEW op \in Words
  PROVE  View(Coming(m, Stores(m, op))) = Run(View(m), op)
<1>1. /\ View(m) \in [Words -> Nat] /\ View(m)[0] = m[0] /\ m[0] \in Nat /\ op \in Nat
      /\ 0 \in Words /\ \A a \in Words : a <= m[0] => View(m)[a] = m[a]
  BY ViewType, SizeFacts DEF View, Words
<1>2. op # READ
  BY SizeFacts
<1>3. Run(View(m), op) = Coming(View(m), Stores(View(m), op))
  BY <1>2 DEF Run, Coming, StoreTo
<1>4. Stores(View(m), op) = Stores(m, op)
  BY <1>1 DEF Stores
<1>5. CASE op = 0 /\ m[0] < Blocks
  <2>1. PICK w \in Words : w = m[0] + 1 /\ w # 0 /\ w \in Nat
    BY <1>1, <1>5, SizeFacts DEF Words
  <2> DEFINE new == [m EXCEPT ![0] = w, ![w] = 1]
             shown == [View(m) EXCEPT ![0] = w, ![w] = 1]
  <2>2. PICK e, f : e = [a |-> 0, v |-> w] /\ f = [a |-> w, v |-> 1]
    OBVIOUS
  <2>3. Stores(m, op) = <<e, f>> /\ e.a = 0 /\ e.v = w /\ f.a = w /\ f.v = 1
    BY <1>5, <2>1, <2>2 DEF Stores
  <2>4. \A a \in Words : a <= w <=> a <= m[0] \/ a = w
    BY <1>1, <2>1 DEF Words
  <2>20. e.a \in Words /\ f.a \in Words /\ e.a # f.a
    BY <1>1, <2>1, <2>3
  <2>5. Coming(m, <<e, f>>) = new
    <3>1. Coming(m, <<e, f>>) =
            [a \in Words |-> IF a = f.a THEN f.v ELSE IF a = e.a THEN e.v ELSE m[a]]
      BY <2>20, ComingTwo
    <3>2. QED
      BY <2>3, <3>1 DEF new
  <2>6. Coming(View(m), <<e, f>>) = shown
    <3>1. Coming(View(m), <<e, f>>) =
            [a \in Words |-> IF a = f.a THEN f.v ELSE IF a = e.a THEN e.v ELSE View(m)[a]]
      BY <1>1, <2>20, ComingTwo
    <3>2. QED
      BY <1>1, <2>3, <3>1, ZenonT(40) DEF shown
  <2>7. new \in [Words -> Nat] /\ new[0] = w /\ shown \in [Words -> Nat]
    BY <1>1, <2>1
  <2>8. ASSUME NEW a \in Words PROVE View(new)[a] = shown[a]
    <3>1. View(new)[a] = IF a <= w THEN new[a] ELSE 0
      BY <2>7 DEF View
    <3>2. View(m)[a] = IF a <= m[0] THEN m[a] ELSE 0
      BY DEF View
    <3>3. QED
      BY <1>1, <2>1, <2>4, <3>1, <3>2
  <2>9. View(new) \in [Words -> Nat]
    BY <2>7, ViewType
  <2>10. View(new) = shown
    <3> HIDE DEF new, shown
    <3>1. QED
      BY <2>7, <2>8, <2>9
  <2>11. QED
    BY <1>3, <1>4, <2>3, <2>5, <2>6, <2>10
<1>6. CASE op \in 1 .. m[0]
  <2>1. PICK v \in Nat : v = m[op] + 1 /\ op # 0 /\ op <= m[0]
    BY <1>1, <1>6
  <2> DEFINE new == [m EXCEPT ![op] = v]
             shown == [View(m) EXCEPT ![op] = v]
  <2>2. PICK e : e = [a |-> op, v |-> v]
    OBVIOUS
  <2>20. Stores(m, op) = <<e>> /\ e.a = op /\ e.v = v
    BY <1>1, <1>6, <2>1, <2>2 DEF Stores
  <2>3. Coming(m, Stores(m, op)) = new
    BY <2>20, ComingOne
  <2>4. Coming(View(m), Stores(m, op)) = shown
    BY <1>1, <2>20, ComingOne
  <2>5. new \in [Words -> Nat] /\ new[0] = m[0] /\ shown \in [Words -> Nat]
    BY <1>1, <2>1
  <2>6. ASSUME NEW a \in Words PROVE View(new)[a] = shown[a]
    <3>1. View(new)[a] = IF a <= m[0] THEN new[a] ELSE 0
      BY <2>5 DEF View
    <3>2. View(m)[a] = IF a <= m[0] THEN m[a] ELSE 0
      BY DEF View
    <3>3. QED
      BY <1>1, <2>1, <3>1, <3>2
  <2>7. View(new) \in [Words -> Nat]
    BY <2>5, ViewType
  <2>8. View(new) = shown
    <3> HIDE DEF new, shown
    <3>1. QED
      BY <2>5, <2>6, <2>7
  <2>9. QED
    BY <1>3, <1>4, <2>3, <2>4, <2>8
<1>7. CASE ~(op = 0 /\ m[0] < Blocks) /\ op \notin 1 .. m[0]
  <2>1. Stores(m, op) = <<>>
    BY <1>7 DEF Stores
  <2>2. QED
    BY <1>1, <1>3, <1>4, <2>1, Nothing
<1>8. QED
  BY <1>5, <1>6, <1>7

-----------------------------------------------------------------------------
(* Steps that change nothing the requests depend on.                       *)
LEMMA GoesLinear ==
  ASSUME RInv, Linear, NEW t \in Threads, NEW to, pc' = [pc EXCEPT ![t] = to],
         UNCHANGED <<fc, lfc, out, main, todo, hist, call>>,
         \A u \in Threads \ {t} : i'[u] = i[u], Harmless(t)
  PROVE  Linear'
<1>1. \A u \in Threads \ {t} : pc'[u] = pc[u] /\ i'[u] = i[u]
  BY DEF RInv, PlaceTypes
<1>2. \A u \in Threads \ {t} : Harmless(u)
  BY <1>1 DEF Harmless
<1>3. QED
  BY <1>2, HarmlessLinear

LEMMA WriterGoesLinear ==
  ASSUME RInv, Linear, NEW t \in Threads,
         \/ SetMutating(t)
         \/ FenceState(t, "w_mutating2", "w_exclude") /\ UNCHANGED ghostVars
         \/ GrowUsed(t) \/ SetCopying(t)
         \/ FenceState(t, "w_copying2", "w_left") /\ UNCHANGED ghostVars
         \/ CopyToBack(t) \/ FenceBack(t) \/ SetIdle(t)
  PROVE  Linear'
<1> USE DEF Goto, heapVars, combVars, ghostVars
<1>1. PICK to : /\ pc' = [pc EXCEPT ![t] = to]
                /\ <<pc[t], to>> \in {<<"w_mutating", "w_mutating2">>,
                     <<"w_mutating2", "w_exclude">>, <<"w_run", "w_run">>,
                     <<"w_copying", "w_copying2">>, <<"w_copying2", "w_left">>,
                     <<"w_back", "w_back2">>, <<"w_back2", "w_idle">>,
                     <<"w_idle", "w_unlock">>}
  BY DEF SetMutating, FenceState, GrowUsed, SetCopying, CopyToBack, FenceBack, SetIdle
<1>2. UNCHANGED <<fc, lfc, out, main, todo, hist, call, i>>
  BY DEF SetMutating, FenceState, GrowUsed, SetCopying, CopyToBack, FenceBack, SetIdle
<1>3. pc'[t] = to
  BY <1>1 DEF RInv, PlaceTypes
<1>4. Harmless(t)
  BY <1>1, <1>2, <1>3 DEF Harmless, Finishing, Turning, Reading
<1>5. QED
  BY <1>1, <1>2, <1>4, GoesLinear

(* A combiner that starts: it has run nothing, and main is the last        *)
(* commit.                                                                 *)
LEMMA EnterRunLinear ==
  ASSUME RInv, Linear, Alone, boot = "up", NEW t \in Threads, pc[t] \in Excluding,
         pc' = [pc EXCEPT ![t] = "w_run"], UNCHANGED <<fc, lfc, out, main, todo, hist, call>>,
         \A u \in Threads \ {t} : i'[u] = i[u], i'[t] = 0
  PROVE  Linear'
<1>1. pc[t] \in Critical /\ pc \in [Threads -> Critical \union Outside]
  BY DEF RInv, PlaceTypes, Critical, Mutated
<1>2. Phase(pc[t])
  BY <1>1, Here
<1>3. main \in [Words -> Nat]
  BY DEF RInv, HeapTypes
<1>4. todo = <<>> /\ Last(hist) = View(main)
  <2>1. View(back) = View(main)
    BY <1>2, RestingTwins
  <2>2. QED
    BY <1>2, <2>1 DEF Phase, PhaseLog, PhaseBack, Excluding, Mutated
<1>5. Coming(main, todo) = main
  BY <1>3, <1>4, Nothing
<1>6. Order(<<>>, 0)'
  <2>1. \A u \in Threads : ~(u < 0)
    BY ThreadFacts
  <2>2. Order(<<>>, 0)
    BY <1>4, <1>5, <2>1 DEF Order, Result
  <2>3. QED
    BY <2>2, OrderKept
<1>7. \A h \in Threads \ {t} : pc'[h] = pc[h] /\ pc'[h] \notin Critical
  BY <1>1 DEF Alone
<1>8. Ordered'
  <2>1. pc'[t] = "w_run" /\ <<>> \in Seq(Threads)
    BY <1>1
  <2>2. \A h \in Threads \ {t} : pc'[h] # "w_run" /\ pc'[h] \notin Finishing
    BY <1>7 DEF Critical, Mutated, Published, Finishing
  <2>3. Order(<<>>, i[t])'
    BY <1>6
  <2>4. QED
    BY <2>1, <2>2, <2>3 DEF Ordered, Finishing
<1>9. Undone'
  <2> SUFFICES ASSUME NEW u \in Threads, fc[u] # NONE, call[u].took # NONE
               PROVE  \E h \in Threads : Committed(h, u)'
    BY DEF Undone
  <2>1. PICK h \in Threads : Committed(h, u)
    BY DEF Linear, Undone
  <2>2. h # t
    BY <2>1 DEF Committed, Turning, Excluding
  <2>3. QED
    BY <1>7, <2>1, <2>2 DEF Committed
<1>10. Opened'
  BY <1>1, <1>7 DEF Linear, Opened, Reading
<1>11. QED
  BY <1>8, <1>9, <1>10 DEF Linear

LEMMA Appended ==
  ASSUME NEW S, NEW s \in Seq(S), NEW e \in S
  PROVE  /\ Append(s, e) \in Seq(S) /\ Append(s, e) # <<>>
         /\ Len(s) \in Nat /\ Len(Append(s, e)) = Len(s) + 1
         /\ Append(s, e)[Len(s) + 1] = e
         /\ \A k \in 1 .. Len(s) : Append(s, e)[k] = s[k]
OBVIOUS

(* The next collected request is run on what the ones before it made.      *)
LEMMA RunOrder ==
  ASSUME RInv, NEW t \in Threads, RunNext(t), NEW o \in Seq(Threads), Order(o, i[t])
  PROVE  \E p \in Seq(Threads) : Order(p, i[t])'
<1> DEFINE n == i[t]
           op == lfc[n]
<1> USE DEF RunNext, StoresDone
<1>1. /\ n \in Threads /\ n \in Nat /\ i \in [Threads -> 0 .. MaxThreads]
      /\ lfc \in [Threads -> Words \union {NONE}] /\ out \in [Threads -> Results]
      /\ main \in [Words -> Nat] /\ main[0] \in Words
  <2>1. /\ i \in [Threads -> 0 .. MaxThreads]
        /\ lfc \in [Threads -> Words \union {NONE}] /\ out \in [Threads -> Results]
        /\ main \in [Words -> Nat] /\ main[0] \in Words
    BY DEF RInv, PlaceTypes, CallTypes, HeapTypes
  <2>2. n \in 0 .. MaxThreads /\ n < MaxThreads
    BY <2>1
  <2>3. n \in Threads /\ n \in Nat
    BY <2>2, SizeFacts DEF Threads
  <2>4. QED
    BY <2>1, <2>3
<1>2. /\ UNCHANGED <<lfc, main, hist>> /\ i'[t] = n + 1
      /\ todo' = IF op = NONE THEN <<>> ELSE Stores(main, op)
      /\ out' = [out EXCEPT ![n] = IF op = NONE THEN NONE ELSE Run(View(main), op)]
  BY <1>1 DEF memVars, heapVars, ghostVars
<1>3. View(main) = Result(o)
  BY <1>1, Nothing DEF Order
<1>4. \A k \in 1 .. Len(o) : o[k] \in Threads /\ o[k] < n /\ lfc[o[k]] # NONE
  BY DEF Order
<1>5. \A k \in 1 .. Len(o) : out'[o[k]] = out[o[k]] /\ o[k] # n
  BY <1>1, <1>2, <1>4, ThreadFacts
<1>6. \A u \in Threads : u < n + 1 <=> u < n \/ u = n
  BY <1>1, Passed
<1>7. \A k \in 1 .. Len(o) : k # 1 => k - 1 \in 1 .. Len(o)
  OBVIOUS
<1>8. Len(o) \in Nat /\ Len(o) <= n
  BY DEF Order
<1>9. CASE op = NONE
  <2>1. Result(o)' = Result(o)
    BY <1>2, <1>5, <1>8 DEF Result, Last
  <2>2. View(Coming(main, todo))' = Result(o)'
    BY <1>1, <1>2, <1>3, <1>9, <2>1, Nothing
  <2>3. \A u \in Threads : u < n + 1 /\ lfc[u] # NONE <=> \E k \in 1 .. Len(o) : o[k] = u
    BY <1>6, <1>9 DEF Order
  <2>4. \A k \in 1 .. Len(o) :
          out'[o[k]] = Run(IF k = 1 THEN Last(hist) ELSE out'[o[k - 1]], lfc[o[k]])
    BY <1>5, <1>7 DEF Order
  <2>5. Len(o) <= n + 1
    BY <1>1, <1>8
  <2>6. Order(o, i[t])'
    BY <1>2, <2>2, <2>3, <2>4, <2>5 DEF Order, Last
  <2>7. QED
    BY <2>6
<1>10. CASE op # NONE
  <2>1. PICK p \in Seq(Threads) : p = Append(o, n)
    BY <1>1, Appended
  <2>2. /\ Len(p) = Len(o) + 1 /\ p[Len(p)] = n /\ p # <<>>
        /\ \A k \in 1 .. Len(o) : p[k] = o[k]
        /\ 1 .. Len(p) = (1 .. Len(o)) \union {Len(p)}
        /\ Len(p) \notin 1 .. Len(o) /\ Len(p) \in Nat
    <3>1. /\ p # <<>> /\ Len(o) \in Nat /\ Len(p) = Len(o) + 1 /\ p[Len(o) + 1] = n
          /\ \A k \in 1 .. Len(o) : p[k] = o[k]
      BY <1>1, <2>1, Appended
    <3>2. QED
      BY <3>1
  <2>3. op \in Words /\ out'[n] = Run(View(main), op) /\ todo' = Stores(main, op)
    BY <1>1, <1>2, <1>10
  <2>4. View(Coming(main, todo))' = Result(p)'
    <3>1. View(Coming(main, Stores(main, op))) = Run(View(main), op)
      BY <1>1, <2>3, ViewRun
    <3>2. Result(p)' = out'[n]
      BY <2>2 DEF Result
    <3>3. QED
      BY <1>2, <2>3, <3>1, <3>2
  <2>5. \A j, k \in 1 .. Len(p) : p[j] = p[k] => j = k
    BY <1>5, <2>2 DEF Order
  <2>6. \A u \in Threads : u < n + 1 /\ lfc[u] # NONE <=> \E k \in 1 .. Len(p) : p[k] = u
    <3>1. \A u \in Threads : (\E k \in 1 .. Len(p) : p[k] = u)
                               <=> (\E k \in 1 .. Len(o) : o[k] = u) \/ u = n
      BY <2>2
    <3>2. QED
      BY <1>1, <1>6, <1>10, <3>1 DEF Order
  <2>7. ASSUME NEW k \in 1 .. Len(p)
        PROVE  out'[p[k]] = Run(IF k = 1 THEN Last(hist) ELSE out'[p[k - 1]], lfc[p[k]])
    <3>1. CASE k \in 1 .. Len(o)
      <4>1. /\ p[k] = o[k] /\ out'[p[k]] = out[o[k]]
            /\ k # 1 => p[k - 1] = o[k - 1] /\ out'[p[k - 1]] = out[o[k - 1]]
        BY <1>5, <1>7, <2>2, <3>1
      <4>2. out[o[k]] = Run(IF k = 1 THEN Last(hist) ELSE out[o[k - 1]], lfc[o[k]])
        BY <3>1 DEF Order
      <4>3. QED
        BY <4>1, <4>2
    <3>2. CASE k = Len(p)
      <4>1. View(main) = IF k = 1 THEN Last(hist) ELSE out'[p[k - 1]]
        <5>1. CASE o = <<>>
          BY <1>3, <2>2, <3>2, <5>1 DEF Result
        <5>2. CASE o # <<>>
          <6>1. Len(o) \in 1 .. Len(o) /\ k - 1 = Len(o) /\ k # 1
            BY <1>8, <2>2, <3>2, <5>2
          <6>2. View(main) = out[o[Len(o)]]
            BY <1>3, <5>2 DEF Result
          <6>3. QED
            BY <1>5, <2>2, <6>1, <6>2
        <5>3. QED
          BY <5>1, <5>2
      <4>2. p[k] = n
        BY <2>2, <3>2
      <4>3. QED
        BY <2>3, <4>1, <4>2
    <3>3. QED
      BY <2>2, <3>1, <3>2
  <2>8. Len(p) <= n + 1
    BY <1>1, <1>8, <2>2
  <2>9. Order(p, i[t])'
    BY <1>2, <2>4, <2>5, <2>6, <2>7, <2>8 DEF Order, Last
  <2>10. QED
    BY <2>9
<1>11. QED
  BY <1>9, <1>10

(* A step of the combiner, at one place or from one place to the next,     *)
(* that keeps what is posted and what has been committed.                  *)
LEMMA RunningLinear ==
  ASSUME RInv, Linear, Alone, NEW t \in Threads, pc[t] = "w_run",
         NEW to \in {"w_run", "w_copying"}, pc' = [pc EXCEPT ![t] = to],
         UNCHANGED <<fc, lfc, hist, call>>, \A u \in Threads \ {t} : i'[u] = i[u],
         NEW o \in Seq(Threads), NEW n, n = (IF to = "w_run" THEN i'[t] ELSE MaxThreads),
         Order(o, n)'
  PROVE  Linear'
<1>1. pc[t] \in Critical /\ pc'[t] = to
  BY DEF RInv, PlaceTypes, Critical, Mutated
<1>2. \A h \in Threads \ {t} : pc'[h] = pc[h] /\ pc[h] \notin Critical
  BY <1>1 DEF Alone, RInv, PlaceTypes
<1>3. Ordered'
  <2>1. \A h \in Threads \ {t} : pc'[h] # "w_run" /\ pc'[h] \notin Finishing
    BY <1>2 DEF Critical, Mutated, Published, Finishing
  <2>2. CASE to = "w_run"
    <3>1. Order(o, i[t])'
      BY <2>2 DEF Order
    <3>2. QED
      BY <1>1, <2>1, <2>2, <3>1 DEF Ordered, Finishing
  <2>3. CASE to = "w_copying"
    <3>1. Order(o, MaxThreads)'
      BY <2>3 DEF Order
    <3>2. QED
      BY <1>1, <2>1, <2>3, <3>1 DEF Ordered, Finishing
  <2>4. QED
    BY <2>2, <2>3
<1>4. Undone'
  <2> SUFFICES ASSUME NEW u \in Threads, fc[u] # NONE, call[u].took # NONE
               PROVE  \E h \in Threads : Committed(h, u)'
    BY DEF Undone
  <2>1. PICK h \in Threads : Committed(h, u)
    BY DEF Linear, Undone
  <2>2. h # t
    BY <2>1 DEF Committed, Turning
  <2>3. QED
    BY <1>2, <2>1, <2>2 DEF Committed
<1>5. Opened'
  BY <1>1, <1>2 DEF Linear, Opened, Reading
<1>6. QED
  BY <1>3, <1>4, <1>5 DEF Linear

LEMMA RunNextLinear ==
  ASSUME RInv, Linear, Alone, NEW t \in Threads, RunNext(t)
  PROVE  Linear'
<1>1. /\ pc[t] = "w_run" /\ pc' = [pc EXCEPT ![t] = "w_run"]
      /\ UNCHANGED <<fc, lfc, hist, call>> /\ \A u \in Threads \ {t} : i'[u] = i[u]
  BY DEF RunNext, Goto, ghostVars, RInv, PlaceTypes
<1>2. PICK o \in Seq(Threads) : Order(o, i[t])
  BY <1>1 DEF Linear, Ordered
<1>3. PICK p \in Seq(Threads) : Order(p, i[t])'
  BY <1>2, RunOrder
<1>4. PICK n : n = i'[t]
  OBVIOUS
<1>5. Order(p, n)'
  BY <1>3, <1>4 DEF Order
<1>6. QED
  BY <1>1, <1>4, <1>5, RunningLinear

LEMMA StoreWordLinear ==
  ASSUME RInv, Linear, Alone, NEW t \in Threads, StoreWord(t)
  PROVE  Linear'
<1>1. /\ pc[t] = "w_run" /\ pc' = [pc EXCEPT ![t] = "w_run"] /\ boot = "up"
      /\ UNCHANGED <<fc, lfc, out, hist, call, i>>
      /\ todo # <<>> /\ todo' = Tail(todo)
      /\ main' = [main EXCEPT ![Head(todo).a] = Head(todo).v]
  BY DEF StoreWord, Goto, ghostVars
<1>2. pc[t] \in Critical /\ main \in [Words -> Nat] /\ main[0] \in Words
  BY <1>1 DEF Critical, Mutated, RInv, HeapTypes
<1>3. Todo
  BY <1>1, <1>2, Here DEF Phase, PhaseLog
<1>4. Coming(main', todo') = Coming(main, todo)
  BY <1>1, <1>2, <1>3, ComingSame
<1>5. PICK o, n : o \in Seq(Threads) /\ n = i[t] /\ Order(o, n)
  BY <1>1 DEF Linear, Ordered
<1>6. Order(o, n)'
  BY <1>1, <1>4, <1>5 DEF Order, Result, Last
<1>7. QED
  BY <1>1, <1>5, <1>6, RunningLinear

LEMMA FlushMainLinear ==
  ASSUME RInv, Linear, Alone, NEW t \in Threads, FlushMain(t)
  PROVE  Linear'
<1>1. /\ pc[t] = "w_run" /\ pc' = [pc EXCEPT ![t] = "w_copying"] /\ i[t] = MaxThreads
      /\ UNCHANGED <<fc, lfc, out, todo, main, hist, call>>
      /\ \A u \in Threads \ {t} : i'[u] = i[u]
  BY DEF FlushMain, Goto, combVars, ghostVars, RInv, PlaceTypes
<1>2. PICK o \in Seq(Threads) : Order(o, MaxThreads)
  BY <1>1 DEF Linear, Ordered
<1>3. Order(o, MaxThreads)'
  BY <1>1, <1>2, OrderKept
<1>4. QED
  BY <1>1, <1>3, RunningLinear

(* The commit answers every request that was collected.                    *)
LEMMA CommitLinear ==
  ASSUME RInv, Linear, Alone, NEW t \in Threads, NEW from, NEW to, Goto(t, from, to),
         \/ from = "w_copying2" /\ to = "w_clear"
         \/ from = "w_left" /\ to = "w_left2",
         Commit, UNCHANGED <<combVars, i>>
  PROVE  Linear'
<1> USE DEF Goto, Commit, combVars
<1>1. /\ pc[t] = from /\ pc'[t] = to /\ pc[t] \in Critical /\ i[t] = 0
      /\ call \in [Threads -> Calls] /\ Len(hist) \in Nat
      /\ pc \in [Threads -> Critical \union Outside]
  <2>1. /\ call \in [Threads -> Calls] /\ Len(hist) \in Nat
        /\ pc \in [Threads -> Critical \union Outside]
    BY DEF RInv, PlaceTypes, CallTypes
  <2>2. pc[t] = from /\ pc'[t] = to /\ from \in {"w_copying2", "w_left"}
    BY <2>1
  <2>3. pc[t] \in Critical /\ pc[t] \notin Scanning \union {"w_run"}
    BY <2>2 DEF Critical, Published, Scanning
  <2>4. QED
    BY <2>1, <2>2, <2>3 DEF RInv, PlaceTypes
<1>2. \A h \in Threads \ {t} : pc'[h] = pc[h] /\ pc[h] \notin Critical
  BY <1>1 DEF Alone
<1>3. Ordered'
  <2>1. \A h \in Threads : pc'[h] # "w_run" /\ pc'[h] \notin Finishing
    BY <1>1, <1>2 DEF Critical, Mutated, Published, Finishing
  <2>2. QED
    BY <2>1 DEF Ordered
<1>4. Undone'
  <2> SUFFICES ASSUME NEW u \in Threads, fc[u] # NONE, call'[u].took # NONE
               PROVE  \E h \in Threads : Committed(h, u)'
    BY DEF Undone
  <2>1. CASE lfc[u] # NONE
    <3>1. Committed(t, u)'
      BY <1>1, <2>1, ThreadFacts DEF Committed, Turning, Threads
    <3>2. QED
      BY <3>1
  <2>2. CASE lfc[u] = NONE
    BY <2>2 DEF Linear, Undone, Committed
  <2>3. QED
    BY <2>1, <2>2
<1>5. Opened'
  <2>1. Len(hist') = Len(hist) + 1
    BY <1>1
  <2>2. \A u \in Threads : call'[u].op = call[u].op /\ call'[u].from = call[u].from
    BY <1>1 DEF Calls
  <2>3. \A u \in Threads : call[u].from \in Nat
    BY <1>1 DEF Calls
  <2>4. ASSUME NEW u \in Threads, pc'[u] \in Reading \union {"idle"}
        PROVE  pc[u] = pc'[u] /\ call'[u] = call[u]
    <3>1. u # t
      BY <1>1, <2>4 DEF Reading
    <3>2. fc[u] = NONE /\ pc[u] = pc'[u]
      BY <1>2, <2>4, <3>1 DEF RInv, Requests
    <3>3. lfc[u] = NONE
      BY <1>1, <3>2 DEF RInv, Requests, Combining, Collected, Cleared
    <3>4. QED
      BY <3>2, <3>3
  <2>5. \A u \in Threads : call'[u].from <= Len(hist')
    BY <1>1, <2>1, <2>2, <2>3 DEF Linear, Opened
  <2>6. QED
    BY <2>4, <2>5, ZenonT(40) DEF Linear, Opened
<1>6. QED
  BY <1>3, <1>4, <1>5 DEF Linear

LEMMA CheckFcLinear ==
  ASSUME RInv, Linear, NEW t \in Threads, CheckFc(t)
  PROVE  Linear'
<1>1. CASE fc[t] = NONE
  BY <1>1, CloseLinear DEF CheckFc, Return, Turning
<1>2. CASE fc[t] # NONE
  <2>1. /\ pc[t] = "w_check" /\ pc' = [pc EXCEPT ![t] = "w_lock"]
        /\ UNCHANGED <<fc, lfc, out, main, todo, hist, call, i>> /\ pc'[t] = "w_lock"
    BY <1>2 DEF CheckFc, Goto, memVars, heapVars, combVars, ghostVars, RInv, PlaceTypes
  <2>2. Harmless(t)
    BY <2>1 DEF Harmless, Finishing, Turning, Reading
  <2>3. QED
    BY <2>1, <2>2, GoesLinear
<1>3. QED
  BY <1>1, <1>2

LEMMA UnlockLinear ==
  ASSUME RInv, Linear, NEW t \in Threads,
         Goto(t, "w_unlock", "idle") \/ Goto(t, "w_nothing", "idle"),
         Return(t), UNCHANGED <<memVars, combVars, boot, i>>
  PROVE  Linear'
<1>1. fc[t] = NONE
  BY Answered DEF Goto
<1>2. QED
  BY <1>1, CloseLinear DEF Return, Turning

LEMMA CloseReadLinear ==
  ASSUME RInv, Linear, NEW t \in Threads, Goto(t, "reading", "idle"), NEW v, NEW at,
         Close(t, v, at), UNCHANGED <<memVars, combVars, boot, i>>
  PROVE  Linear'
<1>1. fc[t] = NONE
  BY DEF RInv, Requests, Goto, Reading
<1>2. QED
  BY <1>1, CloseLinear DEF Turning

LEMMA RestLinear ==
  ASSUME fc = [t \in Threads |-> NONE], pc = [t \in Threads |-> "idle"],
         call = [t \in Threads |-> Call0], hist \in Seq([Words -> Nat])
  PROVE  Linear
<1>1. Len(hist) \in Nat /\ Call0.from = 0 /\ Call0.took = NONE
  BY DEF Call0
<1>2. QED
  BY <1>1 DEF Linear, Ordered, Undone, Opened, Finishing, Reading

LEMMA CrashLinear ==
  ASSUME RInv, RomCrash
  PROVE  Linear'
<1>1. /\ fc' = [t \in Threads |-> NONE] /\ pc' = [t \in Threads |-> "idle"]
      /\ call' = [t \in Threads |-> Call0] /\ hist' \in Seq([Words -> Nat])
  <2>1. hist' \in Seq([Words -> Nat])
    BY CrashStep DEF RInv, CallTypes
  <2>2. QED
    BY <2>1 DEF RomCrash
<1>2. Len(hist') \in Nat /\ Call0.from = 0 /\ Call0.took = NONE
  BY <1>1 DEF Call0
<1>3. QED
  BY <1>1, <1>2 DEF Linear, Ordered, Undone, Opened, Finishing, Reading

LEMMA RecoverLinear ==
  ASSUME RInv, Linear, Recover
  PROVE  Linear'
<1>1. /\ boot # "up" /\ UNCHANGED <<fc, lfc, hist, call, pc, i>>
  BY DEF Recover, RecoverCopy, RecoverFence, RecoverIdle, combVars, ghostVars
<1>2. \A h \in Threads : pc[h] = "idle"
  BY <1>1 DEF RInv, Copies
<1>3. Ordered'
  BY <1>1, <1>2 DEF Ordered, Finishing
<1>4. Undone' /\ Opened'
  BY <1>1 DEF Linear, Undone, Committed, Opened
<1>5. QED
  BY <1>3, <1>4 DEF Linear

LEMMA StutterLinear ==
  ASSUME Linear, UNCHANGED romVars
  PROVE  Linear'
<1>1. /\ UNCHANGED <<fc, lfc, out, main, todo, hist, call, pc, i>>
  BY DEF romVars, memVars, heapVars, combVars, ghostVars
<1>2. \A h \in Threads : Harmless(h)
  BY <1>1 DEF Harmless
<1>3. QED
  BY <1>1, <1>2, HarmlessLinear

LEMMA InitLinear ==
  ASSUME RomInit
  PROVE  Linear
<1>1. hist \in Seq([Words -> Nat])
  BY HeapZero DEF RomInit
<1>2. QED
  BY <1>1, RestLinear DEF RomInit

-----------------------------------------------------------------------------
(* The steps of Romulus as steps of DurableStore.                          *)

(* A combiner that is about to commit has run requests that are open, in   *)
(* an order that makes of the last commit what shows of main.              *)
LEMMA FinishOrder ==
  ASSUME RInv, Linear, Alone, boot = "up", NEW t \in Threads,
         pc[t] \in {"w_copying2", "w_left"}
  PROVE  \E o \in Abstract!Orders :
           /\ Len(o) \in Nat /\ DOMAIN o = 1 .. Len(o)
           /\ Abstract!After(o)[Len(o)] = View(main)
           /\ \A k \in 1 .. Len(o) : Abstract!After(o)[k] = out[o[k]]
           /\ \A u \in Threads : lfc[u] # NONE <=> \E k \in 1 .. Len(o) : o[k] = u
           /\ \A j, k \in 1 .. Len(o) : o[j] = o[k] => j = k
<1>1. PICK o \in Seq(Threads) : Order(o, MaxThreads)
  BY DEF Linear, Ordered, Finishing
<1>2. /\ main \in [Words -> Nat] /\ hist \in Seq([Words -> Nat])
      /\ MaxThreads \in Nat /\ Len(o) \in Nat /\ Len(o) <= MaxThreads
      /\ DOMAIN o = 1 .. Len(o)
  <2>1. main \in [Words -> Nat] /\ hist \in Seq([Words -> Nat])
    BY DEF RInv, HeapTypes, CallTypes
  <2>2. Len(o) <= MaxThreads
    BY <1>1 DEF Order
  <2>3. QED
    BY <2>1, <2>2, SizeFacts
<1>3. \A u \in Threads : lfc[u] # NONE <=> \E k \in 1 .. Len(o) : o[k] = u
  <2>1. \A u \in Threads : u < MaxThreads
    BY SizeFacts DEF Threads
  <2>2. QED
    BY <1>1, <2>1 DEF Order
<1>4. \A u \in Threads : lfc[u] # NONE =>
        call[u].op = lfc[u] /\ call[u].op # NONE /\ call[u].took = NONE
  <2> SUFFICES ASSUME NEW u \in Threads, lfc[u] # NONE
               PROVE  /\ call[u].op = lfc[u] /\ call[u].op # NONE
                      /\ call[u].took = NONE
    OBVIOUS
  <2>1. pc[t] \in Critical
    BY DEF Critical, Published
  <2>2. fc[u] = lfc[u]
    BY <2>1 DEF RInv, Requests, Combining, Collected, Cleared
  <2>3. call[u].op = fc[u]
    BY <2>2 DEF RInv, Requests
  <2>4. \A h \in Threads : ~Committed(h, u)
    BY <2>1 DEF Alone, Committed, Turning, Critical, Published
  <2>5. QED
    BY <2>2, <2>3, <2>4 DEF Linear, Undone
<1>5. \A k \in 1 .. Len(o) : o[k] \in Threads /\ lfc[o[k]] # NONE
  BY <1>3
<1>6. \A n \in 0 .. Len(o) :
        Abstract!After(o)[n] = IF n = 0 THEN Last(hist) ELSE out[o[n]]
  <2>1. \A k \in 1 .. Len(o) : call[o[k]].op = lfc[o[k]]
    BY <1>4, <1>5
  <2>2. \A k \in 1 .. Len(o) :
          out[o[k]] = Run(IF k = 1 THEN Last(hist) ELSE out[o[k - 1]], lfc[o[k]])
    BY <1>1 DEF Order
  <2>3. QED
    BY <1>2, <2>1, <2>2, AfterOrder
<1>7. Abstract!After(o)[Len(o)] = View(main)
  <2>1. todo = <<>>
    <3>1. pc[t] \in Critical
      BY DEF Critical, Published
    <3>2. QED
      BY <3>1, Here DEF Phase, PhaseLog
  <2>2. Result(o) = View(main)
    BY <1>1, <1>2, <2>1, Nothing DEF Order
  <2>3. Result(o) = IF Len(o) = 0 THEN Last(hist) ELSE out[o[Len(o)]]
    BY <1>2 DEF Result
  <2>4. QED
    BY <1>2, <1>6, <2>2, <2>3
<1>8. o \in Abstract!Orders
  <2>1. PICK open : open = {u \in Threads : call[u].op # NONE /\ call[u].took = NONE}
    OBVIOUS
  <2>2. o \in [1 .. Len(o) -> open]
    BY <1>4, <1>5, <2>1
  <2>3. \A j, k \in DOMAIN o : o[j] = o[k] => j = k
    BY <1>1, <1>2 DEF Order
  <2>4. Len(o) \in 0 .. MaxThreads
    BY <1>2
  <2>5. open = {u \in Abstract!Threads : [v \in Threads |-> call[v].op][u] # NONE
                                        /\ [v \in Threads |-> call[v].took][u] = NONE}
    BY <2>1 DEF Abstract!Threads, Threads
  <2>6. o \in {p \in UNION {[1 .. n -> open] : n \in 0 .. MaxThreads} :
                 \A j, k \in DOMAIN p : p[j] = p[k] => j = k}
    BY <2>2, <2>3, <2>4
  <2>7. QED
    BY <2>5, <2>6 DEF Abstract!Orders
<1>9. QED
  <2>1. \A k \in 1 .. Len(o) : Abstract!After(o)[k] = out[o[k]]
    BY <1>6
  <2>2. \A j, k \in 1 .. Len(o) : o[j] = o[k] => j = k
    BY <1>1 DEF Order
  <2>3. QED
    BY <1>2, <1>3, <1>7, <1>8, <2>1, <2>2

LEMMA CommitMaps ==
  ASSUME RInv, Linear, Alone, NEW t \in Threads, NEW to, NEW from \in {"w_copying2", "w_left"},
         Goto(t, from, to), Commit
  PROVE  Abstract!Next
<1> USE DEF Goto, Commit
<1>1. PICK o \in Abstract!Orders :
           /\ Len(o) \in Nat /\ DOMAIN o = 1 .. Len(o)
           /\ Abstract!After(o)[Len(o)] = View(main)
           /\ \A k \in 1 .. Len(o) : Abstract!After(o)[k] = out[o[k]]
           /\ \A u \in Threads : lfc[u] # NONE <=> \E k \in 1 .. Len(o) : o[k] = u
           /\ \A j, k \in 1 .. Len(o) : o[j] = o[k] => j = k
  BY FinishOrder
<1>2. hist' = Append(hist, Abstract!After(o)[Len(o)])
  BY <1>1
<1>3. \A u \in Threads : u \in Abstract!ToSet(o) <=> lfc[u] # NONE
  BY <1>1 DEF Abstract!ToSet
<1>4. \A u \in Threads : lfc[u] # NONE =>
        Abstract!After(o)[CHOOSE n \in 1 .. Len(o) : o[n] = u] = out[u]
  BY <1>1
<1>5. call \in [Threads -> Calls]
  BY DEF RInv, CallTypes
<1>6. \A u \in Threads :
        /\ call'[u].op = call[u].op /\ call'[u].from = call[u].from
        /\ call'[u].took = IF lfc[u] = NONE THEN call[u].took
                           ELSE [at |-> Len(hist) + 1, val |-> out[u]]
  BY <1>5 DEF Calls
<1>7. [u \in Threads |-> call'[u].took] =
        [u \in Abstract!Threads |->
           IF u \notin Abstract!ToSet(o) THEN [v \in Threads |-> call[v].took][u]
           ELSE [at |-> Len(hist) + 1,
                 val |-> Abstract!After(o)[CHOOSE n \in 1 .. Len(o) : o[n] = u]]]
  <2>1. \A u \in Threads : call'[u].took =
           IF u \notin Abstract!ToSet(o) THEN [v \in Threads |-> call[v].took][u]
           ELSE [at |-> Len(hist) + 1,
                 val |-> Abstract!After(o)[CHOOSE n \in 1 .. Len(o) : o[n] = u]]
    <3> SUFFICES ASSUME NEW u \in Threads
        PROVE  call'[u].took =
                 IF u \notin Abstract!ToSet(o) THEN [v \in Threads |-> call[v].took][u]
                 ELSE [at |-> Len(hist) + 1,
                       val |-> Abstract!After(o)[CHOOSE n \in 1 .. Len(o) : o[n] = u]]
      OBVIOUS
    <3>1. CASE lfc[u] = NONE
      BY <1>3, <1>6, <3>1
    <3>2. CASE lfc[u] # NONE
      <4>1. Abstract!After(o)[CHOOSE n \in 1 .. Len(o) : o[n] = u] = out[u]
        BY <1>4, <3>2
      <4>2. call'[u].took = [at |-> Len(hist) + 1, val |-> out[u]]
        BY <1>6, <3>2
      <4>3. QED
        BY <1>3, <3>2, <4>1, <4>2
    <3>3. QED
      BY <3>1, <3>2
  <2>2. Abstract!Threads = Threads
    BY DEF Abstract!Threads, Threads
  <2>3. QED
    BY <2>1, <2>2, ZenonT(60)
<1>8. Abstract!Commit(o)
  <2>1. /\ [u \in Threads |-> call'[u].op] = [u \in Threads |-> call[u].op]
        /\ [u \in Threads |-> call'[u].from] = [u \in Threads |-> call[u].from]
    BY <1>6
  <2>2. UNCHANGED <<ret, acked>>
    OBVIOUS
  <2>3. QED
    BY <1>2, <1>7, <2>1, <2>2 DEF Abstract!Commit
<1>9. QED
  BY <1>8 DEF Abstract!Next

LEMMA CrashMaps ==
  ASSUME RInv, Linear, Alone, RomCrash
  PROVE  Abstract!Next
<1>1. PICK m \in Picks(pmain), b \in Picks(pback), s \in pstate, u \in pused :
        hist' = <<View(Recovered(m, b, s, u))>>
  BY DEF RomCrash
<1>2. PICK r : r = View(Recovered(m, b, s, u))
  OBVIOUS
<1>3. Whole
  BY DEF RomCrash, RInv, CallTypes
<1>4. (\E n \in acked .. Len(hist) : r = hist[n]) \/ (s = "COPYING" /\ r = View(main))
  BY <1>2, <1>3, Trusted DEF TrustedCopyWhole, Whole
<1>5. /\ Len(hist) \in acked .. Len(hist) /\ Last(hist) = hist[Len(hist)]
  BY DEF RInv, CallTypes, Last
<1>6. \/ \E n \in acked .. Len(hist) : hist' = <<hist[n]>>
      \/ \E o \in Abstract!Orders : hist' = <<Abstract!After(o)[Len(o)]>>
  <2> SUFFICES ASSUME s = "COPYING", r = View(main)
      PROVE  r = Last(hist) \/ \E o \in Abstract!Orders : r = Abstract!After(o)[Len(o)]
    BY <1>1, <1>2, <1>4, <1>5
  <2>1. CASE boot = "up"
    <3>1. \E q \in Critical : At(q)
      <4>1. CASE \E t \in Threads : pc[t] \in Critical
        BY <4>1 DEF At
      <4>2. CASE \A t \in Threads : pc[t] \notin Critical
        BY <4>2 DEF At, Critical, Resting
      <4>3. QED
        BY <4>1, <4>2
    <3>2. PICK q \in Critical : At(q) /\ Phase(q)
      BY <2>1, <3>1 DEF RInv, Copies
    <3>3. q \notin Mutated
      BY <3>2 DEF Phase, PhaseState
    <3>4. CASE q \in (Resting \union Published) \ {"w_left"}
      BY <3>2, <3>4 DEF Phase, PhaseMain
    <3>5. CASE q = "w_mutating2"
      BY <3>2, <3>5, RestingTwins DEF Phase, PhaseBack
    <3>6. CASE q \in {"w_copying2", "w_left"}
      <4>1. PICK t \in Threads : pc[t] = q
        BY <3>2, <3>6 DEF At
      <4>2. QED
        BY <2>1, <3>6, <4>1, FinishOrder
    <3>7. QED
      BY <3>3, <3>4, <3>5, <3>6 DEF Critical
  <2>2. CASE boot # "up"
    <3>1. Booting /\ state = "COPYING"
      BY <2>2 DEF RInv, Copies, Booting
    <3>2. Len(hist) = 1 /\ hist[1] = View(main)
      BY <3>1 DEF Booting, Recovered
    <3>3. QED
      BY <3>2 DEF Last
  <2>3. QED
    BY <2>1, <2>2
<1>7. /\ acked' = 1 /\ ret' = ret /\ call' = [t \in Threads |-> Call0]
      /\ Abstract!Threads = Threads
  BY DEF RomCrash, Abstract!Threads, Threads
<1>8. Abstract!Crash
  BY <1>6, <1>7 DEF Abstract!Crash, Call0
<1>9. QED
  BY <1>8 DEF Abstract!Next

LEMMA OpenMaps ==
  ASSUME RInv, Linear, NEW t \in Threads, NEW op \in Words \union {READ},
         Goto(t, "idle", "r_lock") \/ Goto(t, "idle", "w_lock") \/ Goto(t, "idle", "r_arrive"),
         Open(t, op)
  PROVE  Abstract!Next
<1>1. call[t] = Call0 /\ call \in [Threads -> Calls]
  BY DEF Goto, Linear, Opened, RInv, CallTypes
<1>2. /\ call' = [call EXCEPT ![t] = [Call0 EXCEPT !.op = op, !.from = Len(hist)]]
      /\ UNCHANGED <<hist, ret, acked>> /\ Abstract!Threads = Threads
  BY DEF Open, Abstract!Threads, Threads
<1>3. /\ call'[t].op = op /\ call'[t].from = Len(hist) /\ call'[t].took = NONE
      /\ call[t].op = NONE /\ call[t].took = NONE
      /\ \A u \in Threads \ {t} : call'[u] = call[u]
  BY <1>1, <1>2 DEF Call0
<1>4. /\ [u \in Threads |-> call'[u].op] = [[u \in Threads |-> call[u].op] EXCEPT ![t] = op]
      /\ [u \in Threads |-> call'[u].from] =
           [[u \in Threads |-> call[u].from] EXCEPT ![t] = Len(hist)]
      /\ [u \in Threads |-> call'[u].took] = [u \in Threads |-> call[u].took]
      /\ [u \in Threads |-> call[u].op][t] = NONE
  BY <1>3
<1>5. Abstract!Invoke(t, op)
  BY <1>2, <1>4 DEF Abstract!Invoke
<1>6. QED
  BY <1>2, <1>5 DEF Abstract!Next

LEMMA ReturnMaps ==
  ASSUME RInv, NEW t \in Threads, call[t].took # NONE, Return(t)
  PROVE  Abstract!Next
<1>1. call \in [Threads -> Calls] /\ Abstract!Threads = Threads
  BY DEF RInv, CallTypes, Abstract!Threads, Threads
<1>2. Abstract!Answer(t)
  BY <1>1 DEF Return, Close, Abstract!Answer, Abstract!Observe, Abstract!Close, Call0
<1>3. QED
  BY <1>1, <1>2 DEF Abstract!Next

LEMMA ReadMaps ==
  ASSUME RInv, Linear, NEW t \in Threads, pc[t] = "reading",
         NEW n \in call[t].from .. Len(hist), Close(t, hist[n], n)
  PROVE  Abstract!Next
<1>1. call \in [Threads -> Calls] /\ Abstract!Threads = Threads /\ call[t].op = READ
  BY DEF RInv, CallTypes, Abstract!Threads, Threads, Linear, Opened, Reading
<1>2. Abstract!AnswerRead(t)
  <2>1. /\ [u \in Threads |-> call'[u].op] = [[u \in Threads |-> call[u].op] EXCEPT ![t] = NONE]
        /\ [u \in Threads |-> call'[u].from] = [[u \in Threads |-> call[u].from] EXCEPT ![t] = 0]
        /\ [u \in Threads |-> call'[u].took] = [[u \in Threads |-> call[u].took] EXCEPT ![t] = NONE]
    BY <1>1 DEF Close, Call0
  <2>2. /\ acked' = (IF n > acked THEN n ELSE acked)
        /\ ret' = [ret EXCEPT ![t] = hist[n]] /\ hist' = hist
    BY DEF Close
  <2>3. /\ [u \in Threads |-> call[u].op][t] = READ
        /\ n \in [u \in Threads |-> call[u].from][t] .. Len(hist)
    BY <1>1
  <2>4. QED
    BY <2>1, <2>2, <2>3 DEF Abstract!AnswerRead, Abstract!Observe, Abstract!Close
<1>3. QED
  BY <1>1, <1>2 DEF Abstract!Next

LEMMA QuietMaps ==
  ASSUME UNCHANGED ghostVars
  PROVE  UNCHANGED Abstract!vars
BY DEF ghostVars, Abstract!vars

LEMMA InitMaps ==
  ASSUME RomInit
  PROVE  Abstract!Init
BY DEF RomInit, Abstract!Init, Abstract!Threads, Threads, Call0

=============================================================================
