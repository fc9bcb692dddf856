-------------------------- MODULE RomulusLR_proofs --------------------------
(***************************************************************************)
(* Left-Right: a reader of RomulusLR is never disturbed, for every number  *)
(* of threads and every size of the heap, crashes included.                *)
(*                                                                         *)
(* When a writer has turned leftRight, no reader goes to the old copy any  *)
(* more, but those that are there may have announced themselves in either  *)
(* indicator, and each indicator is read slot by slot.  The invariant says *)
(* for each place of the writer where such a reader (Stale) can still be:  *)
(* in the indicator the writer has not yet waited for, or in that of the   *)
(* scan, at a slot the scan has not yet passed.                            *)
(*                                                                         *)
(* The twin copies and the flat combining, which RomulusLR shares with     *)
(* RomulusLog, follow from the lemmas of Romulus_proofs (Durable, Combined *)
(* at the end).                                                            *)
(***************************************************************************)
EXTENDS RomulusLR, Romulus_proofs

(* Where a writer is when it has writersMutex: with leftRight at LEFT and  *)
(* readers possibly still at back, with leftRight at RIGHT, and others.    *)
ToLeft == {"w_left2", "w_left3", "w_left4", "w_left5"}
AtRight == {"w_right", "w_right2", "w_right3", "w_run", "w_copying",
            "w_copying2", "w_left"}
Others == {"w_collect", "w_nothing", "w_mutating", "w_mutating2", "w_exclude",
           "w_clear", "w_back", "w_back2", "w_idle", "w_unlock"}
Writers == ToLeft \union AtRight \union Others

NonWriters == {"idle", "w_lock", "w_check", "r_arrive", "r_side", "reading"}

Types ==
  /\ pc \in [Threads -> Writers \union NonWriters]
  /\ i \in [Threads -> 0 .. MaxThreads]
  /\ lr \in [Threads -> {"LEFT", "RIGHT"}]
  /\ vi \in [Threads -> {0, 1}]
  /\ ri \in [{0, 1} -> SUBSET Threads]
  /\ versionIndex \in {0, 1}
  /\ writersMutex \in Threads \union {NONE}
  /\ leftRight \in {"LEFT", "RIGHT"}
  /\ g_right \in BOOLEAN

(* A loop index is that of a thread in a scan, and 0 between the loops.    *)
Indices ==
  \A t \in Threads :
    /\ pc[t] \in Scanning => i[t] \in Threads
    /\ pc[t] \notin Scanning \union {"w_run"} => i[t] = 0

(* A writer is alone, and leftRight and g_right are where it left them.    *)
Sides ==
  /\ \A t \in Threads : pc[t] \in Writers <=> writersMutex = t
  /\ leftRight = "RIGHT" <=> \E t \in Threads : pc[t] \in AtRight
  /\ g_right <=> \E t \in Threads : pc[t] \in AtRight \union ToLeft

(* A reader that has arrived is in the indicator it loaded.                *)
Arrived ==
  \A t \in Threads : pc[t] \in {"r_side", "reading"} => t \in ri[vi[t]]

(* Readers of a copy.                                                      *)
On(side) == {u \in Threads : pc[u] = "reading" /\ lr[u] = side}

(* Where the readers of `side` are: anywhere before the first wait, whose  *)
(* scan has passed the slots below i[t]; after it in the current version;  *)
(* after the toggle in the other one, until the second wait is over.       *)
Stale(t, side, at) ==
  \A u \in On(side) :
    /\ pc[t] = at[1] => vi[u] = versionIndex \/ u >= i[t]
    /\ pc[t] = at[2] => vi[u] = versionIndex
    /\ pc[t] = at[3] => vi[u] = 1 - versionIndex /\ u >= i[t]
    /\ pc[t] \notin {at[1], at[2], at[3]} => FALSE

RightSteps == <<"w_right", "w_right2", "w_right3", "w_run">>
LeftSteps == <<"w_left2", "w_left3", "w_left4", "w_left5">>

Waits ==
  /\ \A t \in Threads : pc[t] \in AtRight => Stale(t, "LEFT", RightSteps)
  /\ \A t \in Threads : pc[t] \in ToLeft => Stale(t, "RIGHT", LeftSteps)
  /\ ~g_right => On("RIGHT") = {}

IInv == Types /\ Indices /\ Sides /\ Arrived /\ Waits

-----------------------------------------------------------------------------
LEMMA IndexFacts ==
  /\ MaxThreads \in Nat \ {0}
  /\ NONE \notin Threads
  /\ 0 \in Threads /\ 0 \in 0 .. MaxThreads
  /\ \A n \in Threads : /\ n \in Int /\ n >= 0 /\ n <= MaxThreads - 1
                        /\ n \in 0 .. MaxThreads /\ n + 1 \in 0 .. MaxThreads
                        /\ n < MaxThreads - 1 => n + 1 \in Threads
                        /\ n # MaxThreads - 1 => n + 1 \in Threads
BY RomulusAssumption DEF Threads

(* The index of a loop that ends with % MaxThreads.                        *)
LEMMA WrapsAround ==
  \A n \in Threads :
    /\ n < MaxThreads - 1 => (n + 1) % MaxThreads \in Threads
    /\ ~(n < MaxThreads - 1) => (n + 1) % MaxThreads = 0
    /\ (n + 1) % MaxThreads \in 0 .. MaxThreads
<1> SUFFICES ASSUME NEW n \in Threads
             PROVE  /\ n < MaxThreads - 1 => (n + 1) % MaxThreads \in Threads
                    /\ ~(n < MaxThreads - 1) => (n + 1) % MaxThreads = 0
                    /\ (n + 1) % MaxThreads \in 0 .. MaxThreads
  OBVIOUS
<1>1. CASE n < MaxThreads - 1
  BY <1>1, IndexFacts DEF Threads
<1>2. CASE n = MaxThreads - 1
  BY <1>2, IndexFacts DEF Threads
<1>3. QED
  BY <1>1, <1>2, IndexFacts

LEMMA InitIInv == Init => IInv
<1> SUFFICES ASSUME Init PROVE IInv
  OBVIOUS
<1> USE DEF Init, RomInit, LrInit
<1>1. Types /\ Indices
  BY IndexFacts DEF Types, Indices, NonWriters, Scanning
<1>2. Sides /\ Arrived
  BY IndexFacts DEF Sides, Arrived, Writers, AtRight, ToLeft, Others
<1>3. Waits
  BY DEF Waits, AtRight, ToLeft, On
<1>4. QED
  BY <1>1, <1>2, <1>3 DEF IInv

(* The places a thread moves between when it touches nothing of Left-Right. *)
Outer == NonWriters \ {"r_side", "reading"}
Writing == {"w_run", "w_copying", "w_copying2", "w_left"}

LEMMA Quiet ==
  ASSUME IInv, NEW t \in Threads, NEW to,
         pc' = [pc EXCEPT ![t] = to],
         \/ pc[t] \in Outer /\ to \in Outer
         \/ pc[t] \in Others /\ to \in Others
         \/ pc[t] \in Writing /\ to \in Writing,
         i' \in [Threads -> 0 .. MaxThreads],
         \A u \in Threads \ {t} : i'[u] = i[u],
         to \in Scanning => i'[t] \in Threads,
         to \notin Scanning \union {"w_run"} => i'[t] = 0,
         UNCHANGED <<lrVars, ri, vi, lr>>
  PROVE  IInv'
<1> USE DEF IInv, lrVars, Outer, Writing
<1>1. Types'
  BY DEF Types, Writers, NonWriters, Others, AtRight
<1>2. Indices'
  BY DEF Types, Indices
<1>3. Sides'
  <2>1. \A u \in Threads : pc'[u] \in Writers <=> pc[u] \in Writers
    BY DEF Types, Writers, NonWriters, Others, AtRight, ToLeft
  <2>2. \A u \in Threads : pc'[u] \in AtRight <=> pc[u] \in AtRight
    BY DEF Types, NonWriters, Others, AtRight
  <2>3. \A u \in Threads : pc'[u] \in ToLeft <=> pc[u] \in ToLeft
    BY DEF Types, NonWriters, Others, ToLeft
  <2>4. QED
    BY <2>1, <2>2, <2>3 DEF Sides
<1>4. Arrived'
  BY DEF Types, Arrived, NonWriters, Others
<1>5. Waits'
  <2>1. \A side : On(side)' = On(side)
    BY DEF On, Types, NonWriters, Others
  <2>2. \A u \in Threads : pc'[u] # pc[u] => pc'[u] \notin ToLeft
    BY DEF Types, NonWriters, Others, ToLeft
  <2>3. \A u \in Threads : pc'[u] # pc[u] /\ pc'[u] \in AtRight =>
                             u = t /\ pc[t] \in Writing /\ to \in Writing
    BY DEF Types, NonWriters, Others, AtRight
  <2>4. ASSUME NEW u \in Threads, u # t, NEW side, NEW at, Stale(u, side, at)
        PROVE  Stale(u, side, at)'
    BY <2>1, <2>4 DEF Stale, Types
  <2>5. pc[t] \in Writing => On("LEFT") = {}
    BY DEF Waits, Stale, RightSteps, AtRight
  <2>6. pc'[t] \notin {"w_left2", "w_left3", "w_left4", "w_left5"}
    BY DEF Types, NonWriters, Others
  <2>7. pc'[t] \in AtRight => Stale(t, "LEFT", RightSteps)'
    BY <2>1, <2>5 DEF Stale, Types, NonWriters, Others, AtRight
  <2>8. \A u \in Threads : u # t => pc'[u] = pc[u]
    BY DEF Types
  <2>9. QED
    BY <2>1, <2>4, <2>6, <2>7, <2>8 DEF Waits, ToLeft
<1>6. QED
  BY <1>1, <1>2, <1>3, <1>4, <1>5

(* A step of a reader t: no other thread's, and it goes to the side that   *)
(* leftRight shows.                                                        *)
LEMMA ReaderStep ==
  ASSUME IInv, NEW t \in Threads, NEW to \in NonWriters,
         pc[t] \in NonWriters, pc' = [pc EXCEPT ![t] = to],
         UNCHANGED <<i, lrVars>>,
         vi' \in [Threads -> {0, 1}], lr' \in [Threads -> {"LEFT", "RIGHT"}],
         ri' \in [{0, 1} -> SUBSET Threads],
         \A u \in Threads \ {t} :
           /\ vi'[u] = vi[u] /\ lr'[u] = lr[u]
           /\ \A v \in {0, 1} : u \in ri'[v] <=> u \in ri[v],
         to \in {"r_side", "reading"} => t \in ri'[vi'[t]],
         to = "reading" => \/ lr'[t] = leftRight
                           \/ pc[t] = "reading" /\ vi'[t] = vi[t] /\ lr'[t] = lr[t]
  PROVE  IInv'
<1> USE DEF IInv, lrVars
<1>1. Types'
  BY DEF Types
<1>2. Indices'
  BY DEF Types, Indices, NonWriters, Scanning
<1>3. \A u \in Threads : u # t => pc'[u] = pc[u]
  BY DEF Types
<1>4. pc[t] \notin Writers /\ pc'[t] \notin Writers
  BY DEF Types, Writers, NonWriters, Others, AtRight, ToLeft
<1>5. Sides'
  BY <1>3, <1>4 DEF Sides, Writers
<1>6. Arrived'
  <2>1. SUFFICES ASSUME NEW u \in Threads, pc'[u] \in {"r_side", "reading"}
                 PROVE  u \in ri'[vi'[u]]
    BY DEF Arrived
  <2>2. CASE u = t
    BY <2>1, <2>2 DEF Types
  <2>3. CASE u # t
    BY <2>1, <2>3, <1>3 DEF Types, Arrived
  <2>4. QED
    BY <2>2, <2>3
<1>7. Waits'
  <2>1. \A side : side # leftRight =>
          \A u \in On(side)' : u \in On(side) /\ vi'[u] = vi[u]
    BY <1>3 DEF On, Types
  <2>2. ASSUME NEW u \in Threads, NEW side, NEW at, side # leftRight,
               u # t, Stale(u, side, at)
        PROVE  Stale(u, side, at)'
    BY <2>1, <2>2, <1>3 DEF Stale
  <2>3. ASSUME NEW u \in Threads, pc'[u] \in AtRight
        PROVE  Stale(u, "LEFT", RightSteps)'
    <3>1. u # t /\ pc[u] \in AtRight /\ leftRight = "RIGHT"
      BY <2>3, <1>3, <1>4 DEF Writers, Sides
    <3>2. QED
      BY <2>2, <3>1 DEF Waits
  <2>4. ASSUME NEW u \in Threads, pc'[u] \in ToLeft
        PROVE  Stale(u, "RIGHT", LeftSteps)'
    <3>1. u # t /\ pc[u] \in ToLeft
      BY <2>4, <1>3, <1>4 DEF Writers
    <3>2. leftRight # "RIGHT"
      BY <3>1 DEF Sides, Writers, ToLeft, AtRight
    <3>3. QED
      BY <2>2, <3>1, <3>2 DEF Waits
  <2>5. ASSUME ~g_right PROVE On("RIGHT")' = {}
    <3>1. leftRight # "RIGHT" /\ On("RIGHT") = {}
      BY <2>5 DEF Sides, Waits
    <3>2. QED
      BY <2>1, <3>1
  <2>6. QED
    BY <2>3, <2>4, <2>5 DEF Waits
<1>8. QED
  BY <1>1, <1>2, <1>5, <1>6, <1>7

LEMMA ReadIInv ==
  ASSUME IInv, NEW t \in Threads, BeginRead(t) \/ Read(t)
  PROVE  IInv'
<1> USE DEF IInv, Goto
<1>1. CASE BeginRead(t)
  BY <1>1, ReaderStep DEF BeginRead, Types, NonWriters
<1>2. CASE Arrive(t)
  <2>1. t \in ri'[vi[t]] /\ ri' \in [{0, 1} -> SUBSET Threads]
    BY <1>2 DEF Arrive, Types
  <2>2. \A u \in Threads \ {t}, v \in {0, 1} : u \in ri'[v] <=> u \in ri[v]
    BY <1>2 DEF Arrive, Types
  <2>3. QED
    BY <1>2, <2>1, <2>2, ReaderStep DEF Arrive, Types, NonWriters
<1>3. CASE LoadLeftRight(t)
  <2>1. t \in ri[vi[t]]
    BY <1>3 DEF LoadLeftRight, Arrived
  <2>2. QED
    BY <1>3, <2>1, ReaderStep DEF LoadLeftRight, Types, NonWriters
<1>4. CASE ReadWord(t)
  <2>1. t \in ri[vi[t]]
    BY <1>4 DEF ReadWord, Arrived
  <2>2. QED
    BY <1>4, <2>1, ReaderStep DEF ReadWord, Types, NonWriters
<1>5. CASE Depart(t)
  <2>1. ri' \in [{0, 1} -> SUBSET Threads]
    BY <1>5 DEF Depart, Types
  <2>2. \A u \in Threads \ {t}, v \in {0, 1} : u \in ri'[v] <=> u \in ri[v]
    BY <1>5 DEF Depart, Types
  <2>3. QED
    BY <1>5, <2>1, <2>2, ReaderStep DEF Depart, Types, NonWriters
<1>6. QED
  BY <1>1, <1>2, <1>3, <1>4, <1>5 DEF Read

-----------------------------------------------------------------------------
(* A thread with writersMutex is the only one, and tells where readers go. *)
LEMMA WriterAlone ==
  ASSUME IInv, NEW t \in Threads,
         pc[t] \in Writers \/ writersMutex = NONE
  PROVE  /\ \A u \in Threads : u # t => pc[u] \notin Writers
         /\ leftRight = IF pc[t] \in AtRight THEN "RIGHT" ELSE "LEFT"
         /\ g_right <=> pc[t] \in AtRight \union ToLeft
BY IndexFacts DEF IInv, Types, Sides, Writers

(* A step of the writer t, from taking writersMutex to giving it back.     *)
LEMMA WriterIInv ==
  ASSUME IInv, NEW t \in Threads, NEW to \in Writers \union {"idle"},
         pc[t] \in Writers \/ (pc[t] = "w_lock" /\ writersMutex = NONE),
         pc' = [pc EXCEPT ![t] = to],
         i' \in [Threads -> 0 .. MaxThreads],
         \A u \in Threads \ {t} : i'[u] = i[u],
         to \in Scanning => i'[t] \in Threads,
         to \notin Scanning \union {"w_run"} => i'[t] = 0,
         writersMutex' = IF to \in Writers THEN t ELSE NONE,
         leftRight' = IF to \in AtRight THEN "RIGHT" ELSE "LEFT",
         g_right' <=> to \in AtRight \union ToLeft, g_right' \in BOOLEAN,
         versionIndex' \in {0, 1},
         UNCHANGED <<ri, vi>>, lr' = [lr EXCEPT ![t] = lr'[t]],
         lr'[t] \in {"LEFT", "RIGHT"},
         to \in AtRight => Stale(t, "LEFT", RightSteps)',
         to \in ToLeft => Stale(t, "RIGHT", LeftSteps)',
         to \notin AtRight \union ToLeft => On("RIGHT") = {}
  PROVE  IInv'
<1> USE DEF IInv
<1>1. Types'
  BY DEF Types, NonWriters, Writers, AtRight, ToLeft, Others
<1>2. Indices'
  BY DEF Types, Indices
<1>3. \A u \in Threads : u # t => pc'[u] = pc[u] /\ pc[u] \notin Writers
  BY WriterAlone DEF Types
<1>4. pc'[t] = to
  BY DEF Types
<1>5. Sides'
  BY <1>3, <1>4, IndexFacts DEF Sides, Writers, AtRight, ToLeft, Others
<1>6. Arrived'
  BY <1>4, <1>3 DEF Arrived, Writers, AtRight, ToLeft, Others, Types
<1>7. \A side : On(side)' = On(side)
  <2>1. \A u \in Threads : pc'[u] = "reading" <=> pc[u] = "reading"
    BY <1>3, <1>4 DEF Writers, AtRight, ToLeft, Others
  <2>2. \A u \in Threads : pc[u] = "reading" => lr'[u] = lr[u]
    BY <1>3 DEF Writers, AtRight, ToLeft, Others, Types
  <2>3. QED
    BY <2>1, <2>2 DEF On
<1>8. Waits'
  BY <1>3, <1>4, <1>7 DEF Waits, Writers
<1>9. QED
  BY <1>1, <1>2, <1>5, <1>6, <1>8

LEMMA CombineIInv ==
  ASSUME IInv, NEW t \in Threads, Combine(t), UNCHANGED <<lrVars, readVars>>
  PROVE  IInv'
<1> USE DEF IInv, Goto, readVars
<1>1. CASE CheckFc(t)
  BY <1>1, Quiet DEF CheckFc, Types, Indices, Outer, NonWriters, Scanning
<1>2. CASE Collect(t) \/ ClearFc(t)
  <2>1. i[t] \in Threads /\ i' = [i EXCEPT ![t] = (i[t] + 1) % MaxThreads]
    BY <1>2 DEF Collect, ClearFc, Indices, Scanning
  <2>2. i' \in [Threads -> 0 .. MaxThreads] /\ i'[t] = (i[t] + 1) % MaxThreads
    BY <2>1, WrapsAround DEF Types
  <2>3. \A u \in Threads \ {t} : i'[u] = i[u]
    BY <2>1 DEF Types
  <2>4. CASE i[t] < MaxThreads - 1
    <3>1. i'[t] \in Threads
      BY <2>1, <2>2, <2>4, WrapsAround
    <3>2. pc' = [pc EXCEPT ![t] = pc[t]] /\ pc[t] \in {"w_collect", "w_clear"}
      BY <1>2, <2>4 DEF Collect, ClearFc
    <3>3. QED
      BY <2>2, <2>3, <3>1, <3>2, Quiet DEF Others, Scanning
  <2>5. CASE ~(i[t] < MaxThreads - 1)
    <3>1. i'[t] = 0
      BY <2>1, <2>2, <2>5, WrapsAround
    <3>2. PICK to \in {"w_nothing", "w_mutating", "w_back"} :
            pc[t] \in {"w_collect", "w_clear"} /\ pc' = [pc EXCEPT ![t] = to]
      BY <1>2, <2>5 DEF Collect, ClearFc
    <3>3. QED
      BY <2>2, <2>3, <3>1, <3>2, Quiet DEF Others, Scanning
  <2>6. QED
    BY <2>4, <2>5
<1>3. CASE \/ SetMutating(t) \/ FenceState(t, "w_mutating2", "w_exclude")
           \/ CopyToBack(t) \/ FenceBack(t) \/ SetIdle(t)
  <2>1. PICK from, to \in {"w_mutating", "w_mutating2", "w_exclude", "w_back",
                           "w_back2", "w_idle", "w_unlock"} :
          pc[t] = from /\ pc' = [pc EXCEPT ![t] = to] /\ i' = i
    BY <1>3 DEF SetMutating, FenceState, CopyToBack, FenceBack, SetIdle
  <2>2. QED
    BY <2>1, Quiet DEF Types, Indices, Others, Scanning
<1>4. CASE RunNext(t)
  <2>1. i' = [i EXCEPT ![t] = i[t] + 1] /\ i'[t] \in 0 .. MaxThreads
    BY <1>4, IndexFacts DEF RunNext, Types
  <2>2. QED
    BY <1>4, <2>1, Quiet DEF RunNext, Types, Writing, Scanning
<1>5. CASE StoreWord(t) \/ GrowUsed(t) \/ SetCopying(t)
  <2>1. PICK from \in Writing, to \in Writing :
          /\ pc[t] = from /\ pc' = [pc EXCEPT ![t] = to] /\ i' = i
          /\ to # "w_run" => from # "w_run"
    BY <1>5 DEF StoreWord, GrowUsed, SetCopying, Writing
  <2>2. QED
    BY <2>1, Quiet DEF Types, Indices, Writing, Scanning
<1>6. CASE FlushMain(t)
  BY <1>6, Quiet, IndexFacts DEF FlushMain, Types, Writing, Scanning
<1>7. QED
  BY <1>1, <1>2, <1>3, <1>4, <1>5, <1>6 DEF Combine

-----------------------------------------------------------------------------
(* A scan either goes on, from 0 after it met a reader, or has seen the    *)
(* last slot empty; the slot it passes is nobody's.                        *)
LEMMA Scan ==
  ASSUME IInv, NEW t \in Threads, NEW v \in {0, 1},
         NEW from \in Scanning, NEW to, WaitEmpty(t, v, from, to)
  PROVE  /\ i[t] \in Threads
         /\ i' \in [Threads -> 0 .. MaxThreads]
         /\ \A u \in Threads \ {t} : i'[u] = i[u]
         /\ \/ /\ pc' = [pc EXCEPT ![t] = from] /\ i'[t] \in Threads
               /\ i'[t] = 0 \/ (i'[t] = i[t] + 1 /\ i[t] \notin ri[v])
            \/ /\ pc' = [pc EXCEPT ![t] = to] /\ i'[t] = 0
               /\ i[t] = MaxThreads - 1 /\ i[t] \notin ri[v]
<1> USE DEF IInv
<1>1. pc[t] = from /\ i[t] \in Threads
  BY DEF WaitEmpty, Goto, Indices
<1>2. i' = [i EXCEPT ![t] = IF i[t] \in ri[v] \/ i[t] = MaxThreads - 1
                            THEN 0 ELSE i[t] + 1]
  BY DEF WaitEmpty
<1>3. i'[t] = IF i[t] \in ri[v] \/ i[t] = MaxThreads - 1 THEN 0 ELSE i[t] + 1
  BY <1>2 DEF Types
<1>4. i'[t] \in Threads
  BY <1>1, <1>3, IndexFacts
<1>5. i' \in [Threads -> 0 .. MaxThreads]
  BY <1>1, <1>2, IndexFacts DEF Types
<1>6. \A u \in Threads \ {t} : i'[u] = i[u]
  BY <1>2 DEF Types
<1>7. CASE i[t] \notin ri[v] /\ i[t] = MaxThreads - 1
  BY <1>1, <1>3, <1>5, <1>6, <1>7 DEF WaitEmpty, Goto
<1>8. CASE ~(i[t] \notin ri[v] /\ i[t] = MaxThreads - 1)
  BY <1>1, <1>3, <1>4, <1>5, <1>6, <1>8 DEF WaitEmpty, Goto
<1>9. QED
  BY <1>7, <1>8

(* Both waits of a writer, for the readers of `side`.                      *)
LEMMA WaitsEnd ==
  ASSUME IInv, NEW t \in Threads, NEW side, NEW at \in {RightSteps, LeftSteps},
         Stale(t, side, at), toggleVersionAndWait(t, at)
  PROVE  \E to \in {at[1], at[2], at[3], at[4]} :
           /\ pc' = [pc EXCEPT ![t] = to]
           /\ i' \in [Threads -> 0 .. MaxThreads]
           /\ \A u \in Threads \ {t} : i'[u] = i[u]
           /\ to \in Scanning => i'[t] \in Threads
           /\ to \notin Scanning => i'[t] = 0
           /\ versionIndex' \in {0, 1}
           /\ UNCHANGED <<writersMutex, leftRight, g_right, readVars>>
           /\ Stale(t, side, at)'
<1> DEFINE Waited(s, to) ==
             /\ pc[t] = s
             /\ i' \in [Threads -> 0 .. MaxThreads]
             /\ \A u \in Threads \ {t} : i'[u] = i[u]
             /\ \/ /\ pc' = [pc EXCEPT ![t] = s] /\ i'[t] \in Threads
                   /\ \/ i'[t] = 0
                      \/ i'[t] = i[t] + 1 /\ i[t] \notin ri[1 - versionIndex]
                \/ /\ pc' = [pc EXCEPT ![t] = to] /\ i'[t] = 0
                   /\ i[t] = MaxThreads - 1
                   /\ i[t] \notin ri[1 - versionIndex]
<1> USE DEF IInv
<1>0. /\ at[1] \in Scanning /\ at[3] \in Scanning /\ at[1] # at[3]
      /\ at[2] \in Writers \ (Scanning \union {"w_run"})
      /\ at[4] \in Writers \ Scanning /\ at[2] # at[4]
  BY DEF RightSteps, LeftSteps, Scanning, Writers, AtRight, ToLeft
<1>1. \A u \in On(side) : /\ u \in ri[vi[u]] /\ u \in Threads
                          /\ vi[u] \in {0, 1} /\ u >= 0
  BY IndexFacts DEF On, Arrived, Types
<1>2. UNCHANGED <<readVars, writersMutex, leftRight, g_right>>
  BY DEF toggleVersionAndWait, WaitEmpty, ToggleVersion, lrVars
<1>3. versionIndex \in {0, 1} /\ 1 - versionIndex \in {0, 1}
  BY DEF Types
<1>4. "reading" \notin {at[1], at[2], at[3], at[4]}
  BY <1>0 DEF Scanning, Writers, AtRight, ToLeft, Others
<1>5. ASSUME NEW to \in {at[1], at[2], at[3], at[4]}, pc[t] \in {at[1], at[2], at[3]},
             pc' = [pc EXCEPT ![t] = to]
      PROVE  On(side)' = On(side) /\ pc'[t] = to
  <2>1. \A u \in Threads : pc'[u] = "reading" <=> pc[u] = "reading"
    BY <1>4, <1>5 DEF Types
  <2>2. QED
    BY <1>0, <1>2, <1>5, <2>1 DEF On, readVars, Types
<1>6. \A n \in Threads, u \in Threads :
        u >= n => u >= n + 1 \/ u = n
  BY IndexFacts DEF Threads
<1>6a. \A u \in Threads : u >= MaxThreads - 1 => u = MaxThreads - 1
  BY IndexFacts DEF Threads
<1>7. CASE WaitEmpty(t, 1 - versionIndex, at[1], at[2])
  <2>1. Waited(at[1], at[2]) /\ versionIndex' = versionIndex /\ i[t] \in Threads
    <3>1. pc[t] = at[1] /\ versionIndex' = versionIndex
      BY <1>7 DEF WaitEmpty, Goto, lrVars
    <3>2. QED
      BY <1>0, <1>3, <1>7, <3>1, Scan
  <2>2. \A u \in On(side) : vi[u] = versionIndex \/ u >= i[t]
    BY <1>0, <2>1 DEF Stale
  <2>3. CASE pc' = [pc EXCEPT ![t] = at[1]] /\ i'[t] \in Threads
    <3>1. pc'[t] = at[1] /\ On(side)' = On(side)
      BY <1>5, <2>1, <2>3
    <3>2. \A u \in On(side) : vi[u] = versionIndex \/ u >= i'[t]
      BY <1>1, <1>3, <1>6, <2>1, <2>2, <2>3, <3>1, IndexFacts DEF Types
    <3>3. Stale(t, side, at)'
      BY <1>0, <1>2, <2>1, <3>1, <3>2 DEF Stale, readVars
    <3>4. QED
      BY <1>0, <1>2, <1>3, <2>1, <2>3, <3>3
  <2>4. CASE pc' = [pc EXCEPT ![t] = at[2]] /\ i'[t] = 0 /\ i[t] = MaxThreads - 1
             /\ i[t] \notin ri[1 - versionIndex]
    <3>1. pc'[t] = at[2] /\ On(side)' = On(side)
      BY <1>5, <2>1, <2>4
    <3>2. \A u \in On(side) : vi[u] = versionIndex
      BY <1>1, <1>3, <1>6a, <2>2, <2>4
    <3>3. Stale(t, side, at)'
      BY <1>0, <1>2, <2>1, <3>1, <3>2 DEF Stale, readVars
    <3>4. QED
      BY <1>0, <1>2, <1>3, <2>1, <2>4, <3>3
  <2>5. QED
    BY <2>1, <2>3, <2>4
<1>8. CASE ToggleVersion(t, at[2], at[3])
  <2>1. /\ pc[t] = at[2] /\ pc' = [pc EXCEPT ![t] = at[3]] /\ i' = i
        /\ versionIndex' = 1 - versionIndex
    BY <1>8 DEF ToggleVersion, Goto
  <2>2. pc'[t] = at[3] /\ On(side)' = On(side)
    BY <1>5, <2>1
  <2>3. i \in [Threads -> 0 .. MaxThreads] /\ i[t] = 0 /\ 0 \in Threads
    BY <1>0, <2>1, IndexFacts DEF Indices, Types
  <2>4. \A u \in On(side) : vi[u] = 1 - versionIndex' /\ u >= i'[t]
    BY <1>0, <1>1, <1>3, <2>1, <2>3 DEF Stale
  <2>5. Stale(t, side, at)'
    BY <1>0, <1>2, <2>1, <2>2, <2>4 DEF Stale, readVars
  <2>6. QED
    BY <1>0, <1>2, <1>3, <2>1, <2>3, <2>5
<1>9. CASE WaitEmpty(t, 1 - versionIndex, at[3], at[4])
  <2>1. Waited(at[3], at[4]) /\ versionIndex' = versionIndex /\ i[t] \in Threads
    <3>1. pc[t] = at[3] /\ versionIndex' = versionIndex
      BY <1>9 DEF WaitEmpty, Goto, lrVars
    <3>2. QED
      BY <1>0, <1>3, <1>9, <3>1, Scan
  <2>2. \A u \in On(side) : vi[u] = 1 - versionIndex /\ u >= i[t]
    BY <1>0, <2>1 DEF Stale
  <2>3. CASE pc' = [pc EXCEPT ![t] = at[3]] /\ i'[t] \in Threads
    <3>1. pc'[t] = at[3] /\ On(side)' = On(side)
      BY <1>5, <2>1, <2>3
    <3>2. \A u \in On(side) : vi[u] = 1 - versionIndex /\ u >= i'[t]
      BY <1>1, <1>3, <1>6, <2>1, <2>2, <2>3, <3>1, IndexFacts DEF Types
    <3>3. Stale(t, side, at)'
      BY <1>0, <1>2, <2>1, <3>1, <3>2 DEF Stale, readVars
    <3>4. QED
      BY <1>0, <1>2, <1>3, <2>1, <2>3, <3>3
  <2>4. CASE pc' = [pc EXCEPT ![t] = at[4]] /\ i'[t] = 0 /\ i[t] = MaxThreads - 1
             /\ i[t] \notin ri[1 - versionIndex]
    <3>1. pc'[t] = at[4] /\ On(side)' = On(side)
      BY <1>5, <2>1, <2>4
    <3>2. On(side) = {}
      <4>1. SUFFICES ASSUME NEW u \in On(side) PROVE FALSE
        OBVIOUS
      <4>2. u = MaxThreads - 1 /\ vi[u] = 1 - versionIndex
        BY <1>1, <1>6a, <2>2, <2>4
      <4>3. QED
        BY <1>1, <2>4, <4>2
    <3>3. Stale(t, side, at)'
      BY <1>0, <3>1, <3>2 DEF Stale
    <3>4. QED
      BY <1>0, <1>2, <1>3, <2>1, <2>4, <3>3
  <2>5. QED
    BY <2>1, <2>3, <2>4
<1>10. QED
  BY <1>7, <1>8, <1>9 DEF toggleVersionAndWait

-----------------------------------------------------------------------------
LEMMA WriteIInv ==
  ASSUME IInv, NEW t \in Threads, Write(t)
  PROVE  IInv'
<1> USE DEF IInv, Goto
<1>0. /\ i \in [Threads -> 0 .. MaxThreads] /\ 0 \in Threads
      /\ lr \in [Threads -> {"LEFT", "RIGHT"}] /\ lr = [lr EXCEPT ![t] = lr[t]]
      /\ versionIndex \in {0, 1}
  BY IndexFacts DEF Types
<1>1. CASE TryLock(t)
  <2>1. CASE writersMutex = NONE
    <3>1. /\ pc' = [pc EXCEPT ![t] = "w_collect"] /\ i' = i /\ i[t] = 0
          /\ pc[t] = "w_lock" /\ writersMutex' = t
          /\ UNCHANGED <<leftRight, g_right, versionIndex, readVars>>
      BY <1>1, <2>1 DEF TryLock, Indices, Scanning
    <3>2. leftRight = "LEFT" /\ g_right = FALSE
      BY <2>1, <3>1, WriterAlone DEF AtRight, ToLeft, Types
    <3>3. On("RIGHT") = {}
      BY <3>2 DEF Waits
    <3>4. QED
      BY <1>0, <2>1, <3>1, <3>2, <3>3, WriterIInv
         DEF readVars, Writers, AtRight, ToLeft, Others, Scanning
  <2>2. CASE writersMutex # NONE
    BY <1>1, <2>2, Quiet
       DEF TryLock, readVars, lrVars, Types, Indices, Outer, NonWriters, Scanning
  <2>3. QED
    BY <2>1, <2>2
<1>2. CASE TraverseRight(t)
  <2>1. /\ pc' = [pc EXCEPT ![t] = "w_right"] /\ i' = i /\ i[t] = 0
        /\ pc[t] = "w_exclude" /\ lr' = [lr EXCEPT ![t] = "LEFT"]
        /\ leftRight' = "RIGHT" /\ g_right' = TRUE
        /\ UNCHANGED <<writersMutex, versionIndex, ri, vi>>
    BY <1>2 DEF TraverseRight, Indices, Scanning
  <2>2. writersMutex' = t /\ lr'[t] = "LEFT" /\ pc'[t] = "w_right"
    BY <2>1 DEF Sides, Writers, Others, Types
  <2>3. Stale(t, "LEFT", RightSteps)'
    <3>1. i'[t] = 0 /\ \A u \in On("LEFT")' : u >= 0
      BY <2>1, IndexFacts DEF On
    <3>2. QED
      BY <2>2, <3>1 DEF Stale, RightSteps
  <2>4. QED
    BY <1>0, <2>1, <2>2, <2>3, WriterIInv
       DEF Writers, AtRight, ToLeft, Others, Scanning
<1>3. CASE toggleVersionAndWait(t, <<"w_right", "w_right2", "w_right3", "w_run">>)
  <2>1. pc[t] \in {"w_right", "w_right2", "w_right3"}
    BY <1>3 DEF toggleVersionAndWait, WaitEmpty, ToggleVersion
  <2>2. Stale(t, "LEFT", RightSteps) /\ writersMutex = t
    BY <2>1 DEF Waits, AtRight, Sides, Writers
  <2>3. leftRight = "RIGHT" /\ g_right = TRUE
    BY <2>1, WriterAlone DEF AtRight, Writers, Types
  <2>4. toggleVersionAndWait(t, RightSteps)
    BY <1>3 DEF RightSteps
  <2>5. PICK to \in {RightSteps[1], RightSteps[2], RightSteps[3], RightSteps[4]} :
           /\ pc' = [pc EXCEPT ![t] = to]
           /\ i' \in [Threads -> 0 .. MaxThreads]
           /\ \A u \in Threads \ {t} : i'[u] = i[u]
           /\ to \in Scanning => i'[t] \in Threads
           /\ to \notin Scanning => i'[t] = 0
           /\ versionIndex' \in {0, 1}
           /\ UNCHANGED <<writersMutex, leftRight, g_right, readVars>>
           /\ Stale(t, "LEFT", RightSteps)'
    BY <2>2, <2>4, WaitsEnd
  <2>6. to \in AtRight /\ to \notin ToLeft /\ to \in Writers
    BY <2>5 DEF RightSteps, Writers, AtRight, ToLeft
  <2>7. /\ UNCHANGED <<ri, vi, lr>> /\ lr'[t] \in {"LEFT", "RIGHT"}
        /\ pc[t] \in Writers
    BY <1>0, <2>1, <2>5 DEF readVars, Writers, AtRight, ToLeft
  <2>8. QED
    BY <1>0, <2>2, <2>3, <2>5, <2>6, <2>7, WriterIInv
<1>4. CASE SyncCopying(t)
  BY <1>4, Quiet DEF SyncCopying, FenceState, readVars, Types, Indices,
                     Writing, Scanning
<1>5. CASE TraverseLeft(t)
  <2>1. /\ pc' = [pc EXCEPT ![t] = "w_left2"] /\ i' = i /\ i[t] = 0
        /\ pc[t] = "w_left" /\ leftRight' = "LEFT"
        /\ UNCHANGED <<writersMutex, g_right, versionIndex, readVars>>
    BY <1>5 DEF TraverseLeft, Indices, Scanning
  <2>2. writersMutex = t /\ g_right = TRUE /\ pc'[t] = "w_left2"
    BY <2>1, WriterAlone DEF Sides, Writers, AtRight, Types
  <2>3. Stale(t, "RIGHT", LeftSteps)'
    BY <2>1, <2>2, IndexFacts DEF Stale, LeftSteps, On
  <2>4. QED
    BY <1>0, <2>1, <2>2, <2>3, WriterIInv
       DEF readVars, Writers, AtRight, ToLeft, Scanning
<1>6. CASE toggleVersionAndWait(t, <<"w_left2", "w_left3", "w_left4", "w_left5">>)
  <2>1. pc[t] \in {"w_left2", "w_left3", "w_left4"}
    BY <1>6 DEF toggleVersionAndWait, WaitEmpty, ToggleVersion
  <2>2. Stale(t, "RIGHT", LeftSteps) /\ writersMutex = t
    BY <2>1 DEF Waits, ToLeft, Sides, Writers
  <2>3. leftRight = "LEFT" /\ g_right = TRUE
    BY <2>1, WriterAlone DEF AtRight, ToLeft, Writers, Types
  <2>4. toggleVersionAndWait(t, LeftSteps)
    BY <1>6 DEF LeftSteps
  <2>5. PICK to \in {LeftSteps[1], LeftSteps[2], LeftSteps[3], LeftSteps[4]} :
           /\ pc' = [pc EXCEPT ![t] = to]
           /\ i' \in [Threads -> 0 .. MaxThreads]
           /\ \A u \in Threads \ {t} : i'[u] = i[u]
           /\ to \in Scanning => i'[t] \in Threads
           /\ to \notin Scanning => i'[t] = 0
           /\ versionIndex' \in {0, 1}
           /\ UNCHANGED <<writersMutex, leftRight, g_right, readVars>>
           /\ Stale(t, "RIGHT", LeftSteps)'
    BY <2>2, <2>4, WaitsEnd
  <2>6. to \in ToLeft /\ to \notin AtRight /\ to \in Writers
    BY <2>5 DEF LeftSteps, Writers, AtRight, ToLeft
  <2>7. /\ UNCHANGED <<ri, vi, lr>> /\ lr'[t] \in {"LEFT", "RIGHT"}
        /\ pc[t] \in Writers
    BY <1>0, <2>1, <2>5 DEF readVars, Writers, AtRight, ToLeft
  <2>8. QED
    BY <1>0, <2>2, <2>3, <2>5, <2>6, <2>7, WriterIInv
<1>7. CASE LeaveRight(t)
  <2>1. /\ pc' = [pc EXCEPT ![t] = "w_clear"] /\ i' = i /\ i[t] = 0
        /\ pc[t] = "w_left5" /\ g_right' = FALSE
        /\ UNCHANGED <<writersMutex, leftRight, versionIndex, readVars>>
    BY <1>7 DEF LeaveRight, Indices, Scanning
  <2>2. writersMutex = t /\ leftRight = "LEFT"
    BY <2>1, WriterAlone DEF Sides, Writers, ToLeft, AtRight
  <2>3. On("RIGHT") = {}
    BY <2>1 DEF Waits, Stale, LeftSteps, ToLeft
  <2>4. QED
    BY <1>0, <2>1, <2>2, <2>3, WriterIInv
       DEF readVars, Writers, AtRight, ToLeft, Others, Scanning
<1>8. CASE Unlock(t)
  <2>1. /\ pc' = [pc EXCEPT ![t] = "idle"] /\ i' = i /\ i[t] = 0
        /\ pc[t] \in {"w_unlock", "w_nothing"} /\ writersMutex' = NONE
        /\ UNCHANGED <<leftRight, g_right, versionIndex, readVars>>
    BY <1>8 DEF Unlock, Indices, Scanning
  <2>2. leftRight = "LEFT" /\ g_right = FALSE
    BY <2>1, WriterAlone DEF Writers, Others, ToLeft, AtRight, Types
  <2>3. On("RIGHT") = {}
    BY <2>2 DEF Waits
  <2>4. QED
    BY <1>0, <2>1, <2>2, <2>3, WriterIInv
       DEF readVars, Writers, AtRight, ToLeft, Others, Scanning
<1>9. CASE Combine(t) /\ UNCHANGED <<lrVars, readVars>>
  BY <1>9, CombineIInv
<1>10. QED
  BY <1>1, <1>2, <1>3, <1>4, <1>5, <1>6, <1>7, <1>8, <1>9 DEF Write

LEMMA NextIInv == IInv /\ [Next]_vars => IInv'
<1> SUFFICES ASSUME IInv, [Next]_vars PROVE IInv'
  OBVIOUS
<1> USE DEF IInv
<1>1. ASSUME NEW t \in Threads, Write(t) PROVE IInv'
  BY <1>1, WriteIInv
<1>2. ASSUME NEW t \in Threads, Read(t) PROVE IInv'
  BY <1>2, ReadIInv
<1>3. ASSUME NEW t \in Threads, Begin(t) PROVE IInv'
  <2>1. CASE BeginRead(t)
    BY <2>1, ReadIInv
  <2>2. ASSUME NEW op, Post(t, op), UNCHANGED <<lrVars, readVars>> PROVE IInv'
    BY <2>2, Quiet DEF Post, Goto, readVars, Types, Indices, Outer, NonWriters,
                       Scanning
  <2>3. QED
    BY <1>3, <2>1, <2>2 DEF Begin
<1>4. CASE Crash
  <2> USE <1>4 DEF Crash, RomCrash
  <2>1. Types' /\ Indices'
    BY IndexFacts DEF Types, Indices, NonWriters, Scanning
  <2>2. Sides' /\ Arrived'
    BY IndexFacts DEF Sides, Arrived, Writers, AtRight, ToLeft, Others
  <2>3. Waits'
    BY DEF Waits, AtRight, ToLeft, On
  <2>4. QED
    BY <2>1, <2>2, <2>3
<1>5. CASE UNCHANGED <<pc, i, lrVars, readVars>>
  <2> USE <1>5 DEF lrVars, readVars
  <2>1. Types' /\ Indices' /\ Sides' /\ Arrived'
    BY DEF Types, Indices, Sides, Arrived
  <2>2. Waits'
    BY DEF Waits, Stale, On
  <2>3. QED
    BY <2>1, <2>2
<1>6. CASE Recover /\ UNCHANGED <<lrVars, readVars>>
  BY <1>5, <1>6 DEF Recover, RecoverCopy, RecoverFence, RecoverIdle
<1>7. CASE Done \/ UNCHANGED vars
  BY <1>5, <1>7 DEF Done, vars, romVars
<1>8. QED
  BY <1>1, <1>2, <1>3, <1>4, <1>6, <1>7 DEF Next

(* At w_run the readers of main are gone, at w_back those of back.         *)
LEMMA IInvReaders == IInv => ReaderUndisturbed
<1> SUFFICES ASSUME IInv, NEW t \in Threads, pc[t] = "reading"
             PROVE  /\ lr[t] = "LEFT" => \A u \in Threads : pc[u] # "w_run"
                    /\ lr[t] = "RIGHT" =>
                         g_right /\ \A u \in Threads : pc[u] # "w_back"
  BY DEF ReaderUndisturbed
<1> USE DEF IInv
<1>1. ASSUME NEW u \in Threads, pc[u] = "w_run" PROVE lr[t] # "LEFT"
  BY <1>1 DEF Waits, Stale, RightSteps, AtRight, On
<1>2. lr[t] = "RIGHT" => g_right
  BY DEF Waits, On
<1>3. ASSUME NEW u \in Threads, pc[u] = "w_back", g_right PROVE FALSE
  BY <1>3, WriterAlone DEF Writers, Others, AtRight, ToLeft
<1>4. QED
  BY <1>1, <1>2, <1>3

(* ReaderUndisturbed, the promise of Left-Right to the readers: the copy   *)
(* ns_read_transaction reads is not written while it does.                 *)
THEOREM Sound == Spec => []ReaderUndisturbed
<1>1. Spec => []IInv
  BY InitIInv, NextIInv, PTL DEF Spec
<1>2. QED
  BY <1>1, IInvReaders, PTL

-----------------------------------------------------------------------------
(***************************************************************************)
(* The two copies: what Romulus_proofs asks for is that the writer is      *)
(* alone, which Sides gives.                                               *)
(***************************************************************************)
LEMMA SamePlaces ==
  Critical = Writers /\ {"idle", "w_lock", "r_arrive", "r_side", "reading"} \intersect Critical = {}
BY DEF Critical, Resting, Mutated, Excluding, Published, Turning, Writers,
       Others, AtRight, ToLeft

LEMMA AloneHere ==
  ASSUME IInv
  PROVE  Alone
BY SamePlaces DEF IInv, Sides, Alone

LEMMA TryLockStep ==
  ASSUME IInv, RInv, NEW t \in Threads, TryLock(t)
  PROVE  RInv'
<1> USE DEF TryLock, Goto
<1>1. /\ pc[t] = "w_lock" /\ boot = "up" /\ pc[t] \notin Critical
      /\ UNCHANGED <<memVars, combVars, boot, i, ghostVars>>
  BY SamePlaces
<1>2. CASE writersMutex = NONE
  <2>1. \A u \in Threads : pc[u] \notin Critical
    BY <1>2, SamePlaces, SizeFacts DEF IInv, Sides
  <2>2. pc' = [pc EXCEPT ![t] = "w_collect"]
    BY <1>2
  <2>3. QED
    BY <1>1, <2>1, <2>2, BystanderGoes DEF Reading
<1>3. CASE writersMutex # NONE
  <2>1. pc' = [pc EXCEPT ![t] = "w_check"]
    BY <1>3
  <2>2. QED
    BY <1>1, <2>1, BystanderGoes DEF Reading, Outside
<1>4. QED
  BY <1>2, <1>3

(* Between two places of Left-Right that are no loops.                     *)
LEMMA TurnStep ==
  ASSUME IInv, RInv, NEW t \in Threads, NEW from, NEW to, Goto(t, from, to),
         <<from, to>> \in {<<"w_exclude", "w_right">>, <<"w_right2", "w_right3">>,
                           <<"w_left3", "w_left4">>, <<"w_left5", "w_clear">>},
         UNCHANGED <<memVars, combVars, boot, i, ghostVars>>
  PROVE  RInv'
<1>1. /\ pc[t] = from /\ boot = "up" /\ pc' = [pc EXCEPT ![t] = to] /\ Alone
      /\ i \in [Threads -> 0 .. MaxThreads] /\ i[t] = 0
  BY AloneHere DEF Goto, RInv, PlaceTypes, Scanning
<1>2. QED
  BY <1>1, SizeFacts, WriterGoes DEF Excluding, Turning

(* A step of a scan, which goes on, starts again or ends.                  *)
LEMMA WaitMoves ==
  ASSUME IInv, RInv, NEW t \in Threads, NEW v, NEW from \in Scanning, NEW to,
         WaitEmpty(t, v, from, to), from # to
  PROVE  \E q \in {from, to} :
           /\ pc' = [pc EXCEPT ![t] = q] /\ pc'[t] = q
           /\ q = to => i'[t] = 0
           /\ i'[t] \in Threads
           /\ i' \in [Threads -> 0 .. MaxThreads]
           /\ \A u \in Threads \ {t} : i'[u] = i[u]
<1>1. /\ pc[t] = from /\ i[t] \in Threads /\ i \in [Threads -> 0 .. MaxThreads]
      /\ pc \in [Threads -> Critical \union Outside]
  BY DEF WaitEmpty, Goto, RInv, PlaceTypes
<1>2. CASE i[t] \notin ri[v] /\ i[t] = MaxThreads - 1
  BY <1>1, <1>2, SizeFacts DEF WaitEmpty, Goto
<1>3. CASE ~(i[t] \notin ri[v] /\ i[t] = MaxThreads - 1)
  <2>1. /\ pc' = [pc EXCEPT ![t] = from]
        /\ i' = [i EXCEPT ![t] = i'[t]]
        /\ i'[t] = IF i[t] \in ri[v] \/ i[t] = MaxThreads - 1 THEN 0 ELSE i[t] + 1
    BY <1>1, <1>3 DEF WaitEmpty, Goto
  <2>2. i'[t] \in Threads /\ i'[t] \in 0 .. MaxThreads
    BY <1>1, <2>1, ThreadFacts, SizeFacts
  <2>3. QED
    BY <1>1, <2>1, <2>2
<1>4. QED
  BY <1>2, <1>3

LEMMA WaitStep ==
  ASSUME IInv, RInv, NEW t \in Threads, NEW v, NEW from, NEW to,
         WaitEmpty(t, v, from, to),
         <<from, to>> \in {<<"w_right", "w_right2">>, <<"w_right3", "w_run">>,
                           <<"w_left2", "w_left3">>, <<"w_left4", "w_left5">>}
  PROVE  RInv'
<1>1. /\ pc[t] = from /\ boot = "up" /\ Alone
      /\ UNCHANGED <<memVars, combVars, boot, ghostVars>>
  BY AloneHere DEF WaitEmpty, Goto
<1>2. PICK q \in {from, to} :
        /\ pc' = [pc EXCEPT ![t] = q] /\ pc'[t] = q
        /\ q = to => i'[t] = 0
        /\ i'[t] \in Threads
        /\ i' \in [Threads -> 0 .. MaxThreads]
        /\ \A u \in Threads \ {t} : i'[u] = i[u]
  <2>1. from \in Scanning /\ from # to
    BY DEF Scanning
  <2>2. QED
    BY <2>1, WaitMoves
<1>3. /\ \/ pc[t] \in Excluding /\ q \in Excluding \union {"w_run"}
         \/ pc[t] \in Turning /\ q \in Turning \union {"w_clear"}
      /\ q \notin Scanning \/ q = "w_clear" => i'[t] = 0
  BY <1>1, <1>2 DEF Excluding, Turning, Scanning
<1>4. QED
  BY <1>1, <1>2, <1>3, WriterGoes

LEMMA CombineStep ==
  ASSUME IInv, RInv, NEW t \in Threads, Combine(t)
  PROVE  RInv'
BY AloneHere, CheckFcStep, CollectStep, SetMutatingStep, FenceMutatingStep,
   RunNextStep, StoreWordStep, GrowUsedStep, FlushMainStep, SetCopyingStep,
   ClearFcStep, CopyToBackStep, FenceBackStep, SetIdleStep DEF Combine

LEMMA WriteStep ==
  ASSUME IInv, RInv, NEW t \in Threads, Write(t)
  PROVE  RInv'
<1>1. CASE TraverseRight(t) \/ LeaveRight(t)
  BY <1>1, TurnStep DEF TraverseRight, LeaveRight
<1>2. CASE toggleVersionAndWait(t, <<"w_right", "w_right2", "w_right3", "w_run">>)
  <2>1. \/ WaitEmpty(t, 1 - versionIndex, "w_right", "w_right2")
        \/ ToggleVersion(t, "w_right2", "w_right3")
        \/ WaitEmpty(t, 1 - versionIndex, "w_right3", "w_run")
    BY <1>2 DEF toggleVersionAndWait
  <2>2. QED
    BY <2>1, TurnStep, WaitStep DEF ToggleVersion
<1>3. CASE toggleVersionAndWait(t, <<"w_left2", "w_left3", "w_left4", "w_left5">>)
  <2>1. \/ WaitEmpty(t, 1 - versionIndex, "w_left2", "w_left3")
        \/ ToggleVersion(t, "w_left3", "w_left4")
        \/ WaitEmpty(t, 1 - versionIndex, "w_left4", "w_left5")
    BY <1>3 DEF toggleVersionAndWait
  <2>2. QED
    BY <2>1, TurnStep, WaitStep DEF ToggleVersion
<1>4. CASE SyncCopying(t)
  BY <1>4, AloneHere, FenceCopyingStep DEF SyncCopying
<1>5. CASE TraverseLeft(t)
  BY <1>5, AloneHere, CommitStep DEF TraverseLeft, memVars, headVars
<1>6. CASE Unlock(t)
  BY <1>6, AloneHere, UnlockStep DEF Unlock
<1>7. QED
  BY <1>1, <1>2, <1>3, <1>4, <1>5, <1>6, TryLockStep, CombineStep DEF Write

LEMMA ReadStep ==
  ASSUME IInv, RInv, NEW t \in Threads, Read(t) \/ BeginRead(t)
  PROVE  RInv'
<1> USE DEF Goto, Reading, Outside
<1>1. CASE BeginRead(t)
  BY <1>1, OpenReadStep DEF BeginRead
<1>2. CASE Arrive(t) \/ LoadLeftRight(t) \/ ReadWord(t)
  <2>1. /\ boot = "up" /\ pc[t] \in Reading /\ pc[t] \notin Critical
        /\ \E to \in Reading : pc' = [pc EXCEPT ![t] = to]
        /\ UNCHANGED <<memVars, combVars, boot, i, ghostVars>>
    BY <1>2, SamePlaces DEF Arrive, LoadLeftRight, ReadWord
  <2>2. PICK to \in Reading : pc' = [pc EXCEPT ![t] = to]
    BY <2>1
  <2>3. to \in Outside /\ to # "w_collect"
    BY <2>2
  <2>4. QED
    BY <2>1, <2>2, <2>3, BystanderGoes
<1>3. CASE Depart(t)
  <2>1. SideCommit(t) \in Nat /\ SideCommit(t) <= Len(hist)
    BY DEF SideCommit, RInv, CallTypes
  <2>2. QED
    BY <1>3, <2>1, CloseReadStep DEF Depart
<1>4. QED
  BY <1>1, <1>2, <1>3 DEF Read

LEMMA NextRInv ==
  ASSUME IInv, RInv, [Next]_vars
  PROVE  RInv'
<1>1. ASSUME NEW t \in Threads, Begin(t) PROVE RInv'
  <2>1. work.words \subseteq Words
    BY DEF RInv, CallTypes, Workload
  <2>2. QED
    BY <1>1, <2>1, PostStep, ReadStep DEF Begin
<1>2. CASE UNCHANGED vars
  BY <1>2, Stutter DEF vars
<1>3. QED
  BY <1>1, <1>2, WriteStep, ReadStep, CrashStep, RecoverStep
     DEF Next, Done, Crash

LEMMA Invariance ==
  ASSUME LogsFit
  PROVE  Spec => [](IInv /\ RInv)
<1>1. Init => IInv /\ RInv
  BY InitIInv, InitRInv DEF Init
<1>2. IInv /\ RInv /\ [Next]_vars => IInv' /\ RInv'
  BY NextIInv, NextRInv
<1>3. QED
  BY <1>1, <1>2, PTL DEF Spec

(* Between transactions main and back agree, and at any step, whatever a   *)
(* crash leaves, the copy that recover() will trust is a whole commit that *)
(* has everything answered so far: the protocol IDLE, MUTATING, COPYING    *)
(* of RomulusLR.hpp, where the commit becomes visible after COPYING is     *)
(* durable and not with it.                                                *)
THEOREM Durable ==
  ASSUME LogsFit
  PROVE  Spec => []CopiesConsistent
<1>1. RInv => CopiesConsistent
  BY Consistent
<1>2. QED
  BY <1>1, Invariance, PTL

(* Flat combining in ns_write_transaction: a request that its thread finds *)
(* gone from fc has been run, and none is cleared that has not.            *)
THEOREM Combined ==
  ASSUME LogsFit
  PROVE  Spec => []ClearedAreDone
<1>1. RInv => ClearedAreDone
  BY Cleaned
<1>2. QED
  BY <1>1, Invariance, PTL

-----------------------------------------------------------------------------
(* The copy a reader goes to.                                              *)
Side(t) == IF lr[t] = "LEFT" THEN main ELSE back

(* What a reader has read is what its side holds, and one that is still at *)
(* back when leftRight is LEFT again began before that commit.             *)
SeenBy(t) ==
  /\ Len(val[t]) <= Blocks + 1
  /\ pc[t] # "reading" => val[t] = <<>>
  /\ \A n \in 1 .. Len(val[t]) : val[t][n] = Side(t)[n - 1]
  /\ pc[t] = "reading" /\ lr[t] = "RIGHT" /\ leftRight = "LEFT" =>
       call[t].from < Len(hist)

Seen == val \in [Threads -> Seq(Nat)] /\ \A t \in Threads : SeenBy(t)

(* While readers may still be at back, it holds the commit before the last.*)
Previous ==
  \A t \in Threads : pc[t] \in Turning =>
    Len(hist) > 1 /\ hist[Len(hist) - 1] = View(back)

LEMMA WaitLinear ==
  ASSUME IInv, RInv, Linear, NEW t \in Threads, NEW v, NEW from, NEW to,
         WaitEmpty(t, v, from, to),
         <<from, to>> \in {<<"w_right", "w_right2">>, <<"w_right3", "w_run">>,
                           <<"w_left2", "w_left3">>, <<"w_left4", "w_left5">>}
  PROVE  Linear'
<1>1. /\ pc[t] = from /\ boot = "up" /\ Alone
      /\ UNCHANGED <<fc, lfc, out, main, todo, hist, call>>
  BY AloneHere DEF WaitEmpty, Goto, memVars, heapVars, combVars, ghostVars
<1>2. PICK q \in {from, to} :
        /\ pc' = [pc EXCEPT ![t] = q] /\ pc'[t] = q
        /\ q = to => i'[t] = 0
        /\ i'[t] \in Threads
        /\ i' \in [Threads -> 0 .. MaxThreads]
        /\ \A u \in Threads \ {t} : i'[u] = i[u]
  <2>1. from \in Scanning /\ from # to
    BY DEF Scanning
  <2>2. QED
    BY <2>1, WaitMoves
<1>3. CASE q = "w_run"
  <2>1. pc[t] \in Excluding /\ i'[t] = 0
    BY <1>1, <1>2, <1>3 DEF Excluding
  <2>2. QED
    BY <1>1, <1>2, <1>3, <2>1, EnterRunLinear
<1>4. CASE q # "w_run"
  <2>1. Harmless(t)
    BY <1>1, <1>2, <1>4 DEF Harmless, Finishing, Turning, Reading
  <2>2. QED
    BY <1>1, <1>2, <2>1, GoesLinear
<1>5. QED
  BY <1>3, <1>4

LEMMA WriteLinear ==
  ASSUME IInv, RInv, Linear, NEW t \in Threads, Write(t)
  PROVE  Linear'
<1>1. Alone
  BY AloneHere
<1>2. ASSUME NEW from, NEW to, Goto(t, from, to),
             <<from, to>> \in {<<"w_lock", "w_collect">>, <<"w_lock", "w_check">>,
                               <<"w_exclude", "w_right">>, <<"w_right2", "w_right3">>,
                               <<"w_left3", "w_left4">>, <<"w_left5", "w_clear">>},
             UNCHANGED <<memVars, combVars, boot, i, ghostVars>>
      PROVE  Linear'
  <2>1. /\ pc[t] = from /\ pc' = [pc EXCEPT ![t] = to] /\ pc'[t] = to
        /\ UNCHANGED <<fc, lfc, out, main, todo, hist, call, i>>
    BY <1>2 DEF Goto, memVars, heapVars, combVars, ghostVars, RInv, PlaceTypes
  <2>2. to = "w_clear" => i'[t] = 0
    BY <1>2, <2>1 DEF RInv, PlaceTypes, Scanning
  <2>3. /\ to # "w_run" /\ to # "idle" /\ to \notin Finishing /\ to \notin Reading
        /\ from # "w_clear" /\ (from \in Turning => to \in Turning \union {"w_clear"})
    BY <1>2 DEF Finishing, Turning, Reading
  <2>4. Harmless(t)
    BY <2>1, <2>2, <2>3 DEF Harmless
  <2>5. QED
    BY <2>1, <2>4, GoesLinear
<1>3. CASE TryLock(t)
  BY <1>2, <1>3 DEF TryLock
<1>4. CASE TraverseRight(t) \/ LeaveRight(t)
  BY <1>2, <1>4 DEF TraverseRight, LeaveRight
<1>5. CASE toggleVersionAndWait(t, <<"w_right", "w_right2", "w_right3", "w_run">>)
  <2>1. \/ WaitEmpty(t, 1 - versionIndex, "w_right", "w_right2")
        \/ ToggleVersion(t, "w_right2", "w_right3")
        \/ WaitEmpty(t, 1 - versionIndex, "w_right3", "w_run")
    BY <1>5 DEF toggleVersionAndWait
  <2>2. QED
    BY <1>2, <2>1, WaitLinear DEF ToggleVersion
<1>6. CASE toggleVersionAndWait(t, <<"w_left2", "w_left3", "w_left4", "w_left5">>)
  <2>1. \/ WaitEmpty(t, 1 - versionIndex, "w_left2", "w_left3")
        \/ ToggleVersion(t, "w_left3", "w_left4")
        \/ WaitEmpty(t, 1 - versionIndex, "w_left4", "w_left5")
    BY <1>6 DEF toggleVersionAndWait
  <2>2. QED
    BY <1>2, <2>1, WaitLinear DEF ToggleVersion
<1>7. CASE SyncCopying(t)
  BY <1>7, WriterGoesLinear DEF SyncCopying
<1>8. CASE TraverseLeft(t)
  <2>1. Goto(t, "w_left", "w_left2") /\ Commit /\ UNCHANGED <<combVars, i>>
    BY <1>8 DEF TraverseLeft
  <2>2. QED
    BY <1>1, <2>1, CommitLinear
<1>9. CASE Unlock(t)
  BY <1>9, UnlockLinear DEF Unlock
<1>10. CASE Combine(t)
  BY <1>1, <1>10, CheckFcLinear, CollectLinear, WriterGoesLinear, RunNextLinear,
     StoreWordLinear, FlushMainLinear, ClearFcLinear DEF Combine
<1>11. QED
  BY <1>3, <1>4, <1>5, <1>6, <1>7, <1>8, <1>9, <1>10 DEF Write

LEMMA ReadLinear ==
  ASSUME RInv, Linear, NEW t \in Threads, Read(t) \/ BeginRead(t)
  PROVE  Linear'
<1>1. CASE BeginRead(t)
  <2>1. /\ Goto(t, "idle", "r_arrive") /\ Open(t, READ) /\ "r_arrive" \in Reading
        /\ UNCHANGED <<memVars, combVars, i>>
    BY <1>1 DEF BeginRead, Reading
  <2>2. QED
    BY <2>1, OpenReadLinear
<1>2. CASE Arrive(t) \/ LoadLeftRight(t) \/ ReadWord(t)
  <2>1. PICK to \in {"r_side", "reading"} :
          pc[t] \in Reading /\ pc' = [pc EXCEPT ![t] = to] /\ pc'[t] = to
    BY <1>2 DEF Arrive, LoadLeftRight, ReadWord, Goto, Reading, RInv, PlaceTypes
  <2>2. UNCHANGED <<fc, lfc, out, main, todo, hist, call, i>>
    BY <1>2 DEF Arrive, LoadLeftRight, ReadWord, memVars, heapVars, combVars, ghostVars
  <2>3. Harmless(t)
    BY <2>1, <2>2 DEF Harmless, Finishing, Turning, Reading
  <2>4. QED
    BY <2>1, <2>2, <2>3, GoesLinear
<1>3. CASE Depart(t)
  BY <1>3, CloseReadLinear DEF Depart
<1>4. QED
  BY <1>1, <1>2, <1>3 DEF Read

LEMMA NextLinear ==
  ASSUME IInv, RInv, Linear, [Next]_vars
  PROVE  Linear'
<1>1. ASSUME NEW t \in Threads, Begin(t) PROVE Linear'
  <2>1. work.words \subseteq Words
    BY DEF RInv, CallTypes, Workload
  <2>2. QED
    BY <1>1, <2>1, PostLinear, ReadLinear DEF Begin
<1>2. CASE UNCHANGED vars
  BY <1>2, StutterLinear DEF vars
<1>3. QED
  BY <1>1, <1>2, WriteLinear, ReadLinear, CrashLinear, RecoverLinear
     DEF Next, Done, Crash

(* Readers stay where they are, and what they look at stays what it is.    *)
LEMMA SeenKept ==
  ASSUME Seen, UNCHANGED val,
         \A u \in Threads : pc[u] = "reading" => pc'[u] = "reading" /\ Side(u)' = Side(u),
         \A u \in Threads : pc'[u] = "reading" /\ lr'[u] = "RIGHT" /\ leftRight' = "LEFT" =>
                              call'[u].from < Len(hist')
  PROVE  Seen'
<1>1. ASSUME NEW u \in Threads
      PROVE  \A n \in 1 .. Len(val'[u]) : val'[u][n] = Side(u)'[n - 1]
  <2>1. CASE pc[u] = "reading"
    BY <2>1 DEF Seen, SeenBy
  <2>2. CASE pc[u] # "reading"
    <3>1. val'[u] = <<>> /\ Len(val'[u]) = 0
      BY <2>2 DEF Seen, SeenBy
    <3>2. QED
      BY <3>1
  <2>3. QED
    BY <2>1, <2>2
<1>2. QED
  BY <1>1 DEF Seen, SeenBy

LEMMA SeenByStays ==
  ASSUME NEW u \in Threads, SeenBy(u), pc'[u] = pc[u], val'[u] = val[u],
         call'[u] = call[u], UNCHANGED <<main, back, lr, leftRight, hist>>
  PROVE  SeenBy(u)'
<1>1. Side(u)' = Side(u)
  BY DEF Side
<1>2. \A n \in 1 .. Len(val'[u]) : val'[u][n] = Side(u)'[n - 1]
  BY <1>1 DEF SeenBy
<1>3. QED
  BY <1>2 DEF SeenBy

(* A step of one thread: main changes where no reader is at main, back     *)
(* where none is at back.                                                  *)
LEMMA StepSeen ==
  ASSUME IInv, RInv, Seen, Previous, NEW t \in Threads, NEW from, NEW to,
         pc[t] = from, pc' = [pc EXCEPT ![t] = to], from # "reading",
         to = "reading" => lr'[t] = leftRight',
         to \in Turning => from \in Turning,
         UNCHANGED <<val, hist>>,
         main' = main \/ from = "w_run", back' = back \/ from = "w_back",
         leftRight' \in {leftRight, "RIGHT"},
         \A u \in Threads \ {t} : lr'[u] = lr[u] /\ call'[u] = call[u]
  PROVE  Seen' /\ Previous'
<1>1. pc'[t] = to /\ \A u \in Threads \ {t} : pc'[u] = pc[u]
  BY DEF RInv, PlaceTypes
<1>2. ASSUME NEW u \in Threads, pc[u] = "reading"
      PROVE  pc'[u] = "reading" /\ Side(u)' = Side(u)
  <2>1. u # t /\ pc'[u] = "reading" /\ lr'[u] = lr[u]
    BY <1>1, <1>2
  <2>2. ReaderUndisturbed
    BY IInvReaders
  <2>3. CASE lr[u] = "LEFT"
    BY <1>2, <2>1, <2>2, <2>3 DEF ReaderUndisturbed, Side
  <2>4. CASE lr[u] = "RIGHT"
    BY <1>2, <2>1, <2>2, <2>4 DEF ReaderUndisturbed, Side
  <2>5. lr[u] \in {"LEFT", "RIGHT"}
    BY DEF IInv, Types
  <2>6. QED
    BY <2>3, <2>4, <2>5
<1>3. ASSUME NEW u \in Threads, pc'[u] = "reading", lr'[u] = "RIGHT", leftRight' = "LEFT"
      PROVE  call'[u].from < Len(hist')
  <2>1. u # t /\ pc[u] = "reading" /\ leftRight = "LEFT"
    BY <1>1, <1>3
  <2>2. QED
    BY <1>3, <2>1 DEF Seen, SeenBy
<1>4. Seen'
  BY <1>2, <1>3, SeenKept
<1>5. Previous'
  <2>1. SUFFICES ASSUME NEW h \in Threads, pc'[h] \in Turning
                 PROVE  Len(hist') > 1 /\ hist'[Len(hist') - 1] = View(back')
    BY DEF Previous
  <2>2. pc[h] \in Turning
    BY <1>1, <2>1
  <2>3. back' = back
    <3>1. SUFFICES ASSUME from = "w_back" PROVE FALSE
      OBVIOUS
    <3>2. h = t
      BY <2>2, <3>1, AloneHere DEF Alone, Critical, Published
    <3>3. QED
      BY <2>2, <3>1, <3>2 DEF Turning
  <2>4. QED
    BY <2>2, <2>3 DEF Previous, View
<1>6. QED
  BY <1>4, <1>5

LEMMA WriteSeen ==
  ASSUME IInv, RInv, Linear, Seen, Previous, NEW t \in Threads, Write(t)
  PROVE  Seen' /\ Previous'
<1> USE DEF Goto, memVars, heapVars, backVars, combVars, ghostVars, lrVars, readVars
<1>1. CASE TryLock(t)
  <2>1. PICK to \in {"w_collect", "w_check"} :
          pc[t] = "w_lock" /\ pc' = [pc EXCEPT ![t] = to]
    BY <1>1 DEF TryLock
  <2>2. QED
    BY <1>1, <2>1, StepSeen DEF TryLock, Turning
<1>2. CASE TraverseRight(t)
  <2>1. /\ pc[t] = "w_exclude" /\ pc' = [pc EXCEPT ![t] = "w_right"]
        /\ UNCHANGED <<val, hist, main, back, call>> /\ leftRight' = "RIGHT"
        /\ \A u \in Threads \ {t} : lr'[u] = lr[u]
    BY <1>2 DEF TraverseRight, IInv, Types
  <2>2. QED
    BY <2>1, StepSeen DEF Turning
<1>3. ASSUME NEW at \in {RightSteps, LeftSteps}, toggleVersionAndWait(t, at)
      PROVE  Seen' /\ Previous'
  <2>1. PICK from \in {at[1], at[2], at[3]}, to \in {at[1], at[2], at[3], at[4]} :
          pc[t] = from /\ pc' = [pc EXCEPT ![t] = to]
    BY <1>3 DEF toggleVersionAndWait, WaitEmpty, ToggleVersion
  <2>2. UNCHANGED <<val, hist, main, back, call, leftRight, lr>>
    BY <1>3 DEF toggleVersionAndWait, WaitEmpty, ToggleVersion
  <2>3. /\ from # "reading" /\ to # "reading"
        /\ to \in Turning => from \in Turning
    BY <2>1 DEF RightSteps, LeftSteps, Turning
  <2>4. QED
    BY <2>1, <2>2, <2>3, StepSeen
<1>4. CASE SyncCopying(t) \/ LeaveRight(t) \/ Unlock(t)
  <2>1. PICK from, to :
          /\ pc[t] = from /\ pc' = [pc EXCEPT ![t] = to] /\ from # "reading"
          /\ to \in {"w_left", "w_clear", "idle"}
    BY <1>4 DEF SyncCopying, FenceState, LeaveRight, Unlock
  <2>2. /\ UNCHANGED <<val, hist, main, back, leftRight, lr>>
        /\ \A u \in Threads \ {t} : call'[u] = call[u]
    BY <1>4 DEF SyncCopying, FenceState, LeaveRight, Unlock, Return, Close, RInv, CallTypes
  <2>3. QED
    BY <2>1, <2>2, StepSeen DEF Turning
<1>5. CASE TraverseLeft(t)
  <2>1. /\ pc[t] = "w_left" /\ pc' = [pc EXCEPT ![t] = "w_left2"] /\ boot = "up"
        /\ UNCHANGED <<val, main, back, lr>> /\ Commit
    BY <1>5 DEF TraverseLeft
  <2>2. /\ Len(hist) \in Nat /\ Len(hist) >= 1 /\ hist' = Append(hist, View(main))
        /\ Len(hist') = Len(hist) + 1 /\ hist'[Len(hist)] = hist[Len(hist)]
    <3>1. hist \in Seq([Words -> Nat]) /\ View(main) \in [Words -> Nat]
      BY DEF RInv, CallTypes, HeapTypes, View
    <3>2. Len(hist) >= 1
      BY DEF RInv, CallTypes
    <3>3. hist' = Append(hist, View(main))
      BY <2>1 DEF Commit
    <3>4. QED
      BY <3>1, <3>2, <3>3
  <2>3. \A u \in Threads : call'[u].from = call[u].from
    BY <2>1 DEF Commit, RInv, CallTypes, Calls
  <2>4. \A u \in Threads : call'[u].from < Len(hist')
    <3>1. \A u \in Threads : call[u].from \in Nat /\ call[u].from <= Len(hist)
      BY DEF RInv, CallTypes, Calls, Linear, Opened
    <3>2. QED
      BY <2>2, <2>3, <3>1
  <2>5. Seen'
    <3>1. \A u \in Threads : pc[u] = "reading" => pc'[u] = "reading" /\ Side(u)' = Side(u)
      BY <2>1 DEF RInv, PlaceTypes, Side
    <3>2. QED
      BY <2>1, <2>4, <3>1, SeenKept
  <2>6. Last(hist) = View(back)
    <3>1. Phase("w_left")
      BY <2>1, Here DEF Critical, Published
    <3>2. QED
      BY <3>1 DEF Phase, PhaseBack
  <2>7. Previous'
    <3>1. Len(hist') > 1 /\ Len(hist') - 1 = Len(hist)
      BY <2>2
    <3>2. hist'[Len(hist') - 1] = View(back')
      BY <2>1, <2>2, <2>6, <3>1 DEF Last, View
    <3>3. QED
      BY <3>1, <3>2 DEF Previous
  <2>8. QED
    BY <2>5, <2>7
<1>6. CASE Combine(t) /\ UNCHANGED <<lrVars, readVars>>
  <2>1. PICK from, to : /\ pc[t] = from /\ pc' = [pc EXCEPT ![t] = to]
                        /\ from # "reading" /\ to # "reading" /\ to \notin Turning
                        /\ main' = main \/ from = "w_run"
                        /\ back' = back \/ from = "w_back"
    BY <1>6 DEF Combine, CheckFc, Collect, SetMutating, FenceState, RunNext, StoreWord,
                GrowUsed, FlushMain, SetCopying, ClearFc, CopyToBack, FenceBack, SetIdle,
                Turning
  <2>2. hist' = hist /\ \A u \in Threads \ {t} : call'[u] = call[u]
    BY <1>6 DEF Combine, CheckFc, Collect, SetMutating, FenceState, RunNext, StoreWord,
                GrowUsed, FlushMain, SetCopying, ClearFc, CopyToBack, FenceBack, SetIdle,
                Return, Close, RInv, CallTypes
  <2>3. UNCHANGED <<val, leftRight, lr>>
    BY <1>6
  <2>4. QED
    BY <2>1, <2>2, <2>3, StepSeen
<1>7. QED
  BY <1>1, <1>2, <1>3, <1>4, <1>5, <1>6 DEF Write, RightSteps, LeftSteps

LEMMA ReadSeen ==
  ASSUME IInv, RInv, Seen, Previous, NEW t \in Threads, Read(t) \/ BeginRead(t)
  PROVE  Seen' /\ Previous'
<1> USE DEF Goto, memVars, heapVars, backVars, ghostVars, lrVars
<1>0. /\ pc \in [Threads -> Critical \union Outside] /\ val \in [Threads -> Seq(Nat)]
      /\ lr \in [Threads -> {"LEFT", "RIGHT"}] /\ call \in [Threads -> Calls]
  BY DEF RInv, PlaceTypes, Seen, IInv, Types, CallTypes
<1>1. CASE BeginRead(t)
  <2>1. /\ pc[t] = "idle" /\ pc' = [pc EXCEPT ![t] = "r_arrive"]
        /\ UNCHANGED <<val, hist, main, back, leftRight, lr>>
        /\ \A u \in Threads \ {t} : call'[u] = call[u]
    BY <1>0, <1>1 DEF BeginRead, Open
  <2>2. QED
    BY <2>1, StepSeen DEF Turning
<1>2. CASE Arrive(t)
  <2>1. /\ pc[t] = "r_arrive" /\ pc' = [pc EXCEPT ![t] = "r_side"]
        /\ UNCHANGED <<val, hist, main, back, leftRight, lr, call>>
    BY <1>2 DEF Arrive
  <2>2. QED
    BY <2>1, StepSeen DEF Turning
<1>3. CASE LoadLeftRight(t)
  <2>1. /\ pc[t] = "r_side" /\ pc' = [pc EXCEPT ![t] = "reading"]
        /\ UNCHANGED <<val, hist, main, back, leftRight, call>>
        /\ lr'[t] = leftRight' /\ \A u \in Threads \ {t} : lr'[u] = lr[u]
    BY <1>0, <1>3 DEF LoadLeftRight
  <2>2. QED
    BY <2>1, StepSeen DEF Turning
<1>4. CASE ReadWord(t)
  <2>1. /\ pc[t] = "reading" /\ pc' = pc /\ Len(val[t]) <= Blocks
        /\ UNCHANGED <<hist, main, back, leftRight, lr, call>>
        /\ val' = [val EXCEPT ![t] = Append(val[t], pload(t, Len(val[t])))]
    BY <1>0, <1>4 DEF ReadWord
  <2>2. pload(t, Len(val[t])) = Side(t)[Len(val[t])]
    BY <1>0, <2>1, IInvReaders DEF ReaderUndisturbed, pload, Side
  <2>3. Len(val[t]) \in Words /\ Side(t) \in [Words -> Nat]
    <3>1. Len(val[t]) \in Nat
      BY <1>0
    <3>2. Len(val[t]) \in Words
      BY <2>1, <3>1, SizeFacts DEF Words
    <3>3. QED
      BY <3>2 DEF Side, RInv, HeapTypes
  <2>4. PICK e \in Nat : e = Side(t)[Len(val[t])]
    BY <2>3
  <2>5. val[t] \in Seq(Nat) /\ val'[t] = Append(val[t], e)
    BY <1>0, <2>1, <2>2, <2>4
  <2>6. /\ val'[t] \in Seq(Nat) /\ Len(val[t]) \in Nat /\ Len(val'[t]) = Len(val[t]) + 1
        /\ val'[t][Len(val[t]) + 1] = e
        /\ \A k \in 1 .. Len(val[t]) : val'[t][k] = val[t][k]
    BY <2>5, Appended
  <2>7. \A n \in 1 .. Len(val'[t]) : val'[t][n] = Side(t)[n - 1]
    <3>1. SUFFICES ASSUME NEW n \in 1 .. Len(val'[t]) PROVE val'[t][n] = Side(t)[n - 1]
      OBVIOUS
    <3>2. CASE n = Len(val[t]) + 1
      <4>1. n - 1 = Len(val[t])
        BY <2>6, <3>2
      <4>2. QED
        BY <2>4, <2>6, <3>2, <4>1
    <3>3. CASE n # Len(val[t]) + 1
      <4>1. n \in 1 .. Len(val[t])
        BY <2>6, <3>1, <3>3
      <4>2. val[t][n] = Side(t)[n - 1]
        BY <4>1 DEF Seen, SeenBy
      <4>3. QED
        BY <2>6, <4>1, <4>2
    <3>4. QED
      BY <3>2, <3>3
  <2>8. \A u \in Threads : Side(u)' = Side(u)
    BY <2>1 DEF Side
  <2>9. /\ \A u \in Threads \ {t} : val'[u] = val[u]
        /\ val' \in [Threads -> Seq(Nat)] /\ Len(val'[t]) <= Blocks + 1
    BY <1>0, <2>1, <2>5, <2>6, SizeFacts
  <2>10. Seen'
    <3>1. SeenBy(t)'
      BY <2>1, <2>7, <2>8, <2>9 DEF Seen, SeenBy
    <3>2. \A u \in Threads \ {t} : SeenBy(u)'
      <4>1. SUFFICES ASSUME NEW u \in Threads \ {t} PROVE SeenBy(u)'
        OBVIOUS
      <4>2. SeenBy(u) /\ pc'[u] = pc[u] /\ val'[u] = val[u] /\ call'[u] = call[u]
        BY <2>1, <2>9 DEF Seen
      <4>3. QED
        BY <2>1, <4>2, SeenByStays
    <3>3. QED
      BY <2>9, <3>1, <3>2 DEF Seen
  <2>11. Previous'
    BY <2>1 DEF Previous, View
  <2>12. QED
    BY <2>10, <2>11
<1>5. CASE Depart(t)
  <2>1. /\ pc[t] = "reading" /\ pc' = [pc EXCEPT ![t] = "idle"]
        /\ UNCHANGED <<hist, main, back, leftRight, lr>>
        /\ val' = [val EXCEPT ![t] = <<>>]
        /\ \A u \in Threads \ {t} : call'[u] = call[u]
    BY <1>0, <1>5 DEF Depart, Close
  <2>2. pc'[t] = "idle" /\ \A u \in Threads \ {t} : pc'[u] = pc[u] /\ val'[u] = val[u]
    BY <1>0, <2>1
  <2>3. val' \in [Threads -> Seq(Nat)] /\ val'[t] = <<>> /\ Len(val'[t]) = 0
    BY <1>0, <2>1
  <2>4. \A n \in 1 .. Len(val'[t]) : val'[t][n] = Side(t)'[n - 1]
    BY <2>3
  <2>5. Seen'
    <3>1. SeenBy(t)'
      <4>1. Len(val'[t]) <= Blocks + 1
        BY <2>3, SizeFacts
      <4>2. pc'[t] # "reading"
        BY <2>2
      <4>3. QED
        BY <2>3, <2>4, <4>1, <4>2, Zenon DEF SeenBy
    <3>2. \A u \in Threads \ {t} : SeenBy(u)'
      <4>1. SUFFICES ASSUME NEW u \in Threads \ {t} PROVE SeenBy(u)'
        OBVIOUS
      <4>2. SeenBy(u) /\ pc'[u] = pc[u] /\ val'[u] = val[u] /\ call'[u] = call[u]
        BY <2>1, <2>2 DEF Seen
      <4>3. QED
        BY <2>1, <4>2, SeenByStays
    <3>3. QED
      BY <2>3, <3>1, <3>2 DEF Seen
  <2>6. Previous'
    BY <2>1, <2>2 DEF Previous, View, Turning
  <2>7. QED
    BY <2>5, <2>6
<1>6. QED
  BY <1>1, <1>2, <1>3, <1>4, <1>5 DEF Read

LEMMA NextSeen ==
  ASSUME IInv, RInv, Linear, Seen, Previous, [Next]_vars
  PROVE  Seen' /\ Previous'
<1> USE DEF Goto, memVars, heapVars, backVars, ghostVars, lrVars, readVars
<1>1. ASSUME NEW t \in Threads, NEW op, Post(t, op), UNCHANGED <<lrVars, readVars>>
      PROVE  Seen' /\ Previous'
  <2>1. /\ pc[t] = "idle" /\ pc' = [pc EXCEPT ![t] = "w_lock"]
        /\ UNCHANGED <<val, hist, main, back, leftRight, lr>>
        /\ \A u \in Threads \ {t} : call'[u] = call[u]
    BY <1>1 DEF Post, Open, RInv, CallTypes
  <2>2. QED
    BY <2>1, StepSeen DEF Turning
<1>2. CASE Crash
  <2>1. /\ \A u \in Threads : pc'[u] = "idle" /\ val'[u] = <<>>
        /\ val' \in [Threads -> Seq(Nat)]
    BY <1>2 DEF Crash, RomCrash
  <2>2. \A u \in Threads : Len(val'[u]) = 0
    BY <2>1
  <2>3. QED
    BY <2>1, <2>2, SizeFacts DEF Seen, SeenBy, Previous, Turning
<1>3. CASE Recover /\ UNCHANGED <<lrVars, readVars>>
  <2>1. \A u \in Threads : pc[u] = "idle" /\ pc'[u] = "idle"
    BY <1>3 DEF Recover, RecoverCopy, RecoverFence, RecoverIdle, RInv, Copies
  <2>2. val' = val
    BY <1>3
  <2>3. Seen'
    BY <2>1, <2>2, SeenKept
  <2>4. QED
    BY <2>1, <2>3 DEF Previous, Turning
<1>4. CASE UNCHANGED vars
  <2>1. UNCHANGED <<pc, val, hist, main, back, leftRight, lr, call>>
    BY <1>4 DEF vars, romVars
  <2>2. QED
    BY <2>1 DEF Seen, SeenBy, Previous, Side, View
<1>5. QED
  BY <1>1, <1>2, <1>3, <1>4, WriteSeen, ReadSeen DEF Next, Begin, Done

(* What a reader's side holds is the commit it stands for.                 *)
LEMMA ReadersCurrent ==
  ASSUME IInv, RInv, Linear, Seen, Previous, NEW t \in Threads, pc[t] = "reading"
  PROVE  /\ View(Side(t)) = hist[SideCommit(t)]
         /\ SideCommit(t) \in call[t].from .. Len(hist)
<1>1. /\ boot = "up" /\ Len(hist) \in Nat /\ call[t].from \in Nat
      /\ call[t].from <= Len(hist) /\ lr[t] \in {"LEFT", "RIGHT"}
      /\ leftRight \in {"LEFT", "RIGHT"}
  BY DEF RInv, Copies, CallTypes, Calls, Linear, Opened, IInv, Types
<1>2. CASE lr[t] = "LEFT"
  <2>1. t \in On("LEFT")
    BY <1>2 DEF On
  <2>2. \A u \in Threads : pc[u] \notin Finishing \union {"w_run"}
    BY <2>1 DEF IInv, Waits, Stale, RightSteps, AtRight, Finishing
  <2>3. PICK q \in Critical \ (Finishing \union {"w_run"}) : Phase(q)
    <3>1. CASE \E u \in Threads : pc[u] \in Critical
      BY <1>1, <2>2, <3>1, Here
    <3>2. CASE \A u \in Threads : pc[u] \notin Critical
      <4>1. At("w_unlock") /\ "w_unlock" \in Critical \ (Finishing \union {"w_run"})
        BY <3>2 DEF At, Critical, Resting, Finishing
      <4>2. QED
        BY <1>1, <4>1 DEF RInv, Copies
    <3>3. QED
      BY <3>1, <3>2
  <2>4. View(main) = Last(hist)
    <3>1. CASE q \in (Resting \union Published) \ {"w_left"}
      BY <2>3, <3>1 DEF Phase, PhaseMain
    <3>2. CASE q \in Excluding \union {"w_mutating2"}
      <4>1. Last(hist) = View(back)
        BY <2>3, <3>2 DEF Phase, PhaseBack, Mutated
      <4>2. QED
        BY <2>3, <3>2, <4>1, RestingTwins
    <3>3. QED
      BY <2>3, <3>1, <3>2 DEF Critical, Mutated, Finishing
  <2>5. QED
    BY <1>1, <1>2, <2>4 DEF Side, SideCommit, Last
<1>3. CASE lr[t] = "RIGHT" /\ leftRight = "RIGHT"
  <2>1. PICK u \in Threads : pc[u] \in AtRight
    BY <1>3 DEF IInv, Sides
  <2>2. Phase(pc[u]) /\ pc[u] \in Mutated \union {"w_copying2", "w_left"}
    BY <1>1, <2>1, Here DEF AtRight, Critical, Mutated, Excluding, Published
  <2>3. Last(hist) = View(back)
    BY <2>2 DEF Phase, PhaseBack
  <2>4. QED
    BY <1>1, <1>3, <2>3 DEF Side, SideCommit, Last
<1>4. CASE lr[t] = "RIGHT" /\ leftRight = "LEFT"
  <2>1. t \in On("RIGHT")
    BY <1>4 DEF On
  <2>2. PICK u \in Threads : pc[u] \in Turning
    BY <1>4, <2>1 DEF IInv, Waits, Sides, ToLeft, Turning
  <2>3. hist[Len(hist) - 1] = View(back)
    BY <2>2 DEF Previous
  <2>4. call[t].from < Len(hist)
    BY <1>4 DEF Seen, SeenBy
  <2>5. QED
    BY <1>1, <1>4, <2>3, <2>4 DEF Side, SideCommit
<1>5. QED
  BY <1>1, <1>2, <1>3, <1>4

LEMMA DepartMaps ==
  ASSUME IInv, RInv, Linear, Seen, Previous, NEW t \in Threads, Depart(t)
  PROVE  Abstract!Next
<1>1. /\ pc[t] = "reading" /\ Close(t, ValueRead(t), SideCommit(t)) /\ Len(val[t]) > Blocks
  BY DEF Depart, Goto
<1>2. ValueRead(t) = View(Side(t))
  <2>1. Len(val[t]) = Blocks + 1
    BY <1>1, SizeFacts DEF Seen, SeenBy
  <2>2. ASSUME NEW a \in Words PROVE val[t][a + 1] = Side(t)[a]
    <3>1. a \in Nat /\ a + 1 \in 1 .. Len(val[t]) /\ (a + 1) - 1 = a
      BY <2>1, SizeFacts
    <3>2. val[t][a + 1] = Side(t)[(a + 1) - 1]
      BY <3>1 DEF Seen, SeenBy
    <3>3. QED
      BY <3>1, <3>2
  <2>3. Side(t) \in [Words -> Nat]
    BY DEF Side, RInv, HeapTypes
  <2>4. [a \in Words |-> val[t][a + 1]] = Side(t)
    BY <2>2, <2>3
  <2>5. QED
    BY <2>4 DEF ValueRead
<1>3. PICK n \in call[t].from .. Len(hist) : n = SideCommit(t) /\ View(Side(t)) = hist[n]
  BY <1>1, ReadersCurrent
<1>4. Close(t, hist[n], n)
  BY <1>1, <1>2, <1>3
<1>5. QED
  BY <1>1, <1>3, <1>4, ReadMaps

LEMMA NextMaps ==
  ASSUME IInv, RInv, Linear, Seen, Previous, [Next]_vars
  PROVE  [Abstract!Next]_Abstract!vars
<1>1. Alone
  BY AloneHere
<1>2. ASSUME NEW t \in Threads, Write(t) PROVE [Abstract!Next]_Abstract!vars
  <2>1. CASE \/ TryLock(t) \/ TraverseRight(t) \/ SyncCopying(t) \/ LeaveRight(t)
             \/ toggleVersionAndWait(t, <<"w_right", "w_right2", "w_right3", "w_run">>)
             \/ toggleVersionAndWait(t, <<"w_left2", "w_left3", "w_left4", "w_left5">>)
    <3>1. UNCHANGED ghostVars
      BY <2>1 DEF TryLock, TraverseRight, SyncCopying, LeaveRight, toggleVersionAndWait,
                  WaitEmpty, ToggleVersion
    <3>2. QED
      BY <3>1, QuietMaps
  <2>2. CASE TraverseLeft(t)
    <3>1. Goto(t, "w_left", "w_left2") /\ Commit
      BY <2>2 DEF TraverseLeft
    <3>2. QED
      BY <1>1, <3>1, CommitMaps
  <2>3. CASE Unlock(t)
    <3>1. pc[t] \in {"w_nothing", "w_unlock"} /\ Return(t)
      BY <2>3 DEF Unlock, Goto
    <3>2. QED
      BY <3>1, Answered, ReturnMaps
  <2>4. CASE CheckFc(t) /\ fc[t] = NONE
    <3>1. pc[t] = "w_check" /\ Return(t)
      BY <2>4 DEF CheckFc, Goto
    <3>2. QED
      BY <2>4, <3>1, Answered, ReturnMaps
  <2>5. CASE Combine(t) /\ ~(CheckFc(t) /\ fc[t] = NONE)
    <3>1. UNCHANGED ghostVars
      BY <2>5 DEF Combine, CheckFc, Collect, SetMutating, FenceState, RunNext, StoreWord,
                  GrowUsed, FlushMain, SetCopying, ClearFc, CopyToBack, FenceBack, SetIdle
    <3>2. QED
      BY <3>1, QuietMaps
  <2>6. QED
    BY <1>2, <2>1, <2>2, <2>3, <2>4, <2>5 DEF Write
<1>3. ASSUME NEW t \in Threads, Read(t) PROVE [Abstract!Next]_Abstract!vars
  <2>1. CASE Arrive(t) \/ LoadLeftRight(t) \/ ReadWord(t)
    <3>1. UNCHANGED ghostVars
      BY <2>1 DEF Arrive, LoadLeftRight, ReadWord
    <3>2. QED
      BY <3>1, QuietMaps
  <2>2. CASE Depart(t)
    BY <2>2, DepartMaps
  <2>3. QED
    BY <1>3, <2>1, <2>2 DEF Read
<1>4. ASSUME NEW t \in Threads, Begin(t) PROVE [Abstract!Next]_Abstract!vars
  <2>1. PICK op \in Words \union {READ} :
          (Goto(t, "idle", "r_arrive") \/ Goto(t, "idle", "w_lock")) /\ Open(t, op)
    <3>1. work.words \subseteq Words
      BY DEF RInv, CallTypes, Workload
    <3>2. QED
      BY <1>4, <3>1 DEF Begin, Post, BeginRead
  <2>2. QED
    BY <2>1, OpenMaps
<1>5. CASE Crash
  BY <1>1, <1>5, CrashMaps DEF Crash
<1>6. CASE (Recover /\ UNCHANGED <<lrVars, readVars>>) \/ UNCHANGED vars
  <2>1. UNCHANGED ghostVars
    BY <1>6 DEF Recover, RecoverCopy, RecoverFence, RecoverIdle, vars, romVars
  <2>2. QED
    BY <2>1, QuietMaps
<1>7. QED
  BY <1>2, <1>3, <1>4, <1>5, <1>6 DEF Next, Done

(* The refinement: RomulusLR is a durable linearizable store.  A commit    *)
(* becomes visible when leftRight shows main again; a reader that is at    *)
(* back by then answers with the commit before, and it began before this   *)
(* one.                                                                    *)
THEOREM Linearizable ==
  ASSUME LogsFit
  PROVE  Spec => DurableTransactions
<1> DEFINE KInv == IInv /\ RInv /\ Linear /\ Seen /\ Previous
<1>1. Init => KInv
  <2> SUFFICES ASSUME Init PROVE KInv
    OBVIOUS
  <2>1. IInv /\ RInv /\ Linear
    BY InitIInv, InitRInv, InitLinear DEF Init
  <2>2. Seen
    <3>1. val = [t \in Threads |-> <<>>]
      BY DEF Init, LrInit
    <3>2. \A t \in Threads : val[t] = <<>> /\ Len(val[t]) = 0
      BY <3>1
    <3>3. \A t \in Threads : pc[t] # "reading"
      BY DEF Init, RomInit
    <3>4. QED
      BY <3>1, <3>2, <3>3, SizeFacts DEF Seen, SeenBy
  <2>3. Previous
    BY DEF Init, RomInit, Previous, Turning
  <2>4. QED
    BY <2>1, <2>2, <2>3
<1>2. KInv /\ [Next]_vars => KInv'
  BY NextIInv, NextRInv, NextLinear, NextSeen
<1>3. Init => Abstract!Init
  BY InitMaps DEF Init
<1>4. KInv /\ [Next]_vars => [Abstract!Next]_Abstract!vars
  BY NextMaps
<1>5. QED
  <2> HIDE DEF KInv
  <2>1. Spec => Abstract!Init /\ [][Abstract!Next]_Abstract!vars
    BY <1>1, <1>2, <1>3, <1>4, PTL DEF Spec
  <2>2. QED
    BY <2>1 DEF DurableTransactions, Abstract!Spec

=============================================================================
