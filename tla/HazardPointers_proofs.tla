------------------------ MODULE HazardPointers_proofs ------------------------
(***************************************************************************)
(* No helper calls a request that has been deleted, for every number of    *)
(* threads and of objects, if the store that publishes a request is        *)
(* visible before its predecessor is retired.                              *)
(*                                                                         *)
(* An object has one owner, who holds it in one place.  A helper that      *)
(* finds its request still published after protecting it knows that nobody *)
(* has retired it; from then on whoever does starts to scan at slot 0, so  *)
(* a scan for that request is never past the slot of the helper.           *)
(***************************************************************************)
EXTENDS HazardPointers, SequenceTheorems, TLAPS

(* Without store buffers, or with retire() behind the store to announce[]. *)
Parameters ==
  /\ MaxThreads \in Nat
  /\ NONE \notin Objs
  /\ StoreBuffers \in BOOLEAN /\ AnnounceFirst \in BOOLEAN
  /\ StoreBuffers => AnnounceFirst

Helping == {"help", "protect", "validate", "call"}

Types ==
  /\ enqueuers \in [Threads -> Objs \union {NONE}]
  /\ hp \in [Threads -> Objs \union {NONE}]
  /\ buffer \in [Threads -> Objs \union {NONE}]
  /\ ptr \in [Threads -> Objs \union {NONE}]
  /\ retiredList \in [Threads -> Seq(Objs)]
  /\ live \subseteq Objs
  /\ pc \in [Threads -> {"idle", "announce", "retire", "scan", "clear"}
                          \union Helping]
  /\ it \in [Threads -> 0 .. MaxThreads]
  /\ iret \in [Threads -> Nat \ {0}]

(* Loop indices are 0 between the loops, and so is that of a scan that has *)
(* looked at everything.                                                   *)
Indices ==
  \A t \in Threads :
    /\ pc[t] \in Helping => it[t] \in Threads
    /\ pc[t] \in {"idle", "announce", "retire"} => it[t] = 0
    /\ pc[t] = "scan" /\ iret[t] > Len(retiredList[t]) => it[t] = 0

(* Where the request a thread replaces is: in ptr until it is retired.     *)
Replacing ==
  \A t \in Threads :
    /\ pc[t] = "scan" => ptr[t] = NONE
    /\ pc[t] = "announce" /\ ~AnnounceFirst => ptr[t] = NONE
    /\ buffer[t] # NONE => /\ StoreBuffers /\ pc[t] = "announce"
                           /\ ptr[t] = enqueuers[t]

Listed(t) == ToSet(retiredList[t])

Held(t) ==
  ({enqueuers[t], buffer[t]} \union Listed(t) \union OldRequest(t)) \ {NONE}

(* An owner holds an object in one place.                                  *)
OnePlace(t) ==
  /\ \A m, n \in 1 .. Len(retiredList[t]) :
       retiredList[t][m] = retiredList[t][n] => m = n
  /\ ({enqueuers[t], buffer[t]} \union OldRequest(t)) \cap Listed(t) = {}
  /\ buffer[t] # NONE => buffer[t] \notin {enqueuers[t]} \union OldRequest(t)
  /\ buffer[t] = NONE => enqueuers[t] \notin OldRequest(t)

Owned ==
  /\ \A t \in Threads : OnePlace(t)
  /\ \A t, u \in Threads : t # u => Held(t) \cap Held(u) = {}
  /\ live = UNION {Held(t) : t \in Threads}

(* A helper's hazard pointer, and what it keeps from being deleted.        *)
Protected ==
  \A t \in Threads :
    /\ pc[t] \in {"protect", "validate", "call"} => ptr[t] # NONE
    /\ pc[t] \in {"validate", "call"} => hp[t] = ptr[t]
    /\ pc[t] = "call" => ptr[t] \in live

NotPassed ==
  \A t, u \in Threads :
    pc[t] = "call" /\ Looking(u) /\ retiredList[u][iret[u]] = ptr[t]
      => it[u] <= t

IInv == Types /\ Indices /\ Replacing /\ Owned /\ Protected /\ NotPassed

-----------------------------------------------------------------------------
LEMMA Sets ==
  ASSUME NEW S, NEW s \in Seq(S), NEW o
  PROVE  o \in ToSet(s) <=> \E m \in 1 .. Len(s) : s[m] = o
BY DEF ToSet

LEMMA Appended ==
  ASSUME NEW S, NEW s \in Seq(S), NEW o \in S
  PROVE  /\ Append(s, o) \in Seq(S) /\ Len(Append(s, o)) = Len(s) + 1
         /\ \A m \in 1 .. Len(s) : Append(s, o)[m] = s[m]
         /\ Append(s, o)[Len(s) + 1] = o
         /\ ToSet(Append(s, o)) = ToSet(s) \union {o}
<1> DEFINE z == Append(s, o)
<1>0. Len(s) \in Nat
  OBVIOUS
<1>1. /\ z \in Seq(S) /\ Len(z) = Len(s) + 1
      /\ \A m \in 1 .. Len(s) : z[m] = s[m]
      /\ z[Len(s) + 1] = o
  OBVIOUS
<1> HIDE DEF z
<1>2. \A e : e \in ToSet(z) <=> e \in ToSet(s) \union {o}
  <2>1. SUFFICES ASSUME NEW e
                 PROVE  e \in ToSet(z) <=> e \in ToSet(s) \union {o}
    OBVIOUS
  <2>2. e \in ToSet(z) <=> \E m \in 1 .. Len(z) : z[m] = e
    BY <1>1, Sets
  <2>3. e \in ToSet(s) <=> \E m \in 1 .. Len(s) : s[m] = e
    BY Sets
  <2>4. QED
    BY <1>0, <1>1, <2>2, <2>3
<1>3. QED
  BY <1>1, <1>2 DEF z

LEMMA Removed ==
  ASSUME NEW S, NEW s \in Seq(S), NEW n \in 1 .. Len(s),
         \A k, m \in 1 .. Len(s) : s[k] = s[m] => k = m
  PROVE  /\ RemoveAt(s, n) \in Seq(S)
         /\ Len(RemoveAt(s, n)) = Len(s) - 1
         /\ \A k, m \in 1 .. Len(s) - 1 :
              RemoveAt(s, n)[k] = RemoveAt(s, n)[m] => k = m
         /\ ToSet(RemoveAt(s, n)) = ToSet(s) \ {s[n]}
<1> DEFINE a == SubSeq(s, 1, n - 1)
           b == SubSeq(s, n + 1, Len(s))
           r == RemoveAt(s, n)
<1>0. Len(s) \in Nat /\ n \in Nat /\ 1 <= n /\ n <= Len(s)
  OBVIOUS
<1>1. a \in Seq(S) /\ Len(a) = n - 1 /\ \A m \in 1 .. n - 1 : a[m] = s[m]
  BY <1>0, SubSeqProperties
<1>2. b \in Seq(S) /\ Len(b) = Len(s) - n /\ \A m \in 1 .. Len(s) - n : b[m] = s[n + m]
  BY <1>0, SubSeqProperties
<1>3. r = a \o b
  BY DEF RemoveAt
<1> HIDE DEF a, b, r
<1>4. r \in Seq(S) /\ Len(r) = Len(s) - 1
  <2>1. r \in Seq(S) /\ Len(r) = Len(a) + Len(b)
    BY <1>1, <1>2, <1>3, ConcatProperties, ZenonT(60)
  <2>2. QED
    BY <1>0, <1>1, <1>2, <2>1
<1>5. ASSUME NEW m \in 1 .. Len(s) - 1
      PROVE  r[m] = IF m < n THEN s[m] ELSE s[m + 1]
  <2>1. r[m] = IF m <= Len(a) THEN a[m] ELSE b[m - Len(a)]
    BY <1>0, <1>1, <1>2, <1>3, ConcatProperties
  <2>2. QED
    BY <1>0, <1>1, <1>2, <2>1
<1>6. \A k, m \in 1 .. Len(s) - 1 : r[k] = r[m] => k = m
  BY <1>0, <1>5
<1>7. ASSUME NEW e PROVE e \in ToSet(r) <=> e \in ToSet(s) \ {s[n]}
  <2>1. e \in ToSet(r) <=> \E m \in 1 .. Len(s) - 1 : r[m] = e
    BY <1>4, Sets
  <2>2. e \in ToSet(s) <=> \E m \in 1 .. Len(s) : s[m] = e
    BY Sets
  <2>3. ASSUME NEW m \in 1 .. Len(s), s[m] = e, e # s[n]
        PROVE  \E k \in 1 .. Len(s) - 1 : r[k] = e
    <3>1. CASE m < n
      BY <1>0, <1>5, <2>3, <3>1
    <3>2. CASE m > n
      <4>1. m - 1 \in 1 .. Len(s) - 1 /\ ~(m - 1 < n) /\ (m - 1) + 1 = m
        BY <1>0, <3>2
      <4>2. QED
        BY <1>5, <2>3, <4>1
    <3>3. QED
      BY <1>0, <2>3, <3>1, <3>2
  <2>4. QED
    BY <1>0, <1>5, <2>1, <2>2, <2>3
<1>8. QED
  BY <1>4, <1>6, <1>7 DEF r

-----------------------------------------------------------------------------
LEMMA InitIInv == Parameters /\ Init => IInv
<1> SUFFICES ASSUME Parameters, Init PROVE IInv
  OBVIOUS
<1> USE DEF Init
<1>0. ToSet(<<>>) = {}
  BY DEF ToSet
<1>1. Types /\ Indices /\ Replacing
  BY DEF Parameters, Types, Indices, Replacing, Helping, Threads
<1>2. \A t \in Threads : OnePlace(t) /\ Held(t) = {}
  BY <1>0 DEF OnePlace, Held, Listed, OldRequest
<1>3. Owned
  BY <1>2 DEF Owned
<1>4. Protected /\ NotPassed
  BY DEF Protected, NotPassed
<1>5. QED
  BY <1>1, <1>3, <1>4 DEF IInv

(* A step after which t holds what it held before, at most elsewhere.      *)
LEMMA KeepsOwned ==
  ASSUME Types, Owned, NEW t \in Threads,
         \A u \in Threads \ {t} :
           /\ enqueuers'[u] = enqueuers[u] /\ buffer'[u] = buffer[u]
           /\ retiredList'[u] = retiredList[u]
           /\ pc'[u] = pc[u] /\ ptr'[u] = ptr[u],
         OnePlace(t)', Held(t)' = Held(t), live' = live
  PROVE  Owned'
<1>1. ASSUME NEW u \in Threads, u # t
      PROVE  OnePlace(u)' /\ Held(u)' = Held(u)
  <2>1. Listed(u)' = Listed(u) /\ OldRequest(u)' = OldRequest(u)
    BY <1>1 DEF Listed, ToSet, OldRequest
  <2>2. OnePlace(u)
    BY DEF Owned
  <2>3. QED
    BY <1>1, <2>1, <2>2 DEF OnePlace, Held
<1>2. \A u \in Threads : Held(u)' = Held(u)
  BY <1>1
<1>3. QED
  BY <1>1, <1>2 DEF Owned

(* A step of a helper: it leaves the requests alone.                       *)
LEMMA HelperStep ==
  ASSUME IInv, Parameters, NEW t \in Threads, NEW to,
         pc[t] \in {"idle", "clear"} \union Helping,
         to \in {"idle", "clear"} \union Helping,
         pc' = [pc EXCEPT ![t] = to],
         {hp', ptr'} \subseteq [Threads -> Objs \union {NONE}],
         it' \in [Threads -> 0 .. MaxThreads],
         \A u \in Threads \ {t} :
           hp'[u] = hp[u] /\ ptr'[u] = ptr[u] /\ it'[u] = it[u],
         UNCHANGED <<enqueuers, retiredList, buffer, live, iret>>,
         to \in Helping => it'[t] \in Threads,
         to = "idle" => it'[t] = 0,
         to \in {"protect", "validate", "call"} => ptr'[t] # NONE,
         to \in {"validate", "call"} => hp'[t] = ptr'[t],
         to = "call" => /\ ptr'[t] \in live
                        /\ \A u \in Threads : ptr'[t] \notin Listed(u)
  PROVE  IInv'
<1> USE DEF IInv, Helping
<1>1. Types'
  BY DEF Types
<1>2. \A u \in Threads : u # t => pc'[u] = pc[u]
  BY DEF Types
<1>3. pc'[t] = to
  BY DEF Types
<1>4. Indices'
  BY <1>2, <1>3, SMTT(30) DEF Types, Indices
<1>5. Replacing'
  BY <1>2, <1>3 DEF Types, Replacing
<1>6. Owned'
  <2>1. OldRequest(t) = {} /\ OldRequest(t)' = {}
    BY <1>3 DEF OldRequest
  <2>2. OnePlace(t)' /\ Held(t)' = Held(t)
    BY <2>1 DEF Owned, OnePlace, Held, Listed
  <2>3. QED
    BY <1>2, <2>2, KeepsOwned
<1>7. Protected'
  BY <1>2, <1>3 DEF Types, Protected
<1>8. NotPassed'
  <2>1. SUFFICES ASSUME NEW u \in Threads, NEW w \in Threads, pc'[u] = "call",
                        Looking(w)', (retiredList[w][iret[w]])' = ptr'[u]
                 PROVE  it'[w] <= u
    BY DEF NotPassed
  <2>2. w # t /\ Looking(w)
    BY <1>2, <1>3, <2>1 DEF Looking
  <2>3. retiredList[w][iret[w]] \in Listed(w)
    BY <2>2, Sets DEF Types, Looking, Listed
  <2>4. u # t
    BY <1>3, <2>1, <2>3
  <2>5. QED
    BY <1>2, <2>1, <2>2, <2>4 DEF NotPassed
<1>9. QED
  BY <1>1, <1>4, <1>5, <1>6, <1>7, <1>8

LEMMA Wraps ==
  ASSUME Parameters, NEW n \in Threads
  PROVE  /\ n < MaxThreads - 1 => (n + 1) % MaxThreads = n + 1
         /\ (n + 1) % MaxThreads \in 0 .. MaxThreads
<1>1. n \in Nat /\ MaxThreads \in Nat /\ n < MaxThreads
  BY DEF Parameters, Threads
<1>2. n < MaxThreads - 1 => (n + 1) % MaxThreads = n + 1
  BY <1>1
<1>3. (n + 1) % MaxThreads \in 0 .. MaxThreads
  BY <1>1
<1>4. QED
  BY <1>2, <1>3

LEMMA HelperIInv ==
  ASSUME IInv, Parameters, NEW t \in Threads,
         \/ Help(t) \/ NextRequest(t) \/ LoadRequest(t) \/ ProtectPtr(t)
         \/ Validate(t) \/ Called(t) \/ Clear(t)
  PROVE  IInv'
<1> USE DEF IInv, Goto, Helping
<1>0. /\ MaxThreads \in Nat /\ t \in Nat /\ t < MaxThreads /\ 0 \in Threads
      /\ \A n \in Threads : /\ n \in Nat /\ n < MaxThreads
                            /\ n < MaxThreads - 1 => n + 1 \in Threads
                            /\ n \in 0 .. MaxThreads
  BY DEF Parameters, Threads
<1>a. /\ hp \in [Threads -> Objs \union {NONE}]
       /\ ptr \in [Threads -> Objs \union {NONE}]
       /\ it \in [Threads -> 0 .. MaxThreads] /\ NONE \notin Objs
  BY DEF Types, Parameters
<1>1. CASE Help(t)
  BY <1>0, <1>1, HelperStep DEF Help, Types, Indices
<1>2. CASE NextRequest(t)
  <2>1. it[t] \in Threads
    BY <1>2 DEF NextRequest, Indices
  <2>2. CASE it[t] < MaxThreads - 1
    <3>1. (it[t] + 1) % MaxThreads = it[t] + 1
      BY <2>1, <2>2, Wraps
    <3>2. it' = [it EXCEPT ![t] = it[t] + 1] /\ it[t] + 1 \in Threads
      BY <1>0, <1>2, <2>1, <2>2, <3>1 DEF NextRequest
    <3>3. QED
      <4>1. /\ pc[t] = "help" /\ pc' = [pc EXCEPT ![t] = "help"]
            /\ UNCHANGED <<enqueuers, hp, retiredList, buffer, live, ptr, iret>>
        BY <1>2, <2>2 DEF NextRequest
      <4>2. /\ it' \in [Threads -> 0 .. MaxThreads] /\ it'[t] \in Threads
            /\ \A u \in Threads \ {t} : it'[u] = it[u]
        BY <1>0, <3>2 DEF Types
      <4>3. QED
        BY <1>a, <4>1, <4>2, HelperStep
  <2>3. CASE ~(it[t] < MaxThreads - 1)
    <3>1. (it[t] + 1) % MaxThreads \in 0 .. MaxThreads
      BY <2>1, Wraps
    <3>2. QED
      BY <1>0, <1>2, <2>3, <3>1, HelperStep DEF NextRequest, Types
  <2>4. QED
    BY <2>2, <2>3
<1>3. CASE LoadRequest(t)
  <2>1. it[t] \in Threads /\ enqueuers[it[t]] \in Objs
    BY <1>3 DEF LoadRequest, Indices, Types
  <2>2. /\ pc[t] = "help" /\ pc' = [pc EXCEPT ![t] = "protect"]
        /\ ptr' = [ptr EXCEPT ![t] = enqueuers[it[t]]]
        /\ UNCHANGED <<enqueuers, hp, retiredList, buffer, live, it, iret>>
    BY <1>3 DEF LoadRequest
  <2>3. /\ ptr' \in [Threads -> Objs \union {NONE}] /\ ptr'[t] \in Objs
        /\ \A u \in Threads \ {t} : ptr'[u] = ptr[u]
    BY <1>a, <2>1, <2>2
  <2>4. QED
    BY <1>a, <2>1, <2>2, <2>3, HelperStep
<1>4. CASE ProtectPtr(t)
  <2>1. it[t] \in Threads /\ ptr[t] \in Objs
    BY <1>4 DEF ProtectPtr, Indices, Types, Protected
  <2>2. /\ pc[t] = "protect" /\ pc' = [pc EXCEPT ![t] = "validate"]
        /\ hp' = [hp EXCEPT ![t] = ptr[t]]
        /\ UNCHANGED <<enqueuers, retiredList, buffer, live, ptr, it, iret>>
    BY <1>4 DEF ProtectPtr
  <2>3. /\ hp' \in [Threads -> Objs \union {NONE}] /\ hp'[t] = ptr[t]
        /\ \A u \in Threads \ {t} : hp'[u] = hp[u]
    BY <1>a, <2>1, <2>2
  <2>4. QED
    BY <1>a, <2>1, <2>2, <2>3, HelperStep
<1>5. CASE Validate(t)
  <2>1. it[t] \in Threads /\ ptr[t] # NONE /\ hp[t] = ptr[t]
    BY <1>5 DEF Validate, Indices, Protected
  <2>2. ASSUME enqueuers[it[t]] = ptr[t]
        PROVE  ptr[t] \in live /\ \A u \in Threads : ptr[t] \notin Listed(u)
    <3>1. ptr[t] \in Held(it[t])
      BY <2>1, <2>2 DEF Held
    <3>2. ptr[t] \notin Listed(it[t])
      BY <2>1, <2>2 DEF Owned, OnePlace
    <3>3. ASSUME NEW u \in Threads, u # it[t] PROVE ptr[t] \notin Listed(u)
      BY <2>1, <3>1, <3>3 DEF Owned, Held
    <3>4. QED
      BY <2>1, <3>1, <3>2, <3>3 DEF Owned
  <2>3. QED
    BY <1>0, <1>5, <2>1, <2>2, HelperStep DEF Validate, Types, Indices
<1>6. CASE Called(t)
  <2>1. it[t] \in Threads
    BY <1>6 DEF Called, Indices
  <2>2. CASE it[t] < MaxThreads - 1 /\ Goto(t, "call", "help")
    BY <1>0, <1>6, <2>1, <2>2, HelperStep DEF Called, Types
  <2>3. CASE Goto(t, "call", "clear")
    BY <1>0, <1>6, <2>1, <2>3, HelperStep DEF Called, Types
  <2>4. QED
    BY <1>6, <2>2, <2>3 DEF Called
<1>7. CASE Clear(t)
  BY <1>0, <1>7, HelperStep, ZenonT(60) DEF Clear, Types
<1>8. QED
  BY <1>1, <1>2, <1>3, <1>4, <1>5, <1>6, <1>7

-----------------------------------------------------------------------------
(* A step of the owner t, for the helpers.                                 *)
LEMMA OwnerStep ==
  ASSUME IInv, NEW t \in Threads, Types',
         \A u \in Threads \ {t} :
           /\ pc'[u] = pc[u] /\ ptr'[u] = ptr[u] /\ it'[u] = it[u]
           /\ iret'[u] = iret[u] /\ retiredList'[u] = retiredList[u],
         pc'[t] \notin {"protect", "validate", "call"}, hp' = hp,
         \A u \in Threads \ {t} : pc[u] = "call" => ptr[u] \in live',
         \A u \in Threads \ {t} :
           pc[u] = "call" /\ Looking(t)' /\ (retiredList[t][iret[t]])' = ptr[u]
             => it'[t] <= u
  PROVE  Protected' /\ NotPassed'
<1> USE DEF IInv
<1>1. Protected'
  BY DEF Protected
<1>2. NotPassed'
  <2>1. SUFFICES ASSUME NEW u \in Threads, NEW w \in Threads, pc'[u] = "call",
                        Looking(w)', (retiredList[w][iret[w]])' = ptr'[u]
                 PROVE  it'[w] <= u
    BY DEF NotPassed
  <2>2. u # t /\ pc[u] = "call" /\ ptr'[u] = ptr[u]
    BY <2>1
  <2>3. CASE w = t
    BY <2>1, <2>2, <2>3
  <2>4. CASE w # t
    <3>1. Looking(w) /\ retiredList[w][iret[w]] = ptr[u]
      BY <2>1, <2>2, <2>4 DEF Looking
    <3>2. QED
      BY <2>2, <2>4, <3>1 DEF NotPassed
  <2>5. QED
    BY <2>3, <2>4
<1>3. QED
  BY <1>1, <1>2

LEMMA PublishIInv ==
  ASSUME IInv, Parameters, NEW t \in Threads, Publish(t)
  PROVE  IInv'
<1> USE DEF IInv
<1>1. PICK o \in Objs \ live :
        /\ live' = live \union {o}
        /\ IF StoreBuffers
           THEN buffer' = [buffer EXCEPT ![t] = o] /\ UNCHANGED enqueuers
           ELSE enqueuers' = [enqueuers EXCEPT ![t] = o] /\ UNCHANGED buffer
  BY DEF Publish
<1>2. /\ pc[t] = "idle" /\ ptr' = [ptr EXCEPT ![t] = enqueuers[t]]
      /\ pc' = [pc EXCEPT ![t] = IF AnnounceFirst THEN "announce" ELSE "retire"]
      /\ UNCHANGED <<hp, retiredList, it, iret>>
  BY DEF Publish, Goto
<1>3. Types'
  <2>1. /\ enqueuers' \in [Threads -> Objs \union {NONE}]
        /\ buffer' \in [Threads -> Objs \union {NONE}]
        /\ live' \subseteq Objs
    BY <1>1 DEF Types
  <2>2. ptr' \in [Threads -> Objs \union {NONE}]
    BY <1>2 DEF Types
  <2>3. QED
    BY <1>2, <2>1, <2>2 DEF Types
<1>4. /\ ptr'[t] = enqueuers[t]
      /\ pc'[t] = IF AnnounceFirst THEN "announce" ELSE "retire"
      /\ buffer[t] = NONE /\ OldRequest(t) = {}
  BY <1>2 DEF Types, Replacing, OldRequest
<1>5. \A u \in Threads \ {t} :
        /\ pc'[u] = pc[u] /\ ptr'[u] = ptr[u] /\ it'[u] = it[u]
        /\ iret'[u] = iret[u] /\ retiredList'[u] = retiredList[u]
        /\ enqueuers'[u] = enqueuers[u] /\ buffer'[u] = buffer[u]
  BY <1>1, <1>2 DEF Types
<1>6. Indices'
  BY <1>2, <1>4, <1>5 DEF Indices, Helping
<1>7. o # NONE /\ o # enqueuers[t]
      /\ \A u \in Threads : o \notin Held(u)
      /\ o \notin Listed(t)
  BY <1>1 DEF Parameters, Owned, Held
<1>8. enqueuers'[t] = (IF StoreBuffers THEN enqueuers[t] ELSE o)
      /\ buffer'[t] = IF StoreBuffers THEN o ELSE NONE
  BY <1>1, <1>4 DEF Types, Parameters
<1>9. Replacing'
  BY <1>4, <1>5, <1>8 DEF Replacing, Parameters
<1>10. Owned'
  <2>1. OldRequest(t)' = {enqueuers[t]} \ {NONE} /\ Listed(t)' = Listed(t)
    BY <1>2, <1>4 DEF OldRequest, Listed, ToSet
  <2>2. OnePlace(t)'
    BY <1>2, <1>4, <1>7, <1>8, <2>1 DEF Owned, OnePlace, Parameters
  <2>3. Held(t)' = Held(t) \union {o}
    BY <1>4, <1>7, <1>8, <2>1 DEF Held, Parameters
  <2>4. ASSUME NEW u \in Threads, u # t
        PROVE  OnePlace(u)' /\ Held(u)' = Held(u)
    <3>1. Listed(u)' = Listed(u) /\ OldRequest(u)' = OldRequest(u)
      BY <1>5, <2>4 DEF Listed, ToSet, OldRequest
    <3>2. OnePlace(u)
      BY DEF Owned
    <3>3. QED
      BY <1>5, <2>4, <3>1, <3>2 DEF OnePlace, Held
  <2>5. live' = UNION {Held(u)' : u \in Threads}
    <3>1. live = UNION {Held(u) : u \in Threads}
      BY DEF Owned
    <3>2. QED
      BY <1>1, <2>3, <2>4, <3>1
  <2>6. \A u, w \in Threads : u # w => Held(u)' \cap Held(w)' = {}
    BY <1>7, <2>3, <2>4 DEF Owned
  <2>7. QED
    BY <2>2, <2>4, <2>5, <2>6 DEF Owned
<1>11. Protected' /\ NotPassed'
  BY <1>1, <1>2, <1>3, <1>4, <1>5, OwnerStep DEF Looking, Protected
<1>12. QED
  BY <1>3, <1>6, <1>9, <1>10, <1>11

LEMMA DrainIInv ==
  ASSUME IInv, Parameters, NEW t \in Threads, Drain(t)
  PROVE  IInv'
<1> USE DEF IInv
<1>1. /\ buffer[t] # NONE
      /\ enqueuers' = [enqueuers EXCEPT ![t] = buffer[t]]
      /\ buffer' = [buffer EXCEPT ![t] = NONE]
      /\ UNCHANGED <<hp, retiredList, live, pc, ptr, it, iret>>
  BY DEF Drain
<1>2. /\ enqueuers'[t] = buffer[t] /\ buffer'[t] = NONE
      /\ \A u \in Threads \ {t} :
           enqueuers'[u] = enqueuers[u] /\ buffer'[u] = buffer[u]
  BY <1>1 DEF Types
<1>3. pc[t] = "announce" /\ ptr[t] = enqueuers[t] /\ AnnounceFirst
  BY <1>1 DEF Replacing, Parameters
<1>4. Types' /\ Indices'
  BY <1>1 DEF Types, Indices
<1>5. Replacing'
  BY <1>1, <1>2 DEF Replacing
<1>6. Owned'
  <2>1. OldRequest(t) = {enqueuers[t]} \ {NONE}
    BY <1>3 DEF OldRequest
  <2>2. Listed(t)' = Listed(t) /\ OldRequest(t)' = OldRequest(t)
    BY <1>1 DEF Listed, ToSet, OldRequest
  <2>3. OnePlace(t)'
    <3>1. OnePlace(t)
      BY DEF Owned
    <3>2. buffer[t] \notin {enqueuers[t]} \union Listed(t) \union OldRequest(t)
      BY <1>1, <3>1 DEF OnePlace
    <3>3. NONE \notin Listed(t)
      BY Sets DEF Types, Listed, Parameters
    <3>4. QED
      BY <1>1, <1>2, <2>2, <3>1, <3>2, <3>3 DEF OnePlace
  <2>4. Held(t)' = Held(t)
    BY <1>2, <2>1, <2>2 DEF Held
  <2>5. QED
    BY <1>1, <1>2, <2>3, <2>4, KeepsOwned
<1>7. Protected' /\ NotPassed'
  <2>1. Protected'
    BY <1>1 DEF Protected
  <2>2. NotPassed'
    BY <1>1 DEF NotPassed, Looking
  <2>3. QED
    BY <2>1, <2>2
<1>8. QED
  BY <1>4, <1>5, <1>6, <1>7

LEMMA AnnounceIInv ==
  ASSUME IInv, Parameters, NEW t \in Threads, Announce(t) \/ Retired(t)
  PROVE  IInv'
<1> USE DEF IInv
<1>1. PICK to \in {"help", "retire", "announce"} :
        /\ pc' = [pc EXCEPT ![t] = to]
        /\ pc[t] = "announce" /\ to = "retire" => AnnounceFirst
        /\ pc[t] = "announce" /\ to # "retire" => to = "help" /\ ~AnnounceFirst
        /\ pc[t] # "announce" => /\ pc[t] = "scan" /\ to # "retire"
                                 /\ iret[t] > Len(retiredList[t])
                                 /\ to = "announce" => ~AnnounceFirst
        /\ UNCHANGED <<enqueuers, hp, retiredList, buffer, live, ptr, it>>
        /\ iret' \in [Threads -> Nat \ {0}]
        /\ \A u \in Threads \ {t} : iret'[u] = iret[u]
        /\ buffer[t] = NONE
  <2>1. CASE Announce(t)
    <3> DEFINE to == IF AnnounceFirst THEN "retire" ELSE "help"
    <3>1. to \in {"help", "retire"} /\ pc' = [pc EXCEPT ![t] = to]
      BY <2>1 DEF Announce, Goto
    <3>2. iret \in [Threads -> Nat \ {0}]
      BY DEF Types
    <3>3. QED
      BY <2>1, <3>1, <3>2 DEF Announce, Goto
  <2>2. CASE Retired(t)
    <3> DEFINE to == IF AnnounceFirst THEN "help" ELSE "announce"
    <3>1. to \in {"help", "announce"} /\ pc' = [pc EXCEPT ![t] = to]
      BY <2>2 DEF Retired, Goto
    <3>2. /\ iret' \in [Threads -> Nat \ {0}]
          /\ \A u \in Threads \ {t} : iret'[u] = iret[u]
      BY <2>2 DEF Retired, Types
    <3>3. buffer[t] = NONE
      BY <2>2 DEF Retired, Goto, Replacing
    <3>4. QED
      BY <2>2, <3>1, <3>2, <3>3 DEF Retired, Goto
  <2>3. QED
    BY <2>1, <2>2
<1>2. pc'[t] = to /\ \A u \in Threads \ {t} : pc'[u] = pc[u]
  BY <1>1 DEF Types
<1>3. Types'
  BY <1>1 DEF Types, Helping
<1>4. it[t] = 0 /\ 0 \in Threads
  BY <1>1 DEF Indices, Threads, Parameters
<1>5. Indices'
  BY <1>1, <1>2, <1>4 DEF Indices, Helping
<1>6. Replacing'
  BY <1>1, <1>2 DEF Replacing
<1>7. Owned'
  <2>1. OldRequest(t)' = OldRequest(t)
    BY <1>1, <1>2 DEF OldRequest, Replacing
  <2>2. Listed(t)' = Listed(t)
    BY <1>1 DEF Listed, ToSet
  <2>3. OnePlace(t)' /\ Held(t)' = Held(t)
    BY <1>1, <2>1, <2>2 DEF Owned, OnePlace, Held
  <2>4. QED
    BY <1>1, <1>2, <2>3, KeepsOwned
<1>8. Protected' /\ NotPassed'
  BY <1>1, <1>2, <1>3, OwnerStep DEF Looking, Protected
<1>9. QED
  BY <1>3, <1>5, <1>6, <1>7, <1>8

LEMMA RetireIInv ==
  ASSUME IInv, Parameters, NEW t \in Threads, Retire(t)
  PROVE  IInv'
<1> USE DEF IInv
<1>1. /\ pc[t] = "retire" /\ pc' = [pc EXCEPT ![t] = "scan"]
      /\ ptr' = [ptr EXCEPT ![t] = NONE]
      /\ UNCHANGED <<enqueuers, hp, buffer, live, it>>
  BY DEF Retire, Goto
<1>2. /\ pc'[t] = "scan" /\ ptr'[t] = NONE /\ it[t] = 0 /\ buffer[t] = NONE
      /\ \A u \in Threads \ {t} :
           /\ pc'[u] = pc[u] /\ ptr'[u] = ptr[u]
           /\ iret'[u] = iret[u] /\ retiredList'[u] = retiredList[u]
      /\ retiredList[t] \in Seq(Objs)
  BY <1>1 DEF Retire, Types, Indices, Replacing
<1>3. CASE ptr[t] = NONE
  <2>1. retiredList' = retiredList /\ iret' = [iret EXCEPT ![t] = Len(retiredList[t]) + 1]
    BY <1>3 DEF Retire
  <2>2. Types'
    BY <1>1, <1>2, <2>1 DEF Types
  <2>3. OldRequest(t) = {} /\ OldRequest(t)' = {} /\ Listed(t)' = Listed(t)
    BY <1>2, <1>3, <2>1 DEF OldRequest, Listed, ToSet
  <2>4. OnePlace(t)' /\ Held(t)' = Held(t)
    BY <1>1, <2>1, <2>3 DEF Owned, OnePlace, Held
  <2>5. Owned'
    BY <1>1, <1>2, <2>4, KeepsOwned
  <2>6. iret'[t] = Len(retiredList[t]) + 1 /\ ~Looking(t)'
    BY <1>2, <2>1 DEF Types, Looking
  <2>7. Protected' /\ NotPassed'
    BY <1>1, <1>2, <2>2, <2>6, OwnerStep DEF Protected
  <2>8. Indices' /\ Replacing'
    BY <1>1, <1>2 DEF Indices, Replacing, Helping
  <2>9. QED
    BY <2>2, <2>5, <2>7, <2>8
<1>4. CASE ptr[t] # NONE
  <2>1. /\ retiredList' = [retiredList EXCEPT ![t] = Append(retiredList[t], ptr[t])]
        /\ iret' = [iret EXCEPT ![t] = 1]
    BY <1>4 DEF Retire
  <2>2. ptr[t] \in Objs
    BY <1>4 DEF Types
  <2>3. Types'
    BY <1>1, <2>1, <2>2, Appended DEF Types
  <2>4. /\ OldRequest(t) = {ptr[t]} /\ OldRequest(t)' = {}
        /\ retiredList'[t] = Append(retiredList[t], ptr[t])
        /\ Listed(t)' = Listed(t) \union {ptr[t]}
    <3>1. retiredList'[t] = Append(retiredList[t], ptr[t])
      BY <2>1 DEF Types
    <3>2. Listed(t)' = ToSet(retiredList'[t])
      BY DEF Listed, ToSet
    <3>3. QED
      BY <1>1, <1>2, <1>4, <2>2, <3>1, <3>2, Appended DEF OldRequest, Listed
  <2>5. OnePlace(t)'
    <3>1. OnePlace(t) /\ ptr[t] \notin Listed(t) /\ enqueuers[t] # ptr[t]
      BY <1>2, <2>4 DEF Owned, OnePlace
    <3>2. \A m \in 1 .. Len(retiredList[t]) : retiredList[t][m] # ptr[t]
      BY <1>2, <3>1, Sets DEF Listed
    <3>3. \A m, n \in 1 .. Len(retiredList'[t]) :
            retiredList'[t][m] = retiredList'[t][n] => m = n
      <4> DEFINE s == retiredList[t]
                 z == retiredList'[t]
      <4>1. /\ Len(s) \in Nat /\ Len(z) = Len(s) + 1 /\ z[Len(s) + 1] = ptr[t]
            /\ \A m \in 1 .. Len(s) : z[m] = s[m]
        BY <1>2, <2>2, <2>4, Appended
      <4>2. \A m, n \in 1 .. Len(s) : s[m] = s[n] => m = n
        BY <3>1 DEF OnePlace
      <4> HIDE DEF z, s
      <4>3. \A m \in 1 .. Len(s) : s[m] # ptr[t]
        BY <3>2 DEF s
      <4>4. \A m, n \in 1 .. Len(z) : z[m] = z[n] => m = n
        BY <4>1, <4>2, <4>3
      <4>5. QED
        BY <4>4 DEF z
    <3>4. QED
      BY <1>1, <1>2, <2>2, <2>4, <3>1, <3>3 DEF OnePlace, Parameters
  <2>6. Held(t)' = Held(t)
    BY <1>1, <2>4 DEF Held
  <2>7. Owned'
    BY <1>1, <1>2, <2>5, <2>6, KeepsOwned
  <2>8. Protected' /\ NotPassed'
    <3>1. \A u \in Threads : it'[t] <= u
      BY <1>1, <1>2 DEF Threads, Parameters
    <3>2. QED
      BY <1>1, <1>2, <2>3, <3>1, OwnerStep DEF Protected
  <2>9. Indices' /\ Replacing'
    BY <1>1, <1>2 DEF Indices, Replacing, Helping
  <2>10. QED
    BY <2>3, <2>7, <2>8, <2>9
<1>5. QED
  BY <1>3, <1>4

LEMMA ScanIInv ==
  ASSUME IInv, Parameters, NEW t \in Threads, ScanSlot(t)
  PROVE  IInv'
<1> USE DEF IInv
<1> DEFINE o == retiredList[t][iret[t]]
<1>1. /\ Looking(t) /\ pc[t] = "scan" /\ it[t] \in 0 .. MaxThreads
      /\ it[t] < MaxThreads /\ MaxThreads \in Nat
      /\ UNCHANGED <<enqueuers, hp, retiredList, buffer, live, pc, ptr>>
  BY DEF ScanSlot, Looking, Types, Parameters
<1>2. /\ it' \in [Threads -> 0 .. MaxThreads] /\ iret' \in [Threads -> Nat \ {0}]
      /\ \A u \in Threads \ {t} : it'[u] = it[u] /\ iret'[u] = iret[u]
      /\ \/ it'[t] = 0
         \/ hp[it[t]] # o /\ it'[t] = it[t] + 1 /\ iret'[t] = iret[t]
  <2>1. CASE hp[it[t]] = o
    <3>1. it' = [it EXCEPT ![t] = 0] /\ iret' = [iret EXCEPT ![t] = iret[t] + 1]
      BY <2>1 DEF ScanSlot
    <3>2. QED
      BY <1>1, <3>1 DEF Types
  <2>2. CASE hp[it[t]] # o
    <3>1. it' = [it EXCEPT ![t] = it[t] + 1] /\ iret' = iret
      BY <2>2 DEF ScanSlot
    <3>2. QED
      BY <1>1, <2>2, <3>1 DEF Types
  <2>3. QED
    BY <2>1, <2>2
<1>3. Types'
  BY <1>1, <1>2 DEF Types
<1>4. Indices' /\ Replacing'
  <2>1. Indices'
    BY <1>1, <1>2, SMTT(30) DEF Indices, Helping, Looking, Types
  <2>2. Replacing'
    BY <1>1, <1>2, SMTT(30) DEF Replacing, Looking, Types
  <2>3. QED
    BY <2>1, <2>2
<1>5. Owned'
  <2>1. OldRequest(t)' = OldRequest(t) /\ Listed(t)' = Listed(t)
    BY <1>1 DEF OldRequest, Listed, ToSet
  <2>2. OnePlace(t)' /\ Held(t)' = Held(t)
    BY <1>1, <2>1 DEF Owned, OnePlace, Held
  <2>3. QED
    BY <1>1, <2>2, KeepsOwned
<1>6. ASSUME NEW u \in Threads \ {t}, pc[u] = "call", Looking(t)',
             (retiredList[t][iret[t]])' = ptr[u]
      PROVE  it'[t] <= u
  <2>1. u \in Nat
    BY DEF Threads
  <2>2. CASE it'[t] = 0
    BY <2>1, <2>2
  <2>3. CASE hp[it[t]] # o /\ it'[t] = it[t] + 1 /\ iret'[t] = iret[t]
    <3>1. o = ptr[u] /\ hp[u] = ptr[u]
      BY <1>1, <1>6, <2>3 DEF Protected
    <3>2. it[t] <= u /\ it[t] # u
      BY <1>1, <1>6, <2>3, <3>1 DEF NotPassed
    <3>3. QED
      BY <1>1, <2>1, <2>3, <3>2
  <2>4. QED
    BY <1>2, <2>2, <2>3
<1>7. Protected' /\ NotPassed'
  BY <1>1, <1>2, <1>3, <1>6, OwnerStep DEF Protected
<1>8. QED
  BY <1>3, <1>4, <1>5, <1>7

LEMMA DeleteIInv ==
  ASSUME IInv, Parameters, NEW t \in Threads, Delete(t)
  PROVE  IInv'
<1> USE DEF IInv
<1> DEFINE o == retiredList[t][iret[t]]
<1>1. /\ Looking(t) /\ pc[t] = "scan" /\ it[t] = MaxThreads /\ MaxThreads \in Nat
      /\ live' = live \ {o}
      /\ retiredList' = [retiredList EXCEPT ![t] = RemoveAt(retiredList[t], iret[t])]
      /\ it' = [it EXCEPT ![t] = 0]
      /\ UNCHANGED <<enqueuers, hp, buffer, pc, ptr, iret>>
  BY DEF Delete, Looking, Parameters
<1>2. /\ it'[t] = 0 /\ retiredList'[t] = RemoveAt(retiredList[t], iret[t])
      /\ \A u \in Threads \ {t} :
           it'[u] = it[u] /\ retiredList'[u] = retiredList[u]
      /\ retiredList[t] \in Seq(Objs) /\ iret[t] \in 1 .. Len(retiredList[t])
  BY <1>1 DEF Types, Looking
<1>3. OnePlace(t)
  BY DEF Owned
<1>4. /\ retiredList'[t] \in Seq(Objs)
      /\ \A k, m \in 1 .. Len(retiredList'[t]) :
           retiredList'[t][k] = retiredList'[t][m] => k = m
      /\ Listed(t)' = Listed(t) \ {o}
  <2>1. \A k, m \in 1 .. Len(retiredList[t]) :
          retiredList[t][k] = retiredList[t][m] => k = m
    BY <1>3 DEF OnePlace
  <2>2. Listed(t)' = ToSet(retiredList'[t])
    BY DEF Listed, ToSet
  <2> DEFINE s == retiredList[t]
             n == iret[t]
             r == RemoveAt(s, n)
  <2>3. /\ s \in Seq(Objs) /\ n \in 1 .. Len(s)
        /\ \A k, m \in 1 .. Len(s) : s[k] = s[m] => k = m
    BY <1>2, <2>1
  <2> HIDE DEF s, n
  <2>4. /\ r \in Seq(Objs) /\ Len(r) = Len(s) - 1
        /\ \A k, m \in 1 .. Len(s) - 1 : r[k] = r[m] => k = m
        /\ ToSet(r) = ToSet(s) \ {s[n]}
    BY <2>3, Removed
  <2>5. retiredList'[t] = r
    BY <1>2 DEF s, n
  <2> HIDE DEF r
  <2>6. QED
    BY <2>2, <2>4, <2>5 DEF Listed, s, n
<1>5. o \in Listed(t) /\ o \in Objs
  BY <1>2, Sets DEF Listed
<1>6. Types'
  BY <1>1, <1>4 DEF Types
<1>7. Indices' /\ Replacing'
  BY <1>1, <1>2 DEF Indices, Replacing, Helping
<1>8. OldRequest(t)' = OldRequest(t)
  BY <1>1 DEF OldRequest
<1>9. OnePlace(t)'
  BY <1>1, <1>3, <1>4, <1>8 DEF OnePlace
<1>10. Held(t)' = Held(t) \ {o}
  BY <1>1, <1>3, <1>4, <1>5, <1>8 DEF OnePlace, Held
<1>11. ASSUME NEW u \in Threads, u # t
       PROVE  OnePlace(u)' /\ Held(u)' = Held(u) /\ o \notin Held(u)
  <2>1. Listed(u)' = Listed(u) /\ OldRequest(u)' = OldRequest(u)
    BY <1>1, <1>2, <1>11 DEF Listed, ToSet, OldRequest
  <2>2. OnePlace(u)
    BY DEF Owned
  <2>3. o \in Held(t)
    BY <1>5 DEF Held, Parameters
  <2>4. QED
    BY <1>1, <1>2, <1>11, <2>1, <2>2, <2>3 DEF OnePlace, Held, Owned
<1>12. Owned'
  <2>1. live' = UNION {Held(u)' : u \in Threads}
    <3>1. live = UNION {Held(u) : u \in Threads}
      BY DEF Owned
    <3>2. QED
      BY <1>1, <1>10, <1>11, <3>1
  <2>2. \A u, w \in Threads : u # w => Held(u)' \cap Held(w)' = {}
    BY <1>10, <1>11 DEF Owned
  <2>3. QED
    BY <1>9, <1>11, <2>1, <2>2 DEF Owned
<1>13. ASSUME NEW u \in Threads \ {t}, pc[u] = "call" PROVE ptr[u] \in live'
  <2>1. ptr[u] \in live /\ u < MaxThreads /\ u \in Nat
    BY <1>13 DEF Protected, Threads, Parameters
  <2>2. ptr[u] # o
    BY <1>1, <1>13, <2>1 DEF NotPassed
  <2>3. QED
    BY <1>1, <2>1, <2>2
<1>14. Protected' /\ NotPassed'
  <2>1. \A u \in Threads : it'[t] <= u
    BY <1>2 DEF Threads, Parameters
  <2>2. QED
    BY <1>1, <1>2, <1>6, <1>13, <2>1, OwnerStep
<1>15. QED
  BY <1>6, <1>7, <1>12, <1>14

-----------------------------------------------------------------------------
LEMMA NextIInv == Parameters /\ IInv /\ [Next]_vars => IInv'
<1> SUFFICES ASSUME Parameters, IInv, [Next]_vars PROVE IInv'
  OBVIOUS
<1>1. CASE UNCHANGED vars
  <2> USE <1>1 DEF IInv, vars
  <2>1. Types' /\ Indices' /\ Replacing' /\ Protected'
    BY DEF Types, Indices, Replacing, Protected
  <2>2. NotPassed'
    BY DEF NotPassed, Looking
  <2>3. Owned'
    <3>1. \A u \in Threads : Listed(u)' = Listed(u) /\ OldRequest(u)' = OldRequest(u)
      BY DEF Listed, ToSet, OldRequest
    <3>2. \A u \in Threads : OnePlace(u)' /\ Held(u)' = Held(u)
      BY <3>1 DEF Owned, OnePlace, Held
    <3>3. QED
      BY <3>2 DEF Owned
  <2>4. QED
    BY <2>1, <2>2, <2>3
<1>2. ASSUME NEW t \in Threads, Publish(t) PROVE IInv'
  BY <1>2, PublishIInv
<1>3. ASSUME NEW t \in Threads, Drain(t) PROVE IInv'
  BY <1>3, DrainIInv
<1>4. ASSUME NEW t \in Threads, Announce(t) \/ Retired(t) PROVE IInv'
  BY <1>4, AnnounceIInv
<1>5. ASSUME NEW t \in Threads, Retire(t) PROVE IInv'
  BY <1>5, RetireIInv
<1>6. ASSUME NEW t \in Threads, ScanSlot(t) PROVE IInv'
  BY <1>6, ScanIInv
<1>7. ASSUME NEW t \in Threads, Delete(t) PROVE IInv'
  BY <1>7, DeleteIInv
<1>8. ASSUME NEW t \in Threads,
             \/ Help(t) \/ NextRequest(t) \/ LoadRequest(t) \/ ProtectPtr(t)
             \/ Validate(t) \/ Called(t) \/ Clear(t)
      PROVE  IInv'
  BY <1>8, HelperIInv
<1>9. QED
  BY <1>1, <1>2, <1>3, <1>4, <1>5, <1>6, <1>7, <1>8 DEF Next

(* NoUseAfterFree, the promise of protectPtr() and retire(): the request   *)
(* that a helper calls has not been deleted.                               *)
THEOREM Safe == ASSUME Parameters PROVE Spec => []NoUseAfterFree
<1>1. Init => IInv
  BY InitIInv
<1>2. IInv /\ [Next]_vars => IInv'
  BY NextIInv
<1>3. IInv => NoUseAfterFree
  BY DEF IInv, Protected, NoUseAfterFree
<1>4. QED
  BY <1>1, <1>2, <1>3, PTL DEF Spec
=============================================================================
