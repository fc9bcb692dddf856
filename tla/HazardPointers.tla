--------------------------- MODULE HazardPointers ---------------------------
(***************************************************************************)
(* HazardPointers.hpp as the Redo PTMs use it: a thread replaces the       *)
(* request it published in enqueuers[] and retires the old one; helpers    *)
(* protect a request before they call it.  Requests are heap objects whose *)
(* addresses are reused.  Calls go on for ever.                            *)
(*                                                                         *)
(* The store that publishes a request is relaxed.  With StoreBuffers it    *)
(* may become visible later, as on the processors the code is built for,   *)
(* until the sequentially consistent store to announce[] completes it.     *)
(***************************************************************************)
EXTENDS Integers, Sequences, FiniteSets, SequencesExt

CONSTANTS
  MaxThreads,             \* maxThreads; each has one hazard pointer.
  Owners,                 \* The threads that publish requests; the others
                          \* only help.
  Objs,                   \* Addresses a request may be allocated at.
  NONE,                   \* nullptr
  StoreBuffers,           \* Whether a relaxed store may be delayed.
  AnnounceFirst           \* Whether retire() follows the store to announce[]
                          \* (ptms/redo) or precedes it (ptmdb/ptms).

Threads == 0 .. MaxThreads - 1

VARIABLES
  enqueuers, hp,
  retiredList,
  buffer,                 \* Per thread: a store to enqueuers on its way.
  live,                   \* The objects that are allocated.
  pc,
  ptr,                    \* Per thread: oldfunc, or the request it helps.
  it,                     \* Per thread: the thread its loop is at.
  iret                    \* Per thread: the retired object it looks at.

vars == <<enqueuers, hp, retiredList, buffer, live, pc, ptr, it, iret>>

Init ==
  /\ enqueuers = [t \in Threads |-> NONE]
  /\ hp = enqueuers /\ buffer = enqueuers /\ ptr = enqueuers
  /\ retiredList = [t \in Threads |-> <<>>]
  /\ live = {}
  /\ pc = [t \in Threads |-> "idle"]
  /\ it = [t \in Threads |-> 0]
  /\ iret = [t \in Threads |-> 1]

Goto(t, from, to) ==
  /\ pc[t] = from
  /\ pc' = [pc EXCEPT ![t] = to]

-----------------------------------------------------------------------------
(* Publish a new request.                                                  *)
Publish(t) ==
  /\ t \in Owners
  /\ Goto(t, "idle", IF AnnounceFirst THEN "announce" ELSE "retire")
  /\ \E o \in Objs \ live :
       /\ live' = live \union {o}
       /\ IF StoreBuffers
          THEN buffer' = [buffer EXCEPT ![t] = o] /\ UNCHANGED enqueuers
          ELSE enqueuers' = [enqueuers EXCEPT ![t] = o] /\ UNCHANGED buffer
  /\ ptr' = [ptr EXCEPT ![t] = enqueuers[t]]
  /\ UNCHANGED <<hp, retiredList, it, iret>>

(* The store buffer gives the store to memory.                             *)
Drain(t) ==
  /\ buffer[t] # NONE
  /\ enqueuers' = [enqueuers EXCEPT ![t] = buffer[t]]
  /\ buffer' = [buffer EXCEPT ![t] = NONE]
  /\ UNCHANGED <<hp, retiredList, live, pc, ptr, it, iret>>

Announce(t) ==
  /\ buffer[t] = NONE
  /\ Goto(t, "announce", IF AnnounceFirst THEN "retire" ELSE "help")
  /\ UNCHANGED <<enqueuers, hp, retiredList, buffer, live, ptr, it, iret>>

(* retire(): push_back, then a look at every retired object.               *)
Retire(t) ==
  /\ Goto(t, "retire", "scan")
  /\ retiredList' = IF ptr[t] = NONE THEN retiredList
                    ELSE [retiredList EXCEPT ![t] = Append(@, ptr[t])]
  /\ ptr' = [ptr EXCEPT ![t] = NONE]
  /\ iret' = [iret EXCEPT ![t] = IF ptr[t] = NONE THEN Len(retiredList[t]) + 1
                                 ELSE 1]
  /\ UNCHANGED <<enqueuers, hp, buffer, live, it>>

Looking(t) == pc[t] = "scan" /\ iret[t] <= Len(retiredList[t])

ScanSlot(t) ==
  /\ Looking(t) /\ it[t] < MaxThreads
  /\ IF hp[it[t]] = retiredList[t][iret[t]]
     THEN iret' = [iret EXCEPT ![t] = @ + 1] /\ it' = [it EXCEPT ![t] = 0]
     ELSE it' = [it EXCEPT ![t] = @ + 1] /\ UNCHANGED iret
  /\ UNCHANGED <<enqueuers, hp, retiredList, buffer, live, pc, ptr>>

(* canDelete: erase and delete.                                            *)
Delete(t) ==
  /\ Looking(t) /\ it[t] = MaxThreads
  /\ live' = live \ {retiredList[t][iret[t]]}
  /\ retiredList' = [retiredList EXCEPT ![t] = RemoveAt(@, iret[t])]
  /\ it' = [it EXCEPT ![t] = 0]
  /\ UNCHANGED <<enqueuers, hp, buffer, pc, ptr, iret>>

Retired(t) ==
  /\ iret[t] > Len(retiredList[t])
  /\ Goto(t, "scan", IF AnnounceFirst THEN "help" ELSE "announce")
  /\ iret' = [iret EXCEPT ![t] = 1]
  /\ UNCHANGED <<enqueuers, hp, retiredList, buffer, live, ptr, it>>

-----------------------------------------------------------------------------
(* The helping loop: an announced request is loaded, protected, and looked *)
(* at again.                                                               *)
Help(t) ==
  /\ t \notin Owners
  /\ Goto(t, "idle", "help")
  /\ UNCHANGED <<enqueuers, hp, retiredList, buffer, live, ptr, it, iret>>

NextRequest(t) ==
  /\ Goto(t, "help", IF it[t] < MaxThreads - 1 THEN "help" ELSE "clear")
  /\ it' = [it EXCEPT ![t] = (@ + 1) % MaxThreads]
  /\ UNCHANGED <<enqueuers, hp, retiredList, buffer, live, ptr, iret>>

LoadRequest(t) ==
  /\ Goto(t, "help", "protect")
  /\ enqueuers[it[t]] # NONE
  /\ ptr' = [ptr EXCEPT ![t] = enqueuers[it[t]]]
  /\ UNCHANGED <<enqueuers, hp, retiredList, buffer, live, it, iret>>

ProtectPtr(t) ==
  /\ Goto(t, "protect", "validate")
  /\ hp' = [hp EXCEPT ![t] = ptr[t]]
  /\ UNCHANGED <<enqueuers, retiredList, buffer, live, ptr, it, iret>>

(* A request that is trusted as soon as it is protected.                   *)
ValidateNot(t) ==
  /\ Goto(t, "validate", "call")
  /\ UNCHANGED <<enqueuers, hp, retiredList, buffer, live, ptr, it, iret>>

Validate(t) ==
  /\ Goto(t, "validate", IF enqueuers[it[t]] = ptr[t] THEN "call" ELSE "clear")
  /\ UNCHANGED <<enqueuers, hp, retiredList, buffer, live, ptr, it, iret>>

(* The call of the request ends, or another commit makes the helper stop.  *)
Called(t) ==
  /\ \/ it[t] < MaxThreads - 1 /\ Goto(t, "call", "help")
     \/ Goto(t, "call", "clear")
  /\ it' = [it EXCEPT ![t] = IF pc'[t] = "clear" THEN 0 ELSE @ + 1]
  /\ ptr' = [ptr EXCEPT ![t] = NONE]
  /\ UNCHANGED <<enqueuers, hp, retiredList, buffer, live, iret>>

Clear(t) ==
  /\ Goto(t, "clear", "idle")
  /\ hp' = [hp EXCEPT ![t] = NONE]
  /\ ptr' = [ptr EXCEPT ![t] = NONE]
  /\ it' = [it EXCEPT ![t] = 0]
  /\ UNCHANGED <<enqueuers, retiredList, buffer, live, iret>>

-----------------------------------------------------------------------------
Next ==
  \E t \in Threads :
    \/ Publish(t)
    \/ Drain(t)
    \/ Announce(t)
    \/ Retire(t)
    \/ ScanSlot(t)
    \/ Delete(t)
    \/ Retired(t)
    \/ Help(t)
    \/ NextRequest(t)
    \/ LoadRequest(t)
    \/ ProtectPtr(t)
    \/ Validate(t)
    \/ Called(t)
    \/ Clear(t)

Spec == Init /\ [][Next]_vars
-----------------------------------------------------------------------------
(* A request a helper calls has not been deleted, although its owner may   *)
(* have replaced it since.                                                 *)
NoUseAfterFree == \A t \in Threads : pc[t] = "call" => ptr[t] \in live

OldRequest(t) ==
  IF pc[t] \in {"announce", "retire"} THEN {ptr[t]} \ {NONE} ELSE {}

(* No request is lost, deleted twice or retired while it is published: an  *)
(* object is allocated as long as one owner still has to get rid of it.    *)
OneOwner ==
  /\ \A t \in Threads : Cardinality(ToSet(retiredList[t])) = Len(retiredList[t])
  /\ live = UNION {{enqueuers[t], buffer[t]} \union ToSet(retiredList[t])
                     \union OldRequest(t) : t \in Threads} \ {NONE}
  /\ \A t, u \in Threads :
       /\ enqueuers[t] # NONE => enqueuers[t] \notin ToSet(retiredList[u])
                                   \/ buffer[u] # NONE
       /\ t # u => ToSet(retiredList[t]) \cap ToSet(retiredList[u]) = {}

(* retire() leaves at most one object per other thread behind, however its *)
(* scan and their hazard pointers interleave (MAX_RETIRED of the class).   *)
RetiredBound ==
  \A t \in Threads :
    pc[t] # "scan" => Len(retiredList[t]) <= MaxThreads - 1

(* A request is deleted once, when nobody can call it any more, and soon.  *)
SafeReclamation == NoUseAfterFree /\ OneOwner /\ RetiredBound
=============================================================================
