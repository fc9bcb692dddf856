-------------------------------- MODULE RedoDB --------------------------------
(***************************************************************************)
(* ptmdb/db_impl.h and ptmdb/write_batch.cc: the key-value store, over     *)
(* transactions that are atomic and durable (DurableStore).  A call is one *)
(* transaction, but for a write batch where PTMDB_CAPTURE_BY_COPY is       *)
(* defined.  What other threads do to the string of a Get, whose lambda    *)
(* they may run as well, is left out: the answer is that of its own run.   *)
(***************************************************************************)
EXTENDS TMHashMap

CONSTANTS
  Threads,
  Keys, Values,           \* Byte strings: sequences, in which 0 is NUL.
  Batches,                \* The sequences of operations that clients write,
                          \* for each value of PTMDB_CAPTURE_BY_COPY.
  MaxCrashes              \* Bound: restarts.

(* An empty batch changes nothing and is left out.                         *)
AllBatches == (Batches[TRUE] \cup Batches[FALSE]) \ {<<>>}

VARIABLES
  PTMDB_CAPTURE_BY_COPY,  \* Of ptmdb.h: every Redo build, not Romulus.
  root,                   \* The object at root pointer 0, in memory.
  db,                     \* Is there a DBImpl, its hashMap set?
  call,                   \* Per thread: NONE, or its [req, res].
  trans,                  \* Per thread: what is left of its WriteBatch.
  crashes

runVars == <<PTMDB_CAPTURE_BY_COPY, crashes>>
vars == <<root, db, call, trans, runVars>>

Updates == [op : {"put"}, key : Keys, val : Values]
             \cup [op : {"delete"}, key : Keys, val : {NONE}]
Requests == Updates \cup [op : {"get"}, key : Keys, val : {NONE}]
                    \cup [op : {"write"}, batch : AllBatches]

Init ==
  /\ PTMDB_CAPTURE_BY_COPY \in BOOLEAN
  /\ root = NONE
  /\ db = FALSE
  /\ call = [t \in Threads |-> NONE]
  /\ trans = [t \in Threads |-> <<>>]
  /\ crashes = 0

-----------------------------------------------------------------------------
(* DB::Open and DBImpl(): the map that is there, or a new one.             *)
OpenDB ==
  /\ ~db
  /\ db' = TRUE
  /\ root' = IF root = NONE THEN EmptyMap ELSE root
  /\ UNCHANGED <<call, trans, runVars>>

(* delete db: ~DB() is not virtual, so that ~DBImpl(), which would delete  *)
(* the map and leave the root pointer, does not run.                       *)
CloseDB ==
  /\ db
  /\ \A t \in Threads : call[t] = NONE
  /\ db' = FALSE
  /\ UNCHANGED <<root, call, trans, runVars>>

Call(t, q) ==
  /\ db
  /\ call[t] = NONE
  /\ q.op = "write" => q.batch \in Batches[PTMDB_CAPTURE_BY_COPY]
  /\ call' = [call EXCEPT ![t] = [req |-> q, res |-> <<>>]]
  /\ trans' = [trans EXCEPT ![t] = IF q.op = "write" THEN q.batch ELSE <<>>]
  /\ UNCHANGED <<root, db, runVars>>

Pending(t, ops) ==
  /\ call[t] # NONE /\ call[t].res = <<>>
  /\ call[t].req.op \in ops

Answer(t, r) == call' = [call EXCEPT ![t].res = <<r>>]

Put(t) ==
  /\ Pending(t, {"put"})
  /\ root' = innerPut(root, call[t].req.key, call[t].req.val)
  /\ Answer(t, TRUE)
  /\ UNCHANGED <<db, trans, runVars>>

Delete(t) ==
  /\ Pending(t, {"delete"})
  /\ root' = innerRemove(root, call[t].req.key)
  /\ Answer(t, Find(root, call[t].req.key) # 0)
  /\ UNCHANGED <<db, trans, runVars>>

(* The char* of an Op becomes a Slice of strlen() bytes: up to a NUL.      *)
CString(s) ==
  LET nul == SelectInSeq(s, LAMBDA c : c = 0) IN
  IF nul = 0 THEN s ELSE SubSeq(s, 1, nul - 1)

RunOp(hm, o) ==
  IF o.op = "put" THEN innerPut(hm, CString(o.key), CString(o.val))
  ELSE innerRemove(hm, CString(o.key))

(* One operation of the batch, the last, in a transaction of its own.      *)
WriteOne(t) ==
  /\ PTMDB_CAPTURE_BY_COPY
  /\ Pending(t, {"write"})
  /\ trans[t] # <<>>
  /\ root' = RunOp(root, Last(trans[t]))
  /\ trans' = [trans EXCEPT ![t] = Front(@)]
  /\ IF Len(trans[t]) = 1 THEN Answer(t, TRUE) ELSE UNCHANGED call
  /\ UNCHANGED <<db, runVars>>

(* Mutant of WriteAll: the loop of the other builds, from the end.         *)
WriteAllBackwards(t) ==
  /\ ~PTMDB_CAPTURE_BY_COPY
  /\ Pending(t, {"write"})
  /\ root' = FoldRight(LAMBDA o, hm : RunOp(hm, o), trans[t], root)
  /\ Answer(t, TRUE)
  /\ UNCHANGED <<db, trans, runVars>>

(* The whole batch in one transaction.                                     *)
WriteAll(t) ==
  /\ ~PTMDB_CAPTURE_BY_COPY
  /\ Pending(t, {"write"})
  /\ root' = FoldLeft(RunOp, root, trans[t])
  /\ Answer(t, TRUE)
  /\ UNCHANGED <<db, trans, runVars>>

Get(t) ==
  /\ Pending(t, {"get"})
  /\ Answer(t, innerGet(root, call[t].req.key))
  /\ UNCHANGED <<root, db, trans, runVars>>

Return(t) ==
  /\ call[t] # NONE /\ call[t].res # <<>>
  /\ call' = [call EXCEPT ![t] = NONE]
  /\ UNCHANGED <<root, db, trans, runVars>>

Crash ==
  /\ crashes < MaxCrashes
  /\ crashes' = crashes + 1
  /\ db' = FALSE
  /\ call' = [t \in Threads |-> NONE]
  /\ trans' = [t \in Threads |-> <<>>]
  /\ UNCHANGED <<root, PTMDB_CAPTURE_BY_COPY>>

Next ==
  \/ OpenDB
  \/ CloseDB
  \/ \E t \in Threads :
       \/ \E q \in Requests : Call(t, q)
       \/ Put(t)
       \/ Delete(t)
       \/ WriteOne(t)
       \/ WriteAll(t)
       \/ Get(t)
       \/ Return(t)
  \/ Crash

Spec == Init /\ [][Next]_vars

-----------------------------------------------------------------------------
Contents(hm) == [k \in Keys |-> IF hm = NONE THEN NONE ELSE innerGet(hm, k)]

(* The calls as db.h has them, where a Delete is always OK.                *)
Documented ==
  [t \in Threads |->
     IF call[t] # NONE /\ call[t].res # <<>> /\ call[t].req.op = "delete"
     THEN [call[t] EXCEPT !.res = <<TRUE>>] ELSE call[t]]

KV == INSTANCE KVStore WITH kv <- Contents(root), call <- Documented

(* The status of a Delete tells whether the store had the key when the     *)
(* Delete took effect: the code answers NotFound where db.h has OK.        *)
DeleteTells ==
  \A t \in Threads :
    Pending(t, {"delete"}) /\ call[t]' # NONE /\ call[t].res' # <<>> =>
      call[t].res' = <<Contents(root)[call[t].req.key] # NONE>>

(* Put, Delete, Get and Write take effect in one step each, a batch as a   *)
(* whole and in its order; closing and reopening the store or a crash      *)
(* lose nothing: the chains, walked by key, are the map of db.h, for all   *)
(* that is answered but the status of a Delete, which is as DeleteTells    *)
(* says.                                                                   *)
AbstractStore == KV!Spec /\ [][DeleteTells]_vars

(* "It is not an error if key did not exist in the database" (db.h and     *)
(* db_impl.h, of Delete).                                                  *)
DeleteNeverFails ==
  \A t \in Threads :
    call[t] # NONE /\ call[t].req.op = "delete" => call[t].res # <<FALSE>>
=============================================================================
