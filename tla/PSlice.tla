-------------------------------- MODULE PSlice --------------------------------
(***************************************************************************)
(* ptmdb/slice.h, class PSlice: where the bytes of keys and values go in   *)
(* the builds with replicas (USE_REDO, USE_REDOTIMED, USE_REDOOPT).        *)
(* Everything else of a node is a persist<T>, whose pload and pstore move  *)
(* to the replica of the transaction (tl_cx_size) and are logged.  The     *)
(* bytes are a block that memcpy fills at _addr + offset, and that nothing *)
(* logs: the #ifdef of slice.h tests names that no build has.  Of the PTM  *)
(* there is here what the bytes depend on; RedoOpt has the rest.           *)
(***************************************************************************)
EXTENDS Integers, Sequences

CONSTANTS
  Threads,
  Replicas,               \* 0 .. n: replica 0 is at the main addresses.
  Keys, Values,
  LogReach,               \* How many commits the redo logs go back.
  MaxCommits, MaxCrashes, \* Bounds.
  NONE

VARIABLES
  node,                   \* node[r][k]: is there a node of key k in r?
  data,                   \* data[r][k]: the bytes of its value's block.
  pnode, pdata,           \* What of both is in persistent memory.
  head,                   \* head[r]: how many commits replica r has.
  cur,                    \* The replica of curComb.
  log,                    \* The redo logs of the commits: [key, val].
  tx,                     \* Per thread: its transaction, or NONE.
  crashes

memVars == <<node, data, pnode, pdata>>
vars == <<memVars, head, cur, log, tx, crashes>>

Init ==
  /\ node = [r \in Replicas |-> [k \in Keys |-> FALSE]]
  /\ data = [r \in Replicas |-> [k \in Keys |-> NONE]]
  /\ pnode = node /\ pdata = data
  /\ head = [r \in Replicas |-> 0]
  /\ cur = 0
  /\ log = <<>>
  /\ tx = [t \in Threads |-> NONE]
  /\ crashes = 0

(* memcpy and data() reach replica 0, whichever the transaction is on.     *)
offset == 0

In(t, step) == tx[t] # NONE /\ tx[t].step = step

(* updateTx: a replica that nobody has locked, other than the current one. *)
Begin(t, r, k, v) ==
  /\ tx[t] = NONE
  /\ Len(log) < MaxCommits
  /\ r # cur
  /\ \A u \in Threads : tx[u] # NONE => tx[u].r # r
  /\ tx' = [tx EXCEPT ![t] = [step |-> "sync", r |-> r, key |-> k, val |-> v,
                              from |-> 0, old |-> FALSE]]
  /\ UNCHANGED <<memVars, head, cur, log, crashes>>

(* The nodes n after the commits that follow the first `from`.             *)
Replayed(n, from) ==
  [k \in Keys |-> n[k] \/ \E m \in from + 1 .. Len(log) : log[m].key = k]

(* Bring replica r up to date from the redo logs ...                       *)
Replay(t) ==
  LET r == tx[t].r IN
  /\ In(t, "sync")
  /\ head[r] >= 0 /\ Len(log) - head[r] \in 1 .. LogReach
  /\ node' = [node EXCEPT ![r] = Replayed(@, head[r])]
  /\ head' = [head EXCEPT ![r] = Len(log)]
  /\ UNCHANGED <<data, pnode, pdata, cur, log, tx, crashes>>

(* ... or from the current replica, when the logs do not go back far       *)
(* enough, or a crash has left it as it may be.                            *)
CopyReplica(t) ==
  LET r == tx[t].r IN
  /\ In(t, "sync")
  /\ head[r] = -1 \/ Len(log) - head[r] > LogReach
  /\ node' = [node EXCEPT ![r] = node[cur]]
  /\ data' = [data EXCEPT ![r] = data[cur]]
  /\ head' = [head EXCEPT ![r] = Len(log)]
  /\ UNCHANGED <<pnode, pdata, cur, log, tx, crashes>>

(* innerPut: PSlice(const Slice&) or operator= fill the block, and pstore  *)
(* the words of the node.                                                  *)
RunPut(t) ==
  LET r == tx[t].r IN
  /\ In(t, "sync")
  /\ head[r] = Len(log)
  /\ node' = [node EXCEPT ![r][tx[t].key] = TRUE]
  /\ data' = [data EXCEPT ![offset][tx[t].key] = tx[t].val]
  /\ tx' = [tx EXCEPT ![t].step = "flush", ![t].from = Len(log),
                      ![t].old = node[r][tx[t].key]]
  /\ UNCHANGED <<pnode, pdata, head, cur, log, crashes>>

(* PTM_FLUSH names the block, and the PWBs go to it + tl_cx_size: to r,    *)
(* where the bytes are not.                                                *)
Flush(t) ==
  LET r == tx[t].r IN
  /\ In(t, "flush")
  /\ pnode' = [pnode EXCEPT ![r] = node[r]]
  /\ pdata' = [pdata EXCEPT ![r] = data[r]]
  /\ tx' = [tx EXCEPT ![t].step = "cas"]
  /\ UNCHANGED <<node, data, head, cur, log, crashes>>

Commit(t) ==
  LET r == tx[t].r IN
  /\ In(t, "cas")
  /\ tx[t].from = Len(log)
  /\ cur' = r
  /\ log' = Append(log, [key |-> tx[t].key, val |-> tx[t].val])
  /\ head' = [head EXCEPT ![r] = Len(log')]
  /\ tx' = [tx EXCEPT ![t] = NONE]
  /\ UNCHANGED <<memVars, crashes>>

(* The CAS of curComb failed: apply_undolog puts back the logged words,    *)
(* which the bytes are not among.                                          *)
Abort(t) ==
  LET r == tx[t].r IN
  /\ In(t, "cas")
  /\ tx[t].from < Len(log)
  /\ node' = [node EXCEPT ![r][tx[t].key] = tx[t].old]
  /\ tx' = [tx EXCEPT ![t] = NONE]
  /\ UNCHANGED <<data, pnode, pdata, head, cur, log, crashes>>

(* A crash keeps, of each line, what was flushed or what was in the cache. *)
(* Only the replica of curComb is trusted after it: the others are copied. *)
Crash ==
  /\ crashes < MaxCrashes
  /\ crashes' = crashes + 1
  /\ tx' = [t \in Threads |-> NONE]
  /\ \E N, D \in SUBSET (Replicas \X Keys) :
       /\ node' = [r \in Replicas |-> [k \in Keys |->
                     IF <<r, k>> \in N THEN node[r][k] ELSE pnode[r][k]]]
       /\ data' = [r \in Replicas |-> [k \in Keys |->
                     IF <<r, k>> \in D THEN data[r][k] ELSE pdata[r][k]]]
  /\ pnode' = node' /\ pdata' = data'
  /\ head' = [r \in Replicas |-> IF r = cur THEN head[r] ELSE -1]
  /\ UNCHANGED <<cur, log>>

(* The bound on commits is reached and every transaction has ended.        *)
Finished ==
  /\ Len(log) >= MaxCommits
  /\ \A t \in Threads : tx[t] = NONE
  /\ UNCHANGED vars

Next ==
  \/ \E t \in Threads :
       \/ \E r \in Replicas, k \in Keys, v \in Values : Begin(t, r, k, v)
       \/ Replay(t)
       \/ CopyReplica(t)
       \/ RunPut(t)
       \/ Flush(t)
       \/ Commit(t)
       \/ Abort(t)
  \/ Crash
  \/ Finished

Spec == Init /\ [][Next]_vars

-----------------------------------------------------------------------------
(* What the last commit on key k wrote.                                    *)
Committed(k) ==
  LET N == {n \in DOMAIN log : log[n].key = k} IN
  IF N = {} THEN NONE ELSE log[CHOOSE n \in N : \A m \in N : n >= m].val

Get(k) == IF node[cur][k] THEN data[offset][k] ELSE NONE

(* Whatever transactions run, abort or are cut off by a crash, a Get finds *)
(* the bytes of the last Put that committed: "A DB is safe for concurrent  *)
(* access from multiple threads" (db.h), and its contents are persistent.  *)
GetReadsCommitted == \A k \in Keys : Get(k) = Committed(k)
=============================================================================
