------------------------------- MODULE TMQueues -------------------------------
(***************************************************************************)
(* The queues of src/pdatastructures/pqueues that run in transactions:     *)
(* TMArrayQueue, TMLinkedListQueue and TMLinkedListFatQueue, whose nodes   *)
(* hold several items.  kind is the queue a behaviour is of.               *)
(***************************************************************************)
EXTENDS Integers, Sequences, SequencesExt

CONSTANTS
  Items,
  SIZE,                   \* Of the array.
  NUM_ITEMS,              \* Per node of the fat queue.
  MaxTail, MaxLen,        \* Bounds: of the array's tail, of the other queues.
  EMPTY

VARIABLES
  kind,
  obj,
  items,                  \* History: the items enqueued and not dequeued.
  ret                     \* The last answer.

vars == <<kind, obj, items, ret>>

(* A node with its first item; the sentinel has none left.                 *)
Node(item) ==
  [it |-> 1, ih |-> 0, item |-> [n \in 0 .. NUM_ITEMS - 1 |-> IF n = 0 THEN item ELSE EMPTY]]

sentinelNode == [Node(EMPTY) EXCEPT !.it = NUM_ITEMS, !.ih = NUM_ITEMS]

Init ==
  /\ \/ /\ kind = "array"
        /\ obj = [head |-> 0, tail |-> 0, item |-> [n \in 0 .. SIZE - 1 |-> EMPTY]]
     \/ kind = "linked" /\ obj = <<EMPTY>>
     \/ kind = "fat" /\ obj = <<sentinelNode>>
  /\ items = <<>>
  /\ ret = FALSE

Answer(r) == ret' = r /\ UNCHANGED kind

-----------------------------------------------------------------------------
ArrayEnqueue(v) ==
  /\ kind = "array"
  /\ IF obj.head + SIZE = obj.tail
     THEN Answer(FALSE) /\ UNCHANGED <<obj, items>>
     ELSE /\ obj.tail < MaxTail
          /\ obj' = [obj EXCEPT !.item[obj.tail % SIZE] = v, !.tail = @ + 1]
          /\ items' = Append(items, v)
          /\ Answer(TRUE)

ArrayDequeue ==
  /\ kind = "array"
  /\ IF obj.head = obj.tail THEN Answer(EMPTY) /\ UNCHANGED <<obj, items>>
     ELSE /\ obj' = [obj EXCEPT !.head = @ + 1]
          /\ items' = Tail(items)
          /\ Answer(obj.item[obj.head % SIZE])

(* The list from head to tail; the item of the first node is gone.         *)
ListEnqueue(v) ==
  /\ kind = "linked" /\ Len(items) < MaxLen
  /\ obj' = Append(obj, v)
  /\ items' = Append(items, v)
  /\ Answer(TRUE)

ListDequeue ==
  /\ kind = "linked"
  /\ IF Len(obj) = 1 THEN Answer(EMPTY) /\ UNCHANGED <<obj, items>>
     ELSE /\ obj' = Tail(obj)
          /\ items' = Tail(items)
          /\ Answer(Head(Tail(obj)))

(* Filling the last node up before there is a next one.                    *)
FatEnqueue(v) ==
  /\ kind = "fat" /\ Len(items) < MaxLen
  /\ LET ltail == obj[Len(obj)] IN
     obj' = IF ltail.it = NUM_ITEMS THEN Append(obj, Node(v))
            ELSE [obj EXCEPT ![Len(obj)].item[ltail.it] = v,
                             ![Len(obj)].it = @ + 1]
  /\ items' = Append(items, v)
  /\ Answer(TRUE)

(* Mutant of Fresh: the head is left behind with an item in it.            *)
FreshEarly(chain) ==
  IF Head(chain).ih >= NUM_ITEMS - 1 THEN Tail(chain) ELSE chain

(* The head is left behind when its items are used up.                     *)
Fresh(chain) == IF Head(chain).ih = NUM_ITEMS THEN Tail(chain) ELSE chain

(* head == tail is taken for an empty queue.                               *)
FatDequeue ==
  /\ kind = "fat"
  /\ IF Len(obj) = 1 THEN Answer(EMPTY) /\ UNCHANGED <<obj, items>>
     ELSE LET chain == Fresh(obj) IN
          /\ obj' = [chain EXCEPT ![1].ih = @ + 1]
          /\ items' = Tail(items)
          /\ Answer(chain[1].item[chain[1].ih])

Dequeue == ArrayDequeue \/ ListDequeue \/ FatDequeue

Next ==
  \/ \E v \in Items : ArrayEnqueue(v) \/ ListEnqueue(v) \/ FatEnqueue(v)
  \/ Dequeue

Spec == Init /\ [][Next]_vars

-----------------------------------------------------------------------------
(* What a queue still holds.                                               *)
Held ==
  CASE kind = "array" ->
         [n \in 1 .. obj.tail - obj.head |-> obj.item[(obj.head + n - 1) % SIZE]]
    [] kind = "linked" -> Tail(obj)
    [] kind = "fat" ->
         FlattenSeq([n \in 1 .. Len(obj) |->
           [m \in 1 .. obj[n].it - obj[n].ih |-> obj[n].item[obj[n].ih + m - 1]]])
    [] OTHER -> <<>>

(* A dequeue answers with the oldest item there is, and with EMPTY only if *)
(* there is none.                                                          *)
DequeuesOldest ==
  Dequeue => IF items = <<>> THEN ret' = EMPTY ELSE ret' = Head(items)

(* The array and the linked list are FIFO queues: they hold what was       *)
(* enqueued and not dequeued, in its order.                                *)
FirstInFirstOut ==
  [](kind # "fat" => Held = items) /\ [][kind # "fat" => DequeuesOldest]_vars

(* All that is left is in the last node, which may have been filled since  *)
(* it became the head.                                                     *)
OneNodeLeft == Len(obj) = 1

(* A dequeue of the fat queue answers with the oldest item as long as      *)
(* there are two nodes, and then with EMPTY, whatever the last one holds.  *)
LeavesLastNode ==
  Dequeue => IF OneNodeLeft THEN ret' = EMPTY ELSE ret' = Head(items)

(* The fat queue loses, repeats and reorders nothing, but what is in its   *)
(* last node is not to be had: it is no FIFO queue.                        *)
KeepsOrder ==
  [](kind = "fat" => Held = items) /\ [][kind = "fat" => LeavesLastNode]_vars
=============================================================================
