-------------------------------- MODULE MSQueue --------------------------------
(*****************************************************************************)
(* The non-blocking queue of the mesh (queues.cc) and the pool that its      *)
(* nodes come from and go back to. A counted pointer is a pair of a pointer  *)
(* and a serial number; a CAS compares and replaces both. A step is one      *)
(* access to a word that threads share; a node that was freed may still be   *)
(* read, through a pointer that is out of date. Memory goes back to the pool *)
(* and never to the system.                                                  *)
(*****************************************************************************)
EXTENDS Naturals, Sequences, FiniteSets, FiniteSetsExt, SequencesExt

CONSTANTS
  Workers,                    \* the threads
  Nodes,                      \* the memory: 1, 2 and so on
  GROUP_SIZE,                 \* blocks that move to the global pool together, at least 2
  Starts,                     \* where they start: see Init
  MaxOps                      \* bound: enqueues and dequeues in all

VARIABLES
  node,                       \* t, next and the pool's next_group of each node
  head, tail,                 \* counted pointers
  top,                        \* the local pool of each worker, top first
  global_pool,                \* a counted pointer to a group
  group,                      \* the blocks of the group that a node heads
  my,                         \* the locals of each worker
  queue,                      \* history: the items that are in the queue
  items                       \* history: items enqueued and dequeues begun
vars == <<node, head, tail, top, global_pool, group, my, queue, items>>
pool == <<top, global_pool, group>>

Null == 0
Counted(ptr, sn) == [ptr |-> ptr, sn |-> sn]
Idle == [pc |-> "idle", item |-> 0, qn |-> Null, head |-> Counted(Null, 0),
         tail |-> Counted(Null, 0), next |-> Counted(Null, 0), empty |-> FALSE]

\* The states from which to start: one worker has enqueued items, with memory
\* that was new, and each has dequeued pooled[w] of them that are in its pool,
\* after as many as make a group if grouped is TRUE; queued more are there.
Init ==
  \E start \in Starts :
    LET given == IF start.grouped THEN GROUP_SIZE ELSE 0
        Before(w) == given + MapThenSumSet(LAMBDA v : start.pooled[v], {v \in Workers : v < w})
        Down(first, n) == [i \in 1 .. n |-> first + n - i]
        dummy == Before(Max(Workers) + 1) + 1
        last == dummy + start.queued
    IN  /\ node = [n \in Nodes |->
                     [t |-> IF n \in dummy + 1 .. last THEN n - dummy ELSE 0, next_group |-> Null,
                      next |-> IF n < last THEN Counted(n + 1, 1) ELSE Counted(Null, 0)]]
        /\ head = Counted(dummy, dummy - 1) /\ tail = Counted(last, last - 1)
        /\ top = [w \in Workers |-> Down(Before(w) + 1, start.pooled[w])]
        /\ global_pool = IF start.grouped THEN Counted(GROUP_SIZE, 1) ELSE Counted(Null, 0)
        /\ group = [n \in Nodes |-> IF n = given THEN Down(1, GROUP_SIZE) ELSE <<>>]
        /\ my = [w \in Workers |-> Idle]
        /\ queue = [i \in 1 .. start.queued |-> i] /\ items = 0

-------------------------------------------------------------------------------
(* Helpers.                                                                  *)

\* A worker goes from one statement to another, and its locals change.
At(w, pc) == my[w].pc = pc
Goes(w, from, locals) == At(w, from) /\ my' = [my EXCEPT ![w] = locals]
To(w, pc) == [my[w] EXCEPT !.pc = pc]

Swung(old, seen, new) == IF old = seen THEN Counted(new, seen.sn + 1) ELSE old

\* Mutant: the serial number is not looked at.
SwungByPointer(old, seen, new) == IF old.ptr = seen.ptr THEN Counted(new, old.sn + 1) ELSE old

\* What cp_CAS leaves in a word in which it expects seen.
cp_CAS(old, seen, new) == Swung(old, seen, new)

\* Blocks that no pool, queue or worker has: what memalign can return.
Pooled == UNION {Range(top[w]) : w \in Workers} \cup UNION {Range(group[n]) : n \in Nodes}

-------------------------------------------------------------------------------
(* The pool: alloc_block.                                                    *)

Enqueue(w) ==
  /\ items < MaxOps /\ items' = items + 1
  /\ Goes(w, "idle", [To(w, "alloc") EXCEPT !.item = Cardinality(Nodes) + items])
  /\ UNCHANGED <<node, head, tail, pool, queue>>

\* From the local pool; or the global pool is looked at.
alloc_block(w) ==
  /\ IF top[w] # <<>>
     THEN /\ Goes(w, "alloc", [To(w, "fill") EXCEPT !.qn = top[w][1]])
          /\ top' = [top EXCEPT ![w] = Tail(@)]
     ELSE /\ Goes(w, "alloc", [To(w, IF global_pool.ptr = Null THEN "memalign" ELSE "next group")
                               EXCEPT !.head = global_pool])
          /\ UNCHANGED top
  /\ UNCHANGED <<node, head, tail, global_pool, group, queue, items>>

InHand == {my[w].qn : w \in Workers}
InQueue == LET f[n \in Nodes \cup {Null}, k \in 0 .. Cardinality(Nodes)] ==
                 IF n = Null \/ k = 0 THEN {} ELSE {n} \cup f[node[n].next.ptr, k - 1]
           IN  f[head.ptr, Cardinality(Nodes)]

memalign(w) ==
  /\ At(w, "memalign")
  /\ Goes(w, "memalign",
          [To(w, "fill") EXCEPT !.qn = Min(Nodes \ (Pooled \cup InHand \cup InQueue))])
  /\ UNCHANGED <<node, head, tail, pool, queue, items>>

\* next_group is read of a group that another worker may have taken.
ReadNextGroup(w) ==
  /\ Goes(w, "next group", [To(w, "take group") EXCEPT !.next.ptr = node[my[w].head.ptr].next_group])
  /\ UNCHANGED <<node, head, tail, pool, queue, items>>

TakeGroup(w) ==
  LET seen == my[w].head
  IN  /\ At(w, "take group")
      /\ global_pool' = cp_CAS(global_pool, seen, my[w].next.ptr)
      /\ IF global_pool' # global_pool
         THEN /\ Goes(w, "take group", [To(w, "fill") EXCEPT !.qn = seen.ptr])
              /\ top' = [top EXCEPT ![w] = Tail(group[seen.ptr])]
              /\ group' = [group EXCEPT ![seen.ptr] = <<>>]
         ELSE Goes(w, "take group", To(w, "alloc")) /\ UNCHANGED <<top, group>>
      /\ UNCHANGED <<node, head, tail, queue, items>>

-------------------------------------------------------------------------------
(* enqueue.                                                                  *)

\* The serial number of next is left where it is.
Fill(w) ==
  /\ Goes(w, "fill", To(w, "read tail"))
  /\ node' = [node EXCEPT ![my[w].qn].t = my[w].item, ![my[w].qn].next.ptr = Null]
  /\ UNCHANGED <<head, tail, pool, queue, items>>

ReadTail(w) ==
  /\ Goes(w, "read tail", [To(w, "read next") EXCEPT !.tail = tail])
  /\ UNCHANGED <<node, head, tail, pool, queue, items>>

ReadNext(w) ==
  /\ Goes(w, "read next", [To(w, "check tail") EXCEPT !.next = node[my[w].tail.ptr].next])
  /\ UNCHANGED <<node, head, tail, pool, queue, items>>

CheckTail(w) ==
  /\ Goes(w, "check tail", To(w, IF my[w].tail # tail THEN "read tail"
                                 ELSE IF my[w].next.ptr = Null THEN "link" ELSE "swing tail"))
  /\ UNCHANGED <<node, head, tail, pool, queue, items>>

\* The CAS that enqueues.
Link(w) ==
  LET last == my[w].tail.ptr
      linked == cp_CAS(node[last].next, my[w].next, my[w].qn)
  IN  /\ At(w, "link")
      /\ node' = [node EXCEPT ![last].next = linked]
      /\ IF linked # node[last].next
         THEN Goes(w, "link", To(w, "swing to new")) /\ queue' = Append(queue, my[w].item)
         ELSE Goes(w, "link", To(w, "read tail")) /\ UNCHANGED queue
      /\ UNCHANGED <<head, tail, pool, items>>

\* The tail is behind: this worker helps.
SwingTail(w) ==
  /\ Goes(w, "swing tail", To(w, "read tail"))
  /\ tail' = cp_CAS(tail, my[w].tail, my[w].next.ptr)
  /\ UNCHANGED <<node, head, pool, queue, items>>

SwingToNew(w) ==
  /\ Goes(w, "swing to new", Idle)
  /\ tail' = cp_CAS(tail, my[w].tail, my[w].qn)
  /\ UNCHANGED <<node, head, pool, queue, items>>

-------------------------------------------------------------------------------
(* dequeue.                                                                  *)

Dequeue(w) ==
  /\ items < MaxOps /\ items' = items + 1
  /\ Goes(w, "idle", To(w, "read head"))
  /\ UNCHANGED <<node, head, tail, pool, queue>>

ReadHead(w) ==
  /\ Goes(w, "read head", [To(w, "read its tail") EXCEPT !.head = head])
  /\ UNCHANGED <<node, head, tail, pool, queue, items>>

ReadItsTail(w) ==
  /\ Goes(w, "read its tail", [To(w, "read first") EXCEPT !.tail = tail])
  /\ UNCHANGED <<node, head, tail, pool, queue, items>>

\* my_next; the history notes whether the queue is empty now.
ReadFirst(w) ==
  /\ Goes(w, "read first", [To(w, "check head") EXCEPT !.next.ptr = node[my[w].head.ptr].next.ptr,
                                                       !.empty = queue = <<>>])
  /\ UNCHANGED <<node, head, tail, pool, queue, items>>

CheckHead(w) ==
  /\ Goes(w, "check head", To(w, IF my[w].head # head THEN "read head"
                                 ELSE IF my[w].head.ptr # my[w].tail.ptr THEN "read value"
                                 ELSE IF my[w].next.ptr = Null THEN "empty" ELSE "help"))
  /\ UNCHANGED <<node, head, tail, pool, queue, items>>

ReturnEmpty(w) ==
  /\ Goes(w, "empty", Idle)
  /\ UNCHANGED <<node, head, tail, pool, queue, items>>

Help(w) ==
  /\ Goes(w, "help", To(w, "read head"))
  /\ tail' = cp_CAS(tail, my[w].tail, my[w].next.ptr)
  /\ UNCHANGED <<node, head, pool, queue, items>>

\* The value is read before the CAS; another worker might free the node.
ReadValue(w) ==
  /\ Goes(w, "read value", [To(w, "take") EXCEPT !.item = node[my[w].next.ptr].t])
  /\ UNCHANGED <<node, head, tail, pool, queue, items>>

\* The CAS that dequeues.
Take(w) ==
  /\ At(w, "take")
  /\ head' = cp_CAS(head, my[w].head, my[w].next.ptr)
  /\ IF head' # head
     THEN /\ Goes(w, "take", [To(w, "free") EXCEPT !.qn = my[w].head.ptr])
          /\ queue' = IF queue = <<>> THEN queue ELSE Tail(queue)
     ELSE Goes(w, "take", To(w, "read head")) /\ UNCHANGED queue
  /\ UNCHANGED <<node, tail, pool, items>>

-------------------------------------------------------------------------------
(* The pool: free_block. The lower half of a local pool that has grown to    *)
(* two groups goes to the global pool.                                       *)

free_block(w) ==
  /\ At(w, "free")
  /\ top' = [top EXCEPT ![w] = <<my[w].qn>> \o @]
  /\ Goes(w, "free", IF Len(top'[w]) = 2 * GROUP_SIZE THEN [To(w, "read pool") EXCEPT !.qn = Null]
                     ELSE Idle)
  /\ UNCHANGED <<node, head, tail, global_pool, group, queue, items>>

\* The pointer and the serial number are read by two loads.
ReadPool(w) ==
  /\ Goes(w, "read pool", [To(w, "read sn") EXCEPT !.head = global_pool])
  /\ UNCHANGED <<node, head, tail, pool, queue, items>>

ReadSn(w) ==
  LET ng == top[w][GROUP_SIZE + 1]
  IN  /\ Goes(w, "read sn", [To(w, "give group") EXCEPT !.head.sn = global_pool.sn])
      /\ node' = [node EXCEPT ![ng].next_group = my[w].head.ptr]
      /\ UNCHANGED <<head, tail, pool, queue, items>>

GiveGroup(w) ==
  LET ng == top[w][GROUP_SIZE + 1]
  IN  /\ At(w, "give group")
      /\ global_pool' = cp_CAS(global_pool, my[w].head, ng)
      /\ IF global_pool' # global_pool
         THEN /\ Goes(w, "give group", Idle)
              /\ group' = [group EXCEPT ![ng] = SubSeq(top[w], GROUP_SIZE + 1, 2 * GROUP_SIZE)]
              /\ top' = [top EXCEPT ![w] = SubSeq(@, 1, GROUP_SIZE)]
         ELSE Goes(w, "give group", To(w, "read pool")) /\ UNCHANGED <<top, group>>
      /\ UNCHANGED <<node, head, tail, queue, items>>

-------------------------------------------------------------------------------
enqueue(w) ==
  \/ Enqueue(w) \/ alloc_block(w) \/ memalign(w) \/ ReadNextGroup(w) \/ TakeGroup(w) \/ Fill(w)
  \/ ReadTail(w) \/ ReadNext(w) \/ CheckTail(w) \/ Link(w) \/ SwingTail(w) \/ SwingToNew(w)

dequeue(w) ==
  \/ Dequeue(w) \/ ReadHead(w) \/ ReadItsTail(w) \/ ReadFirst(w) \/ CheckHead(w)
  \/ ReturnEmpty(w) \/ Help(w) \/ ReadValue(w) \/ Take(w)
  \/ free_block(w) \/ ReadPool(w) \/ ReadSn(w) \/ GiveGroup(w)

Next == \E w \in Workers : enqueue(w) \/ dequeue(w)

Spec == Init /\ [][Next]_vars

-------------------------------------------------------------------------------
\* The groups that the global pool links.
Groups == LET f[n \in Nodes \cup {Null}, k \in 0 .. Cardinality(Nodes)] ==
                IF n = Null \/ k = 0 THEN <<>> ELSE <<n>> \o f[node[n].next_group, k - 1]
          IN  f[global_pool.ptr, Cardinality(Nodes)]

\* The list along next holds the items in the order in which they were
\* enqueued, each worker that is about to take an item with a CAS that will
\* succeed holds the first, and a worker that says that the queue is empty
\* read so at a moment when it was. A node is in one place: in the queue, in
\* one pool or in the hands of one worker; no group is lost, whichever loads,
\* frees and allocations of the same node come between a load and its CAS.
QueueIsFifo ==
  LET items_[n \in Nodes \cup {Null}, k \in 0 .. Cardinality(Nodes)] ==
        IF n = Null \/ k = 0 THEN <<>> ELSE <<node[n].t>> \o items_[node[n].next.ptr, k - 1]
      pooled == [w \in Workers |-> Range(top[w])]
  IN  /\ items_[node[head.ptr].next.ptr, Cardinality(Nodes)] = queue
      /\ tail.ptr \in InQueue
      /\ \A w \in Workers :
           /\ my[w].pc = "take" /\ my[w].head = head => my[w].item = queue[1]
           /\ my[w].pc = "empty" => my[w].empty
           /\ my[w].qn # Null /\ my[w].pc # "swing to new" => my[w].qn \notin Pooled \cup InQueue
           /\ IsInjective(top[w])
      /\ \A v, w \in Workers : v # w =>
           /\ pooled[v] \cap pooled[w] = {}
           /\ my[v].qn # Null /\ my[v].pc # "swing to new" => my[v].qn # my[w].qn \/ my[w].pc = "swing to new"
      /\ Range(Groups) = {n \in Nodes : group[n] # <<>>}
      /\ InQueue \cap Pooled = {}
===============================================================================
