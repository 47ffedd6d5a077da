------------------------------ MODULE MPSCQueue ------------------------------
(***************************************************************************)
(* The multi-producer single-consumer queue of                             *)
(* src/common/lean/collections/mpsc-queue.h, with the allocators that      *)
(* recycle its entries, in the arrangement in which hpcrun's GPU channels  *)
(* use it: every producer allocates an entry from an allocator of its own  *)
(* and enqueues it for the consumer, and the consumer deallocates what it  *)
(* has dequeued.  An allocator is itself such a queue, of which the        *)
(* producer is the consumer.  One action is one atomic access.             *)
(***************************************************************************)
EXTENDS Naturals, Sequences

CONSTANTS Producers,
          consumer,   \* the thread that receives
          main,       \* the queue it receives from
          Entries,    \* bound: the entries there is memory for
          nil         \* NULL

Threads == Producers \cup {consumer}
Queues == Producers \cup {main}      \* p names the allocator of producer p

VARIABLES head, tail,    \* the fields of each queue
          next,          \* next[e]: entry->next
          allocator,     \* allocator[e]: entry->allocator
          pc,            \* where each thread is
          first,         \* the local of dequeue
          pred,          \* the local "predecessor" of enqueue
          hand,          \* the entry dequeue or allocate returned, or enqueue's argument
          fresh,         \* the entries that have not been allocated
          order,         \* history: order[q] has the entries of q in the order
                         \* in which enqueue exchanged the tail; the first one
                         \* leaves when dequeue returns an entry
          solo           \* history: no enqueue has overlapped x's current dequeue

vars == <<head, tail, next, allocator, pc, first, pred, hand, fresh, order, solo>>

(* The queue that a thread dequeues from, and the one it enqueues into. *)
From(x) == IF x = consumer THEN main ELSE x
To(x) == IF x = consumer THEN allocator[hand[x]] ELSE main

(* x has exchanged the tail of q and has not linked its entry e yet. *)
Linking(x, q, e) == pc[x] = "link" /\ hand[x] = e /\ To(x) = q

Goto(x, l) == pc' = [pc EXCEPT ![x] = l]

Init ==
  /\ head = [q \in Queues |-> nil]
  /\ tail = [q \in Queues |-> nil]
  /\ next = [e \in Entries |-> nil]
  /\ allocator = [e \in Entries |-> nil]
  /\ pc = [x \in Threads |-> "head"]
  /\ first = [x \in Threads |-> nil]
  /\ pred = [x \in Threads |-> nil]
  /\ hand = [x \in Threads |-> nil]
  /\ fresh = Entries
  /\ order = [q \in Queues |-> <<>>]
  /\ solo = [x \in Threads |-> FALSE]

-----------------------------------------------------------------------------
(* dequeue, called by the consumer on main and by allocate on an allocator *)

ReturnNull(x) == Goto(x, "null")

Return(x) ==
  /\ hand' = [hand EXCEPT ![x] = first[x]]
  /\ order' = [order EXCEPT ![From(x)] = Tail(@)]

DeqHead(x) ==
  /\ pc[x] = "head"
  /\ first' = [first EXCEPT ![x] = head[From(x)]]
  /\ \/ head[From(x)] = nil /\ ReturnNull(x)
     \/ head[From(x)] # nil /\ Goto(x, "next")
  /\ solo' = [solo EXCEPT ![x] = \A y \in Threads : ~Linking(y, From(x), hand[y])]
  /\ UNCHANGED <<head, tail, next, allocator, pred, hand, fresh, order>>

(* The successor is known: the load of first->next, which nobody will change *)
(* again, goes with the store that makes it the head.                        *)
DeqNext(x) ==
  /\ pc[x] = "next"
  /\ \/ /\ next[first[x]] # nil
        /\ head' = [head EXCEPT ![From(x)] = next[first[x]]]
        /\ Return(x)
        /\ Goto(x, "enq")
        /\ first' = [first EXCEPT ![x] = nil]
     \/ /\ next[first[x]] = nil
        /\ Goto(x, "castail")
        /\ UNCHANGED <<head, hand, first, order>>
  /\ UNCHANGED <<tail, next, allocator, pred, fresh, solo>>

(* Faulty: a failed exchange leaves the tail in first, which is returned. *)
DeqCasTail_returnsTail(x) ==
  /\ pc[x] = "castail"
  /\ \/ /\ tail[From(x)] = first[x]
        /\ tail' = [tail EXCEPT ![From(x)] = nil]
        /\ Return(x) /\ Goto(x, "cashead")
     \/ /\ tail[From(x)] # first[x]
        /\ hand' = [hand EXCEPT ![x] = tail[From(x)]]
        /\ order' = [order EXCEPT ![From(x)] = Tail(@)]
        /\ Goto(x, "enq") /\ UNCHANGED tail
  /\ UNCHANGED <<first, head, next, allocator, pred, fresh, solo>>
DeqCasTail(x) ==
  /\ pc[x] = "castail"
  /\ \/ /\ tail[From(x)] = first[x]
        /\ tail' = [tail EXCEPT ![From(x)] = nil]
        /\ Return(x)
        /\ Goto(x, "cashead")
        /\ UNCHANGED first
     \/ /\ tail[From(x)] # first[x]
        /\ ReturnNull(x)
        /\ first' = [first EXCEPT ![x] = nil]
        /\ UNCHANGED <<tail, hand, order>>
  /\ UNCHANGED <<head, next, allocator, pred, fresh, solo>>

(* Faulty: the head is cleared whether or not an enqueue has set it since. *)
NewHead_blind(x) == nil
NewHead(x) == IF head[From(x)] = first[x] THEN nil ELSE head[From(x)]

DeqCasHead(x) ==
  /\ pc[x] = "cashead"
  /\ head' = [head EXCEPT ![From(x)] = NewHead(x)]
  /\ first' = [first EXCEPT ![x] = nil]
  /\ Goto(x, "enq")
  /\ UNCHANGED <<tail, next, allocator, pred, hand, fresh, order, solo>>

-----------------------------------------------------------------------------
(* allocate: what it does when the allocator has no entry to give *)
Malloc(p) ==
  /\ pc[p] = "null"
  /\ \E e \in fresh :
       /\ fresh' = fresh \ {e}
       /\ hand' = [hand EXCEPT ![p] = e]
       /\ allocator' = [allocator EXCEPT ![e] = p]
  /\ Goto(p, "enq")
  /\ UNCHANGED <<head, tail, next, first, pred, order, solo>>

(* The consumer polls again.  A producer does so by the bound on memory: in  *)
(* the code, it allocates.                                                   *)
Retry(x) ==
  /\ pc[x] = "null"
  /\ x = consumer \/ fresh = {}
  /\ Goto(x, "head")
  /\ UNCHANGED <<head, tail, next, allocator, first, pred, hand, fresh, order, solo>>

-----------------------------------------------------------------------------
(* enqueue, called by producers on main and by deallocate on an allocator *)

Cleared(e) == [next EXCEPT ![e] = nil]

EnqSwap(x) ==
  /\ pc[x] = "enq"
  /\ next' = Cleared(hand[x])
  /\ pred' = [pred EXCEPT ![x] = tail[To(x)]]
  /\ tail' = [tail EXCEPT ![To(x)] = hand[x]]
  /\ order' = [order EXCEPT ![To(x)] = Append(@, hand[x])]
  /\ solo' = [y \in Threads |-> solo[y] /\ From(y) # To(x)]
  /\ Goto(x, "link")
  /\ UNCHANGED <<head, allocator, first, hand, fresh>>

EnqLink(x) ==
  /\ pc[x] = "link"
  /\ \/ /\ pred[x] # nil
        /\ next' = [next EXCEPT ![pred[x]] = hand[x]]
        /\ UNCHANGED head
     \/ /\ pred[x] = nil
        /\ head' = [head EXCEPT ![To(x)] = hand[x]]
        /\ UNCHANGED next
  /\ pred' = [pred EXCEPT ![x] = nil]
  /\ hand' = [hand EXCEPT ![x] = nil]
  /\ Goto(x, "head")
  /\ UNCHANGED <<tail, allocator, first, fresh, order, solo>>

-----------------------------------------------------------------------------
Step(x) ==
  \/ DeqHead(x) \/ DeqNext(x) \/ DeqCasTail(x) \/ DeqCasHead(x)
  \/ EnqSwap(x) \/ EnqLink(x) \/ Retry(x)

Next == \/ \E x \in Threads : Step(x)
        \/ \E p \in Producers : Malloc(p)

Spec == Init /\ [][Next]_vars

-----------------------------------------------------------------------------

(* A dequeue that no enqueue overlaps returns NULL only when the queue is    *)
(* empty: the last drain of a channel, after its producers have stopped,     *)
(* leaves nothing behind.                                                    *)
NullMeansEmpty ==
  \A x \in Threads : pc[x] = "null" /\ solo[x] => order[From(x)] = <<>>

Abstract == INSTANCE FifoQueues
              WITH queue <- order,
                   hand <- [x \in Threads |-> IF pc[x] = "link" THEN nil ELSE hand[x]]

(* The queue and its allocators hand every entry from place to place, in     *)
(* order, without losing it and without giving it to two threads.            *)
ImplementsFifoQueues == Abstract!Spec
==============================================================================
