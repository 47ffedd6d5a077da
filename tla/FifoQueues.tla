----------------------------- MODULE FifoQueues -----------------------------
(***************************************************************************)
(* What a set of linked queues promises to those who pass entries through  *)
(* them: an entry is in one place at a time (a queue, a thread's hand, or  *)
(* not allocated yet), and a queue gives its entries back in the order in  *)
(* which they were put in.  MPSCQueue implements this specification.       *)
(***************************************************************************)
EXTENDS Sequences

CONSTANTS Threads, Queues, Entries, nil

VARIABLES queue,   \* queue[q]: the entries in q, first to last
          hand,    \* hand[x]: the entry that thread x has, or nil
          fresh    \* the entries nobody has allocated yet

vars == <<queue, hand, fresh>>

Init ==
  /\ queue = [q \in Queues |-> <<>>]
  /\ hand = [x \in Threads |-> nil]
  /\ fresh = Entries

Allocate(x) ==
  /\ hand[x] = nil
  /\ \E e \in fresh : /\ hand' = [hand EXCEPT ![x] = e]
                      /\ fresh' = fresh \ {e}
  /\ UNCHANGED queue

Put(x, q) ==
  /\ hand[x] # nil
  /\ queue' = [queue EXCEPT ![q] = Append(@, hand[x])]
  /\ hand' = [hand EXCEPT ![x] = nil]
  /\ UNCHANGED fresh

Take(x, q) ==
  /\ hand[x] = nil
  /\ queue[q] # <<>>
  /\ hand' = [hand EXCEPT ![x] = Head(queue[q])]
  /\ queue' = [queue EXCEPT ![q] = Tail(@)]
  /\ UNCHANGED fresh

Next == \E x \in Threads : Allocate(x) \/ \E q \in Queues : Put(x, q) \/ Take(x, q)

Spec == Init /\ [][Next]_vars
=============================================================================
