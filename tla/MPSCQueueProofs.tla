-------------------------- MODULE MPSCQueueProofs ---------------------------
(***************************************************************************)
(* Proofs about MPSCQueue, for any number of producers and entries: the    *)
(* queue and its allocators implement FIFO queues, and a dequeue that no   *)
(* enqueue overlaps returns NULL only from an empty queue.  The invariant  *)
(* says what the memory looks like while enqueues are on their way.  An    *)
(* enqueue that has exchanged the tail has put its entry in the queue; the *)
(* list is cut in front of that entry until it is linked, and a queue      *)
(* whose first entry is not linked looks empty to dequeue.                 *)
(***************************************************************************)
EXTENDS MPSCQueue, TLAPS

(* A leaf is for Zenon unless it says SMT. *)
USE Zenon

(* The constants are different things.                                      *)
Parameters ==
  /\ consumer \notin Producers /\ main \notin Producers
  /\ nil \notin Entries \cup Producers

Places == {"head", "next", "castail", "cashead", "null", "enq", "link"}
Pointers == Entries \cup {nil}

TypeOK ==
  /\ head \in [Queues -> Pointers] /\ tail \in [Queues -> Pointers]
  /\ next \in [Entries -> Pointers] /\ allocator \in [Entries -> Producers \cup {nil}]
  /\ pc \in [Threads -> Places]
  /\ first \in [Threads -> Pointers] /\ pred \in [Threads -> Pointers]
  /\ hand \in [Threads -> Pointers]
  /\ fresh \subseteq Entries
  /\ order \in [Queues -> Seq(Entries)]
  /\ solo \in [Threads -> BOOLEAN]

(* The entries in the queues, and the threads that have one that is in none. *)
Queued == {e \in Entries : \E q \in Queues : \E i \in 1 .. Len(order[q]) : order[q][i] = e}
Holding == {x \in Threads : pc[x] \in {"enq", "cashead"}}

(* An entry is in one place. *)
Once ==
  /\ \A q, r \in Queues : \A i \in 1 .. Len(order[q]), j \in 1 .. Len(order[r]) :
       order[q][i] = order[r][j] => q = r /\ i = j
  /\ \A q \in Queues : \A i \in 1 .. Len(order[q]) : order[q][i] \notin fresh

(* What a thread has in hand is in no queue and in no other hand. *)
InHand ==
  /\ \A x \in Holding : hand[x] \in Entries /\ hand[x] \notin fresh /\ hand[x] \notin Queued
  /\ \A x, y \in Holding : hand[x] = hand[y] => x = y
  /\ \A x \in Threads : pc[x] \notin {"enq", "cashead", "link"} => hand[x] = nil
  /\ \A x \in Threads : pc[x] = "cashead" => first[x] = hand[x]

(* The allocator of an entry is the queue of the producer that allocated it. *)
Allocated == \A e \in Entries \ fresh : allocator[e] \in Producers

(* An enqueue that has exchanged the tail and has not linked its entry: it   *)
(* is in the queue, and its predecessor is the entry in front of it.         *)
Links ==
  /\ \A y \in Threads : pc[y] = "link" =>
       /\ To(y) \in Queues
       /\ \E i \in 1 .. Len(order[To(y)]) :
            /\ hand[y] = order[To(y)][i]
            /\ pred[y] = IF i = 1 THEN nil ELSE order[To(y)][i - 1]
  /\ \A x, y \in Threads : pc[x] = "link" /\ pc[y] = "link" /\ hand[x] = hand[y] => x = y

(* The entries that are in a queue and that nothing points to.              *)
Unlinked == {hand[y] : y \in {z \in Threads : pc[z] = "link"}}

(* The thread that dequeues from q, and the entry that it has taken and has *)
(* yet to remove from the head, as the last one of its queue.               *)
Owner(q) == IF q = main THEN consumer ELSE q
Behind(q) == IF pc[Owner(q)] = "cashead" THEN first[Owner(q)] ELSE nil

(* The tail is the last entry; an entry points to the next one, and the head *)
(* to the first one, once they are linked.                                  *)
Tails == \A q \in Queues : tail[q] = IF Len(order[q]) = 0 THEN nil ELSE order[q][Len(order[q])]
Nexts ==
  \A q \in Queues : \A i \in 1 .. Len(order[q]) :
    next[order[q][i]] = IF i = Len(order[q]) \/ order[q][i + 1] \in Unlinked THEN nil ELSE order[q][i + 1]
Heads ==
  \A q \in Queues :
    head[q] = IF Len(order[q]) = 0 \/ order[q][1] \in Unlinked THEN Behind(q) ELSE order[q][1]

(* What a dequeue has read as the head is still the first entry.            *)
Firsts ==
  \A x \in Threads : pc[x] \in {"next", "castail"} =>
    Len(order[From(x)]) # 0 /\ first[x] = order[From(x)][1] /\ first[x] \notin Unlinked

(* While no enqueue overlaps a dequeue, the list is whole, and what the     *)
(* dequeue has seen of it is still so.                                      *)
Solo ==
  \A x \in Threads : solo[x] =>
    /\ \A y \in Threads : ~(pc[y] = "link" /\ To(y) = From(x))
    /\ pc[x] = "castail" => Len(order[From(x)]) = 1
    /\ pc[x] = "null" => Len(order[From(x)]) = 0

IInv == TypeOK /\ Once /\ InHand /\ Allocated /\ Links /\ Tails /\ Nexts /\ Heads /\ Firsts /\ Solo
-----------------------------------------------------------------------------
(* A queue has one thread that dequeues from it.                            *)
LEMMA Names ==
  ASSUME Parameters
  PROVE  /\ \A x \in Threads : From(x) \in Queues /\ Owner(From(x)) = x
         /\ \A q \in Queues : Owner(q) \in Threads /\ From(Owner(q)) = q
BY DEF Parameters, From, Owner, Threads, Queues

(* What is in a queue.                                                      *)
LEMMA OrderType ==
  ASSUME IInv, NEW q \in Queues
  PROVE  /\ order[q] \in Seq(Entries) /\ Len(order[q]) \in Nat
         /\ \A i \in 1 .. Len(order[q]) : order[q][i] \in Entries
BY SMT DEF IInv, TypeOK

(* At first all queues are empty.                                           *)
LEMMA IInvInit == ASSUME Parameters, Init PROVE IInv
<1>1. \A q \in Queues : order[q] = <<>> /\ Len(order[q]) = 0
  BY DEF Init
<1>2. TypeOK
  BY SMT DEF Init, TypeOK, Pointers, Places
<1>3. Once /\ Tails /\ Nexts
  BY <1>1, SMT DEF Init, Once, Tails, Nexts
<1>4. InHand /\ Links /\ Firsts /\ Solo
  BY DEF Init, InHand, Holding, Links, Firsts, Solo
<1>5. Allocated
  BY DEF Init, Allocated
<1>6. Heads
  BY <1>1, Names DEF Init, Heads, Behind
<1> QED
  BY <1>2, <1>3, <1>4, <1>5, <1>6 DEF IInv

(* The entries that are not linked are those of enqueues on their way. *)
LEMMA SameLinks ==
  ASSUME \A y \in Threads : /\ pc'[y] = "link" <=> pc[y] = "link"
                            /\ pc[y] = "link" => hand'[y] = hand[y]
  PROVE  Unlinked' = Unlinked
BY DEF Unlinked

(* A step that moves no entry of an enqueue on its way keeps Links. *)
LEMMA LinksKeep ==
  ASSUME IInv, order' = order,
         \A y \in Threads : pc'[y] = "link" =>
           pc[y] = "link" /\ hand'[y] = hand[y] /\ pred'[y] = pred[y] /\ To(y)' = To(y)
  PROVE  Links'
<1>1. ASSUME NEW y \in Threads, pc'[y] = "link"
      PROVE  /\ To(y)' \in Queues
             /\ \E i \in 1 .. Len(order'[To(y)']) :
                  /\ hand'[y] = order'[To(y)'][i]
                  /\ pred'[y] = IF i = 1 THEN nil ELSE order'[To(y)'][i - 1]
  <2>1. pc[y] = "link" /\ hand'[y] = hand[y] /\ pred'[y] = pred[y] /\ To(y)' = To(y)
    BY <1>1
  <2>2. PICK r \in Queues : r = To(y)
    BY <2>1 DEF IInv, Links
  <2>3. PICK i \in 1 .. Len(order[r]) :
          hand[y] = order[r][i] /\ pred[y] = IF i = 1 THEN nil ELSE order[r][i - 1]
    BY <2>1, <2>2 DEF IInv, Links
  <2> QED
    BY <2>1, <2>2, <2>3
<1>2. \A x, y \in Threads : pc'[x] = "link" /\ pc'[y] = "link" /\ hand'[x] = hand'[y] => x = y
  BY DEF IInv, Links
<1> QED
  BY <1>1, <1>2 DEF Links

(* An entry in q that is not linked belongs to an enqueue into q. *)
LEMMA LinkerOf ==
  ASSUME IInv, NEW q \in Queues, NEW i \in 1 .. Len(order[q]), order[q][i] \in Unlinked
  PROVE  \E y \in Threads : /\ pc[y] = "link" /\ To(y) = q /\ hand[y] = order[q][i]
                            /\ pred[y] = IF i = 1 THEN nil ELSE order[q][i - 1]
<1>1. PICK y \in Threads : pc[y] = "link" /\ hand[y] = order[q][i]
  BY DEF Unlinked
<1>2. PICK r \in Queues : r = To(y)
  BY <1>1 DEF IInv, Links
<1>3. PICK j \in 1 .. Len(order[r]) : /\ hand[y] = order[r][j]
                                      /\ pred[y] = IF j = 1 THEN nil ELSE order[r][j - 1]
  BY <1>1, <1>2 DEF IInv, Links
<1>4. r = q /\ j = i
  <2>1. order[r][j] = order[q][i]
    BY <1>1, <1>3
  <2> QED
    BY <2>1, SMT DEF IInv, Once
<1> QED
  BY <1>1, <1>2, <1>3, <1>4

-----------------------------------------------------------------------------
(* The steps of dequeue that find nothing, or have found nothing yet: only   *)
(* the thread's own variables change.                                        *)
LEMMA LookKeeps ==
  ASSUME Parameters, IInv, NEW x \in Threads, NEW q \in Queues, q = From(x),
         NEW l \in {"head", "next", "castail", "null"}, NEW f \in Pointers, NEW b \in BOOLEAN,
         pc[x] \in {"head", "next", "castail", "null"},
         pc' = [pc EXCEPT ![x] = l], first' = [first EXCEPT ![x] = f],
         solo' = [solo EXCEPT ![x] = b],
         UNCHANGED <<head, tail, next, allocator, pred, hand, fresh, order>>,
         l \in {"next", "castail"} => Len(order[q]) # 0 /\ f = order[q][1] /\ f \notin Unlinked,
         b => /\ \A y \in Threads : ~(pc[y] = "link" /\ To(y) = q)
              /\ l = "castail" => Len(order[q]) = 1
              /\ l = "null" => Len(order[q]) = 0
  PROVE  IInv'
<1>1. /\ pc'[x] = l /\ first'[x] = f /\ solo'[x] = b
      /\ \A y \in Threads \ {x} : pc'[y] = pc[y] /\ first'[y] = first[y] /\ solo'[y] = solo[y]
  BY DEF IInv, TypeOK
<1>2. TypeOK'
  BY DEF IInv, TypeOK, Places
<1>3. /\ Unlinked' = Unlinked
      /\ \A y \in Threads : pc'[y] = "link" <=> pc[y] = "link"
  <2>1. \A y \in Threads : pc'[y] = "link" <=> pc[y] = "link"
    BY <1>1
  <2> QED
    BY <2>1, SameLinks
<1>4. \A y \in Threads : To(y)' = To(y)
  BY DEF To
<1>5. Once' /\ Tails' /\ Allocated'
  BY SMT DEF IInv, Once, Tails, Allocated
<1>6. Nexts'
  BY <1>3 DEF IInv, Nexts
<1>7. InHand'
  <2>1. Holding' = Holding
    BY <1>1 DEF Holding
  <2>2. Queued' = Queued
    BY DEF Queued
  <2> QED
    BY <1>1, <2>1, <2>2 DEF IInv, InHand
<1>8. Links'
  BY <1>3, <1>4, SMT DEF IInv, Links
<1>9. Heads'
  <2>1. \A r \in Queues : Behind(r)' = Behind(r)
    BY <1>1, Names DEF Behind, Owner
  <2> QED
    BY <1>3, <2>1 DEF IInv, Heads
<1>10. Firsts'
  BY <1>1, <1>3, SMT DEF IInv, Firsts, From
<1>11. Solo'
  BY <1>1, <1>3, <1>4, SMT DEF IInv, Solo, From
<1> QED
  BY <1>2, <1>5, <1>6, <1>7, <1>8, <1>9, <1>10, <1>11 DEF IInv
(* dequeue reads the head.                                                  *)
LEMMA DeqHeadKeeps == ASSUME Parameters, IInv, NEW x \in Threads, DeqHead(x) PROVE IInv'
<1>0. PICK q \in Queues : q = From(x)
  BY Names
<1>1. PICK f \in Pointers : f = head[q]
  BY DEF IInv, TypeOK
<1>2. PICK b \in BOOLEAN : b = \A y \in Threads : ~Linking(y, q, hand[y])
  OBVIOUS
<1>3. /\ pc[x] = "head" /\ first' = [first EXCEPT ![x] = f] /\ solo' = [solo EXCEPT ![x] = b]
      /\ UNCHANGED <<head, tail, next, allocator, pred, hand, fresh, order>>
  BY <1>0, <1>1, <1>2 DEF DeqHead
<1>4. b => \A y \in Threads : ~(pc[y] = "link" /\ To(y) = q)
  BY <1>2 DEF Linking
<1>5. f = IF Len(order[q]) = 0 \/ order[q][1] \in Unlinked THEN nil ELSE order[q][1]
  BY <1>0, <1>1, <1>3, Names DEF IInv, Heads, Behind
<1>6. Len(order[q]) \in Nat /\ (Len(order[q]) # 0 => 1 \in 1 .. Len(order[q]) /\ order[q][1] \in Entries)
  BY OrderType, SMT
<1>7. CASE f = nil
  <2>1. pc' = [pc EXCEPT ![x] = "null"]
    BY <1>0, <1>1, <1>7 DEF DeqHead, ReturnNull, Goto
  <2>2. b => Len(order[q]) = 0
    <3> SUFFICES ASSUME b, Len(order[q]) # 0 PROVE FALSE
      OBVIOUS
    <3>1. order[q][1] \in Unlinked
      BY <1>5, <1>6, <1>7 DEF Parameters
    <3> QED
      BY <1>4, <1>6, <3>1, LinkerOf
  <2> QED
    BY <1>0, <1>3, <1>4, <2>1, <2>2, LookKeeps
<1>8. CASE f # nil
  <2>1. pc' = [pc EXCEPT ![x] = "next"]
    BY <1>0, <1>1, <1>8 DEF DeqHead, Goto
  <2>2. Len(order[q]) # 0 /\ f = order[q][1] /\ f \notin Unlinked
    BY <1>5, <1>8
  <2> QED
    BY <1>0, <1>3, <1>4, <2>1, <2>2, LookKeeps
<1> QED
  BY <1>7, <1>8

(* A dequeue past the head is at the first entry; the entry behind it, if it *)
(* sees one, is linked.                                                     *)
LEMMA FirstOf ==
  ASSUME Parameters, IInv, NEW x \in Threads, NEW q \in Queues, q = From(x),
         pc[x] \in {"next", "castail"}
  PROVE  /\ Len(order[q]) \in Nat \ {0} /\ first[x] = order[q][1] /\ first[x] \notin Unlinked
         /\ first[x] \in Entries /\ head[q] = first[x]
         /\ next[first[x]] # nil =>
              Len(order[q]) > 1 /\ next[first[x]] = order[q][2] /\ order[q][2] \notin Unlinked
         /\ next[first[x]] = nil => Len(order[q]) = 1 \/ order[q][2] \in Unlinked
         /\ tail[q] = first[x] <=> Len(order[q]) = 1
<1>1. Len(order[q]) \in Nat \ {0} /\ first[x] = order[q][1] /\ first[x] \notin Unlinked
  BY OrderType DEF IInv, Firsts
<1>2. first[x] \in Entries /\ head[q] = first[x]
  BY <1>1, OrderType, SMT DEF IInv, Heads
<1>0. 1 \in 1 .. Len(order[q]) /\ Len(order[q]) \in 1 .. Len(order[q]) /\ 1 + 1 = 2
  BY <1>1, SMT
<1>3. next[first[x]] = IF 1 = Len(order[q]) \/ order[q][2] \in Unlinked THEN nil ELSE order[q][2]
  <2>1. next[order[q][1]] = IF 1 = Len(order[q]) \/ order[q][1 + 1] \in Unlinked THEN nil ELSE order[q][1 + 1]
    BY <1>0 DEF IInv, Nexts
  <2> QED
    BY <1>0, <1>1, <2>1
<1>4. Len(order[q]) > 1 => order[q][2] \in Entries
  BY <1>1, OrderType, SMT
<1>5. tail[q] = order[q][Len(order[q])]
  BY <1>1 DEF IInv, Tails
<1>6. order[q][Len(order[q])] = order[q][1] => Len(order[q]) = 1
  <2>1. \A i, j \in 1 .. Len(order[q]) : order[q][i] = order[q][j] => i = j
    BY SMT DEF IInv, Once
  <2> QED
    BY <1>0, <2>1
<1> QED
  BY <1>1, <1>2, <1>3, <1>4, <1>5, <1>6, SMT DEF Parameters

(* dequeue finds that the next entry is not linked yet, or starts again.    *)
LEMMA NothingKeeps ==
  ASSUME Parameters, IInv, NEW x \in Threads,
         \/ DeqNext(x) /\ next[first[x]] = nil
         \/ DeqCasTail(x) /\ tail[From(x)] # first[x]
         \/ Retry(x)
  PROVE  IInv'
<1>0. PICK q \in Queues : q = From(x)
  BY Names
<1>1. PICK f \in Pointers : f = first[x]
  BY DEF IInv, TypeOK
<1>2. PICK b \in BOOLEAN : b = solo[x]
  BY DEF IInv, TypeOK
<1>3. nil \in Pointers
  BY DEF Pointers
<1>4. first = [first EXCEPT ![x] = f] /\ solo = [solo EXCEPT ![x] = b]
  BY <1>1, <1>2 DEF IInv, TypeOK
<1>5. b => \A y \in Threads : ~(pc[y] = "link" /\ To(y) = q)
  BY <1>0, <1>2 DEF IInv, Solo
<1>6. CASE DeqNext(x) /\ next[first[x]] = nil
  <2>1. /\ pc[x] = "next" /\ pc' = [pc EXCEPT ![x] = "castail"]
        /\ first' = [first EXCEPT ![x] = f] /\ solo' = [solo EXCEPT ![x] = b]
        /\ UNCHANGED <<head, tail, next, allocator, pred, hand, fresh, order>>
    BY <1>4, <1>6 DEF DeqNext, Goto
  <2>2. Len(order[q]) # 0 /\ f = order[q][1] /\ f \notin Unlinked
    BY <1>0, <1>1, <2>1, FirstOf
  <2>3. b => Len(order[q]) = 1
    <3>1. Len(order[q]) = 1 \/ (Len(order[q]) \in Nat \ {0, 1} /\ order[q][2] \in Unlinked)
      BY <1>0, <1>6, <2>1, FirstOf
    <3>2. ASSUME Len(order[q]) \in Nat \ {0, 1}, order[q][2] \in Unlinked
          PROVE  \E y \in Threads : pc[y] = "link" /\ To(y) = q
      <4>1. 2 \in 1 .. Len(order[q])
        <5>1. \A n \in Nat \ {0, 1} : 2 \in 1 .. n
          BY SMT
        <5> QED
          BY <3>2, <5>1, Zenon
      <4> QED
        BY <3>2, <4>1, LinkerOf
    <3> QED
      BY <1>5, <3>1, <3>2
  <2> QED
    BY <1>0, <1>5, <2>1, <2>2, <2>3, LookKeeps
<1>7. CASE DeqCasTail(x) /\ tail[From(x)] # first[x]
  <2>1. /\ pc[x] = "castail" /\ pc' = [pc EXCEPT ![x] = "null"]
        /\ first' = [first EXCEPT ![x] = nil] /\ solo' = [solo EXCEPT ![x] = b]
        /\ UNCHANGED <<head, tail, next, allocator, pred, hand, fresh, order>>
    BY <1>4, <1>7 DEF DeqCasTail, ReturnNull, Goto
  <2>2. ~b
    <3>1. Len(order[q]) # 1
      BY <1>0, <1>7, <2>1, FirstOf
    <3> QED
      BY <1>0, <1>2, <2>1, <3>1 DEF IInv, Solo
  <2> QED
    BY <1>0, <1>3, <2>1, <2>2, LookKeeps
<1>8. CASE Retry(x)
  <2>1. /\ pc[x] = "null" /\ pc' = [pc EXCEPT ![x] = "head"]
        /\ first' = [first EXCEPT ![x] = f] /\ solo' = [solo EXCEPT ![x] = b]
        /\ UNCHANGED <<head, tail, next, allocator, pred, hand, fresh, order>>
    BY <1>4, <1>8 DEF Retry, Goto
  <2> QED
    BY <1>0, <1>5, <2>1, LookKeeps
<1> QED
  BY <1>6, <1>7, <1>8
-----------------------------------------------------------------------------
(* What the first entry of a queue that leaves does to the history. *)
LEMMA TailOf ==
  ASSUME IInv, NEW q \in Queues, Len(order[q]) # 0, order' = [order EXCEPT ![q] = Tail(@)]
  PROVE  /\ order' \in [Queues -> Seq(Entries)]
         /\ \A r \in Queues \ {q} : order'[r] = order[r]
         /\ Len(order'[q]) = Len(order[q]) - 1 /\ Len(order[q]) \in Nat \ {0}
         /\ \A i \in 1 .. Len(order[q]) - 1 : order'[q][i] = order[q][i + 1]
<1>1. order[q] \in Seq(Entries) /\ order[q] # <<>> /\ order \in [Queues -> Seq(Entries)]
  BY SMT DEF IInv, TypeOK
<1>2. /\ Tail(order[q]) \in Seq(Entries) /\ Len(Tail(order[q])) = Len(order[q]) - 1
      /\ \A i \in 1 .. Len(order[q]) - 1 : Tail(order[q])[i] = order[q][i + 1]
      /\ Len(order[q]) \in Nat \ {0}
  BY <1>1, SMT
<1> QED
  BY <1>1, <1>2

(* A place in the queues after the step was a place before, and not the first *)
(* one of q.                                                                *)
LEMMA Shifted ==
  ASSUME IInv, NEW q \in Queues, Len(order[q]) # 0, order' = [order EXCEPT ![q] = Tail(@)],
         NEW r \in Queues, NEW i \in 1 .. Len(order'[r])
  PROVE  \E j \in 1 .. Len(order[r]) :
           /\ order'[r][i] = order[r][j]
           /\ j = IF r = q THEN i + 1 ELSE i
           /\ i = Len(order'[r]) <=> j = Len(order[r])
           /\ i # Len(order'[r]) => order'[r][i + 1] = order[r][j + 1]
<1>1. CASE r = q
  <2>1. PICK n \in Nat \ {0} : n = Len(order[q]) /\ n - 1 = Len(order'[q])
    BY TailOf
  <2>2. i \in 1 .. n - 1
    BY <1>1, <2>1
  <2>3. i + 1 \in 1 .. n /\ (i = n - 1 <=> i + 1 = n) /\ (i # n - 1 => i + 1 \in 1 .. n - 1)
    BY <2>2, SMT
  <2>4. \A k \in 1 .. n - 1 : order'[q][k] = order[q][k + 1]
    BY <2>1, TailOf
  <2> QED
    BY <1>1, <2>1, <2>2, <2>3, <2>4
<1>2. CASE r # q
  BY <1>2, TailOf
<1> QED
  BY <1>1, <1>2
(* dequeue returns the first entry of the queue; another one may be left *)
(* (DeqNext) or not (DeqCasTail).                                        *)
LEMMA TakeKeeps ==
  ASSUME Parameters, IInv, NEW x \in Threads, NEW q \in Queues, q = From(x),
         \/ DeqNext(x) /\ next[first[x]] # nil
         \/ DeqCasTail(x) /\ tail[q] = first[x]
  PROVE  IInv'
<1>1. /\ pc[x] \in {"next", "castail"} /\ order' = [order EXCEPT ![q] = Tail(@)]
      /\ hand' = [hand EXCEPT ![x] = first[x]]
      /\ UNCHANGED <<next, allocator, pred, fresh, solo>>
  BY DEF DeqNext, DeqCasTail, Return
<1>0. pc[x] \in {"next", "castail"} /\ UNCHANGED <<next, allocator, pred, fresh, solo>>
  BY <1>1
<1>2. PICK f \in Entries : f = first[x]
  BY <1>1, FirstOf
<1>3. /\ Len(order[q]) \in Nat \ {0} /\ f = order[q][1] /\ f \notin Unlinked /\ head[q] = f
      /\ 1 \in 1 .. Len(order[q]) /\ Len(order[q]) \in 1 .. Len(order[q])
  BY <1>1, <1>2, FirstOf, SMT
<1>4. \/ /\ pc' = [pc EXCEPT ![x] = "enq"] /\ first' = [first EXCEPT ![x] = nil] /\ tail' = tail
         /\ head' = [head EXCEPT ![q] = order[q][2]]
         /\ Len(order[q]) > 1 /\ order[q][2] \in Entries /\ order[q][2] \notin Unlinked
      \/ /\ pc' = [pc EXCEPT ![x] = "cashead"] /\ first' = first /\ head' = head
         /\ tail' = [tail EXCEPT ![q] = nil]
         /\ Len(order[q]) = 1
  <2>1. CASE DeqNext(x) /\ next[first[x]] # nil
    <3>1. /\ Len(order[q]) > 1 /\ next[first[x]] = order[q][2] /\ order[q][2] \notin Unlinked
      BY <1>1, <2>1, FirstOf
    <3>2. order[q][2] \in Entries
      BY <1>3, <3>1, OrderType, SMT
    <3> QED
      BY <2>1, <3>1, <3>2 DEF DeqNext, Goto
  <2>2. CASE DeqCasTail(x) /\ tail[q] = first[x]
    <3>1. Len(order[q]) = 1
      BY <1>1, <2>2, FirstOf
    <3> QED
      BY <2>2, <3>1 DEF DeqCasTail, Goto
  <2> QED
    BY <2>1, <2>2
<1>5. /\ pc'[x] \in {"enq", "cashead"} /\ hand'[x] = f /\ pc' \in [Threads -> Places]
      /\ \A y \in Threads \ {x} : pc'[y] = pc[y] /\ first'[y] = first[y] /\ hand'[y] = hand[y]
      /\ \A r \in Queues \ {q} : head'[r] = head[r] /\ tail'[r] = tail[r]
  BY <1>1, <1>2, <1>4 DEF IInv, TypeOK, Places
<1>5a. \/ /\ pc'[x] = "enq" /\ head'[q] = order[q][2] /\ tail'[q] = tail[q]
          /\ Len(order[q]) > 1 /\ order[q][2] \notin Unlinked
       \/ /\ pc'[x] = "cashead" /\ first'[x] = f /\ head'[q] = f /\ tail'[q] = nil
          /\ Len(order[q]) = 1
  <2>1. /\ pc \in [Threads -> Places] /\ head \in [Queues -> Pointers] /\ tail \in [Queues -> Pointers]
    BY DEF IInv, TypeOK
  <2> QED
    BY <1>2, <1>3, <1>4, <2>1
<1>6. /\ order' \in [Queues -> Seq(Entries)]
      /\ \A r \in Queues \ {q} : order'[r] = order[r]
      /\ Len(order'[q]) = Len(order[q]) - 1
      /\ \A i \in 1 .. Len(order[q]) - 1 : order'[q][i] = order[q][i + 1]
  BY <1>1, <1>3, TailOf
<1>7. TypeOK'
  BY <1>1, <1>2, <1>4, <1>5, <1>6 DEF IInv, TypeOK, Pointers
<1>8. /\ Unlinked' = Unlinked
      /\ \A y \in Threads : pc'[y] = "link" <=> pc[y] = "link"
  <2>1. \A y \in Threads : /\ pc'[y] = "link" <=> pc[y] = "link"
                           /\ pc[y] = "link" => hand'[y] = hand[y]
    BY <1>0, <1>5
  <2> QED
    BY <2>1, SameLinks
<1>9. \A y \in Threads : pc[y] = "link" => y # x /\ To(y)' = To(y)
  BY <1>0, <1>5 DEF To
<1>10. \A r \in Queues : \A i \in 1 .. Len(order'[r]) :
        \E j \in 1 .. Len(order[r]) :
           /\ order'[r][i] = order[r][j]
           /\ j = IF r = q THEN i + 1 ELSE i
           /\ i = Len(order'[r]) <=> j = Len(order[r])
           /\ i # Len(order'[r]) => order'[r][i + 1] = order[r][j + 1]
  BY <1>1, <1>3, Shifted
<1>11. \A r \in Queues : \A i \in 1 .. Len(order'[r]) : order'[r][i] # f /\ order'[r][i] \notin fresh
  <2> SUFFICES ASSUME NEW r \in Queues, NEW i \in 1 .. Len(order'[r])
               PROVE  order'[r][i] # f /\ order'[r][i] \notin fresh
    OBVIOUS
  <2>1. PICK j \in 1 .. Len(order[r]) : order'[r][i] = order[r][j] /\ (r = q => j = i + 1)
    BY <1>10
  <2>2. ~(r = q /\ j = 1)
    BY <2>1, SMT
  <2> QED
    BY <1>3, <2>1, <2>2, SMT DEF IInv, Once
<1>12. Once'
  <2>1. \A r, s \in Queues : \A i \in 1 .. Len(order'[r]), k \in 1 .. Len(order'[s]) :
          order'[r][i] = order'[s][k] => r = s /\ i = k
    <3> SUFFICES ASSUME NEW r \in Queues, NEW s \in Queues, NEW i \in 1 .. Len(order'[r]),
                        NEW k \in 1 .. Len(order'[s]), order'[r][i] = order'[s][k]
                 PROVE  r = s /\ i = k
      OBVIOUS
    <3>1. PICK j \in 1 .. Len(order[r]) : order'[r][i] = order[r][j] /\ j = IF r = q THEN i + 1 ELSE i
      BY <1>10
    <3>2. PICK l \in 1 .. Len(order[s]) : order'[s][k] = order[s][l] /\ l = IF s = q THEN k + 1 ELSE k
      BY <1>10
    <3>3. r = s /\ j = l
      <4>1. order[r][j] = order[s][l]
        BY <3>1, <3>2
      <4> QED
        BY <4>1, SMT DEF IInv, Once
    <3> QED
      BY <3>1, <3>2, <3>3, SMT
  <2>2. \A r \in Queues : \A i \in 1 .. Len(order'[r]) : order'[r][i] \notin fresh'
    BY <1>0, <1>11
  <2> QED
    BY <2>1, <2>2 DEF Once
<1>13. f \notin fresh /\ f \in Queued /\ x \notin Holding
  BY <1>0, <1>3, SMT DEF IInv, Once, Queued, Holding
<1>14. InHand'
  <2>1. ASSUME NEW e \in Queued' PROVE e \in Queued /\ e # f
    <3>0. PICK r \in Queues : \E i \in 1 .. Len(order'[r]) : order'[r][i] = e
      BY DEF Queued
    <3>1. PICK i \in 1 .. Len(order'[r]) : order'[r][i] = e
      BY <3>0
    <3>2. PICK j \in 1 .. Len(order[r]) : order[r][j] = e
      BY <1>10, <3>1
    <3> QED
      BY <1>11, <3>1, <3>2 DEF Queued
  <2>2. Holding' = Holding \cup {x}
    BY <1>5 DEF Holding
  <2>3. \A y \in Holding : y # x /\ y \in Threads /\ hand'[y] = hand[y] /\ hand[y] # f
    BY <1>5, <1>13 DEF IInv, InHand, Holding
  <2>4. \A y \in Holding' : hand'[y] \in Entries /\ hand'[y] \notin fresh' /\ hand'[y] \notin Queued'
    BY <1>0, <1>5, <1>13, <2>1, <2>2, <2>3 DEF IInv, InHand
  <2>5. \A y, z \in Holding' : hand'[y] = hand'[z] => y = z
    <3>1. \A y, z \in Holding : hand[y] = hand[z] => y = z
      BY DEF IInv, InHand
    <3>2. hand'[x] = f
      BY <1>5
    <3> QED
      BY <2>2, <2>3, <3>1, <3>2, SMT
  <2>6. \A y \in Threads : /\ pc'[y] \notin {"enq", "cashead", "link"} => hand'[y] = nil
                           /\ pc'[y] = "cashead" => first'[y] = hand'[y]
    BY <1>5, <1>5a, SMT DEF IInv, InHand
  <2> QED
    BY <2>4, <2>5, <2>6 DEF InHand
<1>15. Allocated'
  BY <1>0 DEF IInv, Allocated
<1>16. Links'
  <2>1. ASSUME NEW y \in Threads, pc[y] = "link", NEW r \in Queues, r = To(y)
        PROVE  \E i \in 1 .. Len(order'[r]) :
                 /\ hand[y] = order'[r][i]
                 /\ pred[y] = IF i = 1 THEN nil ELSE order'[r][i - 1]
    <3>1. PICK j \in 1 .. Len(order[r]) :
            hand[y] = order[r][j] /\ pred[y] = IF j = 1 THEN nil ELSE order[r][j - 1]
      BY <2>1 DEF IInv, Links
    <3>2. order[r][j] \in Unlinked
      BY <2>1, <3>1 DEF Unlinked
    <3>3. CASE r # q
      BY <1>6, <3>1, <3>3
    <3>4. CASE r = q
      <4>1. PICK n \in Nat \ {0} : n = Len(order[q]) /\ Len(order'[q]) = n - 1
        BY <1>3, <1>6
      <4>2. j # 1 /\ j # 2
        BY <1>3, <1>5a, <3>2, <3>4, SMT
      <4>3. j \in 3 .. n
        BY <3>4, <4>1, <4>2, SMT
      <4>4. \A i \in 1 .. n - 1 : order'[q][i] = order[q][i + 1]
        BY <1>6, <4>1
      <4>5. /\ j - 1 \in 1 .. n - 1 /\ j - 2 \in 1 .. n - 1 /\ j - 1 # 1 /\ j - 1 - 1 = j - 2
            /\ (j - 1) + 1 = j /\ (j - 2) + 1 = j - 1
        BY <4>3, SMT
      <4>6. order'[q][j - 1] = order[q][j] /\ order'[q][j - 2] = order[q][j - 1]
        BY <4>4, <4>5
      <4> QED
        BY <3>1, <3>4, <4>1, <4>2, <4>5, <4>6
    <3> QED
      BY <3>3, <3>4
  <2>2. ASSUME NEW y \in Threads, pc'[y] = "link"
        PROVE  /\ To(y)' \in Queues
               /\ \E i \in 1 .. Len(order'[To(y)']) :
                    /\ hand'[y] = order'[To(y)'][i]
                    /\ pred'[y] = IF i = 1 THEN nil ELSE order'[To(y)'][i - 1]
    <3>1. pc[y] = "link" /\ y # x /\ To(y)' = To(y) /\ hand'[y] = hand[y] /\ pred'[y] = pred[y]
      BY <1>0, <1>5, <1>8, <1>9, <2>2
    <3>2. To(y) \in Queues
      BY <3>1 DEF IInv, Links
    <3> QED
      BY <2>1, <3>1, <3>2, SMT
  <2>3. \A y, z \in Threads : pc'[y] = "link" /\ pc'[z] = "link" /\ hand'[y] = hand'[z] => y = z
    BY <1>5, <1>8, <1>9, SMT DEF IInv, Links
  <2> QED
    BY <2>2, <2>3 DEF Links
<1>17. Tails'
  <2>1. tail'[q] = IF Len(order'[q]) = 0 THEN nil ELSE order'[q][Len(order'[q])]
    <3>0. PICK n \in Nat \ {0} : n = Len(order[q]) /\ Len(order'[q]) = n - 1
      BY <1>3, <1>6
    <3>1. CASE n = 1
      BY <1>5a, <3>0, <3>1, SMT
    <3>2. CASE n # 1
      <4>1. n - 1 \in 1 .. n - 1 /\ n - 1 + 1 = n /\ n - 1 # 0 /\ n # 0
        BY <3>2, SMT
      <4>2. order'[q][n - 1] = order[q][n]
        BY <1>6, <3>0, <4>1
      <4>3. tail'[q] = tail[q] /\ tail[q] = order[q][n]
        BY <1>5a, <3>0, <3>2, <4>1 DEF IInv, Tails
      <4> QED
        BY <3>0, <4>1, <4>2, <4>3
    <3> QED
      BY <3>1, <3>2
  <2> QED
    BY <1>5, <1>6, <2>1 DEF IInv, Tails
<1>18. Nexts'
  <2> SUFFICES ASSUME NEW r \in Queues, NEW i \in 1 .. Len(order'[r])
               PROVE  next[order'[r][i]] = IF i = Len(order'[r]) \/ order'[r][i + 1] \in Unlinked
                                           THEN nil ELSE order'[r][i + 1]
    BY <1>0, <1>8 DEF Nexts
  <2>1. PICK j \in 1 .. Len(order[r]) :
           /\ order'[r][i] = order[r][j]
           /\ i = Len(order'[r]) <=> j = Len(order[r])
           /\ i # Len(order'[r]) => order'[r][i + 1] = order[r][j + 1]
    BY <1>10
  <2>2. next[order[r][j]] = IF j = Len(order[r]) \/ order[r][j + 1] \in Unlinked THEN nil ELSE order[r][j + 1]
    BY DEF IInv, Nexts
  <2> QED
    BY <2>1, <2>2
<1>19. Heads'
  <2>1. ASSUME NEW r \in Queues \ {q} PROVE Behind(r)' = Behind(r)
    <3>1. Owner(r) \in Threads \ {x}
      BY Names
    <3> QED
      BY <1>5, <3>1, SMT DEF Behind, Owner
  <2>2. head'[q] = IF Len(order'[q]) = 0 \/ order'[q][1] \in Unlinked THEN Behind(q)' ELSE order'[q][1]
    <3>1. CASE Len(order[q]) = 1
      <4>1. Len(order'[q]) = 0
        BY <1>6, <3>1, SMT
      <4>2. Owner(q) = x /\ pc'[x] = "cashead" /\ first'[x] = f /\ head'[q] = f
        BY <1>5a, <3>1, Names, SMT
      <4>3. Behind(q)' = f
        BY <4>2 DEF Behind, Owner
      <4> QED
        BY <4>1, <4>2, <4>3
    <3>2. CASE Len(order[q]) > 1
      <4>1. Len(order'[q]) # 0 /\ 1 \in 1 .. Len(order[q]) - 1 /\ 1 + 1 = 2
        <5>1. PICK n \in Nat : n = Len(order[q]) /\ Len(order'[q]) = n - 1 /\ n > 1
          BY <1>3, <1>6, <3>2
        <5>2. \A m \in Nat : m > 1 => m - 1 # 0 /\ 1 \in 1 .. m - 1
          BY SMT
        <5>3. 1 + 1 = 2
          BY SMT
        <5> QED
          BY <5>1, <5>2, <5>3, Zenon
      <4>2. order'[q][1] = order[q][2]
        BY <1>6, <4>1
      <4>3. head'[q] = order[q][2] /\ order[q][2] \notin Unlinked
        BY <1>5a, <3>2, SMT
      <4> QED
        BY <4>1, <4>2, <4>3
    <3> QED
      BY <1>5a, <3>1, <3>2
  <2>3. ASSUME NEW r \in Queues \ {q}
        PROVE  head'[r] = IF Len(order'[r]) = 0 \/ order'[r][1] \in Unlinked THEN Behind(r)' ELSE order'[r][1]
    BY <1>5, <1>6, <2>1, SMT DEF IInv, Heads
  <2>4. \A r \in Queues :
          head'[r] = IF Len(order'[r]) = 0 \/ order'[r][1] \in Unlinked' THEN Behind(r)' ELSE order'[r][1]
    BY <1>8, <2>2, <2>3
  <2> QED
    BY <2>4 DEF Heads
<1>20. \A y \in Threads \ {x} : From(y) \in Queues \ {q}
  BY Names
<1>21. Firsts'
  BY <1>5, <1>6, <1>8, <1>20, SMT DEF IInv, Firsts, From
<1>22. Solo'
  BY <1>0, <1>5, <1>6, <1>8, <1>9, <1>20, SMT DEF IInv, Solo, From
<1> QED
  BY <1>7, <1>12, <1>14, <1>15, <1>16, <1>17, <1>18, <1>19, <1>21, <1>22 DEF IInv
(* dequeue gives up the head it has left behind. *)
LEMMA DeqCasHeadKeeps == ASSUME Parameters, IInv, NEW x \in Threads, DeqCasHead(x) PROVE IInv'
<1>0. PICK q \in Queues : q = From(x)
  BY Names
<1>1. /\ pc[x] = "cashead" /\ pc'[x] = "enq"
      /\ \A y \in Threads \ {x} : pc'[y] = pc[y] /\ first'[y] = first[y]
      /\ \A r \in Queues \ {q} : head'[r] = head[r]
      /\ head'[q] = IF head[q] = first[x] THEN nil ELSE head[q]
      /\ UNCHANGED <<tail, next, allocator, pred, hand, fresh, order, solo>>
  BY <1>0 DEF DeqCasHead, NewHead, Goto, IInv, TypeOK
<1>2. TypeOK'
  BY <1>0 DEF DeqCasHead, NewHead, Goto, IInv, TypeOK, Pointers, Places
<1>3. /\ Unlinked' = Unlinked
      /\ \A y \in Threads : pc'[y] = "link" <=> pc[y] = "link"
  <2>1. \A y \in Threads : pc'[y] = "link" <=> pc[y] = "link"
    BY <1>1
  <2> QED
    BY <1>1, <2>1, SameLinks
<1>4. \A y \in Threads : To(y)' = To(y)
  BY <1>1 DEF To
<1>5. Once' /\ Tails' /\ Allocated'
  BY <1>1, SMT DEF IInv, Once, Tails, Allocated
<1>6. Nexts'
  BY <1>1, <1>3 DEF IInv, Nexts
<1>7. InHand'
  <2>1. Holding' = Holding
    BY <1>1 DEF Holding
  <2>2. Queued' = Queued
    BY <1>1 DEF Queued
  <2> QED
    BY <1>1, <2>1, <2>2 DEF IInv, InHand
<1>8. Links'
  BY <1>1, <1>3, <1>4, SMT DEF IInv, Links
<1>9. Heads'
  <2>1. ASSUME NEW r \in Queues \ {q} PROVE Behind(r)' = Behind(r)
    <3>1. Owner(r) \in Threads \ {x}
      BY <1>0, Names
    <3> QED
      BY <1>1, <3>1 DEF Behind, Owner
  <2>2. Owner(q) = x
    BY <1>0, Names
  <2>3. Behind(q) = first[x] /\ Behind(q)' = nil
    BY <1>1, <2>2 DEF Behind, Owner
  <2>4. Len(order[q]) # 0 => order[q][1] # first[x]
    <3>1. first[x] = hand[x] /\ \A i \in 1 .. Len(order[q]) : order[q][i] # hand[x]
      BY <1>1, OrderType DEF IInv, InHand, Holding, Queued
    <3> QED
      BY <3>1, OrderType, SMT
  <2>5. head'[q] = IF Len(order[q]) = 0 \/ order[q][1] \in Unlinked THEN nil ELSE order[q][1]
    BY <1>1, <2>3, <2>4 DEF IInv, Heads
  <2>6. \A r \in Queues : head'[r] = IF Len(order[r]) = 0 \/ order[r][1] \in Unlinked THEN Behind(r)' ELSE order[r][1]
    BY <1>1, <2>1, <2>3, <2>5 DEF IInv, Heads
  <2> QED
    BY <1>1, <1>3, <2>6 DEF Heads
<1>10. Firsts'
  BY <1>1, <1>3 DEF IInv, Firsts, From
<1>11. Solo'
  BY <1>1, <1>3, <1>4, SMT DEF IInv, Solo, From
<1> QED
  BY <1>2, <1>5, <1>6, <1>7, <1>8, <1>9, <1>10, <1>11 DEF IInv

-----------------------------------------------------------------------------
(* A producer whose allocator is empty takes new memory.                    *)
LEMMA MallocKeeps == ASSUME Parameters, IInv, NEW p \in Producers, Malloc(p) PROVE IInv'
<1>0. p \in Threads
  BY DEF Threads
<1>1. PICK e \in fresh : fresh' = fresh \ {e} /\ hand' = [hand EXCEPT ![p] = e] /\ allocator' = [allocator EXCEPT ![e] = p]
  BY DEF Malloc
<1>2. /\ pc[p] = "null" /\ pc'[p] = "enq" /\ hand'[p] = e /\ e \in Entries
      /\ \A y \in Threads \ {p} : pc'[y] = pc[y] /\ hand'[y] = hand[y]
      /\ allocator'[e] = p /\ \A g \in Entries \ {e} : allocator'[g] = allocator[g]
      /\ UNCHANGED <<head, tail, next, first, pred, order, solo>>
  BY <1>0, <1>1 DEF Malloc, Goto, IInv, TypeOK
<1>3. TypeOK'
  BY <1>0, <1>1 DEF Malloc, Goto, IInv, TypeOK, Pointers, Places
<1>4. /\ Unlinked' = Unlinked
      /\ \A y \in Threads : pc'[y] = "link" <=> pc[y] = "link"
  <2>1. \A y \in Threads : /\ pc'[y] = "link" <=> pc[y] = "link"
                           /\ pc[y] = "link" => hand'[y] = hand[y]
    BY <1>2
  <2> QED
    BY <2>1, SameLinks
<1>5. fresh' = fresh \ {e}
  BY <1>1
<1>6. ASSUME NEW y \in Threads, pc[y] = "link" PROVE y # p /\ To(y)' = To(y)
  <2>1. y # p /\ hand'[y] = hand[y]
    BY <1>2, <1>6
  <2>2. hand[y] \in Entries \ fresh
    <3>1. PICK r \in Queues : r = To(y)
      BY <1>6 DEF IInv, Links
    <3>2. PICK i \in 1 .. Len(order[r]) : hand[y] = order[r][i]
      BY <1>6, <3>1 DEF IInv, Links
    <3> QED
      BY <3>2, OrderType DEF IInv, Once
  <2> QED
    BY <1>2, <2>1, <2>2 DEF To
<1>7. Once' /\ Tails' /\ Allocated'
  BY <1>2, <1>5, SMT DEF IInv, Once, Tails, Allocated
<1>8. Nexts'
  BY <1>2, <1>4 DEF IInv, Nexts
<1>9. InHand'
  <2>1. Queued' = Queued /\ e \notin Queued
    <3>1. order' = order
      BY <1>2
    <3>2. \A q \in Queues : \A i \in 1 .. Len(order[q]) : order[q][i] # e
      BY SMT DEF IInv, Once
    <3> QED
      BY <3>1, <3>2 DEF Queued
  <2>2. Holding' = Holding \cup {p} /\ p \notin Holding
    BY <1>0, <1>2 DEF Holding
  <2>3. \A y \in Holding : y # p /\ y \in Threads /\ hand'[y] = hand[y] /\ hand[y] # e
    BY <1>2, <2>2 DEF IInv, InHand, Holding
  <2>4. \A y \in Holding' : hand'[y] \in Entries /\ hand'[y] \notin fresh' /\ hand'[y] \notin Queued'
    BY <1>2, <1>5, <2>1, <2>2, <2>3 DEF IInv, InHand
  <2>5. \A y, z \in Holding' : hand'[y] = hand'[z] => y = z
    <3>1. \A y, z \in Holding : hand[y] = hand[z] => y = z
      BY DEF IInv, InHand
    <3>2. hand'[p] = e
      BY <1>2
    <3> QED
      BY <2>2, <2>3, <3>1, <3>2
  <2>6. \A y \in Threads : /\ pc'[y] \notin {"enq", "cashead", "link"} => hand'[y] = nil
                           /\ pc'[y] = "cashead" => first'[y] = hand'[y]
    BY <1>2 DEF IInv, InHand
  <2> QED
    BY <2>4, <2>5, <2>6 DEF InHand
<1>10. Links'
  <2>1. order' = order /\ pred' = pred
    BY <1>2
  <2>2. \A y \in Threads : pc'[y] = "link" => pc[y] = "link" /\ hand'[y] = hand[y] /\ To(y)' = To(y)
    BY <1>2, <1>4, <1>6
  <2> QED
    BY <2>1, <2>2, LinksKeep
<1>11. Heads'
  <2>1. \A r \in Queues : Behind(r)' = Behind(r)
    BY <1>2, Names DEF Behind, Owner
  <2> QED
    BY <1>2, <1>4, <2>1 DEF IInv, Heads
<1>12. Firsts'
  BY <1>2, <1>4 DEF IInv, Firsts, From
<1>13. Solo'
  BY <1>2, <1>4, <1>6, SMT DEF IInv, Solo, From
<1> QED
  BY <1>3, <1>7, <1>8, <1>9, <1>10, <1>11, <1>12, <1>13 DEF IInv
-----------------------------------------------------------------------------
(* An entry at the end of q. *)
LEMMA AppendOf ==
  ASSUME IInv, NEW q \in Queues, NEW h \in Entries, order' = [order EXCEPT ![q] = Append(@, h)]
  PROVE  /\ order' \in [Queues -> Seq(Entries)]
         /\ \A r \in Queues \ {q} : order'[r] = order[r]
         /\ Len(order'[q]) = Len(order[q]) + 1 /\ Len(order[q]) \in Nat
         /\ order'[q][Len(order[q]) + 1] = h
         /\ \A i \in 1 .. Len(order[q]) : order'[q][i] = order[q][i]
<1>1. order[q] \in Seq(Entries) /\ order \in [Queues -> Seq(Entries)]
  BY DEF IInv, TypeOK
<1>2. /\ Append(order[q], h) \in Seq(Entries) /\ Len(Append(order[q], h)) = Len(order[q]) + 1
      /\ \A i \in 1 .. Len(order[q]) : Append(order[q], h)[i] = order[q][i]
      /\ Append(order[q], h)[Len(order[q]) + 1] = h
      /\ Len(order[q]) \in Nat
  BY <1>1, SMT
<1> QED
  BY <1>1, <1>2

(* A place in the queues after the step is the new one, or was one before. *)
Grown(q, h) ==
  \A r \in Queues : \A i \in 1 .. Len(order'[r]) :
    \/ r = q /\ i = Len(order[q]) + 1 /\ i = Len(order'[q]) /\ order'[r][i] = h
    \/ /\ i \in 1 .. Len(order[r]) /\ order'[r][i] = order[r][i]
       /\ i # Len(order[r]) => i # Len(order'[r]) /\ order'[r][i + 1] = order[r][i + 1]
       /\ r # q => Len(order'[r]) = Len(order[r])
       /\ r = q /\ i = Len(order[r]) => i # Len(order'[r]) /\ order'[r][i + 1] = h

(* This is what appending an entry does.                                    *)
LEMMA Appended ==
  ASSUME IInv, NEW q \in Queues, NEW h \in Entries, order' = [order EXCEPT ![q] = Append(@, h)]
  PROVE  Grown(q, h)
<1> USE DEF Grown
<1> TAKE r \in Queues
<1> TAKE i \in 1 .. Len(order'[r])
<1>1. CASE r = q
  <2>1. PICK n \in Nat : n = Len(order[q]) /\ n + 1 = Len(order'[q])
    BY AppendOf
  <2>2. i \in 1 .. n + 1
    BY <1>1, <2>1
  <2>3. \A k \in 1 .. n : order'[q][k] = order[q][k]
    BY <2>1, AppendOf
  <2>4. order'[q][n + 1] = h
    BY <2>1, AppendOf
  <2>5. CASE i = n + 1
    BY <1>1, <2>1, <2>4, <2>5
  <2>6. CASE i \in 1 .. n
    <3>1. i # n + 1 /\ (i # n => i + 1 \in 1 .. n)
      BY <2>6, SMT
    <3> QED
      BY <1>1, <2>1, <2>3, <2>4, <2>6, <3>1
  <2> QED
    BY <2>2, <2>5, <2>6, SMT
<1>2. CASE r # q
  BY <1>2, AppendOf
<1> QED
  BY <1>1, <1>2

(* An enqueue has a queue to go to, and an entry for it.                    *)
LEMMA ToIsQueue ==
  ASSUME Parameters, IInv, NEW x \in Threads, pc[x] \in {"enq", "link"}
  PROVE  To(x) \in Queues /\ hand[x] \in Entries \ fresh
<1>1. CASE pc[x] = "link"
  <2>1. PICK r \in Queues : r = To(x)
    BY <1>1 DEF IInv, Links
  <2>2. PICK i \in 1 .. Len(order[r]) : hand[x] = order[r][i]
    BY <1>1, <2>1 DEF IInv, Links
  <2> QED
    BY <2>1, <2>2, OrderType DEF IInv, Once
<1>2. CASE pc[x] = "enq"
  <2>1. hand[x] \in Entries \ fresh
    BY <1>2 DEF IInv, InHand, Holding
  <2>2. allocator[hand[x]] \in Producers
    BY <2>1 DEF IInv, Allocated
  <2> QED
    BY <2>1, <2>2 DEF To, Queues
<1> QED
  BY <1>1, <1>2

(* enqueue has exchanged the tail: its entry is last, and not linked. *)
LEMMA EnqSwapKeeps == ASSUME Parameters, IInv, NEW x \in Threads, EnqSwap(x) PROVE IInv'
<1>1. PICK q \in Queues : q = To(x)
  BY ToIsQueue DEF EnqSwap
<1>2. PICK h \in Entries \ fresh : h = hand[x]
  BY ToIsQueue DEF EnqSwap
<1>3. order' = [order EXCEPT ![q] = Append(@, h)]
  BY <1>1, <1>2 DEF EnqSwap
<1>4. /\ pc[x] = "enq" /\ pc'[x] = "link" /\ pred'[x] = tail[q] /\ tail'[q] = h /\ next'[h] = nil
      /\ \A y \in Threads \ {x} : pc'[y] = pc[y] /\ pred'[y] = pred[y]
      /\ \A r \in Queues \ {q} : tail'[r] = tail[r]
      /\ \A e \in Entries \ {h} : next'[e] = next[e]
      /\ \A y \in Threads : solo'[y] => solo[y] /\ From(y) # q
      /\ UNCHANGED <<head, allocator, first, hand, fresh>>
  BY <1>1, <1>2 DEF EnqSwap, Cleared, Goto, IInv, TypeOK
<1>5. /\ order' \in [Queues -> Seq(Entries)]
      /\ \A r \in Queues \ {q} : order'[r] = order[r]
      /\ Len(order'[q]) = Len(order[q]) + 1 /\ Len(order[q]) \in Nat
      /\ order'[q][Len(order[q]) + 1] = h
      /\ \A i \in 1 .. Len(order[q]) : order'[q][i] = order[q][i]
  BY <1>3, AppendOf
<1>6a. Grown(q, h)
  <2>1. h \in Entries
    OBVIOUS
  <2> QED
    BY <1>3, <2>1, Appended
<1>6. \A r \in Queues : \A i \in 1 .. Len(order'[r]) :
         \/ r = q /\ i = Len(order[q]) + 1 /\ i = Len(order'[q]) /\ order'[r][i] = h
         \/ /\ i \in 1 .. Len(order[r]) /\ order'[r][i] = order[r][i]
            /\ i # Len(order[r]) => i # Len(order'[r]) /\ order'[r][i + 1] = order[r][i + 1]
            /\ r # q => Len(order'[r]) = Len(order[r])
            /\ r = q /\ i = Len(order[r]) => i # Len(order'[r]) /\ order'[r][i + 1] = h
  BY <1>6a DEF Grown
<1>7. /\ h = hand[x] /\ x \in Holding /\ h \notin Queued
      /\ \A r \in Queues : \A i \in 1 .. Len(order[r]) : order[r][i] # h
  <2>1. x \in Holding
    BY <1>4 DEF Holding
  <2>2. h \notin Queued
    BY <1>2, <2>1 DEF IInv, InHand
  <2> QED
    BY <1>2, <2>1, <2>2 DEF Queued
<1>8. h \notin Unlinked
  <2> SUFFICES ASSUME NEW y \in Threads, pc[y] = "link" PROVE hand[y] # h
    BY DEF Unlinked
  <2>1. PICK r \in Queues : r = To(y)
    BY DEF IInv, Links
  <2>2. PICK i \in 1 .. Len(order[r]) : hand[y] = order[r][i]
    BY <2>1 DEF IInv, Links
  <2> QED
    BY <1>7, <2>2
<1>9. Unlinked' = Unlinked \cup {h}
  BY <1>2, <1>4, SMT DEF Unlinked
<1>10. \A y \in Threads : To(y)' = To(y)
  BY <1>4 DEF To
<1>11. TypeOK'
  BY <1>1, <1>2, <1>5 DEF EnqSwap, Cleared, Goto, IInv, TypeOK, Pointers, Places
<1>12. Once'
  <2>1. \A r, s \in Queues : \A i \in 1 .. Len(order'[r]), k \in 1 .. Len(order'[s]) :
          order'[r][i] = order'[s][k] => r = s /\ i = k
    <3> SUFFICES ASSUME NEW r \in Queues, NEW s \in Queues, NEW i \in 1 .. Len(order'[r]),
                        NEW k \in 1 .. Len(order'[s]), order'[r][i] = order'[s][k]
                 PROVE  r = s /\ i = k
      OBVIOUS
    <3>1. \/ r = q /\ i = Len(order[q]) + 1 /\ order'[r][i] = h
          \/ i \in 1 .. Len(order[r]) /\ order'[r][i] = order[r][i] /\ order[r][i] # h
      BY <1>6, <1>7, SMT
    <3>2. \/ s = q /\ k = Len(order[q]) + 1 /\ order'[s][k] = h
          \/ k \in 1 .. Len(order[s]) /\ order'[s][k] = order[s][k] /\ order[s][k] # h
      BY <1>6, <1>7, SMT
    <3>3. CASE order'[r][i] = h
      BY <3>1, <3>2, <3>3
    <3>4. CASE order'[r][i] # h
      <4>1. i \in 1 .. Len(order[r]) /\ k \in 1 .. Len(order[s]) /\ order[r][i] = order[s][k]
        BY <3>1, <3>2, <3>4
      <4> QED
        BY <4>1, SMT DEF IInv, Once
    <3> QED
      BY <3>3, <3>4
  <2>2. \A r \in Queues : \A i \in 1 .. Len(order'[r]) : order'[r][i] \notin fresh'
    <3>1. \A r \in Queues : \A i \in 1 .. Len(order[r]) : order[r][i] \notin fresh
      BY DEF IInv, Once
    <3> QED
      BY <1>4, <1>6, <3>1, SMT
  <2> QED
    BY <2>1, <2>2 DEF Once
<1>13. InHand'
  <2>1. ASSUME NEW e \in Queued' PROVE e \in Queued \cup {h}
    <3>0. PICK r \in Queues : \E i \in 1 .. Len(order'[r]) : order'[r][i] = e
      BY DEF Queued
    <3>1. PICK i \in 1 .. Len(order'[r]) : order'[r][i] = e
      BY <3>0
    <3>2. e = h \/ (i \in 1 .. Len(order[r]) /\ order[r][i] = e)
      BY <1>6, <3>1
    <3> QED
      BY <3>2 DEF Queued
  <2>2. Holding' = Holding \ {x}
    BY <1>4 DEF Holding
  <2>3. hand' = hand /\ first' = first /\ fresh' = fresh
    BY <1>4
  <2>4. \A y \in Holding' : hand[y] # h
    BY <1>7, <2>2 DEF IInv, InHand
  <2>5. \A y \in Holding' : hand'[y] \in Entries /\ hand'[y] \notin fresh' /\ hand'[y] \notin Queued'
    BY <2>1, <2>2, <2>3, <2>4 DEF IInv, InHand
  <2>6. \A y, z \in Holding' : hand'[y] = hand'[z] => y = z
    BY <2>2, <2>3 DEF IInv, InHand
  <2>7. \A y \in Threads : /\ pc'[y] \notin {"enq", "cashead", "link"} => hand'[y] = nil
                           /\ pc'[y] = "cashead" => first'[y] = hand'[y]
    <3>1. \A y \in Threads : /\ pc[y] \notin {"enq", "cashead", "link"} => hand[y] = nil
                             /\ pc[y] = "cashead" => first[y] = hand[y]
      BY DEF IInv, InHand
    <3>2. pc'[x] = "link" /\ \A y \in Threads \ {x} : pc'[y] = pc[y]
      BY <1>4
    <3> QED
      BY <2>3, <3>1, <3>2
  <2> QED
    BY <2>5, <2>6, <2>7 DEF InHand
<1>14. Allocated'
  BY <1>4 DEF IInv, Allocated
<1>15. Links'
  <2>1. ASSUME NEW y \in Threads \ {x}, pc[y] = "link", NEW r \in Queues, r = To(y)
        PROVE  \E i \in 1 .. Len(order'[r]) :
                 /\ hand[y] = order'[r][i]
                 /\ pred[y] = IF i = 1 THEN nil ELSE order'[r][i - 1]
    <3>1. PICK j \in 1 .. Len(order[r]) :
            hand[y] = order[r][j] /\ pred[y] = IF j = 1 THEN nil ELSE order[r][j - 1]
      BY <2>1 DEF IInv, Links
    <3>2. Len(order[r]) \in Nat
      BY OrderType
    <3>3. j \in 1 .. Len(order'[r]) /\ (j # 1 => j - 1 \in 1 .. Len(order[r]))
      BY <1>5, <3>2, SMT
    <3>4. \A i \in 1 .. Len(order[r]) : order'[r][i] = order[r][i]
      BY <1>5
    <3> QED
      BY <3>1, <3>3, <3>4
  <2>2. \E i \in 1 .. Len(order'[q]) :
          /\ h = order'[q][i]
          /\ tail[q] = IF i = 1 THEN nil ELSE order'[q][i - 1]
    <3>1. PICK n \in Nat : n = Len(order[q]) /\ Len(order'[q]) = n + 1
      BY <1>5
    <3>2. n + 1 \in 1 .. n + 1 /\ n + 1 - 1 = n /\ (n # 0 => n \in 1 .. n) /\ (n + 1 = 1 <=> n = 0)
      BY SMT
    <3>3. tail[q] = IF n = 0 THEN nil ELSE order[q][n]
      BY <3>1 DEF IInv, Tails
    <3>4. n # 0 => order'[q][n] = order[q][n]
      BY <1>5, <3>1, <3>2
    <3>5. order'[q][n + 1] = h
      BY <1>5, <3>1
    <3> QED
      BY <3>1, <3>2, <3>3, <3>4, <3>5, SMT
  <2>3. ASSUME NEW y \in Threads, pc'[y] = "link"
        PROVE  /\ To(y)' \in Queues
               /\ \E i \in 1 .. Len(order'[To(y)']) :
                    /\ hand'[y] = order'[To(y)'][i]
                    /\ pred'[y] = IF i = 1 THEN nil ELSE order'[To(y)'][i - 1]
    <3>1. CASE y = x
      <4>1. To(y)' = q /\ hand'[y] = h /\ pred'[y] = tail[q]
        BY <1>1, <1>2, <1>4, <1>10, <3>1
      <4> QED
        BY <2>2, <4>1
    <3>2. CASE y # x
      <4>1. pc[y] = "link" /\ To(y)' = To(y) /\ hand'[y] = hand[y] /\ pred'[y] = pred[y]
        BY <1>4, <1>10, <2>3, <3>2
      <4>2. PICK r \in Queues : r = To(y)
        BY <4>1 DEF IInv, Links
      <4>3. PICK i \in 1 .. Len(order'[r]) :
              hand[y] = order'[r][i] /\ pred[y] = IF i = 1 THEN nil ELSE order'[r][i - 1]
        BY <2>1, <3>2, <4>1, <4>2
      <4> QED
        BY <4>1, <4>2, <4>3
    <3> QED
      BY <3>1, <3>2
  <2>4. \A y, z \in Threads : pc'[y] = "link" /\ pc'[z] = "link" /\ hand'[y] = hand'[z] => y = z
    <3>1. \A y \in Threads : pc[y] = "link" => hand[y] # h
      BY <1>8 DEF Unlinked
    <3>2. \A y, z \in Threads : pc[y] = "link" /\ pc[z] = "link" /\ hand[y] = hand[z] => y = z
      BY DEF IInv, Links
    <3>3. \A y \in Threads : pc'[y] = "link" =>
            \/ y = x /\ hand'[y] = h
            \/ y # x /\ pc[y] = "link" /\ hand'[y] = hand[y]
      BY <1>2, <1>4
    <3> QED
      BY <3>1, <3>2, <3>3
  <2> QED
    BY <2>3, <2>4 DEF Links
<1>16. Tails'
  <2>1. tail'[q] = IF Len(order'[q]) = 0 THEN nil ELSE order'[q][Len(order'[q])]
    BY <1>4, <1>5, SMT
  <2>2. \A r \in Queues \ {q} : tail'[r] = IF Len(order'[r]) = 0 THEN nil ELSE order'[r][Len(order'[r])]
    <3>1. \A r \in Queues \ {q} : tail'[r] = tail[r] /\ order'[r] = order[r]
      BY <1>4, <1>5
    <3> QED
      BY <3>1 DEF IInv, Tails
  <2> QED
    BY <2>1, <2>2 DEF Tails
<1>17. Nexts'
  <2> SUFFICES ASSUME NEW r \in Queues, NEW i \in 1 .. Len(order'[r])
               PROVE  next'[order'[r][i]] = IF i = Len(order'[r]) \/ order'[r][i + 1] \in Unlinked'
                                            THEN nil ELSE order'[r][i + 1]
    BY DEF Nexts
  <2>1. CASE r = q /\ i = Len(order'[q]) /\ order'[r][i] = h
    BY <1>4, <2>1
  <2>2. CASE i \in 1 .. Len(order[r]) /\ order'[r][i] = order[r][i]
    <3>1. PICK e \in Entries \ {h} : e = order[r][i]
      BY <1>7, <2>2, OrderType
    <3>2. next'[e] = next[e] /\ next[e] = IF i = Len(order[r]) \/ order[r][i + 1] \in Unlinked THEN nil ELSE order[r][i + 1]
      BY <1>4, <2>2, <3>1 DEF IInv, Nexts
    <3>3. CASE i # Len(order[r])
      <4>1. i # Len(order'[r]) /\ order'[r][i + 1] = order[r][i + 1]
        BY <1>6, <2>2, <3>1, <3>3
      <4>2. order[r][i + 1] # h
        <5>1. Len(order[r]) \in Nat
          BY OrderType
        <5>2. i + 1 \in 1 .. Len(order[r])
          BY <2>2, <3>3, <5>1, SMT
        <5> QED
          BY <1>7, <5>2
      <4> QED
        BY <1>9, <2>2, <3>1, <3>2, <3>3, <4>1, <4>2
    <3>4. CASE i = Len(order[r]) /\ r = q
      <4>1. i # Len(order'[r]) /\ order'[r][i + 1] = h
        BY <1>6, <2>2, <3>1, <3>4
      <4> QED
        BY <1>9, <2>2, <3>1, <3>2, <3>4, <4>1
    <3>5. CASE i = Len(order[r]) /\ r # q
      BY <1>5, <2>2, <3>1, <3>2, <3>5
    <3> QED
      BY <3>3, <3>4, <3>5
  <2> QED
    BY <1>6, <2>1, <2>2
<1>18. Heads'
  <2>1. \A r \in Queues : Behind(r)' = Behind(r)
    BY <1>4, Names DEF Behind, Owner
  <2>2. ASSUME NEW r \in Queues, Len(order[r]) # 0
        PROVE  Len(order'[r]) # 0 /\ order'[r][1] = order[r][1] /\ order[r][1] # h
    <3>1. Len(order[r]) \in Nat /\ 1 \in 1 .. Len(order[r])
      BY <2>2, OrderType, SMT
    <3>2. order[r][1] # h
      BY <1>7, <3>1
    <3>3. CASE r = q
      BY <1>5, <3>1, <3>2, <3>3, SMT
    <3>4. CASE r # q
      BY <1>5, <2>2, <3>2, <3>4
    <3> QED
      BY <3>3, <3>4
  <2>3. ASSUME NEW r \in Queues, Len(order[r]) = 0
        PROVE  Len(order'[r]) = 0 \/ order'[r][1] = h
    BY <1>5, <2>3, SMT
  <2>4. ASSUME NEW r \in Queues
        PROVE  head[r] = IF Len(order'[r]) = 0 \/ order'[r][1] \in Unlinked' THEN Behind(r) ELSE order'[r][1]
    <3>1. head[r] = IF Len(order[r]) = 0 \/ order[r][1] \in Unlinked THEN Behind(r) ELSE order[r][1]
      BY DEF IInv, Heads
    <3>2. CASE Len(order[r]) = 0
      BY <1>9, <2>3, <3>1, <3>2
    <3>3. CASE Len(order[r]) # 0
      BY <1>9, <2>2, <3>1, <3>3
    <3> QED
      BY <3>2, <3>3
  <2> QED
    BY <1>4, <2>1, <2>4 DEF Heads
<1>19. Firsts'
  <2> SUFFICES ASSUME NEW y \in Threads, pc'[y] \in {"next", "castail"}, NEW r \in Queues, r = From(y)
               PROVE  Len(order'[r]) # 0 /\ first'[y] = order'[r][1] /\ first'[y] \notin Unlinked'
    BY Names DEF Firsts, From
  <2>1. pc[y] \in {"next", "castail"} /\ first'[y] = first[y]
    BY <1>4
  <2>2. Len(order[r]) # 0 /\ first[y] = order[r][1] /\ first[y] \notin Unlinked /\ Len(order[r]) \in Nat
    BY <2>1, OrderType DEF IInv, Firsts
  <2>3. 1 \in 1 .. Len(order[r])
    BY <2>2, SMT
  <2>4. Len(order'[r]) # 0 /\ order'[r][1] = order[r][1] /\ order[r][1] # h
    <3>2. order[r][1] # h
      BY <1>7, <2>3
    <3>3. CASE r = q
      <4>1. order'[q][1] = order[q][1] /\ Len(order'[q]) # 0
        BY <1>5, <2>2, <2>3, <3>3, SMT
      <4> QED
        BY <3>2, <3>3, <4>1
    <3>4. CASE r # q
      <4>1. order'[r] = order[r]
        BY <1>5, <3>4
      <4> QED
        BY <2>2, <3>2, <4>1
    <3> QED
      BY <3>3, <3>4
  <2> QED
    BY <1>9, <2>1, <2>2, <2>4
<1>20. Solo'
  <2> SUFFICES ASSUME NEW y \in Threads, solo'[y]
               PROVE  /\ \A z \in Threads : ~(pc'[z] = "link" /\ To(z)' = From(y))
                      /\ pc'[y] = "castail" => Len(order'[From(y)]) = 1
                      /\ pc'[y] = "null" => Len(order'[From(y)]) = 0
    BY DEF Solo, From
  <2>1. solo[y] /\ From(y) \in Queues \ {q}
    BY <1>4, Names
  <2>2. /\ \A z \in Threads : ~(pc[z] = "link" /\ To(z) = From(y))
        /\ pc[y] = "castail" => Len(order[From(y)]) = 1
        /\ pc[y] = "null" => Len(order[From(y)]) = 0
    BY <2>1 DEF IInv, Solo
  <2>3. \A z \in Threads : ~(pc'[z] = "link" /\ To(z)' = From(y))
    BY <1>1, <1>4, <1>10, <2>1, <2>2, SMT
  <2>4. order'[From(y)] = order[From(y)]
    BY <1>5, <2>1
  <2>5. pc'[y] \in {"castail", "null"} => pc'[y] = pc[y]
    BY <1>4
  <2> QED
    BY <2>2, <2>3, <2>4, <2>5
<1> QED
  BY <1>11, <1>12, <1>13, <1>14, <1>15, <1>16, <1>17, <1>18, <1>19, <1>20 DEF IInv
(* enqueue links its entry to the one in front of it, or to the head. *)
LEMMA EnqLinkKeeps == ASSUME Parameters, IInv, NEW x \in Threads, EnqLink(x) PROVE IInv'
<1>1. PICK q \in Queues : q = To(x)
  BY ToIsQueue DEF EnqLink
<1>2. PICK h \in Entries \ fresh : h = hand[x]
  BY ToIsQueue DEF EnqLink
<1>3. PICK i \in 1 .. Len(order[q]) : h = order[q][i] /\ pred[x] = IF i = 1 THEN nil ELSE order[q][i - 1]
  BY <1>1, <1>2 DEF EnqLink, IInv, Links
<1>4. /\ pc[x] = "link" /\ pc'[x] = "head" /\ hand'[x] = nil
      /\ \A y \in Threads \ {x} : pc'[y] = pc[y] /\ pred'[y] = pred[y] /\ hand'[y] = hand[y]
      /\ UNCHANGED <<tail, allocator, first, fresh, order, solo>>
  BY DEF EnqLink, Goto, IInv, TypeOK
<1>5. Len(order[q]) \in Nat /\ \A r \in Queues : \A j \in 1 .. Len(order[r]) : order[r][j] \in Entries
  BY OrderType
<1>6. \A r \in Queues : \A j \in 1 .. Len(order[r]) : order[r][j] = h => r = q /\ j = i
  BY <1>3 DEF IInv, Once
<1>7. \/ /\ i # 1 /\ i - 1 \in 1 .. Len(order[q]) /\ next'[order[q][i - 1]] = h /\ head' = head
         /\ \A e \in Entries \ {order[q][i - 1]} : next'[e] = next[e]
      \/ i = 1 /\ next' = next /\ head'[q] = h /\ \A r \in Queues \ {q} : head'[r] = head[r]
  <2>1. CASE i = 1
    <3>1. pred[x] = nil
      BY <1>3, <2>1
    <3> QED
      BY <1>1, <1>2, <2>1, <3>1 DEF EnqLink, IInv, TypeOK
  <2>2. CASE i # 1
    <3>1. i - 1 \in 1 .. Len(order[q])
      BY <1>5, <2>2, SMT
    <3>2. pred[x] = order[q][i - 1] /\ pred[x] \in Entries /\ pred[x] # nil
      BY <1>3, <1>5, <2>2, <3>1 DEF Parameters
    <3> QED
      BY <1>2, <2>2, <3>1, <3>2 DEF EnqLink, IInv, TypeOK
  <2> QED
    BY <2>1, <2>2
<1>8. TypeOK'
  <2>1. nil \in Pointers /\ hand[x] \in Pointers /\ pred[x] \in Pointers /\ "head" \in Places /\ q = To(x)
    BY <1>1, <1>2 DEF Pointers, IInv, TypeOK, Places
  <2> QED
    BY <2>1 DEF EnqLink, Goto, IInv, TypeOK
<1>9. Unlinked' = Unlinked \ {h}
  <2>1. \A y \in Threads \ {x} : pc[y] = "link" => hand[y] # h
    BY <1>2, <1>4 DEF IInv, Links
  <2> QED
    BY <1>2, <1>4, <2>1 DEF Unlinked
<1>9a. h \in Unlinked
  BY <1>2, <1>4 DEF Unlinked
<1>10. \A y \in Threads \ {x} : To(y)' = To(y)
  BY <1>4 DEF To
<1>11. Once' /\ Tails' /\ Allocated'
  BY <1>4, SMT DEF IInv, Once, Tails, Allocated
<1>12. InHand'
  <2>1. Holding' = Holding /\ x \notin Holding
    BY <1>4 DEF Holding
  <2>2. Queued' = Queued /\ \A y \in Holding : hand'[y] = hand[y]
    BY <1>4, <2>1, SMT DEF Queued, Holding
  <2> QED
    BY <1>4, <2>1, <2>2, SMT DEF IInv, InHand
<1>13. Links'
  <2>1. \A y \in Threads : pc'[y] = "link" => y # x
    BY <1>4
  <2>2. \A y \in Threads : pc'[y] = "link" =>
          pc[y] = "link" /\ hand'[y] = hand[y] /\ pred'[y] = pred[y] /\ To(y)' = To(y)
    BY <1>4, <1>10, <2>1
  <2> QED
    BY <1>4, <2>2, LinksKeep
<1>14. Nexts'
  <2> SUFFICES ASSUME NEW r \in Queues, NEW j \in 1 .. Len(order[r])
               PROVE  next'[order[r][j]] = IF j = Len(order[r]) \/ order[r][j + 1] \in Unlinked'
                                           THEN nil ELSE order[r][j + 1]
    BY <1>4 DEF Nexts
  <2>1. next[order[r][j]] = IF j = Len(order[r]) \/ order[r][j + 1] \in Unlinked THEN nil ELSE order[r][j + 1]
    BY DEF IInv, Nexts
  <2>2. Len(order[r]) \in Nat /\ order[r][j] \in Entries
    BY OrderType
  <2>3. CASE r = q /\ j = i - 1
    <3>1. i # 1 /\ j + 1 = i /\ j # Len(order[r])
      BY <1>5, <2>2, <2>3, SMT
    <3> QED
      BY <1>3, <1>7, <1>9, <2>3, <3>1
  <2>4. CASE ~(r = q /\ j = i - 1)
    <3>1. j # Len(order[r]) => order[r][j + 1] # h
      <4>1. j # Len(order[r]) => j + 1 \in 1 .. Len(order[r])
        BY <2>2, SMT
      <4>2. r = q => j + 1 # i
        BY <2>2, <2>4, SMT
      <4> QED
        BY <1>6, <4>1, <4>2
    <3>2. next'[order[r][j]] = next[order[r][j]]
      <4>1. CASE i = 1
        BY <1>7, <4>1
      <4>2. CASE i # 1
        <5>1. order[r][j] # order[q][i - 1]
          BY <1>7, <2>4, <4>2, SMT DEF IInv, Once
        <5> QED
          BY <1>7, <2>2, <4>2, <5>1
      <4> QED
        BY <4>1, <4>2
    <3> QED
      BY <1>9, <2>1, <3>1, <3>2
  <2> QED
    BY <2>3, <2>4
<1>15. Heads'
  <2>1. \A r \in Queues : Behind(r)' = Behind(r)
    BY <1>4, Names DEF Behind, Owner
  <2>2. ASSUME NEW r \in Queues
        PROVE  head'[r] = IF Len(order[r]) = 0 \/ order[r][1] \in Unlinked' THEN Behind(r) ELSE order[r][1]
    <3>1. head[r] = IF Len(order[r]) = 0 \/ order[r][1] \in Unlinked THEN Behind(r) ELSE order[r][1]
      BY DEF IInv, Heads
    <3>2. CASE i = 1 /\ r = q
      <4>1. Len(order[q]) # 0
        BY <1>5, <3>2, SMT
      <4> QED
        BY <1>3, <1>7, <1>9, <3>2, <4>1
    <3>3. CASE ~(i = 1 /\ r = q)
      <4>1. Len(order[r]) # 0 => order[r][1] # h
        <5>1. Len(order[r]) # 0 => 1 \in 1 .. Len(order[r])
          BY OrderType, SMT
        <5> QED
          BY <1>6, <3>3, <5>1
      <4>2. head'[r] = head[r]
        BY <1>7, <3>3
      <4> QED
        BY <1>9, <3>1, <4>1, <4>2
    <3> QED
      BY <3>2, <3>3
  <2> QED
    BY <1>4, <2>1, <2>2 DEF Heads
<1>16. Firsts'
  BY <1>4, <1>9 DEF IInv, Firsts, From
<1>17. Solo'
  BY <1>4, <1>10, SMT DEF IInv, Solo, From
<1> QED
  BY <1>8, <1>11, <1>12, <1>13, <1>14, <1>15, <1>16, <1>17 DEF IInv

-----------------------------------------------------------------------------
(* Every step keeps the invariant.                                          *)
LEMMA IInvNext == ASSUME Parameters, IInv, [Next]_vars PROVE IInv'
<1>1. ASSUME NEW x \in Threads, Step(x) PROVE IInv'
  <2>1. From(x) \in Queues
    BY Names
  <2>2. CASE DeqHead(x)
    BY <2>2, DeqHeadKeeps
  <2>3. CASE DeqNext(x)
    BY <2>1, <2>3, NothingKeeps, TakeKeeps
  <2>4. CASE DeqCasTail(x)
    BY <2>1, <2>4, NothingKeeps, TakeKeeps
  <2>5. CASE DeqCasHead(x)
    BY <2>5, DeqCasHeadKeeps
  <2>6. CASE EnqSwap(x)
    BY <2>6, EnqSwapKeeps
  <2>7. CASE EnqLink(x)
    BY <2>7, EnqLinkKeeps
  <2>8. CASE Retry(x)
    BY <2>8, NothingKeeps
  <2> QED
    BY <1>1, <2>2, <2>3, <2>4, <2>5, <2>6, <2>7, <2>8 DEF Step
<1>2. ASSUME NEW p \in Producers, Malloc(p) PROVE IInv'
  BY <1>2, MallocKeeps
<1>3. CASE UNCHANGED vars
  <2>1. UNCHANGED <<head, tail, next, allocator, pc, first, pred, hand, fresh, order, solo>>
    BY <1>3 DEF vars
  <2>2. TypeOK' /\ Once'
    BY <2>1, SMT DEF IInv, TypeOK, Once
  <2>3. InHand' /\ Allocated'
    <3>1. Holding' = Holding /\ Queued' = Queued
      BY <2>1 DEF Holding, Queued
    <3> QED
      BY <2>1, <3>1 DEF IInv, InHand, Allocated
  <2>4. Links' /\ Tails'
    BY <2>1, SMT DEF IInv, Links, To, Tails
  <2>5. Unlinked' = Unlinked /\ \A q \in Queues : Behind(q)' = Behind(q)
    BY <2>1 DEF Unlinked, Behind, Owner
  <2>6. Nexts' /\ Heads'
    BY <2>1, <2>5 DEF IInv, Nexts, Heads
  <2>7. Firsts'
    BY <2>1, <2>5 DEF IInv, Firsts, From
  <2>8. Solo'
    BY <2>1 DEF IInv, Solo, To, From
  <2> QED
    BY <2>2, <2>3, <2>4, <2>6, <2>7, <2>8 DEF IInv
<1> QED
  BY <1>1, <1>2, <1>3 DEF Next

(* The invariant holds throughout.                                          *)
LEMMA Inductive == ASSUME Parameters PROVE Spec => []IInv
BY IInvInit, IInvNext, PTL DEF Spec

(* mpsc-queue.h: a dequeue that no enqueue overlaps returns NULL only when the *)
(* queue is empty, however many producers there are, so that the last drain *)
(* of a channel misses nothing.                                             *)
THEOREM NullOnlyIfEmpty == ASSUME Parameters PROVE Spec => []NullMeansEmpty
<1>1. ASSUME IInv PROVE NullMeansEmpty
  <2> SUFFICES ASSUME NEW x \in Threads, pc[x] = "null", solo[x] PROVE order[From(x)] = <<>>
    BY DEF NullMeansEmpty
  <2>1. PICK q \in Queues : q = From(x)
    BY Names
  <2>2. Len(order[q]) = 0
    BY <1>1, <2>1 DEF IInv, Solo
  <2>3. order[q] \in Seq(Entries)
    BY <1>1, OrderType
  <2> QED
    BY <2>1, <2>2, <2>3, SMT
<1> QED
  BY <1>1, Inductive, PTL
-----------------------------------------------------------------------------
(* What the abstract threads have in hand: not an entry that is in a queue. *)
Held == [x \in Threads |-> IF pc[x] = "link" THEN nil ELSE hand[x]]

(* A step that moves x changes what x has in hand.                          *)
LEMMA OneHand ==
  ASSUME NEW x \in Threads, \A y \in Threads \ {x} : pc'[y] = pc[y] /\ hand'[y] = hand[y]
  PROVE  Held' = [Held EXCEPT ![x] = IF pc'[x] = "link" THEN nil ELSE hand'[x]]
BY DEF Held

(* An enqueue takes effect when it exchanges the tail, a dequeue when it has *)
(* decided to return the entry; the other steps change no queue.            *)
LEMMA StepRefines ==
  ASSUME Parameters, IInv, [Next]_vars
  PROVE  Abstract!Next \/ UNCHANGED Abstract!vars
<1>1. ASSUME Held' = Held, order' = order, fresh' = fresh
      PROVE  UNCHANGED Abstract!vars
  BY <1>1 DEF Abstract!vars, Held
<1>2. CASE UNCHANGED vars
  BY <1>1, <1>2 DEF vars, Held
<1>3. ASSUME NEW x \in Threads, Step(x) \/ (x \in Producers /\ Malloc(x))
      PROVE  \A y \in Threads \ {x} : pc'[y] = pc[y] /\ hand'[y] = hand[y]
  BY <1>3 DEF Step, DeqHead, DeqNext, DeqCasTail, DeqCasHead, EnqSwap, EnqLink, Retry, Malloc,
              Goto, Return, ReturnNull, IInv, TypeOK
<1>4. ASSUME NEW x \in Threads,
             \/ DeqHead(x) \/ DeqCasHead(x) \/ Retry(x) \/ EnqLink(x)
             \/ DeqNext(x) /\ next[first[x]] = nil
             \/ DeqCasTail(x) /\ tail[From(x)] # first[x]
      PROVE  UNCHANGED Abstract!vars
  <2>1. \A y \in Threads \ {x} : pc'[y] = pc[y] /\ hand'[y] = hand[y]
    BY <1>3, <1>4 DEF Step
  <2>2. /\ order' = order /\ fresh' = fresh
        /\ (IF pc'[x] = "link" THEN nil ELSE hand'[x]) = (IF pc[x] = "link" THEN nil ELSE hand[x])
    BY <1>4 DEF DeqHead, DeqNext, DeqCasTail, DeqCasHead, EnqLink, Retry, Goto, ReturnNull, IInv, TypeOK
  <2>3. Held' = Held
    BY <2>1, <2>2 DEF Held
  <2> QED
    BY <1>1, <2>2, <2>3
<1>5. ASSUME NEW x \in Threads, NEW q \in Queues, q = From(x),
             \/ DeqNext(x) /\ next[first[x]] # nil
             \/ DeqCasTail(x) /\ tail[q] = first[x]
      PROVE  Abstract!Take(x, q)
  <2>1. /\ pc[x] \in {"next", "castail"} /\ pc'[x] \in {"enq", "cashead"} /\ hand'[x] = first[x]
        /\ order' = [order EXCEPT ![q] = Tail(@)] /\ fresh' = fresh
    BY <1>5 DEF DeqNext, DeqCasTail, Return, Goto, IInv, TypeOK
  <2>2. Len(order[q]) # 0 /\ first[x] = order[q][1] /\ order[q] \in Seq(Entries)
    BY <1>5, <2>1, FirstOf, OrderType
  <2>3. order[q] # <<>> /\ first[x] = Head(order[q])
    BY <2>2, SMT
  <2>4. Held[x] = nil
    BY <2>1 DEF Held, IInv, InHand
  <2>5. Held' = [Held EXCEPT ![x] = Head(order[q])]
    BY <1>3, <1>5, <2>1, <2>3, OneHand DEF Step
  <2> QED
    BY <2>1, <2>3, <2>4, <2>5 DEF Abstract!Take, Held
<1>6. ASSUME NEW x \in Threads, EnqSwap(x) PROVE \E q \in Queues : Abstract!Put(x, q)
  <2>1. PICK q \in Queues : q = To(x)
    BY <1>6, ToIsQueue DEF EnqSwap
  <2>2. PICK h \in Entries : h = hand[x]
    BY <1>6, ToIsQueue DEF EnqSwap
  <2>3. /\ pc[x] = "enq" /\ pc'[x] = "link" /\ order' = [order EXCEPT ![q] = Append(@, h)] /\ fresh' = fresh
    BY <1>6, <2>1, <2>2 DEF EnqSwap, Goto, IInv, TypeOK
  <2>4. Held[x] = h /\ h # nil
    BY <2>2, <2>3 DEF Held, Parameters
  <2>5. Held' = [Held EXCEPT ![x] = nil]
    BY <1>3, <1>6, <2>3, OneHand DEF Step
  <2>6. Abstract!Put(x, q)
    BY <2>3, <2>4, <2>5 DEF Abstract!Put, Held
  <2> QED
    BY <2>6
<1>7. ASSUME NEW p \in Producers, Malloc(p) PROVE p \in Threads /\ Abstract!Allocate(p)
  <2>0. p \in Threads
    BY DEF Threads
  <2>1. PICK e \in fresh : fresh' = fresh \ {e} /\ hand'[p] = e
    BY <1>7, <2>0 DEF Malloc, IInv, TypeOK
  <2>2. pc[p] = "null" /\ pc'[p] = "enq" /\ order' = order
    BY <1>7, <2>0 DEF Malloc, Goto, IInv, TypeOK
  <2>3. Held[p] = nil
    BY <2>0, <2>2 DEF Held, IInv, InHand
  <2>4. Held' = [Held EXCEPT ![p] = e]
    BY <1>3, <1>7, <2>0, <2>1, <2>2, OneHand
  <2> QED
    BY <2>0, <2>1, <2>2, <2>3, <2>4 DEF Abstract!Allocate, Held
<1>8. ASSUME NEW x \in Threads, Step(x) PROVE Abstract!Next \/ UNCHANGED Abstract!vars
  <2>1. PICK q \in Queues : q = From(x)
    BY Names
  <2>2. \/ DeqHead(x) \/ DeqCasHead(x) \/ Retry(x) \/ EnqLink(x)
        \/ DeqNext(x) /\ next[first[x]] = nil
        \/ DeqCasTail(x) /\ tail[From(x)] # first[x]
        \/ DeqNext(x) /\ next[first[x]] # nil
        \/ DeqCasTail(x) /\ tail[q] = first[x]
        \/ EnqSwap(x)
    BY <1>8, <2>1 DEF Step
  <2>3. UNCHANGED Abstract!vars \/ Abstract!Take(x, q) \/ \E r \in Queues : Abstract!Put(x, r)
    BY <1>4, <1>5, <1>6, <2>1, <2>2
  <2> QED
    BY <2>3 DEF Abstract!Next
<1> QED
  BY <1>2, <1>7, <1>8 DEF Next, Abstract!Next

(* mpsc-queue.h: the queue and its allocators hand every entry from place to *)
(* place in order, without losing it and without giving it to two threads,  *)
(* for any number of producers and entries.                                 *)
THEOREM Refinement == ASSUME Parameters PROVE Spec => ImplementsFifoQueues
<1>1. Init => Abstract!Init
  BY DEF Init, Abstract!Init
<1>2. IInv /\ [Next]_vars => [Abstract!Next]_(Abstract!vars)
  BY StepRefines
<1> QED
  BY <1>1, <1>2, Inductive, PTL DEF Spec, ImplementsFifoQueues, Abstract!Spec
=============================================================================
