------------------------ MODULE SharedTablesProofs --------------------------
(***************************************************************************)
(* Proofs about the tables of SharedTables, for any number of threads and  *)
(* any sizes: the channel sets of GPU tracing, the map of activity         *)
(* channels and the table of lock blame.  They do not touch each other, so *)
(* each part is about the behaviours of one table.                         *)
(***************************************************************************)
EXTENDS SharedTables, FiniteSetTheorems, TLAPS

(* A leaf is for Zenon unless it says SMTT. *)
USE Zenon

-----------------------------------------------------------------------------
(* The channel sets of GPU tracing (TraceDemux)                            *)

(* There are finitely many threads, and a set has room for a channel. *)
DemuxParameters == IsFiniteSet(PushThreads) /\ streams_per_thread \in Nat \ {0} /\ none \notin PushThreads

(* Where a thread is in gpu_trace_demultiplexer_push: it has a place that it  *)
(* has yet to fill, has filled it, has overshot the counter of a set, holds   *)
(* the lock, has a set that is not on the stack, or works on the newest set.  *)
Pushing == {"push", "pushlocked", "pushnew"}
Placed == {"publish", "unlock", "done"}
Over == {"reverse", "reverselocked"}
Inside == {"locked", "addlocked", "reverselocked", "pushlocked", "create", "pushnew", "publish", "unlock"}
Fresh == {"pushnew", "publish"}
AtNewest == {"addlocked", "reverselocked", "create"}
Places == {"top", "add", "lock"} \cup Pushing \cup Placed \cup Over \cup Inside

(* The threads that have a place in set k, that have yet to take back what    *)
(* they added to its counter, and whose channel is in it.                     *)
Holders(k) == {t \in PushThreads : set[t] = k /\ d_pc[t] \in Pushing \cup Placed}
Reversing(k) == {t \in PushThreads : set[t] = k /\ d_pc[t] \in Over}
Has(k) == {t \in PushThreads : set[t] = k /\ d_pc[t] \in Placed}
DemuxSets == [channels_size : Int, channels : SUBSET PushThreads]

DemuxTypeOK ==
  /\ sets \in Seq(DemuxSets) /\ visible \in 1 .. Len(sets)
  /\ d_pc \in [PushThreads -> Places] /\ set \in [PushThreads -> 1 .. Len(sets)]

(* One thread is between pthread_mutex_lock and pthread_mutex_unlock. *)
Locked == \A t \in PushThreads : d_pc[t] \in Inside <=> mtx = t

(* The sets are on the stack, but for the one that the thread with the lock   *)
(* is about to publish.                                                       *)
OnStack ==
  /\ \A t \in PushThreads : set[t] <= visible \/ d_pc[t] \in Fresh
  /\ \A t \in PushThreads : d_pc[t] \in Fresh => set[t] = Len(sets) /\ visible = Len(sets) - 1
  /\ visible = Len(sets) \/ \E t \in PushThreads : d_pc[t] \in Fresh
  /\ \A t \in PushThreads : d_pc[t] \in AtNewest => set[t] = visible

(* A set has the channels of the threads that have pushed to it, and no other. *)
Exact == \A k \in 1 .. Len(sets) : sets[k].channels = Has(k)

(* The counter of a set is that of the places given plus the overshoots that   *)
(* have not been taken back.                                                   *)
DemuxSize == \A k \in 1 .. Len(sets) :
  sets[k].channels_size = Cardinality(Holders(k)) + Cardinality(Reversing(k))

(* No more places are given than a set has. *)
Fits == \A k \in 1 .. Len(sets) : Cardinality(Holders(k)) <= streams_per_thread

(* A set is full when a thread has overshot it, and when there is a newer one  *)
(* or about to be: this is what an overshoot that hides a free place breaks.   *)
DemuxFull ==
  /\ \A k \in 1 .. Len(sets) : k < Len(sets) \/ Reversing(k) # {} =>
       Cardinality(Holders(k)) = streams_per_thread
  /\ \A t \in PushThreads : d_pc[t] = "create" => Cardinality(Holders(set[t])) = streams_per_thread

DemuxIInv == DemuxTypeOK /\ Locked /\ OnStack /\ Exact /\ DemuxSize /\ Fits /\ DemuxFull

-----------------------------------------------------------------------------
(* These sets of threads are finite, and their sizes are numbers. *)
LEMMA SetsFinite ==
  ASSUME DemuxParameters, NEW k
  PROVE  /\ IsFiniteSet(Holders(k)) /\ Cardinality(Holders(k)) \in Nat
         /\ IsFiniteSet(Reversing(k)) /\ Cardinality(Reversing(k)) \in Nat
         /\ IsFiniteSet(Has(k)) /\ Cardinality(Has(k)) \in Nat
         /\ Has(k) \subseteq Holders(k)
<1>1. Holders(k) \in SUBSET PushThreads /\ Reversing(k) \in SUBSET PushThreads /\ Has(k) \in SUBSET PushThreads
  BY DEF Holders, Reversing, Has
<1>2. IsFiniteSet(Holders(k)) /\ IsFiniteSet(Reversing(k)) /\ IsFiniteSet(Has(k))
  BY <1>1, FS_Subset DEF DemuxParameters
<1>3. Has(k) \subseteq Holders(k)
  BY DEF Has, Holders
<1> QED
  BY <1>2, <1>3, FS_CardinalityType

(* The demultiplexer starts with one empty set on the stack. *)
LEMMA DemuxIInvInit == ASSUME DemuxParameters, Demux!Init PROVE DemuxIInv
<1>1. Len(sets) = 1 /\ sets \in Seq(DemuxSets) /\ sets[1] = Demux!Empty
  BY SMTT(30) DEF Demux!Init, Demux!Empty, DemuxSets
<1>2. \A k : Holders(k) = {} /\ Reversing(k) = {} /\ Has(k) = {}
  BY DEF Demux!Init, Holders, Reversing, Has, Pushing, Placed, Over
<1>3. DemuxTypeOK
  BY <1>1, SMTT(30) DEF Demux!Init, DemuxTypeOK, Places
<1>4. Locked
  BY DEF Demux!Init, Locked, Inside, DemuxParameters
<1>5. OnStack
  BY <1>1, SMTT(30) DEF Demux!Init, OnStack, Fresh, AtNewest
<1>6. Exact
  <2> SUFFICES ASSUME NEW k \in 1 .. Len(sets) PROVE sets[k].channels = Has(k)
    BY DEF Exact
  <2>1. k = 1
    BY <1>1, SMTT(30)
  <2>2. Demux!Empty.channels = {}
    BY DEF Demux!Empty
  <2> QED
    BY <1>1, <1>2, <2>1, <2>2
<1>7. DemuxSize /\ Fits
  <2> SUFFICES ASSUME NEW k \in 1 .. Len(sets)
               PROVE  /\ sets[k].channels_size = Cardinality(Holders(k)) + Cardinality(Reversing(k))
                      /\ Cardinality(Holders(k)) <= streams_per_thread
    BY DEF DemuxSize, Fits
  <2>1. k = 1
    BY <1>1, SMTT(30)
  <2>2. Cardinality(Holders(k)) = 0 /\ Cardinality(Reversing(k)) = 0
    BY <1>2, FS_EmptySet
  <2>3. sets[k].channels_size = 0
    BY <1>1, <2>1, SMTT(30) DEF Demux!Empty
  <2> QED
    BY <2>2, <2>3, SMTT(30) DEF DemuxParameters
<1>8. DemuxFull
  BY <1>1, <1>2, SMTT(30) DEF DemuxFull, Demux!Init
<1> QED
  BY <1>3, <1>4, <1>5, <1>6, <1>7, <1>8 DEF DemuxIInv

(* An instance of a module that extends FiniteSets has a Cardinality of its    *)
(* own; it is the same.                                                       *)
LEMMA DemuxCardinality == \A S : Demux!Cardinality(S) = Cardinality(S)
BY DEF Demux!Cardinality, Cardinality

(* What the invariant says about the sets of channels. *)
LEMMA DemuxIInvImplies == ASSUME DemuxParameters, DemuxIInv PROVE Demux!PushedOnce /\ Demux!NoSetOverfull /\ Demux!NewOnlyIfFull
<1>1. DOMAIN sets = 1 .. Len(sets) /\ visible \in 1 .. Len(sets) /\ Len(sets) \in Nat
  BY SMTT(30) DEF DemuxIInv, DemuxTypeOK
<1>2. Demux!PushedOnce
  <2> SUFFICES ASSUME NEW t \in PushThreads, d_pc[t] = "done"
               PROVE  \E k \in 1 .. visible : \A j \in DOMAIN sets : t \in sets[j].channels <=> j = k
    BY DEF Demux!PushedOnce, Demux!Pushed
  <2>1. set[t] \in 1 .. visible
    <3>1. set[t] <= visible
      BY DEF DemuxIInv, OnStack, Fresh
    <3>2. set[t] \in 1 .. Len(sets)
      BY DEF DemuxIInv, DemuxTypeOK
    <3> QED
      BY <1>1, <3>1, <3>2, SMTT(30)
  <2>2. \A j \in DOMAIN sets : t \in sets[j].channels <=> j = set[t]
    BY <1>1 DEF DemuxIInv, Exact, Has, Placed
  <2> QED
    BY <2>1, <2>2
<1>3. Demux!NoSetOverfull
  <2> SUFFICES ASSUME NEW k \in 1 .. Len(sets) PROVE Cardinality(sets[k].channels) <= streams_per_thread
    BY <1>1, DemuxCardinality DEF Demux!NoSetOverfull
  <2>1. Cardinality(Has(k)) <= Cardinality(Holders(k))
    BY SetsFinite, FS_Subset
  <2>2. Cardinality(Holders(k)) <= streams_per_thread /\ sets[k].channels = Has(k)
    BY DEF DemuxIInv, Fits, Exact
  <2>3. Cardinality(Has(k)) \in Nat /\ Cardinality(Holders(k)) \in Nat /\ streams_per_thread \in Nat
    BY SetsFinite DEF DemuxParameters
  <2> QED
    BY <2>1, <2>2, <2>3, SMTT(30)
<1>4. Demux!NewOnlyIfFull
  <2> SUFFICES ASSUME NEW k \in 1 .. Len(sets), k < Len(sets)
               PROVE  Cardinality(sets[k].channels \cup
                        {t \in PushThreads : set[t] = k /\ d_pc[t] \in {"push", "pushlocked", "pushnew"}}) = streams_per_thread
    BY <1>1, DemuxCardinality DEF Demux!NewOnlyIfFull
  <2>1. sets[k].channels \cup {t \in PushThreads : set[t] = k /\ d_pc[t] \in {"push", "pushlocked", "pushnew"}} = Holders(k)
    BY DEF DemuxIInv, Exact, Has, Holders, Pushing
  <2> QED
    BY <2>1 DEF DemuxIInv, DemuxFull
<1> QED
  BY <1>2, <1>3, <1>4

-----------------------------------------------------------------------------
(* Only thread t moves: what becomes of the threads that are at set k. *)
Moves(t, k) ==
  /\ Holders(k)' \ {t} = Holders(k) \ {t}
  /\ Reversing(k)' \ {t} = Reversing(k) \ {t}
  /\ Has(k)' \ {t} = Has(k) \ {t}
  /\ t \in Holders(k) <=> set[t] = k /\ d_pc[t] \in Pushing \cup Placed
  /\ t \in Reversing(k) <=> set[t] = k /\ d_pc[t] \in Over
  /\ t \in Has(k) <=> set[t] = k /\ d_pc[t] \in Placed
  /\ t \in Holders(k)' <=> set'[t] = k /\ d_pc'[t] \in Pushing \cup Placed
  /\ t \in Reversing(k)' <=> set'[t] = k /\ d_pc'[t] \in Over
  /\ t \in Has(k)' <=> set'[t] = k /\ d_pc'[t] \in Placed

(* This holds of every step, for a step moves one thread. *)
LEMMA Others ==
  ASSUME NEW t \in PushThreads, \A u \in PushThreads \ {t} : d_pc'[u] = d_pc[u] /\ set'[u] = set[u], NEW k
  PROVE  Moves(t, k)
BY DEF Moves, Holders, Reversing, Has

(* Sets that agree on t and on all others are equal. *)
LEMMA SameBut ==
  ASSUME NEW A, NEW B, NEW t, A \ {t} = B \ {t}, t \in A <=> t \in B
  PROVE  A = B
BY SMTT(30)

(* What t is not in before or after its step has not changed. *)
LEMMA Kept ==
  ASSUME NEW t, NEW k, Moves(t, k)
  PROVE  /\ (set[t] # k \/ d_pc[t] \notin Pushing \cup Placed) /\ (set'[t] # k \/ d_pc'[t] \notin Pushing \cup Placed)
              => Holders(k)' = Holders(k)
         /\ (set[t] # k \/ d_pc[t] \notin Over) /\ (set'[t] # k \/ d_pc'[t] \notin Over)
              => Reversing(k)' = Reversing(k)
         /\ (set[t] # k \/ d_pc[t] \notin Placed) /\ (set'[t] # k \/ d_pc'[t] \notin Placed)
              => Has(k)' = Has(k)
<1>1. /\ Holders(k)' \ {t} = Holders(k) \ {t}
      /\ Reversing(k)' \ {t} = Reversing(k) \ {t}
      /\ Has(k)' \ {t} = Has(k) \ {t}
  BY DEF Moves
<1>2. /\ (t \in Holders(k)' <=> t \in Holders(k)) => Holders(k)' = Holders(k)
      /\ (t \in Reversing(k)' <=> t \in Reversing(k)) => Reversing(k)' = Reversing(k)
      /\ (t \in Has(k)' <=> t \in Has(k)) => Has(k)' = Has(k)
  BY <1>1, SameBut, Zenon
<1> QED
  BY <1>2 DEF Moves

(* A step that moves no counter and gives no place keeps the counts. *)
LEMMA Unmoved ==
  ASSUME DemuxSize, Fits, Len(sets') = Len(sets),
         \A k \in 1 .. Len(sets) : /\ sets'[k].channels_size = sets[k].channels_size
                                   /\ Holders(k)' = Holders(k) /\ Reversing(k)' = Reversing(k)
  PROVE  DemuxSize' /\ Fits'
BY DEF DemuxSize, Fits

(* Goto moves one thread. *)
LEMMA DemuxSteps ==
  ASSUME DemuxTypeOK, NEW t \in PushThreads, NEW l, Demux!Goto(t, l)
  PROVE  d_pc'[t] = l /\ \A u \in PushThreads \ {t} : d_pc'[u] = d_pc[u]
BY DEF DemuxTypeOK, Demux!Goto

(* Reading the top of the stack, locking, publishing a set and unlocking. *)
LEMMA MovesKeep ==
  ASSUME DemuxParameters, DemuxIInv, NEW t \in PushThreads, Demux!Top(t) \/ Demux!Lock(t) \/ Demux!Publish(t) \/ Demux!Unlock(t)
  PROVE  DemuxIInv'
<1>1. sets' = sets /\ Len(sets) \in Nat /\ DOMAIN sets = 1 .. Len(sets)
  BY SMTT(30) DEF DemuxIInv, DemuxTypeOK, Demux!Top, Demux!Lock, Demux!Publish, Demux!Unlock
<1>2. /\ set' \in [PushThreads -> 1 .. Len(sets)] /\ d_pc' \in [PushThreads -> Places]
      /\ \A u \in PushThreads \ {t} : d_pc'[u] = d_pc[u] /\ set'[u] = set[u]
  BY DEF DemuxIInv, DemuxTypeOK, Demux!Top, Demux!Lock, Demux!Publish, Demux!Unlock, Demux!Goto, Places, Placed, Inside
<1>3. \/ /\ {d_pc[t], d_pc'[t]} \subseteq {"top", "add", "locked", "addlocked", "lock"}
      \/ /\ {d_pc[t], d_pc'[t]} \subseteq Placed /\ set'[t] = set[t]
  BY DEF DemuxIInv, DemuxTypeOK, Demux!Top, Demux!Lock, Demux!Publish, Demux!Unlock, Demux!Goto, Placed
<1>4. \A k : Holders(k)' = Holders(k) /\ Reversing(k)' = Reversing(k) /\ Has(k)' = Has(k)
  <2> TAKE k
  <2>0. Moves(t, k)
    BY <1>2, Others
  <2>1. CASE {d_pc[t], d_pc'[t]} \subseteq {"top", "add", "locked", "addlocked", "lock"}
    <3>1. d_pc[t] \notin Pushing \cup Placed \cup Over /\ d_pc'[t] \notin Pushing \cup Placed \cup Over
      BY <2>1 DEF Pushing, Placed, Over
    <3> QED
      BY <2>0, <3>1, SMTT(30) DEF Moves
  <2>2. CASE {d_pc[t], d_pc'[t]} \subseteq Placed /\ set'[t] = set[t]
    <3>1. d_pc[t] \in Placed \ Over /\ d_pc'[t] \in Placed \ Over
      BY <2>2 DEF Placed, Over
    <3> QED
      BY <2>0, <2>2, <3>1, SMTT(30) DEF Moves
  <2> QED
    BY <1>3, <2>1, <2>2
<1>5. DemuxSize' /\ Fits' /\ Exact'
  BY <1>1, <1>4, Unmoved DEF DemuxIInv, Exact
<1>6. DemuxFull'
  BY <1>1, <1>2, <1>3, <1>4 DEF DemuxIInv, DemuxFull, Placed
<1>7. Locked'
  BY SMTT(30) DEF DemuxIInv, DemuxTypeOK, Locked, Demux!Top, Demux!Lock, Demux!Publish, Demux!Unlock, Demux!Goto, Inside, DemuxParameters
<1>8. OnStack' /\ visible' \in 1 .. Len(sets)
  <2>1. CASE Demux!Top(t)
    <3>1. /\ visible' = visible /\ set'[t] = visible /\ visible \in 1 .. Len(sets)
          /\ d_pc[t] \notin Fresh /\ d_pc'[t] \notin Fresh
      BY <2>1 DEF DemuxIInv, DemuxTypeOK, Demux!Top, Demux!Goto, Fresh
    <3>2. \A u \in PushThreads : /\ d_pc'[u] \in Fresh <=> d_pc[u] \in Fresh
                                 /\ d_pc[u] \in Fresh => set'[u] = set[u]
                                 /\ set'[u] = set[u] \/ set'[u] = visible
                                 /\ d_pc'[u] \in AtNewest => set'[u] = visible
      BY <1>2, <3>1 DEF DemuxIInv, OnStack
    <3>3. visible \in Int /\ visible <= visible
      BY <1>1, <3>1, SMTT(30)
    <3>4. \A u \in PushThreads : set'[u] <= visible \/ d_pc'[u] \in Fresh
      BY <3>2, <3>3 DEF DemuxIInv, OnStack
    <3>5. \A u \in PushThreads : d_pc'[u] \in Fresh => set'[u] = Len(sets) /\ visible = Len(sets) - 1
      BY <3>2 DEF DemuxIInv, OnStack
    <3>6. visible = Len(sets) \/ \E u \in PushThreads : d_pc'[u] \in Fresh
      BY <3>2 DEF DemuxIInv, OnStack
    <3> QED
      BY <1>1, <3>1, <3>2, <3>4, <3>5, <3>6 DEF OnStack
  <2>2. CASE Demux!Lock(t)
    BY <1>1, <2>2 DEF DemuxIInv, DemuxTypeOK, Demux!Lock, Demux!Goto, OnStack, Fresh, AtNewest
  <2>3. CASE Demux!Publish(t)
    <3>1. /\ visible' = set[t] /\ set' = set /\ d_pc[t] \in Fresh \cap Inside
          /\ d_pc'[t] \notin Fresh \cup AtNewest
      BY <2>3 DEF DemuxIInv, DemuxTypeOK, Demux!Publish, Demux!Goto, Fresh, Inside, AtNewest
    <3>2. set[t] = Len(sets)
      BY <3>1 DEF DemuxIInv, OnStack
    <3>3. \A u \in PushThreads \ {t} : d_pc'[u] = d_pc[u] /\ d_pc[u] \notin Inside
      BY <1>2, <3>1 DEF DemuxIInv, Locked
    <3>4. \A u \in PushThreads : d_pc'[u] \notin Fresh \cup AtNewest
      BY <3>1, <3>3 DEF Fresh, AtNewest, Inside
    <3>5. \A u \in PushThreads : set[u] <= Len(sets)
      BY <1>1, SMTT(30) DEF DemuxIInv, DemuxTypeOK
    <3>6. Len(sets) \in 1 .. Len(sets)
      BY <1>1, SMTT(30) DEF DemuxIInv, DemuxTypeOK
    <3> QED
      BY <1>1, <3>1, <3>2, <3>4, <3>5, <3>6 DEF OnStack
  <2>4. CASE Demux!Unlock(t)
    BY <1>1, <2>4 DEF DemuxIInv, DemuxTypeOK, Demux!Unlock, Demux!Goto, OnStack, Fresh, AtNewest
  <2> QED
    BY <2>1, <2>2, <2>3, <2>4
<1> QED
  BY <1>1, <1>2, <1>5, <1>6, <1>7, <1>8 DEF DemuxIInv, DemuxTypeOK

(* The counter of set j changes, and nothing else of it. *)
LEMMA CounterField ==
  ASSUME DemuxTypeOK, NEW j \in 1 .. Len(sets), NEW n \in Int,
         sets' = [sets EXCEPT ![j].channels_size = n]
  PROVE  /\ sets' \in Seq(DemuxSets) /\ Len(sets') = Len(sets) /\ Len(sets) \in Nat
         /\ sets'[j].channels_size = n /\ sets'[j].channels = sets[j].channels
         /\ \A k \in 1 .. Len(sets) \ {j} : sets'[k] = sets[k]
<1>1. sets \in Seq(DemuxSets) /\ sets[j] \in DemuxSets /\ Len(sets) \in Nat
  BY SMTT(30) DEF DemuxTypeOK
<1> DEFINE r == [sets[j] EXCEPT !.channels_size = n]
<1>2. r \in DemuxSets /\ r.channels_size = n /\ r.channels = sets[j].channels
  BY <1>1 DEF DemuxSets
<1>3. sets' = [sets EXCEPT ![j] = r]
  OBVIOUS
<1> HIDE DEF r
<1> QED
  BY <1>1, <1>2, <1>3, SMTT(30)

(* The channels of set j change, and nothing else of it. *)
LEMMA ChannelsField ==
  ASSUME DemuxTypeOK, NEW j \in 1 .. Len(sets), NEW c \in SUBSET PushThreads,
         sets' = [sets EXCEPT ![j].channels = c]
  PROVE  /\ sets' \in Seq(DemuxSets) /\ Len(sets') = Len(sets) /\ Len(sets) \in Nat
         /\ sets'[j].channels = c /\ sets'[j].channels_size = sets[j].channels_size
         /\ \A k \in 1 .. Len(sets) \ {j} : sets'[k] = sets[k]
<1>1. sets \in Seq(DemuxSets) /\ sets[j] \in DemuxSets /\ Len(sets) \in Nat
  BY SMTT(30) DEF DemuxTypeOK
<1> DEFINE r == [sets[j] EXCEPT !.channels = c]
<1>2. r \in DemuxSets /\ r.channels = c /\ r.channels_size = sets[j].channels_size
  BY <1>1 DEF DemuxSets
<1>3. sets' = [sets EXCEPT ![j] = r]
  OBVIOUS
<1> HIDE DEF r
<1> QED
  BY <1>1, <1>2, <1>3, SMTT(30)

(* The channel goes to the place that was reserved for it. *)
LEMMA PushKeeps ==
  ASSUME DemuxParameters, DemuxIInv, NEW t \in PushThreads, Demux!Push(t)
  PROVE  DemuxIInv'
<1> DEFINE j == set[t]
<1>1. /\ j \in 1 .. Len(sets) /\ visible' = visible /\ mtx' = mtx /\ set' = set
      /\ d_pc[t] \in Pushing /\ d_pc'[t] \in Placed /\ d_pc' \in [PushThreads -> Places]
      /\ \A u \in PushThreads \ {t} : d_pc'[u] = d_pc[u] /\ set'[u] = set[u]
      /\ d_pc[t] \in Inside <=> d_pc'[t] \in Inside
      /\ d_pc[t] \in Fresh <=> d_pc'[t] \in Fresh
      /\ d_pc'[t] \notin AtNewest \cup {"create"}
  BY DEF DemuxIInv, DemuxTypeOK, Demux!Push, Demux!Goto, Pushing, Placed, Places, Inside, Fresh, AtNewest
<1>2. /\ sets' \in Seq(DemuxSets) /\ Len(sets') = Len(sets) /\ Len(sets) \in Nat
      /\ sets'[j].channels_size = sets[j].channels_size /\ sets'[j].channels = sets[j].channels \cup {t}
      /\ \A k \in 1 .. Len(sets) \ {j} : sets'[k] = sets[k]
  <2>1. sets[j] \in DemuxSets
    BY <1>1, SMTT(30) DEF DemuxIInv, DemuxTypeOK
  <2>2. sets[j].channels_size \in Int /\ sets[j].channels \cup {t} \in SUBSET PushThreads
    BY <2>1 DEF DemuxSets
  <2>3. sets' = [sets EXCEPT ![j].channels = sets[j].channels \cup {t}]
    BY DEF Demux!Push
  <2> HIDE DEF j
  <2> QED
    BY <1>1, <2>2, <2>3, ChannelsField DEF DemuxIInv
<1>3. \A k : /\ Holders(k)' = Holders(k) /\ Reversing(k)' = Reversing(k)
            /\ Has(k)' = IF k = j THEN Has(k) \cup {t} ELSE Has(k)
  <2> TAKE k
  <2>1. Moves(t, k)
    BY <1>1, Others
  <2>2. /\ d_pc[t] \in Pushing /\ d_pc'[t] \in Placed /\ set'[t] = set[t]
        /\ d_pc[t] \notin Over /\ d_pc'[t] \notin Over /\ d_pc[t] \notin Placed
    BY <1>1 DEF Pushing, Placed, Over
  <2>3. Holders(k)' = Holders(k) /\ Reversing(k)' = Reversing(k)
    BY <2>1, <2>2, SMTT(30) DEF Moves
  <2>4. Has(k)' = IF k = j THEN Has(k) \cup {t} ELSE Has(k)
    BY <2>1, <2>2, SMTT(30) DEF Moves
  <2> QED
    BY <2>3, <2>4
<1> HIDE DEF j
<1>4. DemuxSize' /\ Fits'
  BY <1>1, <1>2, <1>3, Unmoved DEF DemuxIInv
<1>5. Exact'
  BY <1>1, <1>2, <1>3 DEF DemuxIInv, Exact
<1>6. DemuxFull'
  BY <1>1, <1>2, <1>3 DEF DemuxIInv, DemuxFull
<1>7. Locked'
  BY <1>1 DEF DemuxIInv, Locked
<1>8. OnStack'
  BY <1>1, <1>2 DEF DemuxIInv, OnStack
<1> QED
  BY <1>1, <1>2, <1>4, <1>5, <1>6, <1>7, <1>8 DEF DemuxIInv, DemuxTypeOK

(* base_channel_set_add and its reversal: the counter of one set moves. *)
LEMMA CounterMoves ==
  ASSUME DemuxParameters, DemuxIInv, NEW t \in PushThreads, Demux!Reserve(t) \/ Demux!Reverse(t)
  PROVE  /\ set[t] \in 1 .. Len(sets) /\ Len(sets) \in Nat /\ set' = set
         /\ sets' \in Seq(DemuxSets) /\ Len(sets') = Len(sets)
         /\ sets'[set[t]].channels_size =
              IF Demux!Reserve(t) THEN sets[set[t]].channels_size + 1 ELSE sets[set[t]].channels_size - 1
         /\ sets'[set[t]].channels = sets[set[t]].channels
         /\ \A k \in 1 .. Len(sets) \ {set[t]} : sets'[k] = sets[k]
<1> DEFINE j == set[t]
<1>1. j \in 1 .. Len(sets) /\ Len(sets) \in Nat /\ set' = set /\ sets[j] \in DemuxSets
  BY SMTT(30) DEF DemuxIInv, DemuxTypeOK, Demux!Reserve, Demux!Reverse
<1>2. /\ sets[j].channels_size + 1 \in Int /\ sets[j].channels_size - 1 \in Int
      /\ sets[j].channels \in SUBSET PushThreads
  BY <1>1, SMTT(30) DEF DemuxSets
<1>3. CASE Demux!Reserve(t)
  <2>1. sets' = [sets EXCEPT ![j].channels_size = sets[j].channels_size + 1]
    BY <1>3 DEF Demux!Reserve
  <2> HIDE DEF j
  <2>2. /\ sets' \in Seq(DemuxSets) /\ Len(sets') = Len(sets)
        /\ sets'[j].channels_size = sets[j].channels_size + 1 /\ sets'[j].channels = sets[j].channels
        /\ \A k \in 1 .. Len(sets) \ {j} : sets'[k] = sets[k]
    BY <1>1, <1>2, <2>1, CounterField DEF DemuxIInv
  <2> QED
    BY <1>1, <1>3, <2>2 DEF j
<1>4. CASE Demux!Reverse(t)
  <2>1. sets' = [sets EXCEPT ![j].channels_size = sets[j].channels_size - 1] /\ ~Demux!Reserve(t)
    BY <1>4 DEF Demux!Reserve, Demux!Reverse
  <2> HIDE DEF j
  <2>2. /\ sets' \in Seq(DemuxSets) /\ Len(sets') = Len(sets)
        /\ sets'[j].channels_size = sets[j].channels_size - 1 /\ sets'[j].channels = sets[j].channels
        /\ \A k \in 1 .. Len(sets) \ {j} : sets'[k] = sets[k]
    BY <1>1, <1>2, <2>1, CounterField DEF DemuxIInv
  <2> QED
    BY <1>1, <2>1, <2>2 DEF j
<1> QED
  BY <1>3, <1>4

(* What such a step does not touch. *)
LEMMA CounterKeeps ==
  ASSUME DemuxParameters, DemuxIInv, NEW t \in PushThreads, Demux!Reserve(t) \/ Demux!Reverse(t)
  PROVE  /\ DemuxTypeOK' /\ Locked' /\ OnStack' /\ Exact'
         /\ \A k : Moves(t, k)
<1>1. /\ visible' = visible /\ mtx' = mtx /\ set' = set /\ d_pc' \in [PushThreads -> Places]
      /\ \A u \in PushThreads \ {t} : d_pc'[u] = d_pc[u] /\ set'[u] = set[u]
      /\ d_pc[t] \in Inside <=> d_pc'[t] \in Inside
      /\ d_pc[t] \notin Fresh /\ d_pc'[t] \notin Fresh
      /\ d_pc'[t] \in AtNewest => d_pc[t] \in AtNewest
      /\ d_pc[t] \notin Placed /\ d_pc'[t] \notin Placed
  BY DEF DemuxIInv, DemuxTypeOK, Demux!Reserve, Demux!Reverse, Demux!Goto, Pushing, Over, Placed, Places, Inside, Fresh, AtNewest
<1>2. /\ Len(sets) \in Nat /\ sets' \in Seq(DemuxSets) /\ Len(sets') = Len(sets)
      /\ \A k \in 1 .. Len(sets) : sets'[k].channels = sets[k].channels
  BY CounterMoves
<1>3. \A k : Moves(t, k)
  BY <1>1, Others
<1>4. \A k : Has(k)' = Has(k)
  <2> TAKE k
  <2>1. Moves(t, k) /\ d_pc[t] \notin Placed /\ d_pc'[t] \notin Placed
    BY <1>1, <1>3
  <2> QED
    BY <2>1, SMTT(30) DEF Moves
<1>5. Exact'
  BY <1>2, <1>4 DEF DemuxIInv, Exact
<1>6. Locked'
  BY <1>1 DEF DemuxIInv, Locked
<1>7. OnStack'
  BY <1>1, <1>2 DEF DemuxIInv, OnStack
<1> QED
  BY <1>1, <1>2, <1>3, <1>5, <1>6, <1>7 DEF DemuxIInv, DemuxTypeOK

(* The counter was below the limit: the thread has a place. *)
LEMMA ReserveKeeps ==
  ASSUME DemuxParameters, DemuxIInv, NEW t \in PushThreads, Demux!Reserve(t), Demux!HasRoom(set[t])
  PROVE  DemuxIInv'
<1>0. PICK j \in 1 .. Len(sets) : j = set[t]
  BY CounterMoves
<1>1. /\ Len(sets) \in Nat /\ set' = set
      /\ Len(sets') = Len(sets)
      /\ sets'[j].channels_size = sets[j].channels_size + 1
      /\ \A k \in 1 .. Len(sets) \ {j} : sets'[k] = sets[k]
  BY <1>0, CounterMoves
<1>2. DemuxTypeOK' /\ Locked' /\ OnStack' /\ Exact'
  BY CounterKeeps
<1>3. /\ d_pc'[t] \in Pushing /\ d_pc'[t] # "create" /\ d_pc'[t] \notin Over
      /\ d_pc[t] \notin Pushing \cup Placed \cup Over
      /\ \A u \in PushThreads \ {t} : d_pc'[u] = d_pc[u]
  BY DEF DemuxIInv, DemuxTypeOK, Demux!Reserve, Demux!Goto, Pushing, Placed, Over
<1>4. \A k : Reversing(k)' = Reversing(k)
  <2> TAKE k
  <2>1. Moves(t, k) /\ d_pc[t] \notin Over /\ d_pc'[t] \notin Over
    BY <1>3, CounterKeeps
  <2> QED
    BY <2>1, Kept, Zenon
<1>5. ASSUME NEW k, k # j PROVE Holders(k)' = Holders(k)
  <2>1. Moves(t, k) /\ set'[t] # k /\ set[t] # k
    BY <1>0, <1>1, <1>5, CounterKeeps
  <2> QED
    BY <2>1, Kept, Zenon
<1>6. Holders(j)' = Holders(j) \cup {t} /\ t \notin Holders(j)
  <2>1. Moves(t, j)
    BY CounterKeeps
  <2> QED
    BY <1>0, <1>1, <1>3, <2>1 DEF Moves
<1>7. sets[j].channels_size < streams_per_thread
  BY <1>0 DEF Demux!HasRoom
<1>8. Cardinality(Holders(j)') = Cardinality(Holders(j)) + 1
  BY <1>6, SetsFinite, FS_AddElement
<1>9. /\ sets[j].channels_size = Cardinality(Holders(j)) + Cardinality(Reversing(j))
      /\ Cardinality(Holders(j)) \in Nat /\ Cardinality(Reversing(j)) \in Nat
  BY <1>1, SetsFinite DEF DemuxIInv, DemuxSize
<1>10. Cardinality(Holders(j)) < streams_per_thread /\ streams_per_thread \in Nat
  BY <1>7, <1>9, SMTT(30) DEF DemuxParameters
<1>11. DemuxSize' /\ Fits'
  <2> SUFFICES ASSUME NEW k \in 1 .. Len(sets)
               PROVE  /\ sets'[k].channels_size = Cardinality(Holders(k)') + Cardinality(Reversing(k)')
                      /\ Cardinality(Holders(k)') <= streams_per_thread
    BY <1>1 DEF DemuxSize, Fits
  <2>1. CASE k = j
    <3>1. Cardinality(Holders(j)') <= streams_per_thread
      BY <1>8, <1>9, <1>10, SMTT(30)
    <3>2. sets'[j].channels_size = Cardinality(Holders(j)') + Cardinality(Reversing(j)')
      BY <1>1, <1>4, <1>8, <1>9, SMTT(30)
    <3> QED
      BY <2>1, <3>1, <3>2
  <2>2. CASE k # j
    BY <1>1, <1>4, <1>5, <2>2 DEF DemuxIInv, DemuxSize, Fits
  <2> QED
    BY <2>1, <2>2
<1>13. DemuxFull'
  <2>1. j = Len(sets) /\ Reversing(j) = {} /\ \A u \in PushThreads : d_pc[u] = "create" => set[u] # j
    BY <1>1, <1>9, <1>10, SMTT(30) DEF DemuxIInv, DemuxFull
  <2> QED
    BY <1>1, <1>3, <1>4, <1>5, <2>1, SMTT(30) DEF DemuxIInv, DemuxFull
<1> QED
  BY <1>2, <1>11, <1>13 DEF DemuxIInv

(* The counter was at the limit or above it, and then every place is given:    *)
(* overshoots happen only to a full set.                                       *)
LEMMA OvershootKeeps ==
  ASSUME DemuxParameters, DemuxIInv, NEW t \in PushThreads, Demux!Reserve(t), ~Demux!HasRoom(set[t])
  PROVE  DemuxIInv'
<1>0. PICK j \in 1 .. Len(sets) : j = set[t]
  BY CounterMoves
<1>1. /\ Len(sets) \in Nat /\ set' = set
      /\ Len(sets') = Len(sets)
      /\ sets'[j].channels_size = sets[j].channels_size + 1
      /\ \A k \in 1 .. Len(sets) \ {j} : sets'[k] = sets[k]
  BY <1>0, CounterMoves
<1>2. DemuxTypeOK' /\ Locked' /\ OnStack' /\ Exact'
  BY CounterKeeps
<1>3. /\ d_pc'[t] \in Over /\ d_pc'[t] # "create" /\ d_pc'[t] \notin Pushing \cup Placed
      /\ d_pc[t] \notin Pushing \cup Placed \cup Over
      /\ \A u \in PushThreads \ {t} : d_pc'[u] = d_pc[u]
  BY DEF DemuxIInv, DemuxTypeOK, Demux!Reserve, Demux!Goto, Pushing, Placed, Over
<1>4. \A k : Holders(k)' = Holders(k)
  <2> TAKE k
  <2>1. Moves(t, k) /\ d_pc[t] \notin Pushing \cup Placed /\ d_pc'[t] \notin Pushing \cup Placed
    BY <1>3, CounterKeeps
  <2> QED
    BY <2>1, Kept, Zenon
<1>5. ASSUME NEW k, k # j PROVE Reversing(k)' = Reversing(k)
  <2>1. Moves(t, k) /\ set'[t] # k /\ set[t] # k
    BY <1>0, <1>1, <1>5, CounterKeeps
  <2> QED
    BY <2>1, Kept, Zenon
<1>6. Reversing(j)' = Reversing(j) \cup {t} /\ t \notin Reversing(j)
  <2>1. Moves(t, j) /\ set'[t] = j /\ d_pc'[t] \in Over /\ d_pc[t] \notin Over
    BY <1>0, <1>1, <1>3, CounterKeeps
  <2> QED
    BY <2>1 DEF Moves
<1>7. ~ (sets[j].channels_size < streams_per_thread)
  BY <1>0 DEF Demux!HasRoom
<1>8. Cardinality(Reversing(j)') = Cardinality(Reversing(j)) + 1
  BY <1>6, SetsFinite, FS_AddElement
<1>9. /\ sets[j].channels_size = Cardinality(Holders(j)) + Cardinality(Reversing(j))
      /\ Cardinality(Holders(j)) \in Nat /\ Cardinality(Reversing(j)) \in Nat
      /\ Cardinality(Holders(j)) <= streams_per_thread /\ streams_per_thread \in Nat
  BY <1>1, SetsFinite DEF DemuxIInv, DemuxSize, Fits, DemuxParameters
<1>10. Cardinality(Holders(j)) = streams_per_thread
  <2>1. CASE Reversing(j) = {}
    BY <1>7, <1>9, <2>1, FS_EmptySet, SMTT(30)
  <2>2. CASE Reversing(j) # {}
    BY <2>2 DEF DemuxIInv, DemuxFull
  <2> QED
    BY <2>1, <2>2
<1>11. DemuxSize'
  <2> SUFFICES ASSUME NEW k \in 1 .. Len(sets)
               PROVE  sets'[k].channels_size = Cardinality(Holders(k)') + Cardinality(Reversing(k)')
    BY <1>1 DEF DemuxSize
  <2>1. CASE k = j
    BY <1>1, <1>4, <1>8, <1>9, <2>1, SMTT(30)
  <2>2. CASE k # j
    BY <1>1, <1>4, <1>5, <2>2 DEF DemuxIInv, DemuxSize
  <2> QED
    BY <2>1, <2>2
<1>12. Fits'
  BY <1>1, <1>4 DEF DemuxIInv, Fits
<1>13. DemuxFull'
  BY <1>1, <1>3, <1>4, <1>5, <1>10 DEF DemuxIInv, DemuxFull
<1> QED
  BY <1>2, <1>11, <1>12, <1>13 DEF DemuxIInv

(* An overshoot is taken back. *)
LEMMA ReverseKeeps ==
  ASSUME DemuxParameters, DemuxIInv, NEW t \in PushThreads, Demux!Reverse(t)
  PROVE  DemuxIInv'
<1>0. PICK j \in 1 .. Len(sets) : j = set[t]
  BY CounterMoves
<1>1. /\ Len(sets) \in Nat /\ set' = set
      /\ Len(sets') = Len(sets)
      /\ sets'[j].channels_size = sets[j].channels_size - 1
      /\ \A k \in 1 .. Len(sets) \ {j} : sets'[k] = sets[k]
  <2>1. ~Demux!Reserve(t)
    BY DEF Demux!Reserve, Demux!Reverse
  <2> QED
    BY <1>0, <2>1, CounterMoves
<1>2. DemuxTypeOK' /\ Locked' /\ OnStack' /\ Exact'
  BY CounterKeeps
<1>3. /\ d_pc[t] \in Over /\ d_pc'[t] \notin Pushing \cup Placed \cup Over
      /\ d_pc[t] \notin Pushing \cup Placed
      /\ \A u \in PushThreads \ {t} : d_pc'[u] = d_pc[u]
  BY DEF DemuxIInv, DemuxTypeOK, Demux!Reverse, Demux!Goto, Pushing, Placed, Over
<1>4. \A k : Holders(k)' = Holders(k)
  <2> TAKE k
  <2>1. Moves(t, k) /\ d_pc[t] \notin Pushing \cup Placed /\ d_pc'[t] \notin Pushing \cup Placed
    BY <1>3, CounterKeeps
  <2> QED
    BY <2>1, Kept, Zenon
<1>5. ASSUME NEW k, k # j PROVE Reversing(k)' = Reversing(k)
  <2>1. Moves(t, k) /\ set'[t] # k /\ set[t] # k
    BY <1>0, <1>1, <1>5, CounterKeeps
  <2> QED
    BY <2>1, Kept, Zenon
<1>6. Reversing(j)' = Reversing(j) \ {t} /\ t \in Reversing(j)
  <2>1. Moves(t, j) /\ set[t] = j /\ d_pc[t] \in Over /\ d_pc'[t] \notin Over
    BY <1>0, <1>3, CounterKeeps
  <2> QED
    BY <2>1 DEF Moves
<1>8. Cardinality(Reversing(j)') = Cardinality(Reversing(j)) - 1
  BY <1>6, SetsFinite, FS_RemoveElement
<1>9. /\ sets[j].channels_size = Cardinality(Holders(j)) + Cardinality(Reversing(j))
      /\ Cardinality(Holders(j)) \in Nat /\ Cardinality(Reversing(j)) \in Nat
  BY SetsFinite DEF DemuxIInv, DemuxSize
<1>10. Cardinality(Holders(j)) = streams_per_thread
  BY <1>6 DEF DemuxIInv, DemuxFull
<1>11. DemuxSize'
  <2> SUFFICES ASSUME NEW k \in 1 .. Len(sets)
               PROVE  sets'[k].channels_size = Cardinality(Holders(k)') + Cardinality(Reversing(k)')
    BY <1>1 DEF DemuxSize
  <2>1. CASE k = j
    BY <1>1, <1>4, <1>8, <1>9, <2>1, SMTT(30)
  <2>2. CASE k # j
    BY <1>1, <1>4, <1>5, <2>2 DEF DemuxIInv, DemuxSize
  <2> QED
    BY <2>1, <2>2
<1>12. Fits'
  BY <1>1, <1>4 DEF DemuxIInv, Fits
<1>13. DemuxFull'
  BY <1>0, <1>1, <1>3, <1>4, <1>5, <1>10 DEF DemuxIInv, DemuxFull
<1> QED
  BY <1>2, <1>11, <1>12, <1>13 DEF DemuxIInv

(* The thread with the lock opens a set, with a place for itself. *)
LEMMA CreateKeeps ==
  ASSUME DemuxParameters, DemuxIInv, NEW t \in PushThreads, Demux!Create(t)
  PROVE  DemuxIInv'
<1>0. PICK n \in Nat : n = Len(sets)
  BY SMTT(30) DEF DemuxIInv, DemuxTypeOK
<1> DEFINE r == [channels_size |-> 1, channels |-> {}]
<1>1. /\ sets \in Seq(DemuxSets) /\ sets' = Append(sets, r) /\ visible' = visible /\ mtx' = mtx
      /\ d_pc[t] = "create" /\ d_pc'[t] = "pushnew" /\ set'[t] = n + 1
      /\ d_pc' \in [PushThreads -> Places] /\ set' \in [PushThreads -> 1 .. n + 1]
      /\ \A u \in PushThreads \ {t} : d_pc'[u] = d_pc[u] /\ set'[u] = set[u]
  <2>1. [Demux!Empty EXCEPT !.channels_size = 1] = r
    BY SMTT(30) DEF Demux!Empty
  <2> HIDE DEF r
  <2>2. set \in [PushThreads -> 1 .. n] /\ d_pc \in [PushThreads -> Places] /\ "pushnew" \in Places
    BY <1>0 DEF DemuxIInv, DemuxTypeOK, Places, Pushing
  <2>3. /\ sets' = Append(sets, r) /\ sets \in Seq(DemuxSets)
        /\ set' = [set EXCEPT ![t] = n + 1] /\ d_pc' = [d_pc EXCEPT ![t] = "pushnew"]
    BY <1>0, <2>1 DEF DemuxIInv, DemuxTypeOK, Demux!Create, Demux!Goto
  <2> QED
    BY <2>2, <2>3, SMTT(30) DEF Demux!Create
<1>2. r \in DemuxSets /\ r.channels_size = 1 /\ r.channels = {}
  BY SMTT(30) DEF DemuxSets
<1> HIDE DEF r
<1>3. /\ sets' \in Seq(DemuxSets) /\ Len(sets') = n + 1 /\ sets'[n + 1] = r
      /\ \A k \in 1 .. n : sets'[k] = sets[k]
  BY <1>0, <1>1, <1>2, SMTT(30)
<1>4. \A u \in PushThreads \ {t} : d_pc[u] \notin Inside
  <2>1. d_pc[t] \in Inside
    BY <1>1 DEF Inside
  <2> QED
    BY <2>1 DEF DemuxIInv, Locked
<1>5. visible = n /\ set[t] = n /\ n \in 1 .. n
  <2>1. \A u \in PushThreads : d_pc[u] \notin Fresh
    BY <1>1, <1>4 DEF Inside, Fresh
  <2>2. visible = n
    BY <1>0, <2>1 DEF DemuxIInv, OnStack
  <2>3. d_pc[t] \in AtNewest
    BY <1>1 DEF AtNewest
  <2>4. visible \in 1 .. n
    BY <1>0 DEF DemuxIInv, DemuxTypeOK
  <2> QED
    BY <2>2, <2>3, <2>4 DEF DemuxIInv, OnStack
<1>6. /\ d_pc[t] \notin Pushing \cup Placed \cup Over
      /\ d_pc'[t] \in Pushing /\ d_pc'[t] \notin Placed \cup Over
  BY <1>1 DEF Pushing, Placed, Over
<1>7. \A k : Moves(t, k)
  BY <1>1, Others
<1>8. \A k : Reversing(k)' = Reversing(k) /\ Has(k)' = Has(k)
  <2> TAKE k
  <2>1. Moves(t, k) /\ d_pc[t] \notin Placed /\ d_pc'[t] \notin Placed /\ d_pc[t] \notin Over /\ d_pc'[t] \notin Over
    BY <1>6, <1>7
  <2> QED
    BY <2>1, Kept, Zenon
<1>9. ASSUME NEW k \in 1 .. n PROVE Holders(k)' = Holders(k)
  <2>1. Moves(t, k) /\ set'[t] # k /\ d_pc[t] \notin Pushing \cup Placed
    BY <1>1, <1>6, <1>7, SMTT(30)
  <2> QED
    BY <2>1, Kept, Zenon
<1>10. \A u \in PushThreads : set[u] # n + 1
  <2>1. \A u \in PushThreads : set[u] \in 1 .. n
    BY <1>0 DEF DemuxIInv, DemuxTypeOK
  <2> QED
    BY <2>1, SMTT(30)
<1>11. Holders(n + 1)' = {t} /\ Reversing(n + 1) = {} /\ Has(n + 1) = {}
  <2>1. Holders(n + 1) = {} /\ Reversing(n + 1) = {} /\ Has(n + 1) = {}
    BY <1>10 DEF Holders, Reversing, Has
  <2>2. Moves(t, n + 1) /\ set'[t] = n + 1 /\ d_pc'[t] \in Pushing \cup Placed
    BY <1>1, <1>6, <1>7
  <2> QED
    BY <2>1, <2>2 DEF Moves
<1>12. Cardinality(Holders(n + 1)') = 1 /\ Cardinality(Reversing(n + 1)') = 0
  BY <1>8, <1>11, FS_EmptySet, FS_Singleton
<1>13. DemuxSize'
  <2> SUFFICES ASSUME NEW k \in 1 .. n + 1
               PROVE  sets'[k].channels_size = Cardinality(Holders(k)') + Cardinality(Reversing(k)')
    BY <1>3 DEF DemuxSize
  <2>1. CASE k = n + 1
    BY <1>2, <1>3, <1>12, <2>1, SMTT(30)
  <2>2. CASE k \in 1 .. n
    BY <1>0, <1>3, <1>8, <1>9, <2>2 DEF DemuxIInv, DemuxSize
  <2> QED
    BY <2>1, <2>2, SMTT(30)
<1>14. Fits'
  <2> SUFFICES ASSUME NEW k \in 1 .. n + 1 PROVE Cardinality(Holders(k)') <= streams_per_thread
    BY <1>3 DEF Fits
  <2>1. CASE k = n + 1
    BY <1>12, <2>1, SMTT(30) DEF DemuxParameters
  <2>2. CASE k \in 1 .. n
    BY <1>0, <1>9, <2>2 DEF DemuxIInv, Fits
  <2> QED
    BY <2>1, <2>2, SMTT(30)
<1>15. Exact'
  <2> SUFFICES ASSUME NEW k \in 1 .. n + 1 PROVE sets'[k].channels = Has(k)'
    BY <1>3 DEF Exact
  <2>1. CASE k = n + 1
    BY <1>2, <1>3, <1>8, <1>11, <2>1
  <2>2. CASE k \in 1 .. n
    BY <1>0, <1>3, <1>8, <2>2 DEF DemuxIInv, Exact
  <2> QED
    BY <2>1, <2>2, SMTT(30)
<1>16. Cardinality(Holders(n)) = streams_per_thread
  BY <1>1, <1>5 DEF DemuxIInv, DemuxFull
<1>17. \A k \in 1 .. n : k < n \/ Reversing(k) # {} => Cardinality(Holders(k)) = streams_per_thread
  BY <1>0 DEF DemuxIInv, DemuxFull
<1>18. ASSUME NEW k \in 1 .. n + 1, k < n + 1 \/ Reversing(k)' # {}
       PROVE  Cardinality(Holders(k)') = streams_per_thread
  <2>1. k \in 1 .. n
    BY <1>8, <1>11, <1>18, SMTT(30)
  <2>2. Holders(k)' = Holders(k)
    BY <1>9, <2>1
  <2> QED
    BY <1>16, <1>17, <2>1, <2>2, SMTT(30)
<1>19. \A u \in PushThreads : d_pc'[u] # "create"
  BY <1>1, <1>4 DEF Inside
<1>20. DemuxFull'
  BY <1>3, <1>18, <1>19 DEF DemuxFull
<1>21. Locked'
  BY <1>1, <1>4 DEF DemuxIInv, Locked, Inside
<1>22. OnStack'
  <2>1. d_pc'[t] \in Fresh /\ d_pc'[t] \notin AtNewest
    BY <1>1 DEF Fresh, AtNewest
  <2>2. \A u \in PushThreads \ {t} : d_pc'[u] \notin Fresh /\ set'[u] <= visible /\ (d_pc'[u] \in AtNewest => set'[u] = visible)
    <3>1. \A u \in PushThreads \ {t} : d_pc[u] \notin Fresh
      BY <1>4 DEF Inside, Fresh
    <3> QED
      BY <1>1, <3>1 DEF DemuxIInv, OnStack
  <2> QED
    BY <1>1, <1>3, <1>5, <2>1, <2>2, SMTT(30) DEF OnStack
<1>23. DemuxTypeOK'
  BY <1>1, <1>3, <1>5, SMTT(30) DEF DemuxTypeOK
<1> QED
  BY <1>13, <1>14, <1>15, <1>20, <1>21, <1>22, <1>23 DEF DemuxIInv

(* Every step keeps the invariant. *)
LEMMA DemuxIInvNext == ASSUME DemuxParameters, DemuxIInv, [Demux!Next]_(Demux!vars) PROVE DemuxIInv'
<1>1. ASSUME NEW t \in PushThreads, Demux!Step(t) PROVE DemuxIInv'
  BY <1>1, MovesKeep, PushKeeps, ReserveKeeps, OvershootKeeps, ReverseKeeps, CreateKeeps DEF Demux!Step
<1>2. CASE UNCHANGED Demux!vars
  <2>1. sets' = sets /\ visible' = visible /\ mtx' = mtx /\ d_pc' = d_pc /\ set' = set
    BY <1>2 DEF Demux!vars
  <2>2. \A k : Holders(k)' = Holders(k) /\ Reversing(k)' = Reversing(k) /\ Has(k)' = Has(k)
    BY <2>1 DEF Holders, Reversing, Has
  <2>3. DemuxTypeOK' /\ Locked' /\ OnStack'
    BY <2>1 DEF DemuxIInv, DemuxTypeOK, Locked, OnStack
  <2>4. Exact' /\ DemuxSize' /\ Fits'
    BY <2>1, <2>2 DEF DemuxIInv, Exact, DemuxSize, Fits
  <2>5. DemuxFull'
    BY <2>1, <2>2 DEF DemuxIInv, DemuxFull
  <2> QED
    BY <2>3, <2>4, <2>5 DEF DemuxIInv
<1> QED
  BY <1>1, <1>2 DEF Demux!Next, Demux!AllPushed

(* gpu-trace-demultiplexer.c: for any number of threads and any               *)
(* streams_per_thread, a channel whose push has returned is in exactly one    *)
(* set on the stack, no set has more channels than its limit, and a set is    *)
(* opened only when those before it are full, although counters are overshot  *)
(* and taken back without the lock.                                           *)
THEOREM ChannelsArePlaced == ASSUME DemuxParameters PROVE Demux!Spec => []ChannelsPlaced
<1>1. Demux!Spec => []DemuxIInv
  BY DemuxIInvInit, DemuxIInvNext, PTL DEF Demux!Spec
<1>2. DemuxIInv => ChannelsPlaced
  BY DemuxIInvImplies DEF ChannelsPlaced
<1> QED
  BY <1>1, <1>2, PTL

-----------------------------------------------------------------------------
(* The map of activity channels (ActivityChannels)                         *)

(* Of the constants: there is a block and a slot, ids are positive, and NULL *)
(* is neither a number nor an entry of a block.                              *)
IdsParameters ==
  /\ BLOCK_SIZE \in Nat \ {0} /\ NUM_BLOCKS \in Nat \ {0}
  /\ IsFiniteSet(IdThreads)
  /\ FirstIds \subseteq Nat \ {0}
  /\ \E n \in FirstIds : \A m \in FirstIds : m <= n
  /\ NULL \notin Nat \cup (Nat \X Nat)

Slots == 0 .. NUM_BLOCKS - 1

(* An id whose entry is in a block that is allocated on demand. *)
OnDemand(n) == n >= BLOCK_SIZE /\ Ids!block_idx(n) < NUM_BLOCKS

IdsEntry(n) == IF n < BLOCK_SIZE THEN <<0, n>>
            ELSE IF OnDemand(n) THEN <<blocks[Ids!block_idx(n)], n % BLOCK_SIZE>>
            ELSE NULL

IdsTypeOK ==
  /\ next_channel_id \in Nat
  /\ local_channel_id \in [IdThreads -> Nat]
  /\ blocks \in [Slots -> Nat \cup {NULL}]
  /\ made \in Nat
  /\ i_pc \in [IdThreads -> {"idle", "get", "install", "load"}]
  /\ idx \in [IdThreads -> Nat]
  /\ block \in [IdThreads -> Nat]
  /\ turn \in [IdThreads -> Nat]
  /\ given \in [Ids!AllIds -> SUBSET ({NULL} \cup (Nat \X Nat))]

(* The blocks in the map are allocated ones, each in one slot. *)
BlocksApart ==
  /\ \A s \in Slots : blocks[s] # NULL => blocks[s] \in 1 .. made
  /\ \A r, s \in Slots : blocks[r] # NULL /\ blocks[r] = blocks[s] => r = s

(* A block on its way into the map is in no slot and in no other hand. *)
HandsApart ==
  \A t \in IdThreads : i_pc[t] = "install" =>
    /\ block[t] \in 1 .. made
    /\ \A s \in Slots : blocks[s] # block[t]
    /\ \A u \in IdThreads \ {t} : i_pc[u] = "install" => block[u] # block[t]

(* The loop begins with the slot of the id, and leaves it filled. *)
SlotFilled ==
  \A t \in IdThreads :
    /\ i_pc[t] \in {"install", "load"} => OnDemand(idx[t])
    /\ i_pc[t] \in {"idle", "get"} => turn[t] = 0
    /\ i_pc[t] = "install" => turn[t] < NUM_BLOCKS
    /\ i_pc[t] = "load" \/ (i_pc[t] = "install" /\ turn[t] > 0) => blocks[Ids!block_idx(idx[t])] # NULL

(* Everyone has been given the entry that is in the map now. *)
GivenRight ==
  \A n \in Ids!AllIds : \A e \in given[n] :
    e = IdsEntry(n) /\ (OnDemand(n) => blocks[Ids!block_idx(n)] # NULL)

IdsIInv == IdsTypeOK /\ BlocksApart /\ HandsApart /\ SlotFilled /\ GivenRight

-----------------------------------------------------------------------------
(* Division with remainder is unique. *)
LEMMA Quotient ==
  ASSUME NEW b \in Nat \ {0}, NEW q \in Int, NEW p \in Int,
         NEW r \in 0 .. b - 1, NEW s \in 0 .. b - 1,
         b * q + r = b * p + s
  PROVE  q = p /\ r = s
<1>1. b * (q - p) = s - r
  BY SMTT(30)
<1>2. q - p < 1
  <2> SUFFICES ASSUME q - p >= 1 PROVE FALSE
    BY SMTT(30)
  <2>1. b * (q - p) >= b
    BY SMTT(30)
  <2> QED
    BY <1>1, <2>1, SMTT(30)
<1>3. q - p > 0 - 1
  <2> SUFFICES ASSUME q - p <= 0 - 1 PROVE FALSE
    BY SMTT(30)
  <2>1. b * (q - p) <= 0 - b
    BY SMTT(30)
  <2> QED
    BY <1>1, <2>1, SMTT(30)
<1> QED
  BY <1>1, <1>2, <1>3, SMTT(30)

(* block_idx and the remainder together determine the id. *)
LEMMA IdOfEntry ==
  ASSUME IdsParameters, NEW n \in Nat, n >= BLOCK_SIZE
  PROVE  /\ Ids!block_idx(n) \in Nat /\ n % BLOCK_SIZE \in 0 .. BLOCK_SIZE - 1
         /\ n = BLOCK_SIZE * (Ids!block_idx(n) + 1) + (n % BLOCK_SIZE)
<1> DEFINE B == BLOCK_SIZE
           q == n \div B
           p == (n - B) \div B
<1>0. B \in Nat \ {0} /\ n - B \in Nat
  BY SMTT(30) DEF IdsParameters
<1>1. q \in Nat /\ n % B \in 0 .. B - 1 /\ n = B * q + (n % B)
  BY <1>0, SMTT(30)
<1>2. p \in Nat /\ (n - B) % B \in 0 .. B - 1 /\ n - B = B * p + ((n - B) % B)
  BY <1>0, SMTT(30)
<1>3. B * q + (n % B) = B * (p + 1) + ((n - B) % B)
  BY <1>0, <1>1, <1>2, SMTT(30)
<1>4. q = p + 1
  <2> HIDE DEF B, q, p
  <2> QED
    BY <1>0, <1>1, <1>2, <1>3, Quotient, SMTT(30)
<1> QED
  BY <1>0, <1>1, <1>2, <1>4 DEF Ids!block_idx

(* An id is past the last block exactly if the comment of the map says so. *)
LEMMA PastTheEnd ==
  ASSUME IdsParameters, NEW n \in Nat, n >= BLOCK_SIZE
  PROVE  Ids!block_idx(n) >= NUM_BLOCKS <=> n >= BLOCK_SIZE * (NUM_BLOCKS + 1)
<1> DEFINE k == Ids!block_idx(n)
           r == n % BLOCK_SIZE
<1>1. k \in Nat /\ r \in 0 .. BLOCK_SIZE - 1 /\ n = BLOCK_SIZE * (k + 1) + r
  BY IdOfEntry
<1>2. BLOCK_SIZE \in Nat \ {0} /\ NUM_BLOCKS \in Nat
  BY DEF IdsParameters
<1> HIDE DEF k, r
<1>3. CASE k >= NUM_BLOCKS
  <2>1. BLOCK_SIZE * (k - NUM_BLOCKS) >= 0
    BY <1>1, <1>2, <1>3, SMTT(30)
  <2> QED
    BY <1>1, <1>2, <1>3, <2>1, SMTT(30) DEF k
<1>4. CASE k < NUM_BLOCKS
  <2>1. BLOCK_SIZE * (NUM_BLOCKS - k) >= BLOCK_SIZE
    BY <1>1, <1>2, <1>4, SMTT(30)
  <2> QED
    BY <1>1, <1>2, <1>4, <2>1, SMTT(30) DEF k
<1> QED
  BY <1>1, <1>2, <1>3, <1>4, SMTT(30)

LEMMA IdsAreNumbers == ASSUME IdsParameters PROVE Ids!AllIds \subseteq Nat
<1> DEFINE last == CHOOSE n \in FirstIds : \A m \in FirstIds : m <= n
<1>1. last \in Nat
  BY DEF IdsParameters
<1>2. Cardinality(IdThreads) \in Nat
  BY FS_CardinalityType DEF IdsParameters
<1> HIDE DEF last
<1>3. 0 .. last + Cardinality(IdThreads) \subseteq Nat
  BY <1>1, <1>2, SMTT(30)
<1> QED
  BY <1>3, SMTT(30) DEF Ids!AllIds, last

-----------------------------------------------------------------------------
LEMMA IdsIInvInit == ASSUME IdsParameters, Ids!Init PROVE IdsIInv
<1>1. IdsTypeOK
  BY DEF IdsParameters, Ids!Init, IdsTypeOK, Slots
<1>2. GivenRight
  BY DEF Ids!Init, GivenRight
<1>3. BlocksApart /\ HandsApart /\ SlotFilled
  BY DEF Ids!Init, BlocksApart, HandsApart, SlotFilled, Slots
<1> QED
  BY <1>1, <1>2, <1>3 DEF IdsIInv

(* Slots keep what they have: entries given stay right when a block is added. *)
LEMMA EntriesStay ==
  ASSUME IdsParameters, IdsTypeOK, GivenRight,
         \A s \in Slots : blocks[s] # NULL => blocks'[s] = blocks[s],
         NEW n \in Ids!AllIds, NEW e \in given[n]
  PROVE  e = IdsEntry(n)' /\ (OnDemand(n) => blocks'[Ids!block_idx(n)] # NULL)
<1>1. n \in Nat
  BY IdsAreNumbers
<1>2. e = IdsEntry(n) /\ (OnDemand(n) => blocks[Ids!block_idx(n)] # NULL)
  BY DEF GivenRight
<1>3. OnDemand(n) => Ids!block_idx(n) \in Slots
  <2> SUFFICES ASSUME OnDemand(n) PROVE Ids!block_idx(n) \in Slots
    OBVIOUS
  <2>1. Ids!block_idx(n) \in Nat /\ Ids!block_idx(n) < NUM_BLOCKS
    BY <1>1, IdOfEntry DEF OnDemand
  <2> QED
    BY <2>1, SMTT(30) DEF IdsParameters, Slots
<1>4. IdsEntry(n)' = IF n < BLOCK_SIZE THEN <<0, n>>
                  ELSE IF OnDemand(n) THEN <<blocks'[Ids!block_idx(n)], n % BLOCK_SIZE>>
                  ELSE NULL
  BY DEF IdsEntry, OnDemand, Ids!block_idx
<1> QED
  BY <1>2, <1>3, <1>4 DEF IdsEntry

(* Beginning a call: only an idle thread moves, with i at 0. *)
LEMMA BeginKeeps ==
  ASSUME IdsParameters, IdsIInv, NEW t \in IdThreads, Ids!GetLocal(t) \/ Ids!Lookup(t)
  PROVE  IdsIInv'
<1>1. /\ i_pc[t] = "idle" /\ i_pc' = [i_pc EXCEPT ![t] = "get"]
      /\ \E n \in Nat : idx' = [idx EXCEPT ![t] = n]
      /\ UNCHANGED <<blocks, made, block, turn, given>>
      /\ next_channel_id' \in Nat /\ local_channel_id' \in [IdThreads -> Nat]
  <2>1. CASE Ids!GetLocal(t)
    <3> DEFINE n == IF local_channel_id[t] = 0 THEN next_channel_id ELSE local_channel_id[t]
    <3>1. n \in Nat
      BY DEF IdsIInv, IdsTypeOK
    <3>2. local_channel_id' = [local_channel_id EXCEPT ![t] = n]
      BY <2>1 DEF Ids!GetLocal
    <3>3. idx' = [idx EXCEPT ![t] = n]
      BY <2>1, <3>2 DEF Ids!GetLocal, IdsIInv, IdsTypeOK
    <3>4. next_channel_id' \in Nat
      BY <2>1, SMTT(30) DEF Ids!GetLocal, IdsIInv, IdsTypeOK
    <3>5. local_channel_id' \in [IdThreads -> Nat]
      BY <3>1, <3>2 DEF IdsIInv, IdsTypeOK
    <3> HIDE DEF n
    <3>6. \E m \in Nat : idx' = [idx EXCEPT ![t] = m]
      BY <3>1, <3>3
    <3> QED
      BY <2>1, <3>4, <3>5, <3>6 DEF Ids!GetLocal
  <2>2. CASE Ids!Lookup(t)
    BY <2>2 DEF IdsIInv, IdsTypeOK, Ids!Lookup, Ids!ids
  <2> QED
    BY <2>1, <2>2
<1>2. IdsTypeOK'
  BY <1>1 DEF IdsIInv, IdsTypeOK, Ids!AllIds, Slots
<1>3. BlocksApart'
  BY <1>1 DEF IdsIInv, BlocksApart, Slots
<1>4. HandsApart'
  BY <1>1 DEF IdsIInv, IdsTypeOK, HandsApart, Slots
<1>5. SlotFilled'
  BY <1>1 DEF IdsIInv, IdsTypeOK, SlotFilled, OnDemand, Ids!block_idx
<1>6. GivenRight'
  BY <1>1 DEF IdsIInv, GivenRight, IdsEntry, OnDemand, Ids!block_idx, Ids!AllIds
<1> QED
  BY <1>2, <1>3, <1>4, <1>5, <1>6 DEF IdsIInv

(* Returning the entry that is in the map. *)
LEMMA GiveKeeps ==
  ASSUME IdsParameters, IdsIInv, NEW t \in IdThreads,
         Ids!Give(t, IdsEntry(idx[t])),
         OnDemand(idx[t]) => blocks[Ids!block_idx(idx[t])] # NULL,
         UNCHANGED <<Ids!ids, blocks, made, gets>>
  PROVE  IdsIInv'
<1> DEFINE n == idx[t]
<1>1. n \in Nat
  BY DEF IdsIInv, IdsTypeOK
<1>2. IdsEntry(n) \in {NULL} \cup (Nat \X Nat)
  <2>1. CASE n < BLOCK_SIZE
    BY <1>1, <2>1 DEF IdsEntry
  <2>2. CASE n >= BLOCK_SIZE
    <3>1. Ids!block_idx(n) \in Nat /\ n % BLOCK_SIZE \in Nat
      BY <1>1, <2>2, IdOfEntry, SMTT(30)
    <3>2. OnDemand(n) => blocks[Ids!block_idx(n)] \in Nat
      BY <3>1, SMTT(30) DEF IdsIInv, IdsTypeOK, OnDemand, Slots, IdsParameters
    <3> QED
      BY <3>1, <3>2, <2>2, <1>1 DEF IdsEntry, IdsParameters
  <2> QED
    BY <1>1, <2>1, <2>2, SMTT(30) DEF IdsParameters
<1>3. IdsTypeOK'
  <2>1. given' \in [Ids!AllIds -> SUBSET ({NULL} \cup (Nat \X Nat))]
    <3> DEFINE Results == {NULL} \cup (Nat \X Nat)
    <3>1. /\ given \in [Ids!AllIds -> SUBSET Results]
          /\ given' = [given EXCEPT ![n] = given[n] \cup {IdsEntry(n)}]
      BY DEF IdsIInv, IdsTypeOK, Ids!Give
    <3>2. IdsEntry(n) \in Results
      BY <1>2
    <3> HIDE DEF Results, n
    <3>3. given' \in [Ids!AllIds -> SUBSET Results]
      BY <3>1, <3>2
    <3> QED
      BY <3>3 DEF Results
  <2>2. /\ i_pc' \in [IdThreads -> {"idle", "get", "install", "load"}]
        /\ idx' \in [IdThreads -> Nat] /\ block' \in [IdThreads -> Nat] /\ turn' \in [IdThreads -> Nat]
    BY DEF IdsIInv, IdsTypeOK, Ids!Give
  <2> QED
    BY <2>1, <2>2 DEF IdsIInv, IdsTypeOK, Ids!ids, Ids!AllIds, Slots
<1>4. BlocksApart'
  BY DEF IdsIInv, BlocksApart, Slots
<1>5. HandsApart'
  BY DEF IdsIInv, IdsTypeOK, HandsApart, Ids!Give, Slots
<1>6. SlotFilled'
  BY DEF IdsIInv, IdsTypeOK, SlotFilled, Ids!Give, OnDemand, Ids!block_idx
<1>7. GivenRight'
  <2> SUFFICES ASSUME NEW m \in Ids!AllIds, NEW e \in given'[m]
               PROVE  e = IdsEntry(m) /\ (OnDemand(m) => blocks[Ids!block_idx(m)] # NULL)
    BY DEF GivenRight, IdsEntry, OnDemand, Ids!block_idx, Ids!AllIds
  <2>1. CASE e \in given[m]
    BY <2>1 DEF IdsIInv, GivenRight
  <2>2. CASE e \notin given[m]
    BY <2>2 DEF IdsIInv, IdsTypeOK, Ids!Give
  <2> QED
    BY <2>1, <2>2
<1> QED
  BY <1>3, <1>4, <1>5, <1>6, <1>7 DEF IdsIInv

LEMMA GetKeeps ==
  ASSUME IdsParameters, IdsIInv, NEW t \in IdThreads, Ids!Get(t)
  PROVE  IdsIInv'
<1> DEFINE n == idx[t]
<1>1. n \in Nat /\ BLOCK_SIZE \in Nat /\ NUM_BLOCKS \in Nat
  BY DEF IdsIInv, IdsTypeOK, IdsParameters
<1>2. n >= BLOCK_SIZE => Ids!block_idx(n) \in Nat
  BY <1>1, IdOfEntry
<1>3. CASE n < BLOCK_SIZE
  <2>1. Ids!Give(t, <<0, n>>) /\ UNCHANGED <<Ids!ids, blocks, made, gets>>
    BY <1>1, <1>3 DEF Ids!Get
  <2>2. IdsEntry(n) = <<0, n>> /\ ~OnDemand(n)
    BY <1>1, <1>3, SMTT(30) DEF IdsEntry, OnDemand
  <2> QED
    BY <2>1, <2>2, GiveKeeps
<1>4. CASE n >= BLOCK_SIZE /\ Ids!block_idx(n) >= NUM_BLOCKS
  <2>1. Ids!Give(t, NULL) /\ UNCHANGED <<Ids!ids, blocks, made, gets>>
    BY <1>1, <1>4, SMTT(30) DEF Ids!Get
  <2>2. IdsEntry(n) = NULL /\ ~OnDemand(n)
    BY <1>1, <1>2, <1>4, SMTT(30) DEF IdsEntry, OnDemand
  <2> QED
    BY <2>1, <2>2, GiveKeeps
<1>5. CASE OnDemand(n) /\ blocks[Ids!block_idx(n)] # NULL
  <2>1. Ids!Give(t, <<blocks[Ids!block_idx(n)], n % BLOCK_SIZE>>) /\ UNCHANGED <<Ids!ids, blocks, made, gets>>
    BY <1>1, <1>2, <1>5, SMTT(30) DEF Ids!Get, OnDemand
  <2>2. IdsEntry(n) = <<blocks[Ids!block_idx(n)], n % BLOCK_SIZE>>
    BY <1>1, <1>2, <1>5, SMTT(30) DEF IdsEntry, OnDemand
  <2> QED
    BY <2>1, <2>2, <1>5, GiveKeeps
<1>6. CASE OnDemand(n) /\ blocks[Ids!block_idx(n)] = NULL
  <2>1. /\ i_pc[t] = "get" /\ made' = made + 1
        /\ block' = [block EXCEPT ![t] = made + 1]
        /\ i_pc' = [i_pc EXCEPT ![t] = "install"]
        /\ UNCHANGED <<given, idx, turn, Ids!ids, blocks>>
    BY <1>1, <1>2, <1>6, SMTT(30) DEF Ids!Get, OnDemand
  <2>2. IdsTypeOK'
    <3>1. made + 1 \in Nat /\ block' \in [IdThreads -> Nat]
      BY <2>1, SMTT(30) DEF IdsIInv, IdsTypeOK
    <3> QED
      BY <2>1, <3>1 DEF IdsIInv, IdsTypeOK, Ids!ids, Slots
  <2>3. BlocksApart'
    BY <2>1, SMTT(30) DEF IdsIInv, IdsTypeOK, BlocksApart, Slots
  <2>4. \A s \in Slots : blocks[s] # made + 1
    <3> SUFFICES ASSUME NEW s \in Slots, blocks[s] = made + 1 PROVE FALSE
      OBVIOUS
    <3>1. blocks[s] # NULL
      BY SMTT(30) DEF IdsIInv, IdsTypeOK, IdsParameters
    <3> QED
      BY <3>1, SMTT(30) DEF IdsIInv, IdsTypeOK, BlocksApart
  <2>5. \A u \in IdThreads \ {t} : i_pc[u] = "install" => block[u] \in 1 .. made
    BY DEF IdsIInv, HandsApart
  <2>6. HandsApart'
    BY <2>1, <2>4, <2>5, SMTT(30) DEF IdsIInv, IdsTypeOK, HandsApart, Slots
  <2>7. SlotFilled'
    <3>1. turn[t] = 0
      BY <2>1 DEF IdsIInv, SlotFilled
    <3>2. NUM_BLOCKS > 0
      BY SMTT(30) DEF IdsParameters
    <3> QED
      BY <2>1, <1>6, <3>1, <3>2, SMTT(30) DEF IdsIInv, IdsTypeOK, SlotFilled, OnDemand, Ids!block_idx
  <2>8. GivenRight'
    BY <2>1 DEF IdsIInv, GivenRight, IdsEntry, OnDemand, Ids!block_idx, Ids!AllIds
  <2> QED
    BY <2>2, <2>3, <2>6, <2>7, <2>8 DEF IdsIInv
<1> QED
  BY <1>1, <1>2, <1>3, <1>4, <1>5, <1>6, SMTT(30) DEF OnDemand

LEMMA LoadKeeps ==
  ASSUME IdsParameters, IdsIInv, NEW t \in IdThreads, Ids!Load(t)
  PROVE  IdsIInv'
<1>1. OnDemand(idx[t]) /\ blocks[Ids!block_idx(idx[t])] # NULL
  BY DEF IdsIInv, SlotFilled, Ids!Load
<1>2. IdsEntry(idx[t]) = <<blocks[Ids!block_idx(idx[t])], idx[t] % BLOCK_SIZE>>
  BY <1>1, SMTT(30) DEF IdsEntry, OnDemand, IdsIInv, IdsTypeOK, IdsParameters
<1> QED
  BY <1>1, <1>2, GiveKeeps DEF Ids!Load

(* A turn of the loop: the slot of the id is tried first, and only an empty *)
(* slot is written, with a block that is nowhere else.                      *)
LEMMA InstallKeeps ==
  ASSUME IdsParameters, IdsIInv, NEW t \in IdThreads, Ids!Install(t)
  PROVE  IdsIInv'
<1> DEFINE n == idx[t]
           s == (Ids!block_idx(n) + turn[t]) % NUM_BLOCKS
<1>1. /\ i_pc[t] = "install" /\ n \in Nat /\ OnDemand(n) /\ block[t] \in Nat
      /\ turn[t] \in Nat /\ turn[t] < NUM_BLOCKS
  BY DEF Ids!Install, IdsIInv, IdsTypeOK, SlotFilled
<1>2. NUM_BLOCKS \in Nat \ {0} /\ BLOCK_SIZE \in Nat \ {0}
  BY DEF IdsParameters
<1>3. Ids!block_idx(n) \in Nat /\ Ids!block_idx(n) < NUM_BLOCKS
  BY <1>1, IdOfEntry DEF OnDemand
<1>4. s \in Slots /\ Ids!block_idx(n) \in Slots
  BY <1>1, <1>2, <1>3, SMTT(30) DEF Slots
<1>5. turn[t] = 0 => s = Ids!block_idx(n)
  BY <1>2, <1>3, SMTT(30)
<1>6. /\ blocks' = IF blocks[s] = NULL THEN [blocks EXCEPT ![s] = block[t]] ELSE blocks
      /\ turn' = [turn EXCEPT ![t] = turn[t] + 1]
      /\ i_pc' = IF blocks[s] = NULL \/ turn[t] + 1 = NUM_BLOCKS
               THEN [i_pc EXCEPT ![t] = "load"] ELSE i_pc
      /\ UNCHANGED <<Ids!ids, made, idx, block, given>>
  BY DEF Ids!Install, IdsIInv, IdsTypeOK
<1> HIDE DEF s
<1>7. \A r \in Slots : blocks[r] # NULL => blocks'[r] = blocks[r]
  BY <1>4, <1>6 DEF IdsIInv, IdsTypeOK
<1>8. blocks'[Ids!block_idx(n)] # NULL
  <2>1. block[t] # NULL
    BY <1>1 DEF IdsParameters
  <2>2. CASE turn[t] = 0
    BY <1>4, <1>5, <1>6, <2>1, <2>2 DEF IdsIInv, IdsTypeOK
  <2>3. CASE turn[t] > 0
    <3>1. blocks[Ids!block_idx(n)] # NULL
      BY <1>1, <2>3 DEF IdsIInv, SlotFilled
    <3> QED
      BY <1>4, <1>7, <3>1
  <2> QED
    BY <1>1, <2>2, <2>3, SMTT(30)
<1>9. IdsTypeOK'
  <2>1. turn[t] + 1 \in Nat
    BY <1>1, SMTT(30)
  <2>2. turn' \in [IdThreads -> Nat]
    BY <1>6, <2>1 DEF IdsIInv, IdsTypeOK
  <2>3. i_pc' \in [IdThreads -> {"idle", "get", "install", "load"}]
    BY <1>6 DEF IdsIInv, IdsTypeOK
  <2>4. blocks' \in [Slots -> Nat \cup {NULL}]
    BY <1>1, <1>4, <1>6 DEF IdsIInv, IdsTypeOK
  <2> QED
    BY <1>6, <2>2, <2>3, <2>4 DEF IdsIInv, IdsTypeOK, Ids!ids, Slots
<1>10. block[t] \in 1 .. made /\ \A r \in Slots : blocks[r] # block[t]
  BY <1>1 DEF IdsIInv, HandsApart
<1>11. BlocksApart'
  <2>1. \A r \in Slots : blocks'[r] = blocks[r] \/ (r = s /\ blocks'[r] = block[t])
    BY <1>4, <1>6 DEF IdsIInv, IdsTypeOK
  <2>2. \A r \in Slots : blocks'[r] # NULL => blocks'[r] \in 1 .. made
    BY <2>1, <1>10 DEF IdsIInv, BlocksApart
  <2>3. \A r, q \in Slots : blocks'[r] # NULL /\ blocks'[r] = blocks'[q] => r = q
    BY <2>1, <1>10 DEF IdsIInv, BlocksApart
  <2>4. made' = made /\ Slots' = Slots
    BY <1>6 DEF Slots
  <2> QED
    BY <2>2, <2>3, <2>4 DEF BlocksApart
<1>12. HandsApart'
  <2> SUFFICES ASSUME NEW u \in IdThreads, i_pc'[u] = "install"
               PROVE  /\ block[u] \in 1 .. made
                      /\ \A r \in Slots : blocks'[r] # block[u]
                      /\ \A v \in IdThreads \ {u} : i_pc'[v] = "install" => block[v] # block[u]
    BY <1>6 DEF HandsApart, Slots
  <2>1. i_pc[u] = "install" /\ \A v \in IdThreads : i_pc'[v] = "install" => i_pc[v] = "install"
    BY <1>6 DEF IdsIInv, IdsTypeOK
  <2>2. /\ block[u] \in 1 .. made
        /\ \A r \in Slots : blocks[r] # block[u]
        /\ \A v \in IdThreads \ {u} : i_pc[v] = "install" => block[v] # block[u]
    BY <2>1 DEF IdsIInv, HandsApart
  <2>3. blocks[s] = NULL => u # t
    BY <1>6 DEF IdsIInv, IdsTypeOK
  <2>4. \A r \in Slots : blocks'[r] # block[u]
    BY <1>1, <1>4, <1>6, <2>2, <2>3 DEF IdsIInv, IdsTypeOK
  <2> QED
    BY <2>1, <2>2, <2>4
<1>13. SlotFilled'
  <2> SUFFICES ASSUME NEW u \in IdThreads
               PROVE  /\ i_pc'[u] \in {"install", "load"} => OnDemand(idx[u])
                      /\ i_pc'[u] \in {"idle", "get"} => turn'[u] = 0
                      /\ i_pc'[u] = "install" => turn'[u] < NUM_BLOCKS
                      /\ i_pc'[u] = "load" \/ (i_pc'[u] = "install" /\ turn'[u] > 0) =>
                           blocks'[Ids!block_idx(idx[u])] # NULL
    BY <1>6 DEF SlotFilled, OnDemand, Ids!block_idx
  <2>1. CASE u = t
    BY <1>1, <1>2, <1>6, <1>8, <2>1, SMTT(30) DEF IdsIInv, IdsTypeOK
  <2>2. CASE u # t
    <3>1. i_pc'[u] = i_pc[u] /\ turn'[u] = turn[u]
      BY <1>6, <2>2 DEF IdsIInv, IdsTypeOK
    <3>2. /\ i_pc[u] \in {"install", "load"} => OnDemand(idx[u])
          /\ i_pc[u] \in {"idle", "get"} => turn[u] = 0
          /\ i_pc[u] = "install" => turn[u] < NUM_BLOCKS
          /\ i_pc[u] = "load" \/ (i_pc[u] = "install" /\ turn[u] > 0) =>
               blocks[Ids!block_idx(idx[u])] # NULL
      BY DEF IdsIInv, SlotFilled
    <3>3. OnDemand(idx[u]) => Ids!block_idx(idx[u]) \in Slots
      <4> SUFFICES ASSUME OnDemand(idx[u]) PROVE Ids!block_idx(idx[u]) \in Slots
        OBVIOUS
      <4>1. idx[u] \in Nat
        BY DEF IdsIInv, IdsTypeOK
      <4>2. Ids!block_idx(idx[u]) \in Nat /\ Ids!block_idx(idx[u]) < NUM_BLOCKS
        BY <4>1, IdOfEntry DEF OnDemand
      <4> QED
        BY <4>2, <1>2, SMTT(30) DEF Slots
    <3> QED
      BY <3>1, <3>2, <3>3, <1>7
  <2> QED
    BY <2>1, <2>2
<1>14. GivenRight'
  <2> SUFFICES ASSUME NEW m \in Ids!AllIds, NEW e \in given[m]
               PROVE  e = IdsEntry(m)' /\ (OnDemand(m) => blocks'[Ids!block_idx(m)] # NULL)
    BY <1>6 DEF GivenRight, OnDemand, Ids!block_idx
  <2> QED
    BY <1>7, EntriesStay DEF IdsIInv
<1> QED
  BY <1>9, <1>11, <1>12, <1>13, <1>14 DEF IdsIInv

(* An instance of a module that extends FiniteSets has a Cardinality of its    *)
(* own; it is the same.                                                       *)
LEMMA IdsCardinality == \A S : Ids!Cardinality(S) = Cardinality(S)
BY DEF Ids!Cardinality, Cardinality

-----------------------------------------------------------------------------
(* What the invariant says of the entries given out is OwnChannel. *)
LEMMA IInvImpliesOwnChannel == ASSUME IdsParameters, IdsIInv PROVE Ids!OwnChannel
<1> SUFFICES ASSUME NEW n \in Ids!AllIds
             PROVE  /\ Cardinality(given[n]) <= 1
                    /\ \A e \in given[n] : /\ e = NULL <=> n >= BLOCK_SIZE * (NUM_BLOCKS + 1)
                                           /\ e # NULL => e[1] # NULL
                    /\ \A m \in Ids!AllIds \ {n} : given[n] \cap given[m] \subseteq {NULL}
  BY IdsCardinality DEF Ids!OwnChannel
<1>1. n \in Nat /\ BLOCK_SIZE \in Nat \ {0} /\ NUM_BLOCKS \in Nat \ {0}
  BY IdsAreNumbers DEF IdsParameters
<1>2. Cardinality(given[n]) <= 1
  <2>1. given[n] = {} \/ given[n] = {IdsEntry(n)}
    BY DEF IdsIInv, GivenRight
  <2>2. Cardinality({}) = 0 /\ Cardinality({IdsEntry(n)}) = 1
    BY FS_EmptySet, FS_Singleton
  <2> QED
    BY <2>1, <2>2, SMTT(30)
<1>3. \A k \in Ids!AllIds : \A e \in given[k] : e = IdsEntry(k) /\ (OnDemand(k) => blocks[Ids!block_idx(k)] # NULL)
  BY DEF IdsIInv, GivenRight
<1>4. \A k \in Nat : OnDemand(k) =>
        /\ Ids!block_idx(k) \in Slots /\ k % BLOCK_SIZE \in Nat
        /\ k = BLOCK_SIZE * (Ids!block_idx(k) + 1) + (k % BLOCK_SIZE)
  <2> SUFFICES ASSUME NEW k \in Nat, OnDemand(k)
               PROVE  /\ Ids!block_idx(k) \in Slots /\ k % BLOCK_SIZE \in Nat
                      /\ k = BLOCK_SIZE * (Ids!block_idx(k) + 1) + (k % BLOCK_SIZE)
    OBVIOUS
  <2>1. /\ Ids!block_idx(k) \in Nat /\ k % BLOCK_SIZE \in 0 .. BLOCK_SIZE - 1
        /\ k = BLOCK_SIZE * (Ids!block_idx(k) + 1) + (k % BLOCK_SIZE)
        /\ Ids!block_idx(k) < NUM_BLOCKS
    BY IdOfEntry DEF OnDemand
  <2> QED
    BY <2>1, <1>1, SMTT(30) DEF Slots
<1>5. \A k \in Ids!AllIds : \A e \in given[k] : e # NULL <=> (k < BLOCK_SIZE \/ OnDemand(k))
  <2> SUFFICES ASSUME NEW k \in Ids!AllIds, NEW e \in given[k]
               PROVE  e # NULL <=> (k < BLOCK_SIZE \/ OnDemand(k))
    OBVIOUS
  <2>1. k \in Nat /\ e = IdsEntry(k)
    BY <1>3, IdsAreNumbers
  <2>2. CASE k < BLOCK_SIZE
    <3>1. e = <<0, k>>
      BY <2>1, <2>2 DEF IdsEntry
    <3> QED
      BY <3>1, <2>1, <2>2, SMTT(30) DEF IdsParameters
  <2>3. CASE k >= BLOCK_SIZE /\ OnDemand(k)
    <3>1. e = <<blocks[Ids!block_idx(k)], k % BLOCK_SIZE>>
      BY <2>1, <2>3, <1>1, SMTT(30) DEF IdsEntry
    <3>2. blocks[Ids!block_idx(k)] \in Nat /\ k % BLOCK_SIZE \in Nat
      BY <1>3, <1>4, <2>1, <2>3 DEF IdsIInv, IdsTypeOK
    <3> QED
      BY <3>1, <3>2, <2>3, SMTT(30) DEF IdsParameters
  <2>4. CASE k >= BLOCK_SIZE /\ ~OnDemand(k)
    BY <2>1, <2>4, <1>1, SMTT(30) DEF IdsEntry
  <2> QED
    BY <2>1, <2>2, <2>3, <2>4, <1>1, SMTT(30)
<1>6. n < BLOCK_SIZE \/ OnDemand(n) <=> ~(n >= BLOCK_SIZE * (NUM_BLOCKS + 1))
  <2>1. CASE n < BLOCK_SIZE
    <3>1. BLOCK_SIZE * (NUM_BLOCKS + 1) >= BLOCK_SIZE
      BY <1>1, SMTT(30)
    <3> QED
      BY <3>1, <2>1, <1>1, SMTT(30)
  <2>2. CASE n >= BLOCK_SIZE
    <3>1. Ids!block_idx(n) \in Nat
      BY <1>1, <2>2, IdOfEntry
    <3>2. Ids!block_idx(n) >= NUM_BLOCKS <=> n >= BLOCK_SIZE * (NUM_BLOCKS + 1)
      BY <1>1, <2>2, PastTheEnd
    <3> QED
      BY <3>1, <3>2, <2>2, <1>1, SMTT(30) DEF OnDemand
  <2> QED
    BY <2>1, <2>2, <1>1, SMTT(30)
<1>7. \A e \in given[n] : e # NULL => e[1] # NULL
  <2> SUFFICES ASSUME NEW e \in given[n], e # NULL PROVE e[1] # NULL
    OBVIOUS
  <2>1. e \in Nat \X Nat
    BY DEF IdsIInv, IdsTypeOK
  <2> QED
    BY <2>1 DEF IdsParameters
<1>8. ASSUME NEW m \in Ids!AllIds \ {n}, NEW e \in given[n] \cap given[m], e # NULL PROVE FALSE
  <2>1. m \in Nat /\ e = IdsEntry(n) /\ e = IdsEntry(m)
    BY <1>3, <1>8, IdsAreNumbers
  <2>2. (n < BLOCK_SIZE \/ OnDemand(n)) /\ (m < BLOCK_SIZE \/ OnDemand(m))
    BY <1>5, <1>8
  <2>3. \A k \in {n, m} : OnDemand(k) => blocks[Ids!block_idx(k)] # NULL /\ blocks[Ids!block_idx(k)] \in 1 .. made
    BY <1>3, <1>4, <1>8, <2>1, <1>1, SMTT(30) DEF IdsIInv, BlocksApart
  <2>4. (n < BLOCK_SIZE => e = <<0, n>>) /\ (m < BLOCK_SIZE => e = <<0, m>>)
    BY <2>1 DEF IdsEntry
  <2>5. /\ OnDemand(n) => e = <<blocks[Ids!block_idx(n)], n % BLOCK_SIZE>>
        /\ OnDemand(m) => e = <<blocks[Ids!block_idx(m)], m % BLOCK_SIZE>>
    BY <1>1, <2>1, SMTT(30) DEF IdsEntry, OnDemand
  <2>6. CASE n < BLOCK_SIZE
    <3>1. e[1] = 0 /\ e[2] = n
      BY <2>4, <2>6, SMTT(30)
    <3>2. CASE m < BLOCK_SIZE
      BY <2>4, <3>1, <3>2, <1>8, SMTT(30)
    <3>3. CASE OnDemand(m)
      BY <2>3, <2>5, <3>1, <3>3, SMTT(30)
    <3> QED
      BY <2>2, <3>2, <3>3
  <2>7. CASE m < BLOCK_SIZE /\ OnDemand(n)
    <3>1. e[1] = 0
      BY <2>4, <2>7, SMTT(30)
    <3> QED
      BY <2>3, <2>5, <2>7, <3>1, SMTT(30)
  <2>8. CASE OnDemand(n) /\ OnDemand(m)
    <3>0. /\ e[1] = blocks[Ids!block_idx(n)] /\ e[2] = n % BLOCK_SIZE
          /\ e[1] = blocks[Ids!block_idx(m)] /\ e[2] = m % BLOCK_SIZE
      BY <2>5, <2>8, SMTT(30)
    <3>1. blocks[Ids!block_idx(n)] = blocks[Ids!block_idx(m)] /\ n % BLOCK_SIZE = m % BLOCK_SIZE
      BY <3>0
    <3>2. Ids!block_idx(n) = Ids!block_idx(m)
      BY <3>1, <2>3, <2>8, <1>4, <1>1, <2>1 DEF IdsIInv, BlocksApart
    <3>3. n = m
      BY <3>1, <3>2, <1>4, <2>8, <1>1, <2>1
    <3> QED
      BY <3>3, <1>8
  <2> QED
    BY <2>2, <2>6, <2>7, <2>8
<1> QED
  BY <1>2, <1>5, <1>6, <1>7, <1>8

(* concurrent-id-map.h:136-149, gpu-activity-channel.c: everyone who asks for *)
(* the channel of an id gets the same one, and no two ids share a channel,    *)
(* however many threads find the block missing at once.                       *)
THEOREM ChannelsAreOwn == ASSUME IdsParameters PROVE Ids!Spec => []OwnChannel
<1>1. Ids!Init => IdsIInv
  BY IdsIInvInit
<1>2. IdsIInv /\ [Ids!Next]_(Ids!vars) => IdsIInv'
  <2> SUFFICES ASSUME IdsIInv, [Ids!Next]_(Ids!vars) PROVE IdsIInv'
    OBVIOUS
  <2>1. CASE UNCHANGED Ids!vars
    BY <2>1 DEF Ids!vars, Ids!ids, Ids!locals, IdsIInv, IdsTypeOK, BlocksApart, HandsApart, SlotFilled, GivenRight,
                IdsEntry, OnDemand, Ids!block_idx, Slots
  <2>2. CASE Ids!Done
    BY <2>1, <2>2 DEF Ids!Done
  <2>3. ASSUME NEW t \in IdThreads, Ids!GetLocal(t) \/ Ids!Lookup(t) \/ Ids!Get(t) \/ Ids!Install(t) \/ Ids!Load(t)
        PROVE  IdsIInv'
    BY <2>3, BeginKeeps, GetKeeps, InstallKeeps, LoadKeeps
  <2> QED
    BY <2>1, <2>2, <2>3 DEF Ids!Next
<1>3. IdsIInv => OwnChannel
  BY IInvImpliesOwnChannel DEF OwnChannel
<1> QED
  BY <1>1, <1>2, <1>3, PTL DEF Ids!Spec

-----------------------------------------------------------------------------
(* The table of lock blame (LockBlame)                                     *)

(* Of the constants: addresses are positive, moduli too. *)
BlameParameters ==
  /\ N \in Nat \ {0} /\ Low \in Nat \ {0} /\ Wrap \in Nat \ {0}
  /\ Blame!Objects \subseteq Nat \ {0} /\ Weights \subseteq Nat

BlameEntries == [obj_id : Nat, blame : Nat]

BlameTypeOK ==
  /\ table \in [0 .. N - 1 -> BlameEntries]
  /\ target \in [BlameThreads -> Blame!Objects \cup {0}]
  /\ obj \in [BlameThreads -> Blame!Objects \cup {0}]
  /\ b_pc \in [BlameThreads -> {"run", "wait", "waited", "accept", "take"}]
  /\ spc \in [BlameThreads -> {"none", "add"}]
  /\ weight \in [BlameThreads -> Nat]
  /\ oldval \in [BlameThreads -> BlameEntries]
  /\ added \in [Blame!Ids -> Int] /\ dropped \in [Blame!Ids -> Int] /\ wrapped \in [Blame!Ids -> Int]
  /\ accepted \in [Blame!Ids -> Int] /\ ignored \in [Blame!Ids -> Int]

(* A thread is in the sample handler only while it waits, and the entry that *)
(* a thread is about to empty is one that it has found its object in.        *)
Loaded ==
  \A t \in BlameThreads :
    /\ target[t] # 0 => b_pc[t] \in {"wait", "waited"}
    /\ spc[t] = "add" => target[t] # 0
    /\ b_pc[t] \in {"accept", "take"} => obj[t] # 0
    /\ b_pc[t] = "take" => oldval[t].obj_id = Blame!blame_map_obj_id(obj[t])

BlameIInv == BlameTypeOK /\ Loaded /\ Blame!BlameConserved

-----------------------------------------------------------------------------
LEMMA IdsAndIndices ==
  ASSUME BlameParameters, NEW o \in Blame!Objects
  PROVE  /\ Blame!blame_map_obj_id(o) \in Blame!Ids /\ Blame!blame_map_obj_id(o) \in Nat
         /\ Blame!index(Blame!blame_map_obj_id(o)) \in 0 .. N - 1
<1>1. o \in Nat /\ Low \in Nat \ {0} /\ N \in Nat \ {0}
  BY DEF BlameParameters
<1>2. o % Low \in Nat
  BY <1>1, SMTT(30)
<1>3. (o % Low) \div 4 \in Nat
  BY <1>2, SMTT(30)
<1> DEFINE x == (o % Low) \div 4
<1> HIDE DEF x
<1>4. x % N \in 0 .. N - 1
  BY <1>1, <1>3, SMTT(30) DEF x
<1> QED
  BY <1>3, <1>4 DEF x, Blame!blame_map_obj_id, Blame!Ids, Blame!index

LEMMA IdsAreNat == ASSUME BlameParameters PROVE Blame!Ids \subseteq Nat /\ \A x \in Blame!Ids : Blame!index(x) \in 0 .. N - 1
BY IdsAndIndices DEF Blame!Ids

LEMMA SumOfEntry ==
  ASSUME BlameParameters, NEW e \in BlameEntries, NEW v \in Nat
  PROVE  Blame!Sum(e, v) \in BlameEntries /\ Blame!Sum(e, v).obj_id = e.obj_id /\ Blame!Sum(e, v).blame \in Nat
<1>1. e.blame + v \in Nat /\ Wrap \in Nat \ {0}
  BY SMTT(30) DEF BlameEntries, BlameParameters
<1>2. (e.blame + v) % Wrap \in Nat
  BY <1>1, SMTT(30)
<1> QED
  BY <1>2 DEF Blame!Sum, BlameEntries

LEMMA BlameIInvInit == ASSUME BlameParameters, Blame!Init PROVE BlameIInv
<1>1. Blame!Empty \in BlameEntries /\ Blame!Empty.obj_id = 0 /\ Blame!Empty.blame = 0
  BY DEF Blame!Empty, BlameEntries
<1>2. Blame!Zero \in [Blame!Ids -> Int] /\ \A x \in Blame!Ids : Blame!Zero[x] = 0
  BY SMTT(30) DEF Blame!Zero
<1>3. BlameTypeOK
  BY <1>1, <1>2 DEF Blame!Init, BlameTypeOK
<1>4. Loaded
  BY DEF Blame!Init, Loaded
<1>5. Blame!BlameConserved
  <2> SUFFICES ASSUME NEW x \in Blame!Ids \ {0} PROVE Blame!InTable(x) = 0
    BY <1>2, SMTT(30) DEF Blame!BlameConserved, Blame!Init
  <2>1. table[Blame!index(x)] = Blame!Empty
    BY IdsAreNat DEF Blame!Init
  <2> QED
    BY <1>1, <2>1 DEF Blame!InTable
<1> QED
  BY <1>3, <1>4, <1>5 DEF BlameIInv

(* Steps that touch neither the table nor the history. *)
LEMMA BlameUntouched ==
  ASSUME Blame!BlameConserved, UNCHANGED <<table, Blame!history>>
  PROVE  Blame!BlameConserved'
BY DEF Blame!BlameConserved, Blame!InTable, Blame!index, Blame!history, Blame!Ids, Blame!Objects, Blame!blame_map_obj_id

(* A thread outside the handler goes on in its override; the table stays. *)
LEMMA OneMoves ==
  ASSUME BlameIInv, NEW t \in BlameThreads, spc[t] = "none",
         UNCHANGED <<table, Blame!history, oldval, spc, weight>>,
         target' \in [BlameThreads -> Blame!Objects \cup {0}],
         obj' \in [BlameThreads -> Blame!Objects \cup {0}],
         b_pc' \in [BlameThreads -> {"run", "wait", "waited", "accept", "take"}],
         \A u \in BlameThreads \ {t} :
           target'[u] = target[u] /\ obj'[u] = obj[u] /\ b_pc'[u] = b_pc[u],
         target'[t] # 0 => b_pc'[t] \in {"wait", "waited"},
         b_pc'[t] # "take", b_pc'[t] = "accept" => obj'[t] # 0
  PROVE  BlameTypeOK' /\ Loaded'
<1>1. BlameTypeOK'
  BY DEF BlameIInv, BlameTypeOK, Blame!history, BlameEntries, Blame!Ids, Blame!Objects, Blame!blame_map_obj_id
<1>2. Loaded'
  <2> SUFFICES ASSUME NEW u \in BlameThreads
               PROVE  /\ target'[u] # 0 => b_pc'[u] \in {"wait", "waited"}
                      /\ spc'[u] = "add" => target'[u] # 0
                      /\ b_pc'[u] \in {"accept", "take"} => obj'[u] # 0
                      /\ b_pc'[u] = "take" => oldval'[u].obj_id = Blame!blame_map_obj_id(obj'[u])
    BY DEF Loaded, Blame!blame_map_obj_id
  <2>1. CASE u = t
    BY <2>1
  <2>2. CASE u # t
    BY <2>2 DEF BlameIInv, Loaded
  <2> QED
    BY <2>1, <2>2
<1> QED
  BY <1>1, <1>2

(* The overrides, before blame is taken. *)
LEMMA OverridesKeep ==
  ASSUME BlameParameters, BlameIInv, NEW t \in BlameThreads,
         \/ \E o \in Blame!Objects : Blame!WaitStart(t, o) \/ Blame!Release(t, o)
         \/ Blame!Waited(t) \/ Blame!WaitEnd(t)
  PROVE  BlameIInv'
<1>1. UNCHANGED <<table, Blame!history, oldval, spc, weight>>
  BY DEF Blame!WaitStart, Blame!Release, Blame!Waited, Blame!WaitEnd, Blame!handler
<1>2. Blame!BlameConserved'
  BY <1>1, BlameUntouched DEF BlameIInv
<1>3. spc[t] = "none" /\ Blame!Objects \subseteq Nat \ {0}
  BY DEF Blame!WaitStart, Blame!Release, Blame!Waited, Blame!WaitEnd, Blame!At, BlameParameters
<1>4. BlameTypeOK' /\ Loaded'
  <2>1. /\ target \in [BlameThreads -> Blame!Objects \cup {0}]
        /\ obj \in [BlameThreads -> Blame!Objects \cup {0}]
        /\ b_pc \in [BlameThreads -> {"run", "wait", "waited", "accept", "take"}]
        /\ target[t] # 0 => b_pc[t] \in {"wait", "waited"}
    BY DEF BlameIInv, BlameTypeOK, Loaded
  <2>2. ASSUME NEW o \in Blame!Objects, Blame!WaitStart(t, o) PROVE BlameTypeOK' /\ Loaded'
    <3>1. /\ target' = [target EXCEPT ![t] = o] /\ obj' = [obj EXCEPT ![t] = o]
          /\ b_pc' = [b_pc EXCEPT ![t] = "wait"]
      BY <2>2 DEF Blame!WaitStart, Blame!Goto
    <3> QED
      BY <1>1, <1>3, <2>1, <3>1, OneMoves
  <2>3. ASSUME NEW o \in Blame!Objects, Blame!Release(t, o) PROVE BlameTypeOK' /\ Loaded'
    <3>1. /\ target' = target /\ obj' = [obj EXCEPT ![t] = o]
          /\ b_pc' = [b_pc EXCEPT ![t] = "accept"] /\ b_pc[t] = "run" /\ o # 0
      BY <1>3, <2>3 DEF Blame!Release, Blame!Goto, Blame!At
    <3> QED
      BY <1>1, <1>3, <2>1, <3>1, OneMoves
  <2>4. CASE Blame!Waited(t)
    <3>1. target' = target /\ obj' = obj /\ b_pc' = [b_pc EXCEPT ![t] = "waited"]
      BY <2>4 DEF Blame!Waited, Blame!Goto
    <3> QED
      BY <1>1, <1>3, <2>1, <3>1, OneMoves
  <2>5. CASE Blame!WaitEnd(t)
    <3>1. /\ target' = [target EXCEPT ![t] = 0] /\ obj' = [obj EXCEPT ![t] = 0]
          /\ b_pc' = [b_pc EXCEPT ![t] = "run"]
      BY <2>5 DEF Blame!WaitEnd, Blame!Goto
    <3> QED
      BY <1>1, <1>3, <2>1, <3>1, OneMoves
  <2> QED
    BY <2>2, <2>3, <2>4, <2>5
<1> QED
  BY <1>2, <1>4 DEF BlameIInv

(* The entry of one id changes: what the table holds for the others stays, if *)
(* the entry was and is of this id or of none.                                *)
LEMMA OneEntry ==
  ASSUME BlameParameters, BlameTypeOK, NEW x \in Blame!Ids, NEW e \in BlameEntries,
         table' = [table EXCEPT ![Blame!index(x)] = e],
         table[Blame!index(x)].obj_id \in {x, 0}, e.obj_id \in {x, 0}
  PROVE  /\ table' \in [0 .. N - 1 -> BlameEntries]
         /\ \A y \in Blame!Ids \ {x, 0} : Blame!InTable(y)' = Blame!InTable(y)
         /\ Blame!InTable(x)' = IF e.obj_id = x THEN e.blame ELSE 0
<1>1. Blame!index(x) \in 0 .. N - 1 /\ \A y \in Blame!Ids : Blame!index(y) \in 0 .. N - 1
  BY IdsAreNat
<1>2. table'[Blame!index(x)] = e /\ \A n \in 0 .. N - 1 : n # Blame!index(x) => table'[n] = table[n]
  BY <1>1 DEF BlameTypeOK
<1>3. \A y \in Blame!Ids : Blame!InTable(y)' = IF table'[Blame!index(y)].obj_id = y THEN table'[Blame!index(y)].blame ELSE 0
  BY DEF Blame!InTable, Blame!index
<1>4. ASSUME NEW y \in Blame!Ids \ {x, 0} PROVE Blame!InTable(y)' = Blame!InTable(y)
  <2>1. CASE Blame!index(y) = Blame!index(x)
    BY <1>2, <1>3, <2>1 DEF Blame!InTable
  <2>2. CASE Blame!index(y) # Blame!index(x)
    BY <1>1, <1>2, <1>3, <2>2, SMTT(30) DEF Blame!InTable
  <2> QED
    BY <2>1, <2>2
<1>5. table' \in [0 .. N - 1 -> BlameEntries]
  BY <1>1 DEF BlameTypeOK
<1> QED
  BY <1>2, <1>3, <1>4, <1>5

LEMMA GetLoadKeeps ==
  ASSUME BlameParameters, BlameIInv, NEW t \in BlameThreads, Blame!GetLoad(t)
  PROVE  BlameIInv'
<1> DEFINE x == Blame!blame_map_obj_id(obj[t])
           e == table[Blame!index(x)]
<1>1. b_pc[t] = "accept" /\ spc[t] = "none" /\ UNCHANGED <<table, target, spc, weight, Blame!history>>
  BY DEF Blame!GetLoad, Blame!At, Blame!handler
<1>2. obj[t] \in Blame!Objects /\ e \in BlameEntries
  <2>1. obj[t] \in Blame!Objects
    BY <1>1 DEF BlameIInv, BlameTypeOK, Loaded
  <2> QED
    BY <2>1, IdsAndIndices DEF BlameIInv, BlameTypeOK
<1>3. Blame!BlameConserved'
  BY <1>1, BlameUntouched DEF BlameIInv
<1>4. \/ e.obj_id = x /\ oldval' = [oldval EXCEPT ![t] = e] /\ b_pc' = [b_pc EXCEPT ![t] = "take"] /\ obj' = obj
      \/ oldval' = oldval /\ b_pc' = [b_pc EXCEPT ![t] = "run"] /\ obj' = [obj EXCEPT ![t] = 0]
  BY DEF Blame!GetLoad, Blame!Goto
<1>5. \A u \in BlameThreads : Blame!blame_map_obj_id(obj[u])' = Blame!blame_map_obj_id(obj'[u])
  BY DEF Blame!blame_map_obj_id
<1> HIDE DEF x, e
<1>6. BlameTypeOK'
  <2>1. /\ oldval' \in [BlameThreads -> BlameEntries] /\ obj' \in [BlameThreads -> Blame!Objects \cup {0}]
        /\ b_pc' \in [BlameThreads -> {"run", "wait", "waited", "accept", "take"}]
    BY <1>2, <1>4 DEF BlameIInv, BlameTypeOK
  <2> QED
    BY <1>1, <2>1 DEF BlameIInv, BlameTypeOK, Blame!history, Blame!Ids, BlameEntries, Blame!Objects, Blame!blame_map_obj_id
<1>7. Loaded'
  BY <1>1, <1>2, <1>4, <1>5 DEF BlameIInv, BlameTypeOK, Loaded, x
<1> QED
  BY <1>3, <1>6, <1>7 DEF BlameIInv

(* Taking: the value is the one in the table, and it is of this id. *)
LEMMA GetCasKeeps ==
  ASSUME BlameParameters, BlameIInv, NEW t \in BlameThreads, Blame!GetCas(t)
  PROVE  BlameIInv'
<1>1. b_pc[t] = "take" /\ spc[t] = "none" /\ UNCHANGED <<target, spc, weight, added, dropped, wrapped>>
  BY DEF Blame!GetCas, Blame!Take, Blame!At, Blame!handler, Blame!history
<1>0. obj[t] \in Blame!Objects
  BY <1>1 DEF BlameIInv, BlameTypeOK, Loaded
<1> PICK x \in Blame!Ids : x = Blame!blame_map_obj_id(obj[t])
  BY <1>0, IdsAndIndices
<1> PICK v \in Int : v = oldval[t].blame
  BY SMTT(30) DEF BlameIInv, BlameTypeOK, BlameEntries
<1>2. x \in Nat /\ oldval[t] \in BlameEntries /\ oldval[t].obj_id = x
  BY <1>0, <1>1, IdsAndIndices DEF BlameIInv, BlameTypeOK, Loaded
<1>3. /\ oldval' = [oldval EXCEPT ![t] = Blame!Empty]
      /\ \/ b_pc' = [b_pc EXCEPT ![t] = "accept"] /\ obj' = obj
         \/ b_pc' = [b_pc EXCEPT ![t] = "run"] /\ obj' = [obj EXCEPT ![t] = 0]
  BY DEF Blame!GetCas, Blame!Take, Blame!Goto
<1>4. Blame!Empty \in BlameEntries /\ Blame!Empty.obj_id = 0
  BY DEF Blame!Empty, BlameEntries
<1>5. Loaded'
  <2>1. \A u \in BlameThreads : Blame!blame_map_obj_id(obj[u])' = Blame!blame_map_obj_id(obj'[u])
    BY DEF Blame!blame_map_obj_id
  <2> QED
    BY <1>0, <1>1, <1>3, <2>1 DEF BlameIInv, BlameTypeOK, Loaded
<1>6. CASE table[Blame!index(x)] = oldval[t]
  <2>1. table' = [table EXCEPT ![Blame!index(x)] = Blame!Empty] /\ Blame!Attribute(x, v)
    BY <1>6 DEF Blame!GetCas, Blame!Take
  <2>2. Blame!InTable(x) = v
    BY <1>2, <1>6 DEF Blame!InTable
  <2>3. /\ table' \in [0 .. N - 1 -> BlameEntries]
        /\ \A y \in Blame!Ids \ {x, 0} : Blame!InTable(y)' = Blame!InTable(y)
        /\ x # 0 => Blame!InTable(x)' = 0
    BY <1>2, <1>4, <1>6, <2>1, OneEntry DEF BlameIInv
  <2>4. /\ accepted' \in [Blame!Ids -> Int] /\ ignored' \in [Blame!Ids -> Int]
        /\ accepted'[x] + ignored'[x] = accepted[x] + ignored[x] + v
        /\ \A y \in Blame!Ids \ {x} : accepted'[y] = accepted[y] /\ ignored'[y] = ignored[y]
    <3>1. accepted \in [Blame!Ids -> Int] /\ ignored \in [Blame!Ids -> Int]
      BY DEF BlameIInv, BlameTypeOK
    <3>2. CASE sampling_is_active
      BY <2>1, <3>1, <3>2, SMTT(30) DEF Blame!Attribute, Blame!Plus
    <3>3. CASE ~sampling_is_active
      BY <2>1, <3>1, <3>3, SMTT(30) DEF Blame!Attribute, Blame!Plus
    <3> QED
      BY <3>2, <3>3
  <2>5. BlameTypeOK'
    BY <1>1, <1>3, <1>4, <2>3, <2>4 DEF BlameIInv, BlameTypeOK, Blame!Ids, BlameEntries, Blame!Objects, Blame!blame_map_obj_id
  <2>6. Blame!BlameConserved'
    <3> SUFFICES ASSUME NEW y \in Blame!Ids, y # 0
                 PROVE  added[y] = Blame!InTable(y)' + accepted'[y] + ignored'[y] + dropped[y] + wrapped[y]
      BY <1>1 DEF Blame!BlameConserved, Blame!Ids, Blame!Objects, Blame!blame_map_obj_id
    <3>1. added[y] = Blame!InTable(y) + accepted[y] + ignored[y] + dropped[y] + wrapped[y]
      BY DEF BlameIInv, Blame!BlameConserved
    <3>2. /\ accepted[y] \in Int /\ ignored[y] \in Int /\ dropped[y] \in Int /\ wrapped[y] \in Int
          /\ accepted'[y] \in Int /\ ignored'[y] \in Int
      BY <2>4 DEF BlameIInv, BlameTypeOK
    <3>3. CASE y = x
      BY <2>2, <2>3, <2>4, <3>1, <3>2, <3>3, SMTT(30)
    <3>4. CASE y # x
      BY <2>3, <2>4, <3>1, <3>4
    <3> QED
      BY <3>3, <3>4
  <2> QED
    BY <1>5, <2>5, <2>6 DEF BlameIInv
<1>7. CASE table[Blame!index(x)] # oldval[t]
  <2>1. UNCHANGED <<table, Blame!history, obj>>
    BY <1>7 DEF Blame!GetCas, Blame!history
  <2>2. Blame!BlameConserved'
    BY <2>1, BlameUntouched DEF BlameIInv
  <2>3. BlameTypeOK'
    BY <1>1, <1>3, <1>4, <2>1 DEF BlameIInv, BlameTypeOK, Blame!history, Blame!Ids, BlameEntries, Blame!Objects, Blame!blame_map_obj_id
  <2> QED
    BY <1>5, <2>2, <2>3 DEF BlameIInv
<1> QED
  BY <1>6, <1>7

LEMMA SampleKeeps ==
  ASSUME BlameParameters, BlameIInv, NEW t \in BlameThreads, NEW w \in Weights, Blame!Sample(t, w)
  PROVE  BlameIInv'
<1> DEFINE e == table[Blame!index(Blame!blame_map_obj_id(target[t]))]
<1>1. /\ spc[t] = "none" /\ target[t] # 0 /\ UNCHANGED <<table, target, b_pc, obj, Blame!history>>
      /\ weight' = [weight EXCEPT ![t] = w] /\ oldval' = [oldval EXCEPT ![t] = e]
      /\ spc' = [spc EXCEPT ![t] = "add"]
  BY DEF Blame!Sample
<1>2. e \in BlameEntries /\ w \in Nat
  <2>1. target[t] \in Blame!Objects
    BY <1>1 DEF BlameIInv, BlameTypeOK
  <2> QED
    BY <2>1, IdsAndIndices DEF BlameIInv, BlameTypeOK, BlameParameters
<1> HIDE DEF e
<1>3. Blame!BlameConserved'
  BY <1>1, BlameUntouched DEF BlameIInv
<1>4. BlameTypeOK'
  BY <1>1, <1>2 DEF BlameIInv, BlameTypeOK, Blame!history, Blame!Ids, BlameEntries, Blame!Objects, Blame!blame_map_obj_id
<1>5. b_pc[t] # "take"
  BY <1>1 DEF BlameIInv, Loaded
<1>6. Loaded'
  BY <1>1, <1>5 DEF BlameIInv, BlameTypeOK, Loaded, Blame!blame_map_obj_id
<1> QED
  BY <1>3, <1>4, <1>6 DEF BlameIInv

(* Adding: the new value is worked out from the one it replaces. *)
LEMMA AddCasKeeps ==
  ASSUME BlameParameters, BlameIInv, NEW t \in BlameThreads, Blame!AddCas(t)
  PROVE  BlameIInv'
<1>1. spc[t] = "add" /\ UNCHANGED <<target, b_pc, obj, accepted, ignored>>
  BY DEF Blame!AddCas
<1>2. target[t] \in Blame!Objects /\ b_pc[t] # "take"
  BY <1>1 DEF BlameIInv, BlameTypeOK, Loaded
<1> PICK x \in Blame!Ids : x = Blame!blame_map_obj_id(target[t])
  BY <1>2, IdsAndIndices
<1> PICK old \in BlameEntries : old = oldval[t]
  BY DEF BlameIInv, BlameTypeOK
<1> PICK w \in Nat : w = weight[t]
  BY DEF BlameIInv, BlameTypeOK
<1> DEFINE new == IF old.obj_id = x THEN Blame!Sum(old, w) ELSE [obj_id |-> x, blame |-> w]
           lost == IF old.obj_id = x THEN old.blame + w - Blame!Sum(old, w).blame ELSE 0
<1>3. x \in Nat /\ Blame!index(x) \in 0 .. N - 1 /\ old.blame \in Nat /\ table[Blame!index(x)] \in BlameEntries
  BY <1>2, IdsAndIndices DEF BlameIInv, BlameTypeOK, BlameEntries
<1>4. Blame!Empty \in BlameEntries
  BY DEF Blame!Empty, BlameEntries
<1>5. Blame!Sum(old, w) \in BlameEntries /\ Blame!Sum(old, w).obj_id = old.obj_id /\ Blame!Sum(old, w).blame \in Nat
  BY <1>3, SumOfEntry
<1>6. new \in BlameEntries /\ new.obj_id = x /\ new.blame \in Nat /\ lost \in Int
  BY <1>3, <1>5, SMTT(30) DEF BlameEntries
<1>7. \/ /\ old.obj_id \notin {x, 0} /\ table' = table /\ wrapped' = wrapped
         /\ added' = Blame!Plus(added, x, w) /\ dropped' = Blame!Plus(dropped, x, w)
         /\ Blame!HandlerReturns(t)
      \/ /\ old.obj_id \in {x, 0} /\ table[Blame!index(x)] = old
         /\ table' = [table EXCEPT ![Blame!index(x)] = new] /\ dropped' = dropped
         /\ added' = Blame!Plus(added, x, w) /\ wrapped' = Blame!Plus(wrapped, x, lost)
         /\ Blame!HandlerReturns(t)
      \/ /\ oldval' = [oldval EXCEPT ![t] = table[Blame!index(x)]]
         /\ UNCHANGED <<table, spc, weight, added, dropped, wrapped>>
  BY DEF Blame!AddCas, Blame!handler
<1>8. old.obj_id = x => new = Blame!Sum(old, w) /\ lost = old.blame + w - new.blame
  OBVIOUS
<1>9. old.obj_id # x => new.blame = w /\ lost = 0
  OBVIOUS
<1>10. added \in [Blame!Ids -> Int] /\ dropped \in [Blame!Ids -> Int] /\ wrapped \in [Blame!Ids -> Int] /\ accepted \in [Blame!Ids -> Int] /\ ignored \in [Blame!Ids -> Int]
  BY DEF BlameIInv, BlameTypeOK
<1> HIDE DEF new, lost
<1>11. /\ oldval' \in [BlameThreads -> BlameEntries] /\ spc' \in [BlameThreads -> {"none", "add"}] /\ weight' \in [BlameThreads -> Nat]
       /\ \A u \in BlameThreads \ {t} : oldval'[u] = oldval[u] /\ spc'[u] = spc[u]
  <2>1. CASE Blame!HandlerReturns(t)
    BY <1>4, <2>1 DEF BlameIInv, BlameTypeOK, Blame!HandlerReturns
  <2>2. CASE oldval' = [oldval EXCEPT ![t] = table[Blame!index(x)]] /\ UNCHANGED <<spc, weight>>
    BY <1>3, <2>2 DEF BlameIInv, BlameTypeOK
  <2> QED
    BY <1>7, <2>1, <2>2
<1>12. Loaded'
  <2>1. \A u \in BlameThreads : Blame!blame_map_obj_id(obj[u])' = Blame!blame_map_obj_id(obj[u])
    BY <1>1 DEF Blame!blame_map_obj_id
  <2> QED
    BY <1>1, <1>2, <1>11, <2>1 DEF BlameIInv, BlameTypeOK, Loaded
<1>13. CASE /\ old.obj_id \notin {x, 0} /\ table' = table /\ wrapped' = wrapped
            /\ added' = Blame!Plus(added, x, w) /\ dropped' = Blame!Plus(dropped, x, w)
  <2>1. /\ added' \in [Blame!Ids -> Int] /\ added'[x] = added[x] + w /\ \A y \in Blame!Ids \ {x} : added'[y] = added[y]
        /\ dropped' \in [Blame!Ids -> Int] /\ dropped'[x] = dropped[x] + w /\ \A y \in Blame!Ids \ {x} : dropped'[y] = dropped[y]
    BY <1>10, <1>13, SMTT(30) DEF Blame!Plus
  <2>2. BlameTypeOK'
    BY <1>1, <1>11, <1>13, <2>1 DEF BlameIInv, BlameTypeOK, Blame!Ids, BlameEntries, Blame!Objects, Blame!blame_map_obj_id
  <2>3. Blame!BlameConserved'
    <3> SUFFICES ASSUME NEW y \in Blame!Ids, y # 0
                 PROVE  added'[y] = Blame!InTable(y) + accepted[y] + ignored[y] + dropped'[y] + wrapped[y]
      BY <1>1, <1>13 DEF Blame!BlameConserved, Blame!InTable, Blame!index, Blame!Ids, Blame!Objects, Blame!blame_map_obj_id
    <3>1. added[y] = Blame!InTable(y) + accepted[y] + ignored[y] + dropped[y] + wrapped[y]
      BY DEF BlameIInv, Blame!BlameConserved
    <3>2. /\ accepted[y] \in Int /\ ignored[y] \in Int /\ dropped[y] \in Int /\ wrapped[y] \in Int
          /\ Blame!InTable(y) \in Int
      BY <1>10, IdsAreNat, SMTT(30) DEF BlameIInv, BlameTypeOK, Blame!InTable, BlameEntries
    <3>3. CASE y = x
      <4>1. added'[y] = added[y] + w /\ dropped'[y] = dropped[y] + w /\ w \in Int
        BY <1>3, <2>1, <3>3, SMTT(30)
      <4> QED
        BY <3>1, <3>2, <4>1, SMTT(30)
    <3>4. CASE y # x
      <4>1. added'[y] = added[y] /\ dropped'[y] = dropped[y]
        BY <2>1, <3>4
      <4> QED
        BY <3>1, <4>1
    <3> QED
      BY <3>3, <3>4
  <2> QED
    BY <1>12, <2>2, <2>3 DEF BlameIInv
<1>14. CASE /\ old.obj_id \in {x, 0} /\ table[Blame!index(x)] = old
            /\ table' = [table EXCEPT ![Blame!index(x)] = new] /\ dropped' = dropped
            /\ added' = Blame!Plus(added, x, w) /\ wrapped' = Blame!Plus(wrapped, x, lost)
  <2>1. /\ added' \in [Blame!Ids -> Int] /\ added'[x] = added[x] + w /\ \A y \in Blame!Ids \ {x} : added'[y] = added[y]
        /\ wrapped' \in [Blame!Ids -> Int] /\ wrapped'[x] = wrapped[x] + lost /\ \A y \in Blame!Ids \ {x} : wrapped'[y] = wrapped[y]
    BY <1>6, <1>10, <1>14, SMTT(30) DEF Blame!Plus
  <2>2. /\ table' \in [0 .. N - 1 -> BlameEntries]
        /\ \A y \in Blame!Ids \ {x, 0} : Blame!InTable(y)' = Blame!InTable(y)
        /\ Blame!InTable(x)' = new.blame
    BY <1>3, <1>6, <1>14, OneEntry DEF BlameIInv
  <2>3. BlameTypeOK'
    BY <1>1, <1>11, <1>14, <2>1, <2>2 DEF BlameIInv, BlameTypeOK, Blame!Ids, BlameEntries, Blame!Objects, Blame!blame_map_obj_id
  <2>4. Blame!BlameConserved'
    <3> SUFFICES ASSUME NEW y \in Blame!Ids, y # 0
                 PROVE  added'[y] = Blame!InTable(y)' + accepted[y] + ignored[y] + dropped[y] + wrapped'[y]
      BY <1>1, <1>14 DEF Blame!BlameConserved, Blame!Ids, Blame!Objects, Blame!blame_map_obj_id
    <3>1. added[y] = Blame!InTable(y) + accepted[y] + ignored[y] + dropped[y] + wrapped[y]
      BY DEF BlameIInv, Blame!BlameConserved
    <3>2. accepted[y] \in Int /\ ignored[y] \in Int /\ dropped[y] \in Int /\ wrapped[y] \in Int
      BY <1>10
    <3>3. CASE y = x
      <4>0. old.obj_id \in {x, 0} /\ old.blame \in Nat /\ w \in Nat
        BY <1>3, <1>14 DEF BlameEntries
      <4>1. Blame!InTable(x) + w = new.blame + lost
        <5>1. CASE old.obj_id = x
          <6>1. Blame!InTable(x) = old.blame
            BY <1>14, <5>1 DEF Blame!InTable
          <6>2. lost = old.blame + w - new.blame
            BY <1>8, <5>1
          <6> QED
            BY <1>6, <4>0, <6>1, <6>2, SMTT(30)
        <5>2. CASE old.obj_id = 0
          <6>1. Blame!InTable(x) = 0 /\ new.blame = w /\ lost = 0
            BY <1>9, <1>14, <3>3, <5>2 DEF Blame!InTable
          <6> QED
            BY <4>0, <6>1, SMTT(30)
        <5> QED
          BY <4>0, <5>1, <5>2
      <4>2. Blame!InTable(x) \in Int
        BY <1>3, <1>14, SMTT(30) DEF Blame!InTable
      <4> QED
        <5>1. added'[x] = Blame!InTable(x) + accepted[x] + ignored[x] + dropped[x] + wrapped[x] + w
          BY <2>1, <3>1, <3>3
        <5>2. wrapped'[x] = wrapped[x] + lost /\ Blame!InTable(x)' = new.blame
          BY <2>1, <2>2
        <5>3. PICK m \in Int, v \in Int : m = Blame!InTable(x) /\ v = w
          BY <4>0, <4>2, SMTT(30)
        <5>3a. PICK a \in Int, j \in Int : a = accepted[x] /\ j = ignored[x]
          BY <3>2, <3>3
        <5>3b. PICK d \in Int, r \in Int : d = dropped[x] /\ r = wrapped[x]
          BY <3>2, <3>3
        <5>3c. PICK n \in Int, l \in Int : n = new.blame /\ l = lost
          BY <1>6, SMTT(30)
        <5>4. m + v = n + l => m + a + j + d + r + v = n + a + j + d + (r + l)
          BY SMTT(30)
        <5>5. added'[x] = new.blame + accepted[x] + ignored[x] + dropped[x] + (wrapped[x] + lost)
          BY <4>1, <5>1, <5>3, <5>3a, <5>3b, <5>3c, <5>4
        <5> QED
          BY <3>3, <5>2, <5>5
    <3>4. CASE y # x
      BY <2>1, <2>2, <3>1, <3>4
    <3> QED
      BY <3>3, <3>4
  <2> QED
    BY <1>12, <2>3, <2>4 DEF BlameIInv
<1>15. CASE UNCHANGED <<table, added, dropped, wrapped>>
  <2>1. Blame!BlameConserved'
    BY <1>1, <1>15, BlameUntouched DEF BlameIInv, Blame!history
  <2>2. BlameTypeOK'
    BY <1>1, <1>11, <1>15 DEF BlameIInv, BlameTypeOK, Blame!Ids, BlameEntries, Blame!Objects, Blame!blame_map_obj_id
  <2> QED
    BY <1>12, <2>1, <2>2 DEF BlameIInv
<1> QED
  BY <1>7, <1>13, <1>14, <1>15

(* blame-map.c with LOSSLESS_BLAME: no weight that a sample adds is lost, or  *)
(* goes to another object, unaccounted for.                                   *)
THEOREM NoBlameLost == ASSUME BlameParameters PROVE Blame!Spec => []BlameConserved
<1>1. Blame!Init => BlameIInv
  BY BlameIInvInit
<1>2. BlameIInv /\ [Blame!Next]_(Blame!vars) => BlameIInv'
  <2> SUFFICES ASSUME BlameIInv, [Blame!Next]_(Blame!vars) PROVE BlameIInv'
    OBVIOUS
  <2>1. CASE UNCHANGED <<table, target, b_pc, obj, Blame!handler, oldval, Blame!history>>
    <3>1. Blame!BlameConserved'
      BY <2>1, BlameUntouched DEF BlameIInv
    <3> QED
      BY <2>1, <3>1 DEF BlameIInv, BlameTypeOK, Loaded, Blame!handler, Blame!history, Blame!Ids, BlameEntries, Blame!Objects, Blame!blame_map_obj_id
  <2>2. CASE Blame!SamplingStop \/ Blame!SamplingStart \/ UNCHANGED Blame!vars
    BY <2>1, <2>2 DEF Blame!SamplingStop, Blame!SamplingStart, Blame!vars
  <2>3. ASSUME NEW t \in BlameThreads,
               \/ \E o \in Blame!Objects : Blame!WaitStart(t, o) \/ Blame!Release(t, o)
               \/ Blame!Waited(t) \/ Blame!WaitEnd(t) \/ Blame!GetLoad(t) \/ Blame!GetCas(t)
               \/ (\E v \in Weights : Blame!Sample(t, v)) \/ Blame!AddCas(t)
        PROVE  BlameIInv'
    BY <2>3, OverridesKeep, GetLoadKeeps, GetCasKeeps, SampleKeeps, AddCasKeeps
  <2> QED
    BY <2>2, <2>3 DEF Blame!Next
<1>3. BlameIInv => BlameConserved
  BY DEF BlameIInv, BlameConserved
<1> QED
  BY <1>1, <1>2, <1>3, PTL DEF Blame!Spec
=============================================================================
