---------------------------- MODULE MCSLockProofs ----------------------------
(***************************************************************************)
(* Proofs about MCSLock, for every set of threads.                         *)
(***************************************************************************)
EXTENDS MCSLock, TLAPS

(* It is t's turn: t has the lock, or it has been signalled and will see it. *)
Turn(t) == Holds(t) \/ (At(t, "spin") /\ ~blocked[t])

(* The history variables number the threads in the queue 1..len. *)
Numbered ==
  /\ \A t \in Threads : At(t, "idle") <=> place[t] = 0
  /\ \A t \in Threads : place[t] <= len
  /\ \A s, t \in Threads : place[s] = place[t] /\ place[s] > 0 => s = t

(* It is the turn of the thread at the front, and of no other. *)
FrontHasTurn == \A t \in Threads : Turn(t) <=> place[t] = 1

(* The tail is the last thread of the queue. *)
TailIsLast ==
  /\ tail = nil <=> len = 0
  /\ tail # nil => place[tail] = len

(* The local predecessor of a thread that waits is the one before it. *)
PredIsBefore ==
  \A t \in Threads :
    place[t] > 1 => pred[t] \in Threads /\ place[pred[t]] = place[t] - 1

(* A link that has been made leads to the thread behind, which is spinning. *)
NextIsBehind ==
  \A t \in Threads :
    /\ place[t] > 0 /\ next[t] # nil =>
         place[next[t]] = place[t] + 1 /\ At(next[t], "spin")
    /\ At(t, "signal") => next[t] # nil

(* A thread sets its own blocked flag before it shows itself to the one that *)
(* will clear it.                                                            *)
BlockedBeforeLink == \A t \in Threads : At(t, "link") => blocked[t]

(* The inductive invariant.  Mutual exclusion alone is not inductive: that   *)
(* the front is the only thread that leaves, and that it signals the second, *)
(* needs the shape of the whole queue.                                       *)
IInv ==
  /\ TypeOK
  /\ Numbered
  /\ FrontHasTurn
  /\ TailIsLast
  /\ PredIsBefore
  /\ NextIsBehind
  /\ BlockedBeforeLink

LEMMA InitIInv == Init => IInv
  BY NilNotThread
  DEF Init, IInv, TypeOK, Numbered, FrontHasTurn, TailIsLast, PredIsBefore,
      NextIsBehind, BlockedBeforeLink, Turn, Holds, At, PCs, Queued, Locked

(* Each step of each thread keeps the queue in shape. *)
LEMMA NextIInv == IInv /\ [Next]_vars => IInv'
<1> SUFFICES ASSUME IInv, [Next]_vars
             PROVE  IInv'
  OBVIOUS
<1> USE NilNotThread DEF TypeOK, PCs, Queued, Locked, At, Goto, Stay, Turn, Holds
<1>1. ASSUME NEW t \in Threads, LockSwap(t)
      PROVE  IInv'
  <2> USE <1>1 DEF LockSwap, AfterSwap, Join
  <2>1. TypeOK'
    BY DEF IInv
  <2>2. Numbered'
    BY DEF IInv, Numbered
  <2>3. FrontHasTurn'
    BY DEF IInv, Numbered, FrontHasTurn, TailIsLast
  <2>4. TailIsLast'
    BY DEF IInv, TailIsLast
  <2>5. PredIsBefore'
    BY DEF IInv, Numbered, TailIsLast, PredIsBefore
  <2>6. NextIsBehind'
    BY DEF IInv, Numbered, NextIsBehind
  <2>7. BlockedBeforeLink'
    BY DEF IInv, BlockedBeforeLink
  <2> QED
    BY <2>1, <2>2, <2>3, <2>4, <2>5, <2>6, <2>7 DEF IInv
<1>2. ASSUME NEW t \in Threads, TryLock(t)
      PROVE  IInv'
  <2>1. CASE tail = nil
    <3> USE <1>2, <2>1 DEF TryLock, Join
    <3>1. TypeOK'
      BY DEF IInv
    <3>2. Numbered'
      BY DEF IInv, Numbered, TailIsLast
    <3>3. FrontHasTurn'
      BY DEF IInv, Numbered, FrontHasTurn, TailIsLast
    <3>4. TailIsLast'
      BY DEF IInv, TailIsLast
    <3>5. PredIsBefore'
      BY DEF IInv, Numbered, TailIsLast, PredIsBefore
    <3>6. NextIsBehind'
      BY DEF IInv, Numbered, NextIsBehind, TailIsLast
    <3>7. BlockedBeforeLink'
      BY DEF IInv, BlockedBeforeLink
    <3> QED
      BY <3>1, <3>2, <3>3, <3>4, <3>5, <3>6, <3>7 DEF IInv
  <2>2. CASE tail # nil
    BY <1>2, <2>2
    DEF TryLock, IInv, Numbered, FrontHasTurn, TailIsLast, PredIsBefore, NextIsBehind,
    BlockedBeforeLink
  <2> QED
    BY <2>1, <2>2
<1>3. ASSUME NEW t \in Threads, LockBlock(t)
      PROVE  IInv'
  BY <1>3
  DEF LockBlock, IInv, Numbered, FrontHasTurn, TailIsLast, PredIsBefore, NextIsBehind,
    BlockedBeforeLink
<1>4. ASSUME NEW t \in Threads, LockLink(t)
      PROVE  IInv'
  <2> USE <1>4 DEF LockLink
  <2>1. place[t] > 1
    BY DEF IInv, Numbered, FrontHasTurn
  <2>2. pred[t] \in Threads /\ place[pred[t]] = place[t] - 1
    BY <2>1 DEF IInv, PredIsBefore
  <2>3. TypeOK' /\ Numbered' /\ TailIsLast' /\ PredIsBefore'
    BY <2>2 DEF IInv, Numbered, TailIsLast, PredIsBefore
  <2>4. blocked[t] /\ BlockedBeforeLink'
    BY DEF IInv, BlockedBeforeLink
  <2>5. FrontHasTurn'
    BY <2>1, <2>4 DEF IInv, FrontHasTurn
  <2>6. NextIsBehind'
    BY <2>1, <2>2 DEF IInv, Numbered, NextIsBehind
  <2> QED
    BY <2>3, <2>4, <2>5, <2>6 DEF IInv
<1>5. ASSUME NEW t \in Threads, LockSpin(t)
      PROVE  IInv'
  BY <1>5
  DEF LockSpin, IInv, Numbered, FrontHasTurn, TailIsLast, PredIsBefore, NextIsBehind,
    BlockedBeforeLink
<1>6. ASSUME NEW t \in Threads, UnlockLoad(t)
      PROVE  IInv'
  BY <1>6
  DEF UnlockLoad, IInv, Numbered, FrontHasTurn, TailIsLast, PredIsBefore, NextIsBehind,
    BlockedBeforeLink
<1>7. ASSUME NEW t \in Threads, UnlockCas(t)
      PROVE  IInv'
  <2>1. CASE tail = t
    <3>1. len = 1 /\ place[t] = 1
      BY <1>7, <2>1 DEF UnlockCas, IInv, TailIsLast, FrontHasTurn
    <3>2. \A s \in Threads : s # t => place[s] = 0
      BY <3>1 DEF IInv, Numbered
    <3>3. place' = [s \in Threads |-> 0] /\ len' = 0
      <4>1. UnlockCas(t) => Depart
        BY <2>1, <1>7 DEF UnlockCas
      <4> QED
        BY <1>7, <3>1, <3>2, <4>1 DEF Depart, IInv
    <3> QED
      BY <1>7, <2>1, <3>2, <3>3
      DEF UnlockCas, IInv, Numbered, FrontHasTurn, TailIsLast, PredIsBefore, NextIsBehind,
    BlockedBeforeLink
  <2>2. CASE tail # t
    BY <1>7, <2>2
    DEF UnlockCas, IInv, Numbered, FrontHasTurn, TailIsLast, PredIsBefore, NextIsBehind,
    BlockedBeforeLink
  <2> QED
    BY <2>1, <2>2
<1>8. ASSUME NEW t \in Threads, UnlockAwait(t)
      PROVE  IInv'
  BY <1>8
  DEF UnlockAwait, IInv, Numbered, FrontHasTurn, TailIsLast, PredIsBefore, NextIsBehind,
    BlockedBeforeLink
<1>9. ASSUME NEW t \in Threads, UnlockSignal(t)
      PROVE  IInv'
  <2> DEFINE u == next[t]
  <2> USE <1>9 DEF UnlockSignal, Depart
  <2>1. place[t] = 1 /\ u \in Threads /\ place[u] = 2 /\ At(u, "spin")
    BY DEF IInv, FrontHasTurn, NextIsBehind
  <2> HIDE DEF u
  <2>2. blocked' = [blocked EXCEPT ![u] = FALSE]
    BY DEF u
  <2>3. TypeOK'
    <3>1. len' \in Nat
      BY <2>1 DEF IInv, Numbered
    <3>2. place' \in [Threads -> Nat]
      BY DEF IInv
    <3>3. blocked' \in [Threads -> BOOLEAN]
      BY <2>2 DEF IInv
    <3> QED
      BY <3>1, <3>2, <3>3 DEF IInv
  <2>4. Numbered'
    BY <2>1 DEF IInv, Numbered
  <2>5. FrontHasTurn'
    BY <2>1, <2>2 DEF IInv, Numbered, FrontHasTurn
  <2>6. TailIsLast'
    BY <2>1 DEF IInv, Numbered, TailIsLast
  <2>7. PredIsBefore'
    BY <2>1 DEF IInv, Numbered, PredIsBefore
  <2>8. NextIsBehind'
    BY <2>1 DEF IInv, Numbered, NextIsBehind
  <2>9. BlockedBeforeLink'
    BY <2>1, <2>2 DEF IInv, BlockedBeforeLink
  <2> QED
    BY <2>3, <2>4, <2>5, <2>6, <2>7, <2>8, <2>9 DEF IInv
<1>10. CASE UNCHANGED vars
  BY <1>10
  DEF vars, IInv, Numbered, FrontHasTurn, TailIsLast, PredIsBefore, NextIsBehind,
    BlockedBeforeLink
<1> QED
  BY <1>1, <1>2, <1>3, <1>4, <1>5, <1>6, <1>7, <1>8, <1>9, <1>10
  DEF Next, Wait, Unlock

(* The queue of mcs_lock and mcs_unlock always has its intended shape. *)
THEOREM QueueShape == Spec => []IInv
  BY InitIInv, NextIInv, PTL DEF Spec

(* Type correctness of the lock and of its nodes. *)
THEOREM TypeCorrect == Spec => []TypeOK
<1>1. IInv => TypeOK
  BY DEF IInv
<1> QED
  BY <1>1, QueueShape, PTL

(* mcs_lock admits one thread at a time, whatever the number of threads and  *)
(* whatever mixture of mcs_lock and mcs_trylock they call.                   *)
THEOREM Exclusive == Spec => []MutualExclusion
<1>1. IInv => MutualExclusion
  BY DEF IInv, TypeOK, Numbered, FrontHasTurn, MutualExclusion, Turn
<1> QED
  BY <1>1, QueueShape, PTL

(* mcs_lock and mcs_unlock write only into nodes whose owners are still in   *)
(* the lock's code, so a node may live on its owner's stack.                 *)
THEOREM NodesAlive == Spec => []NodeAlive
<1>1. IInv => NodeAlive
  <2> SUFFICES ASSUME IInv, NEW t \in Threads
               PROVE  /\ At(t, "link") => pred[t] # nil /\ pc[pred[t]] # "idle"
                      /\ At(t, "signal") => next[t] # nil /\ At(next[t], "spin")
    BY DEF NodeAlive
  <2>1. CASE At(t, "link")
    <3>1. place[t] > 1
      BY <2>1 DEF IInv, TypeOK, Numbered, FrontHasTurn, Turn, Holds, At, Locked
    <3> QED
      BY <2>1, <3>1, NilNotThread DEF IInv, TypeOK, Numbered, PredIsBefore, At
  <2>2. CASE At(t, "signal")
    <3>1. place[t] = 1
      BY <2>2 DEF IInv, FrontHasTurn, Turn, Holds, At, Locked
    <3> QED
      BY <2>2, <3>1 DEF IInv, NextIsBehind, At
  <2> QED
    BY <2>1, <2>2 DEF At
<1> QED
  BY <1>1, QueueShape, PTL

(* The lock is granted in the order of the exchanges of the tail. *)
THEOREM Fifo == Spec => FirstComeFirstServed
<1>1. IInv' => (\A t \in Threads : ~Holds(t) /\ Holds(t)' => place'[t] = 1)
  BY DEF IInv, FrontHasTurn, Turn
<1> QED
  BY <1>1, QueueShape, PTL DEF FirstComeFirstServed

(* Every step of the lock is a step of the abstract first-come-first-served  *)
(* lock or leaves it unchanged.                                              *)
LEMMA StepRefines == IInv /\ IInv' /\ [Next]_vars => [Abstract!Next]_(Abstract!vars)
<1> DEFINE in == {t \in Threads : Holds(t)}
<1> SUFFICES ASSUME IInv, IInv', [Next]_vars
             PROVE  Abstract!Next \/ UNCHANGED Abstract!vars
  OBVIOUS
<1> USE DEF Abstract!vars, Abstract!Next, Holds, Locked, At, Goto, Stay, PCs, Queued
<1>1. ASSUME NEW t \in Threads, LockSwap(t) \/ TryLock(t)
      PROVE  Abstract!Next \/ UNCHANGED Abstract!vars
  <2>1. CASE tail # nil /\ TryLock(t)
    BY <2>1 DEF TryLock
  <2>2. CASE tail = nil
    <3>1. len = 0 /\ place[t] = 0 /\ At(t, "idle")
      BY <1>1, <2>2 DEF LockSwap, TryLock, IInv, TailIsLast, Numbered
    <3>2. pc' = [pc EXCEPT ![t] = "cs"] /\ Join(t)
      BY <1>1, <2>2 DEF LockSwap, TryLock, AfterSwap
    <3>3. in' = in \cup {t}
      BY <3>1, <3>2 DEF IInv, TypeOK
    <3> QED
      BY <3>1, <3>2, <3>3 DEF Abstract!Enter, Join
  <2>3. CASE tail # nil /\ LockSwap(t)
    <3>1. place[t] = 0 /\ in' = in
      BY <2>3 DEF LockSwap, AfterSwap, IInv, TypeOK, Numbered
    <3> QED
      BY <2>3, <3>1 DEF Abstract!Enter, LockSwap, Join
  <2> QED
    BY <1>1, <2>1, <2>2, <2>3
<1>2. ASSUME NEW t \in Threads,
             LockBlock(t) \/ LockLink(t) \/ UnlockLoad(t) \/ UnlockAwait(t)
      PROVE  UNCHANGED Abstract!vars
  BY <1>2 DEF LockBlock, LockLink, UnlockLoad, UnlockAwait, IInv, TypeOK
<1>3. ASSUME NEW t \in Threads, LockSpin(t)
      PROVE  Abstract!Next
  <2>1. place[t] = 1
    BY <1>3 DEF LockSpin, IInv, FrontHasTurn, Turn
  <2>2. in = {} /\ in' = {t}
    BY <1>3, <2>1 DEF LockSpin, IInv, TypeOK, Numbered, FrontHasTurn, Turn
  <2> QED
    BY <1>3, <2>1, <2>2 DEF LockSpin, Abstract!Acquire
<1>4. ASSUME NEW t \in Threads, UnlockCas(t) \/ UnlockSignal(t)
      PROVE  Abstract!Next \/ UNCHANGED Abstract!vars
  <2>1. CASE UnlockCas(t) /\ tail # t
    BY <2>1 DEF UnlockCas, IInv, TypeOK
  <2>2. CASE UnlockSignal(t) \/ tail = t
    <3>1. At(t, "cas") \/ At(t, "signal")
      BY <1>4 DEF UnlockCas, UnlockSignal
    <3>2. pc' = [pc EXCEPT ![t] = "idle"] /\ Depart
      BY <1>4, <2>2 DEF UnlockCas, UnlockSignal
    <3>3. place[t] = 1
      BY <3>1 DEF IInv, FrontHasTurn, Turn
    <3>4. in = {t}
      BY <3>1, <3>3 DEF IInv, TypeOK, Numbered, FrontHasTurn, Turn
    <3>5. in' = {}
      BY <3>2, <3>4 DEF IInv, TypeOK
    <3> QED
      BY <3>2, <3>3, <3>4, <3>5 DEF Depart, Abstract!Leave, Abstract!MoveUp
  <2> QED
    BY <1>4, <2>1, <2>2
<1>5. CASE UNCHANGED vars
  BY <1>5 DEF vars
<1> QED
  BY <1>1, <1>2, <1>3, <1>4, <1>5 DEF Next, Wait, Unlock

(* The initial states and the steps of the lock are initial states and steps *)
(* of the abstract first-come-first-served lock, or leave it unchanged.      *)
THEOREM Refinement == Spec => ImplementsFairLock
<1>1. Init => Abstract!Init
  BY DEF Init, Abstract!Init, Holds, Locked
<1> QED
  BY <1>1, StepRefines, QueueShape, PTL DEF Spec, ImplementsFairLock, Abstract!Spec
==============================================================================
