------------------------- MODULE ParallelWorkProofs -------------------------
(***************************************************************************)
(* TakenOnce, NoneLeftBehind and BatchOver of ParallelWork, for any number *)
(* of helpers, any block size and any number of batches, as long as all    *)
(* batches have one size.                                                  *)
(*                                                                         *)
(* A thread may hold what it computed in an earlier batch.  It is harmless *)
(* because it depends on nothing but the counter it started from           *)
(* (Computed), so when the exchange succeeds it is what the thread would   *)
(* compute now.  The end of a batch rests on a count: outCounter is the    *)
(* number of items that were taken by threads which have reported them.    *)
(***************************************************************************)
EXTENDS ParallelWork, FiniteSetTheorems, TLAPS

(* A leaf is for Zenon unless it says SMT. *)
USE Zenon

(* Of the constants: there is one size of batches, and blocks are not empty. *)
Parameters == blockSize \in Nat \ {0} /\ \E n \in Nat : Sizes = {n}

Size == CHOOSE n \in Sizes : TRUE
Last == cntOffset + Size

Places == {"load", "decide", "cas", "work", "report", "wait", "call", "max", "out", "in", "force", "done"}

TypeOK ==
  /\ inCounter \in Nat /\ outCounter \in Nat /\ maxCounter \in {0, Last}
  /\ pc \in [Threads -> Places]
  /\ beginCount \in [Threads -> Nat] /\ endCount \in [Threads -> Nat]
  /\ nextCounter \in [Threads -> Nat] /\ item \in [Threads -> Nat]
  /\ numItems = IF maxCounter = 0 THEN 0 ELSE Size
  /\ taken \in [Items -> SUBSET Threads] /\ done \in [Items -> SUBSET Threads]

(* What a thread has worked out follows from the counter it began with. *)
Computed ==
  \A t \in Threads :
    /\ pc[t] \in {"decide", "cas", "work", "report"} => maxCounter = Last /\ beginCount[t] >= cntOffset
    /\ pc[t] = "cas" =>
         /\ endCount[t] <= Last /\ (endCount[t] = Last \/ endCount[t] = beginCount[t] + blockSize)
         /\ IF endCount[t] = Last THEN nextCounter[t] < cntOffset ELSE nextCounter[t] = endCount[t]

(* A thread is at the items that it took. *)
Working(t) == pc[t] \in {"work", "report"}
Mine(t) == { i \in Items : beginCount[t] <= i + cntOffset /\ i + cntOffset < endCount[t] }
Holding ==
  \A t \in Threads : Working(t) =>
    /\ beginCount[t] < endCount[t] /\ endCount[t] <= Last
    /\ beginCount[t] <= item[t] /\ item[t] <= endCount[t]
    /\ pc[t] = "work" <=> item[t] < endCount[t]
    /\ \A i \in Mine(t) : taken[i] = {t}

(* inCounter says which items are taken. *)
TakenSoFar ==
  /\ inCounter >= cntOffset =>
       maxCounter = Last /\ \A i \in Items : taken[i] # {} <=> i + cntOffset < inCounter
  /\ maxCounter = 0 => \A i \in Items : taken[i] = {}
  /\ \A i \in Items : taken[i] = {} \/ \E t \in Threads : taken[i] = {t}

(* Items are done by those who took them: all but those still ahead. *)
DoneSoFar ==
  \A i \in Items :
    /\ done[i] \subseteq taken[i]
    /\ taken[i] # {} => \/ done[i] # {}
                        \/ \E t \in Threads : Working(t) /\ item[t] <= i + cntOffset /\ i \in Mine(t)

(* The items that outCounter counts. *)
Reported == { i \in Items : taken[i] # {} /\ \A t \in Threads : Working(t) => i \notin Mine(t) }
Counted == maxCounter = Last /\ pc[master] # "out" => outCounter = cntOffset + Cardinality(Reported)

(* What the master knows from where it is. *)
MasterKnows ==
  /\ pc[master] \in {"wait", "call", "max", "out", "in", "force", "done"} => inCounter < cntOffset
  /\ pc[master] \in {"call", "max", "out", "in", "force", "done"} => \A t \in Threads : ~Working(t)
  /\ pc[master] \in {"out", "in"} => maxCounter = Last /\ \A i \in Items : taken[i] = {}
  /\ pc[master] \in {"call", "max", "force", "done"} /\ maxCounter = Last => \A i \in Items : done[i] # {}

IInv == /\ TypeOK /\ Computed /\ Holding /\ TakenSoFar /\ DoneSoFar /\ Counted /\ MasterKnows
        /\ NoneLeftBehind

-----------------------------------------------------------------------------
LEMMA ItemsOfBatch ==
  ASSUME Parameters
  PROVE  /\ Size \in Nat /\ Sizes = {Size} /\ Items = 0 .. Size - 1
         /\ Last \in Nat /\ Last = Size + 2 /\ Last # 0
<1>1. PICK n \in Nat : Sizes = {n}
  BY DEF Parameters
<1>2. Size = n
  BY <1>1 DEF Size
<1>3. (CHOOSE k \in Sizes : \A m \in Sizes : m <= k) = n
  BY <1>1, SMT
<1> QED
  BY <1>1, <1>2, <1>3, SMT DEF Items, Last, cntOffset

LEMMA IInvInit == ASSUME Parameters, Init PROVE IInv
<1>1. master \in Threads
  BY DEF Threads
<1>2. TypeOK
  BY ItemsOfBatch DEF Init, TypeOK, Places, cntInitial
<1>3. \A t \in Threads : pc[t] \in {"max", "load"}
  BY DEF Init
<1>4. Computed /\ Holding
  BY <1>3 DEF Computed, Holding, Working
<1>5. TakenSoFar /\ DoneSoFar
  BY SMT DEF Init, TakenSoFar, DoneSoFar, cntInitial, cntOffset
<1>6. Counted
  BY ItemsOfBatch DEF Init, Counted, cntInitial
<1>7. MasterKnows
  BY <1>1, <1>3, ItemsOfBatch, SMT DEF Init, MasterKnows, Working, cntInitial, cntOffset
<1>8. NoneLeftBehind
  BY SMT DEF Init, NoneLeftBehind, Filled
<1> QED
  BY <1>2, <1>4, <1>5, <1>6, <1>7, <1>8 DEF IInv

LEMMA IInvImplies == ASSUME Parameters, IInv PROVE TakenOnce /\ NoneLeftBehind /\ BatchOver
<1>1. ASSUME NEW i \in Items
      PROVE  Cardinality(taken[i]) <= 1 /\ done[i] \subseteq taken[i] /\ (i \notin Batch => taken[i] = {})
  <2>1. Cardinality(taken[i]) <= 1
    <3>1. taken[i] = {} \/ \E t \in Threads : taken[i] = {t}
      BY <1>1 DEF IInv, TakenSoFar
    <3> QED
      BY <3>1, FS_EmptySet, FS_Singleton, SMT
  <2>2. i \notin Batch => taken[i] = {}
    BY <1>1, ItemsOfBatch, SMT DEF IInv, TypeOK, TakenSoFar, Batch
  <2> QED
    BY <1>1, <2>1, <2>2 DEF IInv, DoneSoFar
<1>2. BatchOver
  <2> SUFFICES ASSUME pc[master] \in {"call", "max", "force", "done"}
               PROVE  (\A i \in Batch : done[i] # {}) /\ \A t \in Helpers : pc[t] # "work"
    BY DEF BatchOver
  <2>1. \A t \in Threads : ~Working(t)
    BY DEF IInv, MasterKnows
  <2>2. \A i \in Batch : done[i] # {}
    BY ItemsOfBatch, SMT DEF IInv, TypeOK, MasterKnows, Batch
  <2> QED
    BY <2>1, <2>2 DEF Working, Threads
<1> QED
  BY <1>1, <1>2 DEF IInv, TakenOnce

-----------------------------------------------------------------------------
(* Steps of a thread that holds no items, which leave the counters alone. *)
LEMMA ItemsKept ==
  ASSUME Parameters, IInv, NEW t \in Threads, ~Working(t), ~Working(t)',
         UNCHANGED <<inCounter, outCounter, maxCounter, numItems, taken, done>>,
         pc' \in [Threads -> Places],
         beginCount' \in [Threads -> Nat], endCount' \in [Threads -> Nat],
         nextCounter' \in [Threads -> Nat], item' \in [Threads -> Nat],
         \A u \in Threads \ {t} : /\ pc'[u] = pc[u] /\ beginCount'[u] = beginCount[u]
                                /\ endCount'[u] = endCount[u] /\ item'[u] = item[u]
  PROVE  /\ TypeOK' /\ Holding' /\ TakenSoFar' /\ DoneSoFar' /\ Reported' = Reported
         /\ \A u \in Threads : Working(u)' <=> Working(u)
<1>1. \A u \in Threads : Working(u)' <=> Working(u)
  BY DEF Working
<1>2. \A u \in Threads : Working(u) => u # t /\ Mine(u)' = Mine(u)
  BY DEF Mine
<1>3. TypeOK'
  BY DEF IInv, TypeOK, Items, Last, Size
<1>4. Holding'
  <2> SUFFICES ASSUME NEW u \in Threads, Working(u)'
               PROVE  /\ beginCount'[u] < endCount'[u] /\ endCount'[u] <= Last
                      /\ beginCount'[u] <= item'[u] /\ item'[u] <= endCount'[u]
                      /\ pc'[u] = "work" <=> item'[u] < endCount'[u]
                      /\ \A i \in Mine(u)' : taken'[i] = {u}
    BY DEF Holding, Last, Size
  <2>1. Working(u) /\ u # t /\ Mine(u)' = Mine(u)
    BY <1>1, <1>2
  <2> QED
    BY <2>1, SMT DEF IInv, Holding
<1>5. TakenSoFar'
  BY DEF IInv, TakenSoFar, Items, Last, Size
<1>6. DoneSoFar'
  BY <1>1, <1>2, SMT DEF IInv, DoneSoFar, Items
<1>7. Reported' = Reported
  BY <1>1, <1>2 DEF Reported, Items
<1> QED
  BY <1>1, <1>3, <1>4, <1>5, <1>6, <1>7

(* Looking at inCounter: to work, or to where NoWork leads. *)
LEMMA LookKeeps ==
  ASSUME Parameters, IInv, NEW t \in Threads, pc[t] \in {"load", "cas"},
         Look(t, inCounter), UNCHANGED <<counters, item, caller, history>>
  PROVE  IInv'
<1>0. UNCHANGED <<inCounter, outCounter, maxCounter, numItems, taken, done, item>>
  BY DEF counters, history
<1>1. inCounter \in Nat /\ cntOffset = 2 /\ cntCompleted = 1
  BY DEF IInv, TypeOK, cntOffset, cntCompleted
<1>2. PICK l \in Places : /\ pc' = [pc EXCEPT ![t] = l]
                          /\ l = IF inCounter >= cntOffset THEN "decide" ELSE NoWork(t, inCounter = cntCompleted)
  BY DEF Look, Goto, NoWork, Places
<1>3. PICK b \in Nat : /\ beginCount' = [beginCount EXCEPT ![t] = b]
                       /\ b = IF inCounter >= cntOffset THEN inCounter ELSE 0
  BY <1>1 DEF Look
<1>4. endCount' = [endCount EXCEPT ![t] = 0] /\ nextCounter' = [nextCounter EXCEPT ![t] = 0]
  BY DEF Look
<1>5. l \in {"decide", "load", "wait", "done"} /\ (l = "decide" <=> inCounter >= cntOffset)
      /\ (t = master => l # "done")
  BY <1>2 DEF NoWork
<1>6. /\ pc'[t] = l /\ beginCount'[t] = b /\ pc' \in [Threads -> Places]
      /\ beginCount' \in [Threads -> Nat] /\ endCount' \in [Threads -> Nat] /\ nextCounter' \in [Threads -> Nat]
      /\ \A u \in Threads \ {t} : /\ pc'[u] = pc[u] /\ beginCount'[u] = beginCount[u]
                                 /\ endCount'[u] = endCount[u] /\ nextCounter'[u] = nextCounter[u]
  BY <1>2, <1>3, <1>4 DEF IInv, TypeOK
<1>7. ~Working(t) /\ ~Working(t)'
  BY <1>5, <1>6 DEF Working
<1>8. /\ TypeOK' /\ Holding' /\ TakenSoFar' /\ DoneSoFar' /\ Reported' = Reported
      /\ \A u \in Threads : Working(u)' <=> Working(u)
  <2>1. item' \in [Threads -> Nat] /\ \A u \in Threads : item'[u] = item[u]
    BY <1>0 DEF IInv, TypeOK
  <2> QED
    BY <1>0, <1>6, <1>7, <2>1, ItemsKept
<1>9. Computed'
  <2> SUFFICES ASSUME NEW u \in Threads
               PROVE  /\ pc'[u] \in {"decide", "cas", "work", "report"} => maxCounter = Last /\ beginCount'[u] >= cntOffset
                      /\ pc'[u] = "cas" =>
                           /\ endCount'[u] <= Last /\ (endCount'[u] = Last \/ endCount'[u] = beginCount'[u] + blockSize)
                           /\ IF endCount'[u] = Last THEN nextCounter'[u] < cntOffset ELSE nextCounter'[u] = endCount'[u]
    BY <1>0 DEF Computed, Last, Size, cntOffset
  <2>1. CASE u = t
    BY <1>3, <1>5, <1>6, <2>1 DEF IInv, TakenSoFar
  <2>2. CASE u # t
    BY <1>6, <2>2 DEF IInv, Computed
  <2> QED
    BY <2>1, <2>2
<1>10. master \in Threads
  BY DEF Threads
<1>11. Counted'
  <2>1. pc'[master] # "out" => pc[master] # "out"
    BY <1>6, <1>10 DEF IInv, TypeOK
  <2> QED
    BY <1>0, <1>8, <2>1 DEF IInv, Counted, Last, Size
<1>12. MasterKnows'
  <2>1. CASE t = master
    BY <1>0, <1>1, <1>5, <1>6, <2>1, SMT DEF MasterKnows, Last, Size, cntOffset, Items
  <2>2. CASE t # master
    BY <1>0, <1>6, <1>8, <1>10, <2>2 DEF IInv, MasterKnows, Last, Size, cntOffset, Items
  <2> QED
    BY <2>1, <2>2
<1>13. NoneLeftBehind'
  <2>1. Filled' => Filled
    BY <1>0, <1>6, <1>10 DEF Filled
  <2> QED
    BY <1>0, <2>1 DEF IInv, NoneLeftBehind, Batch, Items, cntOffset
<1> QED
  BY <1>8, <1>9, <1>11, <1>12, <1>13 DEF IInv

LEMMA DecideKeeps ==
  ASSUME Parameters, IInv, NEW t \in Threads, Decide(t)
  PROVE  IInv'
<1>0. UNCHANGED <<inCounter, outCounter, maxCounter, numItems, taken, done, item, beginCount>>
  BY DEF Decide, counters, history
<1>1. /\ pc[t] = "decide" /\ pc' = [pc EXCEPT ![t] = "cas"] /\ maxCounter = Last
      /\ beginCount[t] \in Nat /\ beginCount[t] >= cntOffset
  BY DEF Decide, Goto, IInv, TypeOK, Computed
<1>2. blockSize \in Nat \ {0} /\ Last \in Nat /\ cntOffset = 2
  BY ItemsOfBatch DEF Parameters, cntOffset
<1>3. PICK e \in Nat : /\ endCount' = [endCount EXCEPT ![t] = e]
                       /\ e = IF beginCount[t] + blockSize < Last THEN beginCount[t] + blockSize ELSE Last
  <2>1. endCount' = [endCount EXCEPT ![t] = IF beginCount[t] + blockSize < Last THEN beginCount[t] + blockSize ELSE Last]
    BY <1>1 DEF Decide
  <2>2. (IF beginCount[t] + blockSize < Last THEN beginCount[t] + blockSize ELSE Last) \in Nat
    BY <1>1, <1>2, SMT
  <2> QED
    BY <2>1, <2>2
<1>4. PICK k \in Nat : /\ nextCounter' = [nextCounter EXCEPT ![t] = k]
                       /\ IF e < Last THEN k = e ELSE k \in {cntInitial, cntCompleted}
  BY <1>1, <1>2, <1>3 DEF Decide, cntInitial, cntCompleted
<1>5. /\ pc'[t] = "cas" /\ endCount'[t] = e /\ nextCounter'[t] = k
      /\ pc' \in [Threads -> Places] /\ endCount' \in [Threads -> Nat] /\ nextCounter' \in [Threads -> Nat]
      /\ \A u \in Threads \ {t} : pc'[u] = pc[u] /\ endCount'[u] = endCount[u] /\ nextCounter'[u] = nextCounter[u]
  BY <1>1, <1>3, <1>4 DEF IInv, TypeOK, Places
<1>6. ~Working(t) /\ ~Working(t)'
  BY <1>1, <1>5 DEF Working
<1>7. /\ TypeOK' /\ Holding' /\ TakenSoFar' /\ DoneSoFar' /\ Reported' = Reported
      /\ \A u \in Threads : Working(u)' <=> Working(u)
  <2>1. /\ item' \in [Threads -> Nat] /\ beginCount' \in [Threads -> Nat]
        /\ \A u \in Threads : item'[u] = item[u] /\ beginCount'[u] = beginCount[u]
    BY <1>0 DEF IInv, TypeOK
  <2> QED
    BY <1>0, <1>5, <1>6, <2>1, ItemsKept
<1>8. Computed'
  <2> SUFFICES ASSUME NEW u \in Threads
               PROVE  /\ pc'[u] \in {"decide", "cas", "work", "report"} => maxCounter = Last /\ beginCount[u] >= cntOffset
                      /\ pc'[u] = "cas" =>
                           /\ endCount'[u] <= Last /\ (endCount'[u] = Last \/ endCount'[u] = beginCount[u] + blockSize)
                           /\ IF endCount'[u] = Last THEN nextCounter'[u] < cntOffset ELSE nextCounter'[u] = endCount'[u]
    BY <1>0 DEF Computed, Last, Size, cntOffset
  <2>1. CASE u = t
    BY <1>1, <1>2, <1>3, <1>4, <1>5, <2>1, SMT DEF cntInitial, cntCompleted
  <2>2. CASE u # t
    BY <1>5, <2>2 DEF IInv, Computed
  <2> QED
    BY <2>1, <2>2
<1>9. master \in Threads
  BY DEF Threads
<1>10. Counted'
  <2>1. pc'[master] # "out" => pc[master] # "out"
    BY <1>1, <1>5, <1>9 DEF IInv, TypeOK
  <2> QED
    BY <1>0, <1>7, <2>1 DEF IInv, Counted, Last, Size
<1>11. MasterKnows'
  <2>1. CASE t = master
    BY <1>5, <2>1 DEF MasterKnows
  <2>2. CASE t # master
    BY <1>0, <1>5, <1>7, <1>9, <2>2 DEF IInv, MasterKnows, Last, Size, cntOffset, Items
  <2> QED
    BY <2>1, <2>2
<1>12. NoneLeftBehind'
  <2>1. Filled' => Filled
    BY <1>0, <1>1, <1>5, <1>9 DEF Filled
  <2> QED
    BY <1>0, <2>1 DEF IInv, NoneLeftBehind, Batch, Items, cntOffset
<1> QED
  BY <1>7, <1>8, <1>10, <1>11, <1>12 DEF IInv

(* The exchange that takes the items, made from the value inCounter has now. *)
LEMMA TakeKeeps ==
  ASSUME Parameters, IInv, NEW t \in Threads, pc[t] = "cas", inCounter = beginCount[t], Take(t)
  PROVE  IInv'
<1>0. UNCHANGED <<outCounter, maxCounter, numItems, done, beginCount, endCount, nextCounter>>
  BY DEF Take
<1>1. PICK b \in Nat, e \in Nat, k \in Nat : b = beginCount[t] /\ e = endCount[t] /\ k = nextCounter[t]
  BY DEF IInv, TypeOK
<1>2. /\ maxCounter = Last /\ b >= cntOffset /\ e <= Last /\ (e = Last \/ e = b + blockSize)
      /\ IF e = Last THEN k < cntOffset ELSE k = e
  BY <1>1 DEF IInv, Computed
<1>3. blockSize \in Nat \ {0} /\ Last \in Nat /\ cntOffset = 2 /\ Items = 0 .. Last - 3
  BY ItemsOfBatch, SMT DEF Parameters, cntOffset
<1>4. inCounter = b /\ inCounter' = k /\ item' = [item EXCEPT ![t] = b]
  BY <1>1 DEF Take
<1>5. PICK l \in {"work", "load", "wait", "done"} :
        /\ pc' = [pc EXCEPT ![t] = l] /\ (l = "work" <=> b < e)
        /\ (t = master => l # "done")
  BY <1>1 DEF Take, Goto, NoWork
<1>6. /\ pc'[t] = l /\ item'[t] = b /\ pc' \in [Threads -> Places] /\ item' \in [Threads -> Nat]
      /\ \A u \in Threads \ {t} : pc'[u] = pc[u] /\ item'[u] = item[u]
  BY <1>4, <1>5 DEF IInv, TypeOK, Places
<1>7. /\ ~Working(t) /\ (Working(t)' <=> b < e)
      /\ \A u \in Threads \ {t} : Working(u)' <=> Working(u)
  BY <1>5, <1>6 DEF Working
<1>8. \A u \in Threads : Mine(u)' = Mine(u)
  BY <1>0 DEF Mine, Items
<1>9. \A i \in Items : taken[i] # {} <=> i + 2 < b
  BY <1>2, <1>3, <1>4 DEF IInv, TakenSoFar
<1>10. \A i \in Items : i \in Mine(t) <=> b <= i + 2 /\ i + 2 < e
  BY <1>1, <1>3 DEF Mine
<1>11. \A i \in Items : taken'[i] = IF i \in Mine(t) THEN {t} ELSE taken[i]
  <2> SUFFICES ASSUME NEW i \in Items PROVE taken'[i] = IF i \in Mine(t) THEN {t} ELSE taken[i]
    OBVIOUS
  <2>1. i \in Block(t) <=> b <= i + 2 /\ i + 2 < e
    BY <1>1, <1>3, SMT DEF Block
  <2>2. taken'[i] = taken[i] \cup (IF i \in Block(t) THEN {t} ELSE {})
    BY DEF Take
  <2>3. i \in Mine(t) => taken[i] = {}
    BY <1>3, <1>9, <1>10, SMT
  <2> QED
    BY <1>10, <2>1, <2>2, <2>3
<1>12. TypeOK'
  <2>1. taken' = [i \in Items |-> taken'[i]]
    BY DEF Take
  <2>2. \A i \in Items : taken'[i] \in SUBSET Threads
    BY <1>11 DEF IInv, TypeOK
  <2>3. taken' \in [Items -> SUBSET Threads]
    BY <2>1, <2>2
  <2> QED
    BY <1>0, <1>4, <1>6, <2>3 DEF IInv, TypeOK, Items, Last, Size
<1>13. Computed'
  <2>1. \A u \in Threads : pc'[u] # "cas" \/ (u # t /\ pc[u] = "cas")
    BY <1>6
  <2>2. \A u \in Threads : pc'[u] \in {"decide", "cas", "work", "report"} => u = t \/ pc'[u] = pc[u]
    BY <1>6
  <2> QED
    BY <1>0, <1>1, <1>2, <2>1, <2>2 DEF IInv, Computed, Last, Size, cntOffset
<1>14. Holding'
  <2> SUFFICES ASSUME NEW u \in Threads, Working(u)'
               PROVE  /\ beginCount[u] < endCount[u] /\ endCount[u] <= Last
                      /\ beginCount[u] <= item'[u] /\ item'[u] <= endCount[u]
                      /\ pc'[u] = "work" <=> item'[u] < endCount[u]
                      /\ \A i \in Mine(u) : taken'[i] = {u}
    BY <1>0, <1>8 DEF Holding, Last, Size
  <2>1. \A i \in Mine(u) : i \in Items
    BY DEF Mine
  <2>2. CASE u = t
    BY <1>1, <1>2, <1>5, <1>6, <1>7, <1>11, <2>1, <2>2, SMT
  <2>3. CASE u # t
    <3>1. /\ Working(u) /\ pc'[u] = pc[u] /\ item'[u] = item[u]
      BY <1>6, <1>7, <2>3
    <3>2. \A i \in Mine(u) : taken[i] = {u}
      BY <3>1 DEF IInv, Holding
    <3>3. \A i \in Mine(u) : i \notin Mine(t)
      BY <1>3, <1>9, <1>10, <2>1, <3>2, SMT
    <3> QED
      BY <1>11, <2>1, <3>1, <3>2, <3>3 DEF IInv, Holding
  <2> QED
    BY <2>2, <2>3
<1>15. TakenSoFar'
  <2>1. k >= 2 => \A i \in Items : taken'[i] # {} <=> i + 2 < k
    BY <1>2, <1>3, <1>9, <1>10, <1>11, SMT
  <2>2. \A i \in Items : taken'[i] = {} \/ \E u \in Threads : taken'[i] = {u}
    BY <1>11 DEF IInv, TakenSoFar
  <2>3. maxCounter' = Last' /\ maxCounter' # 0
    BY <1>0, <1>2, ItemsOfBatch DEF Last, Size
  <2> QED
    BY <1>3, <1>4, <2>1, <2>2, <2>3 DEF TakenSoFar, Items, Last, Size, cntOffset
<1>16. DoneSoFar'
  <2> SUFFICES ASSUME NEW i \in Items
               PROVE  /\ done[i] \subseteq taken'[i]
                      /\ taken'[i] # {} => \/ done[i] # {}
                                           \/ \E u \in Threads : Working(u)' /\ item'[u] <= i + cntOffset /\ i \in Mine(u)
    BY <1>0, <1>8 DEF DoneSoFar, Items
  <2>1. CASE i \in Mine(t)
    <3>1. done[i] \subseteq taken[i] /\ taken[i] = {}
      BY <1>3, <1>9, <1>10, <2>1, SMT DEF IInv, DoneSoFar
    <3>2. Working(t)' /\ item'[t] <= i + cntOffset
      BY <1>3, <1>6, <1>7, <1>10, <2>1, SMT
    <3> QED
      BY <2>1, <3>1, <3>2
  <2>2. CASE i \notin Mine(t)
    <3>1. taken'[i] = taken[i]
      BY <1>11, <2>2
    <3>2. \A u \in Threads : Working(u) => Working(u)' /\ item'[u] = item[u]
      BY <1>6, <1>7
    <3> QED
      BY <3>1, <3>2 DEF IInv, DoneSoFar
  <2> QED
    BY <2>1, <2>2
<1>17. Reported' = Reported
  <2>1. \A i \in Mine(t) : taken[i] = {} /\ Working(t)'
    <3> TAKE i \in Mine(t)
    <3>1. i \in Items
      BY DEF Mine
    <3> QED
      BY <1>3, <1>7, <1>9, <1>10, <3>1, SMT
  <2>2. \A i \in Items : i \in Reported' <=> taken'[i] # {} /\ \A u \in Threads : Working(u)' => i \notin Mine(u)
    BY <1>8 DEF Reported, Items
  <2>3. \A i \in Items : i \in Reported <=> taken[i] # {} /\ \A u \in Threads : Working(u) => i \notin Mine(u)
    BY DEF Reported
  <2>4. \A i \in Items : i \in Reported' <=> i \in Reported
    BY <1>7, <1>11, <2>1, <2>2, <2>3
  <2> QED
    BY <2>4 DEF Reported, Items
<1>18. pc[master] \notin {"wait", "call", "max", "out", "in", "force", "done"} /\ master \in Threads
  BY <1>2, <1>3, <1>4, SMT DEF IInv, MasterKnows, Threads
<1>19. Counted'
  BY <1>0, <1>17, <1>18 DEF IInv, Counted, Last, Size
<1>20. MasterKnows'
  <2>1. CASE t = master
    <3>1. l = "wait" => k < 2
      BY <1>2, <1>3, <1>5, SMT
    <3> QED
      BY <1>3, <1>4, <1>5, <1>6, <2>1, <3>1 DEF MasterKnows, cntOffset
  <2>2. CASE t # master
    BY <1>6, <1>18, <2>2 DEF MasterKnows
  <2> QED
    BY <2>1, <2>2
<1>21. NoneLeftBehind'
  <2>1. ASSUME k < 2, NEW i \in Items PROVE taken'[i] # {}
    <3>1. e = Last /\ i + 2 < e
      BY <1>2, <1>3, <2>1, SMT
    <3>2. i \in Mine(t) \/ i + 2 < b
      BY <1>3, <1>10, <3>1, SMT
    <3> QED
      BY <1>9, <1>11, <3>2
  <2> QED
    BY <1>3, <1>4, <2>1 DEF NoneLeftBehind, Batch, Items, cntOffset
<1> QED
  BY <1>12, <1>13, <1>14, <1>15, <1>16, <1>19, <1>20, <1>21 DEF IInv

LEMMA WorkKeeps ==
  ASSUME Parameters, IInv, NEW t \in Threads, Work(t)
  PROVE  IInv'
<1>0. UNCHANGED <<inCounter, outCounter, maxCounter, numItems, taken, beginCount, endCount, nextCounter>>
  BY DEF Work, counters
<1>1. PICK b \in Nat, e \in Nat, x \in Nat : b = beginCount[t] /\ e = endCount[t] /\ x = item[t]
  BY DEF IInv, TypeOK
<1>2. /\ pc[t] = "work" /\ Working(t) /\ b >= cntOffset /\ b <= x /\ x < e /\ e <= Last
      /\ \A i \in Mine(t) : taken[i] = {t}
  BY <1>1 DEF Work, Working, IInv, Computed, Holding
<1>3. Last \in Nat /\ cntOffset = 2 /\ Items = 0 .. Last - 3
  BY ItemsOfBatch, SMT DEF cntOffset
<1>4. PICK j \in Items : j + 2 = x /\ j = item[t] - cntOffset
  <2>1. x - 2 \in Items /\ (x - 2) + 2 = x
    BY <1>2, <1>3, SMT
  <2> QED
    BY <1>1, <1>3, <2>1
<1>5. /\ j \in Mine(t) /\ taken[j] = {t}
      /\ \A i \in Mine(t) : x <= i + 2 => i = j \/ x + 1 <= i + 2
  BY <1>1, <1>2, <1>3, <1>4, SMT DEF Mine
<1>6. done' = [done EXCEPT ![j] = @ \cup {t}] /\ item' = [item EXCEPT ![t] = x + 1]
  BY <1>1, <1>4 DEF Work
<1>7. PICK l \in {"work", "report"} : pc' = [pc EXCEPT ![t] = l] /\ (l = "work" <=> x + 1 < e)
  BY <1>1 DEF Work, Goto
<1>8. /\ pc'[t] = l /\ item'[t] = x + 1 /\ pc' \in [Threads -> Places] /\ item' \in [Threads -> Nat]
      /\ \A u \in Threads \ {t} : pc'[u] = pc[u] /\ item'[u] = item[u]
      /\ done'[j] = done[j] \cup {t} /\ \A i \in Items \ {j} : done'[i] = done[i]
      /\ done' \in [Items -> SUBSET Threads]
  BY <1>6, <1>7, SMT DEF IInv, TypeOK, Places
<1>9. (\A u \in Threads : Working(u)' <=> Working(u)) /\ \A u \in Threads : Mine(u)' = Mine(u)
  BY <1>0, <1>2, <1>8 DEF Working, Mine, Items
<1>10. TypeOK'
  BY <1>0, <1>8 DEF IInv, TypeOK, Items, Last, Size
<1>11. Computed'
  <2>1. \A u \in Threads : pc'[u] = "cas" => pc[u] = "cas"
    BY <1>8
  <2>2. \A u \in Threads : pc'[u] \in {"decide", "cas", "work", "report"} => pc[u] \in {"decide", "cas", "work", "report"}
    BY <1>2, <1>8
  <2> QED
    BY <1>0, <2>1, <2>2 DEF IInv, Computed, Last, Size, cntOffset
<1>12. Holding'
  <2> SUFFICES ASSUME NEW u \in Threads, Working(u)
               PROVE  /\ beginCount[u] < endCount[u] /\ endCount[u] <= Last
                      /\ beginCount[u] <= item'[u] /\ item'[u] <= endCount[u]
                      /\ pc'[u] = "work" <=> item'[u] < endCount[u]
                      /\ \A i \in Mine(u) : taken[i] = {u}
    BY <1>0, <1>9 DEF Holding, Last, Size
  <2>1. CASE u = t
    BY <1>1, <1>2, <1>7, <1>8, <2>1, SMT
  <2>2. CASE u # t
    BY <1>8, <2>2 DEF IInv, Holding
  <2> QED
    BY <2>1, <2>2
<1>13. TakenSoFar'
  BY <1>0 DEF IInv, TakenSoFar, Items, Last, Size
<1>14. DoneSoFar'
  <2> SUFFICES ASSUME NEW i \in Items
               PROVE  /\ done'[i] \subseteq taken[i]
                      /\ taken[i] # {} => \/ done'[i] # {}
                                          \/ \E u \in Threads : Working(u) /\ item'[u] <= i + cntOffset /\ i \in Mine(u)
    BY <1>0, <1>9 DEF DoneSoFar, Items
  <2>0. done[i] \subseteq taken[i]
    BY DEF IInv, DoneSoFar
  <2>1. CASE i = j
    BY <1>5, <1>8, <2>0, <2>1
  <2>2. CASE i # j
    <3>1. done'[i] = done[i]
      BY <1>8, <2>2
    <3>2. ASSUME NEW u \in Threads, Working(u), item[u] <= i + cntOffset, i \in Mine(u)
          PROVE  item'[u] <= i + cntOffset
      BY <1>1, <1>3, <1>5, <1>8, <2>2, <3>2
    <3> QED
      BY <2>0, <3>1, <3>2 DEF IInv, DoneSoFar
  <2> QED
    BY <2>1, <2>2
<1>15. Reported' = Reported
  BY <1>0, <1>9 DEF Reported, Items
<1>16. master \in Threads /\ pc[master] \notin {"call", "max", "out", "in", "force", "done"}
  BY <1>2 DEF IInv, MasterKnows, Threads
<1>17. Counted'
  BY <1>0, <1>15, <1>16 DEF IInv, Counted, Last, Size
<1>18. pc'[master] = pc[master] \/ pc'[master] \in {"work", "report"}
  BY <1>8, <1>16
<1>19. MasterKnows'
  BY <1>0, <1>16, <1>18 DEF IInv, MasterKnows, cntOffset
<1>20. NoneLeftBehind'
  BY <1>0, <1>16 DEF IInv, NoneLeftBehind, Filled, Batch, Items, cntOffset
<1> QED
  BY <1>10, <1>11, <1>12, <1>13, <1>14, <1>17, <1>19, <1>20 DEF IInv

LEMMA ReportKeeps ==
  ASSUME Parameters, IInv, NEW t \in Threads, Report(t)
  PROVE  IInv'
<1>0. UNCHANGED <<inCounter, maxCounter, numItems, taken, done>>
  BY DEF Report, history
<1>1. PICK b \in Nat, e \in Nat : b = beginCount[t] /\ e = endCount[t]
  BY DEF IInv, TypeOK
<1>2. /\ pc[t] = "report" /\ Working(t) /\ maxCounter = Last /\ b >= cntOffset /\ b < e /\ e <= Last /\ item[t] >= e
      /\ \A i \in Mine(t) : taken[i] = {t}
  <2>1. pc[t] = "report" /\ Working(t)
    BY DEF Report, Working
  <2>2. maxCounter = Last /\ b >= cntOffset
    BY <1>1, <2>1 DEF IInv, Computed
  <2>3. /\ b < e /\ e <= Last /\ ~(item[t] < e) /\ item[t] \in Nat
        /\ \A i \in Mine(t) : taken[i] = {t}
    BY <1>1, <2>1 DEF IInv, Holding, TypeOK
  <2> QED
    BY <2>1, <2>2, <2>3, SMTT(30)
<1>3. Last \in Nat /\ cntOffset = 2 /\ Items = 0 .. Last - 3
  BY ItemsOfBatch, SMT DEF cntOffset
<1>4. /\ beginCount' = [beginCount EXCEPT ![t] = 0] /\ endCount' = [endCount EXCEPT ![t] = 0]
      /\ nextCounter' = [nextCounter EXCEPT ![t] = 0] /\ item' = [item EXCEPT ![t] = 0]
      /\ pc' = [pc EXCEPT ![t] = "load"] /\ outCounter' = outCounter + e - b
  BY <1>1 DEF Report, Return, Goto
<1>5. /\ pc'[t] = "load" /\ pc' \in [Threads -> Places] /\ item' \in [Threads -> Nat]
      /\ beginCount' \in [Threads -> Nat] /\ endCount' \in [Threads -> Nat] /\ nextCounter' \in [Threads -> Nat]
      /\ \A u \in Threads \ {t} : /\ pc'[u] = pc[u] /\ item'[u] = item[u] /\ beginCount'[u] = beginCount[u]
                                 /\ endCount'[u] = endCount[u] /\ nextCounter'[u] = nextCounter[u]
  BY <1>4 DEF IInv, TypeOK, Places
<1>6. ~Working(t)' /\ \A u \in Threads \ {t} : (Working(u)' <=> Working(u)) /\ Mine(u)' = Mine(u)
  BY <1>5 DEF Working, Mine, Items
<1>7. TypeOK'
  <2>1. outCounter \in Nat /\ outCounter' \in Nat
    BY <1>2, <1>4, SMT DEF IInv, TypeOK
  <2> QED
    BY <1>0, <1>5, <2>1 DEF IInv, TypeOK, Items, Last, Size
<1>8. Computed'
  <2>1. \A u \in Threads : pc'[u] \in {"decide", "cas", "work", "report"} => u # t
    BY <1>5
  <2> QED
    BY <1>0, <1>5, <2>1 DEF IInv, Computed, Last, Size, cntOffset
<1>9. Holding'
  <2> SUFFICES ASSUME NEW u \in Threads, Working(u)'
               PROVE  /\ beginCount'[u] < endCount'[u] /\ endCount'[u] <= Last
                      /\ beginCount'[u] <= item'[u] /\ item'[u] <= endCount'[u]
                      /\ pc'[u] = "work" <=> item'[u] < endCount'[u]
                      /\ \A i \in Mine(u)' : taken[i] = {u}
    BY <1>0 DEF Holding, Last, Size
  <2> QED
    BY <1>5, <1>6, SMTT(30) DEF IInv, Holding
<1>10. TakenSoFar'
  BY <1>0 DEF IInv, TakenSoFar, Items, Last, Size
<1>11. DoneSoFar'
  <2> SUFFICES ASSUME NEW i \in Items
               PROVE  /\ done[i] \subseteq taken[i]
                      /\ taken[i] # {} => \/ done[i] # {}
                                          \/ \E u \in Threads : Working(u)' /\ item'[u] <= i + cntOffset /\ i \in Mine(u)'
    BY <1>0 DEF DoneSoFar, Items
  <2>1. ~(item[t] <= i + cntOffset /\ i \in Mine(t))
    BY <1>1, <1>2, <1>3, SMT DEF Mine, IInv, TypeOK
  <2> QED
    BY <1>5, <1>6, <2>1 DEF IInv, DoneSoFar
<1>12. master \in Threads /\ pc[master] \notin {"call", "max", "out", "in", "force", "done"}
  BY <1>2 DEF IInv, MasterKnows, Threads
<1>13. Counted'
  <2>1. \A i \in Items : i \in Reported' <=> i \in Reported \/ i \in Mine(t)
    <3> SUFFICES ASSUME NEW i \in Items PROVE i \in Reported' <=> i \in Reported \/ i \in Mine(t)
      OBVIOUS
    <3>1. i \in Reported' <=> taken[i] # {} /\ \A u \in Threads \ {t} : Working(u) => i \notin Mine(u)
      BY <1>0, <1>6 DEF Reported, Items
    <3>2. i \in Reported <=> taken[i] # {} /\ \A u \in Threads : Working(u) => i \notin Mine(u)
      BY DEF Reported
    <3>3. i \in Mine(t) => taken[i] = {t} /\ \A u \in Threads \ {t} : Working(u) => i \notin Mine(u)
      BY <1>2 DEF IInv, Holding
    <3> QED
      BY <1>2, <3>1, <3>2, <3>3
  <2>2. Reported' = Reported \cup Mine(t)
    BY <2>1 DEF Reported, Mine, Items
  <2>3. Reported \cap Mine(t) = {}
    BY <1>2 DEF Reported
  <2>4. Mine(t) = (b - 2) .. (e - 3)
    <3>1. \A i \in Items : i \in Mine(t) <=> b <= i + 2 /\ i + 2 < e
      BY <1>1, <1>3 DEF Mine
    <3>2. \A i \in (b - 2) .. (e - 3) : i \in Items /\ b <= i + 2 /\ i + 2 < e
      BY <1>2, <1>3, SMT
    <3>3. \A i \in Mine(t) : i \in Items /\ i \in (b - 2) .. (e - 3)
      BY <1>1, <1>2, <1>3, SMTT(30) DEF Mine
    <3> QED
      BY <3>1, <3>2, <3>3
  <2>5. IsFiniteSet(Mine(t)) /\ Cardinality(Mine(t)) = e - b
    <3>1. b - 2 \in Int /\ e - 3 \in Int /\ (e - 3) - (b - 2) + 1 = e - b /\ ~(b - 2 > e - 3)
      BY <1>2, <1>3, SMTT(30)
    <3> QED
      BY <2>4, <3>1, FS_Interval
  <2>6. IsFiniteSet(Reported) /\ Cardinality(Reported) \in Nat
    <3>1. IsFiniteSet(Items)
      BY <1>3, FS_Interval, SMT
    <3>2. Reported \in SUBSET Items
      BY DEF Reported
    <3> QED
      BY <3>1, <3>2, FS_Subset, FS_CardinalityType
  <2>7. Cardinality(Reported') = Cardinality(Reported) + (e - b)
    <3>1. Cardinality(Reported \cup Mine(t))
            = Cardinality(Reported) + Cardinality(Mine(t)) - Cardinality(Reported \cap Mine(t))
      BY <2>5, <2>6, FS_Union
    <3>2. Cardinality(Reported \cap Mine(t)) = 0
      BY <2>3, FS_EmptySet
    <3> QED
      BY <2>2, <2>5, <2>6, <3>1, <3>2, SMT
  <2>8. outCounter = 2 + Cardinality(Reported)
    BY <1>2, <1>3, <1>12 DEF IInv, Counted
  <2>9. outCounter' = 2 + Cardinality(Reported')
    BY <1>4, <2>6, <2>7, <2>8, SMT
  <2> QED
    BY <1>3, <2>9 DEF Counted, cntOffset
<1>14. pc'[master] = pc[master] \/ pc'[master] = "load"
  BY <1>5, <1>12
<1>15. MasterKnows'
  BY <1>0, <1>12, <1>14 DEF IInv, MasterKnows, cntOffset
<1>16. NoneLeftBehind'
  BY <1>0, <1>12 DEF IInv, NoneLeftBehind, Filled, Batch, Items, cntOffset
<1> QED
  BY <1>7, <1>8, <1>9, <1>10, <1>11, <1>13, <1>15, <1>16 DEF IInv

-----------------------------------------------------------------------------
(* Steps of the master between its calls. *)
LEMMA MasterKeeps ==
  ASSUME Parameters, IInv, ~Working(master),
         NEW l \in Places \ {"decide", "cas", "work", "report"}, pc' = [pc EXCEPT ![master] = l],
         UNCHANGED <<maxCounter, numItems, taken, done, beginCount, endCount, nextCounter, item>>,
         inCounter' \in Nat, outCounter' \in Nat
  PROVE  /\ TypeOK' /\ Computed' /\ Holding' /\ DoneSoFar' /\ Reported' = Reported
         /\ \A u \in Threads : Working(u)' <=> Working(u)
         /\ pc'[master] = l
<1>1. /\ master \in Threads /\ pc'[master] = l /\ pc' \in [Threads -> Places]
      /\ \A u \in Threads \ {master} : pc'[u] = pc[u]
  BY DEF IInv, TypeOK, Threads
<1>2. \A u \in Threads : (Working(u)' <=> Working(u)) /\ Mine(u)' = Mine(u)
  BY <1>1 DEF Working, Mine, Items
<1>3. TypeOK'
  BY <1>1 DEF IInv, TypeOK, Items, Last, Size
<1>4. Computed'
  BY <1>1 DEF IInv, Computed, Last, Size, cntOffset
<1>5. Holding'
  <2> SUFFICES ASSUME NEW u \in Threads, Working(u)
               PROVE  /\ beginCount[u] < endCount[u] /\ endCount[u] <= Last
                      /\ beginCount[u] <= item[u] /\ item[u] <= endCount[u]
                      /\ pc'[u] = "work" <=> item[u] < endCount[u]
                      /\ \A i \in Mine(u) : taken[i] = {u}
    BY <1>2 DEF Holding, Last, Size
  <2>1. u # master
    OBVIOUS
  <2> QED
    BY <1>1, <2>1 DEF IInv, Holding
<1>6. DoneSoFar' /\ Reported' = Reported
  BY <1>2 DEF IInv, DoneSoFar, Reported, Items
<1> QED
  BY <1>1, <1>2, <1>3, <1>4, <1>5, <1>6

LEMMA WaitKeeps == ASSUME Parameters, IInv, Wait PROVE IInv'
<1>0. UNCHANGED <<inCounter, outCounter, maxCounter, numItems, taken, done, beginCount, endCount, nextCounter, item>>
  BY DEF Wait, counters, locals, history
<1>1. PICK l \in {"call", "max", "force", "done"} : pc' = [pc EXCEPT ![master] = l]
  BY DEF Wait, Goto
<1>2. pc[master] = "wait" /\ outCounter >= maxCounter /\ ~Working(master) /\ inCounter < cntOffset
  BY DEF Wait, Working, IInv, MasterKnows
<1>3. /\ TypeOK' /\ Computed' /\ Holding' /\ DoneSoFar' /\ Reported' = Reported
      /\ (\A u \in Threads : Working(u)' <=> Working(u)) /\ pc'[master] = l
  <2>1. l \in Places \ {"decide", "cas", "work", "report"} /\ inCounter' \in Nat /\ outCounter' \in Nat
    BY <1>0 DEF Places, IInv, TypeOK
  <2> QED
    BY <1>0, <1>1, <1>2, <2>1, MasterKeeps
<1>4. TakenSoFar'
  BY <1>0 DEF IInv, TakenSoFar, Items, Last, Size
<1>5. Counted'
  BY <1>0, <1>2, <1>3 DEF IInv, Counted, Last, Size
<1>6. Last \in Nat /\ Last # 0 /\ cntOffset = 2 /\ Items = 0 .. Last - 3 /\ Size \in Nat /\ Last = Size + 2 /\ Items = 0 .. Size - 1
  BY ItemsOfBatch, SMT DEF cntOffset
<1>7. maxCounter = Last => Reported = Items
  <2> SUFFICES ASSUME maxCounter = Last PROVE Reported = Items
    OBVIOUS
  <2>1. IsFiniteSet(Items) /\ Cardinality(Items) = Size
    <3>1. Size - 1 - 0 + 1 = Size /\ 0 \in Int /\ Size - 1 \in Int /\ (0 > Size - 1 => Size = 0)
      BY <1>6, SMT
    <3> QED
      BY <1>6, <3>1, FS_Interval
  <2>2. Reported \in SUBSET Items
    BY DEF Reported
  <2>3. IsFiniteSet(Reported) /\ Cardinality(Reported) \in Nat /\ Cardinality(Reported) <= Cardinality(Items)
        /\ (Cardinality(Reported) = Cardinality(Items) => Reported = Items)
    BY <2>1, <2>2, FS_Subset, FS_CardinalityType
  <2>4. 2 + Cardinality(Reported) >= Size + 2
    BY <1>2, <1>6 DEF IInv, Counted
  <2> QED
    BY <1>6, <2>1, <2>3, <2>4, SMT
<1>8. \A u \in Threads : ~Working(u)
  <2> SUFFICES ASSUME NEW u \in Threads, Working(u) PROVE FALSE
    OBVIOUS
  <2>1. maxCounter = Last /\ beginCount[u] \in Nat /\ endCount[u] \in Nat /\ beginCount[u] >= 2
        /\ beginCount[u] < endCount[u] /\ endCount[u] <= Last
    BY <1>6 DEF Working, IInv, TypeOK, Computed, Holding
  <2>2. beginCount[u] - 2 \in Items /\ (beginCount[u] - 2) + 2 = beginCount[u]
    BY <1>6, <2>1, SMT
  <2>3. beginCount[u] - 2 \in Mine(u)
    BY <1>6, <2>1, <2>2, SMT DEF Mine
  <2>4. beginCount[u] - 2 \in Reported
    BY <1>7, <2>1, <2>2
  <2> QED
    BY <2>3, <2>4 DEF Reported
<1>9. maxCounter = Last => \A i \in Items : done[i] # {}
  BY <1>7, <1>8 DEF Reported, IInv, DoneSoFar
<1>10. MasterKnows'
  BY <1>0, <1>2, <1>3, <1>8, <1>9 DEF MasterKnows, Items, Last, Size, cntOffset
<1>11. NoneLeftBehind'
  BY <1>0, <1>2 DEF IInv, NoneLeftBehind, Filled, Batch, Items, cntOffset
<1> QED
  BY <1>3, <1>4, <1>5, <1>10, <1>11 DEF IInv

LEMMA CallKeeps == ASSUME Parameters, IInv, CallFill \/ CallComplete PROVE IInv'
<1>0. /\ UNCHANGED <<inCounter, outCounter, maxCounter, numItems, taken, done, beginCount, endCount, nextCounter, item>>
      /\ pc' = [pc EXCEPT ![master] = "load"] /\ pc[master] = "call" /\ ~Working(master)
  BY DEF CallFill, CallComplete, Goto, counters, locals, history, Working
<1>1. /\ TypeOK' /\ Computed' /\ Holding' /\ DoneSoFar' /\ Reported' = Reported /\ pc'[master] = "load"
  <2>1. "load" \in Places \ {"decide", "cas", "work", "report"} /\ inCounter' \in Nat /\ outCounter' \in Nat
    BY <1>0 DEF Places, IInv, TypeOK
  <2> QED
    BY <1>0, <2>1, MasterKeeps
<1>2. TakenSoFar' /\ Counted' /\ MasterKnows'
  BY <1>0, <1>1 DEF IInv, TakenSoFar, Counted, MasterKnows, Items, Last, Size
<1>3. NoneLeftBehind'
  BY <1>0 DEF IInv, NoneLeftBehind, Filled, Batch, Items, cntOffset
<1> QED
  BY <1>1, <1>2, <1>3 DEF IInv

LEMMA FillMaxKeeps == ASSUME Parameters, IInv, NEW n \in Sizes, FillMax(n) PROVE IInv'
<1>0. /\ UNCHANGED <<inCounter, outCounter, beginCount, endCount, nextCounter, item>>
      /\ pc' = [pc EXCEPT ![master] = "out"] /\ pc[master] = "max"
      /\ maxCounter' = cntOffset + n /\ numItems' = n
      /\ taken' = [i \in Items |-> {}] /\ done' = [i \in Items |-> {}]
  BY DEF FillMax, Goto, locals
<1>1. n = Size /\ Last = cntOffset + n /\ Last # 0
  BY ItemsOfBatch DEF Last
<1>2. /\ master \in Threads /\ pc'[master] = "out" /\ pc' \in [Threads -> Places]
      /\ \A u \in Threads \ {master} : pc'[u] = pc[u]
  BY <1>0 DEF IInv, TypeOK, Threads, Places
<1>3. inCounter < cntOffset /\ \A u \in Threads : ~Working(u)
  BY <1>0 DEF IInv, MasterKnows
<1>4. \A u \in Threads : ~Working(u)'
  BY <1>2, <1>3 DEF Working
<1>5. maxCounter' = Last' /\ Last' = Last /\ Size' = Size /\ Items' = Items
  BY <1>0, <1>1 DEF Last, Size, Items
<1>6. TypeOK'
  <2>1. taken' \in [Items -> SUBSET Threads] /\ done' \in [Items -> SUBSET Threads]
    BY <1>0
  <2> QED
    BY <1>0, <1>1, <1>2, <1>5, <2>1 DEF IInv, TypeOK
<1>7. Computed'
  BY <1>0, <1>2, <1>5 DEF IInv, Computed, cntOffset
<1>8. Holding' /\ DoneSoFar' /\ Counted'
  BY <1>0, <1>2, <1>4, <1>5 DEF Holding, DoneSoFar, Counted
<1>9. TakenSoFar'
  BY <1>0, <1>1, <1>3, <1>5, ItemsOfBatch, SMT DEF IInv, TypeOK, TakenSoFar, cntOffset
<1>10. MasterKnows'
  BY <1>0, <1>2, <1>3, <1>4, <1>5 DEF MasterKnows, cntOffset
<1>11. NoneLeftBehind'
  BY <1>2 DEF NoneLeftBehind, Filled
<1> QED
  BY <1>6, <1>7, <1>8, <1>9, <1>10, <1>11 DEF IInv

LEMMA FillOutKeeps == ASSUME Parameters, IInv, FillOut PROVE IInv'
<1>0. /\ UNCHANGED <<inCounter, maxCounter, numItems, taken, done, beginCount, endCount, nextCounter, item>>
      /\ pc' = [pc EXCEPT ![master] = "in"] /\ pc[master] = "out" /\ ~Working(master) /\ outCounter' = cntOffset
  BY DEF FillOut, Goto, locals, history, Working
<1>1. /\ TypeOK' /\ Computed' /\ Holding' /\ DoneSoFar' /\ Reported' = Reported /\ pc'[master] = "in"
      /\ \A u \in Threads : Working(u)' <=> Working(u)
  <2>1. "in" \in Places \ {"decide", "cas", "work", "report"} /\ inCounter' \in Nat /\ outCounter' \in Nat
    BY <1>0 DEF Places, IInv, TypeOK, cntOffset
  <2> QED
    BY <1>0, <2>1, MasterKeeps
<1>2. TakenSoFar' /\ MasterKnows'
  BY <1>0, <1>1 DEF IInv, TakenSoFar, MasterKnows, Items, Last, Size, cntOffset
<1>3. Counted'
  <2>1. Reported = {}
    BY <1>0 DEF IInv, MasterKnows, Reported
  <2>2. Cardinality(Reported') = 0
    BY <1>1, <2>1, FS_EmptySet
  <2> QED
    BY <1>0, <2>2, SMT DEF Counted, cntOffset
<1>4. NoneLeftBehind'
  BY <1>1 DEF NoneLeftBehind, Filled
<1> QED
  BY <1>1, <1>2, <1>3, <1>4 DEF IInv

LEMMA FillInKeeps == ASSUME Parameters, IInv, FillIn PROVE IInv'
<1>0. /\ UNCHANGED <<outCounter, maxCounter, numItems, taken, done, beginCount, endCount, nextCounter, item>>
      /\ pc' = [pc EXCEPT ![master] = "load"] /\ pc[master] = "in" /\ ~Working(master) /\ inCounter' = cntOffset
  BY DEF FillIn, Goto, locals, history, Working
<1>1. /\ TypeOK' /\ Computed' /\ Holding' /\ DoneSoFar' /\ Reported' = Reported /\ pc'[master] = "load"
  <2>1. "load" \in Places \ {"decide", "cas", "work", "report"} /\ inCounter' \in Nat /\ outCounter' \in Nat
    BY <1>0 DEF Places, IInv, TypeOK, cntOffset
  <2> QED
    BY <1>0, <2>1, MasterKeeps
<1>2. TakenSoFar'
  <2>1. /\ maxCounter = Last /\ \A i \in Items : taken[i] = {}
    BY <1>0 DEF IInv, MasterKnows
  <2>2. \A i \in Items : ~(i + 2 < 2)
    BY ItemsOfBatch, SMT
  <2> QED
    BY <1>0, <2>1, <2>2 DEF TakenSoFar, Items, Last, Size, cntOffset
<1>3. Counted' /\ MasterKnows'
  BY <1>0, <1>1 DEF IInv, Counted, MasterKnows, Last, Size
<1>4. NoneLeftBehind'
  BY <1>0, SMTT(30) DEF NoneLeftBehind, cntOffset
<1> QED
  BY <1>1, <1>2, <1>3, <1>4 DEF IInv

LEMMA ForceCompleteKeeps == ASSUME Parameters, IInv, ForceComplete PROVE IInv'
<1>0. /\ UNCHANGED <<outCounter, maxCounter, numItems, taken, done, beginCount, endCount, nextCounter, item>>
      /\ pc' = [pc EXCEPT ![master] = "done"] /\ pc[master] = "force" /\ ~Working(master) /\ inCounter' = cntCompleted
  BY DEF ForceComplete, Goto, locals, history, Working
<1>1. /\ TypeOK' /\ Computed' /\ Holding' /\ DoneSoFar' /\ Reported' = Reported /\ pc'[master] = "done"
      /\ \A u \in Threads : Working(u)' <=> Working(u)
  <2>1. "done" \in Places \ {"decide", "cas", "work", "report"} /\ inCounter' \in Nat /\ outCounter' \in Nat
    BY <1>0 DEF Places, IInv, TypeOK, cntCompleted
  <2> QED
    BY <1>0, <2>1, MasterKeeps
<1>2. TakenSoFar' /\ Counted' /\ MasterKnows'
  BY <1>0, <1>1, SMTT(30) DEF IInv, TakenSoFar, Counted, MasterKnows, Items, Last, Size, cntOffset, cntCompleted
<1>3. NoneLeftBehind'
  <2>1. inCounter < cntOffset
    BY <1>0 DEF IInv, MasterKnows
  <2> QED
    BY <1>0, <2>1 DEF IInv, NoneLeftBehind, Filled, Batch, Items, cntOffset
<1> QED
  BY <1>1, <1>2, <1>3 DEF IInv

LEMMA StutterKeeps == ASSUME Parameters, IInv, UNCHANGED vars PROVE IInv'
<1>0. UNCHANGED <<inCounter, outCounter, maxCounter, numItems, taken, done, pc, beginCount, endCount, nextCounter, item>>
  BY DEF vars, counters, locals, history
<1>1. TypeOK' /\ Computed' /\ TakenSoFar'
  BY <1>0 DEF IInv, TypeOK, Computed, TakenSoFar, Items, Last, Size, cntOffset
<1>2. Holding' /\ DoneSoFar' /\ Counted' /\ MasterKnows'
  BY <1>0 DEF IInv, Holding, DoneSoFar, Counted, MasterKnows, Reported, Working, Mine, Items, Last, Size, cntOffset
<1>3. NoneLeftBehind'
  BY <1>0 DEF IInv, NoneLeftBehind, Filled, Batch, Items, cntOffset
<1> QED
  BY <1>1, <1>2, <1>3 DEF IInv

-----------------------------------------------------------------------------
LEMMA Inductive == ASSUME Parameters PROVE Spec => []IInv
<1>1. Init => IInv
  BY IInvInit
<1>2. IInv /\ [Next]_vars => IInv'
  <2> SUFFICES ASSUME IInv, [Next]_vars PROVE IInv'
    OBVIOUS
  <2>1. ASSUME NEW t \in Threads, Contribute(t) PROVE IInv'
    <3>1. CASE Load(t)
      BY <3>1, LookKeeps DEF Load
    <3>2. CASE Decide(t)
      BY <3>2, DecideKeeps
    <3>3. CASE Cas(t)
      BY <3>3, LookKeeps, TakeKeeps DEF Cas
    <3>4. CASE Work(t) \/ Report(t)
      BY <3>4, WorkKeeps, ReportKeeps
    <3> QED
      BY <2>1, <3>1, <3>2, <3>3, <3>4 DEF Contribute
  <2>2. CASE Master
    BY <2>2, WaitKeeps, CallKeeps, FillMaxKeeps, FillOutKeeps, FillInKeeps, ForceCompleteKeeps DEF Master
  <2>3. CASE UNCHANGED vars
    BY <2>3, StutterKeeps
  <2> QED
    BY <2>1, <2>2, <2>3 DEF Next
<1> QED
  BY <1>1, <1>2, PTL DEF Spec

(* The exchange in acquireWork never closes a batch with items left, however  *)
(* long a thread was delayed between its load and its exchange, as long as    *)
(* all batches have the same size (run parallel_work_unequal shows that they  *)
(* must).                                                                     *)
THEOREM NoWorkLeftBehind == ASSUME Parameters PROVE Spec => []NoneLeftBehind
<1>1. IInv => NoneLeftBehind
  BY DEF IInv
<1> QED
  BY <1>1, Inductive, PTL

(* No item is worked on twice or out of range, and when waitUntilStable has   *)
(* returned all of the batch is done and nobody is in doWorkItem any more.    *)
THEOREM WorkedOnceAndOver == ASSUME Parameters PROVE Spec => []BatchesWorked
<1>1. IInv => BatchesWorked
  BY IInvImplies DEF BatchesWorked
<1> QED
  BY <1>1, Inductive, PTL
=============================================================================
