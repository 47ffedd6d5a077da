---------------------------- MODULE ParallelWork ----------------------------
(***************************************************************************)
(* The workshares of hpcprof (util/parallel_work.hpp).  A master hands out *)
(* batches of work items and helpers join in whenever they look:           *)
(* ParallelFor takes one batch, RepeatingParallelFor takes one after       *)
(* another until complete() is called.  There is no lock.  An item is      *)
(* taken by moving inCounter, its end is reported by moving outCounter,    *)
(* and inCounter also says, with two reserved values, that there is        *)
(* nothing to take.                                                        *)
(*                                                                         *)
(* A thread loads inCounter, works out from maxCounter what it would take, *)
(* and takes it by compare-and-exchange: three steps.  The helpers are the *)
(* threads of the OpenMP team in the last loop of ProfilePipeline::run.    *)
(***************************************************************************)
EXTENDS Integers, FiniteSets

CONSTANTS Helpers, master,
          repeating,            \* RepeatingParallelFor, or ParallelFor
          blockSize,            \* items a thread takes at once; no caller sets it
          Sizes,                \* numbers of items a batch may have
          MaxBatches            \* bound: batches of a repeating workshare

Threads == Helpers \cup {master}
Items == 0 .. (CHOOSE n \in Sizes : \A m \in Sizes : m <= n) - 1

cntInitial == 0
cntCompleted == 1
cntOffset == 2

VARIABLES inCounter, outCounter, maxCounter, completed,
          pc,                   \* place of each thread
          beginCount, endCount, nextCounter,    \* locals of acquireWork
          item,                 \* the item a thread is at in contribute
          call,                 \* what the master contributes for
          batches,              \* bound: batches left
          numItems,             \* history: items of the last batch
          taken, done           \* history: threads that took, ended each item

counters == <<inCounter, outCounter, maxCounter, completed>>
locals == <<beginCount, endCount, nextCounter, item>>
caller == <<call, batches>>
history == <<numItems, taken, done>>
vars == <<counters, pc, locals, caller, history>>

Init ==
  /\ inCounter = cntInitial /\ outCounter = cntInitial /\ maxCounter = cntInitial
  /\ completed = FALSE
  /\ pc = [t \in Threads |-> IF t = master /\ ~repeating THEN "max" ELSE "load"]
  /\ beginCount = [t \in Threads |-> 0]
  /\ endCount = [t \in Threads |-> 0]
  /\ nextCounter = [t \in Threads |-> 0]
  /\ item = [t \in Threads |-> 0]
  /\ call = "fill"
  /\ batches = IF repeating THEN MaxBatches ELSE 1
  /\ numItems = 0
  /\ taken = [i \in Items |-> {}]
  /\ done = [i \in Items |-> {}]

Goto(t, l) == pc' = [pc EXCEPT ![t] = l]

-----------------------------------------------------------------------------
(* acquireWork, contribute and contributeWhileAble *)

shouldWorkingToInitial == repeating /\ ~completed

(* Where a call of contribute that found nothing leads: a helper calls again *)
(* until it is told that the workshare is completed.  The master waits until *)
(* the batch is over, and that of ParallelFor calls again like a helper.     *)
NoWork(t, isCompleted) ==
  IF t = master THEN IF repeating \/ isCompleted THEN "wait" ELSE "load"
  ELSE IF isCompleted THEN "done" ELSE "load"

(* The value of inCounter says whether there is anything to take. *)
Look(t, value) ==
  /\ beginCount' = [beginCount EXCEPT ![t] = IF value >= cntOffset THEN value ELSE 0]
  /\ endCount' = [endCount EXCEPT ![t] = 0]
  /\ nextCounter' = [nextCounter EXCEPT ![t] = 0]
  /\ Goto(t, IF value >= cntOffset THEN "decide" ELSE NoWork(t, value = cntCompleted))

Load(t) ==
  /\ pc[t] = "load"
  /\ Look(t, inCounter)
  /\ UNCHANGED <<counters, item, caller, history>>

(* Faulty: one item too many may be taken. *)
Decide_beyond(t) ==
  LET end == beginCount[t] + blockSize
  IN  /\ pc[t] = "decide"
      /\ endCount' = [endCount EXCEPT ![t] = end]
      /\ nextCounter' = [nextCounter EXCEPT ![t] =
           IF end <= maxCounter THEN end
           ELSE IF shouldWorkingToInitial THEN cntInitial ELSE cntCompleted]
      /\ Goto(t, "cas")
      /\ UNCHANGED <<counters, beginCount, item, caller, history>>
(* maxCounter is read after inCounter, without synchronization. *)
Decide(t) ==
  LET end == IF beginCount[t] + blockSize < maxCounter THEN beginCount[t] + blockSize ELSE maxCounter
  IN  /\ pc[t] = "decide"
      /\ endCount' = [endCount EXCEPT ![t] = end]
      /\ nextCounter' = [nextCounter EXCEPT ![t] =
           IF end < maxCounter THEN end
           ELSE IF shouldWorkingToInitial THEN cntInitial ELSE cntCompleted]
      /\ Goto(t, "cas")
      /\ UNCHANGED <<counters, beginCount, item, caller, history>>

(* The items of the current batch that thread t would take. *)
Block(t) == { i \in Items : beginCount[t] - cntOffset <= i /\ i < endCount[t] - cntOffset }

Take(t) ==
  /\ inCounter' = nextCounter[t]
  /\ item' = [item EXCEPT ![t] = beginCount[t]]
  /\ taken' = [i \in Items |-> taken[i] \cup (IF i \in Block(t) THEN {t} ELSE {})]
  /\ Goto(t, IF beginCount[t] < endCount[t] THEN "work"
             ELSE NoWork(t, nextCounter[t] = cntCompleted))
  /\ UNCHANGED <<outCounter, maxCounter, completed, beginCount, endCount, nextCounter, caller, numItems, done>>

(* Faulty: an exchange in place of a compare-and-exchange. *)
Cas_blind(t) ==
  /\ pc[t] = "cas"
  /\ Take(t)
(* compare_exchange_weak; when it fails it has loaded inCounter.  A failure   *)
(* for no reason takes the thread back to where it was before Decide.         *)
Cas(t) ==
  /\ pc[t] = "cas"
  /\ IF inCounter = beginCount[t]
     THEN Take(t)
     ELSE Look(t, inCounter) /\ UNCHANGED <<counters, item, caller, history>>

(* doWorkItem for one item *)
Work(t) ==
  /\ pc[t] = "work"
  /\ done' = [done EXCEPT ![item[t] - cntOffset] = @ \cup {t}]
  /\ item' = [item EXCEPT ![t] = @ + 1]
  /\ Goto(t, IF item[t] + 1 < endCount[t] THEN "work" ELSE "report")
  /\ UNCHANGED <<counters, beginCount, endCount, nextCounter, caller, numItems, taken>>

(* contribute returns with its locals, and contributeWhileAble calls again. *)
Return(t) ==
  /\ beginCount' = [beginCount EXCEPT ![t] = 0]
  /\ endCount' = [endCount EXCEPT ![t] = 0]
  /\ nextCounter' = [nextCounter EXCEPT ![t] = 0]
  /\ item' = [item EXCEPT ![t] = 0]
  /\ Goto(t, "load")

Report(t) ==
  /\ pc[t] = "report"
  /\ outCounter' = outCounter + endCount[t] - beginCount[t]
  /\ Return(t)
  /\ UNCHANGED <<inCounter, maxCounter, completed, caller, history>>

-----------------------------------------------------------------------------
(* The master: fill, contributeUntilEmpty, fill, ..., complete *)

(* waitUntilStable.  It ends the contributeUntilEmpty with which fill begins *)
(* ("fill"), that of the master ("empty") and that of complete ("complete"), *)
(* and contributeUntilComplete of ParallelFor, which is called "empty" too.  *)
Wait ==
  /\ pc[master] = "wait" /\ outCounter >= maxCounter
  /\ Goto(master, IF call = "fill" THEN "max" ELSE IF call = "complete" THEN "force"
                  ELSE IF repeating THEN "call" ELSE "done")
  /\ UNCHANGED <<counters, locals, caller, history>>

CallFill ==
  /\ pc[master] = "call" /\ batches > 0
  /\ call' = "fill"
  /\ Goto(master, "load")
  /\ UNCHANGED <<counters, locals, batches, history>>

CallComplete ==
  /\ pc[master] = "call"
  /\ completed' = TRUE
  /\ call' = "complete"
  /\ Goto(master, "load")
  /\ UNCHANGED <<inCounter, outCounter, maxCounter, locals, batches, history>>

(* rawFill: three stores *)
FillMax(n) ==
  /\ pc[master] = "max"
  /\ maxCounter' = cntOffset + n
  /\ batches' = batches - 1
  /\ numItems' = n
  /\ taken' = [i \in Items |-> {}]
  /\ done' = [i \in Items |-> {}]
  /\ Goto(master, "out")
  /\ UNCHANGED <<inCounter, outCounter, completed, locals, call>>

FillOut ==
  /\ pc[master] = "out"
  /\ outCounter' = cntOffset
  /\ Goto(master, "in")
  /\ UNCHANGED <<inCounter, maxCounter, completed, locals, caller, history>>

FillIn ==
  /\ pc[master] = "in"
  /\ inCounter' = cntOffset
  /\ call' = "empty"
  /\ Goto(master, "load")
  /\ UNCHANGED <<outCounter, maxCounter, completed, locals, batches, history>>

(* Faulty: nobody is told that no more work will come. *)
ForceComplete_not ==
  /\ pc[master] = "force"
  /\ Goto(master, "done")
  /\ UNCHANGED <<counters, locals, caller, history>>
ForceComplete ==
  /\ pc[master] = "force"
  /\ inCounter' = cntCompleted
  /\ Goto(master, "done")
  /\ UNCHANGED <<outCounter, maxCounter, completed, locals, caller, history>>

Done == \A t \in Threads : pc[t] = "done"

Contribute(t) == Load(t) \/ Decide(t) \/ Cas(t) \/ Work(t) \/ Report(t)
Master ==
  \/ Wait \/ CallFill \/ CallComplete
  \/ (\E n \in Sizes : FillMax(n)) \/ FillOut \/ FillIn \/ ForceComplete

Next == (\E t \in Threads : Contribute(t)) \/ Master \/ (Done /\ UNCHANGED vars)

Spec == Init /\ [][Next]_vars

(* Threads run. *)
FairSpec == Spec /\ WF_vars(Master) /\ \A t \in Threads : WF_vars(Contribute(t))

-----------------------------------------------------------------------------
Filled == pc[master] \notin {"out", "in"} /\ numItems > 0
Batch == { i \in Items : i < numItems }

(* An item of a batch is taken by one thread and done by that one, and no    *)
(* item beyond the batch is touched (doWorkItem of RepeatingParallelForEach  *)
(* would index workitems out of range).                                      *)
TakenOnce ==
  \A i \in Items :
    /\ Cardinality(taken[i]) <= 1 /\ done[i] \subseteq taken[i]
    /\ i \notin Batch => taken[i] = {}

(* acquireWork moves inCounter to "initial" or "completed" only with the     *)
(* last items of the batch, as it says: "We are taking the last of the       *)
(* work-items. Indicate to everyone else that no more work is available."    *)
NoneLeftBehind ==
  Filled /\ inCounter < cntOffset => \A i \in Batch : taken[i] # {}

(* When waitUntilStable has returned every item of the batch is done and no  *)
(* thread is in doWorkItem, whose lambda refers to variables of the master   *)
(* that are about to go out of scope.                                        *)
BatchOver ==
  pc[master] \in {"call", "max", "force", "done"} =>
    /\ \A i \in Batch : done[i] # {}
    /\ \A t \in Helpers : pc[t] # "work"

(* A batch is worked on once and in full: doWorkItem is called once for each *)
(* of its items, and waitUntilStable returns when the last call has.         *)
BatchesWorked == TakenOnce /\ BatchOver

(* contributeUntilEmpty and complete return, and every helper is told that   *)
(* the workshare is completed.                                               *)
Finishes == <>Done
=============================================================================
