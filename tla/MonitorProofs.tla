---------------------------- MODULE MonitorProofs ----------------------------
(***************************************************************************)
(* Proofs about Monitor, for any set of threads, creators and samplers.    *)
(***************************************************************************)
EXTENDS Monitor, SequenceTheorems, TLAPS

(* A leaf is for Zenon unless it says SMTT. *)
USE Zenon

(* What a frame of each function can say. *)
FrameOK(f) ==
  \/ f.fn = "thread" /\ f.at \in {"none", "link", "init", "start", "app", "gone"}
  \/ f.fn = "create" /\ f.at \in {"ctxt", "unwind", "launch"}
  \/ f.fn \in {"async", "sync"} /\ f.at \in {"enter", "body"}
  \/ f.fn = "cleanup" /\ f.at \in {"test", "mark", "done", "unlink"}
  \/ f.fn = "handler" /\ f.at \in {"test", "mark", "done"}
  \/ f.fn = "fini" /\ f.at = "run"
  \/ f.fn = "exit" /\ f.at \in {"race", "flag", "walk", "finis", "mark", "done",
                                "process", "over", "wait"}

Sample == {"async", "sync", "create"}
Has(S, fns) == \E i \in 1..Len(S) : S[i].fn \in fns
Says(S, ats) == \E i \in 1..Len(S) : S[i].at \in ats
Busy(S) == Says(S, {"body", "unwind"})
Recording(S) == \E i \in 1..Len(S) : S[i].fn = "async" /\ S[i].at = "body"

(* The stack of a thread: its start routine; on that a call, a sample or a   *)
(* handler; and on those only what a signal brings, and the callback.  There *)
(* is one sample at a time, and while it is recorded only a handler that has *)
(* not passed its test may be above it.                                      *)
Shape(S) ==
  /\ Len(S) > 0 /\ S[1].fn = "thread"
  /\ \A i \in 1..Len(S) : FrameOK(S[i])
  /\ \A i \in 2..Len(S) : S[i].fn # "thread"
  /\ \A i \in 3..Len(S) : S[i].fn \in {"async", "handler", "fini"}
  /\ Has(S, {"exit", "sync", "create"}) => S[1].at = "app"
  /\ Has(S, {"cleanup"}) => S[1].at = "gone"
  /\ \A i, j \in 1..Len(S) : S[i].fn \in Sample /\ S[j].fn \in Sample => i = j
  /\ \A i, j \in 1..Len(S) :
       i < j /\ S[i].at \in {"body", "unwind"} => S[j].fn = "handler" /\ S[j].at = "test"

(* Where the exit of the process stands in this thread. *)
ExitAt(S) == IF Len(S) > 1 /\ S[2].fn = "exit" THEN S[2].at ELSE "no"

Flags == [appl_started : BOOLEAN, fini_started : BOOLEAN, fini_done : BOOLEAN,
          block : BOOLEAN]
Walks == [rest : Seq(Threads), started : Nat, unstarted : Nat,
          unfinished : Nat, last_started : Nat]

TypeOK ==
  /\ stack \in [Threads -> Seq(Frames)]
  /\ tn \in [Threads -> Flags]
  /\ list \in Seq(Threads)
  /\ sampled \subseteq Threads
  /\ pending \subseteq Threads
  /\ has_used_threads \in BOOLEAN /\ in_exit_cleanup \in BOOLEAN
  /\ fini_thread_done \in BOOLEAN /\ fini_process_done \in BOOLEAN
  /\ winner \in Threads \cup {noThread}
  /\ walk \in Walks
  /\ finis \in [Threads -> Nat]
  /\ late \subseteq Threads
  /\ timedout \in BOOLEAN

Listed(t) == \E i \in 1..Len(list) : list[i] = t

(* What holds of each thread by itself. *)
Blocks(t) == Busy(stack[t]) => tn[t].block = TRUE
Signalled(t) == t \in pending \/ Has(stack[t], {"handler"}) => in_exit_cleanup = TRUE
Finishing(t) ==
  /\ Says(stack[t], {"mark"}) => stack[t][1].at \in {"app", "gone"}
  /\ Says(stack[t], {"done", "unlink"}) => finis[t] > 0
  /\ tn[t].fini_done = TRUE => finis[t] > 0
  /\ finis[t] > 0 => t \notin sampled /\ stack[t][1].at \in {"app", "gone"}
  /\ finis[t] > 0 /\ Has(stack[t], {"async"}) => in_exit_cleanup = TRUE
  /\ Recording(stack[t]) => finis[t] = 0
Started(t) ==
  /\ t = Main => stack[t][1].at = "app"
  /\ tn[t].appl_started = TRUE => stack[t][1].at \in {"app", "gone"}
  /\ tn[t].appl_started = TRUE => Listed(t)
  /\ t # Main /\ stack[t][1].at \in {"init", "start", "app"} => Listed(t)
  /\ has_used_threads = FALSE /\ t # Main => stack[t][1].at = "none"
  /\ has_used_threads = FALSE => ~ Has(stack[t], {"create"})

Local(t) == Shape(stack[t]) /\ Blocks(t) /\ Signalled(t) /\ Finishing(t) /\ Started(t)

(* The race to exit, and what its winner has seen of the others. *)
Winning == {"flag", "walk", "finis", "mark", "done", "process"}
Race ==
  /\ \A t \in Threads :
       /\ ExitAt(stack[t]) \in Winning => winner = t /\ fini_process_done = FALSE
       /\ ExitAt(stack[t]) = "over" => fini_process_done = TRUE
       /\ winner = t => ExitAt(stack[t]) \in Winning \/ fini_process_done = TRUE
       /\ ExitAt(stack[t]) \in {"walk", "finis", "mark", "done"} => in_exit_cleanup = TRUE
       /\ ExitAt(stack[t]) = "process" =>
            in_exit_cleanup = TRUE \/ has_used_threads = FALSE
  /\ winner = noThread => fini_process_done = FALSE /\ in_exit_cleanup = FALSE

Seen(t, i) == list[i] = t \/ list[i] \in late \/ tn[list[i]].fini_done = TRUE
Walked ==
  \A t \in Threads :
    /\ ExitAt(stack[t]) = "walk" =>
         /\ \E k \in 0..Len(list) : walk.rest = SubSeq(list, k + 1, Len(list))
         /\ walk.unfinished = 0 =>
              \A i \in 1..Len(list) : i + Len(walk.rest) <= Len(list) => Seen(t, i)
    /\ ExitAt(stack[t]) \in {"finis", "mark", "done", "process"} =>
         timedout = TRUE \/ in_exit_cleanup = FALSE \/ \A i \in 1..Len(list) : Seen(t, i)

IInv == TypeOK /\ (\A t \in Threads : Local(t)) /\ Race /\ Walked

-----------------------------------------------------------------------------
(* A frame pushed, popped or changed. *)

Put(S, at) == [S EXCEPT ![Len(S)].at = at]

LEMMA Sizes ==
  \A n \in Nat : n > 0 =>
    /\ n = 1 \/ n = 2 \/ n \in 3..n
    /\ n = 1 \/ n \in 2..n
    /\ (IF 1 <= n - 1 THEN n - 1 - 1 + 1 ELSE 0) = n - 1
  BY SMTT(30)

LEMMA Pushed ==
  ASSUME NEW S \in Seq(Frames), NEW f \in Frames
  PROVE  /\ Append(S, f) \in Seq(Frames)
         /\ Len(S) \in Nat /\ Len(Append(S, f)) = Len(S) + 1
         /\ \A i \in 1..Len(S) : Append(S, f)[i] = S[i]
         /\ Append(S, f)[Len(S) + 1] = f
  BY AppendProperties, LenProperties, SMTT(30)

LEMMA Popped ==
  ASSUME NEW S \in Seq(Frames), Len(S) > 0
  PROVE  /\ Pop(S) \in Seq(Frames)
         /\ Len(S) \in Nat /\ Len(Pop(S)) = Len(S) - 1
         /\ \A i \in 1..Len(Pop(S)) : Pop(S)[i] = S[i]
<1>1. Len(S) \in Nat /\ \A i \in 1..Len(S) - 1 : S[i] \in Frames
  BY LenProperties, ElementOfSeq, SMTT(30)
<1>2. /\ SubSeq(S, 1, Len(S) - 1) \in Seq(Frames)
      /\ Len(SubSeq(S, 1, Len(S) - 1)) = IF 1 <= Len(S) - 1 THEN Len(S) - 1 - 1 + 1 ELSE 0
      /\ \A i \in 1..Len(S) - 1 - 1 + 1 : SubSeq(S, 1, Len(S) - 1)[i] = S[1 + i - 1]
  BY <1>1, SubSeqProperties, SMTT(30)
<1>3. Len(SubSeq(S, 1, Len(S) - 1)) = Len(S) - 1
  BY <1>1, <1>2, Sizes, Zenon
<1>4. \A i \in 1..Len(S) - 1 : SubSeq(S, 1, Len(S) - 1)[i] = S[i]
  BY <1>1, <1>2, SMTT(30)
<1> QED
  BY <1>1, <1>2, <1>3, <1>4, Zenon DEF Pop

LEMMA Changed ==
  ASSUME NEW S \in Seq(Frames), Len(S) > 0, NEW at, Frame(Top(S).fn, at) \in Frames
  PROVE  /\ Put(S, at) \in Seq(Frames)
         /\ Len(S) \in Nat /\ Len(Put(S, at)) = Len(S)
         /\ \A i \in 1..Len(S) - 1 : Put(S, at)[i] = S[i]
         /\ Put(S, at)[Len(S)].fn = S[Len(S)].fn /\ Put(S, at)[Len(S)].at = at
<1>1. Len(S) \in Nat /\ Top(S) \in Frames
  BY LenProperties, ElementOfSeq, SMTT(30) DEF Top
<1>2. [Top(S) EXCEPT !.at = at] = Frame(Top(S).fn, at)
  BY <1>1, SMTT(30) DEF Frame, Frames
<1>3. Put(S, at) = [S EXCEPT ![Len(S)] = Frame(Top(S).fn, at)]
  BY <1>2, Zenon DEF Put, Top
<1>4. Len(S) \in 1..Len(S)
  BY <1>1, SMTT(30)
<1>5. /\ Put(S, at) \in Seq(Frames) /\ Len(Put(S, at)) = Len(S)
      /\ \A j \in 1..Len(S) : Put(S, at)[j] = IF j = Len(S) THEN Frame(Top(S).fn, at) ELSE S[j]
  BY <1>3, <1>4, ExceptSeq, SMTT(30)
<1> QED
  BY <1>1, <1>4, <1>5, SMTT(30) DEF Frame, Top

LEMMA ShapePush ==
  ASSUME NEW S \in Seq(Frames), NEW f \in Frames, Shape(S), FrameOK(f),
         f.fn \notin {"thread", "cleanup"},
         Len(S) > 1 => f.fn \in {"async", "handler", "fini"},
         f.fn \in {"exit", "sync", "create"} => S[1].at = "app",
         f.fn \in Sample => ~ Has(S, Sample),
         Busy(S) => f.fn = "handler" /\ f.at = "test"
  PROVE  Shape(Append(S, f))
<1> DEFINE n == Len(S)
<1> DEFINE R == Append(S, f)
<1>1. /\ n \in Nat /\ n > 0 /\ Len(R) = n + 1
      /\ \A i \in 1..n : R[i] = S[i]
      /\ R[n + 1] = f
  BY Pushed, SMTT(30) DEF Shape
<1>2. \A i \in 1..Len(R) : i \in 1..n \/ i = n + 1
  BY <1>1, SMTT(30)
<1> HIDE DEF n, R
<1>3. n = Len(S)
  BY DEF n
<1>4. Len(R) > 0 /\ R[1] = S[1] /\ R[1].fn = "thread"
  BY <1>1, <1>3, SMTT(30) DEF Shape
<1>5. /\ \A i \in 1..Len(R) : FrameOK(R[i])
      /\ \A i \in 2..Len(R) : R[i].fn # "thread"
      /\ \A i \in 3..Len(R) : R[i].fn \in {"async", "handler", "fini"}
  BY <1>1, <1>2, <1>3, SMTT(30) DEF Shape
<1>6. /\ Has(R, {"exit", "sync", "create"}) => R[1].at = "app"
      /\ Has(R, {"cleanup"}) => R[1].at = "gone"
  BY <1>1, <1>2, <1>3, <1>4 DEF Shape, Has
<1>7. \A i, j \in 1..Len(R) : R[i].fn \in Sample /\ R[j].fn \in Sample => i = j
  BY <1>1, <1>2, <1>3, SMTT(30) DEF Shape, Has
<1>8. \A i, j \in 1..Len(R) :
        i < j /\ R[i].at \in {"body", "unwind"} => R[j].fn = "handler" /\ R[j].at = "test"
  BY <1>1, <1>2, <1>3, SMTT(30) DEF Shape, Busy, Says
<1> QED
  BY <1>4, <1>5, <1>6, <1>7, <1>8 DEF Shape, R

LEMMA ShapePop ==
  ASSUME NEW S \in Seq(Frames), Shape(S), Len(S) > 1
  PROVE  Shape(Pop(S))
<1> DEFINE R == Pop(S)
<1>1. /\ Len(S) \in Nat /\ Len(R) = Len(S) - 1 /\ Len(R) > 0
      /\ \A i \in 1..Len(R) : R[i] = S[i] /\ i \in 1..Len(S)
  BY Popped, SMTT(30)
<1> HIDE DEF R
<1>2. R[1] = S[1]
  BY <1>1, SMTT(30)
<1>3. \A F : Has(R, F) => Has(S, F)
  BY <1>1 DEF Has
<1>4. /\ \A i \in 1..Len(R) : FrameOK(R[i])
      /\ \A i \in 2..Len(R) : R[i].fn # "thread"
      /\ \A i \in 3..Len(R) : R[i].fn \in {"async", "handler", "fini"}
  BY <1>1, SMTT(30) DEF Shape
<1>5. /\ Has(R, {"exit", "sync", "create"}) => R[1].at = "app"
      /\ Has(R, {"cleanup"}) => R[1].at = "gone"
  BY <1>2, <1>3, Zenon DEF Shape
<1>6. /\ \A i, j \in 1..Len(R) : R[i].fn \in Sample /\ R[j].fn \in Sample => i = j
      /\ \A i, j \in 1..Len(R) :
           i < j /\ R[i].at \in {"body", "unwind"} => R[j].fn = "handler" /\ R[j].at = "test"
  BY <1>1, Zenon DEF Shape
<1> QED
  BY <1>1, <1>2, <1>4, <1>5, <1>6, Zenon DEF Shape, R

LEMMA ShapePut ==
  ASSUME NEW S \in Seq(Frames), NEW at, Frame(Top(S).fn, at) \in Frames,
         Shape(S), FrameOK(Frame(Top(S).fn, at)),
         Busy(S) => Top(S).at # "test"
  PROVE  Shape(Put(S, at))
<1> DEFINE n == Len(S)
<1> DEFINE R == Put(S, at)
<1>1. /\ n \in Nat /\ n > 0 /\ Len(R) = n
      /\ \A i \in 1..n - 1 : R[i] = S[i]
      /\ R[n].fn = S[n].fn /\ R[n].at = at
  BY Changed, SMTT(30) DEF Shape
<1>2. FrameOK(R[n])
  BY <1>1 DEF FrameOK, Frame, Top
<1> HIDE DEF n, R
<1>3. n = Len(S)
  BY DEF n
<1>4. \A i \in 1..n : R[i].fn = S[i].fn
  BY <1>1, SMTT(30)
<1>5. \A i \in 1..n : FrameOK(R[i])
  BY <1>1, <1>2, <1>3, SMTT(30) DEF Shape
<1>6. \A i \in 1..n - 1 : R[i] = S[i] /\ S[i].at \notin {"body", "unwind"}
  BY <1>1, <1>3, SMTT(30) DEF Shape, Busy, Says, Top
<1>7. n > 1 => R[1] = S[1]
  BY <1>1, SMTT(30)
<1>8. n = 1 => ~ Has(R, {"exit", "sync", "create"}) /\ ~ Has(R, {"cleanup"})
  BY <1>1, <1>3, <1>4, SMTT(30) DEF Shape, Has
<1>9. \A F : Has(R, F) <=> Has(S, F)
  BY <1>1, <1>3, <1>4 DEF Has
<1>10. /\ Has(R, {"exit", "sync", "create"}) => R[1].at = "app"
       /\ Has(R, {"cleanup"}) => R[1].at = "gone"
  BY <1>1, <1>7, <1>8, <1>9, SMTT(30) DEF Shape
<1> QED
  BY <1>1, <1>3, <1>4, <1>5, <1>6, <1>10, SMTT(30) DEF Shape, R

(* What can be said of the new stack. *)
LEMMA OfPush ==
  ASSUME NEW S \in Seq(Frames), NEW f \in Frames, Shape(S)
  PROVE  /\ Append(S, f)[1] = S[1]
         /\ \A F : Has(Append(S, f), F) <=> Has(S, F) \/ f.fn \in F
         /\ \A A : Says(Append(S, f), A) <=> Says(S, A) \/ f.at \in A
         /\ Recording(Append(S, f)) <=> Recording(S) \/ (f.fn = "async" /\ f.at = "body")
         /\ f.fn # "exit" => ExitAt(Append(S, f)) = ExitAt(S)
         /\ f.fn = "exit" /\ Len(S) = 1 => ExitAt(Append(S, f)) = f.at
<1> DEFINE n == Len(S)
<1> DEFINE R == Append(S, f)
<1>1. /\ n \in Nat /\ n > 0 /\ Len(R) = n + 1
      /\ \A i \in 1..n : R[i] = S[i]
      /\ R[n + 1] = f
  BY Pushed, SMTT(30) DEF Shape
<1>2. n = Len(S)
  OBVIOUS
<1> HIDE DEF n, R
<1>3. \A i : i \in 1..Len(R) <=> i \in 1..n \/ i = n + 1
  BY <1>1, SMTT(30)
<1>4. R[1] = S[1]
  BY <1>1, SMTT(30)
<1>5. /\ \A F : Has(R, F) <=> Has(S, F) \/ f.fn \in F
      /\ \A A : Says(R, A) <=> Says(S, A) \/ f.at \in A
      /\ Recording(R) <=> Recording(S) \/ (f.fn = "async" /\ f.at = "body")
  BY <1>1, <1>2, <1>3 DEF Has, Says, Recording
<1>6. f.fn # "exit" => ExitAt(R) = ExitAt(S)
  BY <1>1, <1>2, SMTT(30) DEF ExitAt
<1>7. f.fn = "exit" /\ Len(S) = 1 => ExitAt(R) = f.at
  BY <1>1, <1>2, SMTT(30) DEF ExitAt
<1> QED
  BY <1>4, <1>5, <1>6, <1>7 DEF R

LEMMA OfCallback ==
  ASSUME NEW S \in Seq(Frames), Shape(S), NEW f \in Frames, f.fn = "fini", f.at = "run"
  PROVE  /\ Append(S, f)[1] = S[1]
         /\ \A F : Has(Append(S, f), F) <=> Has(S, F) \/ "fini" \in F
         /\ \A A : Says(Append(S, f), A) <=> Says(S, A) \/ "run" \in A
         /\ ~ Recording(S) => ~ Recording(Append(S, f))
         /\ ExitAt(Append(S, f)) = ExitAt(S)
<1>1. /\ Append(S, f)[1] = S[1]
      /\ \A F : Has(Append(S, f), F) <=> Has(S, F) \/ f.fn \in F
      /\ \A A : Says(Append(S, f), A) <=> Says(S, A) \/ f.at \in A
  BY OfPush, Zenon
<1>2. /\ Recording(Append(S, f)) <=> Recording(S) \/ (f.fn = "async" /\ f.at = "body")
      /\ f.fn # "exit" => ExitAt(Append(S, f)) = ExitAt(S)
  BY OfPush, Zenon
<1>3. /\ \A F : Has(Append(S, f), F) <=> Has(S, F) \/ "fini" \in F
      /\ \A A : Says(Append(S, f), A) <=> Says(S, A) \/ "run" \in A
  BY <1>1
<1>4. /\ ~ Recording(S) => ~ Recording(Append(S, f))
      /\ ExitAt(Append(S, f)) = ExitAt(S)
  BY <1>2
<1> QED
  BY <1>1, <1>3, <1>4, Zenon

LEMMA OfPop ==
  ASSUME NEW S \in Seq(Frames), Shape(S), Len(S) > 1
  PROVE  /\ Pop(S)[1] = S[1]
         /\ \A F : Has(Pop(S), F) => Has(S, F)
         /\ \A A : Says(Pop(S), A) => Says(S, A)
         /\ Recording(Pop(S)) => Recording(S)
         /\ Top(S).at # "test" => ~ Busy(Pop(S))
         /\ Top(S).fn # "exit" => ExitAt(Pop(S)) = ExitAt(S)
<1> DEFINE R == Pop(S)
<1>1. /\ Len(S) \in Nat /\ Len(R) = Len(S) - 1
      /\ \A i \in 1..Len(R) : R[i] = S[i] /\ i \in 1..Len(S) /\ i < Len(S)
  BY Popped, SMTT(30)
<1> HIDE DEF R
<1>2. R[1] = S[1]
  BY <1>1, SMTT(30)
<1>3. /\ \A F : Has(R, F) => Has(S, F)
      /\ \A A : Says(R, A) => Says(S, A)
      /\ Recording(R) => Recording(S)
  BY <1>1 DEF Has, Says, Recording
<1>4. Top(S).at # "test" => ~ Busy(R)
  <2> SUFFICES ASSUME Busy(R) PROVE Top(S).at = "test"
    OBVIOUS
  <2>1. PICK i \in 1..Len(R) : R[i].at \in {"body", "unwind"}
    BY DEF Busy, Says
  <2>2. i \in 1..Len(S) /\ i < Len(S) /\ S[i].at \in {"body", "unwind"} /\ Len(S) \in 1..Len(S)
    BY <1>1, <2>1, SMTT(30)
  <2> QED
    BY <2>2 DEF Shape, Top
<1>5. Top(S).fn # "exit" => ExitAt(R) = ExitAt(S)
  BY <1>1, SMTT(30) DEF ExitAt, Top
<1> QED
  BY <1>2, <1>3, <1>4, <1>5 DEF R

LEMMA OfPut ==
  ASSUME NEW S \in Seq(Frames), Shape(S), NEW at, Frame(Top(S).fn, at) \in Frames
  PROVE  /\ Len(Put(S, at)) = Len(S)
         /\ Len(S) > 1 => Put(S, at)[1] = S[1]
         /\ Len(S) = 1 => Put(S, at)[1].at = at
         /\ \A F : Has(Put(S, at), F) <=> Has(S, F)
         /\ \A A : Says(Put(S, at), A) => Says(S, A) \/ at \in A
         /\ Recording(Put(S, at)) => Recording(S) \/ (Top(S).fn = "async" /\ at = "body")
         /\ Top(S).at # "test" /\ at \notin {"body", "unwind"} => ~ Busy(Put(S, at))
         /\ Top(S).fn # "exit" => ExitAt(Put(S, at)) = ExitAt(S)
         /\ Top(S).fn = "exit" => ExitAt(Put(S, at)) = at
<1> DEFINE n == Len(S)
<1> DEFINE R == Put(S, at)
<1>1. /\ n \in Nat /\ n > 0 /\ Len(R) = n
      /\ \A i \in 1..n - 1 : R[i] = S[i]
      /\ R[n].fn = S[n].fn /\ R[n].at = at
  BY Changed, SMTT(30) DEF Shape
<1>2. n = Len(S)
  OBVIOUS
<1> HIDE DEF n, R
<1>3. \A i : i \in 1..n <=> i \in 1..n - 1 \/ i = n
  BY <1>1, SMTT(30)
<1>4. n > 1 => R[1] = S[1]
  BY <1>1, SMTT(30)
<1>5. \A F : Has(R, F) <=> Has(S, F)
  BY <1>1, <1>2, <1>3 DEF Has
<1>6. /\ \A A : Says(R, A) => Says(S, A) \/ at \in A
      /\ Recording(R) => Recording(S) \/ (Top(S).fn = "async" /\ at = "body")
  BY <1>1, <1>2, <1>3 DEF Says, Recording, Top
<1>7. Top(S).at # "test" /\ at \notin {"body", "unwind"} => ~ Busy(R)
  BY <1>1, <1>2, <1>3, SMTT(30) DEF Shape, Busy, Says, Top
<1>8. Top(S).fn # "exit" => ExitAt(R) = ExitAt(S)
  BY <1>1, <1>2, SMTT(30) DEF ExitAt, Top
<1>9. Top(S).fn = "exit" => ExitAt(R) = at
  <2>1. Top(S).fn = "exit" => n = 2
    BY <1>1, <1>2, SMTT(30) DEF Shape, Top
  <2> QED
    BY <1>1, <1>2, <2>1, SMTT(30) DEF ExitAt, Top
<1> QED
  BY <1>1, <1>2, <1>4, <1>5, <1>6, <1>7, <1>8, <1>9 DEF R

(* What the top of a stack says about the rest of it. *)
LEMMA OnTop ==
  ASSUME NEW S \in Seq(Frames), Shape(S)
  PROVE  /\ Top(S) \in Frames /\ FrameOK(Top(S))
         /\ Top(S).fn = "thread" <=> Len(S) = 1
         /\ Top(S).fn # "thread" <=> Len(S) > 1
         /\ Top(S).fn \in {"exit", "cleanup", "sync", "create"} => Len(S) = 2
         /\ Top(S).fn = "exit" => ExitAt(S) = Top(S).at
         /\ Top(S).fn # "exit" /\ Len(S) = 2 => ExitAt(S) = "no"
         /\ Len(S) = 1 => /\ ExitAt(S) = "no" /\ S[1] = Top(S)
                          /\ \A F : Has(S, F) <=> "thread" \in F
                          /\ \A A : Says(S, A) <=> S[1].at \in A
                          /\ ~ Recording(S)
         /\ Len(S) = 2 => \A F : Has(S, F) <=> "thread" \in F \/ Top(S).fn \in F
         /\ \A F : Top(S).fn \in F => Has(S, F)
         /\ \A A : Top(S).at \in A => Says(S, A)
         /\ Busy(S) => Has(S, Sample)
<1>1. Len(S) \in Nat /\ Len(S) > 0 /\ Len(S) \in 1..Len(S)
  BY LenProperties, SMTT(30) DEF Shape
<1>2. Top(S) \in Frames /\ FrameOK(Top(S))
  BY <1>1, ElementOfSeq DEF Shape, Top
<1>3. /\ Top(S).fn = "thread" <=> Len(S) = 1
      /\ Top(S).fn # "thread" <=> Len(S) > 1
      /\ Top(S).fn \in {"exit", "cleanup", "sync", "create"} => Len(S) = 2
  <2>1. /\ Len(S) = 1 \/ Len(S) = 2 \/ Len(S) \in 3..Len(S)
        /\ Len(S) = 1 \/ Len(S) \in 2..Len(S)
    BY <1>1, Sizes, Zenon
  <2>2. CASE Len(S) = 1
    BY <2>2, SMTT(30) DEF Shape, Top
  <2>3. CASE Len(S) = 2
    BY <2>3, <2>1, SMTT(30) DEF Shape, Top
  <2>4. CASE Len(S) \in 3..Len(S)
    BY <2>4, <1>1, SMTT(30) DEF Shape, Top
  <2> QED
    BY <2>1, <2>2, <2>3, <2>4
<1>4. /\ Top(S).fn = "exit" => ExitAt(S) = Top(S).at
      /\ Top(S).fn # "exit" /\ Len(S) = 2 => ExitAt(S) = "no"
  BY <1>1, <1>3 DEF ExitAt, Top
<1>5. Len(S) = 1 => /\ ExitAt(S) = "no" /\ S[1] = Top(S)
                    /\ \A F : Has(S, F) <=> "thread" \in F
                    /\ \A A : Says(S, A) <=> S[1].at \in A
                    /\ ~ Recording(S)
  BY <1>1, SMTT(30) DEF ExitAt, Top, Has, Says, Recording, Shape
<1>6. Len(S) = 2 => \A F : Has(S, F) <=> "thread" \in F \/ Top(S).fn \in F
  BY <1>1, SMTT(30) DEF Top, Has, Shape
<1>7. /\ \A F : Top(S).fn \in F => Has(S, F)
      /\ \A A : Top(S).at \in A => Says(S, A)
  BY <1>1 DEF Top, Has, Says
<1>8. Busy(S) => Has(S, Sample)
  BY DEF Busy, Says, Has, Sample, Shape, FrameOK
<1> QED
  BY <1>2, <1>3, <1>4, <1>5, <1>6, <1>7, <1>8

-----------------------------------------------------------------------------
(* The three ways in which a thread moves. *)

LEMMA Stacks ==
  ASSUME IInv, NEW t \in Threads
  PROVE  /\ stack \in [Threads -> Seq(Frames)] /\ stack[t] \in Seq(Frames)
         /\ Shape(stack[t])
         /\ \A fn, at : At(t, fn, at) <=> Top(stack[t]).fn = fn /\ Top(stack[t]).at = at
<1>1. stack \in [Threads -> Seq(Frames)] /\ Shape(stack[t])
  BY DEF IInv, TypeOK, Local
<1>2. Top(stack[t]) \in Frames
  BY <1>1, OnTop
<1>3. \A fn, at : Top(stack[t]) = Frame(fn, at) <=>
                    Top(stack[t]).fn = fn /\ Top(stack[t]).at = at
  BY <1>2, SMTT(30) DEF Frames, Frame
<1> QED
  BY <1>1, <1>3 DEF At, Top

(* The frame on top that a step finds. *)
LEMMA AtTop ==
  ASSUME IInv, NEW t \in Threads, NEW fn, NEW at, At(t, fn, at)
  PROVE  /\ Top(stack[t]).fn = fn /\ Top(stack[t]).at = at
         /\ FrameOK(Top(stack[t]))
         /\ fn # "thread" => Len(stack[t]) > 1
         /\ fn = "exit" => ExitAt(stack[t]) = at
         /\ fn = "thread" => /\ Len(stack[t]) = 1 /\ ~ (Len(stack[t]) > 1)
                             /\ stack[t][1] = Top(stack[t]) /\ stack[t][1].at = at
                             /\ ExitAt(stack[t]) = "no"
                             /\ ~ Has(stack[t], Sample) /\ ~ Busy(stack[t])
<1> DEFINE S == stack[t]
<1>1. S \in Seq(Frames) /\ Shape(S) /\ Top(S).fn = fn /\ Top(S).at = at
  BY Stacks
<1>2. FrameOK(Top(S)) /\ (fn # "thread" => Len(S) > 1) /\ (fn = "exit" => ExitAt(S) = at)
  BY <1>1, OnTop
<1>3. ASSUME fn = "thread"
      PROVE  /\ Len(S) = 1 /\ S[1] = Top(S) /\ ExitAt(S) = "no"
             /\ ~ Has(S, Sample) /\ ~ Busy(S)
  BY <1>1, <1>3, OnTop, SMTT(30) DEF Sample
<1>4. Len(S) = 1 => ~ (Len(S) > 1)
  BY SMTT(30)
<1> QED
  BY <1>1, <1>2, <1>3, <1>4, Zenon

LEMMA TopHas ==
  ASSUME IInv, NEW t \in Threads, NEW F, Top(stack[t]).fn \in F
  PROVE  Has(stack[t], F)
  BY Stacks, OnTop, Zenon

LEMMA TopSays ==
  ASSUME IInv, NEW t \in Threads, NEW A, Top(stack[t]).at \in A
  PROVE  Says(stack[t], A)
  BY Stacks, OnTop, Zenon

Others(t) == \A u \in Threads \ {t} : stack'[u] = stack[u]

WentTo(t, at) ==
  /\ stack' \in [Threads -> Seq(Frames)] /\ Shape(stack'[t]) /\ Others(t)
  /\ Len(stack[t]) > 1 => stack'[t][1] = stack[t][1]
  /\ Len(stack[t]) = 1 => stack'[t][1].at = at
  /\ \A F : Has(stack'[t], F) <=> Has(stack[t], F)
  /\ \A A : Says(stack'[t], A) => Says(stack[t], A) \/ at \in A
  /\ Recording(stack'[t]) =>
       Recording(stack[t]) \/ (Top(stack[t]).fn = "async" /\ at = "body")
  /\ Top(stack[t]).at # "test" /\ at \notin {"body", "unwind"} => ~ Busy(stack'[t])
  /\ Top(stack[t]).fn # "exit" => ExitAt(stack'[t]) = ExitAt(stack[t])
  /\ Top(stack[t]).fn = "exit" => ExitAt(stack'[t]) = at

LEMMA GotoStep ==
  ASSUME IInv, NEW t \in Threads, NEW at, Goto(t, at),
         Frame(Top(stack[t]).fn, at) \in Frames, FrameOK(Frame(Top(stack[t]).fn, at)),
         Busy(stack[t]) => Top(stack[t]).at # "test"
  PROVE  WentTo(t, at)
<1> DEFINE S == stack[t]
<1>1. stack \in [Threads -> Seq(Frames)] /\ S \in Seq(Frames) /\ Shape(S)
  BY Stacks
<1>2. stack' = [stack EXCEPT ![t] = Put(S, at)]
  BY DEF Goto, Put
<1>3. Put(S, at) \in Seq(Frames) /\ Shape(Put(S, at))
  <2>1. Len(S) > 0
    BY <1>1, Zenon DEF Shape
  <2>2. Put(S, at) \in Seq(Frames)
    BY <1>1, <2>1, Changed, Zenon
  <2>3. Shape(Put(S, at))
    BY <1>1, ShapePut, Zenon
  <2> QED
    BY <2>2, <2>3
<1>4. /\ stack' \in [Threads -> Seq(Frames)] /\ stack'[t] = Put(S, at)
      /\ \A u \in Threads \ {t} : stack'[u] = stack[u]
  BY <1>1, <1>2, <1>3
<1>5. /\ Len(stack'[t]) = Len(S)
      /\ Len(S) > 1 => stack'[t][1] = S[1]
      /\ Len(S) = 1 => stack'[t][1].at = at
  BY <1>1, <1>4, OfPut, SMTT(30)
<1>6. /\ \A F : Has(stack'[t], F) <=> Has(S, F)
      /\ \A A : Says(stack'[t], A) => Says(S, A) \/ at \in A
      /\ Recording(stack'[t]) => Recording(S) \/ (Top(S).fn = "async" /\ at = "body")
      /\ Top(S).at # "test" /\ at \notin {"body", "unwind"} => ~ Busy(stack'[t])
  BY <1>1, <1>4, OfPut, SMTT(30)
<1>7. /\ Top(S).fn # "exit" => ExitAt(stack'[t]) = ExitAt(S)
      /\ Top(S).fn = "exit" => ExitAt(stack'[t]) = at
  BY <1>1, <1>4, OfPut, SMTT(30)
<1> QED
  BY <1>3, <1>4, <1>5, <1>6, <1>7, Zenon DEF WentTo, Others

Called(t, fn, at) ==
  /\ stack' \in [Threads -> Seq(Frames)] /\ Shape(stack'[t]) /\ Others(t)
  /\ stack'[t][1] = stack[t][1]
  /\ \A F : Has(stack'[t], F) <=> Has(stack[t], F) \/ fn \in F
  /\ \A A : Says(stack'[t], A) <=> Says(stack[t], A) \/ at \in A
  /\ Recording(stack'[t]) <=> Recording(stack[t]) \/ (fn = "async" /\ at = "body")
  /\ fn # "exit" => ExitAt(stack'[t]) = ExitAt(stack[t])
  /\ fn = "exit" /\ Len(stack[t]) = 1 => ExitAt(stack'[t]) = at

LEMMA CallStep ==
  ASSUME IInv, NEW t \in Threads, NEW fn, NEW at, Call(t, fn, at),
         Frame(fn, at) \in Frames, FrameOK(Frame(fn, at)),
         fn \notin {"thread", "cleanup"},
         Len(stack[t]) > 1 => fn \in {"async", "handler", "fini"},
         fn \in {"exit", "sync", "create"} => stack[t][1].at = "app",
         fn \in Sample => ~ Has(stack[t], Sample),
         Busy(stack[t]) => fn = "handler" /\ at = "test"
  PROVE  Called(t, fn, at)
<1> DEFINE S == stack[t]
<1> DEFINE f == Frame(fn, at)
<1>1. stack \in [Threads -> Seq(Frames)] /\ S \in Seq(Frames) /\ Shape(S)
  BY Stacks
<1>2. f.fn = fn /\ f.at = at
  BY DEF Frame
<1>3. stack' = [stack EXCEPT ![t] = Append(S, f)]
  BY DEF Call
<1> HIDE DEF f
<1>4. f \in Frames /\ FrameOK(f)
  BY DEF f
<1>5. Append(S, f) \in Seq(Frames) /\ Shape(Append(S, f)) /\ Len(Append(S, f)) > 1
  <2>1. Append(S, f) \in Seq(Frames) /\ Len(S) \in Nat /\ Len(Append(S, f)) = Len(S) + 1
    BY <1>1, <1>4, Pushed
  <2>2. Shape(Append(S, f))
    BY <1>1, <1>2, <1>4, ShapePush
  <2>3. Len(S) > 0
    BY <1>1 DEF Shape
  <2> QED
    BY <2>1, <2>2, <2>3, SMTT(30)
<1>6. /\ stack' \in [Threads -> Seq(Frames)] /\ stack'[t] = Append(S, f)
      /\ \A u \in Threads \ {t} : stack'[u] = stack[u]
  BY <1>1, <1>3, <1>5
<1>7. /\ stack'[t][1] = S[1]
      /\ \A F : Has(stack'[t], F) <=> Has(S, F) \/ fn \in F
      /\ \A A : Says(stack'[t], A) <=> Says(S, A) \/ at \in A
      /\ Recording(stack'[t]) <=> Recording(S) \/ (fn = "async" /\ at = "body")
  BY <1>1, <1>2, <1>4, <1>6, OfPush, SMTT(30)
<1>8. /\ fn # "exit" => ExitAt(stack'[t]) = ExitAt(S)
      /\ fn = "exit" /\ Len(S) = 1 => ExitAt(stack'[t]) = at
  BY <1>1, <1>2, <1>4, <1>6, OfPush, SMTT(30)
<1> QED
  BY <1>5, <1>6, <1>7, <1>8, Zenon DEF Called, Others

Returned(t) ==
  /\ stack' \in [Threads -> Seq(Frames)] /\ Shape(stack'[t]) /\ Others(t)
  /\ stack'[t][1] = stack[t][1]
  /\ \A F : Has(stack'[t], F) => Has(stack[t], F)
  /\ \A A : Says(stack'[t], A) => Says(stack[t], A)
  /\ Recording(stack'[t]) => Recording(stack[t])
  /\ Top(stack[t]).at # "test" => ~ Busy(stack'[t])
  /\ Top(stack[t]).fn # "exit" => ExitAt(stack'[t]) = ExitAt(stack[t])

LEMMA ReturnStep ==
  ASSUME IInv, NEW t \in Threads, Return(t), Top(stack[t]).fn # "thread"
  PROVE  Returned(t)
<1> DEFINE S == stack[t]
<1>1. stack \in [Threads -> Seq(Frames)] /\ S \in Seq(Frames) /\ Shape(S)
  BY Stacks
<1>2. Len(S) > 1
  BY <1>1, OnTop
<1>3. stack' = [stack EXCEPT ![t] = Pop(S)]
  BY DEF Return
<1>4. Pop(S) \in Seq(Frames) /\ Shape(Pop(S))
  BY <1>1, <1>2, Popped, ShapePop, Zenon DEF Shape
<1>5. /\ stack' \in [Threads -> Seq(Frames)] /\ stack'[t] = Pop(S)
      /\ \A u \in Threads \ {t} : stack'[u] = stack[u]
  BY <1>1, <1>3, <1>4
<1>6. /\ stack'[t][1] = S[1]
      /\ \A F : Has(stack'[t], F) => Has(S, F)
      /\ \A A : Says(stack'[t], A) => Says(S, A)
      /\ Recording(stack'[t]) => Recording(S)
      /\ Top(S).at # "test" => ~ Busy(stack'[t])
      /\ Top(S).fn # "exit" => ExitAt(stack'[t]) = ExitAt(S)
  BY <1>1, <1>2, <1>5, OfPop
<1> QED
  BY <1>4, <1>5, <1>6, Zenon DEF Returned, Others

-----------------------------------------------------------------------------
(* What a step of one thread leaves alone. *)

Frozen(u) ==
  /\ stack'[u] = stack[u] /\ tn'[u] = tn[u] /\ finis'[u] = finis[u]
  /\ u \in pending' => u \in pending \/ in_exit_cleanup' = TRUE
  /\ u \in sampled' => u \in sampled
  /\ Listed(u) => Listed(u)'
Onward ==
  /\ in_exit_cleanup = TRUE => in_exit_cleanup' = TRUE
  /\ has_used_threads' = FALSE => has_used_threads = FALSE

LEMMA Bystander ==
  ASSUME NEW u \in Threads, Local(u), Frozen(u), Onward
  PROVE  Local(u)'
<1>1. /\ stack'[u] = stack[u] /\ tn'[u] = tn[u] /\ finis'[u] = finis[u]
      /\ u \in pending' => u \in pending \/ in_exit_cleanup' = TRUE
      /\ u \in sampled' => u \in sampled
      /\ Listed(u) => Listed(u)'
  BY DEF Frozen
<1>2. Shape(stack[u])' /\ Blocks(u)'
  BY <1>1 DEF Local, Blocks
<1>3. Signalled(u)'
  BY <1>1, Zenon DEF Local, Signalled, Onward
<1>4. Finishing(u)'
  BY <1>1, Zenon DEF Local, Finishing, Onward
<1>5. Started(u)'
  BY <1>1, Zenon DEF Local, Started, Onward
<1> QED
  BY <1>2, <1>3, <1>4, <1>5 DEF Local

(* A step that has no part in the exit of the process. *)
Aside ==
  /\ \A u \in Threads : ExitAt(stack'[u]) = ExitAt(stack[u])
  /\ UNCHANGED <<winner, in_exit_cleanup, fini_process_done, walk, late, timedout>>
  /\ list' = list \/ in_exit_cleanup = FALSE
  /\ \A u \in Threads : ExitAt(stack[u]) = "process" =>
                          \/ in_exit_cleanup = TRUE
                          \/ has_used_threads' = has_used_threads
  /\ \A u \in Threads : tn[u].fini_done = TRUE /\ in_exit_cleanup = TRUE =>
                          tn'[u].fini_done = TRUE

LEMMA ExitAside ==
  ASSUME IInv, Aside
  PROVE  Race' /\ Walked'
<1>1. /\ winner' = winner /\ in_exit_cleanup' = in_exit_cleanup
      /\ fini_process_done' = fini_process_done /\ walk' = walk
      /\ late' = late /\ timedout' = timedout
      /\ \A u \in Threads : ExitAt(stack'[u]) = ExitAt(stack[u])
  BY DEF Aside
<1>2. Race'
  BY <1>1, Zenon DEF IInv, Race, Aside
<1>3. CASE in_exit_cleanup = FALSE
  <2>1. \A t \in Threads : ExitAt(stack'[t]) # "walk"
    BY <1>1, <1>3 DEF IInv, Race
  <2> QED
    BY <1>1, <1>2, <1>3, <2>1, Zenon DEF Walked
<1>4. CASE in_exit_cleanup # FALSE
  <2>1. list' = list /\ in_exit_cleanup = TRUE
    BY <1>4, Zenon DEF Aside, IInv, TypeOK
  <2>2. \A t \in Threads : \A i \in 1..Len(list) : Seen(t, i) => Seen(t, i)'
    <3> SUFFICES ASSUME NEW t \in Threads, NEW i \in 1..Len(list), Seen(t, i)
                 PROVE  Seen(t, i)'
      OBVIOUS
    <3>1. list[i] \in Threads
      BY ElementOfSeq DEF IInv, TypeOK
    <3> QED
      BY <1>1, <2>1, <3>1 DEF Seen, Aside
  <2> QED
    BY <1>1, <1>2, <2>1, <2>2, Zenon DEF IInv, Walked
<1> QED
  BY <1>2, <1>3, <1>4, Zenon

(* A step of t: the rest is shown by the two lemmas above. *)
LEMMA StepOf ==
  ASSUME IInv, NEW t \in Threads, TypeOK', Local(t)', Aside, Onward,
         \A u \in Threads \ {t} : Frozen(u)
  PROVE  IInv'
<1>1. \A u \in Threads \ {t} : Local(u)'
  BY Bystander DEF IInv
<1> QED
  BY <1>1, ExitAside DEF IInv

(* One flag of one node. *)
LEMMA SetStep ==
  ASSUME IInv, NEW t \in Threads, NEW b \in BOOLEAN,
         NEW field \in {"appl_started", "fini_started", "fini_done", "block"},
         Set(t, field, b)
  PROVE  /\ tn' \in [Threads -> Flags]
         /\ \A u \in Threads \ {t} : tn'[u] = tn[u]
         /\ tn'[t].appl_started = IF field = "appl_started" THEN b ELSE tn[t].appl_started
         /\ tn'[t].fini_started = IF field = "fini_started" THEN b ELSE tn[t].fini_started
         /\ tn'[t].fini_done = IF field = "fini_done" THEN b ELSE tn[t].fini_done
         /\ tn'[t].block = IF field = "block" THEN b ELSE tn[t].block
<1>1. tn \in [Threads -> Flags] /\ tn[t] \in Flags
  BY DEF IInv, TypeOK
<1>2. tn' = [tn EXCEPT ![t] = [tn[t] EXCEPT ![field] = b]]
  BY DEF Set
<1>3. CASE field = "appl_started"
  BY <1>1, <1>2, <1>3 DEF Flags
<1>4. CASE field = "fini_started"
  BY <1>1, <1>2, <1>4 DEF Flags
<1>5. CASE field = "fini_done"
  BY <1>1, <1>2, <1>5 DEF Flags
<1>6. CASE field = "block"
  BY <1>1, <1>2, <1>6 DEF Flags
<1> QED
  BY <1>3, <1>4, <1>5, <1>6

(* The invariant of the thread that moves, when its start routine stays where  *)
(* it is and what is new on its stack is allowed to be there.                  *)
FitsItself(t) ==
  /\ Shape(stack'[t])
  /\ stack'[t][1].at = stack[t][1].at
  /\ Has(stack'[t], {"handler"}) => Has(stack[t], {"handler"}) \/ in_exit_cleanup' = TRUE
  /\ Has(stack'[t], {"async"}) => Has(stack[t], {"async"}) \/ finis[t] = 0
  /\ Has(stack'[t], {"create"}) => Has(stack[t], {"create"}) \/ has_used_threads' = TRUE
  /\ Says(stack'[t], {"mark"}) => Says(stack[t], {"mark"}) \/ stack[t][1].at \in {"app", "gone"}
  /\ Says(stack'[t], {"done", "unlink"}) => Says(stack[t], {"done", "unlink"}) \/ finis[t] > 0
  /\ Recording(stack'[t]) => Recording(stack[t]) \/ finis[t] = 0
Fits(t) == stack' \in [Threads -> Seq(Frames)] /\ Others(t) /\ FitsItself(t)

Keeps(t) ==
  /\ tn' \in [Threads -> Flags]
  /\ \A u \in Threads \ {t} : tn'[u] = tn[u]
  /\ tn'[t].appl_started = tn[t].appl_started
  /\ tn[t].fini_done = TRUE => tn'[t].fini_done = TRUE
  /\ tn'[t].fini_done = TRUE => tn[t].fini_done = TRUE \/ finis[t] > 0

LEMMA LocalFits ==
  ASSUME IInv, NEW t \in Threads, FitsItself(t), Keeps(t), Onward,
         Busy(stack'[t]) => tn'[t].block = TRUE,
         finis' = finis, Listed(t) => Listed(t)',
         t \in pending' => t \in pending \/ in_exit_cleanup' = TRUE,
         t \in sampled' => t \in sampled
  PROVE  Local(t)'
<1> USE DEF IInv, Local
<1>1. finis[t] \in Nat
  BY DEF TypeOK
<1>2. Blocks(t)'
  BY DEF Blocks
<1>3. Signalled(t)'
  BY Zenon DEF Signalled, FitsItself, Onward
<1>4. Finishing(t)'
  <2>1. Says(stack'[t], {"mark"}) => stack'[t][1].at \in {"app", "gone"}
    BY Zenon DEF Finishing, FitsItself
  <2>2. Says(stack'[t], {"done", "unlink"}) => finis'[t] > 0
    BY Zenon DEF Finishing, FitsItself
  <2>3. tn'[t].fini_done = TRUE => finis'[t] > 0
    BY Zenon DEF Finishing, Keeps
  <2>4. finis'[t] > 0 => t \notin sampled' /\ stack'[t][1].at \in {"app", "gone"}
    BY Zenon DEF Finishing, FitsItself
  <2>5. finis'[t] > 0 /\ Has(stack'[t], {"async"}) => in_exit_cleanup' = TRUE
    <3>1. ~ (finis[t] > 0 /\ finis[t] = 0)
      BY <1>1, SMTT(30)
    <3> QED
      BY <3>1, Zenon DEF Finishing, FitsItself, Onward
  <2>6. Recording(stack'[t]) => finis'[t] = 0
    BY Zenon DEF Finishing, FitsItself
  <2> QED
    BY <2>1, <2>2, <2>3, <2>4, <2>5, <2>6, Zenon DEF Finishing
<1>5. Started(t)'
  BY Zenon DEF Started, FitsItself, Keeps, Onward
<1> QED
  BY <1>2, <1>3, <1>4, <1>5 DEF FitsItself

(* Most steps change only a stack and the flags of one node. *)
Idle == UNCHANGED <<list, sampled, flags, walk, hist>> /\ pending' \subseteq pending

LEMMA IdleStep ==
  ASSUME IInv, NEW t \in Threads, Idle, Fits(t), Keeps(t),
         Busy(stack'[t]) => tn'[t].block = TRUE,
         ExitAt(stack'[t]) = ExitAt(stack[t])
  PROVE  IInv'
<1>1. /\ list' = list /\ sampled' = sampled /\ pending' \subseteq pending
      /\ has_used_threads' = has_used_threads /\ in_exit_cleanup' = in_exit_cleanup
      /\ fini_thread_done' = fini_thread_done /\ fini_process_done' = fini_process_done
      /\ winner' = winner /\ walk' = walk /\ finis' = finis /\ late' = late
      /\ timedout' = timedout
  BY DEF Idle, flags, hist
<1>2. TypeOK'
  BY <1>1, Zenon DEF IInv, TypeOK, Fits, Keeps
<1>3. Onward
  BY <1>1 DEF Onward
<1>4. Local(t)'
  BY <1>1, <1>3, LocalFits, Zenon DEF Fits, Listed
<1>5. Aside
  BY <1>1, Zenon DEF Aside, Fits, Others, Keeps
<1>6. \A u \in Threads \ {t} : Frozen(u)
  BY <1>1, Zenon DEF Frozen, Fits, Others, Keeps, Listed
<1> QED
  BY <1>1, <1>2, <1>3, <1>4, <1>5, <1>6, StepOf

LEMMA GotoFits ==
  ASSUME IInv, NEW t \in Threads, NEW at, WentTo(t, at), Len(stack[t]) > 1,
         at = "mark" => stack[t][1].at \in {"app", "gone"},
         at \in {"done", "unlink"} => finis[t] > 0,
         at = "body" => Top(stack[t]).fn # "async" \/ finis[t] = 0
  PROVE  Fits(t)
  BY Zenon DEF Fits, FitsItself, WentTo

LEMMA CallFits ==
  ASSUME IInv, NEW t \in Threads, NEW fn, NEW at, Called(t, fn, at),
         fn = "handler" => in_exit_cleanup' = TRUE,
         fn = "async" => finis[t] = 0,
         fn = "create" => has_used_threads' = TRUE,
         at \notin {"mark", "done", "unlink", "body"}
  PROVE  Fits(t)
  BY Zenon DEF Fits, FitsItself, Called

LEMMA ReturnFits ==
  ASSUME IInv, NEW t \in Threads, Returned(t)
  PROVE  Fits(t)
  BY Zenon DEF Fits, FitsItself, Returned

LEMMA BlockKeeps ==
  ASSUME IInv, NEW t \in Threads, NEW b \in BOOLEAN, Set(t, "block", b)
  PROVE  Keeps(t) /\ tn'[t].block = b
  BY SetStep DEF Keeps

LEMMA SameKeeps ==
  ASSUME IInv, NEW t \in Threads, tn' = tn
  PROVE  Keeps(t) /\ tn'[t].block = tn[t].block
  BY DEF Keeps, IInv, TypeOK

(* A busy thread has put the handler off. *)
LEMMA BusyBlocks ==
  ASSUME IInv, NEW t \in Threads
  PROVE  Busy(stack[t]) => tn[t].block = TRUE
  BY DEF IInv, Local, Blocks

(* A thread whose application has not started. *)
LEMMA Young ==
  ASSUME IInv, NEW t \in Threads, stack[t][1].at \in {"none", "link", "init", "start"}
  PROVE  /\ t # Main /\ finis[t] = 0
         /\ tn[t].appl_started = FALSE /\ tn[t].fini_done = FALSE
<1>1. t # Main /\ ~ (finis[t] > 0)
  BY DEF IInv, Local, Started, Finishing
<1>2. tn[t] \in Flags /\ finis[t] \in Nat
  BY DEF IInv, TypeOK
<1>3. tn[t].appl_started # TRUE /\ tn[t].fini_done # TRUE
  BY <1>1, Zenon DEF IInv, Local, Started, Finishing
<1>4. tn[t].appl_started \in BOOLEAN /\ tn[t].fini_done \in BOOLEAN
  BY <1>2 DEF Flags
<1>5. finis[t] = 0
  BY <1>1, <1>2, SMTT(30)
<1> QED
  BY <1>1, <1>3, <1>4, <1>5, Zenon

(* A thread in the exit of the process is in its application. *)
LEMMA ExitInApp ==
  ASSUME NEW S \in Seq(Frames), Shape(S), ExitAt(S) # "no"
  PROVE  S[1].at = "app"
<1>1. Len(S) \in Nat /\ Len(S) > 1 /\ S[2].fn = "exit"
  BY LenProperties DEF ExitAt
<1>2. Has(S, {"exit", "sync", "create"})
  BY <1>1, SMTT(30) DEF Has
<1> QED
  BY <1>2 DEF Shape

-----------------------------------------------------------------------------
(* The steps that change only a stack and the flags of one node. *)

LEMMA GenThreadCtxtStep ==
  ASSUME IInv, NEW t \in Threads, GenThreadCtxt(t)
  PROVE  IInv'
<1>1. /\ Top(stack[t]).fn = "create" /\ Top(stack[t]).at = "ctxt"
      /\ Len(stack[t]) > 1
  BY AtTop, SMTT(30) DEF GenThreadCtxt
<1>2. Idle
  BY DEF GenThreadCtxt, Idle
<1>3. CASE Goto(t, "launch") /\ Set(t, "block", FALSE)
  <2>1. WentTo(t, "launch")
    BY <1>1, <1>3, GotoStep DEF Frame, Frames, FrameOK
  <2>2. Fits(t) /\ Keeps(t)
    BY <1>1, <1>3, <2>1, GotoFits, BlockKeeps, Zenon
  <2>3. ~ Busy(stack'[t]) /\ ExitAt(stack'[t]) = ExitAt(stack[t])
    BY <1>1, <2>1 DEF WentTo
  <2> QED
    BY <1>2, <2>2, <2>3, IdleStep, Zenon
<1>4. CASE Goto(t, "unwind") /\ Set(t, "block", TRUE)
  <2>1. WentTo(t, "unwind")
    BY <1>1, <1>4, GotoStep DEF Frame, Frames, FrameOK
  <2>2. Fits(t) /\ Keeps(t) /\ tn'[t].block = TRUE
    BY <1>1, <1>4, <2>1, GotoFits, BlockKeeps, Zenon
  <2>3. ExitAt(stack'[t]) = ExitAt(stack[t])
    BY <1>1, <2>1 DEF WentTo
  <2> QED
    BY <1>2, <2>2, <2>3, IdleStep, Zenon
<1> QED
  BY <1>3, <1>4, Zenon DEF GenThreadCtxt

LEMMA ThreadCtxtDoneStep ==
  ASSUME IInv, NEW t \in Threads, ThreadCtxtDone(t)
  PROVE  IInv'
<1>1. /\ Top(stack[t]).fn = "create" /\ Top(stack[t]).at = "unwind"
      /\ Len(stack[t]) > 1
  BY AtTop, SMTT(30) DEF ThreadCtxtDone
<1>2. Idle
  BY DEF ThreadCtxtDone, Idle
<1>3. Keeps(t)
  BY BlockKeeps, SameKeeps, Zenon DEF ThreadCtxtDone
<1>4. WentTo(t, "launch")
  BY <1>1, GotoStep DEF ThreadCtxtDone, Frame, Frames, FrameOK
<1>5. Fits(t)
  BY <1>1, <1>4, GotoFits
<1>6. ~ Busy(stack'[t]) /\ ExitAt(stack'[t]) = ExitAt(stack[t])
  BY <1>1, <1>4 DEF WentTo
<1> QED
  BY <1>2, <1>3, <1>5, <1>6, IdleStep, Zenon

LEMMA AsyncSampleStep ==
  ASSUME IInv, NEW t \in Threads, AsyncSample(t)
  PROVE  IInv'
<1>1. ~ Has(stack[t], Sample) /\ finis[t] = 0
  <2>1. ~ Has(stack[t], Sample)
    BY DEF AsyncSample, In, Has, Sample
  <2>2. finis[t] \in Nat /\ ~ (finis[t] > 0)
    BY DEF AsyncSample, IInv, TypeOK, Local, Finishing
  <2> QED
    BY <2>1, <2>2, SMTT(30)
<1>2. ~ Busy(stack[t])
  BY <1>1, Stacks, OnTop
<1>3. Idle
  BY DEF AsyncSample, Idle
<1>4. Called(t, "async", "enter")
  BY <1>1, <1>2, CallStep DEF AsyncSample, Frame, Frames, FrameOK
<1>5. Fits(t) /\ Keeps(t)
  BY <1>1, <1>4, CallFits, SameKeeps, Zenon DEF AsyncSample
<1>6. ~ Busy(stack'[t]) /\ ExitAt(stack'[t]) = ExitAt(stack[t])
  BY <1>2, <1>4 DEF Called, Busy
<1> QED
  BY <1>3, <1>5, <1>6, IdleStep, Zenon

LEMMA SyncSampleStep ==
  ASSUME IInv, NEW t \in Threads, SyncSample(t)
  PROVE  IInv'
<1>1. /\ Len(stack[t]) = 1 /\ stack[t][1].at = "app"
      /\ ~ Has(stack[t], Sample) /\ ~ Busy(stack[t])
  BY AtTop, Zenon DEF SyncSample
<1>2. Idle
  BY DEF SyncSample, Idle
<1>3. Called(t, "sync", "enter")
  <2>1. Frame("sync", "enter") \in Frames /\ FrameOK(Frame("sync", "enter"))
    BY DEF Frame, Frames, FrameOK
  <2>2. ~ (Len(stack[t]) > 1)
    BY AtTop, Zenon DEF SyncSample
  <2> QED
    BY <1>1, <2>1, <2>2, CallStep, Zenon DEF SyncSample
<1>4. Fits(t) /\ Keeps(t)
  BY <1>3, CallFits, SameKeeps, Zenon DEF SyncSample
<1>5. ~ Busy(stack'[t]) /\ ExitAt(stack'[t]) = ExitAt(stack[t])
  BY <1>1, <1>3 DEF Called, Busy
<1> QED
  BY <1>2, <1>4, <1>5, IdleStep, Zenon

LEMMA BlockShootdownStep ==
  ASSUME IInv, NEW t \in Threads, BlockShootdown(t)
  PROVE  IInv'
<1>1. /\ Top(stack[t]).fn \in {"async", "sync"} /\ Top(stack[t]).at = "enter"
      /\ Len(stack[t]) > 1
  <2>1. PICK fn \in {"async", "sync"} : At(t, fn, "enter")
    BY Zenon DEF BlockShootdown
  <2>2. fn # "thread"
    BY <2>1
  <2> QED
    BY <2>1, <2>2, AtTop, Zenon
<1>2. Idle
  BY DEF BlockShootdown, Idle
<1>3. CASE Return(t) /\ Set(t, "block", FALSE)
  <2>1. Returned(t)
    BY <1>1, <1>3, ReturnStep
  <2>2. Fits(t) /\ Keeps(t)
    BY <1>3, <2>1, ReturnFits, BlockKeeps, Zenon
  <2>3. ~ Busy(stack'[t]) /\ ExitAt(stack'[t]) = ExitAt(stack[t])
    BY <1>1, <2>1 DEF Returned
  <2> QED
    BY <1>2, <2>2, <2>3, IdleStep, Zenon
<1>4. CASE /\ Goto(t, "body") /\ Set(t, "block", TRUE)
           /\ ~ (At(t, "async", "enter") /\ in_exit_cleanup)
  <2>1. WentTo(t, "body")
    BY <1>1, <1>4, GotoStep DEF Frame, Frames, FrameOK
  <2>2. Top(stack[t]).fn # "async" \/ finis[t] = 0
    <3>1. CASE Top(stack[t]).fn = "async"
      <4>1. in_exit_cleanup = FALSE
        BY <1>1, <1>4, <3>1, Stacks DEF IInv, TypeOK
      <4>2. Has(stack[t], {"async"})
        BY <3>1, TopHas, Zenon
      <4>3. finis[t] \in Nat /\ ~ (finis[t] > 0)
        BY <4>1, <4>2 DEF IInv, TypeOK, Local, Finishing
      <4> QED
        BY <4>3, SMTT(30)
    <3> QED
      BY <3>1
  <2>3. Fits(t) /\ Keeps(t) /\ tn'[t].block = TRUE
    BY <1>1, <1>4, <2>1, <2>2, GotoFits, BlockKeeps, Zenon
  <2>4. ExitAt(stack'[t]) = ExitAt(stack[t])
    BY <1>1, <2>1 DEF WentTo
  <2> QED
    BY <1>2, <2>3, <2>4, IdleStep, Zenon
<1> QED
  BY <1>3, <1>4, Zenon DEF BlockShootdown

LEMMA UnblockShootdownStep ==
  ASSUME IInv, NEW t \in Threads, UnblockShootdown(t)
  PROVE  IInv'
<1>1. Top(stack[t]).fn \in {"async", "sync"} /\ Top(stack[t]).at = "body"
  BY Stacks DEF UnblockShootdown
<1>2. Idle
  BY DEF UnblockShootdown, Idle
<1>3. Returned(t)
  BY <1>1, ReturnStep DEF UnblockShootdown
<1>4. Fits(t) /\ Keeps(t)
  BY <1>3, ReturnFits, BlockKeeps, Zenon DEF UnblockShootdown
<1>5. ~ Busy(stack'[t]) /\ ExitAt(stack'[t]) = ExitAt(stack[t])
  BY <1>1, <1>3 DEF Returned
<1> QED
  BY <1>2, <1>4, <1>5, IdleStep, Zenon

LEMMA ShootdownSignalStep ==
  ASSUME IInv, NEW t \in Threads, ShootdownSignal(t)
  PROVE  IInv'
<1>1. in_exit_cleanup = TRUE /\ in_exit_cleanup' = in_exit_cleanup
  BY DEF ShootdownSignal, IInv, Local, Signalled, flags
<1>2. Idle
  BY DEF ShootdownSignal, Idle
<1>3. Called(t, "handler", "test")
  <2>1. Frame("handler", "test") \in Frames /\ FrameOK(Frame("handler", "test"))
    BY DEF Frame, Frames, FrameOK
  <2> QED
    BY <2>1, CallStep DEF ShootdownSignal, Sample
<1>4. Fits(t) /\ Keeps(t) /\ tn'[t].block = tn[t].block
  BY <1>1, <1>3, CallFits, SameKeeps, Zenon DEF ShootdownSignal
<1>5. /\ Busy(stack'[t]) => Busy(stack[t])
      /\ ExitAt(stack'[t]) = ExitAt(stack[t])
  BY <1>3 DEF Called, Busy
<1> QED
  BY <1>2, <1>4, <1>5, BusyBlocks, IdleStep, Zenon

LEMMA TestFiniStep ==
  ASSUME IInv, NEW t \in Threads, TestFini(t)
  PROVE  IInv'
<1>1. /\ Top(stack[t]).fn \in {"cleanup", "handler"} /\ Top(stack[t]).at = "test"
      /\ Len(stack[t]) > 1
  BY AtTop, SMTT(30) DEF TestFini
<1>2. Idle
  BY DEF TestFini, Idle
<1>3. Keeps(t) /\ tn'[t].block = tn[t].block
  BY SameKeeps DEF TestFini
<1>4. CASE Return(t)
  <2>1. Returned(t)
    BY <1>1, <1>4, ReturnStep
  <2>2. Fits(t)
    BY <2>1, ReturnFits
  <2>3. /\ Busy(stack'[t]) => Busy(stack[t])
        /\ ExitAt(stack'[t]) = ExitAt(stack[t])
    BY <1>1, <2>1 DEF Returned, Busy
  <2> QED
    BY <1>2, <1>3, <2>2, <2>3, BusyBlocks, IdleStep, Zenon
<1>5. CASE Goto(t, "mark") /\ tn[t].appl_started /\ ~ tn[t].block
  <2>1. tn[t].appl_started = TRUE /\ tn[t].block = FALSE
    BY <1>5 DEF IInv, TypeOK, Flags
  <2>2. ~ Busy(stack[t])
    BY <2>1, BusyBlocks, Zenon
  <2>3. WentTo(t, "mark")
    BY <1>1, <1>5, <2>2, GotoStep DEF Frame, Frames, FrameOK
  <2>4. stack[t][1].at \in {"app", "gone"}
    BY <2>1 DEF IInv, Local, Started
  <2>5. Fits(t)
    BY <1>1, <2>3, <2>4, GotoFits
  <2>6. ~ Busy(stack'[t]) /\ ExitAt(stack'[t]) = ExitAt(stack[t])
    BY <1>1, <2>2, <2>3 DEF WentTo, Busy
  <2> QED
    BY <1>2, <1>3, <2>5, <2>6, IdleStep, Zenon
<1> QED
  BY <1>4, <1>5 DEF TestFini

LEMMA FiniThreadReturnsStep ==
  ASSUME IInv, NEW t \in Threads, FiniThreadReturns(t)
  PROVE  IInv'
<1>1. Top(stack[t]).fn = "fini" /\ Top(stack[t]).at = "run"
  BY Stacks DEF FiniThreadReturns
<1>2. Idle
  BY DEF FiniThreadReturns, Idle
<1>3. Returned(t)
  BY <1>1, ReturnStep DEF FiniThreadReturns
<1>4. Fits(t) /\ Keeps(t)
  BY <1>3, ReturnFits, SameKeeps DEF FiniThreadReturns
<1>5. ~ Busy(stack'[t]) /\ ExitAt(stack'[t]) = ExitAt(stack[t])
  BY <1>1, <1>3 DEF Returned
<1> QED
  BY <1>2, <1>4, <1>5, IdleStep, Zenon

-----------------------------------------------------------------------------
(* The creation of threads and their start and end. *)

(* New stacks. *)
LEMMA Single ==
  ASSUME NEW at \in {"none", "link", "app"}
  PROVE  LET S == <<Frame("thread", at)>>
         IN  S \in Seq(Frames) /\ Shape(S) /\ Len(S) = 1 /\ S[1].at = at
<1> DEFINE S == <<Frame("thread", at)>>
<1>1. S \in Seq(Frames) /\ Len(S) = 1 /\ S[1].fn = "thread" /\ S[1].at = at
  BY SMTT(30) DEF Frame, Frames
<1>2. FrameOK(S[1])
  BY <1>1 DEF FrameOK
<1> HIDE DEF S
<1>3. Shape(S)
  BY <1>1, <1>2, SMTT(30) DEF Shape, Has, Sample
<1> QED
  BY <1>1, <1>3 DEF S

LEMMA Pair ==
  LET S == <<Frame("thread", "gone"), Frame("cleanup", "test")>>
  IN  /\ S \in Seq(Frames) /\ Shape(S) /\ S[1].at = "gone" /\ ExitAt(S) = "no"
      /\ \A F : Has(S, F) <=> "thread" \in F \/ "cleanup" \in F
      /\ \A A : Says(S, A) <=> "gone" \in A \/ "test" \in A
      /\ ~ Recording(S)
<1> DEFINE S == <<Frame("thread", "gone"), Frame("cleanup", "test")>>
<1>1. /\ S \in Seq(Frames) /\ Len(S) = 2
      /\ S[1].fn = "thread" /\ S[1].at = "gone"
      /\ S[2].fn = "cleanup" /\ S[2].at = "test"
  BY SMTT(30) DEF Frame, Frames
<1> HIDE DEF S
<1>2. \A i : i \in 1..Len(S) <=> i = 1 \/ i = 2
  BY <1>1, SMTT(30)
<1>3. FrameOK(S[1]) /\ FrameOK(S[2])
  BY <1>1 DEF FrameOK
<1>4. /\ \A F : Has(S, F) <=> "thread" \in F \/ "cleanup" \in F
      /\ \A A : Says(S, A) <=> "gone" \in A \/ "test" \in A
      /\ ~ Recording(S)
  BY <1>1, <1>2 DEF Has, Says, Recording
<1>5. Shape(S)
  BY <1>1, <1>2, <1>3, <1>4, SMTT(30) DEF Shape, Sample
<1>6. ExitAt(S) = "no"
  BY <1>1 DEF ExitAt
<1> QED
  BY <1>1, <1>4, <1>5, <1>6 DEF S

LEMMA PthreadCreateStep ==
  ASSUME IInv, NEW t \in Threads, PthreadCreate(t)
  PROVE  IInv'
<1>1. /\ Len(stack[t]) = 1 /\ ~ (Len(stack[t]) > 1) /\ stack[t][1].at = "app"
      /\ ~ Has(stack[t], Sample) /\ ~ Busy(stack[t]) /\ ExitAt(stack[t]) = "no"
  BY AtTop, Zenon DEF PthreadCreate
<1>2. /\ list' = list /\ sampled' = sampled /\ pending' = pending /\ tn' = tn
      /\ has_used_threads' = TRUE /\ in_exit_cleanup' = in_exit_cleanup
      /\ fini_thread_done' = fini_thread_done /\ fini_process_done' = fini_process_done
      /\ winner' = winner /\ walk' = walk /\ finis' = finis /\ late' = late
      /\ timedout' = timedout
  BY DEF PthreadCreate, hist
<1>3. Called(t, "create", "ctxt")
  <2>1. Frame("create", "ctxt") \in Frames /\ FrameOK(Frame("create", "ctxt"))
    BY DEF Frame, Frames, FrameOK
  <2> QED
    BY <1>1, <2>1, CallStep, Zenon DEF PthreadCreate
<1>4. Fits(t) /\ Keeps(t)
  BY <1>2, <1>3, CallFits, SameKeeps, Zenon
<1>5. ~ Busy(stack'[t]) /\ ExitAt(stack'[t]) = ExitAt(stack[t])
  BY <1>1, <1>3 DEF Called, Busy
<1>6. TypeOK'
  BY <1>2, <1>4, Zenon DEF IInv, TypeOK, Fits
<1>7. Onward
  BY <1>2, Zenon DEF Onward
<1>8. Local(t)'
  BY <1>2, <1>4, <1>5, <1>7, LocalFits, Zenon DEF Fits, Listed
<1>9. \A u \in Threads : ExitAt(stack[u]) = "process" =>
                           in_exit_cleanup = TRUE \/ has_used_threads' = has_used_threads
  <2> SUFFICES ASSUME NEW u \in Threads, ExitAt(stack[u]) = "process",
                      has_used_threads = FALSE
               PROVE  FALSE
    BY <1>2, Zenon DEF IInv, TypeOK
  <2>1. stack[u][1].at = "app"
    BY Stacks, ExitInApp
  <2>2. t = Main /\ u = Main
    BY <1>1, <2>1 DEF IInv, Local, Started
  <2> QED
    BY <1>1, <2>2
<1>10. Aside
  BY <1>2, <1>4, <1>5, <1>9, Zenon DEF Aside, Fits, Others
<1>11. \A u \in Threads \ {t} : Frozen(u)
  BY <1>2, <1>4, Zenon DEF Frozen, Fits, Others, Listed
<1> QED
  BY <1>6, <1>7, <1>8, <1>10, <1>11, StepOf

LEMMA LaunchStep ==
  ASSUME IInv, NEW t \in Threads, Launch(t)
  PROVE  IInv'
<1>1. Top(stack[t]).fn = "create" /\ Top(stack[t]).at = "launch" /\ Len(stack[t]) > 1
  BY AtTop, SMTT(30) DEF Launch
<1>2. Idle /\ tn' = tn
  BY DEF Launch, Idle
<1>3. Keeps(t)
  BY <1>2, SameKeeps
<1>4. CASE Return(t)
  <2>1. Returned(t)
    BY <1>1, <1>4, ReturnStep
  <2>2. ~ Busy(stack'[t]) /\ ExitAt(stack'[t]) = ExitAt(stack[t])
    BY <1>1, <2>1 DEF Returned
  <2> QED
    BY <1>2, <1>3, <2>1, <2>2, ReturnFits, IdleStep, Zenon
<1>5. ASSUME NEW w \in Workers, At(w, "thread", "none"),
             stack' = [stack EXCEPT ![t] = Pop(@), ![w] = <<Frame("thread", "link")>>]
      PROVE  IInv'
  <2>1. w \in Threads
    BY DEF Threads
  <2>2. /\ Top(stack[w]).fn = "thread" /\ Len(stack[w]) = 1 /\ stack[w][1].at = "none"
        /\ ExitAt(stack[w]) = "no"
    BY <1>5, <2>1, AtTop, Zenon
  <2>3. w # t
    BY <1>1, <2>2
  <2>4. /\ Pop(stack[t]) \in Seq(Frames) /\ Shape(Pop(stack[t]))
        /\ Pop(stack[t])[1] = stack[t][1]
        /\ \A F : Has(Pop(stack[t]), F) => Has(stack[t], F)
        /\ \A A : Says(Pop(stack[t]), A) => Says(stack[t], A)
        /\ Recording(Pop(stack[t])) => Recording(stack[t])
        /\ ~ Busy(Pop(stack[t]))
        /\ ExitAt(Pop(stack[t])) = ExitAt(stack[t])
    BY <1>1, Stacks, Popped, ShapePop, OfPop, SMTT(30)
  <2>5. /\ <<Frame("thread", "link")>> \in Seq(Frames)
        /\ Shape(<<Frame("thread", "link")>>)
        /\ Len(<<Frame("thread", "link")>>) = 1
        /\ <<Frame("thread", "link")>>[1].at = "link"
    BY Single
  <2>6. /\ stack' \in [Threads -> Seq(Frames)]
        /\ stack'[t] = Pop(stack[t]) /\ stack'[w] = <<Frame("thread", "link")>>
        /\ \A u \in Threads \ {t, w} : stack'[u] = stack[u]
    BY <1>5, <2>1, <2>3, <2>4, <2>5, Stacks, ZenonT(30)
  <2>7. /\ list' = list /\ sampled' = sampled /\ pending' \subseteq pending
        /\ has_used_threads' = has_used_threads /\ in_exit_cleanup' = in_exit_cleanup
        /\ fini_thread_done' = fini_thread_done /\ fini_process_done' = fini_process_done
        /\ winner' = winner /\ walk' = walk /\ finis' = finis /\ late' = late
        /\ timedout' = timedout
    BY <1>2 DEF Idle, flags, hist
  <2>8. TypeOK'
    BY <1>2, <2>6, <2>7, Zenon DEF IInv, TypeOK
  <2>9. Onward
    BY <2>7 DEF Onward
  <2>10. Local(t)'
    <3>1. FitsItself(t)
      BY <2>4, <2>6, Zenon DEF FitsItself
    <3> QED
      BY <1>3, <2>4, <2>6, <2>7, <2>9, <3>1, LocalFits, Zenon DEF Listed
  <2>11. Local(w)'
    <3>1. /\ Shape(stack'[w]) /\ stack'[w][1].at = "link" /\ ~ Recording(stack'[w])
          /\ ~ Busy(stack'[w]) /\ ~ Has(stack'[w], {"handler"})
          /\ ~ Has(stack'[w], {"async"}) /\ ~ Has(stack'[w], {"create"})
          /\ ~ Says(stack'[w], {"mark"}) /\ ~ Says(stack'[w], {"done", "unlink"})
      BY <2>5, <2>6, OnTop, ZenonT(30) DEF Busy
    <3>2. /\ w # Main /\ finis'[w] = 0 /\ tn'[w].appl_started = FALSE
          /\ tn'[w].fini_done = FALSE
      BY <1>2, <2>1, <2>2, <2>7, Young, Zenon
    <3>3. has_used_threads' = TRUE
      <4>1. Has(stack[t], {"create"})
        BY <1>1, TopHas, Zenon
      <4> QED
        BY <2>7, <4>1, Zenon DEF IInv, TypeOK, Local, Started
    <3>4. Blocks(w)' /\ Signalled(w)'
      BY <2>1, <2>7, <3>1, Zenon DEF Blocks, Signalled, IInv, Local
    <3>5. Finishing(w)'
      BY <3>1, <3>2, SMTT(30) DEF Finishing
    <3>6. Started(w)'
      BY <3>1, <3>2, <3>3 DEF Started
    <3> QED
      BY <3>1, <3>4, <3>5, <3>6 DEF Local
  <2>12. \A u \in Threads \ {t, w} : Local(u)'
    <3>1. \A u \in Threads \ {t, w} : Frozen(u)
      BY <1>2, <2>6, <2>7, Zenon DEF Frozen, Listed
    <3> QED
      BY <2>9, <3>1, Bystander DEF IInv
  <2>13. Race' /\ Walked'
    <3>1. ExitAt(stack'[w]) = "no"
      BY <2>5, <2>6, OnTop, Zenon
    <3>2. \A u \in Threads : ExitAt(stack'[u]) = ExitAt(stack[u])
      BY <2>2, <2>4, <2>6, <3>1
    <3>3. Aside
      BY <1>2, <2>7, <3>2, Zenon DEF Aside
    <3> QED
      BY <3>3, ExitAside
  <2> QED
    BY <2>8, <2>10, <2>11, <2>12, <2>13, Zenon DEF IInv
<1> QED
  BY <1>4, <1>5 DEF Launch

LEMMA ThreadEndsStep ==
  ASSUME IInv, NEW t \in Threads, ThreadEnds(t)
  PROVE  IInv'
<1>1. /\ Len(stack[t]) = 1 /\ stack[t][1].at = "app" /\ t # Main
      /\ ExitAt(stack[t]) = "no"
  BY AtTop, Zenon DEF ThreadEnds
<1>2. /\ list' = list /\ sampled' = sampled /\ pending' = pending /\ tn' = tn
      /\ has_used_threads' = has_used_threads /\ in_exit_cleanup' = in_exit_cleanup
      /\ fini_thread_done' = fini_thread_done /\ fini_process_done' = fini_process_done
      /\ winner' = winner /\ walk' = walk /\ finis' = finis /\ late' = late
      /\ timedout' = timedout
  BY DEF ThreadEnds, flags, hist
<1>3. /\ stack' \in [Threads -> Seq(Frames)]
      /\ stack'[t] = <<Frame("thread", "gone"), Frame("cleanup", "test")>>
      /\ \A u \in Threads \ {t} : stack'[u] = stack[u]
  BY Stacks, Pair DEF ThreadEnds
<1>4. /\ Shape(stack'[t]) /\ stack'[t][1].at = "gone" /\ ~ Recording(stack'[t])
      /\ ~ Busy(stack'[t]) /\ ~ Has(stack'[t], {"handler"})
      /\ ~ Has(stack'[t], {"async"}) /\ ~ Has(stack'[t], {"create"})
      /\ ~ Says(stack'[t], {"mark"}) /\ ~ Says(stack'[t], {"done", "unlink"})
      /\ ExitAt(stack'[t]) = "no"
  BY <1>3, Pair, Zenon DEF Busy
<1>5. TypeOK'
  BY <1>2, <1>3, Zenon DEF IInv, TypeOK
<1>6. Local(t)'
  <2>1. Blocks(t)' /\ Signalled(t)'
    BY <1>2, <1>4, Zenon DEF Blocks, Signalled, IInv, Local
  <2>2. Finishing(t)'
    BY <1>1, <1>2, <1>4, Zenon DEF Finishing, IInv, Local
  <2>3. Listed(t) /\ has_used_threads # FALSE
    BY <1>1, Zenon DEF Started, IInv, Local
  <2>4. Started(t)'
    BY <1>1, <1>2, <1>4, <2>3, Zenon DEF Started, Listed
  <2> QED
    BY <1>4, <2>1, <2>2, <2>4, Zenon DEF Local
<1>7. Aside
  BY <1>1, <1>2, <1>3, <1>4, Zenon DEF Aside
<1>8. Onward /\ \A u \in Threads \ {t} : Frozen(u)
  BY <1>2, <1>3, Zenon DEF Onward, Frozen, Listed
<1> QED
  BY <1>5, <1>6, <1>7, <1>8, StepOf

(* The start routine goes on from before the application. *)
Starts(t, at) ==
  /\ Shape(stack'[t]) /\ stack'[t][1].at = at /\ ~ Recording(stack'[t])
  /\ ~ Busy(stack'[t]) /\ ~ Has(stack'[t], {"handler"})
  /\ ~ Has(stack'[t], {"async"}) /\ ~ Has(stack'[t], {"create"})
  /\ ~ Says(stack'[t], {"mark"}) /\ ~ Says(stack'[t], {"done", "unlink"})
  /\ ExitAt(stack'[t]) = ExitAt(stack[t])
  /\ stack[t][1].at = Top(stack[t]).at
  /\ t # Main /\ finis[t] = 0 /\ has_used_threads = TRUE
  /\ tn[t].appl_started = FALSE /\ tn[t].fini_done = FALSE

LEMMA StartRoutine ==
  ASSUME IInv, NEW t \in Threads, NEW at, WentTo(t, at),
         Top(stack[t]).fn = "thread", Top(stack[t]).at \in {"link", "init", "start"},
         at \in {"init", "start", "app", "gone"}
  PROVE  Starts(t, at)
<1>1. /\ Len(stack[t]) = 1 /\ stack[t][1].at = Top(stack[t]).at
      /\ \A F : Has(stack[t], F) <=> "thread" \in F
      /\ \A A : Says(stack[t], A) <=> stack[t][1].at \in A
      /\ ~ Recording(stack[t])
  BY Stacks, OnTop, Zenon
<1>2. /\ t # Main /\ finis[t] = 0
      /\ tn[t].appl_started = FALSE /\ tn[t].fini_done = FALSE
  BY <1>1, Young, Zenon
<1>3. has_used_threads = TRUE
  BY <1>1, <1>2, Zenon DEF IInv, TypeOK, Local, Started
<1> QED
  BY <1>1, <1>2, <1>3 DEF WentTo, Busy, Starts

LEMMA StartsFinishing ==
  ASSUME NEW t \in Threads, NEW at, Starts(t, at), finis' = finis,
         tn'[t].fini_done = FALSE
  PROVE  Finishing(t)'
<1>1. finis'[t] = 0 /\ ~ (finis'[t] > 0)
  BY SMTT(30) DEF Starts
<1> QED
  BY <1>1, Zenon DEF Starts, Finishing

Among(x, s) == \E i \in 1..Len(s) : s[i] = x

LEMMA Consed ==
  ASSUME NEW t \in Threads, NEW s \in Seq(Threads), NEW r, r = <<t>> \o s
  PROVE  /\ r \in Seq(Threads)
         /\ Among(t, r)
         /\ \A x : Among(x, s) => Among(x, r)
<1>1. <<t>> \in Seq(Threads) /\ Len(<<t>>) = 1 /\ <<t>>[1] = t /\ Len(s) \in Nat
  BY LenProperties, SMTT(30)
<1>2. /\ r \in Seq(Threads)
      /\ Len(r) = 1 + Len(s)
      /\ \A i \in 1..1 + Len(s) : r[i] = IF i <= 1 THEN <<t>>[i] ELSE s[i - 1]
  BY <1>1, ConcatProperties
<1>3. 1 \in 1..1 + Len(s) /\ r[1] = t
  BY <1>1, <1>2, SMTT(30)
<1>4. \A i \in 1..Len(s) : i + 1 \in 1..1 + Len(s) /\ r[i + 1] = s[i]
  BY <1>1, <1>2, SMTT(30)
<1>5. Among(t, r)
  BY <1>2, <1>3, Zenon DEF Among
<1>6. \A x : Among(x, s) => Among(x, r)
  BY <1>2, <1>4, Zenon DEF Among
<1> QED
  BY <1>2, <1>5, <1>6

LEMMA LinkThreadNodeStep ==
  ASSUME IInv, NEW t \in Threads, LinkThreadNode(t)
  PROVE  IInv'
<1>1. Top(stack[t]).fn = "thread" /\ Top(stack[t]).at = "link"
  BY Stacks DEF LinkThreadNode
<1>2. /\ sampled' = sampled /\ pending' = pending /\ tn' = tn
      /\ has_used_threads' = has_used_threads /\ in_exit_cleanup' = in_exit_cleanup
      /\ fini_thread_done' = fini_thread_done /\ fini_process_done' = fini_process_done
      /\ winner' = winner /\ walk' = walk /\ finis' = finis /\ late' = late
      /\ timedout' = timedout
  BY DEF LinkThreadNode, flags, hist
<1>3. PICK at \in {"init", "gone"} :
        /\ Goto(t, at)
        /\ \/ at = "gone" /\ list' = list
           \/ at = "init" /\ list' = <<t>> \o list /\ in_exit_cleanup = FALSE
  BY DEF LinkThreadNode, IInv, TypeOK
<1>4. WentTo(t, at)
  BY <1>1, <1>3, GotoStep DEF Frame, Frames, FrameOK
<1>5. /\ list' \in Seq(Threads)
      /\ at = "init" => Listed(t)'
      /\ \A u \in Threads : Listed(u) => Listed(u)'
  <2>1. list \in Seq(Threads)
    BY DEF IInv, TypeOK
  <2>2. CASE at = "gone" /\ list' = list
    BY <2>1, <2>2 DEF Listed
  <2>3. CASE list' = <<t>> \o list
    <3>1. /\ list' \in Seq(Threads)
          /\ Among(t, list')
          /\ \A x : Among(x, list) => Among(x, list')
      BY <2>1, <2>3, Consed, Zenon
    <3> QED
      BY <3>1, Zenon DEF Listed, Among
  <2> QED
    BY <1>3, <2>2, <2>3
<1>6. TypeOK'
  BY <1>2, <1>4, <1>5, Zenon DEF IInv, TypeOK, WentTo
<1>7. Local(t)'
  <2>1. Starts(t, at)
    BY <1>1, <1>4, StartRoutine
  <2>2. Blocks(t)' /\ Signalled(t)'
    BY <1>2, <2>1, Zenon DEF Starts, Blocks, Signalled, IInv, Local
  <2>3. Finishing(t)'
    BY <1>2, <2>1, StartsFinishing, Zenon DEF Starts
  <2>4. Started(t)'
    BY <1>2, <1>5, <2>1, Zenon DEF Starts, Started
  <2> QED
    BY <1>4, <2>2, <2>3, <2>4, Zenon DEF Local, WentTo
<1>8. ExitAt(stack'[t]) = ExitAt(stack[t])
  BY <1>1, <1>4, Zenon DEF WentTo
<1>9. Aside
  BY <1>2, <1>3, <1>4, <1>8, Zenon DEF Aside, WentTo, Others
<1>10. Onward /\ \A u \in Threads \ {t} : Frozen(u)
  BY <1>2, <1>4, <1>5, Zenon DEF Onward, Frozen, WentTo, Others
<1> QED
  BY <1>6, <1>7, <1>9, <1>10, StepOf

LEMMA InitThreadStep ==
  ASSUME IInv, NEW t \in Threads, InitThread(t)
  PROVE  IInv'
<1>1. Top(stack[t]).fn = "thread" /\ Top(stack[t]).at = "init"
  BY Stacks DEF InitThread
<1>2. /\ list' = list /\ pending' = pending /\ tn' = tn
      /\ has_used_threads' = has_used_threads /\ in_exit_cleanup' = in_exit_cleanup
      /\ fini_thread_done' = fini_thread_done /\ fini_process_done' = fini_process_done
      /\ winner' = winner /\ walk' = walk /\ finis' = finis /\ late' = late
      /\ timedout' = timedout /\ sampled' = sampled \cup {t}
  BY DEF InitThread, flags, hist
<1>3. WentTo(t, "start")
  BY <1>1, GotoStep, Zenon DEF InitThread, Frame, Frames, FrameOK
<1>4. TypeOK'
  BY <1>2, <1>3, Zenon DEF IInv, TypeOK, WentTo
<1>5. Local(t)'
  <2>1. Starts(t, "start")
    BY <1>1, <1>3, StartRoutine
  <2>2. Blocks(t)' /\ Signalled(t)'
    BY <1>2, <2>1, Zenon DEF Starts, Blocks, Signalled, IInv, Local
  <2>3. Listed(t)
    BY <1>1, <2>1 DEF Starts, IInv, Local, Started
  <2>4. Finishing(t)'
    BY <1>2, <2>1, StartsFinishing, Zenon DEF Starts
  <2>5. Started(t)'
    BY <1>2, <2>1, <2>3, Zenon DEF Starts, Started, Listed
  <2> QED
    BY <1>3, <2>2, <2>4, <2>5, Zenon DEF Local, WentTo
<1>6. ExitAt(stack'[t]) = ExitAt(stack[t])
  BY <1>1, <1>3, Zenon DEF WentTo
<1>7. Aside
  BY <1>2, <1>3, <1>6, Zenon DEF Aside, WentTo, Others
<1>8. Onward /\ \A u \in Threads \ {t} : Frozen(u)
  BY <1>2, <1>3, Zenon DEF Onward, Frozen, WentTo, Others, Listed
<1> QED
  BY <1>4, <1>5, <1>7, <1>8, StepOf

LEMMA ApplStartedStep ==
  ASSUME IInv, NEW t \in Threads, ApplStarted(t)
  PROVE  IInv'
<1>1. Top(stack[t]).fn = "thread" /\ Top(stack[t]).at = "start"
  BY Stacks DEF ApplStarted
<1>2. /\ list' = list /\ pending' = pending /\ sampled' = sampled
      /\ has_used_threads' = has_used_threads /\ in_exit_cleanup' = in_exit_cleanup
      /\ fini_thread_done' = fini_thread_done /\ fini_process_done' = fini_process_done
      /\ winner' = winner /\ walk' = walk /\ finis' = finis /\ late' = late
      /\ timedout' = timedout
  BY DEF ApplStarted, flags, hist
<1>3. WentTo(t, "app")
  BY <1>1, GotoStep, Zenon DEF ApplStarted, Frame, Frames, FrameOK
<1>4. /\ tn' \in [Threads -> Flags]
      /\ \A u \in Threads \ {t} : tn'[u] = tn[u]
      /\ tn'[t].appl_started = TRUE /\ tn'[t].fini_done = tn[t].fini_done
  BY SetStep, Zenon DEF ApplStarted
<1>5. TypeOK'
  BY <1>2, <1>3, <1>4, Zenon DEF IInv, TypeOK, WentTo
<1>6. Local(t)'
  <2>1. Starts(t, "app")
    BY <1>1, <1>3, StartRoutine
  <2>2. Blocks(t)' /\ Signalled(t)'
    BY <1>2, <2>1, Zenon DEF Starts, Blocks, Signalled, IInv, Local
  <2>3. Listed(t)
    BY <1>1, <2>1 DEF Starts, IInv, Local, Started
  <2>4. Finishing(t)'
    BY <1>2, <1>4, <2>1, StartsFinishing, Zenon DEF Starts
  <2>5. Started(t)'
    BY <1>2, <1>4, <2>1, <2>3, Zenon DEF Starts, Started, Listed
  <2> QED
    BY <1>3, <2>2, <2>4, <2>5, Zenon DEF Local, WentTo
<1>7. ExitAt(stack'[t]) = ExitAt(stack[t])
  BY <1>1, <1>3 DEF WentTo
<1>8. Aside
  BY <1>2, <1>3, <1>4, <1>7, Zenon DEF Aside, WentTo, Others
<1>9. Onward /\ \A u \in Threads \ {t} : Frozen(u)
  BY <1>2, <1>3, <1>4, Zenon DEF Onward, Frozen, WentTo, Others, Listed
<1> QED
  BY <1>5, <1>6, <1>8, <1>9, StepOf

-----------------------------------------------------------------------------
(* The fini-thread callback and the end of a thread's node. *)

(* The winner goes on after its walk. *)
LEMMA ExitOn ==
  ASSUME IInv, NEW t \in Threads,
         ExitAt(stack[t]) \in {"finis", "mark", "done"},
         ExitAt(stack'[t]) \in {"mark", "done", "process"},
         \A u \in Threads \ {t} : ExitAt(stack'[u]) = ExitAt(stack[u]),
         UNCHANGED <<winner, in_exit_cleanup, fini_process_done, has_used_threads, walk,
                     late, timedout, list>>,
         \A u \in Threads : tn[u].fini_done = TRUE => tn'[u].fini_done = TRUE
  PROVE  Race' /\ Walked'
<1>1. /\ winner' = winner /\ in_exit_cleanup' = in_exit_cleanup
      /\ fini_process_done' = fini_process_done /\ has_used_threads' = has_used_threads
      /\ walk' = walk /\ late' = late /\ timedout' = timedout /\ list' = list
  OBVIOUS
<1>2. /\ winner = t /\ winner # noThread
      /\ fini_process_done = FALSE /\ in_exit_cleanup = TRUE
  BY MonitorAssumption DEF IInv, Race, Winning
<1>3. Race'
  <2> SUFFICES ASSUME NEW u \in Threads
               PROVE
                 /\ ExitAt(stack'[u]) \in Winning => winner' = u /\ fini_process_done' = FALSE
                 /\ ExitAt(stack'[u]) = "over" => fini_process_done' = TRUE
                 /\ winner' = u => ExitAt(stack'[u]) \in Winning \/ fini_process_done' = TRUE
                 /\ ExitAt(stack'[u]) \in {"walk", "finis", "mark", "done"} =>
                      in_exit_cleanup' = TRUE
                 /\ ExitAt(stack'[u]) = "process" =>
                      in_exit_cleanup' = TRUE \/ has_used_threads' = FALSE
    BY <1>1, <1>2, Zenon DEF IInv, Race
  <2>1. CASE u = t
    BY <1>1, <1>2, <2>1 DEF Winning
  <2>2. CASE u # t
    BY <1>1, <2>2, Zenon DEF IInv, Race
  <2> QED
    BY <2>1, <2>2, Zenon
<1>4. \A u \in Threads : \A i \in 1..Len(list) : Seen(u, i) => Seen(u, i)'
  <2> SUFFICES ASSUME NEW u \in Threads, NEW i \in 1..Len(list), Seen(u, i)
               PROVE  Seen(u, i)'
    OBVIOUS
  <2>1. list[i] \in Threads
    BY ElementOfSeq DEF IInv, TypeOK
  <2> QED
    BY <1>1, <2>1, Zenon DEF Seen
<1>5. Walked'
  <2>1. \A u \in Threads \ {t} : ExitAt(stack'[u]) \notin Winning
    BY <1>2 DEF IInv, Race
  <2>2. timedout = TRUE \/ in_exit_cleanup = FALSE \/ \A i \in 1..Len(list) : Seen(t, i)
    BY DEF IInv, Walked
  <2>3. timedout' = TRUE \/ in_exit_cleanup' = FALSE \/ \A i \in 1..Len(list') : Seen(t, i)'
    BY <1>1, <1>4, <2>2
  <2>4. ExitAt(stack'[t]) # "walk"
    OBVIOUS
  <2> QED
    BY <2>1, <2>3, <2>4, Zenon DEF Walked, Winning
<1> QED
  BY <1>3, <1>5

LEMMA FiniThreadStep ==
  ASSUME IInv, NEW t \in Threads, FiniThread(t)
  PROVE  IInv'
<1> DEFINE S == stack[t]
<1> DEFINE P == Put(S, "done")
<1> DEFINE f == Frame("fini", "run")
<1> DEFINE R == Append(P, f)
<1>1. /\ S \in Seq(Frames) /\ Shape(S) /\ Top(S).at = "mark"
      /\ Top(S).fn \in {"cleanup", "handler", "exit"} /\ Len(S) > 1
  <2>1. S \in Seq(Frames) /\ Shape(S) /\ Top(S).at = "mark"
    BY Stacks DEF FiniThread
  <2>2. Top(S).fn \in {"cleanup", "handler", "exit"}
    BY <2>1, OnTop, Zenon DEF FrameOK
  <2> QED
    BY <2>1, <2>2, OnTop
<1>2. Frame(Top(S).fn, "done") \in Frames /\ FrameOK(Frame(Top(S).fn, "done"))
  BY <1>1 DEF Frame, Frames, FrameOK
<1>3. f \in Frames /\ FrameOK(f) /\ f.fn = "fini" /\ f.at = "run"
  BY DEF Frame, Frames, FrameOK
<1>4. P \in Seq(Frames) /\ Shape(P) /\ Len(P) > 1 /\ ~ Busy(P)
  <2>1. P \in Seq(Frames)
    BY <1>1, <1>2, Changed, Zenon DEF Shape
  <2>2. Shape(P)
    BY <1>1, <1>2, ShapePut
  <2>3. Len(P) = Len(S) /\ ~ Busy(P)
    BY <1>1, <1>2, OfPut, Zenon
  <2> QED
    BY <1>1, <2>1, <2>2, <2>3, Zenon
<1>5. /\ P[1] = S[1]
      /\ \A F : Has(P, F) <=> Has(S, F)
      /\ \A A : Says(P, A) => Says(S, A) \/ "done" \in A
      /\ Top(S).fn # "exit" => ExitAt(P) = ExitAt(S)
      /\ Top(S).fn = "exit" => ExitAt(P) = "done"
  BY <1>1, <1>2, OfPut, Zenon
<1> HIDE DEF P, f
<1>6. R \in Seq(Frames) /\ Shape(R)
  BY <1>3, <1>4, Pushed, ShapePush DEF Sample
<1>7. /\ R[1] = P[1]
      /\ \A F : Has(R, F) <=> Has(P, F) \/ "fini" \in F
      /\ \A A : Says(R, A) <=> Says(P, A) \/ "run" \in A
      /\ ~ Recording(P) => ~ Recording(R)
      /\ ExitAt(R) = ExitAt(P)
  BY <1>3, <1>4, OfCallback, Zenon
<1>8. ~ Busy(R) /\ ~ Recording(R)
  <2>1. Recording(P) => Busy(P)
    BY DEF Recording, Busy, Says
  <2> QED
    BY <1>4, <1>7, <2>1 DEF Busy
<1>9. /\ list' = list /\ pending' = pending /\ sampled' = sampled \ {t}
      /\ has_used_threads' = has_used_threads /\ in_exit_cleanup' = in_exit_cleanup
      /\ fini_thread_done' = fini_thread_done /\ fini_process_done' = fini_process_done
      /\ winner' = winner /\ walk' = walk /\ late' = late /\ timedout' = timedout
      /\ finis' = [finis EXCEPT ![t] = @ + 1]
  BY DEF FiniThread, flags
<1>10. /\ finis' \in [Threads -> Nat] /\ finis'[t] > 0
       /\ \A u \in Threads \ {t} : finis'[u] = finis[u]
  BY <1>9, SMTT(30) DEF IInv, TypeOK
<1>11. /\ stack' \in [Threads -> Seq(Frames)] /\ stack'[t] = R
       /\ \A u \in Threads \ {t} : stack'[u] = stack[u]
  BY <1>6, Stacks, Zenon DEF FiniThread, P, f, Put
<1>12. /\ tn' \in [Threads -> Flags]
       /\ \A u \in Threads \ {t} : tn'[u] = tn[u]
       /\ tn'[t].appl_started = tn[t].appl_started
       /\ tn'[t].fini_done = tn[t].fini_done
  BY SetStep, Zenon DEF FiniThread
<1>13. TypeOK'
  BY <1>9, <1>10, <1>11, <1>12, Zenon DEF IInv, TypeOK
<1>14. Local(t)'
  <2>1. Blocks(t)' /\ Signalled(t)'
    <3>1. Has(R, {"handler"}) <=> Has(S, {"handler"})
      BY <1>5, <1>7
    <3> QED
      BY <1>8, <1>9, <1>11, <3>1, Zenon DEF Blocks, Signalled, IInv, Local
  <2>2. S[1].at \in {"app", "gone"}
    BY <1>1, TopSays, Zenon DEF IInv, Local, Finishing
  <2>3. Has(R, {"async"}) => in_exit_cleanup' = TRUE
    <3>1. Has(R, {"async"}) => Has(S, {"async"})
      BY <1>5, <1>7, Zenon
    <3>2. CASE Top(S).fn = "handler"
      BY <1>1, <1>9, <3>2, TopHas, Zenon DEF IInv, Local, Signalled
    <3>3. CASE Top(S).fn # "handler"
      BY <1>1, <3>1, <3>3, OnTop, Zenon
    <3> QED
      BY <3>2, <3>3, Zenon
  <2>4. Finishing(t)'
    BY <1>5, <1>7, <1>8, <1>9, <1>10, <1>11, <2>2, <2>3, Zenon DEF Finishing
  <2>5. Started(t)'
    <3>1. Has(R, {"create"}) <=> Has(S, {"create"})
      BY <1>5, <1>7, Zenon
    <3>2. stack'[t][1] = stack[t][1]
      BY <1>5, <1>7, <1>11
    <3>3. Listed(t) => Listed(t)'
      BY <1>9, Zenon DEF Listed
    <3> QED
      BY <1>9, <1>11, <1>12, <3>1, <3>2, <3>3, Zenon DEF Started, IInv, Local
  <2> QED
    BY <1>6, <1>11, <2>1, <2>4, <2>5 DEF Local
<1>15. Onward /\ \A u \in Threads \ {t} : Frozen(u)
  BY <1>9, <1>10, <1>11, <1>12, Zenon DEF Onward, Frozen, Listed
<1>16. \A u \in Threads \ {t} : Local(u)'
  BY <1>15, Bystander DEF IInv
<1>17. Race' /\ Walked'
  <2>1. CASE Top(S).fn = "exit"
    <3>1. ExitAt(S) = "mark" /\ ExitAt(R) = "done"
      BY <1>1, <1>5, <1>7, <2>1, OnTop, Zenon
    <3> QED
      BY <1>9, <1>11, <1>12, <3>1, ExitOn, Zenon
  <2>2. CASE Top(S).fn # "exit"
    <3>1. Aside
      BY <1>5, <1>7, <1>9, <1>11, <1>12, <2>2, Zenon DEF Aside
    <3> QED
      BY <3>1, ExitAside
  <2> QED
    BY <2>1, <2>2
<1> QED
  BY <1>13, <1>14, <1>16, <1>17, Zenon DEF IInv

(* A step of the exit of the process, whose effect on the race is known. *)
LEMMA ExitStep ==
  ASSUME IInv, NEW t \in Threads, TypeOK', Local(t)', Race', Walked', Onward,
         \A u \in Threads \ {t} : Frozen(u)
  PROVE  IInv'
<1>1. \A u \in Threads \ {t} : Local(u)'
  BY Bystander DEF IInv
<1> QED
  BY <1>1 DEF IInv

LEMMA FiniDoneStep ==
  ASSUME IInv, NEW t \in Threads, FiniDone(t)
  PROVE  IInv'
<1>1. /\ Top(stack[t]).at = "done" /\ Len(stack[t]) > 1
      /\ Top(stack[t]).fn \in {"cleanup", "handler", "exit"}
  BY Stacks, OnTop, Zenon DEF FiniDone, FrameOK
<1>2. finis[t] > 0
  <2>1. Says(stack[t], {"done", "unlink"})
    BY <1>1, TopSays, Zenon
  <2> QED
    BY <2>1 DEF IInv, Local, Finishing
<1>3. Keeps(t) /\ tn'[t].block = tn[t].block
  BY <1>2, SetStep, Zenon DEF FiniDone, Keeps
<1>4. Idle
  BY DEF FiniDone, Idle
<1>5. CASE At(t, "cleanup", "done") /\ Goto(t, "unlink")
  <2>1. Top(stack[t]).fn = "cleanup"
    BY <1>5, Stacks
  <2>2. WentTo(t, "unlink")
    BY <1>1, <1>5, <2>1, GotoStep, Zenon DEF Frame, Frames, FrameOK
  <2>3. Fits(t)
    BY <1>1, <1>2, <2>2, GotoFits
  <2>4. ~ Busy(stack'[t]) /\ ExitAt(stack'[t]) = ExitAt(stack[t])
    BY <1>1, <2>1, <2>2, Zenon DEF WentTo
  <2> QED
    BY <1>3, <1>4, <2>3, <2>4, IdleStep, Zenon
<1>6. CASE At(t, "handler", "done") /\ Return(t)
  <2>1. Top(stack[t]).fn = "handler"
    BY <1>6, Stacks
  <2>2. Returned(t)
    BY <1>6, <2>1, ReturnStep
  <2>3. Fits(t)
    BY <2>2, ReturnFits
  <2>4. ~ Busy(stack'[t]) /\ ExitAt(stack'[t]) = ExitAt(stack[t])
    BY <1>1, <2>1, <2>2, Zenon DEF Returned
  <2> QED
    BY <1>3, <1>4, <2>3, <2>4, IdleStep, Zenon
<1>7. CASE At(t, "exit", "done") /\ Goto(t, "process")
  <2>1. Top(stack[t]).fn = "exit" /\ ExitAt(stack[t]) = "done"
    BY <1>1, <1>7, AtTop, Zenon
  <2>2. WentTo(t, "process")
    BY <1>1, <1>7, <2>1, GotoStep, Zenon DEF Frame, Frames, FrameOK
  <2>3. Fits(t)
    BY <1>1, <2>2, GotoFits
  <2>4. ~ Busy(stack'[t]) /\ ExitAt(stack'[t]) = "process"
    BY <1>1, <2>1, <2>2, Zenon DEF WentTo
  <2>5. /\ list' = list /\ sampled' = sampled /\ pending' = pending
        /\ has_used_threads' = has_used_threads /\ in_exit_cleanup' = in_exit_cleanup
        /\ fini_thread_done' = fini_thread_done /\ fini_process_done' = fini_process_done
        /\ winner' = winner /\ walk' = walk /\ finis' = finis /\ late' = late
        /\ timedout' = timedout
    BY DEF FiniDone, flags, hist
  <2>6. TypeOK'
    BY <1>3, <2>3, <2>5, Zenon DEF IInv, TypeOK, Fits, Keeps
  <2>7. Onward /\ \A u \in Threads \ {t} : Frozen(u)
    BY <1>3, <2>3, <2>5, Zenon DEF Onward, Frozen, Fits, Others, Keeps, Listed
  <2>8. Local(t)'
    BY <1>3, <2>3, <2>4, <2>5, <2>7, LocalFits, Zenon DEF Fits, Listed
  <2>9. Race' /\ Walked'
    <3>1. \A u \in Threads : tn[u].fini_done = TRUE => tn'[u].fini_done = TRUE
      BY <1>3, Zenon DEF Keeps
    <3>2. \A u \in Threads \ {t} : ExitAt(stack'[u]) = ExitAt(stack[u])
      BY <2>3 DEF Fits, Others
    <3> QED
      BY <2>1, <2>4, <2>5, <3>1, <3>2, ExitOn, Zenon
  <2> QED
    BY <2>6, <2>7, <2>8, <2>9, ExitStep
<1> QED
  BY <1>5, <1>6, <1>7 DEF FiniDone

(* Only the node itself leaves the list. *)
LEMMA Removed ==
  ASSUME list \in Seq(Threads), NEW t \in Threads, ListRemove(t)
  PROVE  /\ list' \in Seq(Threads)
         /\ \A u \in Threads \ {t} : Listed(u) => Listed(u)'
<1>1. PICK k \in 1..Len(list) :
        /\ list[k] = t
        /\ list' = SubSeq(list, 1, k - 1) \o SubSeq(list, k + 1, Len(list))
  BY Zenon DEF ListRemove
<1> DEFINE n == Len(list)
<1> DEFINE A == SubSeq(list, 1, k - 1)
<1> DEFINE B == SubSeq(list, k + 1, n)
<1>2. n \in Nat /\ k \in Nat /\ 1 <= k /\ k <= n
  BY <1>1, LenProperties, SMTT(30)
<1>3. \A i \in 1..n : list[i] \in Threads
  BY ElementOfSeq
<1>4. /\ A \in Seq(Threads) /\ Len(A) = k - 1
      /\ \A i \in 1..k - 1 : A[i] = list[i]
  <2>1. \A i \in 1..k - 1 : list[i] \in Threads
    BY <1>2, <1>3, SMTT(30)
  <2>2. /\ A \in Seq(Threads)
        /\ Len(A) = IF 1 <= k - 1 THEN k - 1 - 1 + 1 ELSE 0
        /\ \A i \in 1..k - 1 - 1 + 1 : A[i] = list[1 + i - 1]
    BY <1>2, <2>1, SubSeqProperties, SMTT(30)
  <2> HIDE DEF A
  <2> QED
    BY <1>2, <2>2, SMTT(30)
<1>5. /\ B \in Seq(Threads) /\ Len(B) = n - k
      /\ \A i \in 1..n - k : B[i] = list[k + i]
  <2>1. \A i \in k + 1..n : list[i] \in Threads
    BY <1>2, <1>3, SMTT(30)
  <2>2. /\ B \in Seq(Threads)
        /\ Len(B) = IF k + 1 <= n THEN n - (k + 1) + 1 ELSE 0
        /\ \A i \in 1..n - (k + 1) + 1 : B[i] = list[k + 1 + i - 1]
    BY <1>2, <2>1, SubSeqProperties, SMTT(30)
  <2> HIDE DEF B, n
  <2> QED
    BY <1>2, <2>2, SMTT(30)
<1> HIDE DEF A, B, n
<1>6. /\ list' = A \o B /\ list' \in Seq(Threads) /\ Len(list') = n - 1
      /\ \A i \in 1..k - 1 : list'[i] = list[i]
      /\ \A i \in k + 1..n : list'[i - 1] = list[i]
  <2>1. list' = A \o B
    BY <1>1 DEF A, B, n
  <2>2. /\ A \o B \in Seq(Threads) /\ Len(A \o B) = Len(A) + Len(B)
        /\ \A i \in 1..Len(A) + Len(B) :
             (A \o B)[i] = IF i <= Len(A) THEN A[i] ELSE B[i - Len(A)]
    BY <1>4, <1>5, ConcatProperties, Zenon
  <2>3. list' \in Seq(Threads) /\ Len(list') = n - 1
    BY <1>2, <1>4, <1>5, <2>1, <2>2, SMTT(30)
  <2>4. \A i \in 1..k - 1 : list'[i] = list[i]
    BY <1>2, <1>4, <1>5, <2>1, <2>2, SMTT(30)
  <2>5. ASSUME NEW i \in k + 1..n
        PROVE  list'[i - 1] = list[i]
    <3>1. i - 1 \in 1..Len(A) + Len(B) /\ ~ (i - 1 <= Len(A)) /\ i - 1 - Len(A) = i - k
      BY <1>2, <1>4, <1>5, SMTT(30)
    <3>2. i - k \in 1..n - k /\ k + (i - k) = i
      BY <1>2, SMTT(30)
    <3> QED
      BY <1>5, <2>1, <2>2, <3>1, <3>2
  <2> QED
    BY <2>1, <2>3, <2>4, <2>5, Zenon
<1>7. ASSUME NEW u \in Threads \ {t}, Listed(u)
      PROVE  Listed(u)'
  <2>1. PICK i \in 1..n : list[i] = u
    BY <1>7 DEF Listed, n
  <2>2. i # k
    BY <1>1, <2>1
  <2>3. i \in 1..k - 1 \/ i \in k + 1..n
    BY <1>2, <2>2, SMTT(30)
  <2>4. i \in 1..k - 1 => i \in 1..Len(list') /\ list'[i] = u
    BY <1>2, <1>6, <2>1, SMTT(30)
  <2>5. i \in k + 1..n => i - 1 \in 1..Len(list') /\ list'[i - 1] = u
    BY <1>2, <1>6, <2>1, SMTT(30)
  <2> QED
    BY <2>3, <2>4, <2>5 DEF Listed
<1> QED
  BY <1>6, <1>7

LEMMA UnlinkThreadNodeStep ==
  ASSUME IInv, NEW t \in Threads, UnlinkThreadNode(t)
  PROVE  IInv'
<1>1. /\ Top(stack[t]).fn = "cleanup" /\ Top(stack[t]).at = "unlink"
      /\ stack[t][1].at = "gone" /\ finis[t] > 0
  <2>1. Top(stack[t]).fn = "cleanup" /\ Top(stack[t]).at = "unlink"
    BY Stacks DEF UnlinkThreadNode
  <2>2. Has(stack[t], {"cleanup"}) /\ Says(stack[t], {"done", "unlink"})
    BY <2>1, TopHas, TopSays, Zenon
  <2> QED
    BY <2>1, <2>2, Zenon DEF IInv, Local, Shape, Finishing
<1>2. Returned(t)
  BY <1>1, ReturnStep DEF UnlinkThreadNode
<1>3. ~ Busy(stack'[t]) /\ ExitAt(stack'[t]) = ExitAt(stack[t]) /\ Fits(t)
  <2>1. Fits(t)
    BY <1>2, ReturnFits
  <2> QED
    BY <1>1, <1>2, <2>1, Zenon DEF Returned
<1>4. tn \in [Threads -> Flags] /\ tn[t] \in Flags
  BY DEF IInv, TypeOK
<1>5. CASE in_exit_cleanup = TRUE
  <2>1. tn' = [tn EXCEPT ![t].fini_started = TRUE, ![t].fini_done = TRUE] /\ list' = list
    BY <1>5, Zenon DEF UnlinkThreadNode
  <2>2. Idle
    BY <2>1 DEF Idle, UnlinkThreadNode
  <2>3. Keeps(t)
    <3>1. /\ [tn[t] EXCEPT !.fini_started = TRUE, !.fini_done = TRUE] \in Flags
          /\ [tn[t] EXCEPT !.fini_started = TRUE, !.fini_done = TRUE].appl_started
               = tn[t].appl_started
          /\ [tn[t] EXCEPT !.fini_started = TRUE, !.fini_done = TRUE].fini_done = TRUE
      BY <1>4, Zenon DEF Flags
    <3>2. tn' = [tn EXCEPT ![t] = [tn[t] EXCEPT !.fini_started = TRUE, !.fini_done = TRUE]]
      BY <1>4, <2>1, Zenon
    <3>3. /\ tn' \in [Threads -> Flags]
          /\ \A u \in Threads \ {t} : tn'[u] = tn[u]
          /\ tn'[t] = [tn[t] EXCEPT !.fini_started = TRUE, !.fini_done = TRUE]
      BY <1>4, <3>1, <3>2
    <3> QED
      BY <1>1, <3>1, <3>3, Zenon DEF Keeps
  <2> QED
    BY <1>3, <2>2, <2>3, IdleStep, Zenon
<1>6. CASE in_exit_cleanup = FALSE
  <2>1. tn' = [tn EXCEPT ![t] = Clear] /\ ListRemove(t)
    BY <1>6 DEF UnlinkThreadNode
  <2>2. /\ sampled' = sampled /\ pending' = pending
        /\ has_used_threads' = has_used_threads /\ in_exit_cleanup' = in_exit_cleanup
        /\ fini_thread_done' = fini_thread_done /\ fini_process_done' = fini_process_done
        /\ winner' = winner /\ walk' = walk /\ finis' = finis /\ late' = late
        /\ timedout' = timedout
    BY DEF UnlinkThreadNode, flags, hist
  <2>3. list' \in Seq(Threads) /\ \A u \in Threads \ {t} : Listed(u) => Listed(u)'
    BY <2>1, Removed DEF IInv, TypeOK
  <2>4. /\ tn' \in [Threads -> Flags] /\ \A u \in Threads \ {t} : tn'[u] = tn[u]
        /\ tn'[t].appl_started = FALSE /\ tn'[t].fini_done = FALSE
    <3>1. Clear \in Flags /\ Clear.appl_started = FALSE /\ Clear.fini_done = FALSE
      BY DEF Clear, Flags
    <3> QED
      BY <1>4, <2>1, <3>1
  <2>5. TypeOK'
    BY <1>3, <2>2, <2>3, <2>4, Zenon DEF IInv, TypeOK, Fits
  <2>6. Onward /\ Aside
    BY <1>3, <1>6, <2>2, <2>4, Zenon DEF Onward, Aside, Fits, Others
  <2>7. \A u \in Threads \ {t} : Frozen(u)
    BY <1>3, <2>2, <2>3, <2>4, Zenon DEF Frozen, Fits, Others
  <2>8. Local(t)'
    <3> USE DEF IInv, Local
    <3>1. Blocks(t)' /\ Signalled(t)'
      BY <1>2, <1>3, <2>2, Zenon DEF Blocks, Signalled, Returned
    <3>2. Finishing(t)'
      BY <1>2, <2>2, <2>4, Zenon DEF Finishing, Returned
    <3>3. Started(t)'
      <4>1. t # Main /\ has_used_threads # FALSE
        BY <1>1, Zenon DEF Started
      <4>2. stack'[t][1].at = "gone"
        BY <1>1, <1>2, Zenon DEF Returned
      <4> QED
        BY <2>2, <2>4, <4>1, <4>2, Zenon DEF Started
    <3> QED
      BY <1>2, <3>1, <3>2, <3>3, Zenon DEF Returned
  <2> QED
    BY <2>5, <2>6, <2>7, <2>8, StepOf
<1> QED
  BY <1>5, <1>6, Zenon DEF IInv, TypeOK

-----------------------------------------------------------------------------
(* The exit of the process. *)

(* A thread that is not the winner moves about the race. *)
LEMMA OutOfRace ==
  ASSUME IInv, NEW t \in Threads,
         ExitAt(stack[t]) \notin Winning, ExitAt(stack'[t]) \notin Winning,
         ExitAt(stack'[t]) = "over" => fini_process_done = TRUE,
         \A u \in Threads \ {t} : ExitAt(stack'[u]) = ExitAt(stack[u]),
         UNCHANGED <<winner, in_exit_cleanup, fini_process_done, has_used_threads, walk,
                     late, timedout, list, tn>>
  PROVE  Race' /\ Walked'
<1>1. /\ winner' = winner /\ in_exit_cleanup' = in_exit_cleanup
      /\ fini_process_done' = fini_process_done /\ has_used_threads' = has_used_threads
      /\ walk' = walk /\ late' = late /\ timedout' = timedout /\ list' = list /\ tn' = tn
  OBVIOUS
<1>2. Race'
  <2> SUFFICES ASSUME NEW u \in Threads
               PROVE
                 /\ ExitAt(stack'[u]) \in Winning => winner' = u /\ fini_process_done' = FALSE
                 /\ ExitAt(stack'[u]) = "over" => fini_process_done' = TRUE
                 /\ winner' = u => ExitAt(stack'[u]) \in Winning \/ fini_process_done' = TRUE
                 /\ ExitAt(stack'[u]) \in {"walk", "finis", "mark", "done"} =>
                      in_exit_cleanup' = TRUE
                 /\ ExitAt(stack'[u]) = "process" =>
                      in_exit_cleanup' = TRUE \/ has_used_threads' = FALSE
    BY <1>1, Zenon DEF IInv, Race
  <2>1. CASE u = t
    <3>1. winner = t => fini_process_done = TRUE
      BY DEF IInv, Race
    <3> QED
      BY <1>1, <2>1, <3>1 DEF Winning
  <2>2. CASE u # t
    BY <1>1, <2>2, Zenon DEF IInv, Race
  <2> QED
    BY <2>1, <2>2, Zenon
<1>3. Walked'
  <2> SUFFICES ASSUME NEW u \in Threads, ExitAt(stack'[u]) \in Winning
               PROVE
                 /\ ExitAt(stack'[u]) = "walk" =>
                      /\ \E k \in 0..Len(list') : walk'.rest = SubSeq(list', k + 1, Len(list'))
                      /\ walk'.unfinished = 0 =>
                           \A i \in 1..Len(list') :
                             i + Len(walk'.rest) <= Len(list') => Seen(u, i)'
                 /\ ExitAt(stack'[u]) \in {"finis", "mark", "done", "process"} =>
                      \/ timedout' = TRUE \/ in_exit_cleanup' = FALSE
                      \/ \A i \in 1..Len(list') : Seen(u, i)'
    BY Zenon DEF Walked, Winning
  <2>1. ExitAt(stack'[u]) = ExitAt(stack[u])
    OBVIOUS
  <2>2. \A i : Seen(u, i)' <=> Seen(u, i)
    BY <1>1, Zenon DEF Seen
  <2> QED
    BY <1>1, <2>1, <2>2, Zenon DEF IInv, Walked
<1> QED
  BY <1>2, <1>3

(* A step of the exit that leaves the list and the nodes alone. *)
LEMMA ExitGoto ==
  ASSUME IInv, NEW t \in Threads, Fits(t), ~ Busy(stack'[t]) \/ stack' = stack,
         UNCHANGED <<tn, list, sampled, pending, finis, has_used_threads,
                     in_exit_cleanup, late>>,
         fini_thread_done' \in BOOLEAN, fini_process_done' \in BOOLEAN,
         winner' \in Threads \cup {noThread}, walk' \in Walks, timedout' \in BOOLEAN,
         Race', Walked'
  PROVE  IInv'
<1>1. /\ tn' = tn /\ list' = list /\ sampled' = sampled /\ pending' = pending
      /\ finis' = finis /\ has_used_threads' = has_used_threads
      /\ in_exit_cleanup' = in_exit_cleanup /\ late' = late
  OBVIOUS
<1>2. TypeOK'
  BY <1>1, Zenon DEF IInv, TypeOK, Fits
<1>3. Onward /\ \A u \in Threads \ {t} : Frozen(u)
  BY <1>1, Zenon DEF Onward, Frozen, Fits, Others, Listed
<1>4. Keeps(t) /\ tn'[t].block = tn[t].block
  BY <1>1, SameKeeps
<1>5. Busy(stack'[t]) => tn'[t].block = TRUE
  BY <1>4, BusyBlocks, Zenon
<1>6. Local(t)'
  <2>1. Listed(t) => Listed(t)'
    BY <1>1 DEF Listed
  <2>2. FitsItself(t)
    BY DEF Fits
  <2> QED
    BY <1>1, <1>3, <1>4, <1>5, <2>1, <2>2, LocalFits, Zenon
<1> QED
  BY <1>2, <1>3, <1>6, ExitStep

(* The frame of the exit goes on. *)
LEMMA ExitMoves ==
  ASSUME IInv, NEW t \in Threads, NEW from, NEW to, At(t, "exit", from), Goto(t, to),
         to \in {"race", "flag", "walk", "finis", "mark", "process", "over", "wait"}
  PROVE  /\ ExitAt(stack[t]) = from /\ ExitAt(stack'[t]) = to
         /\ Fits(t) /\ ~ Busy(stack'[t]) /\ from # "no" /\ from # "test"
         /\ stack[t][1].at = "app"
         /\ \A u \in Threads \ {t} : ExitAt(stack'[u]) = ExitAt(stack[u])
<1>1. /\ Top(stack[t]).fn = "exit" /\ Top(stack[t]).at = from
      /\ FrameOK(Top(stack[t])) /\ ExitAt(stack[t]) = from /\ Len(stack[t]) > 1
  BY AtTop, Zenon
<1>2. from # "no" /\ from # "test"
  BY <1>1 DEF FrameOK
<1>3. stack[t][1].at = "app"
  BY <1>1, <1>2, Stacks, ExitInApp
<1>4. WentTo(t, to)
  BY <1>1, <1>2, GotoStep, Zenon DEF Frame, Frames, FrameOK
<1>5. Fits(t)
  BY <1>1, <1>3, <1>4, GotoFits, Zenon
<1>6. ~ Busy(stack'[t]) /\ ExitAt(stack'[t]) = to
  BY <1>1, <1>2, <1>4, Zenon DEF WentTo
<1>7. \A u \in Threads \ {t} : ExitAt(stack'[u]) = ExitAt(stack[u])
  BY <1>4, Zenon DEF WentTo, Others
<1> QED
  BY <1>1, <1>2, <1>3, <1>5, <1>6, <1>7

LEMMA ExitProcedureStep ==
  ASSUME IInv, NEW t \in Threads, Exit(t)
  PROVE  IInv'
<1>1. /\ tn' = tn /\ list' = list /\ sampled' = sampled /\ pending' = pending
      /\ has_used_threads' = has_used_threads /\ in_exit_cleanup' = in_exit_cleanup
      /\ fini_thread_done' = fini_thread_done /\ fini_process_done' = fini_process_done
      /\ winner' = winner /\ walk' = walk /\ finis' = finis /\ late' = late
      /\ timedout' = timedout
  BY DEF Exit, flags, hist
<1>2. /\ Fits(t) /\ ~ Busy(stack'[t])
      /\ ExitAt(stack[t]) \in {"no", "over"} /\ ExitAt(stack'[t]) = "race"
      /\ \A u \in Threads \ {t} : ExitAt(stack'[u]) = ExitAt(stack[u])
  <2>1. CASE At(t, "thread", "app") /\ Call(t, "exit", "race")
    <3>1. /\ Top(stack[t]).fn = "thread" /\ Top(stack[t]).at = "app"
          /\ Len(stack[t]) = 1 /\ stack[t][1] = Top(stack[t]) /\ ExitAt(stack[t]) = "no"
      BY <2>1, AtTop, Zenon
    <3>2. ~ Busy(stack[t])
      BY <2>1, AtTop, Zenon
    <3>3. Called(t, "exit", "race")
      <4>1. ~ (Len(stack[t]) > 1)
        BY <3>1, SMTT(30)
      <4>2. /\ Frame("exit", "race") \in Frames /\ FrameOK(Frame("exit", "race"))
            /\ "exit" \notin Sample /\ "exit" \notin {"thread", "cleanup"}
        BY DEF Frame, Frames, FrameOK, Sample
      <4> QED
        BY <2>1, <3>1, <3>2, <4>1, <4>2, CallStep, Zenon
    <3>4. Fits(t)
      BY <3>3, CallFits, Zenon
    <3>5. ~ Busy(stack'[t]) /\ ExitAt(stack'[t]) = "race"
      BY <3>1, <3>2, <3>3, Zenon DEF Called, Busy
    <3> QED
      BY <3>1, <3>3, <3>4, <3>5, Zenon DEF Called, Others
  <2>2. CASE At(t, "exit", "over") /\ Goto(t, "race")
    BY <2>2, ExitMoves, Zenon
  <2> QED
    BY <2>1, <2>2, Zenon DEF Exit
<1>3. Race' /\ Walked'
  BY <1>1, <1>2, OutOfRace, Zenon DEF Winning
<1> QED
  BY <1>1, <1>2, <1>3, ExitGoto, Zenon DEF IInv, TypeOK

LEMMA EndProcessStep ==
  ASSUME IInv, NEW t \in Threads, EndProcess(t)
  PROVE  IInv'
<1>1. /\ tn' = tn /\ list' = list /\ sampled' = sampled /\ pending' = pending
      /\ has_used_threads' = has_used_threads /\ in_exit_cleanup' = in_exit_cleanup
      /\ fini_thread_done' = fini_thread_done /\ fini_process_done' = fini_process_done
      /\ walk' = walk /\ finis' = finis /\ late' = late /\ timedout' = timedout
  BY DEF EndProcess, hist
<1>2. PICK to \in {"flag", "process", "over", "wait"} :
        /\ Goto(t, to)
        /\ to \in {"flag", "process"} => winner = noThread /\ winner' = t
        /\ to = "process" => has_used_threads = FALSE
        /\ to = "over" => winner = t /\ winner' = winner
        /\ to = "wait" => winner' = winner
  BY DEF EndProcess, IInv, TypeOK
<1>3. /\ Fits(t) /\ ~ Busy(stack'[t])
      /\ ExitAt(stack[t]) = "race" /\ ExitAt(stack'[t]) = to
      /\ \A u \in Threads \ {t} : ExitAt(stack'[u]) = ExitAt(stack[u])
  BY <1>2, ExitMoves DEF EndProcess
<1>4. ExitAt(stack[t]) \notin Winning
  BY <1>3 DEF Winning
<1>5. CASE to \in {"over", "wait"}
  <2>1. to = "over" => fini_process_done = TRUE
    BY <1>2, <1>4 DEF IInv, Race
  <2>2. winner' = winner
    BY <1>2, <1>5
  <2>3. Race' /\ Walked'
    BY <1>1, <1>3, <1>4, <1>5, <2>1, <2>2, OutOfRace, Zenon DEF Winning
  <2> QED
    BY <1>1, <1>3, <2>2, <2>3, ExitGoto DEF IInv, TypeOK
<1>6. CASE to \in {"flag", "process"}
  <2>1. winner = noThread /\ winner' = t /\ winner' # noThread
    BY <1>2, <1>6, MonitorAssumption
  <2>2. \A u \in Threads \ {t} : ExitAt(stack'[u]) \notin Winning
    BY <1>3, <2>1, MonitorAssumption, Zenon DEF IInv, Race
  <2>3. fini_process_done' = FALSE /\ in_exit_cleanup' = FALSE
    BY <1>1, <2>1 DEF IInv, Race
  <2>4. Race'
    <3>1. \A u \in Threads : ExitAt(stack'[u]) # "over"
      <4>1. \A u \in Threads : ExitAt(stack[u]) # "over"
        BY <1>1, <2>3, SMTT(30) DEF IInv, Race
      <4> QED
        BY <1>3, <1>6, <4>1, Zenon
    <3>2. \A u \in Threads : ExitAt(stack'[u]) \notin {"walk", "finis", "mark", "done"}
      BY <1>3, <1>6, <2>2 DEF Winning
    <3>3. \A u \in Threads : ExitAt(stack'[u]) = "process" => has_used_threads' = FALSE
      BY <1>1, <1>2, <1>3, <2>2 DEF Winning
    <3>4. ExitAt(stack'[t]) \in Winning
      BY <1>3, <1>6 DEF Winning
    <3> QED
      BY <2>1, <2>2, <2>3, <3>1, <3>2, <3>3, <3>4, Zenon DEF Race
  <2>5. Walked'
    <3>1. \A u \in Threads : ExitAt(stack'[u]) # "walk"
      BY <1>3, <1>6, <2>2 DEF Winning
    <3> QED
      BY <2>3, <3>1, Zenon DEF Walked
  <2> QED
    BY <1>1, <1>3, <2>1, <2>4, <2>5, ExitGoto DEF IInv, TypeOK
<1> QED
  BY <1>5, <1>6

(* The nodes that a walk has still to visit. *)
Rest(k) == SubSeq(list, k + 1, Len(list))

LEMMA RestOfList ==
  ASSUME list \in Seq(Threads), NEW k \in 0..Len(list)
  PROVE  /\ Rest(k) \in Seq(Threads) /\ Len(Rest(k)) = Len(list) - k
         /\ Rest(0) = list
         /\ Rest(k) # <<>> => /\ k + 1 \in 1..Len(list)
                              /\ Head(Rest(k)) = list[k + 1]
                              /\ Tail(Rest(k)) = Rest(k + 1)
         /\ Rest(k) = <<>> => k = Len(list)
<1>1. Len(list) \in Nat /\ k \in Nat
  BY LenProperties, SMTT(30)
<1>2. Rest(k) \in Seq(Threads) /\ Len(Rest(k)) = Len(list) - k
  <2>1. \A i \in k + 1..Len(list) : list[i] \in Threads
    BY <1>1, ElementOfSeq, SMTT(30)
  <2>2. /\ Rest(k) \in Seq(Threads)
        /\ Len(Rest(k)) = IF k + 1 <= Len(list) THEN Len(list) - (k + 1) + 1 ELSE 0
    BY <1>1, <2>1, SubSeqProperties, SMTT(30) DEF Rest
  <2> QED
    BY <1>1, <2>2, SMTT(30)
<1>3. Rest(0) = list
  BY <1>1, SubSeqFull, SMTT(30) DEF Rest
<1>4. Rest(k) = <<>> => k = Len(list)
  <2>1. Rest(k) = <<>> => Len(Rest(k)) = 0
    BY Zenon, EmptySeq
  <2> QED
    BY <1>1, <1>2, <2>1, SMTT(30)
<1>5. ASSUME Rest(k) # <<>>
      PROVE  /\ k + 1 \in 1..Len(list)
             /\ Head(Rest(k)) = list[k + 1]
             /\ Tail(Rest(k)) = Rest(k + 1)
  <2>1. Len(Rest(k)) # 0
    BY <1>2, <1>5, EmptySeq
  <2>2. k + 1 \in 1..Len(list) /\ Len(list) \in k + 1..Len(list)
    BY <1>1, <1>2, <2>1, SMTT(30)
  <2> QED
    BY <2>2, HeadTailOfSubSeq DEF Rest
<1> QED
  BY <1>2, <1>3, <1>4, <1>5

LEMMA BeginShootdownStep ==
  ASSUME IInv, NEW t \in Threads, BeginShootdown(t)
  PROVE  IInv'
<1>1. /\ sampled' = sampled /\ pending' = pending
      /\ has_used_threads' = has_used_threads /\ in_exit_cleanup' = TRUE
      /\ fini_thread_done' = fini_thread_done /\ fini_process_done' = fini_process_done
      /\ winner' = winner /\ finis' = finis /\ late' = late /\ timedout' = timedout
      /\ walk' = NewWalk(list', 0)
  BY DEF BeginShootdown, hist
<1>2. /\ Fits(t) /\ ~ Busy(stack'[t])
      /\ ExitAt(stack[t]) = "flag" /\ ExitAt(stack'[t]) = "walk"
      /\ \A u \in Threads \ {t} : ExitAt(stack'[u]) = ExitAt(stack[u])
  BY ExitMoves DEF BeginShootdown
<1>3. winner = t /\ winner # noThread /\ fini_process_done = FALSE
  BY <1>2, MonitorAssumption DEF IInv, Race, Winning
<1>4. Main \in Threads /\ tn \in [Threads -> Flags] /\ tn[Main] \in Flags
      /\ list \in Seq(Threads)
  BY DEF IInv, TypeOK, Threads
<1>5. /\ list' \in Seq(Threads) /\ \A u \in Threads : Listed(u) => Listed(u)'
      /\ t # Main => Listed(Main)'
  <2>1. CASE t = Main
    BY <1>4, <2>1 DEF BeginShootdown, Listed
  <2>2. CASE t # Main
    <3>1. list' = <<Main>> \o list
      BY <2>2 DEF BeginShootdown
    <3> QED
      BY <1>4, <3>1, Consed, SMTT(30) DEF Listed, Among
  <2> QED
    BY <2>1, <2>2
<1>6. /\ tn' \in [Threads -> Flags]
      /\ \A u \in Threads \ {Main} : tn'[u] = tn[u]
      /\ \/ tn' = tn
         \/ t # Main /\ tn'[Main].fini_done = FALSE /\ tn'[Main].block = tn[Main].block
  <2>1. CASE t = Main
    BY <1>4, <2>1 DEF BeginShootdown
  <2>2. CASE t # Main
    <3> DEFINE n == [tn[Main] EXCEPT !.appl_started = TRUE, !.fini_started = FALSE,
                                     !.fini_done = FALSE]
    <3>1. tn' = [tn EXCEPT ![Main] = n]
      BY <1>4, <2>2, Zenon DEF BeginShootdown
    <3>2. n \in Flags /\ n.fini_done = FALSE /\ n.block = tn[Main].block
      BY <1>4, Zenon DEF Flags
    <3> HIDE DEF n
    <3> QED
      BY <1>4, <2>2, <3>1, <3>2
  <2> QED
    BY <2>1, <2>2, Zenon
<1>7. walk' \in Walks /\ walk'.rest = list'
  <2>1. NewWalk(list', 0) \in Walks /\ NewWalk(list', 0).rest = list'
    BY <1>5 DEF NewWalk, Walks
  <2> QED
    BY <1>1, <2>1
<1>8. TypeOK'
  BY <1>1, <1>2, <1>5, <1>6, <1>7, Zenon DEF IInv, TypeOK, Fits
<1>9. Onward
  BY <1>1 DEF Onward
<1>10. Race'
  <2> SUFFICES ASSUME NEW u \in Threads
               PROVE
                 /\ ExitAt(stack'[u]) \in Winning => winner' = u /\ fini_process_done' = FALSE
                 /\ ExitAt(stack'[u]) = "over" => fini_process_done' = TRUE
                 /\ winner' = u => ExitAt(stack'[u]) \in Winning \/ fini_process_done' = TRUE
                 /\ ExitAt(stack'[u]) \in {"walk", "finis", "mark", "done"} =>
                      in_exit_cleanup' = TRUE
                 /\ ExitAt(stack'[u]) = "process" =>
                      in_exit_cleanup' = TRUE \/ has_used_threads' = FALSE
    BY <1>1, <1>3, Zenon DEF Race
  <2>1. CASE u = t
    BY <1>1, <1>2, <1>3, <2>1, Zenon DEF Winning
  <2>2. CASE u # t
    BY <1>1, <1>2, <1>3, <2>2, Zenon DEF IInv, Race
  <2> QED
    BY <2>1, <2>2, Zenon
<1>11. Walked'
  <2>1. \A u \in Threads \ {t} : ExitAt(stack'[u]) \notin Winning
    BY <1>2, <1>3 DEF IInv, Race
  <2>2. \E k \in 0..Len(list') : walk'.rest = SubSeq(list', k + 1, Len(list'))
    <3>1. Len(list') \in Nat /\ SubSeq(list', 1, Len(list')) = list'
      BY <1>5, LenProperties, SubSeqFull
    <3>2. 0 \in 0..Len(list') /\ 0 + 1 = 1
      BY <3>1, SMTT(30)
    <3> QED
      BY <1>7, <3>1, <3>2
  <2>3. \A i \in 1..Len(list') : ~ (i + Len(walk'.rest) <= Len(list'))
    <3>1. Len(list') \in Nat
      BY <1>5, LenProperties
    <3> QED
      BY <1>7, <3>1, SMTT(30)
  <2> QED
    BY <1>2, <2>1, <2>2, <2>3, Zenon DEF Walked, Winning
<1>12. ASSUME NEW u \in Threads
       PROVE  Local(u)'
  <2>1. CASE u = t
    <3>1. tn'[t] = tn[t]
      BY <1>4, <1>6
    <3>2. tn'[t].block = tn[t].block /\ FitsItself(t)
      BY <1>2, <3>1 DEF Fits
    <3> USE DEF IInv, Local
    <3>3. Blocks(t)' /\ Signalled(t)'
      BY <1>1, <1>2 DEF Blocks, Signalled
    <3>4. Finishing(t)'
      BY <1>1, <3>1, <3>2, Zenon DEF Finishing, FitsItself
    <3>5. Started(t)'
      BY <1>1, <1>5, <3>1, <3>2, Zenon DEF Started, FitsItself
    <3> QED
      BY <2>1, <3>2, <3>3, <3>4, <3>5, Zenon DEF FitsItself
  <2>2. CASE u # t /\ tn'[u] = tn[u]
    <3>1. Frozen(u)
      BY <1>1, <1>2, <1>5, <2>2, Zenon DEF Frozen, Fits, Others
    <3> QED
      BY <1>9, <3>1, Bystander DEF IInv
  <2>3. CASE u # t /\ u = Main /\ tn'[Main].fini_done = FALSE
                   /\ tn'[Main].block = tn[Main].block
    <3>1. stack'[u] = stack[u]
      BY <1>2, <2>3 DEF Fits, Others
    <3> USE DEF IInv, Local
    <3>2. Blocks(u)' /\ Signalled(u)'
      BY <1>1, <2>3, <3>1, Zenon DEF Blocks, Signalled
    <3>3. Finishing(u)'
      BY <1>1, <2>3, <3>1, Zenon DEF Finishing
    <3>4. Started(u)'
      <4>1. Listed(u)'
        BY <1>5, <2>3
      <4> QED
        BY <1>1, <2>3, <3>1, <4>1, Zenon DEF Started
    <3> QED
      BY <3>1, <3>2, <3>3, <3>4, Zenon
  <2> QED
    BY <1>6, <2>1, <2>2, <2>3, Zenon
<1> QED
  BY <1>8, <1>10, <1>11, <1>12 DEF IInv

LEMMA CountedType ==
  ASSUME walk \in Walks, Tail(walk.rest) \in Seq(Threads), NEW n \in Flags
  PROVE  /\ Counted(n) \in Walks /\ Counted(n).rest = Tail(walk.rest)
         /\ Counted(n).unfinished = IF n.fini_done THEN walk.unfinished
                                    ELSE walk.unfinished + 1
<1> DEFINE a == IF n.fini_started THEN walk.started + 1 ELSE walk.started
<1> DEFINE b == IF n.fini_started THEN walk.unstarted ELSE walk.unstarted + 1
<1> DEFINE c == IF n.fini_done THEN walk.unfinished ELSE walk.unfinished + 1
<1> DEFINE r == Tail(walk.rest)
<1>1. a \in Nat /\ b \in Nat /\ c \in Nat
  BY SMTT(30) DEF Walks
<1>2. Counted(n) = [walk EXCEPT !.rest = r, !.started = a, !.unstarted = b, !.unfinished = c]
  BY DEF Counted, Walks
<1>3. c = IF n.fini_done THEN walk.unfinished ELSE walk.unfinished + 1
  OBVIOUS
<1>4. r \in Seq(Threads) /\ r = Tail(walk.rest)
  OBVIOUS
<1> HIDE DEF a, b, c, r
<1>5. /\ [walk EXCEPT !.rest = r, !.started = a, !.unstarted = b, !.unfinished = c] \in Walks
      /\ [walk EXCEPT !.rest = r, !.started = a, !.unstarted = b, !.unfinished = c].rest = r
      /\ [walk EXCEPT !.rest = r, !.started = a, !.unstarted = b, !.unfinished = c].unfinished
           = c
  BY <1>1, <1>4, Zenon DEF Walks
<1> QED
  BY <1>2, <1>3, <1>4, <1>5

LEMMA VisitStep ==
  ASSUME IInv, NEW t \in Threads, Visit(t)
  PROVE  IInv'
<1> DEFINE u == Head(walk.rest)
<1>1. /\ stack' = stack /\ tn' = tn /\ list' = list /\ sampled' = sampled
      /\ has_used_threads' = has_used_threads /\ in_exit_cleanup' = in_exit_cleanup
      /\ fini_thread_done' = fini_thread_done /\ fini_process_done' = fini_process_done
      /\ winner' = winner /\ finis' = finis /\ timedout' = timedout
  BY DEF Visit, flags
<1>2. ExitAt(stack[t]) = "walk" /\ walk.rest # <<>>
  BY AtTop, Zenon DEF Visit
<1>3. winner = t /\ in_exit_cleanup = TRUE
  BY <1>2 DEF IInv, Race, Winning
<1>4. walk \in Walks /\ walk.rest \in Seq(Threads) /\ list \in Seq(Threads)
  BY DEF IInv, TypeOK, Walks
<1>5. u \in Threads /\ Tail(walk.rest) \in Seq(Threads)
  BY <1>2, <1>4, HeadTailProperties
<1>6. tn[u] \in Flags
  BY <1>5 DEF IInv, TypeOK
<1> HIDE DEF u
<1>7. /\ walk' \in Walks /\ walk'.rest = Tail(walk.rest)
      /\ late' \subseteq Threads /\ pending' \subseteq Threads
      /\ walk'.unfinished = 0 => walk.unfinished = 0
      /\ \/ /\ late' = late \ {u}
            /\ walk'.unfinished = 0 => tn[u].fini_done = TRUE
         \/ late' = late /\ u = t
         \/ late' = late \cup {u}
  <2>1. CASE u # t /\ tn[u].appl_started
    <3>1. walk' = Counted(tn[u]) /\ late' = late \ {u} /\ pending' \subseteq pending \cup {u}
      BY <2>1 DEF Visit, u
    <3>2. /\ Counted(tn[u]) \in Walks /\ Counted(tn[u]).rest = Tail(walk.rest)
          /\ Counted(tn[u]).unfinished = IF tn[u].fini_done THEN walk.unfinished
                                         ELSE walk.unfinished + 1
      BY <1>4, <1>5, <1>6, CountedType
    <3>3. walk.unfinished \in Nat
      BY <1>4 DEF Walks
    <3>4. /\ walk'.unfinished = 0 => walk.unfinished = 0
          /\ walk'.unfinished = 0 => tn[u].fini_done
      BY <3>1, <3>2, <3>3, SMTT(30)
    <3>5. tn[u].fini_done \in BOOLEAN
      BY <1>6 DEF Flags
    <3> QED
      BY <1>5, <3>1, <3>2, <3>4, <3>5 DEF IInv, TypeOK
  <2>2. CASE ~ (u # t /\ tn[u].appl_started)
    <3>1. /\ walk' = [walk EXCEPT !.rest = Tail(walk.rest)] /\ pending' = pending
          /\ (late' = late /\ u = t) \/ late' = late \cup {u}
      BY <1>4, <2>2 DEF Visit, u
    <3>2. /\ [walk EXCEPT !.rest = Tail(walk.rest)] \in Walks
          /\ [walk EXCEPT !.rest = Tail(walk.rest)].rest = Tail(walk.rest)
          /\ [walk EXCEPT !.rest = Tail(walk.rest)].unfinished = walk.unfinished
      BY <1>4, <1>5, Zenon DEF Walks
    <3> QED
      BY <1>5, <3>1, <3>2 DEF IInv, TypeOK
  <2> QED
    BY <2>1, <2>2, Zenon
<1>8. TypeOK'
  BY <1>1, <1>7, Zenon DEF IInv, TypeOK
<1>9. Race'
  BY <1>1, Zenon DEF IInv, Race
<1>10. \A v \in Threads : Local(v)'
  <2>1. Onward /\ \A v \in Threads : Frozen(v)
    BY <1>1, <1>3, Zenon DEF Onward, Frozen, Listed
  <2> QED
    BY <2>1, Bystander DEF IInv
<1>11. Walked'
  <2>1. \A v \in Threads \ {t} : ExitAt(stack'[v]) \notin Winning
    BY <1>1, <1>3 DEF IInv, Race
  <2>2. PICK k \in 0..Len(list) : walk.rest = Rest(k)
    BY <1>2 DEF IInv, Walked, Rest
  <2>3. /\ Len(list) \in Nat /\ k \in Nat /\ k + 1 \in 1..Len(list)
        /\ k + 1 \in 0..Len(list)
        /\ u = list[k + 1] /\ walk'.rest = Rest(k + 1)
        /\ Len(walk.rest) = Len(list) - k
    BY <1>2, <1>4, <1>7, <2>2, RestOfList, LenProperties, SMTT(30) DEF u
  <2>4. Len(walk'.rest) = Len(list) - (k + 1)
    BY <1>4, <2>3, RestOfList, Zenon
  <2>5. \E j \in 0..Len(list') : walk'.rest = SubSeq(list', j + 1, Len(list'))
    BY <1>1, <2>3 DEF Rest
  <2>6. ASSUME walk'.unfinished = 0, NEW i \in 1..Len(list'),
               i + Len(walk'.rest) <= Len(list')
        PROVE  Seen(t, i)'
    <3>1. i <= k \/ i = k + 1
      BY <1>1, <2>3, <2>4, <2>6, SMTT(30)
    <3>2. i <= k => Seen(t, i)
      <4>1. walk.unfinished = 0 /\ i \in 1..Len(list)
        BY <1>1, <1>7, <2>6
      <4>2. i <= k => i + Len(walk.rest) <= Len(list)
        BY <2>3, <4>1, SMTT(30)
      <4> QED
        BY <1>2, <4>1, <4>2 DEF IInv, Walked
    <3>3. Seen(t, i) => Seen(t, i)'
      BY <1>1, <1>7, <2>6, Zenon DEF Seen
    <3>4. i = k + 1 => Seen(t, i)'
      BY <1>1, <1>7, <2>3, <2>6, Zenon DEF Seen
    <3> QED
      BY <3>1, <3>2, <3>3, <3>4
  <2>7. ExitAt(stack'[t]) = "walk"
    BY <1>1, <1>2
  <2> QED
    BY <2>1, <2>5, <2>6, <2>7, Zenon DEF Walked, Winning
<1> QED
  BY <1>8, <1>9, <1>10, <1>11 DEF IInv

(* The winner leaves its walk: it has seen all, or given up. *)
LEMMA WalkEnds ==
  ASSUME IInv, NEW t \in Threads, ExitAt(stack[t]) = "walk", ExitAt(stack'[t]) = "finis",
         \A u \in Threads \ {t} : ExitAt(stack'[u]) = ExitAt(stack[u]),
         UNCHANGED <<winner, in_exit_cleanup, fini_process_done, has_used_threads,
                     late, list, tn>>,
         timedout' = TRUE \/ \A i \in 1..Len(list) : Seen(t, i)
  PROVE  Race' /\ Walked'
<1>1. /\ winner' = winner /\ in_exit_cleanup' = in_exit_cleanup
      /\ fini_process_done' = fini_process_done /\ has_used_threads' = has_used_threads
      /\ late' = late /\ list' = list /\ tn' = tn
  OBVIOUS
<1>2. /\ winner = t /\ winner # noThread
      /\ fini_process_done = FALSE /\ in_exit_cleanup = TRUE
  BY MonitorAssumption DEF IInv, Race, Winning
<1>3. Race'
  <2> SUFFICES ASSUME NEW u \in Threads
               PROVE
                 /\ ExitAt(stack'[u]) \in Winning => winner' = u /\ fini_process_done' = FALSE
                 /\ ExitAt(stack'[u]) = "over" => fini_process_done' = TRUE
                 /\ winner' = u => ExitAt(stack'[u]) \in Winning \/ fini_process_done' = TRUE
                 /\ ExitAt(stack'[u]) \in {"walk", "finis", "mark", "done"} =>
                      in_exit_cleanup' = TRUE
                 /\ ExitAt(stack'[u]) = "process" =>
                      in_exit_cleanup' = TRUE \/ has_used_threads' = FALSE
    BY <1>1, <1>2, Zenon DEF Race
  <2>1. CASE u = t
    BY <1>1, <1>2, <2>1 DEF Winning
  <2>2. CASE u # t
    BY <1>1, <2>2, Zenon DEF IInv, Race
  <2> QED
    BY <2>1, <2>2, Zenon
<1>4. Walked'
  <2>1. \A u \in Threads \ {t} : ExitAt(stack'[u]) \notin Winning
    BY <1>2, Zenon DEF IInv, Race
  <2>2. timedout' = TRUE \/ \A i \in 1..Len(list') : Seen(t, i)'
    BY <1>1, Zenon DEF Seen
  <2>3. ExitAt(stack'[t]) # "walk"
    OBVIOUS
  <2> QED
    BY <2>1, <2>2, <2>3, Zenon DEF Walked, Winning
<1> QED
  BY <1>3, <1>4, Zenon

LEMMA PollStep ==
  ASSUME IInv, NEW t \in Threads, Poll(t)
  PROVE  IInv'
<1>1. /\ tn' = tn /\ list' = list /\ sampled' = sampled /\ pending' = pending
      /\ has_used_threads' = has_used_threads /\ in_exit_cleanup' = in_exit_cleanup
      /\ fini_thread_done' = fini_thread_done /\ fini_process_done' = fini_process_done
      /\ winner' = winner /\ finis' = finis /\ late' = late /\ timedout' = timedout
  BY DEF Poll, flags, hist
<1>2. /\ ExitAt(stack[t]) = "walk" /\ walk.rest = <<>>
      /\ list \in Seq(Threads) /\ Len(list) \in Nat
  <2>1. ExitAt(stack[t]) = "walk"
    BY AtTop, Zenon DEF Poll
  <2>2. list \in Seq(Threads)
    BY DEF IInv, TypeOK
  <2> QED
    BY <2>1, <2>2, LenProperties DEF Poll
<1>3. CASE walk.unfinished = 0
  <2>1. walk' = walk /\ Goto(t, "finis")
    BY <1>3, Zenon DEF Poll
  <2>2. /\ Fits(t) /\ ~ Busy(stack'[t]) /\ ExitAt(stack'[t]) = "finis"
        /\ \A u \in Threads \ {t} : ExitAt(stack'[u]) = ExitAt(stack[u])
    BY <2>1, ExitMoves, Zenon DEF Poll
  <2>3. \A i \in 1..Len(list) : Seen(t, i)
    <3>1. Len(walk.rest) = 0
      BY <1>2, EmptySeq, Zenon
    <3>2. \A n \in Nat : \A i \in 1..n : i + 0 <= n
      BY SMTT(30)
    <3>3. \A i \in 1..Len(list) : i + Len(walk.rest) <= Len(list)
      BY <1>2, <3>1, <3>2, Zenon
    <3> QED
      BY <1>2, <1>3, <3>3, Zenon DEF IInv, Walked
  <2>4. Race' /\ Walked'
    BY <1>1, <1>2, <2>2, <2>3, WalkEnds, Zenon
  <2> QED
    BY <1>1, <2>1, <2>2, <2>4, ExitGoto DEF IInv, TypeOK
<1>4. CASE walk.unfinished # 0
  <2> DEFINE last == IF walk.started > walk.last_started
                     THEN walk.started ELSE walk.last_started
  <2>1. stack' = stack /\ walk' = NewWalk(list, last)
    BY <1>4, Zenon DEF Poll
  <2>2. last \in Nat
    BY DEF IInv, TypeOK, Walks
  <2> HIDE DEF last
  <2>3. walk' \in Walks /\ walk'.rest = list
    <3>1. NewWalk(list, last) \in Walks /\ NewWalk(list, last).rest = list
      BY <1>2, <2>2, Zenon DEF NewWalk, Walks
    <3> QED
      BY <2>1, <3>1
  <2>4. Race'
    BY <1>1, <2>1, Zenon DEF IInv, Race
  <2>5. Walked'
    <3>1. \A u \in Threads \ {t} : ExitAt(stack'[u]) \notin Winning
      BY <1>2, <2>1, Zenon DEF IInv, Race, Winning
    <3>2. \E k \in 0..Len(list') : walk'.rest = SubSeq(list', k + 1, Len(list'))
      <4>1. 0 \in 0..Len(list) /\ SubSeq(list, 0 + 1, Len(list)) = list
        BY <1>2, RestOfList, SMTT(30) DEF Rest
      <4>2. 0 \in 0..Len(list') /\ walk'.rest = SubSeq(list', 0 + 1, Len(list'))
        BY <1>1, <2>3, <4>1, Zenon
      <4> QED
        BY <4>2, Zenon
    <3>3. \A i \in 1..Len(list') : ~ (i + Len(walk'.rest) <= Len(list'))
      BY <1>1, <1>2, <2>3, SMTT(30)
    <3>4. ExitAt(stack'[t]) = "walk"
      BY <1>2, <2>1
    <3> QED
      BY <3>1, <3>2, <3>3, <3>4, Zenon DEF Walked, Winning
  <2>6. Fits(t)
    BY <2>1, Stacks, Zenon DEF Fits, FitsItself, Others
  <2> QED
    BY <1>1, <2>1, <2>3, <2>4, <2>5, <2>6, ExitGoto DEF IInv, TypeOK
<1> QED
  BY <1>3, <1>4

LEMMA GiveUpStep ==
  ASSUME IInv, NEW t \in Threads, GiveUp(t)
  PROVE  IInv'
<1>1. /\ tn' = tn /\ list' = list /\ sampled' = sampled /\ pending' = pending
      /\ has_used_threads' = has_used_threads /\ in_exit_cleanup' = in_exit_cleanup
      /\ fini_thread_done' = fini_thread_done /\ fini_process_done' = fini_process_done
      /\ winner' = winner /\ finis' = finis /\ late' = late /\ walk' = walk
      /\ timedout' = TRUE
  BY Zenon DEF GiveUp, flags
<1>2. /\ Fits(t) /\ ~ Busy(stack'[t])
      /\ ExitAt(stack[t]) = "walk" /\ ExitAt(stack'[t]) = "finis"
      /\ \A u \in Threads \ {t} : ExitAt(stack'[u]) = ExitAt(stack[u])
  BY ExitMoves, Zenon DEF GiveUp
<1>3. Race' /\ Walked'
  BY <1>1, <1>2, WalkEnds, Zenon
<1> QED
  BY <1>1, <1>2, <1>3, ExitGoto DEF IInv, TypeOK

LEMMA FiniThreadsDoneStep ==
  ASSUME IInv, NEW t \in Threads, FiniThreadsDone(t)
  PROVE  IInv'
<1>1. /\ tn' = tn /\ list' = list /\ sampled' = sampled /\ pending' = pending
      /\ has_used_threads' = has_used_threads /\ in_exit_cleanup' = in_exit_cleanup
      /\ fini_thread_done' = TRUE /\ fini_process_done' = fini_process_done
      /\ winner' = winner /\ finis' = finis /\ late' = late /\ walk' = walk
      /\ timedout' = timedout
  BY DEF FiniThreadsDone, hist
<1>2. PICK to \in {"mark", "process"} : Goto(t, to)
  BY DEF FiniThreadsDone
<1>3. /\ Fits(t) /\ ~ Busy(stack'[t])
      /\ ExitAt(stack[t]) = "finis" /\ ExitAt(stack'[t]) = to
      /\ \A u \in Threads \ {t} : ExitAt(stack'[u]) = ExitAt(stack[u])
  BY <1>2, ExitMoves, Zenon DEF FiniThreadsDone
<1>4. Race' /\ Walked'
  BY <1>1, <1>3, ExitOn, Zenon
<1> QED
  BY <1>1, <1>3, <1>4, ExitGoto DEF IInv, TypeOK

LEMMA FiniProcessStep ==
  ASSUME IInv, NEW t \in Threads, FiniProcess(t)
  PROVE  IInv'
<1>1. /\ tn' = tn /\ list' = list /\ sampled' = sampled /\ pending' = pending
      /\ has_used_threads' = has_used_threads /\ in_exit_cleanup' = in_exit_cleanup
      /\ fini_thread_done' = fini_thread_done /\ fini_process_done' = TRUE
      /\ winner' = winner /\ finis' = finis /\ late' = late /\ walk' = walk
      /\ timedout' = timedout
  BY DEF FiniProcess, hist
<1>2. PICK from \in {"process", "wait"} :
        At(t, "exit", from) /\ (from = "wait" => fini_process_done = TRUE)
  BY DEF FiniProcess, IInv, TypeOK
<1>3. /\ Fits(t) /\ ~ Busy(stack'[t])
      /\ ExitAt(stack[t]) = from /\ ExitAt(stack'[t]) = "over"
      /\ \A u \in Threads \ {t} : ExitAt(stack'[u]) = ExitAt(stack[u])
  BY <1>2, ExitMoves, Zenon DEF FiniProcess
<1>4. Race' /\ Walked'
  <2>1. CASE from = "wait"
    <3>1. fini_process_done' = fini_process_done
      BY <1>1, <1>2, <2>1
    <3> QED
      BY <1>1, <1>2, <1>3, <2>1, <3>1, OutOfRace DEF Winning
  <2>2. CASE from = "process"
    <3>1. winner = t /\ winner # noThread
      BY <1>3, <2>2, MonitorAssumption, Zenon DEF IInv, Race, Winning
    <3>2. \A u \in Threads : ExitAt(stack'[u]) \notin Winning
      BY <1>3, <3>1 DEF IInv, Race, Winning
    <3>3. Race'
      BY <1>1, <3>1, <3>2, Zenon DEF Race, Winning
    <3>4. Walked'
      BY <3>2, Zenon DEF Walked, Winning
    <3> QED
      BY <3>3, <3>4
  <2> QED
    BY <2>1, <2>2
<1> QED
  BY <1>1, <1>3, <1>4, ExitGoto DEF IInv, TypeOK

-----------------------------------------------------------------------------
(* All steps, and what follows. *)

LEMMA InitIInv == Init => IInv
<1> SUFFICES ASSUME Init PROVE IInv
  OBVIOUS
<1>1. Main \in Threads /\ noThread \notin Threads
  BY MonitorAssumption DEF Threads
<1>2. ASSUME NEW t \in Threads
      PROVE  /\ stack[t] \in Seq(Frames) /\ Shape(stack[t]) /\ Len(stack[t]) = 1
             /\ stack[t][1].at \in {"app", "none"}
             /\ t = Main => stack[t][1].at = "app"
             /\ t # Main => stack[t][1].at = "none"
  <2> DEFINE at == IF t = Main THEN "app" ELSE "none"
  <2>1. stack[t] = <<Frame("thread", at)>> /\ at \in {"app", "none"}
    BY DEF Init
  <2>2. (t = Main => at = "app") /\ (t # Main => at = "none")
    OBVIOUS
  <2> HIDE DEF at
  <2> QED
    BY <2>1, <2>2, Single, Zenon
<1>3. stack \in [Threads -> Seq(Frames)]
  <2>1. DOMAIN stack = Threads /\ stack = [t \in Threads |-> stack[t]]
    BY DEF Init
  <2> QED
    BY <1>2, <2>1
<1>4. ASSUME NEW t \in Threads
      PROVE  /\ ExitAt(stack[t]) = "no" /\ ~ Recording(stack[t]) /\ ~ Busy(stack[t])
             /\ ~ Has(stack[t], {"handler"}) /\ ~ Has(stack[t], {"async"})
             /\ ~ Has(stack[t], {"create"})
             /\ ~ Says(stack[t], {"mark"}) /\ ~ Says(stack[t], {"done", "unlink"})
  <2>1. /\ ExitAt(stack[t]) = "no" /\ ~ Recording(stack[t])
        /\ \A F : Has(stack[t], F) <=> "thread" \in F
        /\ \A A : Says(stack[t], A) <=> stack[t][1].at \in A
    BY <1>2, OnTop, Zenon
  <2> QED
    BY <1>2, <2>1, Zenon DEF Busy
<1>5. /\ tn \in [Threads -> Flags]
      /\ \A t \in Threads : tn[t].appl_started = FALSE /\ tn[t].fini_done = FALSE
  <2>1. Clear \in Flags /\ Clear.appl_started = FALSE /\ Clear.fini_done = FALSE
    BY DEF Clear, Flags
  <2> QED
    BY <2>1 DEF Init
<1>6. walk \in Walks
  <2>1. NewWalk(<<>>, 0) \in Walks
    BY SMTT(30) DEF NewWalk, Walks
  <2> QED
    BY <2>1 DEF Init
<1>7. TypeOK
  <2>1. list \in Seq(Threads) /\ finis \in [Threads -> Nat]
    BY SMTT(30) DEF Init
  <2>2. /\ sampled \subseteq Threads /\ pending \subseteq Threads /\ late \subseteq Threads
        /\ winner \in Threads \cup {noThread}
    BY <1>1 DEF Init
  <2>3. /\ has_used_threads \in BOOLEAN /\ in_exit_cleanup \in BOOLEAN
        /\ fini_thread_done \in BOOLEAN /\ fini_process_done \in BOOLEAN
        /\ timedout \in BOOLEAN
    BY Zenon DEF Init
  <2> QED
    BY <1>3, <1>5, <1>6, <2>1, <2>2, <2>3, Zenon DEF TypeOK
<1>8. ASSUME NEW t \in Threads
      PROVE  Local(t)
  <2>1. Blocks(t) /\ Signalled(t)
    BY <1>4 DEF Init, Blocks, Signalled
  <2>2. Finishing(t)
    <3>1. finis[t] = 0 /\ ~ (finis[t] > 0)
      BY SMTT(30) DEF Init
    <3> QED
      BY <1>4, <1>5, <3>1, Zenon DEF Finishing
  <2>3. Started(t)
    BY <1>2, <1>4, <1>5 DEF Init, Started
  <2> QED
    BY <1>2, <2>1, <2>2, <2>3 DEF Local
<1>9. Race /\ Walked
  BY <1>1, <1>4 DEF Init, Race, Walked, Winning
<1> QED
  BY <1>7, <1>8, <1>9 DEF IInv

LEMMA NextIInv == IInv /\ [Next]_vars => IInv'
<1> SUFFICES ASSUME IInv, [Next]_vars PROVE IInv'
  OBVIOUS
<1>1. ASSUME NEW t \in Threads, Application(t) PROVE IInv'
  BY <1>1, PthreadCreateStep, ThreadEndsStep, SyncSampleStep, ExitProcedureStep
  DEF Application
<1>2. ASSUME NEW t \in Threads, Monitored(t) PROVE IInv'
  <2>1. CASE \/ GenThreadCtxt(t) \/ ThreadCtxtDone(t) \/ Launch(t)
             \/ LinkThreadNode(t) \/ InitThread(t) \/ ApplStarted(t)
    BY <2>1, GenThreadCtxtStep, ThreadCtxtDoneStep, LaunchStep, LinkThreadNodeStep,
       InitThreadStep, ApplStartedStep
  <2>2. CASE \/ TestFini(t) \/ FiniThread(t) \/ FiniThreadReturns(t) \/ FiniDone(t)
             \/ UnlinkThreadNode(t)
    BY <2>2, TestFiniStep, FiniThreadStep, FiniThreadReturnsStep, FiniDoneStep,
       UnlinkThreadNodeStep
  <2>3. CASE \/ EndProcess(t) \/ BeginShootdown(t) \/ Visit(t) \/ Poll(t)
             \/ FiniThreadsDone(t) \/ FiniProcess(t)
    BY <2>3, EndProcessStep, BeginShootdownStep, VisitStep, PollStep,
       FiniThreadsDoneStep, FiniProcessStep
  <2> QED
    BY <1>2, <2>1, <2>2, <2>3 DEF Monitored
<1>3. ASSUME NEW t \in Threads, Sampling(t) PROVE IInv'
  BY <1>3, BlockShootdownStep, UnblockShootdownStep DEF Sampling
<1>4. ASSUME NEW t \in Threads, AsyncSample(t) \/ ShootdownSignal(t) \/ GiveUp(t)
      PROVE  IInv'
  BY <1>4, AsyncSampleStep, ShootdownSignalStep, GiveUpStep
<1>5. ASSUME UNCHANGED vars PROVE IInv'
  <2>1. /\ stack' = stack /\ tn' = tn /\ list' = list /\ sampled' = sampled
        /\ pending' = pending
        /\ has_used_threads' = has_used_threads /\ in_exit_cleanup' = in_exit_cleanup
        /\ fini_thread_done' = fini_thread_done /\ fini_process_done' = fini_process_done
        /\ winner' = winner /\ walk' = walk /\ finis' = finis /\ late' = late
        /\ timedout' = timedout
    BY <1>5 DEF vars, flags, hist
  <2>2. TypeOK'
    BY <2>1, Zenon DEF IInv, TypeOK
  <2>3. \A u \in Threads : Local(u)'
    <3>1. Onward /\ \A u \in Threads : Frozen(u)
      BY <2>1, Zenon DEF Onward, Frozen, Listed
    <3> QED
      BY <3>1, Bystander DEF IInv
  <2>4. Aside
    BY <2>1, Zenon DEF Aside
  <2> QED
    BY <2>2, <2>3, <2>4, ExitAside DEF IInv
<1> QED
  BY <1>1, <1>2, <1>3, <1>4, <1>5 DEF Next

(* At every moment the stack of each thread has one of the shapes that the   *)
(* signals and callbacks of libmonitor/pthread.c can give it, a thread in a  *)
(* sample has put the shootdown handler off, and the race to exit has one    *)
(* winner, which has seen of the list what its walk has passed.              *)
THEOREM ThreadsShape == Spec => []IInv
<1>1. Init => IInv
  BY InitIInv
<1>2. IInv /\ [Next]_vars => IInv'
  BY NextIInv
<1> QED
  BY <1>1, <1>2, PTL DEF Spec

LEMMA ExitingIs ==
  ASSUME IInv, NEW t \in Threads, NEW W, "no" \notin W
  PROVE  Exiting(t, W) <=> ExitAt(stack[t]) \in W
<1> DEFINE S == stack[t]
<1>1. S \in Seq(Frames) /\ Shape(S) /\ Len(S) \in Nat /\ Len(S) > 0
  <2>1. S \in Seq(Frames) /\ Shape(S)
    BY Stacks
  <2> QED
    BY <2>1, LenProperties, Zenon DEF Shape
<1>2. \A i \in 1..Len(S) : S[i] \in Frames
  BY <1>1, ElementOfSeq
<1>3. \A i \in 1..Len(S) :
        S[i] \in {Frame("exit", at) : at \in W} <=> S[i].fn = "exit" /\ S[i].at \in W
  BY <1>2, SMTT(30) DEF Frames, Frame
<1>4. \A i \in 1..Len(S) : S[i].fn = "exit" => i = 2
  <2>1. \A i \in 1..Len(S) : i = 1 \/ i = 2 \/ i \in 3..Len(S)
    BY <1>1, SMTT(30)
  <2> QED
    BY <1>1, <2>1, Zenon DEF Shape
<1>5. Len(S) > 1 <=> 2 \in 1..Len(S)
  BY <1>1, SMTT(30)
<1> HIDE DEF S
<1>6. (\E i \in 1..Len(S) : S[i].fn = "exit" /\ S[i].at \in W) <=> ExitAt(S) \in W
  BY <1>4, <1>5 DEF ExitAt
<1>7. Exiting(t, W) <=> \E i \in 1..Len(S) : S[i] \in {Frame("exit", at) : at \in W}
  BY DEF Exiting, S
<1> QED
  BY <1>3, <1>6, <1>7 DEF S

(* No thread resumes the exit of the process while the winner of the race in *)
(* monitor_end_process_fcn is still shooting down or in the fini-process     *)
(* callback, and nobody but the winner gets there.                           *)
THEOREM ExitsWait == Spec => []ExitWaits
<1>1. IInv => ExitWaits
  <2> SUFFICES ASSUME IInv, NEW t \in Threads, NEW u \in Threads
               PROVE  /\ Exiting(t, {"over"}) =>
                           ~ Exiting(u, {"flag", "walk", "finis", "mark", "done", "process"})
                      /\ Exiting(t, {"flag", "walk", "finis", "process"}) => t = winner
    BY DEF ExitWaits
  <2>1. /\ Exiting(t, {"over"}) <=> ExitAt(stack[t]) \in {"over"}
        /\ Exiting(u, {"flag", "walk", "finis", "mark", "done", "process"})
             <=> ExitAt(stack[u]) \in {"flag", "walk", "finis", "mark", "done", "process"}
        /\ Exiting(t, {"flag", "walk", "finis", "process"})
             <=> ExitAt(stack[t]) \in {"flag", "walk", "finis", "process"}
    BY ExitingIs
  <2> QED
    BY <2>1 DEF IInv, Race, Winning
<1> QED
  BY <1>1, ThreadsShape, PTL

(* monitor_thread_shootdown walks the list without its lock, and what it has *)
(* still to visit is always the end of the list as it now is: no node is     *)
(* linked or removed once monitor_in_exit_cleanup is set.                    *)
THEOREM WalksOnList == Spec => []WalkOnList
<1>1. IInv => WalkOnList
  <2> SUFFICES ASSUME IInv, NEW t \in Threads, Exiting(t, {"walk"})
               PROVE  \E k \in 0..Len(list) : walk.rest = SubSeq(list, k + 1, Len(list))
    BY DEF WalkOnList
  <2>1. ExitAt(stack[t]) = "walk"
    BY ExitingIs
  <2> QED
    BY <2>1 DEF IInv, Walked
<1> QED
  BY <1>1, ThreadsShape, PTL

(* Whatever interrupts what, the fini-thread callback never runs on top of a *)
(* sample or of the unwind of a creation context, because the thread blocks  *)
(* shootdown meanwhile, and no asynchronous sample is recorded in a thread   *)
(* whose callback has begun.                                                 *)
THEOREM SamplesStayApart == Spec => []SamplesApart
<1>1. IInv => SamplesApart
  <2> SUFFICES ASSUME IInv, NEW t \in Threads
               PROVE  /\ \A i, j \in 1..Len(stack[t]) :
                           stack[t][i].at \in {"body", "unwind"} /\ stack[t][j].fn = "fini"
                             => j < i
                      /\ Frame("async", "body") \in Range(stack[t]) => finis[t] = 0
    BY DEF SamplesApart
  <2>1. stack[t] \in Seq(Frames) /\ Shape(stack[t]) /\ Len(stack[t]) \in Nat
    BY Stacks, LenProperties
  <2>2. ASSUME NEW i \in 1..Len(stack[t]), NEW j \in 1..Len(stack[t]),
               stack[t][i].at \in {"body", "unwind"}, stack[t][j].fn = "fini"
        PROVE  j < i
    <3>1. i # j
      BY <2>1, <2>2, Zenon DEF Shape, FrameOK
    <3>2. ~ (i < j)
      BY <2>1, <2>2 DEF Shape
    <3> QED
      BY <2>1, <3>1, <3>2, SMTT(30)
  <2>3. Frame("async", "body") \in Range(stack[t]) => Recording(stack[t])
    <3>1. DOMAIN stack[t] = 1..Len(stack[t])
      BY <2>1, LenProperties
    <3> QED
      BY <3>1, SMTT(30) DEF Range, Recording, Frame
  <2> QED
    BY <2>2, <2>3, Zenon DEF IInv, Local, Finishing
<1> QED
  BY <1>1, ThreadsShape, PTL

(* When the fini-process callback begins and shootdown has not given up,     *)
(* every other thread, main included, whose application had started by the   *)
(* time of the last walk has run its fini-thread callback to the end.        *)
THEOREM ThreadsFinishFirst == Spec => []FinishedBeforeProcess
<1>1. IInv => FinishedBeforeProcess
  <2> SUFFICES ASSUME IInv, NEW t \in Threads, Exiting(t, {"process"}), ~ timedout,
                      NEW u \in Threads \ ({t} \cup late), tn[u].appl_started
               PROVE  tn[u].fini_done /\ finis[u] > 0
    BY DEF FinishedBeforeProcess
  <2>1. ExitAt(stack[t]) = "process"
    BY ExitingIs
  <2>2. tn[u].appl_started = TRUE /\ timedout # TRUE
    BY Zenon DEF IInv, TypeOK, Flags
  <2>3. Listed(u) /\ stack[u][1].at \in {"app", "gone"}
    BY <2>2, Zenon DEF IInv, Local, Started
  <2>4. has_used_threads # FALSE
    <3>1. Has(stack[t], {"exit"})
      <4>1. Len(stack[t]) > 1 /\ stack[t][2].fn = "exit"
        BY <2>1, Zenon DEF ExitAt
      <4>2. 2 \in 1..Len(stack[t])
        BY <4>1, LenProperties, SMTT(30) DEF IInv, TypeOK
      <4> QED
        BY <4>1, <4>2, Zenon DEF Has
    <3>2. Has(stack[t], {"exit", "sync", "create"})
      BY <3>1, Zenon DEF Has
    <3>3. stack[t][1].at = "app"
      BY <3>2, Zenon DEF IInv, Local, Shape
    <3>4. u # t /\ "app" # "none" /\ "gone" # "none"
      OBVIOUS
    <3> QED
      BY <2>3, <3>3, <3>4, Zenon DEF IInv, Local, Started
  <2>5. in_exit_cleanup = TRUE
    BY <2>1, <2>4, Zenon DEF IInv, Race
  <2>6. \A i \in 1..Len(list) : Seen(t, i)
    BY <2>1, <2>2, <2>5 DEF IInv, Walked
  <2>7. tn[u].fini_done = TRUE
    BY <2>3, <2>6 DEF Listed, Seen
  <2> QED
    BY <2>7, Zenon DEF IInv, Local, Finishing
<1> QED
  BY <1>1, ThreadsShape, PTL

=============================================================================
