-------------------------- MODULE ThreadMgrProofs ---------------------------
(***************************************************************************)
(* Proofs about ThreadMgr, for every set of threads and number of cores.   *)
(* First the inductive invariant and the lemmas that the steps share, then *)
(* the steps of the threads and of any agent at the list, the steps at the *)
(* end of the process, and the theorems.                                   *)
(***************************************************************************)
EXTENDS ThreadMgr, TLAPS

(* The lock is held by the one agent that is at the list, and a grab in    *)
(* progress has read the head that is still there.                         *)
Locked ==
  /\ \A a \in Agents : lock = a <=> pc[a] \in {"remove", "insert"}
  /\ \A a \in Agents :
       At(a, "remove") => data[a] = IF free = <<>> THEN none ELSE Head(free)

(* Who has data in hand, and who has not. *)
Hands ==
  /\ \A t \in Apps :
       /\ pc[t] \in {"run", "put", "insert", "exits"} => data[t] # none
       /\ pc[t] \in {"grab", "remove", "got"} =>
            compact_thread = OPTION_COMPACT_THREAD
       /\ At(t, "exits") => t = Main
  /\ \A a \in Agents :
       pc[a] \in {"new", "init", "grab", "gone", "app", "exit", "spawn"} =>
         data[a] = none
  /\ pc[Process] \in {"join", "own", "done"} /\ ~ failed => data[Process] = none
  /\ pc[Main] \in {"run", "put", "insert", "gone", "exits"}
  /\ ~ At(Main, "gone") => data[Main] = Main
  /\ At(Process, "app") => At(Main, "run")

(* A thread that has yet to allocate has not, and data in use has been. *)
Accounted ==
  /\ Main \in allocated
  /\ \A t \in Apps :
       pc[t] \in {"new", "init", "grab", "remove", "got"} => t \notin allocated
  /\ \A j \in 1..Len(free) : free[j] \in allocated
  /\ \A a \in Agents : Holds(a) => data[a] \in allocated
  /\ \A d \in Apps : written[d] > 0 => d \in allocated

(* Data that has a place is not written yet; that of main is the last. *)
Unwritten ==
  /\ \A j \in 1..Len(free) : written[free[j]] = 0
  /\ \A a \in Agents :
       Holds(a) => \/ written[data[a]] = 0
                   \/ a = Main /\ At(Main, "exits") /\ At(Process, "done")
  /\ At(Main, "exits") /\ At(Process, "done") => written[Main] = 1

(* No data is dropped: it is written, on the list, or with an agent. *)
Kept ==
  \A d \in allocated :
    \/ written[d] = 1
    \/ \E j \in 1..Len(free) : free[j] = d
    \/ \E a \in Agents : Holds(a) /\ data[a] = d

(* The loop of hpcrun_threadMgr_data_fini starts a worker if there is need *)
(* of one.                                                                 *)
Loop ==
  /\ pc[Process] \in {"app", "exit"} => i = 0 /\ ~ quiet
  /\ pc[Process] \notin {"app", "exit"} => max_iter > 0
  /\ pc[Process] \in {"grab", "remove", "create"} => i < max_iter

(* At a quiet end the list only shrinks, and an agent that leaves the loop *)
(* has seen it empty.                                                      *)
Drained ==
  quiet =>
    /\ \A t \in Apps : pc[t] \in {"new", "gone", "exits"}
    /\ \A f \in Finalizers :
         At(f, "gone") \/ (At(f, "loop") /\ data[f] = none) => free = <<>>
    /\ At(Process, "create") /\ data[Process] = none => free = <<>>
    /\ At(Process, "join") /\ ~ failed => free = <<>> \/ i > 0
    /\ pc[Process] \in {"own", "done"} /\ ~ failed =>
         free = <<>> /\ \A f \in 1..i : At(f, "gone")

(* The inductive invariant. *)
IInv ==
  /\ TypeOK
  /\ Locked
  /\ Hands
  /\ OnePlace
  /\ Accounted
  /\ Unwritten
  /\ Once
  /\ Kept
  /\ Loop
  /\ Drained

-----------------------------------------------------------------------------
(* What a step does to one entry of a function, and that it leaves the others. *)
Moves(a, l) ==
  /\ pc' \in [Agents -> Labels]
  /\ pc'[a] = l
  /\ \A b \in Agents \ {a} : pc'[b] = pc[b]
Takes(a, d) ==
  /\ data' \in [Agents -> Apps \cup {none}]
  /\ data'[a] = d
  /\ \A b \in Agents \ {a} : data'[b] = data[b]
Writes(d) ==
  /\ written' \in [Apps -> Nat]
  /\ written'[d] = written[d] + 1
  /\ \A e \in Apps \ {d} : written'[e] = written[e]

(* The three kinds of agents. *)
LEMMA Kinds ==
  /\ Apps \subseteq Agents /\ Finalizers \subseteq Agents /\ Process \in Agents
  /\ Main \in Apps /\ Process \notin Apps /\ Process \notin Finalizers
  /\ none \notin Agents
  /\ \A a \in Agents : a \in Apps \/ a \in Finalizers \/ a = Process
  /\ \A a \in Apps : a \notin Finalizers
  BY ThreadMgrAssumption DEF Agents, Apps, Finalizers

(* The workers are numbered, and those started are the first. *)
LEMMA Numbered == Finalizers = 1..Cores /\ Cores \in Nat \ {0}
  BY ThreadMgrAssumption DEF Finalizers

LEMMA Started ==
  ASSUME TypeOK
  PROVE  \A f \in 1..i : f \in Finalizers
  BY Numbered DEF TypeOK

LEMMA Sorts ==
  ASSUME TypeOK
  PROVE  /\ pc \in [Agents -> Labels]
         /\ data \in [Agents -> Apps \cup {none}]
         /\ allocated \subseteq Apps
  BY DEF TypeOK, PcOK

(* A step that leaves the list and what the agents hold alone. *)
LEMMA SamePlaces ==
  ASSUME OnePlace, free' = free,
         \A b \in Agents : Holds(b)' => Holds(b) /\ data'[b] = data[b]
  PROVE  OnePlace'
  BY Zenon DEF OnePlace

(* One assignment to each of the functions. *)
LEMMA Jump ==
  ASSUME TypeOK, NEW a \in Agents, NEW l \in Labels, pc' = [pc EXCEPT ![a] = l]
  PROVE  Moves(a, l)
  BY Sorts DEF Moves

LEMMA Take ==
  ASSUME TypeOK, NEW a \in Agents, NEW d \in Apps \cup {none},
         data' = [data EXCEPT ![a] = d]
  PROVE  Takes(a, d)
  BY Sorts DEF Takes

LEMMA Count ==
  ASSUME TypeOK, NEW d \in Apps, written' = [written EXCEPT ![d] = @ + 1]
  PROVE  Writes(d)
  BY DEF TypeOK, Writes

(* An agent that moves between the labels of its kind. *)
LEMMA PcStep ==
  ASSUME TypeOK, NEW a \in Agents, NEW l, Moves(a, l), i' = i,
         a \in Apps => l \in AppLabels,
         a \in Finalizers => l \in FinalizerLabels \ {"new"} /\ pc[a] # "new",
         a = Process => l \in ProcessLabels
  PROVE  PcOK'
<1>1. /\ \A b \in Apps : pc'[b] \in AppLabels
      /\ \A f \in Finalizers : pc'[f] \in FinalizerLabels
      /\ pc'[Process] \in ProcessLabels
  BY Kinds, Zenon DEF TypeOK, PcOK, Moves
<1>2. \A f \in Finalizers : pc'[f] = "new" <=> pc[f] = "new"
  BY Kinds DEF Moves
<1> QED
  BY <1>1, <1>2 DEF TypeOK, PcOK, Moves, At

(* A list and the same list without its head. *)
LEMMA HeadTail ==
  ASSUME NEW S, NEW s \in Seq(S), s # <<>>
  PROVE  /\ Len(s) \in Nat /\ Len(s) > 0
         /\ Head(s) = s[1] /\ Head(s) \in S
         /\ Tail(s) \in Seq(S) /\ Len(Tail(s)) = Len(s) - 1
         /\ \A j \in 1..Len(Tail(s)) : Tail(s)[j] = s[j + 1]
  OBVIOUS

(* A list with a new head. *)
LEMMA Push ==
  ASSUME NEW S, NEW s \in Seq(S), NEW d \in S
  PROVE  /\ <<d>> \o s \in Seq(S) /\ <<d>> \o s # <<>>
         /\ Len(s) \in Nat /\ Len(<<d>> \o s) = Len(s) + 1
         /\ (<<d>> \o s)[1] = d
         /\ \A j \in 1..Len(s) : (<<d>> \o s)[j + 1] = s[j]
  OBVIOUS

(* A step of one agent that touches neither the list nor any data. *)
LEMMA OnlyPc ==
  ASSUME IInv, NEW a \in Agents, NEW l, Moves(a, l),
         pc[a] \notin {"remove", "insert"}, l \notin {"remove", "insert"},
         lock' = lock, free' = free, data' = data,
         allocated' = allocated, written' = written
  PROVE  Locked' /\ OnePlace' /\ Once' /\ Kept'
<1>1. \A b \in Agents : Holds(b)' <=> Holds(b)
  BY DEF Moves, Holds, At
<1>2. Locked'
  BY DEF IInv, Locked, Moves, At
<1>3. OnePlace'
  BY <1>1 DEF IInv, OnePlace
<1>4. Once'
  BY DEF IInv, Once
<1>5. Kept'
  BY <1>1 DEF IInv, Kept
<1> QED
  BY <1>2, <1>3, <1>4, <1>5

(* An agent writes the data that it holds, and holds it no longer. *)
LEMMA WriteStep ==
  ASSUME IInv, NEW a \in Agents \ {Process}, NEW l, Moves(a, l),
         pc[a] \notin {"insert", "exits"}, l \notin {"remove", "insert", "exits"},
         a \in Apps => l = "gone",
         data[a] \in Apps, Holds(a), written[data[a]] = 0,
         Takes(a, none), Writes(data[a]),
         lock' = lock, free' = free, allocated' = allocated
  PROVE  Locked' /\ OnePlace' /\ Accounted' /\ Unwritten' /\ Once' /\ Kept'
<1>1. written'[data[a]] = 1
  BY DEF Writes
<1>2. \A b \in Agents : Holds(b)' => b # a /\ Holds(b) /\ data'[b] = data[b]
  BY DEF Moves, Takes, Holds, At
<1>3. Locked'
  BY DEF IInv, Locked, Moves, Takes, At, Holds
<1>4. OnePlace'
  <2>1. \A j, k \in 1..Len(free') : free'[j] = free'[k] => j = k
    BY DEF IInv, OnePlace
  <2>2. \A b \in Agents :
          Holds(b)' => \A j \in 1..Len(free') : free'[j] # data'[b]
    BY <1>2 DEF IInv, OnePlace
  <2>3. \A b, c \in Agents :
          Holds(b)' /\ Holds(c)' /\ data'[b] = data'[c] => b = c
    BY <1>2 DEF IInv, OnePlace
  <2> QED
    BY <2>1, <2>2, <2>3 DEF OnePlace
<1>5. Accounted'
  <2>1. \A u \in Apps :
          pc'[u] \in {"new", "init", "grab", "remove", "got"} => u \notin allocated'
    BY Kinds DEF IInv, Accounted, Moves
  <2>2. \A b \in Agents : Holds(b)' => data'[b] \in allocated'
    BY <1>2 DEF IInv, Accounted
  <2>3. \A j \in 1..Len(free') : free'[j] \in allocated'
    BY DEF IInv, Accounted
  <2>4. \A d \in Apps : written'[d] > 0 => d \in allocated'
    BY Kinds DEF IInv, Accounted, Writes
  <2> QED
    BY <2>1, <2>2, <2>3, <2>4 DEF IInv, Accounted
<1>6. Unwritten'
  <2>1. \A j \in 1..Len(free') : written'[free'[j]] = 0
    <3>1. \A j \in 1..Len(free) : free[j] \in Apps /\ free[j] # data[a]
      BY Kinds DEF IInv, TypeOK, OnePlace
    <3> QED
      BY <3>1 DEF IInv, Unwritten, Writes
  <2>2. /\ pc'[Process] = "done" <=> pc[Process] = "done"
        /\ pc'[Main] = "exits" <=> pc[Main] = "exits"
    BY Kinds DEF Moves
  <2>3. \A b \in Agents :
          Holds(b)' => \/ written'[data'[b]] = 0
                       \/ b = Main /\ pc'[Main] = "exits" /\ pc'[Process] = "done"
    <3> SUFFICES ASSUME NEW b \in Agents, Holds(b)'
                 PROVE  \/ written'[data'[b]] = 0
                        \/ b = Main /\ pc'[Main] = "exits" /\ pc'[Process] = "done"
      OBVIOUS
    <3>1. Holds(b) /\ data'[b] = data[b] /\ data[b] # data[a] /\ data[b] \in Apps
      BY <1>2, Kinds DEF IInv, TypeOK, OnePlace, Holds
    <3> QED
      BY <2>2, <3>1 DEF IInv, Unwritten, Writes, At
  <2>4. pc'[Main] = "exits" /\ pc'[Process] = "done" => written'[Main] = 1
    BY <2>2, Kinds DEF IInv, Unwritten, Writes, At
  <2> QED
    BY <2>1, <2>3, <2>4 DEF Unwritten, At
<1>7. Once'
  BY DEF IInv, Once, Writes
<1>8. Kept'
  <2> SUFFICES ASSUME NEW d \in allocated'
               PROVE  \/ written'[d] = 1
                      \/ \E j \in 1..Len(free') : free'[j] = d
                      \/ \E b \in Agents : Holds(b)' /\ data'[b] = d
    BY DEF Kept
  <2>1. \A b \in Agents : Holds(b) /\ b # a => Holds(b)' /\ data'[b] = data[b]
    BY DEF Moves, Takes, Holds, At
  <2>2. written[d] = 1 => written'[d] = 1
    <3>1. d \in Apps /\ (written[d] = 1 => d # data[a])
      BY DEF IInv, TypeOK
    <3> QED
      BY <3>1 DEF Writes
  <2> QED
    BY <1>1, <2>1, <2>2 DEF IInv, Kept
<1> QED
  BY <1>3, <1>4, <1>5, <1>6, <1>7, <1>8

(* The invariant holds when the process begins. *)
LEMMA InitIInv == Init => IInv
<1> SUFFICES ASSUME Init
             PROVE  IInv
  OBVIOUS
<1> USE Kinds DEF Init, Holds, At
<1>1. TypeOK
  <2>1. num_threads \in Nat \ {0}
    OBVIOUS
  <2>2. \A f \in Finalizers : At(f, "new") <=> f > i
    BY Numbered
  <2>3. /\ pc \in [Agents -> Labels]
        /\ \A a \in Apps : pc[a] \in AppLabels
        /\ \A a \in Finalizers : pc[a] \in FinalizerLabels
        /\ pc[Process] \in ProcessLabels
    BY Zenon DEF Labels, AppLabels, FinalizerLabels, ProcessLabels
  <2>4. data \in [Agents -> Apps \cup {none}] /\ written \in [Apps -> Nat]
    OBVIOUS
  <2>5. max_iter \in 0..Cores /\ i \in 0..max_iter /\ free \in Seq(Apps)
    BY Numbered
  <2>6. PcOK
    BY <2>2, <2>3, Zenon DEF PcOK
  <2> QED
    BY <2>1, <2>4, <2>5, <2>6, Zenon DEF TypeOK
<1>2. Locked /\ Hands /\ Loop /\ Drained
  BY Zenon DEF Locked, Hands, Loop, Drained
<1>3. OnePlace /\ Unwritten /\ Once
  BY DEF OnePlace, Unwritten, Once
<1>4. Accounted
  <2>1. \A t \in Apps : At(t, "new") \/ t = Main
    OBVIOUS
  <2>2. \A j \in 1..Len(free) : FALSE
    OBVIOUS
  <2>3. \A d \in Apps : ~ (written[d] > 0)
    OBVIOUS
  <2>4. \A t \in Apps :
          pc[t] \in {"new", "init", "grab", "remove", "got"} => t \notin allocated
    BY <2>1, Zenon
  <2>5. \A a \in Agents : Holds(a) => data[a] \in allocated
    OBVIOUS
  <2> QED
    BY <2>2, <2>3, <2>4, <2>5, Zenon DEF Accounted
<1>5. Kept
  BY DEF Kept
<1> QED
  BY <1>1, <1>2, <1>3, <1>4, <1>5 DEF IInv

-----------------------------------------------------------------------------
(* Steps of the threads, and of any agent at the list. *)

(* A thread begins. *)
LEMMA BeginStep ==
  ASSUME NEW t \in Apps, IInv, Begin(t)
  PROVE  IInv'
<1>1. /\ pc[t] = "new" /\ pc[Process] = "app"
      /\ Moves(t, "init")
      /\ UNCHANGED <<compact_thread, lock, free, num_threads, max_iter, i,
                     data, allocated, written, quiet, failed, again>>
  BY Kinds, Jump, Zenon DEF IInv, Labels, AppLabels, At, Goto, state, hist, Begin
<1>2. TypeOK'
  <2>1. PcOK'
    BY <1>1, PcStep, Kinds DEF IInv, AppLabels
  <2> QED
    BY <1>1, <2>1, Kinds DEF IInv, TypeOK
<1>3. Locked' /\ OnePlace' /\ Once' /\ Kept'
  BY <1>1, OnlyPc, Kinds DEF IInv
<1>4. Hands'
  BY <1>1, Kinds DEF IInv, Hands, Moves, At
<1>5. Accounted'
  BY <1>1, Kinds DEF IInv, Accounted, Moves, At, Holds
<1>6. Unwritten'
  BY <1>1, Kinds DEF IInv, Unwritten, Moves, At, Holds
<1>7. Loop'
  BY <1>1, Kinds DEF IInv, Loop, Moves, At
<1>8. Drained'
  BY <1>1, Kinds, Started DEF IInv, Loop, Drained, Moves, At
<1> QED
  BY <1>2, <1>3, <1>4, <1>5, <1>6, <1>7, <1>8 DEF IInv

(* A thread looks for data, or allocates it. *)
LEMMA DataGetStep ==
  ASSUME NEW t \in Apps, IInv, DataGet(t)
  PROVE  IInv'
<1>1. CASE compact_thread = OPTION_COMPACT_THREAD
  <2>1. /\ pc[t] = "init"
        /\ Moves(t, "grab")
        /\ UNCHANGED <<compact_thread, lock, free, num_threads, max_iter, i,
                       data, allocated, written, quiet, failed, again>>
    BY <1>1, Kinds, Jump DEF IInv, Labels, AppLabels, At, Goto, state, hist,
       DataGet
  <2>2. TypeOK'
    <3>1. PcOK'
      BY <2>1, PcStep, Kinds DEF IInv, AppLabels
    <3> QED
      BY <2>1, <1>1, <3>1, Kinds DEF IInv, TypeOK
  <2>3. Locked' /\ OnePlace' /\ Once' /\ Kept'
    BY <2>1, OnlyPc, Kinds DEF IInv
  <2>4. Hands'
    BY <2>1, <1>1, Kinds DEF IInv, Hands, Moves, At
  <2>5. Accounted'
    BY <2>1, <1>1, Kinds DEF IInv, Accounted, Moves, At, Holds
  <2>6. Unwritten'
    BY <2>1, <1>1, Kinds DEF IInv, Unwritten, Moves, At, Holds
  <2>7. Loop'
    BY <2>1, <1>1, Kinds DEF IInv, Loop, Moves, At
  <2>8. Drained'
    BY <2>1, <1>1, Kinds, Started DEF IInv, Drained, Moves, At
  <2> QED
    BY <2>2, <2>3, <2>4, <2>5, <2>6, <2>7, <2>8 DEF IInv
<1>2. CASE compact_thread # OPTION_COMPACT_THREAD
  <2>1. /\ pc[t] = "init" /\ data[t] = none
        /\ Moves(t, "run") /\ Takes(t, t)
        /\ allocated' = allocated \cup {t}
        /\ UNCHANGED <<compact_thread, lock, free, num_threads, max_iter, i,
                       written, quiet, failed, again>>
    BY <1>2, Kinds, Jump, Take DEF IInv, Labels, AppLabels, At, Goto, state,
       hist, DataGet, Hands
  <2>2. t \notin allocated
    BY <2>1 DEF IInv, Accounted
  <2>3. TypeOK'
    <3>1. PcOK'
      BY <2>1, PcStep, Kinds DEF IInv, AppLabels
    <3> QED
      BY <2>1, <2>2, <1>2, <3>1, Kinds DEF IInv, TypeOK, Takes
  <2>4. Locked'
    BY <2>1, <1>2, Kinds DEF IInv, Locked, Moves, Takes, At
  <2>5. Loop'
    BY <2>1, <1>2, Kinds DEF IInv, Loop, Moves, Takes, At
  <2>6. Hands'
    BY <2>1, <1>2, Kinds, Sorts DEF IInv, Hands, Moves, Takes, At
  <2>7. OnePlace'
    BY <2>1, <2>2, <1>2, Kinds DEF IInv, OnePlace, Accounted, Moves, Takes,
       At, Holds
  <2>8. Accounted'
    BY <2>1, <2>2, <1>2, Kinds DEF IInv, Accounted, Moves, Takes, At, Holds
  <2>9. Unwritten'
    <3>1. written[t] = 0
      BY <2>2 DEF IInv, TypeOK, Accounted
    <3>2. \A b \in Agents :
            Holds(b)' => \/ data'[b] = t
                         \/ Holds(b) /\ data'[b] = data[b]
      BY <2>1 DEF Moves, Takes, Holds, At
    <3>3. /\ pc'[Process] = "done" <=> pc[Process] = "done"
          /\ pc'[Main] = "exits" <=> pc[Main] = "exits"
      BY <2>1, Kinds DEF Moves
    <3> QED
      BY <2>1, <3>1, <3>2, <3>3 DEF IInv, Unwritten, At
  <2>10. Once'
    BY <2>1, <1>2, Kinds DEF IInv, Once, Moves, Takes, At
  <2>11. Kept'
    <3> SUFFICES ASSUME NEW d \in allocated'
                 PROVE  \/ written'[d] = 1
                        \/ \E j \in 1..Len(free') : free'[j] = d
                        \/ \E b \in Agents : Holds(b)' /\ data'[b] = d
      BY DEF Kept
    <3>1. \A b \in Agents : Holds(b) => Holds(b)' /\ data'[b] = data[b]
      BY <2>1 DEF Moves, Takes, Holds, At
    <3>2. Holds(t)' /\ data'[t] = t
      BY <2>1, Kinds DEF Moves, Takes, Holds, At
    <3> QED
      BY <2>1, <3>1, <3>2, Kinds DEF IInv, Kept
  <2>12. Drained'
    BY <2>1, <1>2, Kinds, Started DEF IInv, Drained, Moves, Takes, At
  <2> QED
    BY <2>3, <2>4, <2>5, <2>6, <2>7, <2>8, <2>9, <2>10, <2>11, <2>12 DEF IInv
<1> QED
  BY <1>1, <1>2

(* A thread has found data, or allocates it. *)
LEMMA AllocateStep ==
  ASSUME NEW t \in Apps, IInv, Allocate(t)
  PROVE  IInv'
<1>1. CASE data[t] # none
  <2>1. /\ pc[t] = "got"
        /\ Moves(t, "run")
        /\ UNCHANGED <<compact_thread, lock, free, num_threads, max_iter, i,
                       data, allocated, written, quiet, failed, again>>
    BY <1>1, Kinds, Jump, Zenon DEF IInv, Labels, AppLabels, At, Goto, state, hist,
       Allocate
  <2>2. TypeOK'
    <3>1. PcOK'
      BY <2>1, PcStep, Kinds DEF IInv, AppLabels
    <3> QED
      BY <2>1, <1>1, <3>1, Kinds DEF IInv, TypeOK
  <2>3. Locked' /\ OnePlace' /\ Once' /\ Kept'
    BY <2>1, OnlyPc, Kinds DEF IInv
  <2>4. Hands'
    BY <2>1, <1>1, Kinds DEF IInv, Hands, Moves, At
  <2>5. Accounted'
    BY <2>1, <1>1, Kinds DEF IInv, Accounted, Moves, At, Holds
  <2>6. Unwritten'
    BY <2>1, <1>1, Kinds DEF IInv, Unwritten, Moves, At, Holds
  <2>7. Loop'
    BY <2>1, <1>1, Kinds DEF IInv, Loop, Moves, At
  <2>8. Drained'
    BY <2>1, <1>1, Kinds, Started DEF IInv, Drained, Moves, At
  <2> QED
    BY <2>2, <2>3, <2>4, <2>5, <2>6, <2>7, <2>8 DEF IInv
<1>2. CASE data[t] = none
  <2>1. /\ pc[t] = "got" /\ compact_thread = OPTION_COMPACT_THREAD
        /\ num_threads' = num_threads + 1
        /\ Moves(t, "run") /\ Takes(t, t)
        /\ allocated' = allocated \cup {t}
        /\ UNCHANGED <<compact_thread, lock, free, max_iter, i, written,
                       quiet, failed, again>>
    BY <1>2, Kinds, Jump, Take, Zenon DEF IInv, Labels, AppLabels, At, Goto, state,
       hist, Allocate, Hands
  <2>2. t \notin allocated
    BY <2>1 DEF IInv, Accounted
  <2>3. TypeOK'
    <3>1. PcOK'
      BY <2>1, PcStep, Kinds DEF IInv, AppLabels
    <3> QED
      BY <2>1, <2>2, <1>2, <3>1, Kinds DEF IInv, TypeOK, Takes
  <2>4. Locked'
    BY <2>1, <1>2, Kinds DEF IInv, Locked, Moves, Takes, At
  <2>5. Loop'
    BY <2>1, <1>2, Kinds DEF IInv, Loop, Moves, Takes, At
  <2>6. Hands'
    BY <2>1, <1>2, Kinds, Sorts DEF IInv, Hands, Moves, Takes, At
  <2>7. OnePlace'
    BY <2>1, <2>2, <1>2, Kinds DEF IInv, OnePlace, Accounted, Moves, Takes,
       At, Holds
  <2>8. Accounted'
    BY <2>1, <2>2, <1>2, Kinds DEF IInv, Accounted, Moves, Takes, At, Holds
  <2>9. Unwritten'
    <3>1. written[t] = 0
      BY <2>2 DEF IInv, TypeOK, Accounted
    <3>2. \A b \in Agents :
            Holds(b)' => \/ data'[b] = t
                         \/ Holds(b) /\ data'[b] = data[b]
      BY <2>1 DEF Moves, Takes, Holds, At
    <3>3. /\ pc'[Process] = "done" <=> pc[Process] = "done"
          /\ pc'[Main] = "exits" <=> pc[Main] = "exits"
      BY <2>1, Kinds DEF Moves
    <3> QED
      BY <2>1, <3>1, <3>2, <3>3 DEF IInv, Unwritten, At
  <2>10. Once'
    BY <2>1, <1>2, Kinds DEF IInv, Once, Moves, Takes, At
  <2>11. Kept'
    <3> SUFFICES ASSUME NEW d \in allocated'
                 PROVE  \/ written'[d] = 1
                        \/ \E j \in 1..Len(free') : free'[j] = d
                        \/ \E b \in Agents : Holds(b)' /\ data'[b] = d
      BY DEF Kept
    <3>1. \A b \in Agents : Holds(b) => Holds(b)' /\ data'[b] = data[b]
      BY <1>2, <2>1 DEF Moves, Takes, Holds, At
    <3>2. Holds(t)' /\ data'[t] = t
      BY <2>1, Kinds DEF Moves, Takes, Holds, At
    <3> QED
      BY <2>1, <3>1, <3>2, Kinds DEF IInv, Kept
  <2>12. Drained'
    BY <2>1, <1>2, Kinds, Started DEF IInv, Drained, Moves, Takes, At
  <2> QED
    BY <2>3, <2>4, <2>5, <2>6, <2>7, <2>8, <2>9, <2>10, <2>11, <2>12 DEF IInv
<1> QED
  BY <1>1, <1>2

(* A put that is the only one of its thread. *)
LEMMA PutOnce ==
  ASSUME NEW t, PutDone(t), again' = {}
  PROVE  /\ Goto(t, "gone")
         /\ data' = [data EXCEPT ![t] = none]
         /\ UNCHANGED again
  BY DEF PutDone

(* A thread ends. *)
LEMMA DataPutStep ==
  ASSUME NEW t \in Apps, IInv, DataPut(t), again' = {}
  PROVE  IInv'
<1>1. CASE compact_thread # OPTION_NO_COMPACT_THREAD
  <2>1. /\ pc[t] = "run" /\ (t = Main => pc[Process] # "app")
        /\ Moves(t, "put")
        /\ UNCHANGED <<compact_thread, lock, free, num_threads, max_iter, i,
                       data, allocated, written, quiet, failed, again>>
    BY <1>1, Kinds, Jump DEF IInv, Labels, AppLabels, At, Goto, state, hist,
       DataPut
  <2>2. TypeOK'
    <3>1. PcOK'
      BY <2>1, PcStep, Kinds DEF IInv, AppLabels
    <3> QED
      BY <2>1, <1>1, <3>1, Kinds DEF IInv, TypeOK
  <2>3. Locked' /\ OnePlace' /\ Once' /\ Kept'
    BY <2>1, OnlyPc, Kinds DEF IInv
  <2>4. Hands'
    BY <2>1, <1>1, Kinds DEF IInv, Hands, Moves, At
  <2>5. Accounted'
    BY <2>1, <1>1, Kinds DEF IInv, Accounted, Moves, At, Holds
  <2>6. Unwritten'
    BY <2>1, <1>1, Kinds DEF IInv, Unwritten, Moves, At, Holds
  <2>7. Loop'
    BY <2>1, <1>1, Kinds DEF IInv, Loop, Moves, At
  <2>8. Drained'
    BY <2>1, <1>1, Kinds, Started DEF IInv, Drained, Moves, At
  <2> QED
    BY <2>2, <2>3, <2>4, <2>5, <2>6, <2>7, <2>8 DEF IInv
<1>2. CASE compact_thread = OPTION_NO_COMPACT_THREAD
  <2>1. /\ pc[t] = "run" /\ (t = Main => pc[Process] # "app")
        /\ data[t] \in Apps /\ Holds(t) /\ written[data[t]] = 0
        /\ Moves(t, "gone") /\ Takes(t, none)
        /\ Writes(data[t])
        /\ UNCHANGED <<compact_thread, lock, free, num_threads, max_iter, i,
                       allocated, quiet, failed, again>>
    <3>1. pc[t] = "run" /\ (t = Main => pc[Process] # "app") /\ data[t] # none
      BY <1>2, Kinds DEF IInv, Hands, DataPut, At
    <3>2. data[t] \in Apps /\ Holds(t) /\ written[data[t]] = 0
      BY <3>1, Kinds, Sorts DEF IInv, Unwritten, Holds, At
    <3>3. Moves(t, "gone") /\ Takes(t, none) /\ UNCHANGED again
      BY <1>2, PutOnce, Kinds, Jump, Take DEF IInv, Labels, AppLabels, Goto, DataPut
    <3>4. Writes(data[t])
      BY <1>2, <3>2, Count DEF IInv, Write, DataPut
    <3> QED
      BY <1>2, <3>1, <3>2, <3>3, <3>4 DEF state, DataPut
  <2>2. TypeOK'
    <3>1. PcOK'
      BY <2>1, PcStep, Kinds DEF IInv, AppLabels
    <3> QED
      BY <2>1, <1>2, <3>1, Kinds DEF IInv, TypeOK, Takes, Writes
  <2>3. Locked' /\ OnePlace' /\ Accounted' /\ Unwritten' /\ Once' /\ Kept'
    BY <2>1, WriteStep, Kinds
  <2>4. Hands'
    BY <2>1, <1>2, Kinds, Sorts, SMTT(30) DEF IInv, Hands, Moves, Takes, Writes, At
  <2>5. Loop'
    BY <2>1, <1>2, Kinds DEF IInv, Loop, Moves, Takes, Writes, At
  <2>6. Drained'
    BY <2>1, <1>2, Kinds, Started DEF IInv, Drained, Moves, Takes, Writes, At
  <2> QED
    BY <2>2, <2>3, <2>4, <2>5, <2>6 DEF IInv
<1> QED
  BY <1>1, <1>2

(* A thread that ends gets the lock. *)
LEMMA PutLockStep ==
  ASSUME NEW t \in Apps, IInv, PutLock(t)
  PROVE  IInv'
<1>1. /\ pc[t] = "put" /\ lock = none /\ lock' = t
      /\ Moves(t, "insert")
      /\ UNCHANGED <<compact_thread, free, num_threads, max_iter, i, data,
                     allocated, written, quiet, failed, again>>
  BY Kinds, Jump, Zenon DEF IInv, Labels, AppLabels, At, Goto, state, hist, PutLock
<1>2. TypeOK'
  <2>1. PcOK'
    BY <1>1, PcStep, Kinds DEF IInv, AppLabels
  <2> QED
    BY <1>1, <2>1, Kinds DEF IInv, TypeOK
<1>3. Locked'
  BY <1>1, Kinds DEF IInv, Locked, Moves, At
<1>4. Loop'
  BY <1>1, Kinds DEF IInv, Loop, Moves, At
<1>5. Hands'
  BY <1>1, Kinds DEF IInv, Hands, Moves, At
<1>6. OnePlace'
  BY <1>1, Kinds DEF IInv, OnePlace, Moves, At, Holds
<1>7. Accounted'
  BY <1>1, Kinds DEF IInv, Accounted, Moves, At, Holds
<1>8. Unwritten'
  BY <1>1, Kinds DEF IInv, Unwritten, Moves, At, Holds
<1>9. Once'
  BY <1>1, Kinds DEF IInv, Once, Moves, At
<1>10. Kept'
  BY <1>1, Kinds DEF IInv, Kept, Moves, At, Holds
<1>11. Drained'
  BY <1>1, Kinds, Started DEF IInv, Drained, Moves, At
<1> QED
  BY <1>2, <1>3, <1>4, <1>5, <1>6, <1>7, <1>8, <1>9, <1>10, <1>11 DEF IInv

(* A thread that ends puts its data on the list. *)
LEMMA InsertStep ==
  ASSUME NEW t \in Apps, IInv, Insert(t), again' = {}
  PROVE  IInv'
<1>1. /\ pc[t] = "insert" /\ lock = t /\ lock' = none
      /\ data[t] \in Apps /\ Holds(t)
      /\ free' = <<data[t]>> \o free
      /\ Moves(t, "gone") /\ Takes(t, none)
      /\ UNCHANGED <<compact_thread, num_threads, max_iter, i, allocated,
                     written, quiet, failed, again>>
  <2>1. pc[t] = "insert" /\ lock = t
    BY Kinds DEF IInv, Locked, Insert, At
  <2>2. data[t] \in Apps /\ Holds(t)
    BY <2>1, Kinds, Sorts DEF IInv, Hands, Holds, At
  <2>3. Moves(t, "gone") /\ Takes(t, none) /\ UNCHANGED again
    BY PutOnce, Kinds, Jump, Take, Zenon
    DEF IInv, Labels, AppLabels, Goto, Insert
  <2> QED
    BY <2>1, <2>2, <2>3 DEF Insert
<1>2. /\ free' \in Seq(Apps) /\ free' # <<>>
      /\ Len(free) \in Nat /\ Len(free') = Len(free) + 1
      /\ free'[1] = data[t]
      /\ \A j \in 1..Len(free) : free'[j + 1] = free[j]
  BY <1>1, Push DEF IInv, TypeOK
<1>3. \A j \in 1..Len(free') :
        j = 1 \/ (j - 1 \in 1..Len(free) /\ free'[j] = free[j - 1])
  BY <1>2
<1>4. \A b \in Agents : Holds(b)' => b # t /\ Holds(b) /\ data'[b] = data[b]
  BY <1>1 DEF Moves, Takes, Holds, At
<1>5. TypeOK'
  <2>1. PcOK'
    BY <1>1, PcStep, Kinds DEF IInv, AppLabels
  <2> QED
    BY <1>1, <1>2, <2>1, Kinds DEF IInv, TypeOK, Takes
<1>6. Locked'
  BY <1>1, <1>2, Kinds, Zenon DEF IInv, Locked, Moves, Takes, At
<1>7. Loop'
  BY <1>1, Kinds DEF IInv, Loop, Moves, Takes, At
<1>8. Hands'
  <2>1. \A b \in Agents \ {t} : pc'[b] = pc[b] /\ data'[b] = data[b]
    BY <1>1 DEF Moves, Takes
  <2>2. pc'[t] = "gone" /\ data'[t] = none
    BY <1>1 DEF Moves, Takes
  <2>3. \A u \in Apps :
          /\ pc'[u] \in {"run", "put", "insert", "exits"} => data'[u] # none
          /\ pc'[u] \in {"grab", "remove", "got"} =>
               compact_thread = OPTION_COMPACT_THREAD
          /\ pc'[u] = "exits" => u = Main
    BY <2>1, <2>2, Kinds DEF IInv, Hands, At
  <2>4. /\ pc'[Main] \in {"run", "put", "insert", "gone", "exits"}
        /\ pc'[Main] # "gone" => data'[Main] = Main
        /\ pc'[Process] = "app" => pc'[Main] = "run"
    BY <1>1, <2>1, <2>2, Kinds DEF IInv, Hands, At
  <2> QED
    BY <1>1, <2>1, <2>2, <2>3, <2>4, Kinds, Zenon DEF IInv, Hands, At
<1>9. OnePlace'
  <2>1. \A j, k \in 1..Len(free') : free'[j] = free'[k] => j = k
    <3>1. \A j, k \in 1..Len(free) : free[j] = free[k] => j = k
      BY DEF IInv, OnePlace
    <3>2. \A j \in 1..Len(free) : free[j] # data[t]
      BY <1>1, Kinds DEF IInv, OnePlace
    <3> SUFFICES ASSUME NEW j \in 1..Len(free'), NEW k \in 1..Len(free'),
                        free'[j] = free'[k]
                 PROVE  j = k
      OBVIOUS
    <3>3. CASE j = 1 \/ k = 1
      BY <1>2, <1>3, <3>2, <3>3
    <3>4. CASE j # 1 /\ k # 1
      <4>1. j - 1 = k - 1
        BY <1>3, <3>1, <3>4
      <4> QED
        BY <1>2, <4>1
    <3> QED
      BY <3>3, <3>4
  <2>2. \A b \in Agents :
          Holds(b)' => \A j \in 1..Len(free') : free'[j] # data'[b]
    <3> SUFFICES ASSUME NEW b \in Agents, Holds(b)', NEW j \in 1..Len(free')
                 PROVE  free'[j] # data'[b]
      OBVIOUS
    <3>1. data[b] # data[t] /\ \A k \in 1..Len(free) : free[k] # data[b]
      BY <1>1, <1>4, Kinds DEF IInv, OnePlace
    <3> QED
      BY <1>2, <1>3, <1>4, <3>1
  <2>3. \A b, c \in Agents :
          Holds(b)' /\ Holds(c)' /\ data'[b] = data'[c] => b = c
    BY <1>4 DEF IInv, OnePlace
  <2> QED
    BY <2>1, <2>2, <2>3 DEF OnePlace
<1>10. Accounted'
  <2>1. \A u \in Apps :
          pc'[u] \in {"new", "init", "grab", "remove", "got"} => u \notin allocated'
    BY <1>1, Kinds DEF IInv, Accounted, Moves
  <2>2. \A b \in Agents : Holds(b)' => data'[b] \in allocated'
    BY <1>1, <1>4 DEF IInv, Accounted
  <2>3. \A j \in 1..Len(free') : free'[j] \in allocated'
    BY <1>1, <1>2, <1>3, Kinds DEF IInv, Accounted
  <2>4. \A d \in Apps : written'[d] > 0 => d \in allocated'
    BY <1>1 DEF IInv, Accounted
  <2> QED
    BY <1>1, <2>1, <2>2, <2>3, <2>4 DEF IInv, Accounted
<1>11. Unwritten'
  <2>1. written[data[t]] = 0
    BY <1>1, Kinds DEF IInv, Unwritten, At
  <2>2. \A j \in 1..Len(free') : written'[free'[j]] = 0
    <3> SUFFICES ASSUME NEW j \in 1..Len(free')
                 PROVE  written[free'[j]] = 0
      BY <1>1
    <3>1. CASE j = 1
      BY <1>2, <2>1, <3>1
    <3>2. CASE j - 1 \in 1..Len(free) /\ free'[j] = free[j - 1]
      BY <3>2 DEF IInv, Unwritten
    <3> QED
      BY <1>3, <3>1, <3>2
  <2>3. /\ pc'[Process] = "done" <=> pc[Process] = "done"
        /\ pc'[Main] = "exits" <=> pc[Main] = "exits"
    BY <1>1, Kinds DEF Moves
  <2> QED
    BY <1>1, <1>4, <2>2, <2>3 DEF IInv, Unwritten, At
<1>12. Once'
  BY <1>1, Kinds DEF IInv, Once, Moves, Takes, At
<1>13. Kept'
  <2> SUFFICES ASSUME NEW d \in allocated'
               PROVE  \/ written'[d] = 1
                      \/ \E j \in 1..Len(free') : free'[j] = d
                      \/ \E b \in Agents : Holds(b)' /\ data'[b] = d
    BY DEF Kept
  <2>1. \A b \in Agents : Holds(b) /\ b # t => Holds(b)' /\ data'[b] = data[b]
    BY <1>1 DEF Moves, Takes, Holds, At
  <2>2. d = data[t] \/ (\E j \in 1..Len(free) : free[j] = d) =>
          \E j \in 1..Len(free') : free'[j] = d
    <3>1. 1 \in 1..Len(free') /\ \A j \in 1..Len(free) : j + 1 \in 1..Len(free')
      BY <1>2
    <3> QED
      BY <1>2, <3>1
  <2> QED
    BY <1>1, <2>1, <2>2 DEF IInv, Kept
<1>14. Drained'
  BY <1>1, Kinds, Started DEF IInv, Drained, Moves, Takes, At
<1> QED
  BY <1>5, <1>6, <1>7, <1>8, <1>9, <1>10, <1>11, <1>12, <1>13, <1>14 DEF IInv

(* An agent gets the lock and reads the head of the list. *)
LEMMA GrabStep ==
  ASSUME NEW a \in Agents, IInv, Grab(a)
  PROVE  IInv'
<1>1. /\ pc[a] = "grab" /\ data[a] = none
      /\ lock = none /\ lock' = a
      /\ Moves(a, "remove")
      /\ Takes(a, IF free = <<>> THEN none ELSE Head(free))
      /\ UNCHANGED <<compact_thread, free, num_threads, max_iter, i,
                     allocated, written, quiet, failed, again>>
  <2>1. free # <<>> => Head(free) \in Apps
    BY HeadTail DEF IInv, TypeOK
  <2>2. pc[a] = "grab" /\ data[a] = none
    BY DEF IInv, Hands, Grab, At
  <2>3. Moves(a, "remove")
    BY Jump, Zenon DEF IInv, Labels, AppLabels, Goto, Grab
  <2> QED
    BY <2>1, <2>2, <2>3, Take, Zenon DEF IInv, state, hist, Grab
<1>2. TypeOK'
  <2>1. PcOK'
    BY <1>1, PcStep, Kinds DEF IInv, AppLabels, FinalizerLabels, ProcessLabels
  <2> QED
    BY <1>1, <2>1, Kinds DEF IInv, TypeOK, Hands, Takes
<1>3. Locked'
  BY <1>1, Kinds DEF IInv, Locked, Moves, Takes, At
<1>4. Loop'
  BY <1>1, Kinds DEF IInv, Loop, Moves, Takes, At
<1>5. Hands'
  BY <1>1, Kinds, Sorts DEF IInv, Hands, Moves, Takes, At
<1>6. OnePlace'
  <2>1. \A b \in Agents : Holds(b)' => Holds(b) /\ data'[b] = data[b]
    BY <1>1 DEF Moves, Takes, At, Holds
  <2> QED
    BY <1>1, <2>1, SamePlaces, Zenon DEF IInv
<1>7. Accounted'
  BY <1>1, Kinds DEF IInv, Accounted, Moves, Takes, At, Holds
<1>8. Unwritten'
  BY <1>1, Kinds DEF IInv, Unwritten, Moves, Takes, At, Holds
<1>9. Once'
  BY <1>1, Kinds DEF IInv, Once, Moves, Takes, At
<1>10. Kept'
  BY <1>1, Kinds DEF IInv, Kept, Moves, Takes, At, Holds
<1>11. Drained'
  <2> SUFFICES ASSUME quiet
               PROVE  Drained'
    BY <1>1 DEF Drained
  <2>1. \A t \in Apps : pc[t] \in {"new", "gone", "exits"} /\ t # a
    BY <1>1 DEF IInv, Drained
  <2>2. \A f \in Finalizers :
          pc'[f] = "gone" \/ (pc'[f] = "loop" /\ data'[f] = none) => free = <<>>
    BY <1>1, Kinds DEF IInv, Drained, Moves, Takes, At
  <2>3. \A f \in 1..i : f \in Finalizers /\ (pc[f] = "gone" => pc'[f] = "gone")
    BY <1>1, Kinds, Numbered DEF IInv, TypeOK, Moves
  <2>4. pc'[Process] # "remove" => /\ pc'[Process] = pc[Process]
                                    /\ data'[Process] = data[Process]
    BY <1>1, Kinds DEF Moves, Takes
  <2> QED
    BY <1>1, <2>1, <2>2, <2>3, <2>4, Kinds DEF IInv, Drained, Moves, At
<1> QED
  BY <1>2, <1>3, <1>4, <1>5, <1>6, <1>7, <1>8, <1>9, <1>10, <1>11 DEF IInv

(* An agent takes the head off the list and releases the lock. *)
LEMMA RemoveStep ==
  ASSUME NEW a \in Agents, IInv, Remove(a)
  PROVE  IInv'
<1>1. /\ pc[a] = "remove" /\ lock = a /\ lock' = none
      /\ Moves(a, CASE a \in Apps -> "got" [] a \in Finalizers -> "loop"
                  [] OTHER -> "create")
      /\ data[a] = IF free = <<>> THEN none ELSE Head(free)
      /\ free' = IF free = <<>> THEN free ELSE Tail(free)
      /\ UNCHANGED <<compact_thread, num_threads, max_iter, i, data,
                     allocated, written, quiet, failed, again>>
  <2>1. data[a] = IF free = <<>> THEN none ELSE Head(free)
    BY DEF IInv, Locked, Remove, At
  <2>2. free # <<>> => data[a] # none
    BY <2>1, HeadTail, Kinds DEF IInv, TypeOK
  <2>3. Moves(a, CASE a \in Apps -> "got" [] a \in Finalizers -> "loop"
                   [] OTHER -> "create")
    <3> DEFINE l == CASE a \in Apps -> "got" [] a \in Finalizers -> "loop"
                      [] OTHER -> "create"
    <3>1. l \in Labels
      BY DEF Labels, AppLabels, FinalizerLabels, ProcessLabels
    <3> QED
      BY <3>1, Jump, Zenon DEF IInv, Goto, Remove
  <2>4. pc[a] = "remove" /\ lock = a
    BY DEF IInv, Locked, Remove, At
  <2> QED
    BY <2>1, <2>2, <2>3, <2>4 DEF hist, Remove
<1>2. \/ free = <<>> /\ data[a] = none /\ free' = free
      \/ /\ free # <<>> /\ data[a] = free[1] /\ data[a] \in Apps
         /\ Len(free) \in Nat /\ Len(free) > 0
         /\ free' \in Seq(Apps) /\ Len(free') = Len(free) - 1
         /\ \A j \in 1..Len(free') : free'[j] = free[j + 1]
  BY <1>1, HeadTail DEF IInv, TypeOK
<1>3. \A b \in Agents \ {a} : Holds(b)' <=> Holds(b)
  BY <1>1 DEF Moves, Holds, At
<1>4. \A j \in 1..Len(free') :
        \E k \in 1..Len(free) : free'[j] = free[k] /\ (data[a] # none => k = j + 1)
  <2>1. CASE free = <<>>
    BY <1>2, <2>1
  <2>2. CASE free # <<>>
    <3>1. \A j \in 1..Len(free') : j + 1 \in 1..Len(free) /\ free'[j] = free[j + 1]
      BY <1>2, <2>2
    <3> QED
      BY <3>1
  <2> QED
    BY <2>1, <2>2
<1>5. TypeOK'
  <2>1. PcOK'
    BY <1>1, PcStep, Kinds DEF IInv, AppLabels, FinalizerLabels, ProcessLabels
  <2> QED
    BY <1>1, <1>2, <2>1, Kinds DEF IInv, TypeOK
<1>6. Locked'
  BY <1>1, Kinds DEF IInv, Locked, Moves, At
<1>7. Loop'
  BY <1>1, Kinds, Sorts DEF IInv, Loop, Moves, At
<1>8. Hands'
  BY <1>1, Kinds, Sorts DEF IInv, Hands, Moves, At
<1>9. OnePlace'
  <2>1. \A j, k \in 1..Len(free') : free'[j] = free'[k] => j = k
    <3>1. \A j, k \in 1..Len(free) : free[j] = free[k] => j = k
      BY DEF IInv, OnePlace
    <3>2. CASE free = <<>>
      BY <1>2, <3>1, <3>2
    <3>3. CASE free # <<>>
      <4>1. \A j \in 1..Len(free') : j + 1 \in 1..Len(free) /\ free'[j] = free[j + 1]
        BY <1>2, <3>3
      <4>2. \A j, k \in 1..Len(free') : free'[j] = free'[k] => j + 1 = k + 1
        BY <3>1, <4>1
      <4> QED
        BY <1>2, <3>3, <4>2
    <3> QED
      BY <3>2, <3>3
  <2>2. \A b \in Agents :
          Holds(b)' => \A j \in 1..Len(free') : free'[j] # data'[b]
    <3> SUFFICES ASSUME NEW b \in Agents, Holds(b)', NEW j \in 1..Len(free')
                 PROVE  free'[j] # data'[b]
      OBVIOUS
    <3>1. PICK k \in 1..Len(free) : free'[j] = free[k] /\ (data[a] # none => k = j + 1)
      BY <1>4
    <3>2. CASE b = a
      <4>1. data[a] # none /\ data[a] = free[1] /\ 1 \in 1..Len(free) /\ k # 1
        BY <1>1, <1>2, <3>1, <3>2 DEF Holds
      <4> QED
        BY <1>1, <3>1, <3>2, <4>1 DEF IInv, OnePlace
    <3>3. CASE b # a
      BY <1>1, <1>3, <3>1, <3>3 DEF IInv, OnePlace
    <3> QED
      BY <3>2, <3>3
  <2>3. \A b, c \in Agents :
          Holds(b)' /\ Holds(c)' /\ data'[b] = data'[c] => b = c
    <3>1. Holds(a)' => \A b \in Agents \ {a} : Holds(b) => data[b] # data[a]
      <4>1. Holds(a)' => data[a] = free[1] /\ 1 \in 1..Len(free)
        BY <1>1, <1>2 DEF Holds
      <4> QED
        BY <4>1 DEF IInv, OnePlace
    <3> QED
      BY <1>1, <1>3, <3>1 DEF IInv, OnePlace
  <2> QED
    BY <2>1, <2>2, <2>3 DEF OnePlace
<1>10. Accounted'
  <2>1. \A j \in 1..Len(free') : free'[j] \in allocated'
    BY <1>1, <1>4 DEF IInv, Accounted
  <2>2. \A b \in Agents : Holds(b)' => data'[b] \in allocated'
    <3>1. Holds(a)' => data[a] = free[1] /\ 1 \in 1..Len(free)
      BY <1>1, <1>2 DEF Holds
    <3> QED
      BY <1>1, <1>3, <3>1 DEF IInv, Accounted
  <2>3. \A t \in Apps :
          pc'[t] \in {"new", "init", "grab", "remove", "got"} => t \notin allocated'
    BY <1>1, Kinds DEF IInv, Accounted, Moves
  <2> QED
    BY <1>1, <2>1, <2>2, <2>3 DEF IInv, Accounted
<1>11. Unwritten'
  <2>1. \A j \in 1..Len(free') : written'[free'[j]] = 0
    BY <1>1, <1>4 DEF IInv, Unwritten
  <2>2. /\ pc'[Process] = "done" <=> pc[Process] = "done"
        /\ pc'[Main] = "exits" <=> pc[Main] = "exits"
    BY <1>1, Kinds DEF Moves
  <2>3. \A b \in Agents :
          Holds(b)' => \/ written'[data'[b]] = 0
                       \/ b = Main /\ pc'[Main] = "exits" /\ pc'[Process] = "done"
    <3>1. Holds(a)' => data[a] = free[1] /\ 1 \in 1..Len(free)
      BY <1>1, <1>2 DEF Holds
    <3> QED
      BY <1>1, <1>3, <2>2, <3>1 DEF IInv, Unwritten, At
  <2> QED
    BY <1>1, <2>1, <2>2, <2>3 DEF IInv, Unwritten, At
<1>12. Once'
  BY <1>1, Kinds DEF IInv, Once, Moves, At
<1>13. Kept'
  <2> SUFFICES ASSUME NEW d \in allocated'
               PROVE  \/ written'[d] = 1
                      \/ \E j \in 1..Len(free') : free'[j] = d
                      \/ \E b \in Agents : Holds(b)' /\ data'[b] = d
    BY DEF Kept
  <2>1. \A j \in 1..Len(free) :
          \/ \E k \in 1..Len(free') : free'[k] = free[j]
          \/ Holds(a)' /\ data'[a] = free[j]
    <3> SUFFICES ASSUME NEW j \in 1..Len(free)
                 PROVE  \/ \E k \in 1..Len(free') : free'[k] = free[j]
                        \/ Holds(a)' /\ data'[a] = free[j]
      OBVIOUS
    <3>1. CASE data[a] = none
      BY <1>2, <3>1, Kinds
    <3>2. CASE data[a] # none /\ j = 1
      BY <1>1, <1>2, <3>2, Kinds DEF Moves, Holds, At
    <3>3. CASE data[a] # none /\ j # 1
      <4>1. j - 1 \in 1..Len(free') /\ free'[j - 1] = free[j]
        BY <1>2, <3>3
      <4> QED
        BY <4>1
    <3> QED
      BY <3>1, <3>2, <3>3
  <2>2. ~ Holds(a)
    BY <1>1 DEF Holds, At
  <2> QED
    BY <1>1, <1>3, <2>1, <2>2 DEF IInv, Kept
<1>14. Drained'
  BY <1>1, <1>2, Kinds, Sorts, Started DEF IInv, Drained, Moves, At
<1> QED
  BY <1>5, <1>6, <1>7, <1>8, <1>9, <1>10, <1>11, <1>12, <1>13, <1>14 DEF IInv

-----------------------------------------------------------------------------
(* Steps at the end of the process. *)

(* A worker writes what it has, or is done. *)
LEMMA FinalizeStep ==
  ASSUME NEW f \in Finalizers, IInv, Finalize(f)
  PROVE  IInv'
<1>1. CASE data[f] = none
  <2>1. /\ pc[f] = "loop"
        /\ Moves(f, "gone") /\ Takes(f, none)
        /\ UNCHANGED <<compact_thread, lock, free, num_threads, max_iter, i,
                       allocated, written, quiet, failed, again>>
    BY <1>1, Kinds, Jump, Take, Zenon DEF IInv, Labels, FinalizerLabels, At, Goto,
       state, hist, Finalize
  <2>2. \A b \in Agents : Holds(b)' => b # f /\ Holds(b) /\ data'[b] = data[b]
    BY <2>1 DEF Moves, Takes, Holds, At
  <2>3. TypeOK'
    <3>1. PcOK'
      BY <2>1, PcStep, Kinds DEF IInv, FinalizerLabels
    <3> QED
      BY <2>1, <1>1, <3>1, Kinds DEF IInv, TypeOK, Takes
  <2>4. Locked'
    BY <2>1, <1>1, Kinds DEF IInv, Locked, Moves, Takes, At
  <2>5. Loop'
    BY <2>1, <1>1, Kinds, Sorts DEF IInv, Loop, Moves, Takes, At
  <2>6. Hands'
    BY <2>1, <1>1, Kinds, Sorts DEF IInv, Hands, Moves, Takes, At
  <2>7. OnePlace'
    <3>1. \A j, k \in 1..Len(free') : free'[j] = free'[k] => j = k
      BY <2>1 DEF IInv, OnePlace
    <3>2. \A b \in Agents :
            Holds(b)' => \A j \in 1..Len(free') : free'[j] # data'[b]
      BY <2>1, <2>2 DEF IInv, OnePlace
    <3>3. \A b, c \in Agents :
            Holds(b)' /\ Holds(c)' /\ data'[b] = data'[c] => b = c
      BY <2>2 DEF IInv, OnePlace
    <3> QED
      BY <3>1, <3>2, <3>3 DEF OnePlace
  <2>8. Accounted'
    <3>1. \A u \in Apps :
            pc'[u] \in {"new", "init", "grab", "remove", "got"} => u \notin allocated'
      BY <2>1, Kinds DEF IInv, Accounted, Moves
    <3>2. \A b \in Agents : Holds(b)' => data'[b] \in allocated'
      BY <2>1, <2>2 DEF IInv, Accounted
    <3>3. \A j \in 1..Len(free') : free'[j] \in allocated'
      BY <2>1 DEF IInv, Accounted
    <3>4. \A d \in Apps : written'[d] > 0 => d \in allocated'
      BY <2>1 DEF IInv, Accounted
    <3> QED
      BY <2>1, <3>1, <3>2, <3>3, <3>4 DEF IInv, Accounted
  <2>9. Unwritten'
    <3>1. /\ pc'[Process] = "done" <=> pc[Process] = "done"
          /\ pc'[Main] = "exits" <=> pc[Main] = "exits"
      BY <2>1, Kinds DEF Moves
    <3> QED
      BY <2>1, <2>2, <3>1 DEF IInv, Unwritten, At
  <2>10. Once'
    BY <2>1, <1>1, Kinds DEF IInv, Once, Moves, Takes, At
  <2>11. Kept'
    BY <2>1, <1>1, Kinds DEF IInv, Kept, Moves, Takes, At, Holds
  <2>12. Drained'
    BY <2>1, <1>1, Kinds, Sorts, Started DEF IInv, Drained, Moves, Takes, At
  <2> QED
    BY <2>3, <2>4, <2>5, <2>6, <2>7, <2>8, <2>9, <2>10, <2>11, <2>12 DEF IInv
<1>2. CASE data[f] # none
  <2>1. /\ pc[f] = "loop"
        /\ data[f] \in Apps /\ Holds(f) /\ written[data[f]] = 0
        /\ Moves(f, "grab") /\ Takes(f, none)
        /\ Writes(data[f])
        /\ UNCHANGED <<compact_thread, lock, free, num_threads, max_iter, i,
                       allocated, quiet, failed, again>>
    <3>1. pc[f] = "loop" /\ data[f] # none
      BY <1>2, Kinds DEF IInv, Hands, Finalize, At
    <3>2. data[f] \in Apps /\ Holds(f) /\ written[data[f]] = 0
      BY <3>1, Kinds, Sorts DEF IInv, Unwritten, Holds, At
    <3>3. Moves(f, "grab") /\ Takes(f, none)
      BY <1>2, Kinds, Jump, Take, Zenon DEF IInv, Labels, FinalizerLabels, Goto, Finalize
    <3>4. Writes(data[f])
      BY <1>2, <3>2, Count DEF IInv, Write, Finalize
    <3> QED
      BY <1>2, <3>1, <3>2, <3>3, <3>4 DEF state, Finalize
  <2>2. TypeOK'
    <3>1. PcOK'
      BY <2>1, PcStep, Kinds DEF IInv, FinalizerLabels
    <3> QED
      BY <2>1, <1>2, <3>1, Kinds DEF IInv, TypeOK, Takes, Writes
  <2>3. Locked' /\ OnePlace' /\ Accounted' /\ Unwritten' /\ Once' /\ Kept'
    BY <2>1, WriteStep, Kinds
  <2>4. Hands'
    <3>1. \A b \in Apps \cup {Process} : pc'[b] = pc[b] /\ data'[b] = data[b]
      BY <2>1, Kinds DEF Moves, Takes
    <3>2. \A b \in Agents :
            pc'[b] \in {"new", "init", "grab", "gone", "app", "exit", "spawn"} =>
              data'[b] = none
      BY <2>1 DEF IInv, Hands, Moves, Takes
    <3> QED
      BY <2>1, <3>1, <3>2, Kinds, Zenon DEF IInv, Hands, At
  <2>5. Loop'
    BY <2>1, <1>2, Kinds DEF IInv, Loop, Moves, At
  <2>6. Drained'
    BY <2>1, <1>2, Kinds, Sorts, Started DEF IInv, Drained, Moves, Takes,
       Writes, At
  <2> QED
    BY <2>2, <2>3, <2>4, <2>5, <2>6 DEF IInv
<1> QED
  BY <1>1, <1>2

(* The process exits. *)
LEMMA ExitStep ==
  ASSUME IInv, Exit
  PROVE  IInv'
<1>1. CASE Exit /\ pc' = [pc EXCEPT ![Process] = "exit"]
  <2>1. /\ pc[Process] = "app" /\ pc[Main] = "run"
        /\ Moves(Process, "exit")
        /\ UNCHANGED <<compact_thread, lock, free, num_threads, max_iter, i,
                       data, allocated, written, quiet, failed, again>>
    BY <1>1, Kinds, Jump, Zenon DEF IInv, Labels, ProcessLabels, At, Goto, state,
       hist, Exit, Hands
  <2>2. TypeOK'
    <3>1. PcOK'
      BY <2>1, PcStep, Kinds DEF IInv, ProcessLabels
    <3> QED
      BY <2>1, <1>1, <3>1, Kinds DEF IInv, TypeOK
  <2>3. Locked' /\ OnePlace' /\ Once' /\ Kept'
    BY <2>1, OnlyPc, Kinds DEF IInv
  <2>4. Hands'
    BY <2>1, <1>1, Kinds, Sorts DEF IInv, Hands, Moves, At
  <2>5. Accounted'
    BY <2>1, <1>1, Kinds DEF IInv, Accounted, Moves, At, Holds
  <2>6. Unwritten'
    BY <2>1, <1>1, Kinds DEF IInv, Unwritten, Moves, At, Holds
  <2>7. Loop'
    BY <2>1, <1>1, Kinds DEF IInv, Loop, Moves, At
  <2>8. Drained'
    BY <2>1, <1>1, Kinds, Started DEF IInv, Loop, Drained, Moves, At
  <2> QED
    BY <2>2, <2>3, <2>4, <2>5, <2>6, <2>7, <2>8 DEF IInv
<1>2. CASE Exit /\ pc' = [pc EXCEPT ![Process] = "exit", ![Main] = "exits"]
  <2>1. /\ pc[Process] = "app" /\ pc[Main] = "run"
        /\ pc' \in [Agents -> Labels]
        /\ pc'[Process] = "exit" /\ pc'[Main] = "exits"
        /\ \A b \in Agents \ {Process, Main} : pc'[b] = pc[b]
        /\ UNCHANGED <<compact_thread, lock, free, num_threads, max_iter, i,
                       data, allocated, written, quiet, failed, again>>
    BY <1>2, Kinds, Sorts
    DEF IInv, Labels, AppLabels, ProcessLabels, Hands, At, state, hist, Exit
  <2>2. TypeOK'
    <3>1. /\ \A t \in Apps : pc'[t] \in AppLabels
          /\ \A f \in Finalizers : pc'[f] \in FinalizerLabels /\ pc'[f] = pc[f]
          /\ pc'[Process] \in ProcessLabels
      BY <2>1, Kinds, Zenon DEF IInv, TypeOK, PcOK, AppLabels, ProcessLabels
    <3>2. PcOK'
      BY <2>1, <3>1 DEF IInv, TypeOK, PcOK, At
    <3> QED
      BY <2>1, <3>2 DEF IInv, TypeOK
  <2>3. Locked' /\ Loop'
    BY <2>1, <1>2, Kinds DEF IInv, Locked, Loop, At
  <2>4. Hands'
    BY <2>1, <1>2, Kinds, Sorts DEF IInv, Hands, At
  <2>5. OnePlace' /\ Accounted'
    <3>1. \A b \in Agents : Holds(b)' <=> Holds(b)
      BY <2>1 DEF Holds, At
    <3>2. OnePlace'
      BY <2>1, <3>1, SamePlaces, Zenon DEF IInv
    <3>3. \A u \in Apps :
            pc'[u] \in {"new", "init", "grab", "remove", "got"} => u \notin allocated'
      BY <2>1, Kinds DEF IInv, Accounted
    <3> QED
      BY <2>1, <3>1, <3>2, <3>3, Zenon DEF IInv, Accounted
  <2>6. Unwritten' /\ Once'
    BY <2>1, <1>2, Kinds DEF IInv, Unwritten, Once, At, Holds
  <2>7. Kept'
    BY <2>1, <1>2, Kinds DEF IInv, Kept, At, Holds
  <2>8. Drained'
    BY <2>1, <1>2, Kinds, Started DEF IInv, Loop, Drained, At
  <2> QED
    BY <2>2, <2>3, <2>4, <2>5, <2>6, <2>7, <2>8 DEF IInv
<1> QED
  BY <1>1, <1>2 DEF Exit, Goto

(* The number of workers is decided. *)
LEMMA DataFiniStep ==
  ASSUME IInv, DataFini
  PROVE  IInv'
<1>1. /\ pc[Process] = "exit"
      /\ Moves(Process, "spawn")
      /\ max_iter' = Smaller(Cores, num_threads)
      /\ quiet' = \A t \in Apps : pc[t] \in {"new", "gone", "exits"}
      /\ UNCHANGED <<compact_thread, lock, free, num_threads, i, data,
                     allocated, written, failed, again>>
  BY Kinds, Jump, Zenon DEF IInv, Labels, ProcessLabels, At, Goto, state, hist,
     DataFini
<1>2. max_iter' \in 1..Cores
  BY <1>1, Numbered DEF IInv, TypeOK, Smaller
<1>3. TypeOK'
  <2>1. PcOK'
    BY <1>1, PcStep, Kinds DEF IInv, ProcessLabels
  <2> QED
    BY <1>1, <1>2, <2>1, Kinds, SMTT(30) DEF IInv, TypeOK, Loop
<1>4. Locked' /\ OnePlace' /\ Once' /\ Kept'
  BY <1>1, OnlyPc, Kinds DEF IInv
<1>5. Hands'
  BY <1>1, Kinds, Sorts DEF IInv, Hands, Moves, At
<1>6. Accounted'
  BY <1>1, Kinds DEF IInv, Accounted, Moves, At, Holds
<1>7. Unwritten'
  BY <1>1, Kinds DEF IInv, Unwritten, Moves, At, Holds
<1>8. Loop'
  BY <1>1, <1>2, Kinds, Sorts DEF IInv, Loop, Moves, At
<1>9. Drained'
  <2>1. \A f \in Finalizers : pc'[f] = "new"
    <3>1. \A f \in Finalizers : f > i
      BY <1>1, Numbered DEF IInv, Loop
    <3>2. \A f \in Finalizers : pc[f] = "new"
      BY <3>1 DEF IInv, TypeOK, PcOK, At
    <3> QED
      BY <1>1, <3>2, Kinds DEF Moves
  <2>2. quiet' => \A t \in Apps : pc'[t] \in {"new", "gone", "exits"}
    BY <1>1, Kinds, Zenon DEF Moves
  <2> QED
    BY <1>1, <2>1, <2>2, Zenon DEF Drained, Moves, At
<1> QED
  BY <1>3, <1>4, <1>5, <1>6, <1>7, <1>8, <1>9 DEF IInv

(* The loop goes on, or ends. *)
LEMMA SpawnStep ==
  ASSUME IInv, Spawn
  PROVE  IInv'
<1>1. CASE free # <<>> /\ i < max_iter
  <2>1. /\ pc[Process] = "spawn"
        /\ Moves(Process, "grab")
        /\ UNCHANGED <<compact_thread, lock, free, num_threads, max_iter, i,
                       data, allocated, written, quiet, failed, again>>
    BY <1>1, Kinds, Jump, Zenon DEF IInv, Labels, ProcessLabels, At, Goto, state,
       hist, Spawn
  <2>2. TypeOK'
    <3>1. PcOK'
      BY <2>1, PcStep, Kinds DEF IInv, ProcessLabels
    <3> QED
      BY <2>1, <1>1, <3>1, Kinds DEF IInv, TypeOK
  <2>3. Locked' /\ OnePlace' /\ Once' /\ Kept'
    BY <2>1, OnlyPc, Kinds DEF IInv
  <2>4. Hands'
    BY <2>1, <1>1, Kinds DEF IInv, Hands, Moves, At
  <2>5. Accounted'
    BY <2>1, <1>1, Kinds DEF IInv, Accounted, Moves, At, Holds
  <2>6. Unwritten'
    BY <2>1, <1>1, Kinds DEF IInv, Unwritten, Moves, At, Holds
  <2>7. Loop'
    BY <2>1, <1>1, Kinds, Sorts DEF IInv, Loop, Moves, At
  <2>8. Drained'
    BY <2>1, <1>1, Kinds, Started DEF IInv, Drained, Moves, At
  <2> QED
    BY <2>2, <2>3, <2>4, <2>5, <2>6, <2>7, <2>8 DEF IInv
<1>2. CASE ~ (free # <<>> /\ i < max_iter)
  <2>1. /\ pc[Process] = "spawn"
        /\ Moves(Process, "join")
        /\ UNCHANGED <<compact_thread, lock, free, num_threads, max_iter, i,
                       data, allocated, written, quiet, failed, again>>
    BY <1>2, Kinds, Jump, Zenon DEF IInv, Labels, ProcessLabels, At, Goto, state,
       hist, Spawn
  <2>2. TypeOK'
    <3>1. PcOK'
      BY <2>1, PcStep, Kinds DEF IInv, ProcessLabels
    <3> QED
      BY <2>1, <1>2, <3>1, Kinds DEF IInv, TypeOK
  <2>3. Locked' /\ OnePlace' /\ Once' /\ Kept'
    BY <2>1, OnlyPc, Kinds DEF IInv
  <2>4. Hands'
    BY <2>1, <1>2, Kinds DEF IInv, Hands, Moves, At
  <2>5. Accounted'
    BY <2>1, <1>2, Kinds DEF IInv, Accounted, Moves, At, Holds
  <2>6. Unwritten'
    BY <2>1, <1>2, Kinds DEF IInv, Unwritten, Moves, At, Holds
  <2>7. Loop'
    BY <2>1, <1>2, Kinds, Sorts DEF IInv, Loop, Moves, At
  <2>8. Drained'
    <3>1. free = <<>> \/ i > 0
      BY <1>2, <2>1 DEF IInv, TypeOK, Loop
    <3>2. \A f \in Finalizers : pc'[f] = pc[f]
      BY <2>1, Kinds DEF Moves
    <3>3. \A t \in Apps : pc'[t] = pc[t]
      BY <2>1, Kinds DEF Moves
    <3> QED
      BY <2>1, <3>1, <3>2, <3>3 DEF IInv, Drained, Moves, At
  <2> QED
    BY <2>2, <2>3, <2>4, <2>5, <2>6, <2>7, <2>8 DEF IInv
<1> QED
  BY <1>1, <1>2

(* A worker is created. *)
LEMMA CreateStep ==
  ASSUME IInv, Create
  PROVE  IInv'
<1>1. /\ pc[Process] = "create"
      /\ i' = i + 1
      /\ pc' = [pc EXCEPT ![i + 1] = "loop", ![Process] = "spawn"]
      /\ data' = [data EXCEPT ![i + 1] = data[Process], ![Process] = none]
      /\ UNCHANGED <<compact_thread, lock, free, num_threads, max_iter,
                     allocated, written, quiet, failed, again>>
  BY DEF At, hist, Create
<1>2. PICK f \in Finalizers : f = i + 1 /\ i < max_iter /\ i \in Nat
  BY <1>1, Numbered DEF IInv, TypeOK, Loop
<1>3. pc[f] = "new" /\ data[f] = none
  <2>1. pc[f] = "new"
    BY <1>2, Numbered DEF IInv, TypeOK, PcOK, At
  <2> QED
    BY <2>1, Kinds DEF IInv, Hands
<1>4. /\ pc' \in [Agents -> Labels]
      /\ data' \in [Agents -> Apps \cup {none}]
      /\ pc'[f] = "loop" /\ data'[f] = data[Process]
      /\ pc'[Process] = "spawn" /\ data'[Process] = none
      /\ \A b \in Agents \ {f, Process} : pc'[b] = pc[b] /\ data'[b] = data[b]
  <2>1. /\ pc' = [pc EXCEPT ![f] = "loop", ![Process] = "spawn"]
        /\ data' = [data EXCEPT ![f] = data[Process], ![Process] = none]
    BY <1>1, <1>2
  <2> QED
    BY <2>1, Kinds, Sorts DEF IInv, Labels, FinalizerLabels, ProcessLabels
<1>5. TypeOK'
  <2>1. /\ \A a \in Apps : pc'[a] \in AppLabels
        /\ \A a \in Finalizers : pc'[a] \in FinalizerLabels
        /\ pc'[Process] \in ProcessLabels
    BY <1>4, Kinds, Zenon DEF IInv, TypeOK, PcOK, FinalizerLabels, ProcessLabels
  <2>2. \A b \in Finalizers : pc'[b] = "new" <=> b > i'
    <3>1. \A b \in Finalizers \ {f} : (b > i' <=> b > i)
      BY <1>1, <1>2, Numbered
    <3>2. \A b \in Finalizers \ {f} : pc'[b] = pc[b]
      BY <1>4, Kinds
    <3>3. ~ (f > i') /\ pc'[f] = "loop"
      BY <1>1, <1>2, <1>4
    <3> QED
      BY <3>1, <3>2, <3>3 DEF IInv, TypeOK, PcOK, At
  <2>3. i' \in 0..max_iter'
    BY <1>1, <1>2 DEF IInv, TypeOK
  <2>4. PcOK'
    BY <1>4, <2>1, <2>2 DEF PcOK, At
  <2> QED
    BY <1>1, <1>4, <2>3, <2>4 DEF IInv, TypeOK
<1>6. Locked'
  BY <1>1, <1>3, <1>4, Kinds DEF IInv, Locked, Moves, Takes, At
<1>7. Loop'
  BY <1>1, <1>2, <1>3, <1>4, Kinds DEF IInv, Loop, Moves, Takes, At
<1>8. Hands'
  BY <1>1, <1>3, <1>4, Kinds, SMTT(30) DEF IInv, Hands, Moves, Takes, At
<1>9. OnePlace'
  <2>1. \A b \in Agents \ {f} :
          Holds(b)' => b # Process /\ Holds(b) /\ data'[b] = data[b]
    BY <1>4 DEF Holds, At
  <2>2. Holds(f)' => Holds(Process) /\ data'[f] = data[Process]
    BY <1>1, <1>4 DEF Holds, At
  <2>3. \A b \in Agents \ {f} :
          Holds(b)' => \A j \in 1..Len(free') : free'[j] # data'[b]
    BY <1>1, <2>1, Zenon DEF IInv, OnePlace
  <2>4. Holds(f)' => \A j \in 1..Len(free') : free'[j] # data'[f]
    BY <1>1, <2>2, Kinds DEF IInv, OnePlace
  <2>5. \A b, c \in Agents :
          Holds(b)' /\ Holds(c)' /\ data'[b] = data'[c] => b = c
    BY <2>1, <2>2, Kinds DEF IInv, OnePlace
  <2>6. \A j, k \in 1..Len(free') : free'[j] = free'[k] => j = k
    BY <1>1 DEF IInv, OnePlace
  <2> QED
    BY <2>3, <2>4, <2>5, <2>6 DEF OnePlace
<1>10. Accounted'
  BY <1>1, <1>3, <1>4, Kinds DEF IInv, Accounted, Moves, Takes, At, Holds
<1>11. Unwritten'
  BY <1>1, <1>3, <1>4, Kinds DEF IInv, Unwritten, Moves, Takes, At, Holds
<1>12. Once'
  BY <1>1, <1>3, <1>4, Kinds DEF IInv, Once, Moves, Takes, At
<1>13. Kept'
  <2> SUFFICES ASSUME NEW d \in allocated'
               PROVE  \/ written'[d] = 1
                      \/ \E j \in 1..Len(free') : free'[j] = d
                      \/ \E b \in Agents : Holds(b)' /\ data'[b] = d
    BY DEF Kept
  <2>1. \A b \in Agents \ {Process, f} :
          Holds(b) => Holds(b)' /\ data'[b] = data[b]
    BY <1>4 DEF Holds, At
  <2>2. ~ Holds(f) /\ (Holds(Process) => Holds(f)' /\ data'[f] = data[Process])
    BY <1>1, <1>3, <1>4, Zenon DEF Holds, At
  <2>3. CASE Holds(Process) /\ data[Process] = d
    BY <2>2, <2>3, Kinds
  <2>4. CASE \E b \in Agents \ {Process} : Holds(b) /\ data[b] = d
    BY <2>1, <2>2, <2>4
  <2>5. CASE written[d] = 1 \/ \E j \in 1..Len(free) : free[j] = d
    BY <1>1, <2>5
  <2> QED
    BY <1>1, <2>3, <2>4, <2>5, Zenon DEF IInv, Kept
<1>14. Drained'
  BY <1>1, <1>2, <1>3, <1>4, Kinds, Started DEF IInv, Drained, Moves, Takes,
     At
<1> QED
  BY <1>5, <1>6, <1>7, <1>8, <1>9, <1>10, <1>11, <1>12, <1>13, <1>14 DEF IInv

(* A worker cannot be created. *)
LEMMA CreateFailsStep ==
  ASSUME IInv, CreateFails
  PROVE  IInv'
<1>1. /\ pc[Process] = "create" /\ failed'
      /\ Moves(Process, "join")
      /\ UNCHANGED <<compact_thread, lock, free, num_threads, max_iter, i,
                     data, allocated, written, quiet, again>>
  <2>1. Moves(Process, "join")
    BY Kinds, Jump, Zenon DEF IInv, Labels, ProcessLabels, Goto, CreateFails
  <2> QED
    BY <2>1 DEF At, state, CreateFails
<1>2. TypeOK'
  <2>1. PcOK'
    BY <1>1, PcStep, Kinds DEF IInv, ProcessLabels
  <2> QED
    BY <1>1, <2>1, Kinds DEF IInv, TypeOK
<1>3. Locked' /\ OnePlace' /\ Once' /\ Kept'
  BY <1>1, OnlyPc, Kinds DEF IInv
<1>4. Hands'
  BY <1>1, Kinds DEF IInv, Hands, Moves, At
<1>5. Accounted'
  BY <1>1, Kinds DEF IInv, Accounted, Moves, At, Holds
<1>6. Unwritten'
  BY <1>1, Kinds DEF IInv, Unwritten, Moves, At, Holds
<1>7. Loop'
  BY <1>1, Kinds DEF IInv, Loop, Moves, At
<1>8. Drained'
  BY <1>1, Kinds, Started DEF IInv, Drained, Moves, At
<1> QED
  BY <1>2, <1>3, <1>4, <1>5, <1>6, <1>7, <1>8 DEF IInv

(* The workers are joined. *)
LEMMA JoinStep ==
  ASSUME IInv, Join
  PROVE  IInv'
<1>1. /\ pc[Process] = "join" /\ \A f \in 1..i : pc[f] = "gone"
      /\ Moves(Process, "own")
      /\ UNCHANGED <<compact_thread, lock, free, num_threads, max_iter, i,
                     data, allocated, written, quiet, failed, again>>
  BY Kinds, Jump, Zenon DEF IInv, Labels, ProcessLabels, At, Goto, state, hist, Join
<1>2. TypeOK'
  <2>1. PcOK'
    BY <1>1, PcStep, Kinds DEF IInv, ProcessLabels
  <2> QED
    BY <1>1, <2>1, Kinds DEF IInv, TypeOK
<1>3. Locked' /\ OnePlace' /\ Once' /\ Kept'
  BY <1>1, OnlyPc, Kinds DEF IInv
<1>4. Hands'
  BY <1>1, Kinds DEF IInv, Hands, Moves, At
<1>5. Accounted'
  BY <1>1, Kinds DEF IInv, Accounted, Moves, At, Holds
<1>6. Unwritten'
  BY <1>1, Kinds DEF IInv, Unwritten, Moves, At, Holds
<1>7. Loop'
  BY <1>1, Kinds DEF IInv, Loop, Moves, At
<1>8. Drained'
  <2>1. \A f \in 1..i : f \in Finalizers /\ pc[f] = "gone" /\ pc'[f] = "gone"
    BY <1>1, Kinds, Started DEF IInv, Moves
  <2>2. quiet /\ ~ failed => free = <<>>
    <3>1. i > 0 => 1 \in 1..i
      BY DEF IInv, TypeOK
    <3> QED
      BY <1>1, <2>1, <3>1 DEF IInv, Drained, At
  <2>3. quiet => \A t \in Apps : pc'[t] \in {"new", "gone", "exits"}
    BY <1>1, Kinds DEF IInv, Drained, Moves
  <2>4. quiet => \A f \in Finalizers :
          pc'[f] = "gone" \/ (pc'[f] = "loop" /\ data[f] = none) => free = <<>>
    BY <1>1, Kinds DEF IInv, Drained, Moves, At
  <2> QED
    BY <1>1, <2>1, <2>2, <2>3, <2>4 DEF Drained, Moves, At
<1> QED
  BY <1>2, <1>3, <1>4, <1>5, <1>6, <1>7, <1>8 DEF IInv

(* The data of main is written. *)
LEMMA WriteOwnStep ==
  ASSUME IInv, WriteOwn
  PROVE  IInv'
<1>1. CASE pc[Main] = "exits"
  <2>1. /\ pc[Process] = "own" /\ Holds(Main) /\ data[Main] = Main
        /\ written[Main] = 0
        /\ Moves(Process, "done") /\ Writes(Main)
        /\ written'[Main] = 1
        /\ UNCHANGED <<compact_thread, lock, free, num_threads, max_iter, i,
                       data, allocated, quiet, failed, again>>
    <3>1. pc[Process] = "own" /\ data[Main] = Main
      BY <1>1 DEF IInv, Hands, WriteOwn, At
    <3>2. Holds(Main) /\ written[Main] = 0
      BY <1>1, <3>1, Kinds DEF IInv, Unwritten, Holds, At
    <3>3. Moves(Process, "done")
      BY Kinds, Jump, Zenon DEF IInv, Labels, ProcessLabels, Goto, WriteOwn
    <3>4. Writes(Main) /\ written'[Main] = 1
      <4>1. Writes(Main)
        BY <1>1, Kinds, Count DEF IInv, Write, WriteOwn, At
      <4> QED
        BY <3>2, <4>1 DEF Writes
    <3> QED
      BY <3>1, <3>2, <3>3, <3>4 DEF state, WriteOwn
  <2>2. \A b \in Agents : Holds(b)' <=> Holds(b)
    BY <2>1 DEF Moves, Holds, At
  <2>3. TypeOK'
    <3>1. PcOK'
      BY <2>1, PcStep, Kinds DEF IInv, ProcessLabels
    <3> QED
      BY <2>1, <1>1, <3>1, Kinds DEF IInv, TypeOK, Writes
  <2>4. Locked'
    BY <2>1, <1>1, Kinds DEF IInv, Locked, Moves, Writes, At
  <2>5. Loop'
    BY <2>1, <1>1, Kinds DEF IInv, Loop, Moves, Writes, At
  <2>6. Hands'
    BY <2>1, <1>1, Kinds DEF IInv, Hands, Moves, At
  <2>7. OnePlace'
    BY <2>1, <2>2, SamePlaces, Zenon DEF IInv
  <2>8. Accounted'
    <3>1. \A u \in Apps :
            pc'[u] \in {"new", "init", "grab", "remove", "got"} => u \notin allocated'
      BY <2>1, Kinds DEF IInv, Accounted, Moves
    <3>2. \A b \in Agents : Holds(b)' => data'[b] \in allocated'
      BY <2>1, <2>2 DEF IInv, Accounted
    <3>3. \A j \in 1..Len(free') : free'[j] \in allocated'
      BY <2>1 DEF IInv, Accounted
    <3>4. \A d \in Apps : written'[d] > 0 => d \in allocated'
      BY <2>1, Kinds DEF IInv, Accounted, Writes
    <3> QED
      BY <2>1, <3>1, <3>2, <3>3, <3>4 DEF IInv, Accounted
  <2>9. Unwritten'
    <3>1. \A j \in 1..Len(free') : written'[free'[j]] = 0
      <4>1. \A j \in 1..Len(free) : free[j] \in Apps
        BY DEF IInv, TypeOK
      <4>2. \A j \in 1..Len(free) : free[j] # Main
        BY <2>1, Kinds, Zenon DEF IInv, OnePlace
      <4> QED
        BY <2>1, <4>1, <4>2 DEF IInv, Unwritten, Writes
    <3>2. \A b \in Agents \ {Main} : Holds(b)' => written'[data'[b]] = 0
      <4> SUFFICES ASSUME NEW b \in Agents \ {Main}, Holds(b)'
                   PROVE  written'[data'[b]] = 0
        OBVIOUS
      <4>1. Holds(b) /\ data'[b] = data[b]
        BY <2>1, <2>2
      <4>2. data[b] # Main
        BY <2>1, <4>1, Kinds, Zenon DEF IInv, OnePlace
      <4>3. data[b] \in Apps
        BY <4>1, Sorts DEF IInv, Holds
      <4>4. written[data[b]] = 0
        BY <4>1 DEF IInv, Unwritten
      <4> QED
        BY <2>1, <4>1, <4>2, <4>3, <4>4 DEF Writes
    <3>3. pc'[Main] = "exits" /\ pc'[Process] = "done"
      BY <1>1, <2>1, Kinds DEF Moves
    <3> QED
      BY <2>1, <3>1, <3>2, <3>3 DEF Unwritten, At
  <2>10. Once'
    <3>1. \A d \in Apps \ {Main} : written'[d] = written[d]
      BY <2>1 DEF Writes
    <3>2. written'[Main] <= 1
      <4>1. written'[Main] = 1
        BY <2>1, Zenon
      <4> QED
        BY <4>1
    <3> QED
      BY <3>1, <3>2 DEF IInv, Once
  <2>11. Kept'
    <3> SUFFICES ASSUME NEW d \in allocated'
                 PROVE  \/ written'[d] = 1
                        \/ \E j \in 1..Len(free') : free'[j] = d
                        \/ \E b \in Agents : Holds(b)' /\ data'[b] = d
      BY DEF Kept
    <3>1. written[d] = 1 => written'[d] = 1
      <4>1. d \in Apps /\ (written[d] = 1 => d # Main)
        BY <2>1 DEF IInv, TypeOK
      <4> QED
        BY <2>1, <4>1 DEF Writes
    <3> QED
      BY <2>1, <2>2, <3>1 DEF IInv, Kept
  <2>12. Drained'
    <3> SUFFICES ASSUME quiet
                 PROVE  Drained'
      BY <2>1 DEF Drained
    <3>1. \A t \in Apps : pc'[t] \in {"new", "gone", "exits"}
      BY <2>1, Kinds DEF IInv, Drained, Moves
    <3>2. \A f \in Finalizers :
            pc'[f] = "gone" \/ (pc'[f] = "loop" /\ data'[f] = none) => free = <<>>
      BY <2>1, Kinds DEF IInv, Drained, Moves, At
    <3>3. ~ failed => free = <<>> /\ \A f \in 1..i : pc'[f] = "gone"
      <4>1. \A f \in 1..i : f \in Finalizers
        BY Numbered DEF IInv, TypeOK
      <4> QED
        BY <2>1, <4>1, Kinds DEF IInv, Drained, Moves, At
    <3> QED
      BY <2>1, <3>1, <3>2, <3>3 DEF Drained, Moves, At
  <2> QED
    BY <2>3, <2>4, <2>5, <2>6, <2>7, <2>8, <2>9, <2>10, <2>11, <2>12 DEF IInv
<1>2. CASE pc[Main] # "exits"
  <2>1. /\ pc[Process] = "own"
        /\ Moves(Process, "done")
        /\ UNCHANGED <<compact_thread, lock, free, num_threads, max_iter, i,
                       data, allocated, written, quiet, failed, again>>
    BY <1>2, Kinds, Jump, Zenon DEF IInv, Labels, ProcessLabels, At, Goto, state,
       hist, WriteOwn
  <2>2. TypeOK'
    <3>1. PcOK'
      BY <2>1, PcStep, Kinds DEF IInv, ProcessLabels
    <3> QED
      BY <2>1, <1>2, <3>1, Kinds DEF IInv, TypeOK
  <2>3. Locked' /\ OnePlace' /\ Once' /\ Kept'
    BY <2>1, OnlyPc, Kinds DEF IInv
  <2>4. Hands'
    BY <2>1, <1>2, Kinds DEF IInv, Hands, Moves, At
  <2>5. Accounted'
    BY <2>1, <1>2, Kinds DEF IInv, Accounted, Moves, At, Holds
  <2>6. Unwritten'
    BY <2>1, <1>2, Kinds DEF IInv, Unwritten, Moves, At, Holds
  <2>7. Loop'
    BY <2>1, <1>2, Kinds DEF IInv, Loop, Moves, At
  <2>8. Drained'
    <3> SUFFICES ASSUME quiet
                 PROVE  Drained'
      BY <2>1 DEF Drained
    <3>1. \A t \in Apps : pc'[t] \in {"new", "gone", "exits"}
      BY <2>1, Kinds DEF IInv, Drained, Moves
    <3>2. \A f \in Finalizers :
            pc'[f] = "gone" \/ (pc'[f] = "loop" /\ data'[f] = none) => free = <<>>
      BY <2>1, Kinds DEF IInv, Drained, Moves, At
    <3>3. ~ failed => free = <<>> /\ \A f \in 1..i : pc'[f] = "gone"
      <4>1. \A f \in 1..i : f \in Finalizers
        BY Numbered DEF IInv, TypeOK
      <4> QED
        BY <2>1, <4>1, Kinds DEF IInv, Drained, Moves, At
    <3> QED
      BY <2>1, <3>1, <3>2, <3>3 DEF Drained, Moves, At
  <2> QED
    BY <2>2, <2>3, <2>4, <2>5, <2>6, <2>7, <2>8 DEF IInv
<1> QED
  BY <1>1, <1>2

(* Every step of every agent keeps the invariant, as long as no thread has *)
(* run the fini-thread callback twice.                                     *)
LEMMA NextIInv == IInv /\ [Next]_vars /\ again' = {} => IInv'
<1> SUFFICES ASSUME IInv, [Next]_vars, again' = {}
             PROVE  IInv'
  OBVIOUS
<1>1. CASE UNCHANGED vars
  <2>1. UNCHANGED <<compact_thread, lock, free, num_threads, max_iter, i, pc,
                    data, allocated, written, quiet, failed, again>>
    BY <1>1 DEF vars, state, hist
  <2>2. TypeOK' /\ Locked' /\ Hands' /\ OnePlace'
    BY <2>1 DEF IInv, TypeOK, PcOK, Locked, Hands, OnePlace, Holds, At
  <2>3. Accounted' /\ Unwritten' /\ Once' /\ Kept'
    BY <2>1 DEF IInv, Accounted, Unwritten, Once, Kept, Holds, At
  <2>4. Loop' /\ Drained'
    BY <2>1 DEF IInv, Loop, Drained, At
  <2> QED
    BY <2>2, <2>3, <2>4 DEF IInv
<1>2. ASSUME NEW t \in Apps, Thread(t)
      PROVE  IInv'
  BY <1>2, BeginStep, DataGetStep, AllocateStep, DataPutStep, PutLockStep,
     InsertStep DEF Thread
<1>3. ASSUME NEW a \in Agents, Grab(a) \/ Remove(a)
      PROVE  IInv'
  BY <1>3, GrabStep, RemoveStep
<1>4. ASSUME NEW f \in Finalizers, Finalize(f)
      PROVE  IInv'
  BY <1>4, FinalizeStep
<1>5. CASE Fini
  BY <1>5, ExitStep, DataFiniStep, SpawnStep, CreateStep, CreateFailsStep,
     JoinStep, WriteOwnStep DEF Fini
<1> QED
  BY <1>1, <1>2, <1>3, <1>4, <1>5 DEF Next, Finished

-----------------------------------------------------------------------------

(* A thread that has run the callback twice stays on record. *)
LEMMA Recorded == [Next]_vars => again \subseteq again'
<1> USE DEF hist
<1>1. ASSUME NEW t \in Apps, Thread(t)
      PROVE  again \subseteq again'
  BY <1>1 DEF Thread, Begin, DataGet, Allocate, DataPut, PutDone, PutLock, Insert
<1>2. ASSUME NEW a \in Agents, Grab(a) \/ Remove(a)
      PROVE  again \subseteq again'
  BY <1>2 DEF Grab, Remove
<1>3. ASSUME NEW f \in Finalizers, Finalize(f)
      PROVE  again \subseteq again'
  BY <1>3 DEF Finalize
<1>4. CASE Fini
  BY <1>4 DEF Fini, Exit, DataFini, Spawn, Create, CreateFails, Join, WriteOwn
<1> QED
  BY <1>1, <1>2, <1>3, <1>4 DEF Next, Finished, vars

(* Where thread data is, in every state up to which no thread has run the  *)
(* fini-thread callback twice: the inductive invariant.                    *)
THEOREM Whereabouts == Spec => [](again = {} => IInv)
<1>1. (again = {} => IInv) /\ [Next]_vars => (again = {} => IInv)'
  BY NextIInv, Recorded
<1> QED
  BY InitIInv, <1>1, PTL DEF Spec

(* What the types rest on, whether or not a callback runs twice: a thread  *)
(* that puts has data, and a worker is created only below the bound.       *)
Typed ==
  /\ TypeOK
  /\ \A t \in Apps : pc[t] \in {"run", "put", "insert"} => data[t] # none
  /\ pc[Process] \in {"app", "exit"} => i = 0
  /\ pc[Process] \in {"grab", "remove", "create"} => i < max_iter

(* A step that touches the data of agent a only. *)
Changes(a) ==
  /\ data' \in [Agents -> Apps \cup {none}]
  /\ \A b \in Agents \ {a} : data'[b] = data[b]

(* The other variables after a step. *)
Rest ==
  /\ UNCHANGED <<compact_thread, max_iter, i>>
  /\ free' \in Seq(Apps) /\ lock' \in Agents \cup {none}
  /\ num_threads' \in Nat \ {0} /\ again' \subseteq Workers
  /\ allocated' \subseteq Apps /\ written' \in [Apps -> Nat]
  /\ quiet' \in BOOLEAN /\ failed' \in BOOLEAN

(* A step of one agent to label l that keeps the bounds of the loop. *)
LEMMA TypedStep ==
  ASSUME Typed, NEW a \in Agents, NEW l, Moves(a, l), Changes(a), Rest,
         a \in Apps => l \in AppLabels,
         a \in Finalizers => l \in FinalizerLabels \ {"new"} /\ pc[a] # "new",
         a = Process => l \in ProcessLabels \ {"app", "exit"},
         l \in {"run", "put", "insert"} => data'[a] # none,
         a = Process /\ l \in {"grab", "remove", "create"} => i < max_iter
  PROVE  Typed'
<1>1. PcOK'
  BY PcStep, Zenon DEF Typed, Rest
<1>2. TypeOK'
  BY <1>1 DEF Typed, TypeOK, Changes, Rest
<1>3. \A t \in Apps : pc'[t] \in {"run", "put", "insert"} => data'[t] # none
  BY Kinds, Zenon DEF Moves, Changes, Typed
<1>4. /\ pc'[Process] \in {"app", "exit"} => i' = 0
      /\ pc'[Process] \in {"grab", "remove", "create"} => i' < max_iter'
  BY Kinds DEF Moves, Typed, Rest
<1> QED
  BY <1>2, <1>3, <1>4 DEF Typed

(* A write keeps the counts. *)
LEMMA WriteTyped ==
  ASSUME TypeOK, NEW d, Write(d)
  PROVE  written' \in [Apps -> Nat]
<1>1. CASE d \in Apps
  BY <1>1, Count DEF Write, Writes
<1>2. CASE d \notin Apps
  BY <1>2 DEF Write, TypeOK
<1> QED
  BY <1>1, <1>2

(* The steps of the threads, and of any agent at the list. *)
LEMMA ThreadTyped ==
  ASSUME Typed, NEW t \in Apps, Thread(t)
  PROVE  Typed'
<1> USE Kinds DEF state, hist
<1>0. TypeOK /\ t \in Agents /\ t # Process /\ t \notin Finalizers
  BY DEF Typed
<1>1. \A l \in AppLabels : l \in Labels /\ (Goto(t, l) => Moves(t, l))
  BY <1>0, Jump, Zenon DEF Goto, Labels
<1>2. ASSUME NEW l \in AppLabels, Goto(t, l), Changes(t), Rest,
             l \in {"run", "put", "insert"} => data'[t] # none
      PROVE  Typed'
  BY <1>0, <1>1, <1>2, TypedStep, Zenon
<1>3. UNCHANGED data => Changes(t)
  BY <1>0, Sorts DEF Changes
<1>4. \A d \in Apps \cup {none} :
        data' = [data EXCEPT ![t] = d] => Changes(t) /\ data'[t] = d
  BY <1>0, Take DEF Takes, Changes
<1>5. pc[t] \in {"run", "put", "insert"} => data[t] # none /\ data[t] \in Apps
  BY <1>0, Sorts DEF Typed
<1>6. CASE Begin(t)
  <2>1. Goto(t, "init") /\ Rest /\ UNCHANGED data
    BY <1>0, <1>6 DEF Begin, Rest, TypeOK
  <2> QED
    BY <2>1, <1>2, <1>3 DEF AppLabels
<1>7. CASE DataGet(t)
  <2>1. /\ Rest
        /\ \/ Goto(t, "grab") /\ UNCHANGED data
           \/ Goto(t, "run") /\ data' = [data EXCEPT ![t] = t]
    BY <1>0, <1>7 DEF DataGet, Rest, TypeOK
  <2> QED
    BY <2>1, <1>2, <1>3, <1>4 DEF AppLabels
<1>8. CASE Allocate(t)
  <2>1. Rest
    BY <1>0, <1>8 DEF Allocate, Rest, TypeOK
  <2>2. /\ Goto(t, "run")
        /\ \/ UNCHANGED data /\ data[t] # none
           \/ data' = [data EXCEPT ![t] = t]
    BY <1>8 DEF Allocate
  <2> QED
    BY <2>1, <2>2, <1>2, <1>3, <1>4 DEF AppLabels
<1>9. ASSUME PutDone(t), Rest, data[t] # none
      PROVE  Typed'
  <2>1. \/ Goto(t, "gone") /\ data' = [data EXCEPT ![t] = none]
        \/ Goto(t, "run") /\ UNCHANGED data
    BY <1>9 DEF PutDone
  <2> QED
    BY <2>1, <1>2, <1>3, <1>4, <1>9 DEF AppLabels
<1>10. CASE DataPut(t)
  <2>1. pc[t] = "run" /\ again' \subseteq Workers /\ written' \in [Apps -> Nat]
    BY <1>0, <1>10, WriteTyped DEF DataPut, PutDone, TypeOK, At
  <2>2. Rest
    BY <1>0, <1>10, <2>1 DEF DataPut, Rest, TypeOK
  <2>3. PutDone(t) \/ (Goto(t, "put") /\ UNCHANGED data)
    BY <1>10 DEF DataPut
  <2> QED
    BY <2>1, <2>2, <2>3, <1>2, <1>3, <1>5, <1>9 DEF AppLabels
<1>11. CASE PutLock(t)
  <2>1. pc[t] = "put" /\ Goto(t, "insert") /\ Rest /\ UNCHANGED data
    BY <1>0, <1>11 DEF PutLock, Rest, TypeOK, At
  <2> QED
    BY <2>1, <1>2, <1>3, <1>5 DEF AppLabels
<1>12. CASE Insert(t)
  <2>1. pc[t] = "insert" /\ PutDone(t) /\ again' \subseteq Workers
    BY <1>0, <1>12 DEF Insert, PutDone, TypeOK, At
  <2>2. free' \in Seq(Apps)
    BY <1>0, <1>5, <1>12, <2>1, Push DEF Insert, TypeOK
  <2>3. Rest
    BY <1>0, <1>12, <2>1, <2>2 DEF Insert, Rest, TypeOK
  <2> QED
    BY <2>1, <2>3, <1>5, <1>9
<1> QED
  BY <1>6, <1>7, <1>8, <1>10, <1>11, <1>12 DEF Thread

LEMMA ListTyped ==
  ASSUME Typed, NEW a \in Agents, Grab(a) \/ Remove(a)
  PROVE  Typed'
<1> USE Kinds DEF state, hist
<1>0. TypeOK
  BY DEF Typed
<1>1. CASE Grab(a)
  <2>1. pc[a] = "grab" /\ Rest
    BY <1>0, <1>1 DEF Grab, Rest, TypeOK, At
  <2>2. Moves(a, "remove")
    BY <1>0, <1>1, Jump DEF Grab, Goto, Labels, AppLabels
  <2>3. Changes(a)
    <3>1. (IF free = <<>> THEN none ELSE Head(free)) \in Apps \cup {none}
      BY <1>0, HeadTail DEF TypeOK
    <3> QED
      BY <1>0, <1>1, <3>1, Take DEF Grab, Takes, Changes
  <2>4. a = Process => i < max_iter
    BY <2>1 DEF Typed
  <2> QED
    BY <2>1, <2>2, <2>3, <2>4, TypedStep
    DEF AppLabels, FinalizerLabels, ProcessLabels
<1>2. CASE Remove(a)
  <2>1. pc[a] = "remove" /\ UNCHANGED data
    BY <1>2 DEF Remove, At
  <2>2. Rest
    <3>1. free' \in Seq(Apps)
      BY <1>0, <1>2, HeadTail DEF Remove, TypeOK
    <3> QED
      BY <1>0, <1>2, <3>1 DEF Remove, Rest, TypeOK
  <2>3. Changes(a)
    BY <1>0, <2>1, Sorts DEF Changes
  <2>4. \E l : /\ Goto(a, l)
               /\ l \in {"got", "loop", "create"}
               /\ a \in Apps => l = "got"
               /\ a \in Finalizers => l = "loop"
               /\ a = Process => l = "create"
    BY <1>2 DEF Remove
  <2>5. PICK l : /\ Goto(a, l)
                 /\ l \in {"got", "loop", "create"}
                 /\ a \in Apps => l = "got"
                 /\ a \in Finalizers => l = "loop"
                 /\ a = Process => l = "create"
    BY <2>4
  <2>6. Moves(a, l)
    BY <1>0, <2>5, Jump DEF Goto, Labels, AppLabels, FinalizerLabels, ProcessLabels
  <2>7. a = Process => i < max_iter
    BY <2>1 DEF Typed
  <2> QED
    BY <2>1, <2>2, <2>3, <2>5, <2>6, <2>7, TypedStep
    DEF AppLabels, FinalizerLabels, ProcessLabels
<1> QED
  BY <1>1, <1>2

LEMMA FinalizeTyped ==
  ASSUME Typed, NEW f \in Finalizers, Finalize(f)
  PROVE  Typed'
<1> USE Kinds DEF state
<1>0. TypeOK /\ f \in Agents /\ f # Process /\ f \notin Apps
  BY DEF Typed
<1>1. pc[f] = "loop" /\ Rest
  <2>1. written' \in [Apps -> Nat]
    BY <1>0, WriteTyped DEF Finalize, TypeOK
  <2> QED
    BY <1>0, <2>1 DEF Finalize, Rest, TypeOK, At
<1>2. Moves(f, "gone") \/ Moves(f, "grab")
  BY <1>0, Jump DEF Finalize, Goto, Labels, FinalizerLabels
<1>3. Changes(f)
  BY <1>0, Take DEF Finalize, Takes, Changes
<1> QED
  BY <1>0, <1>1, <1>2, <1>3, TypedStep DEF FinalizerLabels

(* The steps at the end of the process. *)
LEMMA FiniTyped ==
  ASSUME Typed, Fini
  PROVE  Typed'
<1> USE Kinds DEF state, hist
<1>0. TypeOK
  BY DEF Typed
<1>1. UNCHANGED data => Changes(Process)
  BY <1>0, Sorts DEF Changes
<1>2. ASSUME NEW l \in ProcessLabels \ {"app", "exit"}, Goto(Process, l),
             UNCHANGED data, Rest,
             l \in {"grab", "remove", "create"} => i < max_iter
      PROVE  Typed'
  <2>1. Moves(Process, l)
    BY <1>0, <1>2, Jump DEF Goto, Labels
  <2>2. l \notin {"run", "put", "insert"}
    BY <1>2 DEF ProcessLabels
  <2> QED
    BY <1>1, <1>2, <2>1, <2>2, TypedStep, Zenon
<1>3. CASE Exit
  <2>1. PcOK'
    BY <1>0, <1>3, SMTT(30)
    DEF Exit, Goto, At, TypeOK, PcOK, Labels, AppLabels, ProcessLabels
  <2>2. TypeOK'
    BY <1>0, <1>3, <2>1 DEF Exit, TypeOK
  <2>3. i' = 0 /\ UNCHANGED <<data, max_iter>>
    BY <1>3 DEF Exit, Typed, At
  <2>4. \A t \in Apps : pc'[t] \in {"run", "put", "insert"} => pc'[t] = pc[t]
    BY <1>0, <1>3, Sorts DEF Exit, Goto
  <2>5. pc'[Process] = "exit"
    BY <1>0, <1>3, Sorts DEF Exit, Goto
  <2> QED
    BY <2>2, <2>3, <2>4, <2>5 DEF Typed
<1>4. CASE DataFini
  <2>1. /\ pc[Process] = "exit" /\ i = 0
        /\ Moves(Process, "spawn")
        /\ UNCHANGED <<compact_thread, lock, free, num_threads, i, data, allocated,
                       written, failed, again>>
    BY <1>0, <1>4, Jump DEF DataFini, Typed, Goto, Labels, ProcessLabels, At
  <2>2. max_iter' \in 0..Cores /\ i' \in 0..max_iter' /\ quiet' \in BOOLEAN
    BY <1>0, <1>4, <2>1, Numbered DEF DataFini, Smaller, TypeOK
  <2>3. PcOK'
    BY <1>0, <2>1, PcStep DEF ProcessLabels
  <2>4. TypeOK'
    BY <1>0, <2>1, <2>2, <2>3 DEF TypeOK
  <2> QED
    BY <2>1, <2>4 DEF Typed, Moves
<1>5. CASE Spawn
  <2>1. Rest /\ UNCHANGED data
    BY <1>0, <1>5 DEF Spawn, Rest, TypeOK
  <2>2. (Goto(Process, "grab") /\ i < max_iter) \/ Goto(Process, "join")
    BY <1>5 DEF Spawn
  <2> QED
    BY <1>2, <2>1, <2>2 DEF ProcessLabels
<1>6. CASE Create
  <2>1. i \in Nat /\ i < max_iter /\ i + 1 \in Finalizers /\ i + 1 # Process
    <3>1. i < max_iter /\ i \in 0..max_iter /\ max_iter \in 0..Cores /\ pc[Process] = "create"
      BY <1>0, <1>6 DEF Create, Typed, TypeOK, At
    <3>2. i \in Nat /\ i + 1 \in 1..Cores
      BY <3>1, Numbered
    <3> QED
      BY <3>1, <3>2, Numbered, Kinds
  <2>2. /\ pc' = [pc EXCEPT ![i + 1] = "loop", ![Process] = "spawn"]
        /\ data' = [data EXCEPT ![i + 1] = data[Process], ![Process] = none]
        /\ UNCHANGED <<compact_thread, lock, free, num_threads, max_iter,
                       allocated, written, quiet, failed, again>>
        /\ i' = i + 1
    BY <1>6 DEF Create
  <2>3. /\ pc' \in [Agents -> Labels] /\ pc'[i + 1] = "loop"
        /\ pc'[Process] = "spawn"
        /\ \A b \in Agents \ {i + 1, Process} : pc'[b] = pc[b]
    BY <1>0, <2>1, <2>2, Sorts DEF Labels, FinalizerLabels, ProcessLabels
  <2>4. /\ data' \in [Agents -> Apps \cup {none}]
        /\ \A b \in Agents \ {i + 1, Process} : data'[b] = data[b]
    BY <1>0, <2>1, <2>2, Sorts
  <2>5. PcOK'
    <3>1. \A b \in Apps : pc'[b] \in AppLabels
      BY <1>0, <2>1, <2>3 DEF TypeOK, PcOK
    <3>2. \A f \in Finalizers :
            pc'[f] \in FinalizerLabels /\ (pc'[f] = "new" <=> f > i + 1)
      <4> SUFFICES ASSUME NEW f \in Finalizers
                   PROVE  /\ pc'[f] \in FinalizerLabels
                          /\ pc'[f] = "new" <=> f > i + 1
        OBVIOUS
      <4>1. /\ f \in Agents \ {Process} /\ pc[f] \in FinalizerLabels
            /\ pc[f] = "new" <=> f > i
        BY <1>0, Zenon DEF TypeOK, PcOK, At
      <4>2. CASE f = i + 1
        BY <2>1, <2>3, <4>2 DEF FinalizerLabels
      <4>3. CASE f # i + 1
        <5>1. pc'[f] = pc[f]
          BY <2>3, <4>1, <4>3
        <5>2. f > i <=> f > i + 1
          BY <2>1, <4>3, Numbered
        <5> QED
          BY <4>1, <5>1, <5>2
      <4> QED
        BY <4>2, <4>3
    <3> QED
      BY <2>2, <2>3, <3>1, <3>2 DEF PcOK, ProcessLabels, At
  <2>6. TypeOK'
    BY <1>0, <2>1, <2>2, <2>4, <2>5 DEF TypeOK
  <2> QED
    BY <2>1, <2>3, <2>4, <2>6 DEF Typed
<1>7. CASE CreateFails
  <2>1. Goto(Process, "join") /\ UNCHANGED data /\ Rest
    BY <1>0, <1>7 DEF CreateFails, Rest, TypeOK
  <2> QED
    BY <1>2, <2>1 DEF ProcessLabels
<1>8. CASE Join
  <2>1. Goto(Process, "own") /\ UNCHANGED data /\ Rest
    BY <1>0, <1>8 DEF Join, Rest, TypeOK
  <2> QED
    BY <1>2, <2>1 DEF ProcessLabels
<1>9. CASE WriteOwn
  <2>1. written' \in [Apps -> Nat]
    BY <1>0, <1>9, WriteTyped DEF WriteOwn, TypeOK
  <2>2. Goto(Process, "done") /\ UNCHANGED data /\ Rest
    BY <1>0, <1>9, <2>1 DEF WriteOwn, Rest, TypeOK
  <2> QED
    BY <1>2, <2>2 DEF ProcessLabels
<1> QED
  BY <1>3, <1>4, <1>5, <1>6, <1>7, <1>8, <1>9 DEF Fini

LEMMA NextTyped == Typed /\ [Next]_vars => Typed'
<1> SUFFICES ASSUME Typed, [Next]_vars
             PROVE  Typed'
  OBVIOUS
<1>1. CASE UNCHANGED vars
  BY <1>1 DEF vars, state, hist, Typed, TypeOK, PcOK, At
<1> QED
  BY <1>1, ThreadTyped, ListTyped, FinalizeTyped, FiniTyped DEF Next, Finished

(* All variables keep their types, for any set of threads and number of    *)
(* cores, also when callbacks run twice; the array of worker threads is    *)
(* not overrun.                                                            *)
THEOREM TypeCorrect == Spec => []TypeOK
<1>1. Init => Typed
  BY InitIInv, Kinds DEF IInv, Hands, Loop, Typed, Init
<1>2. Typed /\ [Next]_vars => Typed'
  BY NextTyped
<1>3. Typed => TypeOK
  BY DEF Typed
<1> QED
  BY <1>1, <1>2, <1>3, PTL DEF Spec

(* Thread data is on the list once or in the hands of one agent, as long   *)
(* as no thread has run the fini-thread callback twice.                    *)
THEOREM NeverShared == Spec => [](again = {} => OnePlace)
<1>1. (again = {} => IInv) => (again = {} => OnePlace)
  BY DEF IInv
<1> QED
  BY <1>1, Whereabouts, PTL

(* finalize_thread_data is called at most once for each thread data, as    *)
(* long as no thread has run the fini-thread callback twice.               *)
THEOREM NotTwice == Spec => []WrittenOnce
<1>1. (again = {} => IInv) => WrittenOnce
  BY DEF IInv, WrittenOnce
<1> QED
  BY <1>1, Whereabouts, PTL

(* After a quiet end whose workers could be started, and in which no       *)
(* thread has run the fini-thread callback twice, all data is written.     *)
THEOREM NothingLost == Spec => []AllWritten
<1>1. (again = {} => IInv) => AllWritten
  <2> SUFFICES ASSUME IInv, At(Process, "done"), quiet, ~ failed,
                      NEW d \in allocated
               PROVE  written[d] = 1
    BY DEF AllWritten
  <2> USE Kinds DEF At, Holds
  <2>1. free = <<>>
    BY DEF IInv, Drained
  <2>2. \A f \in Finalizers : data[f] = none
    <3>1. \A f \in Finalizers : f > i \/ f \in 1..i
      BY Numbered DEF IInv, TypeOK
    <3>2. \A f \in Finalizers : pc[f] = "new" \/ pc[f] = "gone"
      BY <3>1 DEF IInv, TypeOK, PcOK, Drained
    <3> QED
      BY <3>2 DEF IInv, Hands
  <2>3. \A t \in Apps : data[t] # none => t = Main /\ At(t, "exits")
    BY DEF IInv, Hands, Drained
  <2>4. data[Process] = none
    BY DEF IInv, Hands
  <2>5. ASSUME NEW a \in Agents, Holds(a), data[a] = d
        PROVE  d = Main /\ At(Main, "exits")
    BY <2>2, <2>3, <2>4, <2>5 DEF IInv, Hands
  <2>6. \A j \in 1..Len(free) : FALSE
    BY <2>1
  <2> QED
    BY <2>5, <2>6 DEF IInv, Kept, Unwritten
<1> QED
  BY <1>1, Whereabouts, PTL
=============================================================================
