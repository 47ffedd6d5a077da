------------------------------ MODULE Pipeline -------------------------------
(***************************************************************************)
(* ProfilePipeline::run of hpcprof: a team of OpenMP threads takes the     *)
(* Sources through four waves and a finishing wave, tells the Sinks when a *)
(* wave has passed (out of order, and more than one thread at a time),     *)
(* hands them the finished Threads and lets them write.  All loops are     *)
(* "schedule(dynamic) nowait": a thread that finds nothing left in a loop  *)
(* goes on to the next while the others are still in it.                   *)
(*                                                                         *)
(* A Source is what it provides, its finalizeRequest and whether its       *)
(* profile has a thread that it shares with other Sources (mergedThread).  *)
(* A Sink is what it accepts, its waves, the waves its notifyWavefront     *)
(* acts on, the ordered regions it registers for, and whether it is        *)
(* SparseDB, whose notifyThreadFinal prebuffers until its wavefront.       *)
(***************************************************************************)
EXTENDS Integers, Sequences, FiniteSets, FiniteSetsExt

CONSTANTS TeamSizes,            \* numbers of threads
          Configs,              \* sets of Sources: sequences of [provides, closes, merged]
          Sinks                 \* [accepts, waves, needs, orderedWavefront, orderedWrite, sparse]

Waves == {"attributes", "references", "threads", "contexts"}
Classes == Waves \cup {"rest"}
Loops == << "unscheduled", "unblock", "attributes", "references", "threads", "contexts",
            "finish", "merged", "write", "help" >>

VARIABLES team_size, sources,   \* the threads and the Sources of this run
          loop, pc,             \* thread -> loop it is in, place
          iter, sink,           \* thread -> iteration, Sink it notifies
          waves,                \* thread -> classes: requested, or to be delivered
          todo,                 \* thread -> profiles it has extracted from the prebuffer
          next,                 \* loop -> next iteration to hand out
          read, finished,       \* source -> classes requested, classes read
          locked,               \* source -> its lock is held
          wavesComplete,        \* source -> times signalled
          countdowns,           \* wave -> Sources left
          wavefrontState, wavefrontDelivered,   \* sink -> classes
          entered, left,        \* sink -> times its ordered wavefront was entered, left
          prebuffer, prebuffer_done,            \* of SparseDB
          mergedThreads,        \* the id tuples of the merged threads created
          processed,            \* profile -> times SparseDB processed it
          writing, written      \* Sinks inside write, Sinks that returned

control == <<loop, pc, iter, sink, waves, todo, next>>
reading == <<read, finished, locked, wavesComplete, countdowns>>
delivery == <<wavefrontState, wavefrontDelivered, entered, left>>
profiles == <<prebuffer, prebuffer_done, mergedThreads, processed>>
output == <<writing, written>>
config == <<team_size, sources>>
vars == <<config, control, reading, delivery, profiles, output>>

Team == 1 .. team_size
S == DOMAIN sources
K == DOMAIN Sinks

(* Settings::operator<<: a Sink is also given what goes with what it accepts. *)
dataLimit(e) ==
  LET acc == Sinks[e].accepts
  IN  acc \cup (IF "rest" \in acc THEN {"attributes", "threads"} ELSE {})
          \cup (IF "contexts" \in acc THEN {"references"} ELSE {})
waveLimit(e) == dataLimit(e) \cap Sinks[e].waves

(* The constructor: which waves happen. *)
scheduled == UNION { sources[s].provides : s \in S } \cap UNION { dataLimit(e) : e \in K }
requestedWaves == UNION { waveLimit(e) : e \in K }
scheduledWaves == requestedWaves \cap scheduled
unscheduledWaves == requestedWaves \ scheduled

(* registerOrderedWavefront, in the order of the Sinks *)
Chain(e) == { f \in K : f < e /\ Sinks[f].orderedWavefront }
wavefrontPriorDelay(e) == IF Sinks[e].orderedWavefront THEN UNION { waveLimit(f) : f \in Chain(e) } ELSE {}

(* Hpcrun4::finalizeRequest; a Source of the tree asks for what it is asked. *)
finalizeRequest(s, d) ==
  LET o1 == IF "rest" \in d THEN d \cup {"attributes", "contexts", "threads"} ELSE d
      o2 == IF "threads" \in o1 THEN o1 \cup {"contexts"} ELSE o1
      o3 == IF "contexts" \in o2 THEN o2 \cup {"references"} ELSE o2
  IN  IF sources[s].closes THEN o3 ELSE d

Own == { s \in S : sources[s].closes }
shared == 0
Profs == Own \cup { shared : s \in { x \in S : sources[x].merged } }

Init ==
  /\ team_size \in TeamSizes /\ sources \in Configs
  /\ loop = [t \in Team |-> 1] /\ pc = [t \in Team |-> "claim"]
  /\ iter = [t \in Team |-> 0] /\ sink = [t \in Team |-> 0]
  /\ waves = [t \in Team |-> {}] /\ todo = [t \in Team |-> {}]
  /\ next = [l \in DOMAIN Loops |-> 1]
  /\ read = [s \in S |-> {}] /\ finished = read
  /\ locked = [s \in S |-> FALSE]
  /\ wavesComplete = [s \in S |-> 0]
  /\ countdowns = [d \in Waves |-> Len(sources)]
  /\ wavefrontState = [e \in K |-> {}] /\ wavefrontDelivered = wavefrontState
  /\ entered = [e \in K |-> 0] /\ left = entered
  /\ prebuffer = {} /\ prebuffer_done = FALSE
  /\ mergedThreads = {}
  /\ processed = [p \in Profs |-> 0]
  /\ writing = {} /\ written = {}

-----------------------------------------------------------------------------
(* The loops *)

Loop(t) == Loops[loop[t]]
Goto(t, where) == pc' = [pc EXCEPT ![t] = where]
Src(t) == iter[t]

Iterations(l) ==
  CASE l \in {"unscheduled", "write"} -> Len(Sinks)
    [] l \in Waves -> IF l \in scheduledWaves THEN Len(sources) ELSE 0
    [] l \in {"unblock", "finish"} -> Len(sources)
    [] l = "merged" -> Cardinality(mergedThreads)
    [] l = "help" -> 0

Body(l) ==
  CASE l = "unscheduled" -> "notify" [] l = "unblock" -> "unblock" [] l \in Waves -> "request"
    [] l = "finish" -> "finish" [] l = "merged" -> "final" [] l = "write" -> "write"

(* The next iteration of the loop. *)
Claim(t) ==
  /\ pc[t] = "claim"
  /\ next[loop[t]] <= Iterations(Loop(t))
  /\ iter' = [iter EXCEPT ![t] = next[loop[t]]]
  /\ next' = [next EXCEPT ![loop[t]] = @ + 1]
  /\ Goto(t, Body(Loop(t)))
  /\ waves' = [waves EXCEPT ![t] = IF Loop(t) = "unscheduled" THEN unscheduledWaves ELSE {}]
  /\ sink' = [sink EXCEPT ![t] = IF Loop(t) = "unscheduled" THEN iter'[t] ELSE 0]
  /\ UNCHANGED <<config, loop, todo, reading, delivery, profiles, output>>

(* The two barriers of the parallel region. *)
BarrierAfter(l) == l \in {"finish", "merged"}

LeaveLoop(t) ==
  /\ pc[t] = "claim" /\ Loop(t) # "help"
  /\ next[loop[t]] > Iterations(Loop(t))
  /\ loop' = [loop EXCEPT ![t] = @ + 1]
  /\ Goto(t, IF BarrierAfter(Loop(t)) THEN "barrier" ELSE "claim")
  /\ iter' = [iter EXCEPT ![t] = 0]
  /\ UNCHANGED <<config, sink, waves, todo, next, reading, delivery, profiles, output>>

Barrier(t) ==
  /\ pc[t] = "barrier"
  /\ \A u \in Team : loop[u] >= loop[t]
  /\ Goto(t, "claim")
  /\ UNCHANGED <<config, loop, iter, sink, waves, todo, next, reading, delivery, profiles, output>>

-----------------------------------------------------------------------------
(* The waves *)

Signal(s) == wavesComplete' = [wavesComplete EXCEPT ![s] = @ + 1]
WavesOf(s) == scheduledWaves \cap sources[s].provides

(* Faulty: only the waves signal. *)
Unblock_never(t) ==
  /\ pc[t] = "unblock"
  /\ Goto(t, "claim")
  /\ UNCHANGED <<config, loop, iter, sink, waves, todo, next, reading, delivery, profiles, output>>
Unblock(t) ==
  /\ pc[t] = "unblock"
  /\ IF WavesOf(Src(t)) = {} THEN Signal(Src(t)) ELSE UNCHANGED wavesComplete
  /\ Goto(t, "claim")
  /\ UNCHANGED <<config, loop, iter, sink, waves, todo, next, read, finished, locked,
                 countdowns, delivery, profiles, output>>

Wanted(s, d) == (finalizeRequest(s, d) \ read[s]) \cap sources[s].provides

(* Faulty: the Source is not locked while it reads. *)
Request_unlocked(t) ==
  LET s == Src(t)
      req == Wanted(s, {Loop(t)})
  IN  /\ pc[t] = "request"
      /\ read' = [read EXCEPT ![s] = @ \cup req]
      /\ waves' = [waves EXCEPT ![t] = req]
      /\ Goto(t, IF req = {} THEN "countdown" ELSE "read")
      /\ UNCHANGED <<config, loop, iter, sink, todo, next, finished, locked, wavesComplete,
                     countdowns, delivery, profiles, output>>
(* With the Source's lock, which is kept while there is something to read. *)
Request(t) ==
  LET s == Src(t)
      req == Wanted(s, {Loop(t)})
  IN  /\ pc[t] = "request"
      /\ ~locked[s]
      /\ locked' = [locked EXCEPT ![s] = req # {}]
      /\ read' = [read EXCEPT ![s] = @ \cup req]
      /\ waves' = [waves EXCEPT ![t] = req]
      /\ Goto(t, IF req = {} THEN "countdown" ELSE "read")
      /\ UNCHANGED <<config, loop, iter, sink, todo, next, finished, wavesComplete,
                     countdowns, delivery, profiles, output>>

(* Source::mergedThread: looked up with the lock shared, *)
MergedLookup(t) ==
  /\ pc[t] = "read"
  /\ sources[Src(t)].merged /\ "contexts" \in waves[t] /\ shared \notin mergedThreads
  /\ Goto(t, "merge")
  /\ UNCHANGED <<config, loop, iter, sink, waves, todo, next, reading, delivery, profiles, output>>

(* and again with the lock held alone: whoever comes first creates it. *)
MergedInsert(t) ==
  /\ pc[t] = "merge"
  /\ mergedThreads' = mergedThreads \cup {shared}
  /\ Goto(t, "readDone")
  /\ UNCHANGED <<config, loop, iter, sink, waves, todo, next, reading, delivery, prebuffer,
                 prebuffer_done, processed, output>>

(* read() returns; the last of the Source's waves unblocks its finishing. *)
Read(t) ==
  LET s == Src(t)
  IN  /\ \/ pc[t] = "readDone"
         \/ pc[t] = "read" /\ ~(sources[s].merged /\ "contexts" \in waves[t] /\ shared \notin mergedThreads)
      /\ finished' = [finished EXCEPT ![s] = @ \cup waves[t]]
      /\ IF WavesOf(s) \subseteq read[s] THEN Signal(s) ELSE UNCHANGED wavesComplete
      /\ locked' = [locked EXCEPT ![s] = FALSE]
      /\ waves' = [waves EXCEPT ![t] = {}]
      /\ Goto(t, "countdown")
      /\ UNCHANGED <<config, loop, iter, sink, todo, next, read, countdowns, delivery, profiles,
                     output>>

(* The last Source of the wave: all Sinks are notified. *)
Countdown(t) ==
  LET d == Loop(t)
      last == countdowns[d] = 1
  IN  /\ pc[t] = "countdown"
      /\ countdowns' = [countdowns EXCEPT ![d] = @ - 1]
      /\ waves' = [waves EXCEPT ![t] = IF last THEN {d} ELSE {}]
      /\ sink' = [sink EXCEPT ![t] = IF last THEN 1 ELSE 0]
      /\ Goto(t, IF last THEN "notify" ELSE "claim")
      /\ UNCHANGED <<config, loop, iter, todo, next, read, finished, locked, wavesComplete,
                     delivery, profiles, output>>

-----------------------------------------------------------------------------
(* Notifying a Sink *)

(* On to the next Sink, or back to the loop. *)
NextSink(t) ==
  LET more == Loop(t) \in Waves /\ sink[t] < Len(Sinks)
  IN  /\ sink' = [sink EXCEPT ![t] = IF more THEN @ + 1 ELSE 0]
      /\ waves' = [waves EXCEPT ![t] = IF more THEN {Loop(t)} ELSE {}]
      /\ Goto(t, IF more THEN "notify" ELSE "claim")

(* Something new to deliver, and the Sinks before it in the chain can be told. *)
Due(e, state) ==
  /\ ~(state \cap waveLimit(e) \subseteq wavefrontDelivered[e])
  /\ wavefrontPriorDelay(e) \cap scheduledWaves \subseteq state

Notify(t) ==
  LET e == sink[t]
      state == wavefrontState[e] \cup waves[t]
  IN  /\ pc[t] = "notify"
      /\ wavefrontState' = [wavefrontState EXCEPT ![e] = state]
      /\ IF Due(e, state)
         THEN /\ wavefrontDelivered' = [wavefrontDelivered EXCEPT ![e] = @ \cup (state \cap waveLimit(e))]
              /\ waves' = [waves EXCEPT ![t] = wavefrontDelivered'[e]]
              /\ Goto(t, "deliver")
              /\ UNCHANGED sink
         ELSE NextSink(t) /\ UNCHANGED wavefrontDelivered
      /\ UNCHANGED <<config, loop, iter, todo, next, reading, entered, left, profiles, output>>

(* notifyWavefront of a Sink that waits for more. *)
Ignore(t) ==
  /\ pc[t] = "deliver"
  /\ ~(Sinks[sink[t]].needs \subseteq waves[t])
  /\ NextSink(t)
  /\ UNCHANGED <<config, loop, iter, todo, next, reading, delivery, profiles, output>>

(* Faulty: nobody waits for the Sink before. *)
MayEnter_now(e) == TRUE
(* enterOrderedWavefront waits for the Sink before it in the chain. *)
MayEnter(e) == Chain(e) # {} => left[Max(Chain(e))] > 0

Enter(t) ==
  LET e == sink[t]
  IN  /\ pc[t] = "deliver"
      /\ Sinks[e].needs \subseteq waves[t]
      /\ Sinks[e].orderedWavefront => MayEnter(e)
      /\ entered' = [entered EXCEPT ![e] = @ + 1]
      /\ Goto(t, IF Sinks[e].sparse THEN "extract" ELSE "leave")
      /\ UNCHANGED <<config, loop, iter, sink, waves, todo, next, reading, wavefrontState,
                     wavefrontDelivered, left, profiles, output>>

(* SparseDB drains its prebuffer, with the region still entered. *)
Extract(t) ==
  /\ pc[t] = "extract"
  /\ todo' = [todo EXCEPT ![t] = prebuffer]
  /\ prebuffer' = {} /\ prebuffer_done' = TRUE
  /\ Goto(t, "drain")
  /\ UNCHANGED <<config, loop, iter, sink, waves, next, reading, delivery, mergedThreads,
                 processed, output>>

Drain(t) ==
  /\ pc[t] = "drain"
  /\ \E p \in todo[t] :
       /\ processed' = [processed EXCEPT ![p] = @ + 1]
       /\ todo' = [todo EXCEPT ![t] = @ \ {p}]
  /\ UNCHANGED <<config, loop, pc, iter, sink, waves, next, reading, delivery, prebuffer,
                 prebuffer_done, mergedThreads, output>>

Leave(t) ==
  /\ pc[t] = "leave" \/ (pc[t] = "drain" /\ todo[t] = {})
  /\ left' = [left EXCEPT ![sink[t]] = @ + 1]
  /\ NextSink(t)
  /\ UNCHANGED <<config, loop, iter, todo, next, reading, wavefrontState, wavefrontDelivered,
                 entered, profiles, output>>

-----------------------------------------------------------------------------
(* The finishing wave and the threads that are complete *)

Finish(t) ==
  LET s == Src(t)
      req == Wanted(s, scheduled \ scheduledWaves)
  IN  /\ pc[t] = "finish"
      /\ wavesComplete[s] > 0 /\ ~locked[s]
      /\ read' = [read EXCEPT ![s] = @ \cup req]
      /\ finished' = [finished EXCEPT ![s] = @ \cup req]
      /\ Goto(t, IF s \in Own THEN "final" ELSE "claim")
      /\ UNCHANGED <<config, loop, iter, sink, waves, todo, next, locked, wavesComplete,
                     countdowns, delivery, profiles, output>>

Prof(t) == IF Loop(t) = "merged" THEN shared ELSE iter[t]

(* SparseDB::notifyThreadFinal, first with the lock shared, *)
ThreadFinal(t) ==
  /\ pc[t] = "final"
  /\ IF prebuffer_done
     THEN processed' = [processed EXCEPT ![Prof(t)] = @ + 1] /\ Goto(t, "claim")
     ELSE Goto(t, "finalLock") /\ UNCHANGED processed
  /\ UNCHANGED <<config, loop, iter, sink, waves, todo, next, reading, delivery, prebuffer,
                 prebuffer_done, mergedThreads, output>>

(* Faulty: the thread is prebuffered although the wavefront has passed. *)
Late_never == FALSE
(* then alone, when the wavefront may have passed. *)
Late == prebuffer_done

ThreadFinalLocked(t) ==
  /\ pc[t] = "finalLock"
  /\ IF Late
     THEN processed' = [processed EXCEPT ![Prof(t)] = @ + 1] /\ UNCHANGED prebuffer
     ELSE prebuffer' = prebuffer \cup {Prof(t)} /\ UNCHANGED processed
  /\ Goto(t, "claim")
  /\ UNCHANGED <<config, loop, iter, sink, waves, todo, next, reading, delivery,
                 prebuffer_done, mergedThreads, output>>

-----------------------------------------------------------------------------
(* Writing *)

(* write() of a Sink with an ordered region.  registerOrderedWrite never sets *)
(* priorWriteDepOnce, so that enterOrderedWrite waits for nobody.             *)
EnterWrite(t) ==
  /\ pc[t] = "write"
  /\ writing' = writing \cup {iter[t]}
  /\ Goto(t, "writing")
  /\ UNCHANGED <<config, loop, iter, sink, waves, todo, next, reading, delivery, profiles, written>>

LeaveWrite(t) ==
  /\ pc[t] = "writing"
  /\ writing' = writing \ {iter[t]}
  /\ written' = written \cup {iter[t]}
  /\ Goto(t, "claim")
  /\ UNCHANGED <<config, loop, iter, sink, waves, todo, next, reading, delivery, profiles>>

(* Helping the Sinks until all of them are done. *)
Help(t) ==
  /\ pc[t] = "claim" /\ Loop(t) = "help"
  /\ written = K
  /\ Goto(t, "done")
  /\ UNCHANGED <<config, loop, iter, sink, waves, todo, next, reading, delivery, profiles, output>>

Done == \A t \in Team : pc[t] = "done"

Step(t) ==
  \/ Claim(t) \/ LeaveLoop(t) \/ Barrier(t) \/ Unblock(t) \/ Request(t)
  \/ MergedLookup(t) \/ MergedInsert(t) \/ Read(t) \/ Countdown(t)
  \/ Notify(t) \/ Ignore(t) \/ Enter(t) \/ Extract(t) \/ Drain(t) \/ Leave(t)
  \/ Finish(t) \/ ThreadFinal(t) \/ ThreadFinalLocked(t)
  \/ EnterWrite(t) \/ LeaveWrite(t) \/ Help(t)

Next == (\E t \in Team : Step(t)) \/ (Done /\ UNCHANGED vars)

Spec == Init /\ [][Next]_vars
FairSpec == Spec /\ \A t \in 1 .. Max(TeamSizes) : WF_vars(t \in Team /\ Step(t))

-----------------------------------------------------------------------------
(* When a Sink is told that a wave has passed, every Source has returned     *)
(* from reading what it provides of it, also when another thread reads it as *)
(* part of another wave's request.                                           *)
WavePassed ==
  \A t \in Team : pc[t] \in {"deliver", "extract", "drain", "leave"} =>
    \A s \in S : waves[t] \cap sources[s].provides \subseteq finished[s]

(* No Once is signalled twice ("Once cannot be signal()'d more than once!"), *)
(* neither a Source's wavesComplete nor a Sink's wavefrontDepOnce.           *)
SignalledOnce ==
  /\ \A s \in S : wavesComplete[s] <= 1
  /\ \A e \in K : Sinks[e].orderedWavefront => entered[e] <= 1

(* The ordered wavefront regions, with their collective MPI operations, are  *)
(* entered in the order of the chain and one at a time, whichever threads    *)
(* deliver the waves.                                                        *)
RegionsInOrder ==
  \A e \in K : \A f \in Chain(e) :
    Sinks[e].orderedWavefront /\ entered[e] > 0 => left[f] > 0

(* When SparseDB writes, every thread's profile has been processed, once:    *)
(* the ones prebuffered, the ones that came when the wavefront was passing   *)
(* and the ones that several Sources share.                                  *)
AllProcessed ==
  \A e \in writing \cup written : Sinks[e].sparse =>
    /\ prebuffer = {}
    /\ \A p \in DOMAIN processed : processed[p] = 1

(* run() returns, however few threads there are: no thread waits for a wave, *)
(* a Once, a barrier or a Sink that only it could bring about.               *)
RunReturns == <>Done

(* enterOrderedWrite: "Wait for the the previous element of the dependency   *)
(* ordering chain to complete".                                              *)
WritesInOrder ==
  \A e \in writing \cup written, f \in K :
    f < e /\ Sinks[e].orderedWrite /\ Sinks[f].orderedWrite => f \in written
=============================================================================
