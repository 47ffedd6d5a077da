----------------------------- MODULE MCSafety -------------------------------
(***************************************************************************)
(* The queue of the GPU channels (MPSCQueue), which this module extends,   *)
(* and what the threads and ranks of hpcprof work on at once: the pipeline *)
(* with a team of three, and the contents and the layout of trace.db.      *)
(* They are independent here, so a behaviour runs one of them, chosen at   *)
(* the start.  The queue stays in its initial state in the others, and the *)
(* variables of the other components are 0 unless they run: there are as   *)
(* many states as the components have together, not their product.         *)
(***************************************************************************)
EXTENDS MPSCQueue, Integers, FiniteSets, TLC

(* Traces: short ones in any order, longer ones that the sort buffer of the  *)
(* declared disorder cannot straighten, and some that the larger buffer      *)
(* cannot straighten either, so that they are sorted in memory.              *)
Timed(t) == { [ i \in DOMAIN t |-> [time |-> t[i], blank |-> b[i]] ] :
                b \in [DOMAIN t -> BOOLEAN] }
Traces == [1 .. 4 -> [time : 1 .. 2, blank : BOOLEAN]] \cup Timed(<<2, 3, 1>>)
            \cup Timed(<<2, 4, 6, 8, 10, 5>>) \cup {<<>>}
            \cup { t \in Timed(<<2, 4, 6, 8, 10, 1>>) :
                    \A i \in {2, 4, 5} : ~ t[i].blank }

(* Sources: a measurement file that has everything and shares a thread, the  *)
(* two files that go with a GPU binary, and one with metrics alone.  Sinks:  *)
(* what SparseDB and HPCTraceDB2 accept, wait for and order.                 *)
Classes == {"attributes", "references", "threads", "contexts", "rest"}
Hpcrun4 == [provides |-> Classes, closes |-> TRUE, merged |-> TRUE]
Metadata == [provides |-> {"attributes", "references", "contexts"}, closes |-> FALSE,
             merged |-> FALSE]
Metrics == [provides |-> {"rest"}, closes |-> FALSE, merged |-> FALSE]
SparseDB == [accepts |-> {"threads", "contexts", "rest"}, waves |-> {"contexts", "threads"},
             needs |-> {"contexts", "threads"}, orderedWavefront |-> TRUE,
             orderedWrite |-> TRUE, sparse |-> TRUE]
HPCTraceDB2 == [accepts |-> {"attributes", "threads", "contexts", "rest"},
                waves |-> {"threads"}, needs |-> {"threads"}, orderedWavefront |-> TRUE,
                orderedWrite |-> FALSE, sparse |-> FALSE]

VARIABLES running     \* the component that this behaviour runs

-----------------------------------------------------------------------------
VARIABLES trace, pos, bound, sortBuf, staging, unboundedDisorder, rpc, ret,
          batch, prebuffer, prebuffer_done, hdr_prebuffered, buffer, off,
          tmcntr, lastWasBlank, wpc, drained, file, hdr, emitted, rewound

output == <<trace, pos, bound, sortBuf, staging, unboundedDisorder, rpc, ret,
            batch, prebuffer, prebuffer_done, hdr_prebuffered, buffer, off,
            tmcntr, lastWasBlank, wpc, drained, file, hdr, emitted, rewound>>

Output == INSTANCE TraceOutput
  WITH Inputs <- Traces, Disorder <- {0, 1}, FallbackBound <- 5,
       FallbackLimit <- 4, StagingMax <- 2, BufferMax <- 2
-----------------------------------------------------------------------------
VARIABLES team_size, sources, loop, p_pc, iter, sink, waves, todo, p_next,
          read, finished, locked, wavesComplete, countdowns, wavefrontState,
          wavefrontDelivered, entered, left, p_prebuffer, p_prebuffer_done,
          mergedThreads, processed, writing, written

pipeline == <<team_size, sources, loop, p_pc, iter, sink, waves, todo, p_next,
              read, finished, locked, wavesComplete, countdowns,
              wavefrontState, wavefrontDelivered, entered, left, p_prebuffer,
              p_prebuffer_done, mergedThreads, processed, writing, written>>

Run == INSTANCE Pipeline
  WITH TeamSizes <- {3}, Configs <-
        {<<Hpcrun4, Hpcrun4>>, <<Hpcrun4, Metrics>>, <<Metadata, Metrics>>},
       Sinks <- <<SparseDB, HPCTraceDB2>>, pc <- p_pc, next <- p_next,
       prebuffer <- p_prebuffer, prebuffer_done <- p_prebuffer_done
-----------------------------------------------------------------------------
VARIABLES counts, l_pc, data, tmp, round, total, l_hdr, footerPos

layout == <<counts, l_pc, data, tmp, round, total, l_hdr, footerPos>>

Layout == INSTANCE TraceLayout
  WITH Size <- 2, MaxThreads <- 4, Counts <- {0, 1}, pc <- l_pc,
       hdr <- l_hdr
-----------------------------------------------------------------------------
suite == <<running, vars, output, pipeline, layout>>

(* The variables of the other components when they do not run. *)
NoOutput ==
  /\ trace = 0 /\ pos = 0 /\ bound = 0 /\ sortBuf = 0 /\ staging = 0
  /\ unboundedDisorder = 0 /\ rpc = 0 /\ ret = 0 /\ batch = 0
  /\ prebuffer = 0 /\ prebuffer_done = 0 /\ hdr_prebuffered = 0
  /\ buffer = 0 /\ off = 0 /\ tmcntr = 0 /\ lastWasBlank = 0 /\ wpc = 0
  /\ drained = 0 /\ file = 0 /\ hdr = 0 /\ emitted = 0 /\ rewound = 0
NoRun ==
  /\ team_size = 0 /\ sources = 0 /\ loop = 0 /\ p_pc = 0 /\ iter = 0
  /\ sink = 0 /\ waves = 0 /\ todo = 0 /\ p_next = 0 /\ read = 0
  /\ finished = 0 /\ locked = 0 /\ wavesComplete = 0 /\ countdowns = 0
  /\ wavefrontState = 0 /\ wavefrontDelivered = 0 /\ entered = 0 /\ left = 0
  /\ p_prebuffer = 0 /\ p_prebuffer_done = 0 /\ mergedThreads = 0
  /\ processed = 0 /\ writing = 0 /\ written = 0
NoLayout ==
  /\ counts = 0 /\ l_pc = 0 /\ data = 0 /\ tmp = 0 /\ round = 0 /\ total = 0
  /\ l_hdr = 0 /\ footerPos = 0

SuiteInit ==
  /\ running \in {"queue", "output", "pipeline", "layout"}
  /\ Init
  /\ IF running = "output" THEN Output!Init ELSE NoOutput
  /\ IF running = "pipeline" THEN Run!Init ELSE NoRun
  /\ IF running = "layout" THEN Layout!Init ELSE NoLayout

Runs(x) == running = x /\ UNCHANGED running

SuiteNext ==
  \/ /\ Runs("queue") /\ Next
     /\ UNCHANGED <<output, pipeline, layout>>
  \/ /\ Runs("output") /\ Output!Next
     /\ UNCHANGED <<vars, pipeline, layout>>
  \/ /\ Runs("pipeline") /\ Run!Next
     /\ UNCHANGED <<vars, output, layout>>
  \/ /\ Runs("layout") /\ Layout!Next
     /\ UNCHANGED <<vars, output, pipeline>>

SuiteSpec == SuiteInit /\ [][SuiteNext]_suite
-----------------------------------------------------------------------------
(* pipeline.cpp, hpctracedb2.cpp: a Sink is given the timepoints of a thread *)
(* in order since the start or the last rewind, and without a rewind the     *)
(* trace in the file is the one that was read, whichever thread writes which *)
(* part of it.                                                               *)
TraceRight == running = "output" => Output!EmittedInOrder /\ Output!StraightTraceRight

(* pipeline.cpp: when a Sink is told that a wave has passed, every Source    *)
(* has returned from reading what it provides of it.                         *)
WavePassed == running = "pipeline" => Run!WavePassed

(* pipeline.cpp: the ordered wavefront regions are entered in the order of   *)
(* the chain and one at a time, whichever threads deliver the waves, and no  *)
(* Once is signalled twice.                                                  *)
RegionsInOrder == running = "pipeline" => Run!RegionsInOrder /\ Run!SignalledOnce

(* pipeline.cpp, sparsedb.cpp: when SparseDB writes, every thread's profile  *)
(* has been processed, once.                                                 *)
AllProcessed == running = "pipeline" => Run!AllProcessed

(* hpctracedb2.cpp: the traces of all ranks lie apart in trace.db.           *)
TracesApart == running = "layout" => Layout!TracesApart
=============================================================================
