----------------------------- MODULE MCHpcprof ------------------------------
(***************************************************************************)
(* The parallel run of hpcprof: the workshares that spread loops over a    *)
(* team (ParallelWork, which this module extends), the pipeline from       *)
(* Sources to Sinks, and the writing of profile.db by several ranks.  They *)
(* are independent here, so a behaviour runs one of them, chosen at the    *)
(* start; the workshare does not move in the others, and their variables   *)
(* are 0 in it: there are as many states as the components have together,  *)
(* not their product.                                                      *)
(***************************************************************************)
EXTENDS ParallelWork, TLC

CONSTANTS a, b, c

(* Sources: a measurement file that has everything and shares a thread, the  *)
(* two files that go with a GPU binary, and one with metrics alone.  Sinks:  *)
(* what SparseDB and HPCTraceDB2 accept, wait for and order.                 *)
Classes == {"attributes", "references", "threads", "contexts", "rest"}
Hpcrun4 == [provides |-> Classes, closes |-> TRUE, merged |-> TRUE]
Metadata == [provides |-> {"attributes", "references", "contexts"}, closes |-> FALSE,
             merged |-> FALSE]
Metrics == [provides |-> {"rest"}, closes |-> FALSE, merged |-> FALSE]
SparseDB == [accepts |-> {"threads", "contexts", "rest"}, waves |-> {"contexts", "threads"},
             needs |-> {"contexts", "threads"}, orderedWavefront |-> TRUE,
             orderedWrite |-> TRUE, sparse |-> TRUE]
HPCTraceDB2 == [accepts |-> {"attributes", "threads", "contexts", "rest"},
                waves |-> {"threads"}, needs |-> {"threads"}, orderedWavefront |-> TRUE,
                orderedWrite |-> FALSE, sparse |-> FALSE]

(* Profiles of the workers a and b of rank 0 and c of rank 1, two of which   *)
(* fill a buffer and one of which is empty.                                  *)
Small == [mv |-> 10, ci |-> 12]
Big == [mv |-> 20, ci |-> 12]
NoData == [mv |-> 0, ci |-> 0]
Profiles == (a :> <<Small, Small>>) @@ (b :> <<Big>>) @@ (c :> <<Small, NoData, Big>>)

VARIABLES running     \* the component that this behaviour runs

-----------------------------------------------------------------------------
(* ParallelWork itself is a RepeatingParallelFor.  This is a ParallelFor: one *)
(* batch, in blocks, of the same items or of none.                            *)
Single == INSTANCE ParallelWork
  WITH repeating <- FALSE, blockSize <- 2, Sizes <- Sizes \cup {0}, MaxBatches <- 1
-----------------------------------------------------------------------------
VARIABLES team_size, sources, loop, p_pc, iter, sink, waves, todo, next, read,
          finished, locked, wavesComplete, countdowns, wavefrontState,
          wavefrontDelivered, entered, left, prebuffer, prebuffer_done,
          mergedThreads, processed, writing, written

pipeline == <<team_size, sources, loop, p_pc, iter, sink, waves, todo, next,
              read, finished, locked, wavesComplete, countdowns,
              wavefrontState, wavefrontDelivered, entered, left, prebuffer,
              prebuffer_done, mergedThreads, processed, writing, written>>

Run == INSTANCE Pipeline
  WITH TeamSizes <- {1, 2}, Configs <-
        {<<Hpcrun4, Hpcrun4>>, <<Hpcrun4, Metrics>>, <<Metadata, Metrics>>},
       Sinks <- <<SparseDB, HPCTraceDB2>>, pc <- p_pc
-----------------------------------------------------------------------------
VARIABLES d_pc, ret, d_done, lowlock, blob, pieces, currentBuf, buf, tag,
          amount, got, atom, query, reply, server, started, mpiLock, arrived,
          pos, file, info, seen, range, d_taken

database == <<d_pc, ret, d_done, lowlock, blob, pieces, currentBuf, buf, tag,
              amount, got, atom, query, reply, server, started, mpiLock,
              arrived, pos, file, info, seen, range, d_taken>>

Database == INSTANCE ProfileOutput
  WITH Size <- 2, Workers <- <<{a, b}, {c}>>, Summary <- Small,
       bufferSize <- 30, startOffset <- 6, NumRanges <- 3,
       needsLock <- FALSE, pc <- d_pc, done <- d_done, taken <- d_taken
-----------------------------------------------------------------------------
suite == <<running, vars, pipeline, database>>

(* The variables of the components that do not run. *)
NoPipeline ==
  /\ team_size = 0 /\ sources = 0 /\ loop = 0 /\ p_pc = 0 /\ iter = 0
  /\ sink = 0 /\ waves = 0 /\ todo = 0 /\ next = 0 /\ read = 0
  /\ finished = 0 /\ locked = 0 /\ wavesComplete = 0 /\ countdowns = 0
  /\ wavefrontState = 0 /\ wavefrontDelivered = 0 /\ entered = 0 /\ left = 0
  /\ prebuffer = 0 /\ prebuffer_done = 0 /\ mergedThreads = 0
  /\ processed = 0 /\ writing = 0 /\ written = 0
NoDatabase ==
  /\ d_pc = 0 /\ ret = 0 /\ d_done = 0 /\ lowlock = 0 /\ blob = 0
  /\ pieces = 0 /\ currentBuf = 0 /\ buf = 0 /\ tag = 0 /\ amount = 0
  /\ got = 0 /\ atom = 0 /\ query = 0 /\ reply = 0 /\ server = 0
  /\ started = 0 /\ mpiLock = 0 /\ arrived = 0 /\ pos = 0 /\ file = 0
  /\ info = 0 /\ seen = 0 /\ range = 0 /\ d_taken = 0

SuiteInit ==
  /\ running \in {"repeating", "single", "pipeline", "database"}
  /\ IF running = "single" THEN Single!Init ELSE Init
  /\ IF running = "pipeline" THEN Run!Init ELSE NoPipeline
  /\ IF running = "database" THEN Database!Init ELSE NoDatabase

Runs(x) == running = x /\ UNCHANGED running

SuiteNext ==
  \/ Runs("repeating") /\ Next /\ UNCHANGED <<pipeline, database>>
  \/ Runs("single") /\ Single!Next /\ UNCHANGED <<pipeline, database>>
  \/ Runs("pipeline") /\ Run!Next /\ UNCHANGED <<vars, database>>
  \/ Runs("database") /\ Database!Next /\ UNCHANGED <<vars, pipeline>>

(* The fairness of each component is that of its own module. *)
SuiteSpec ==
  /\ SuiteInit /\ [][SuiteNext]_suite
  /\ WF_vars(\/ running = "repeating" /\ Master
             \/ running = "single" /\ Single!Master)
  /\ \A t \in Threads :
       WF_vars(\/ running = "repeating" /\ Contribute(t)
               \/ running = "single" /\ Single!Contribute(t))
  /\ \A t \in {1, 2} : WF_pipeline(running = "pipeline" /\ t \in 1 .. team_size /\ Run!Step(t))
  /\ \A w \in {a, b, c} : WF_database(running = "database" /\ Database!Worker(w))
  /\ \A r \in {0, 1} : WF_database(running = "database" /\ Database!Main([main |-> r]))
  /\ \A g \in {"SparseDB_1", "SparseDB_2"} : WF_database(running = "database" /\ Database!Server(g))
-----------------------------------------------------------------------------

(* parallel_work.hpp: contributeUntilEmpty and complete return, and every    *)
(* helper is told that the workshare is completed.                           *)
SharesFinish == <>(running \in {"repeating", "single"} => Done)

(* pipeline.cpp: run returns, however few threads there are.                 *)
RunReturns == <>(running = "pipeline" => Run!Done)

(* sparsedb.cpp: what the ranks write to profile.db does not overlap, as     *)
(* long as one thread per rank asks for room.                                *)
ProfilesApart == running = "database" => Database!ProfilesApart

(* sparsedb.cpp: each rank reads back, for the profiles of all ranks,        *)
(* offsets at which they have been written.                                  *)
InfosFinal == running = "database" => Database!InfosFinal

(* sparsedb.cpp, accumulate-thread.cpp: every rank gets through              *)
(* SparseDB::write, and has then transposed every range of contexts once.    *)
WriteReturns ==
  <>(running = "database" =>
       Database!Finished /\ \A i \in DOMAIN d_taken : d_taken[i] = 1)
=============================================================================
