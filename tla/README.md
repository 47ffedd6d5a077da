# Formal models of HPCToolkit

TLA+ specifications of the concurrent parts of HPCToolkit, with the TLC
configurations that check them on small instances and TLAPS proofs for every
size of instance. Everything is translated from the sources under `src/src/`;
`PROJECT.json` maps every definition to the lines it models.

Paths below are relative to `src/src/` of the repository.

## 1. The system

HPCToolkit measures an application from inside its process (`hpcrun`), analyses
its binaries (`hpcstruct`), merges the measurements (`hpcprof`, on several MPI ranks
as `hpcprof-mpi`) and prints them (`hpcproftt`, `hpctracedump`). What is hard to get
right, and hard to test, is in two places. `hpcrun` lives in signal handlers, in
callbacks of GPU runtimes and in threads of its own, beside application threads
that begin, end and call `exit` as they please, and it must have written
everything when the process is gone. `hpcprof` reads thousands of files with a
team of threads on every rank, and the order in which its sinks learn things is
left to whoever comes first.

| Part | State | Operations | Interacts with | What is hard |
|---|---|---|---|---|
| MCS lock (`common/lean/mcs-lock.c`) | queue of nodes on the callers' stacks | lock, trylock, unlock | pfq-rwlock, skip list, GPU tracing | links appear after the exchange of the tail; node lifetime |
| phase-fair lock (`common/lean/pfq-rwlock.c`) | three ticket words, two phase flags, head writer | read/write lock/unlock | MCS lock (shared nodes), skip list | a departing reader signals a writer without holding anything; wrap |
| MPSC queue (`common/lean/collections/mpsc-queue.h`) | head, tail, links, allocators | enqueue, dequeue, allocate, deallocate | all GPU channels | half-linked entries; recycling |
| channel sets (`hpcrun/gpu/common`) | counts, condition variable, stop flag | add, send, await, apply, notify | MPSC queue, operation and tracing threads | lost signals, counts that wrap, draining at the end |
| GPU operations (`hpcrun/gpu/operation`, `gpu/api/opencl`) | pending counts, operation and activity channels | submit, complete, flush, attribute, finalize | OpenCL runtime, channel sets, libmonitor | activities travel through other threads' channels while threads end |
| activity channels (`hpcrun/gpu/activity`, `common/lean/collections/concurrent-id-map.h`) | ids, blocks of channels | get by id | GPU operations | blocks allocated by several threads at once |
| GPU tracing (`hpcrun/gpu/trace`) | streams, channel sets, tracing threads | process, acquire, push, consume, release, finalize | MCS lock, channel sets, thread data | sets filled concurrently; files closed exactly when complete |
| blame shifting (`hpcrun/sample-sources/pthread-blame.c`, `blame-map.c`) | a table of object id and weight | wait, sample, accept | samples, application locks | samples and unlocks change one word at once |
| skip list (`common/lean/cskiplist.c`) | nodes on layers, node locks | insert, find, delete ranges | pfq-rwlock, MCS lock | searches without locks |
| unwind recipes (`hpcrun/unwind/common/uw_recipe_map.c`), load map | intervals, recipes, a hash table for each thread | look up, build, map, unmap | skip list, samples | recipes built once; modules come and go under samples |
| libmonitor (`hpcrun/libmonitor`) | list of thread nodes, exit cookie, flags | create, link, unlink, shoot down, exit | signal handlers, samples | signals arrive anywhere; exit races |
| sample handling (`hpcrun/sample_event.c`, `safe-sampling.h`) | shootdown block, sampling state | enter, block, unblock, creation context | libmonitor | handlers interrupt handlers |
| thread manager (`hpcrun/threadmgr.c`) | list of unused thread data | get, put, write at the end | libmonitor, output | data reused by many threads, written by a pool of workers |
| worksharing (`hpcprof/util/parallel_work.hpp`) | three counters | fill, contribute, complete | pipeline, sinks | no lock; helpers look whenever they like |
| pipeline (`hpcprof/pipeline.cpp`) | waves, countdowns, Onces | run | Sources, Sinks | loops without barriers; ordered regions |
| trace output (`hpcprof/pipeline.cpp`, `sinks/hpctracedb2.cpp`) | sort buffer, prebuffer, offsets | timepoint, rewind, wavefront | pipeline, MPI | everything may start again; where a trace goes is known late |
| profile output (`hpcprof/sinks/sparsedb.cpp`, `mpi/`) | two buffers, accumulators | process, flush, write | pipeline, MPI | room handed out by another rank |

`PROJECT.json` lists every component, also those not modelled and why, and the
hazards of the code, each at its line and with the properties that cover it.

## 2. Modules

```
FairLock  <--refines--  MCSLock  <--INSTANCE--  PFQRWLock
                                                    .  abstracted to one step in
                                                CSkipList   . abstracted in   RecipeMap

FifoQueues <--refines-- MPSCQueue
                           .  abstracted to exchange and link in
                        ChannelSet  . abstracted in   GPUOperation, GPUTrace
                        TraceDemux  . abstracted in   GPUTrace
                        ActivityChannels  . one step in  GPUOperation

LockBlame  Monitor  ThreadMgr
ParallelWork  Pipeline  TraceOutput  TraceLayout  ProfileOutput

GPUStreams    = ChannelSet, GPUTrace                       (instances, side by side)
SharedTables  = TraceDemux, ActivityChannels, LockBlame    (instances, side by side)

Suites: MCHpcrun  (GPUOperation GPUStreams PFQRWLock; with fairness)
        MCHpcprof (ParallelWork twice, Pipeline, ProfileOutput; with fairness)
        MCShared  (MCSLock SharedTables CSkipList RecipeMap)
        MCSafety  (MPSCQueue TraceOutput Pipeline TraceLayout)
Proofs: MCSLockProofs  . instantiated in  PFQRWLockProofs
        ThreadMgrProofs  MonitorProofs  MPSCQueueProofs  ParallelWorkProofs
        GPUProofs (GPUOperation GPUStreams)   SharedTablesProofs (SharedTables)
```

A suite puts independent components side by side: the variable `running` is
chosen at the start and only that component takes steps, so that the states add
up and do not multiply. Variables whose names clash are renamed with a letter in
front (`d_pc`, `i_pc`).

All modules share some conventions.

- **Steps.** Each thread has a program counter (in `Monitor`, a stack of frames,
  since handlers interrupt functions). One action is one access to shared
  memory, or one call that is a single step for everybody else; accesses to
  private data go with the next shared one.
- **Memory.** Interleaving is sequentially consistent. The MPSC queue and the
  GPU code use C11 atomics of the default, sequentially consistent, order. The two
  locks, the recipes' states and the counters of hpcprof use acquire and release,
  the thread manager and the exchanges of the blame table relaxed order, and
  libmonitor and the skip list `volatile` flags without atomics: for these, that
  the annotations suffice is an assumption of the models, not a result.
- **Names.** Variables and actions have the names of the fields and functions
  they model. What has no counterpart in the code is marked `history` or
  `bound` where it is declared.
- **Faulty variants.** A definition `Name_whatIsWrong` just before `Name` is a
  plausible mistake in that code. It is used by no specification; replacing
  `Name` by it makes TLC find the violation of the property named with it in
  `PROJECT.json`, which shows that the property depends on the code being as it
  is.

### MCSLock, FairLock

`tail`, `next` and `blocked` are the fields of lock and nodes. `LockSwap`,
`LockBlock`, `LockLink`, `LockSpin` are the four accesses of `mcs_lock`,
`TryLock` is `mcs_trylock`, and `UnlockLoad`, `UnlockCas`, `UnlockAwait`,
`UnlockSignal` are those of `mcs_unlock`. A node is named by its thread and its
fields are arbitrary to begin with, as on a stack. The history variables `place`
and `len` number the queue; through them the module refines `FairLock`, whose
three actions (enter the line, acquire at its front, leave) say what a
first-come-first-served lock is.

### PFQRWLock

Instantiates `MCSLock` for the queue of writers and shares its `blocked`
variable. The 32-bit words `r_in`, `r_out` and `last` are records of a reader
count modulo `Wrap` (2^24 in the code) and the two low bits. One assumption is
written into guards, `NoLap`: fewer than `Wrap` reads begin while a thread is
between two steps of one unlock. The history `stalled` becomes true when a writer
stores into `last` the stale ticket of a reader that has yet to compare it (`Stale`).
From then on the lock need not be exclusive (`Exclusive`), which is the finding of
run `pfq_rwlock_stall`, and it may hang. `WriterAlone`, `PhaseFair`, `WritersQueueFairly` and
`EveryoneGetsIn` therefore speak of the time before, and `MCPFQRWLock` and `MCHpcrun`
do not explore what comes after.

### MPSCQueue, FifoQueues

The arrangement is that of the GPU channels: each producer allocates from a
queue of its own, enqueues into `main`, and the consumer gives entries back.
`DeqHead`, `DeqNext`, `DeqCasTail`, `DeqCasHead` are the accesses of `dequeue`,
`EnqSwap` and `EnqLink` those of `enqueue`; `Malloc` and `Retry` are the two ends
of `allocate`. `order` has the entries in the order of the exchanges of the
tail; with it as the contents, the queues refine `FifoQueues`, in which each
entry is in exactly one place. A dequeue takes effect at its last
read-modify-write of the tail or, when the successor is known, at its store of
the head.

### ChannelSet

A channel is the number of its items. The senders add a channel, enqueue in the two
steps of the queue, the exchange of the tail (`Send`) and the link (`Link`), count (`OnSend`) and perhaps signal (`SignalTarget`); finalization
sets the flag (`SetStop`) and signals (`Notify`); the receiver is
`gpu_operation_record_thread_fn` with `base_channel_set_await` in four steps. A
signal reaches the receiver only in the state `waiting`. `uprocessed_count` is
kept modulo `Word`, as the `size_t` it is. The last item of a channel whose sender has yet
to link it cannot be received, and the one before it may seem to be missing too
(`SeemsEmpty`: the dequeue that finds the tail moved on and no link returns NULL), which
ends the walk of that channel. `owed` remembers what was in the channels when the stop flag
was set, `late` which senders had an enqueue under way during the last apply.

### GPUOperation

An operation moves through the stages new, device, operation (in the operation
channel of the thread that ran the callback), activity (in the activity channel
of the thread that submitted it) and attributed, or ends as failed: a command that
could not be enqueued, or that completes with an error, is counted as pending and never
counted down (`Complete`). `End` .. `AttributeAll` are
`opencl_api_thread_finalize`; `Stop` and `AwaitFinished` are
`gpu_operation_multiplexer_fini`; the operation thread dequeues, processes and
counts down in separate steps, because a thread may look at its pending count
between any two of them. `End(Main)` waits for the workers, which is what
`Monitor` establishes for threads that are not late. When the operation thread
sleeps is left to `ChannelSet`, trace items to `GPUTrace`.

### TraceDemux, GPUTrace

`TraceDemux` is `gpu_trace_demultiplexer_push` under contention: a counter that
threads overshoot and take back, the mutex, the second look, the new set that
becomes visible last. Its present caller holds a global lock (`gpu-trace-api.c:445`), so
there is no contention in the program as it is; the module says that the function would
stand it. `GPUTrace` is the life of streams: items are processed
under the global MCS lock (one variable here), new streams are acquired and
pushed, the tracing thread of each set consumes, and after the stop flag
consumes once more and closes. An item is sent in two steps (`Send`, `Link`), as in `ChannelSet`. Its assumption `Quiet`, that no thread is still
sending when `gpu_trace_fini` begins, is read off the order of finalization in
`hpcrun/main.c` and `gpu-operation-multiplexer.c` and not proved.

### ActivityChannels

`GetLocal` draws a thread's id, `Lookup` uses the id of another thread; both end in
`ch_map_get`: `Get` (the first block, a block that is there, NULL, or a new block),
`Install` (one turn of the loop that offers the new block to the slots) and `Load`.
`given` remembers every entry that was returned for an id.

### LockBlame

`WaitStart`, `Waited`, `WaitEnd` are an override that waits, `Release`, `GetLoad`,
`GetCas` one that unlocks, signals or posts. `Sample` and `AddCas` are the handler
that runs in a thread that waits. An entry is a record of object id and weight that
changes as one word; ids are cut down from addresses (`Low` is 2^32) and weights
from sums (`Wrap` is 2^32). The histories say what became of each weight: still in
the table, accepted, ignored because sampling was off, dropped because the entry
belongs to another object, or lost to the width.

### CSkipList

`Start`, `Walk` (one next pointer), `WaitLinked`, `Lock`, `Valid`, `Link`, `Publish`
are `cskl_insert` and the searches; `WriteLock`, `Splice`, `Free` the bulk deletions.
The free lists of nodes, one for each thread and a global one, are modelled because
recycling is what makes a stale pointer dangerous. A call does not end with `ReadUnlock`:
the value of the node is read afterwards (`ReadValue`), when a deletion may have freed it.
`members` is the abstract set; `sure` says that the key of a running call is in it and has
not been deleted since.

### RecipeMap

Intervals are kept by start address, in two layers; a call on the skip list is one step, and
what it returns is used in a later one. `Map` .. `UnpoisonRight` and `Unmap` ..
`JoinRight` are the notifications of the load map, in the order of their calls on the
skip list; `Lookup` .. `Build` and `Crash` are a sample that looks an address up, finds
the function, and builds its recipes if it is the first. Addresses outside of the
modules are looked up too, at any time; `freed` has the threads whose pair was deleted
between the search and its use (by (un|re)poisoning), which a later insert may use again. No code of a
module runs while it is being mapped or unmapped (`Idle`), an assumption. `cramped` remembers
that a poisoned interval of less than two addresses was inserted.

### ParallelWork

`Load`, `Decide`, `Cas` are the three accesses of `acquireWork`, `Work` one call of
`doWorkItem`, `Report` the end of `contribute`; `FillMax`, `FillOut`, `FillIn` the three
stores of `rawFill`; `Wait` is `waitUntilStable`, in whichever call the master is.
`repeating` chooses between `ParallelFor` and `RepeatingParallelFor`.

### Pipeline

The loops of `ProfilePipeline::run` are numbered; `Claim` takes the next iteration of
the loop a thread is in, `LeaveLoop` goes on without waiting. A request is read under
the Source's lock (`Request`, `Read`, `Countdown`), the last thread to count a wave
down notifies the Sinks (`Notify`, `Enter`, `Leave`), `Finish` .. `ThreadFinal` are the
finishing wave with merged threads, `EnterWrite` .. `Help` the writing.

### TraceOutput, TraceLayout

`TraceOutput` follows one thread's samples: the three modes of `Source::timepoint`,
the rewind, and in the sink the prebuffer, the buffer and the header, with the
wavefront in another thread. `TraceLayout` is `calcStartEnd` and `assignHdrs` on all
ranks, with the rounds of the parallel prefix sum.

### ProfileOutput

Workers lay profiles out in the current buffer and flush the one they fill; `FetchAdd`
is a message to the server of the accumulator on rank 0 and its answer; the main
threads go through `SparseDB::write` with its barriers and collectives.

### Monitor

Each thread has a stack of frames `[fn, at]`; only the top takes steps, and
`AsyncSample` and `ShootdownSignal` push handlers on top of whatever runs. The
three callers of the fini-thread callback (cleanup routine, signal handler,
shootdown itself) share `TestFini`, `FiniThread`, `FiniThreadReturns`,
`FiniDone`. Shootdown is `BeginShootdown`, `Visit` (one node of the walk), `Poll`
(the end of a walk), `GiveUp` (ten seconds without progress, possible whenever
the code's condition on progress allows it) and `FiniThreadsDone`. Left out:
where nodes are allocated and reused, threads that libmonitor ignores, the
`sigwait` path (it runs the same handler), and runs with hpcrun disabled. The
test of a node's flags and the `pthread_kill` that follows are one step.

### ThreadMgr

`free` is the list of unused thread data, `Grab` and `Remove` the two halves of
`grab_thread_data` under the spin lock, used by threads, by the process and by
its workers alike. `DataGet` and `Allocate` are `hpcrun_threadMgr_data_get`,
`DataPut`, `PutLock`, `Insert` are `hpcrun_threadMgr_data_put`, and `DataFini` ..
`WriteOwn` are `hpcrun_threadMgr_data_fini`. `compact_thread` takes the values 0,
1 and 2; a thread that has put its data may be made to put it again (`PutDone`), when a
shootdown signal makes it run the fini-thread callback a second time; `again` has
these threads. 2 stands for every value for which the tests of `data_get` and
`data_put` disagree. Main may be shot down, in which case its data goes through
the list, or may end the process itself, which then writes that data last. Left
out: tool threads, which demand new data, and `hpcrun_threadmgr_thread_count`.

## 3. Runs

Passing runs:

| Run | Instance | States | Shows |
|---|---|---|---|
| `pfq_rwlock` | 2 readers, 2 writers, count modulo 3, until a reader stalls | 584,412 | a writer is alone; at most one writer overtakes a reader; the MCS queue of the writers is undisturbed |
| `monitor` | main, 2 workers | 959,201 | the unlocked walk stays on the list; threads finished before the process; losers of the race to exit wait |
| `monitor_samples` | main, 1 worker, samples, failing unwinds | 13,121 | samples and fini callbacks keep apart, exit completes |
| `thread_mgr` | main, 2 workers, 2 cores, all options | 198,954 | data is written once, and all of it, if no callback runs twice |
| `hpcrun_live` | the suite `MCHpcrun`, below | 153,521 | everybody gets in, every item is received, every end terminates, with the exceptions of section 4; nothing is lost or attributed too early |
| `hpcprof_live` | the suite `MCHpcprof`, below | 309,204 | work is done once, run() returns, the ranks get through `SparseDB::write` with profiles apart and final infos |
| `hpcrun_shared` | the suite `MCShared`, below | 715,792 | what the threads of a measured process share, under contention and without fairness |
| `shared_data` | the suite `MCSafety`, below | 458,859 | the queue of the GPU channels, and the data of hpcprof in larger instances without fairness |

The components of the suites:

| Suite | Component | Instance | Properties |
|---|---|---|---|
| `MCHpcrun` | `PFQRWLock` | 1 reader, 2 writers, count modulo 2 | `EveryoneGetsIn` |
| | `ChannelSet` | 2 senders with 3 items between them, target 2, word 16 | `NothingLost`, `ItemsReceived` |
| | `GPUOperation` | main, 1 worker, 1 callback thread, 2 operations | `ZeroMeansDelivered`, `MainAttributesAll`, `ThreadsEnd` |
| | `GPUTrace` | 2 senders with 2 items, 2 streams, sets of 1 | `NothingLost`, `ThreadsEnd` |
| `MCHpcprof` | `ParallelWork`, repeating | 2 helpers, blocks of 1, 2 batches of 5 items | `BatchesWorked`, `NoneLeftBehind`, `SharesFinish` |
| | `ParallelWork`, once | 2 helpers, blocks of 2, 0 or 5 items | the same |
| | `Pipeline` | teams of 1 and 2, three configurations of Sources, the sinks `SparseDB` and `HPCTraceDB2` | `RunReturns` |
| | `ProfileOutput` | 2 ranks with 2 and 1 workers, buffers of 30, 3 context ranges | `ProfilesApart`, `InfosFinal`, `WriteReturns` |
| `MCShared` | `MCSLock` | 3 threads | `MutualExclusion`, `NodeAlive`, and `ImplementsFairLock`: first come, first served |
| | `TraceDemux` | 4 threads, sets of 2 | `ChannelsPlaced` |
| | `ActivityChannels` | 3 threads, 2 blocks of 2 beside the first, 3 calls | `OwnChannel` |
| | `LockBlame` | 2 threads, 1 mutex, 3 events, table of 2, 3 samples | `BlameConserved` |
| | `CSkipList` | 3 threads with a call each, 5 nodes, 2 keys, height 2 | `ListSound`, `Linearizable` |
| | `RecipeMap` | 2 threads, 4 modules, some of them overlapping, one address apart or adjacent, nothing mapped once `cramped`; lookups in a module and outside of all | `PoisonExact`, `OneBuilder` |
| `MCSafety` | `MPSCQueue` | 2 producers, 1 consumer, 3 entries | `NullMeansEmpty`, `ImplementsFifoQueues` |
| | `TraceOutput` | every trace of 4 samples over two times and blank, some longer ones, one of which overflows both sort buffers | `TraceRight` |
| | `Pipeline` | a team of 3 | `WavePassed`, `RegionsInOrder`, `AllProcessed` |
| | `TraceLayout` | 2 ranks, at most 4 threads with 0 or 1 samples | `TracesApart` |

Why these bounds are enough to see the interesting cases. Three threads are the
least for which a queue has a front, a middle and a tail. Two writers and two readers
let one reader leave during a phase and another stay during the next; `Wrap = 3`
makes the ticket count wrap in every direction. Three entries are recycled while
two producers are at work. `Target = 2` is reached exactly, jumped over and missed; three
items let one sender have an item in its channel and another half sent.
Four channels in sets of two open a second set under contention. First ids of 3 and 5
lead into a block that exists for nobody yet, into the last one and past it. The
addresses of `LockBlame` collide in the index, two of them in the id, and one has the
id 0 that marks an empty entry; three samples of weight 2 pass `Wrap = 3`. In `CSkipList` a deletion meets an insert, and the
third thread an unfinished node on one layer of two, or reads a node that has been freed and used again. Two workers let one exit while the
other ends; two cores let two writers compete for the list. Five items in blocks
of one, with two helpers and the master, let a helper sleep through a batch. A team of
one runs every loop of the pipeline in sequence, a team of two waits, a team of three
has one thread reading, one notifying and one finishing. Two ranks are the least for
a message; three ranges leave one that is asked for.

No run uses symmetry, and no configuration switches the check for deadlock off:
where all threads may be done there is a stuttering step (`Done`, `AllPushed`, `Finished`) that
is possible only then, so that a deadlock is found as one. That is also how it is
checked, without fairness, that `TraceDemux` and `CSkipList` do not deadlock. In `LockBlame` sampling may
always be switched, so the check says nothing there.

`ItemsReceived` says that a channel is emptied. That follows from every item
being received only because there are `MaxSends` items in all.

## 4. Disagreements between comments and code

Four runs end with a counterexample. `PROJECT.json` quotes, for each, the comment
that it contradicts.

- `pfq_rwlock_stall` (2 readers, 1 writer, count modulo 16): `Exclusive`.
  A reader enters and leaves between the two toggles of `write_unlock` and is delayed
  inside `read_unlock`, before it compares its ticket, for two write phases. `last`
  then equals the stale ticket, the reader signals a writer that is not waiting for it,
  and a writer ends up inside beside a later reader. No count has to wrap.
- `parallel_work_unequal` (batches of 1 and 3 items): `NoneLeftBehind`. A thread reads
  `inCounter` and `maxCounter` in one batch and exchanges in the next, where `inCounter`
  has the same value again; it declares all items taken, and the rest of the batch is
  left behind.
- `trace_rewound` (`MCTraceOutput`): `RewoundTraceRight`. A rewind resets neither
  `lastWasBlank` nor what the wavefront has already taken out of the prebuffer.
- `profiles_crossed` (`MCProfileOutput`; two threads on rank 1, buffers of 20):
  `ProfilesApart`. Two threads of a rank wait for the accumulator at once, each
  receives the answer to the other, and the buffers overlap.

More definitions state a comment and do not hold of the code. They belong to no run
of `PROJECT.json`; naming one as the only `INVARIANT` of the instance shown gives the
counterexample in seconds.

| Invariant, instance | The comment | What happens |
|---|---|---|
| `FiniOnce`, `MonitorSamples.cfg` | "fini-thread has already run, or else we don't want it to run." (`hpcrun/libmonitor/pthread.c:336`) | the shootdown signal arrives between the test and the mark of the cleanup routine, and the callback runs twice in the thread |
| `Once`, `ThreadMgr.cfg` | none: `hpcrun_thread_fini` has no guard of its own (`hpcrun/main.c:835`) | the thread whose callback runs twice puts its data twice; it is on the list twice and its profile is written twice |
| `BlockedOnlyInSample`, `MonitorSamples.cfg` | shootdown is blocked "while in the middle of a sample" (`hpcrun/libmonitor/pthread.c:633`) | a failed unwind in `hpcrun_gen_thread_ctxt` (`hpcrun/sample_event.c:352`) returns without unblocking |
| `AllFinished`, `MonitorSamples.cfg` | shootdown walks through the unfinished threads "and wait until they all finish" (`hpcrun/libmonitor/pthread.c:411`) | a linked thread still in its init-thread callback is neither signalled nor waited for |
| `WrittenAtEnd`, `ThreadMgr.cfg` | "The thread data will be written to the file at the end of the process" (`hpcrun/threadmgr.c:310`) | when `pthread_create` fails at process end, the data in hand is not written |
| `WorkersAttributeAll`, `GPUOperation` as in `MCHpcrun` | "I have to attribute all my activities to my ccts" (`hpcrun/gpu/api/opencl/opencl-api.c:1431`) | a thread that ends before the process does not wait for its operations |
| `WaitEnds` (a `PROPERTY`), `GPUOperation` as in `MCHpcrun` | "Wait until my activities are drained" (`hpcrun/gpu/api/opencl/opencl-api.c:1447`) | an operation that could not be enqueued, or completes with an error (`opencl-api.c:689`), stays pending, and a normal exit spins for ever |
| `AllDrained`, `ChannelSet` as in `MCHpcrun` | none: the last apply comes after the stop flag (`hpcrun/gpu/operation/gpu-operation-multiplexer.c:91`) | the last apply meets an enqueue between its exchange and its link, takes the channel for empty (`mpsc-queue.h:165`), and leaves an item that was sent before the stop |
| `ValueCurrent`, `CSkipList` as in `MCShared` | "found->val == value" (`common/lean/cskiplist.c:430`) | the value is read when the lock has been given up; a deletion has freed the node and an insert used it for another key |
| `StartPoisoned`, `RecipeMap` as in `MCShared` with `MapCramped = TRUE` | "start should be in range of some poisoned interval" (`hpcrun/unwind/common/uw_recipe_map.c:480`) | mapping [5,6) next to [6,8) leaves an empty poisoned interval [6,6) in the list; when [6,8) is unmapped, the insertion of the joined interval meets a node with that start and does nothing, so that the addresses are poisoned no more, and the next mapping finds none |
| `EveryHashCurrent`, `RecipeMap` as in `MCShared` | none: the unmapping thread purges its own table (`uw_recipe_map.c:562`) | the tables of other threads keep entries of the unmapped module |
| `WritesInOrder`, `Pipeline` with two sinks that register for ordered writes | "Wait for the the previous element of the dependency ordering chain to complete" (`hpcprof/pipeline.hpp:464`) | `registerOrderedWrite` does not record the element before, so the second does not wait; the second such sink is that of `hpcprof-mpi` (`hpcprof/tree.cpp`) |

With `needsLock = TRUE`, which is `MPI_THREAD_SERIALIZED`, `ProfileOutput` deadlocks: a rank
waits in a receive or a collective while it holds the lock that its server thread needs
(`hpcprof/mpi.cpp:333`).

All need an unlucky schedule, a failing call or an unusual setting. The checked
properties say what does hold, most often with a history variable that marks the point from
which they claim nothing: readers that do not stall leave the lock exclusive;
a stopped receiver has received what was sent, from every sender that is not in the middle of
an enqueue; every end terminates that waits for no failed operation; a node of the skip list may be used
as long as its key is not deleted; poisoned intervals are exact while two addresses or more
are between modules;
batches of one size are worked completely; a trace without a rewind is right; one thread
at a time in the accumulator keeps profiles apart; exit completes in spite of a thread
that blocks shootdown; threads that are not late have finished before the process; main
loses nothing on a normal exit; and without failures, and without a second callback in a thread, all data is
written, once.

## 5. Fairness

- A thread inside the reader-writer lock's code runs on, and callers leave their
  critical sections (`PFQRWLock`): weak fairness of the steps after the first. Nobody is
  made to call it.
- The receiving, operation and tracing threads run on, and their timed wait ends
  (`ChannelSet`, `GPUOperation`, `GPUTrace`): weak fairness. A sender finishes a call it
  has begun. Nobody is made to send or to stop.
- The device completes what was submitted, or fails (`GPUOperation`), and a thread that has begun
  to finalize goes on.
- `Monitor`: strong fairness of the steps of a thread, since samples interrupt a
  thread again and again and disable its step each time; a handler runs on, a pending
  signal is delivered, and ten seconds without progress do pass.
- `ParallelWork`, `Pipeline`, `ProfileOutput`: weak fairness of each thread of the OpenMP
  team, of the main threads, and of the servers of the accumulators. These threads
  compute, spin or block in MPI; none is ever cancelled, and none competes for
  something that others take again and again.

`MCSLock`, `MPSCQueue`, `ThreadMgr`, `TraceDemux`, `ActivityChannels`, `LockBlame`, `CSkipList`,
`RecipeMap`, `TraceOutput` and `TraceLayout` are checked for safety and deadlock only.

## 6. Proofs

TLAPS checks the theorems for every value of the constants that satisfies the
assumptions, hence for any number of threads. In `MCSLock`, `ThreadMgr` and `Monitor` these
are the assumptions `NilNotThread`, `ThreadMgrAssumption` and `MonitorAssumption` of the
modules; elsewhere the theorem
assumes `Parameters`, defined in the proof module.

A theorem about a property speaks of the definition that TLC checks: the module of the run
extends the module that defines it. `GPUStreams` and `SharedTables` are modules of their own for
that reason: a proof module and a suite both extend them.

**MCSLockProofs.** `MutualExclusion` is not inductive: that the thread which
leaves signals the right one needs the shape of the queue. `IInv` says that the
places of the queued threads are numbered `1..len` without repetition
(`Numbered`); that it is the turn of the thread at place 1 and of no other
(`FrontHasTurn`); that the tail is at place `len` (`TailIsLast`); that the local
predecessor is one place ahead (`PredIsBefore`); that a link leads one place back
to a thread that is spinning (`NextIsBehind`); and that a thread sets its flag
before it links itself (`BlockedBeforeLink`). `NextIInv` has one step for each
action and under it one for each conjunct. From it follow `TypeCorrect`,
`Exclusive`, `NodesAlive`, `Fifo` (an action property) and `Refinement`, which
shows that each step is a step of `FairLock` or leaves it unchanged.

**PFQRWLockProofs.** Assumes `ThreadsAssumption`, that the readers are finitely many and
fewer than `Wrap` (2^24 in the code). `IInv` holds as long as no reader has stalled
(`~stalled`), and so the properties are implications; `StallRecorded` says that the history is
never reset, so that a step after which nobody has stalled is one before which nobody
had. Run `pfq_rwlock_stall` shows what may happen afterwards. The writers' queue is an instance of
`MCSLock`, so `IInv` contains the invariant of `MCSLockProofs` for the writers, and its
lemmas `NextIInv` and `StepRefines` are cited for every step that is one of the queue. A
store into `blocked` by the reader-writer lock itself is not a step of the queue; it is
harmless to it because the writer at its front is not spinning there. The rest of `IInv` says
how far apart the words are: the low bits of `r_in` and `r_out` give the stage of the
writer at the front (`WordsSay`, `WriterKnows`), as do the two flags (`FlagsSay`); `r_in` is
ahead of `r_out` by the readers inside, and the ticket the writer took by those that were
there before it (`CountsSay`, by lemma `Ring` on differences modulo `Wrap`); at most one reader
at a time is about to signal, and then nobody is ahead of the writer that waits
(`OneSignal`, `NobodyAhead`); and a reader waits only for the phase of the writer in front of it
(`WaitersSay`). Theorems `LockShape`, `WritersAlone`, `PhasesFair` and
`QueueRefinement`.

**ThreadMgrProofs.** All but `TypeCorrect` holds as long as no thread has run its
fini-thread callback twice (`again = {}`), and the theorems say so; the type invariant
has a proof of its own, without that. `OnePlace`, `Once` and
`AllWritten` need each other and more: who holds the lock and that the head read
under it is still the head (`Locked`); who has data in hand (`Hands`); that data
in use was allocated, and by a thread that will not allocate again (`Accounted`);
that data with a place is unwritten (`Unwritten`); that no data is dropped
(`Kept`); how many workers there are (`Loop`); and, for a quiet end, that a worker
leaves only when the list is empty, so that an empty hand of all workers means
that nothing is left (`Drained`). There is a lemma for each
action, after lemmas on single updates. Theorems `Whereabouts`, `TypeCorrect`,
`NeverShared`, `NotTwice`, `NothingLost`.

**MonitorProofs.** The properties speak of frames that may be deep in a stack, so `IInv`
starts from what a stack can look like (`Shape`): the start routine, on it one call, sample or
cleanup, and above that only what signals bring and the callback; one sample at a time; and
over a sample that is being recorded nothing but a handler before its test. It is
the test that needs `Blocks`: a busy thread has set `block`, so the handler returns. That
no asynchronous sample is recorded after the callback began is harder, because the
signal may have come before: `Finishing` says that such a thread is no longer `sampled`, and that a
sample it has already entered implies `in_exit_cleanup` (a callback from the cleanup routine
is above no sample, one from the handler implies a shootdown), so `BlockShootdown` turns it
away. `Started` ties the flags of a node to the list and to `has_used_threads`. `Race`
gives the winner of the cookie everything between `flag` and `process`, and `Walked` says what it has
seen: the rest of the walk is an end of the list, and every node before it has finished, was
met early or is its own, as long as nobody was counted unfinished; once the walk ended
this holds of the whole list, which stands still because `link` and `unlink` test
`in_exit_cleanup`. The proof has lemmas for a frame pushed, popped and changed (`OfPush`,
`OfPop`, `OfPut`), for a thread that another one's step leaves alone (`Bystander`) and for
steps outside the exit (`ExitAside`), and one lemma for each action. Theorems `ThreadsShape`,
`SamplesStayApart`, `WalksOnList`, `ThreadsFinishFirst`, `ExitsWait`. `ExitCompletes` is
liveness and stays with TLC.

**MPSCQueueProofs.** `Parameters`: `consumer`, `main` and `nil` are none of the producers, and `nil`
is no entry. An enqueue has put its entry in the queue once it has exchanged the tail, but the
list is cut in front of that entry until it is linked (`Links`). `Tails`, `Nexts` and `Heads` say
how the words of memory follow from the abstract order and from the entries not yet linked; the one
exception is the head of a queue whose last entry was just taken by the exchange of the tail and
is still to be removed. `Once` and `InHand` keep an entry in one place, `Firsts` and `Solo` say
what a dequeue still knows of what it read. Theorems `NullOnlyIfEmpty` and `Refinement`: each
step is a step of `FifoQueues` or leaves it unchanged.

**SharedTablesProofs.** One invariant for each table, with its own assumptions.
`DemuxParameters`: finitely many threads, and room in a set. A counter may stand above the
number of channels in its set, since threads that overshoot it take it back later and without
the lock; `DemuxIInv` counts both (`DemuxSize`: the counter is the number of threads with a place
in the set and of those that have yet to take theirs back), so that a set is closed only when it is
really full (`DemuxFull`) and has never too many (`Fits`). Theorem `ChannelsArePlaced`.
`IdsParameters`: a positive number of blocks and of entries in a
block, finitely many threads, positive first ids with a largest one, and a `NULL` that
is neither a number nor an entry. `OwnChannel` speaks of entries already returned, so `IdsIInv`
must say why the next answer agrees with them: the blocks in the slots and in the hands of threads
all differ (`BlocksApart`, `HandsApart`); a thread past its loop has seen a block in the
slot of its id, although its own may have gone elsewhere (`SlotFilled`); and what was
returned for an id is what its slot gives now (`GivenRight`), since a slot is never
changed again. That two ids then differ in block or entry is arithmetic
(`IdOfEntry`, from `Quotient`). Theorem `ChannelsAreOwn`. `BlameParameters`: table size and
both widths are positive, addresses positive, weights natural. `BlameConserved` is inductive once a
thread between its load and its exchange is known to hold an entry of its own object (`Loaded`): an
exchange succeeds only on the entry loaded, so nothing added in between is lost. Theorem
`NoBlameLost`.

**GPUProofs.** For `GPUOperation`, `Parameters`: finitely many operations, and `none` is no thread. The count
of a thread is the number of its operations that are submitted and not yet counted
down (`Counted`), which needs that an operation is in one place (`InOnePlace`) and of one
thread (`Owned`). Zero then means that the set is empty: theorem `PendingIsExact`. For
`NormalExitAttributes`, `IInv` follows the end of the main thread: a running thread whose flag is
down, and which therefore ends at once, has submitted nothing (`FlagRaised`), and on a
normal exit the main thread attributes only when all its operations are in its
activity channel (`NormalExit`). Theorem
`NormalExitAttributes`. For `GPUStreams`, without assumptions on the constants, each half of
`NothingLost` follows a receiver's last walk. `SetIInv`: a channel is in the set before anything is
sent on it (`Added`), what is owed is still in its channel (`OwedKept`), and while the last walk,
which began after the flag was set, is under way, whatever is owed by a sender that is not `late` is still
ahead of it (`LastWalk`): the channel of such a sender has no item without its link, so it
seems empty only when it is.
`TraceIInv`: the flag of the tracing threads is set only when no sender is active any more
(`StopQuiet`), so that what the last walk leaves behind it stays empty until the files are closed
(`Drained`). Theorem `NothingIsLost`.

**ParallelWorkProofs.** `Parameters`: positive blocks and a single size of batch, which is what
`parallel_work_unequal` shows to be needed. The point is that a thread may have computed
its block in an earlier batch; with one size, what it computed equals what it would compute
now (`Computed`). `Holding`, `TakenSoFar` and `DoneSoFar` say which items are in which hands,
taken and done; `Counted` that `outCounter` is the number of items reported; `MasterKnows` what
the master may conclude in each of its calls. Theorems `NoWorkLeftBehind` and `WorkedOnceAndOver`.
An instance with several sizes but one batch, as in `MCHpcprof`, is covered size by size.

The inductive invariants also hold in TLC on the instances of section 3 (for
`ParallelWork`, on those with one size).

Only model-checked, on the instances of section 3: the liveness properties, and all properties of
`CSkipList`, `RecipeMap`, `Pipeline`, `TraceOutput`, `TraceLayout` and `ProfileOutput`. What
`TraceRight` and `TracesApart` say is the result of a sort and of a sum over sequences of any
length, which needs the induction over data below; the others would need invariants of
lists with several layers, or of every loop of the pipeline at once, and have no proof here.
Three things are out of the prover's reach. It does not handle liveness under fairness,
nor `ENABLED`. It cannot instantiate the library's induction theorems, so nothing is
proved about what a recursion computes for every input. And it loses its SMT backend
where a module reaches a `RECURSIVE` operator; no module with theorems does.

## 7. Running

```
tlc -config MCShared.cfg MCShared        # and so on, as listed in PROJECT.json
tlapm MCSLockProofs.tla                  # and the other proof modules
```

The longest runs, `monitor`, `hpcrun_shared` and `hpcrun_live`, take about two minutes each with two
workers. The proofs of `MonitorProofs`, `SharedTablesProofs`, `PFQRWLockProofs` and
`ThreadMgrProofs` take about ten minutes each, those of `GPUProofs` six, the others one or two.

## 8. Not modelled

- Instruction decoding, the contents of unwind recipes, ELF and DWARF reading, demangling,
  hashing, file encodings, metric arithmetic, the merging of contexts: data
  transformation without protocol, where a model would repeat the code.
- Collections of one thread (`splay-uint64.c`, `binarytree.c`, memory pools, calling
  context trees), and stacks pushed by one compare-and-swap: textbook algorithms that other
  models use as atomic variables.
- OpenMP: the protocol between threads, deferred resolution of contexts, is switched off
  at compile time (`ALLOW_DEFERRED_CONTEXT` is 0, `hpcrun/ompt/ompt-callstack.c:48`). What
  is left are tables of one thread each.
- Blame shifting beyond directed blame of pthreads: the OpenMP variants, and with them
  undirected blame, are registered by nobody (`init_mutex_blame_shift` and
  `init_idle_blame_shift` have no callers); GPU blame computes over lists under spin locks.
- `cskl_delete`, `producer_wfq.c` and the limited spin locks: nothing calls them.
- GPU vendor back ends: translation of vendor records. Level Zero uses the
  pending-count protocol that `GPUOperation` models for OpenCL. GPU timestamps and the
  sampling of traces decide about single items.
- Fork, exec, signal and MPI wrappers of libmonitor, interposition (`foil`, `audit`): a
  call between two callbacks, and dynamic linking.
- `HPCTraceDB2::write`, the meta.db sink and other sinks: sequential output.
- `hpcstruct` rests on Dyninst; `hpcproftt`, `hpctracedump`, `hpctesttool` print and test.
- A composition of `Monitor` with `ThreadMgr` or `GPUOperation`: `Monitor` alone has nearly a
  million states with three threads, and the product is out of TLC's reach. What one module assumes
  of another is named at its place: the quiet end in `AllWritten`, `Quiet` in `GPUTrace`,
  the wait of `End(Main)`.
- Weak memory effects, a crash of the process in the middle of a write, and
  out-of-memory.
