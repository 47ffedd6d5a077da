------------------------------ MODULE ThreadMgr ------------------------------
(***************************************************************************)
(* Thread data (threadmgr.c): a thread takes data from the list of unused  *)
(* data or allocates it, gives it back when it ends, and at process exit a *)
(* few worker threads write all that is on the list.  With the option not  *)
(* to compact threads, every thread writes its own data instead.           *)
(*                                                                         *)
(* A piece of thread data is named by the thread that allocated it.        *)
(***************************************************************************)
EXTENDS Naturals, Sequences

CONSTANTS Main, Workers,   \* application threads
          Process,         \* the end of the process, whoever runs it
          Cores,           \* get_nprocs()
          none             \* no data, or nobody

Apps == {Main} \cup Workers
Finalizers == 1..Cores
Agents == Apps \cup Finalizers \cup {Process}

\* threadmgr.h.  Any other value gives every thread data of its own and still
\* puts it on the list.
OPTION_NO_COMPACT_THREAD == 0
OPTION_COMPACT_THREAD == 1

ASSUME ThreadMgrAssumption ==
  /\ Cores \in Nat \ {0}
  /\ Main \notin Workers
  /\ Apps \cap Finalizers = {}
  /\ {Process, none} \cap (Apps \cup Finalizers) = {}
  /\ Process # none

VARIABLES compact_thread,   \* HPCRUN_MERGE_THREADS
          lock,          \* threaddata_lock: its holder
          free,          \* list_thread_head, first entry first
          num_threads,   \* threadmgr_num_threads
          pc,            \* where each agent is
          data,          \* data in the hands of each agent
          max_iter, i,   \* locals of hpcrun_threadMgr_data_fini
          allocated, written,   \* history: data allocated; times each was written
          quiet,         \* history: no thread was at work when the process ended
          failed,        \* history: a pthread_create failed
          again          \* history: threads whose fini-thread callback ran twice

state == <<compact_thread, lock, free, num_threads, max_iter, i>>
hist == <<allocated, written, quiet, failed, again>>
vars == <<state, pc, data, hist>>

Init ==
  /\ compact_thread \in 0..2
  /\ lock = none
  /\ free = <<>>
  /\ num_threads = 1
  /\ pc = [a \in Agents |-> IF a = Main THEN "run" ELSE
                            IF a = Process THEN "app" ELSE "new"]
  /\ data = [a \in Agents |-> IF a = Main THEN Main ELSE none]
  /\ max_iter = 0 /\ i = 0
  /\ allocated = {Main}
  /\ written = [a \in Apps |-> 0]
  /\ quiet = FALSE
  /\ failed = FALSE
  /\ again = {}

At(a, l) == pc[a] = l
Goto(a, l) == pc' = [pc EXCEPT ![a] = l]
Write(d) == written' = [written EXCEPT ![d] = @ + 1]

-----------------------------------------------------------------------------
(* grab_thread_data *)

Grab(a) ==
  /\ At(a, "grab")
  /\ lock = none
  /\ lock' = a
  /\ data' = [data EXCEPT ![a] = IF free = <<>> THEN none ELSE Head(free)]
  /\ Goto(a, "remove")
  /\ UNCHANGED <<compact_thread, free, num_threads, max_iter, i, hist>>

Remove(a) ==
  /\ At(a, "remove")
  /\ free' = IF data[a] = none \/ free = <<>> THEN free ELSE Tail(free)
  /\ lock' = none
  /\ Goto(a, CASE a \in Apps -> "got" [] a \in Finalizers -> "loop"
               [] OTHER -> "create")
  /\ UNCHANGED <<compact_thread, num_threads, max_iter, i, data, hist>>

-----------------------------------------------------------------------------
(* The threads: hpcrun_threadMgr_data_get and _put. *)

\* A thread begins, which none does once the process is exiting.
Begin(t) ==
  /\ At(t, "new")
  /\ At(Process, "app")
  /\ Goto(t, "init")
  /\ UNCHANGED <<state, data, hist>>

DataGet(t) ==
  /\ At(t, "init")
  /\ IF compact_thread = OPTION_COMPACT_THREAD
     THEN Goto(t, "grab") /\ UNCHANGED <<data, allocated>>
     ELSE /\ Goto(t, "run")
          /\ data' = [data EXCEPT ![t] = t]
          /\ allocated' = allocated \cup {t}
  /\ UNCHANGED <<state, written, quiet, failed, again>>

Allocate(t) ==
  /\ At(t, "got")
  /\ Goto(t, "run")
  /\ IF data[t] # none
     THEN UNCHANGED <<num_threads, data, allocated>>
     ELSE /\ num_threads' = num_threads + 1
          /\ data' = [data EXCEPT ![t] = t]
          /\ allocated' = allocated \cup {t}
  /\ UNCHANGED <<compact_thread, lock, free, max_iter, i, written, quiet,
                 failed, again>>

\* Where a put ends.  When the process is ending, the shootdown signal can
\* make a thread that has run the fini-thread callback run it once more, with
\* the same data (see FiniOnce in MonitorSamples).
PutDone(t) ==
  \/ /\ Goto(t, "gone")
     /\ data' = [data EXCEPT ![t] = none]
     /\ UNCHANGED again
  \/ /\ t \in Workers \ again /\ ~ At(Process, "app")
     /\ Goto(t, "run")
     /\ again' = again \cup {t}
     /\ UNCHANGED data

\* Main gives its data back only when another thread ends the process.
DataPut(t) ==
  /\ At(t, "run")
  /\ t = Main => ~ At(Process, "app")
  /\ IF compact_thread = OPTION_NO_COMPACT_THREAD
     THEN Write(data[t]) /\ PutDone(t)
     ELSE Goto(t, "put") /\ UNCHANGED <<data, written, again>>
  /\ UNCHANGED <<state, allocated, quiet, failed>>

PutLock(t) ==
  /\ At(t, "put")
  /\ lock = none
  /\ lock' = t
  /\ Goto(t, "insert")
  /\ UNCHANGED <<compact_thread, free, num_threads, max_iter, i, data, hist>>

Insert(t) ==
  /\ At(t, "insert")
  /\ free' = <<data[t]>> \o free
  /\ lock' = none
  /\ PutDone(t)
  /\ UNCHANGED <<compact_thread, num_threads, max_iter, i, allocated, written,
                 quiet, failed>>

-----------------------------------------------------------------------------
(* The end of the process: hpcrun_threadMgr_data_fini. *)

Smaller(m, n) == IF m < n THEN m ELSE n

\* Main ends the process and keeps its data (id 0), or another thread does.
Exit ==
  /\ At(Process, "app")
  /\ \/ pc' = [pc EXCEPT ![Process] = "exit", ![Main] = "exits"]
     \/ /\ \E t \in Workers : At(t, "run")
        /\ Goto(Process, "exit")
  /\ UNCHANGED <<state, data, hist>>

DataFini ==
  /\ At(Process, "exit")
  /\ Goto(Process, "spawn")
  /\ max_iter' = Smaller(Cores, num_threads)
  /\ quiet' = \A t \in Apps : pc[t] \in {"new", "gone", "exits"}
  /\ UNCHANGED <<compact_thread, lock, free, num_threads, i, data, allocated,
                 written, failed, again>>

\* The list is looked at without the lock.
Spawn ==
  /\ At(Process, "spawn")
  /\ Goto(Process, IF free # <<>> /\ i < max_iter THEN "grab" ELSE "join")
  /\ UNCHANGED <<state, data, hist>>

\* pthread_create starts the next worker on what was grabbed.
Create ==
  /\ At(Process, "create")
  /\ i' = i + 1
  /\ pc' = [pc EXCEPT ![i + 1] = "loop", ![Process] = "spawn"]
  /\ data' = [data EXCEPT ![i + 1] = data[Process], ![Process] = none]
  /\ UNCHANGED <<compact_thread, lock, free, num_threads, max_iter, hist>>

\* pthread_create fails, which leaves the loop with the data in hand.
CreateFails ==
  /\ At(Process, "create")
  /\ failed' = TRUE
  /\ Goto(Process, "join")
  /\ UNCHANGED <<state, data, allocated, written, quiet, again>>

\* Faulty: a worker writes one piece of data and is done.
Finalize_one(f) ==
  /\ At(f, "loop")
  /\ Goto(f, "gone")
  /\ IF data[f] = none THEN UNCHANGED written ELSE Write(data[f])
  /\ data' = [data EXCEPT ![f] = none]
  /\ UNCHANGED <<state, allocated, quiet, failed, again>>

\* finalize_all_thread_data: write, then grab the next.
Finalize(f) ==
  /\ At(f, "loop")
  /\ IF data[f] = none
     THEN Goto(f, "gone") /\ UNCHANGED written
     ELSE Goto(f, "grab") /\ Write(data[f])
  /\ data' = [data EXCEPT ![f] = none]
  /\ UNCHANGED <<state, allocated, quiet, failed, again>>

Join ==
  /\ At(Process, "join")
  /\ \A f \in 1..i : At(f, "gone")
  /\ Goto(Process, "own")
  /\ UNCHANGED <<state, data, hist>>

\* Faulty: the data of the exiting thread is written also when main has put it.
WriteOwn_always ==
  /\ At(Process, "own")
  /\ Goto(Process, "done")
  /\ Write(Main)
  /\ UNCHANGED <<state, data, allocated, quiet, failed, again>>

\* The data with id 0 is on the list only if main was shot down.
WriteOwn ==
  /\ At(Process, "own")
  /\ Goto(Process, "done")
  /\ IF At(Main, "exits") THEN Write(Main) ELSE UNCHANGED written
  /\ UNCHANGED <<state, data, allocated, quiet, failed, again>>

-----------------------------------------------------------------------------

Fini ==
  Exit \/ DataFini \/ Spawn \/ Create \/ CreateFails \/ Join \/ WriteOwn

Thread(t) ==
  Begin(t) \/ DataGet(t) \/ Allocate(t) \/ DataPut(t)
            \/ PutLock(t) \/ Insert(t)

Finished == At(Process, "done") /\ UNCHANGED vars

Next ==
  \/ \E t \in Apps : Thread(t)
  \/ \E a \in Agents : Grab(a) \/ Remove(a)
  \/ \E f \in Finalizers : Finalize(f)
  \/ Fini
  \/ Finished

Spec == Init /\ [][Next]_vars

-----------------------------------------------------------------------------

AppLabels == {"new", "init", "grab", "remove", "got", "run", "put", "insert",
              "gone", "exits"}
FinalizerLabels == {"new", "loop", "grab", "remove", "gone"}
ProcessLabels == {"app", "exit", "spawn", "grab", "remove", "create", "join",
                  "own", "done"}
Labels == AppLabels \cup FinalizerLabels \cup ProcessLabels

\* The workers started so far are the first i.
PcOK ==
  /\ pc \in [Agents -> Labels]
  /\ \A a \in Apps : pc[a] \in AppLabels
  /\ \A f \in Finalizers : pc[f] \in FinalizerLabels
  /\ \A f \in Finalizers : At(f, "new") <=> f > i
  /\ pc[Process] \in ProcessLabels

\* Types.  There is no more than one worker for each entry of the array of
\* max_iter threads.
TypeOK ==
  /\ compact_thread \in 0..2 /\ quiet \in BOOLEAN /\ failed \in BOOLEAN
  /\ again \subseteq Workers
  /\ lock \in Agents \cup {none}
  /\ free \in Seq(Apps)
  /\ PcOK
  /\ data \in [Agents -> Apps \cup {none}]
  /\ max_iter \in 0..Cores
  /\ i \in 0..max_iter
  /\ allocated \subseteq Apps
  /\ written \in [Apps -> Nat]
  /\ num_threads \in Nat \ {0}

\* Data in the hands of an agent, which a grab in progress does not hold yet.
Holds(a) == data[a] # none /\ ~ At(a, "remove")

\* A piece of thread data has one place: on the list, once, or with one agent.
\* A grab reads the head and removes it later, under the same lock.
OnePlace ==
  /\ \A j, k \in 1..Len(free) : free[j] = free[k] => j = k
  /\ \A a \in Agents : Holds(a) => \A j \in 1..Len(free) : free[j] # data[a]
  /\ \A a, b \in Agents : Holds(a) /\ Holds(b) /\ data[a] = data[b] => a = b

\* No profile is written twice.
Once == \A d \in Apps : written[d] <= 1

\* That is so whoever ends the process and whatever threads come and go
\* meanwhile, unless a thread has run the fini-thread callback
\* twice: then its data is put, and written, twice.
WrittenOnce == again = {} => Once

\* When the process has ended quietly, every pthread_create succeeded and no
\* fini-thread callback has run twice, all thread data is written, once.
AllWritten ==
  At(Process, "done") /\ quiet /\ ~ failed /\ again = {} =>
    \A d \in allocated : written[d] = 1

\* "The thread data will be written to the file at the end of the process",
\* also when pthread_create fails there.
WrittenAtEnd ==
  At(Process, "done") /\ quiet => \A d \in allocated : written[d] >= 1

=============================================================================
