------------------------------- MODULE Monitor -------------------------------
(***************************************************************************)
(* Threads from pthread_create to the end of the process, as libmonitor    *)
(* sees them (libmonitor/pthread.c, libmonitor/main.c).                    *)
(*                                                                         *)
(* A thread links its node, runs the init-thread callback, the application *)
(* and a cleanup routine with the fini-thread callback.  The first thread  *)
(* that exits the process shoots the others down: it signals every thread  *)
(* on the list until each has run its fini-thread callback, in the signal  *)
(* handler if need be, or until ten seconds bring no progress.  Then it    *)
(* runs the fini-process callback.  A thread in the middle of a sample     *)
(* (hpcrun_sample_callpath, hpcrun_gen_thread_ctxt) puts the handler off.  *)
(*                                                                         *)
(* Handlers interrupt a thread anywhere, so each thread has a stack of     *)
(* frames, and only the frame on top takes steps.  A node is named by its  *)
(* thread: where nodes are allocated is left out.                          *)
(***************************************************************************)
EXTENDS Naturals, Sequences, Functions

CONSTANTS Main, Workers,   \* the main thread, the threads that may be created
          noThread,        \* nobody has begun to exit
          Creators,        \* threads that may create others
          Samplers,        \* threads whose samples are looked at
          SoftFailures     \* whether the unwind of a creation context may fail

Threads == {Main} \cup Workers

ASSUME MonitorAssumption ==
  /\ Main \notin Workers
  /\ noThread \notin Threads
  /\ Creators \subseteq Threads
  /\ Samplers \subseteq Threads
  /\ SoftFailures \in BOOLEAN

VARIABLES stack,     \* stack[t]: frames of t, [fn |-> function, at |-> where]
          tn,        \* tn[t]: the flags of t's monitor_thread_node
          list,      \* monitor_thread_list, head first
          sampled,   \* threads whose sample sources are started
          pending,   \* threads with a shootdown signal on its way
          has_used_threads, in_exit_cleanup, fini_thread_done,
          fini_process_done,
          winner,    \* who swapped monitor_end_process_cookie (tn_exit_win)
          walk,      \* locals of monitor_thread_shootdown
          finis,     \* history: finis[t] is the calls of monitor_fini_thread by t
          late,      \* history: threads met before they started the application
          timedout   \* history: whether shootdown gave up

flags == <<has_used_threads, in_exit_cleanup, fini_thread_done,
           fini_process_done, winner>>
hist == <<finis, late, timedout>>
vars == <<stack, tn, list, sampled, pending, flags, walk, hist>>

Top(s) == s[Len(s)]
Pop(s) == SubSeq(s, 1, Len(s) - 1)
Frame(fn, at) == [fn |-> fn, at |-> at]
At(t, fn, at) == Top(stack[t]) = Frame(fn, at)
In(t, fns) == \E i \in 1..Len(stack[t]) : stack[t][i].fn \in fns
Goto(t, at) == stack' = [stack EXCEPT ![t][Len(stack[t])].at = at]
Call(t, fn, at) == stack' = [stack EXCEPT ![t] = Append(@, Frame(fn, at))]
Return(t) == stack' = [stack EXCEPT ![t] = Pop(@)]
Set(t, field, b) == tn' = [tn EXCEPT ![t][field] = b]

Clear == [appl_started |-> FALSE, fini_started |-> FALSE,
          fini_done |-> FALSE, block |-> FALSE]
NewWalk(nodes, last) == [rest |-> nodes, started |-> 0, unstarted |-> 0,
                         unfinished |-> 0, last_started |-> last]

Init ==
  /\ stack = [t \in Threads |->
                <<Frame("thread", IF t = Main THEN "app" ELSE "none")>>]
  /\ tn = [t \in Threads |-> Clear]
  /\ list = <<>>
  /\ sampled = {Main}
  /\ pending = {}
  /\ has_used_threads = FALSE
  /\ in_exit_cleanup = FALSE
  /\ fini_thread_done = FALSE
  /\ fini_process_done = FALSE
  /\ winner = noThread
  /\ walk = NewWalk(<<>>, 0)
  /\ finis = [t \in Threads |-> 0]
  /\ late = {}
  /\ timedout = FALSE

-----------------------------------------------------------------------------
(* pthread_create, and the life of a thread. *)

PthreadCreate(t) ==
  /\ t \in Creators
  /\ At(t, "thread", "app")
  /\ \E u \in Workers : At(u, "thread", "none")
  /\ has_used_threads' = TRUE
  /\ Call(t, "create", "ctxt")
  /\ UNCHANGED <<tn, list, sampled, pending, in_exit_cleanup,
                 fini_thread_done, fini_process_done, winner, walk, hist>>

\* hpcrun_gen_thread_ctxt blocks shootdown, unless the process is exiting.
GenThreadCtxt(t) ==
  /\ At(t, "create", "ctxt")
  /\ IF in_exit_cleanup
     THEN Set(t, "block", FALSE) /\ Goto(t, "launch")
     ELSE Set(t, "block", TRUE) /\ Goto(t, "unwind")
  /\ UNCHANGED <<list, sampled, pending, flags, walk, hist>>

\* A soft failure of the unwind returns without unblocking shootdown.
ThreadCtxtDone(t) ==
  /\ At(t, "create", "unwind")
  /\ \/ Set(t, "block", FALSE)
     \/ SoftFailures /\ UNCHANGED tn
  /\ Goto(t, "launch")
  /\ UNCHANGED <<list, sampled, pending, flags, walk, hist>>

\* The real pthread_create: a new thread, or an error.
Launch(t) ==
  /\ At(t, "create", "launch")
  /\ \/ Return(t)
     \/ \E u \in Workers :
          /\ At(u, "thread", "none")
          /\ stack' = [stack EXCEPT ![t] = Pop(@),
                                    ![u] = <<Frame("thread", "link")>>]
  /\ UNCHANGED <<tn, list, sampled, pending, flags, walk, hist>>

LinkThreadNode(t) ==
  /\ At(t, "thread", "link")
  /\ IF in_exit_cleanup
     THEN Goto(t, "gone") /\ UNCHANGED list
     ELSE Goto(t, "init") /\ list' = <<t>> \o list
  /\ UNCHANGED <<tn, sampled, pending, flags, walk, hist>>

\* monitor_init_thread starts the sample sources of the thread.
InitThread(t) ==
  /\ At(t, "thread", "init")
  /\ sampled' = sampled \cup {t}
  /\ Goto(t, "start")
  /\ UNCHANGED <<tn, list, pending, flags, walk, hist>>

ApplStarted(t) ==
  /\ At(t, "thread", "start")
  /\ Set(t, "appl_started", TRUE)
  /\ Goto(t, "app")
  /\ UNCHANGED <<list, sampled, pending, flags, walk, hist>>

\* The start routine returns, calls pthread_exit or is cancelled.
ThreadEnds(t) ==
  /\ t # Main
  /\ At(t, "thread", "app")
  /\ stack' = [stack EXCEPT ![t] = <<Frame("thread", "gone"),
                                     Frame("cleanup", "test")>>]
  /\ UNCHANGED <<tn, list, sampled, pending, flags, walk, hist>>

-----------------------------------------------------------------------------
(* Samples.  Asynchronous ones come from a signal; hpcrun_safe_enter_async *)
(* turns them away inside hpcrun.  Synchronous ones are calls.             *)

AsyncSample(t) ==
  /\ t \in sampled \cap Samplers
  /\ ~ At(t, "thread", "gone")
  /\ ~ In(t, {"async", "sync", "create", "fini"})
  /\ Call(t, "async", "enter")
  /\ UNCHANGED <<tn, list, sampled, pending, flags, walk, hist>>

SyncSample(t) ==
  /\ t \in Samplers
  /\ At(t, "thread", "app")
  /\ Call(t, "sync", "enter")
  /\ UNCHANGED <<tn, list, sampled, pending, flags, walk, hist>>

\* hpcrun_sample_callpath: an asynchronous sample is skipped at process exit.
BlockShootdown(t) ==
  /\ At(t, "async", "enter") \/ At(t, "sync", "enter")
  /\ IF At(t, "async", "enter") /\ in_exit_cleanup
     THEN Set(t, "block", FALSE) /\ Return(t)
     ELSE Set(t, "block", TRUE) /\ Goto(t, "body")
  /\ UNCHANGED <<list, sampled, pending, flags, walk, hist>>

UnblockShootdown(t) ==
  /\ At(t, "async", "body") \/ At(t, "sync", "body")
  /\ Set(t, "block", FALSE)
  /\ Return(t)
  /\ UNCHANGED <<list, sampled, pending, flags, walk, hist>>

-----------------------------------------------------------------------------
(* The fini-thread callback, from the cleanup routine, the shootdown       *)
(* handler or, for the thread that exits the process, from shootdown.      *)

ShootdownSignal(t) ==
  /\ t \in pending
  /\ ~ At(t, "thread", "gone")
  /\ ~ In(t, {"handler"})
  /\ pending' = pending \ {t}
  /\ Call(t, "handler", "test")
  /\ UNCHANGED <<tn, list, sampled, flags, walk, hist>>

\* Faulty: the callback also runs when shootdown is blocked.
TestFini_evenBlocked(t) ==
  /\ At(t, "cleanup", "test") \/ At(t, "handler", "test")
  /\ IF ~ tn[t].appl_started \/ tn[t].fini_started \/ fini_thread_done
     THEN Return(t)
     ELSE Goto(t, "mark")
  /\ UNCHANGED <<tn, list, sampled, pending, flags, walk, hist>>

TestFini(t) ==
  /\ At(t, "cleanup", "test") \/ At(t, "handler", "test")
  /\ IF \/ ~ tn[t].appl_started \/ tn[t].fini_started \/ tn[t].block
        \/ fini_thread_done
     THEN Return(t)
     ELSE Goto(t, "mark")
  /\ UNCHANGED <<tn, list, sampled, pending, flags, walk, hist>>

\* tn_fini_started, then monitor_fini_thread, which stops the sample sources.
FiniThread(t) ==
  /\ Top(stack[t]).at = "mark"
  /\ Set(t, "fini_started", TRUE)
  /\ finis' = [finis EXCEPT ![t] = @ + 1]
  /\ sampled' = sampled \ {t}
  /\ stack' = [stack EXCEPT ![t] =
                 Append([stack[t] EXCEPT ![Len(stack[t])].at = "done"],
                        Frame("fini", "run"))]
  /\ UNCHANGED <<list, pending, flags, walk, late, timedout>>

FiniThreadReturns(t) ==
  /\ At(t, "fini", "run")
  /\ Return(t)
  /\ UNCHANGED <<tn, list, sampled, pending, flags, walk, hist>>

FiniDone(t) ==
  /\ Top(stack[t]).at = "done"
  /\ Set(t, "fini_done", TRUE)
  /\ \/ At(t, "cleanup", "done") /\ Goto(t, "unlink")
     \/ At(t, "handler", "done") /\ Return(t)
     \/ At(t, "exit", "done") /\ Goto(t, "process")
  /\ UNCHANGED <<list, sampled, pending, flags, walk, hist>>

\* LIST_REMOVE takes a node that is linked.
ListRemove(t) ==
  \E k \in 1..Len(list) :
    /\ list[k] = t
    /\ list' = SubSeq(list, 1, k - 1) \o SubSeq(list, k + 1, Len(list))

\* Faulty: the node is removed and cleared although the list is being walked.
UnlinkThreadNode_always(t) ==
  /\ At(t, "cleanup", "unlink")
  /\ tn' = [tn EXCEPT ![t] = Clear]
  /\ ListRemove(t)
  /\ Return(t)
  /\ UNCHANGED <<sampled, pending, flags, walk, hist>>

UnlinkThreadNode(t) ==
  /\ At(t, "cleanup", "unlink")
  /\ IF in_exit_cleanup
     THEN /\ tn' = [tn EXCEPT ![t].fini_started = TRUE, ![t].fini_done = TRUE]
          /\ UNCHANGED list
     ELSE /\ tn' = [tn EXCEPT ![t] = Clear]
          /\ ListRemove(t)
  /\ Return(t)
  /\ UNCHANGED <<sampled, pending, flags, walk, hist>>

-----------------------------------------------------------------------------
(* Process exit. *)

\* exit(), _exit(), or main returning; an exit handler may call exit() again.
Exit(t) ==
  /\ \/ At(t, "thread", "app") /\ Call(t, "exit", "race")
     \/ At(t, "exit", "over") /\ Goto(t, "race")
  /\ UNCHANGED <<tn, list, sampled, pending, flags, walk, hist>>

\* Faulty: a thread that loses the race does not wait for the winner.
EndProcess_noWait(t) ==
  /\ At(t, "exit", "race")
  /\ \/ /\ winner = noThread
        /\ winner' = t
        /\ Goto(t, IF has_used_threads THEN "flag" ELSE "process")
     \/ winner # noThread /\ UNCHANGED winner /\ Goto(t, "over")
  /\ UNCHANGED <<tn, list, sampled, pending, has_used_threads, walk, hist,
                 in_exit_cleanup, fini_thread_done, fini_process_done>>

EndProcess(t) ==
  /\ At(t, "exit", "race")
  /\ \/ /\ winner = noThread
        /\ winner' = t
        /\ Goto(t, IF has_used_threads THEN "flag" ELSE "process")
     \/ winner = t /\ UNCHANGED winner /\ Goto(t, "over")
     \/ winner \notin {t, noThread} /\ UNCHANGED winner /\ Goto(t, "wait")
  /\ UNCHANGED <<tn, list, sampled, pending, has_used_threads, walk, hist,
                 in_exit_cleanup, fini_thread_done, fini_process_done>>

\* Main goes on the list when another thread shoots down.
BeginShootdown(t) ==
  /\ At(t, "exit", "flag")
  /\ in_exit_cleanup' = TRUE
  /\ IF t = Main
     THEN UNCHANGED <<list, tn>>
     ELSE /\ list' = <<Main>> \o list
          /\ tn' = [tn EXCEPT ![Main].appl_started = TRUE,
                              ![Main].fini_started = FALSE,
                              ![Main].fini_done = FALSE]
  /\ walk' = NewWalk(list', 0)
  /\ Goto(t, "walk")
  /\ UNCHANGED <<sampled, pending, has_used_threads, fini_thread_done,
                 fini_process_done, winner, hist>>

\* Faulty: a thread counts as finished as soon as its callback has started.
Counted_started(n) ==
  [walk EXCEPT !.rest = Tail(@),
               !.started = IF n.fini_started THEN @ + 1 ELSE @,
               !.unstarted = IF n.fini_started THEN @ ELSE @ + 1,
               !.unfinished = IF n.fini_started THEN @ ELSE @ + 1]

Counted(n) ==
  [walk EXCEPT !.rest = Tail(@),
               !.started = IF n.fini_started THEN @ + 1 ELSE @,
               !.unstarted = IF n.fini_started THEN @ ELSE @ + 1,
               !.unfinished = IF n.fini_done THEN @ ELSE @ + 1]

\* One node of the walk: signal a thread that has not started to finish.
Visit(t) ==
  /\ At(t, "exit", "walk")
  /\ walk.rest # <<>>
  /\ LET u == Head(walk.rest) IN
       IF u # t /\ tn[u].appl_started
       THEN /\ walk' = Counted(tn[u])
            /\ pending' = IF tn[u].fini_started THEN pending
                                                ELSE pending \cup {u}
            /\ late' = late \ {u}
       ELSE /\ walk' = [walk EXCEPT !.rest = Tail(@)]
            /\ late' = IF u = t THEN late ELSE late \cup {u}
            /\ UNCHANGED pending
  /\ UNCHANGED <<stack, tn, list, sampled, flags, finis, timedout>>

\* The end of a walk: all have finished, or walk again.
Poll(t) ==
  /\ At(t, "exit", "walk")
  /\ walk.rest = <<>>
  /\ IF walk.unfinished = 0
     THEN Goto(t, "finis") /\ UNCHANGED walk
     ELSE /\ walk' = NewWalk(list, IF walk.started > walk.last_started
                                   THEN walk.started ELSE walk.last_started)
          /\ UNCHANGED stack
  /\ UNCHANGED <<tn, list, sampled, pending, flags, hist>>

\* Faulty: shootdown never gives up.
GiveUp_never(t) == FALSE /\ UNCHANGED vars

\* Ten seconds without progress.
GiveUp(t) ==
  /\ At(t, "exit", "walk")
  /\ walk.rest = <<>>
  /\ walk.unfinished > 0
  /\ walk.started <= walk.last_started
  /\ walk.unstarted > 0
  /\ timedout' = TRUE
  /\ Goto(t, "finis")
  /\ UNCHANGED <<tn, list, sampled, pending, flags, walk, finis, late>>

\* The callbacks of the others are over; our own one comes last.
FiniThreadsDone(t) ==
  /\ At(t, "exit", "finis")
  /\ fini_thread_done' = TRUE
  /\ Goto(t, IF t # Main /\ ~ tn[t].fini_started THEN "mark" ELSE "process")
  /\ UNCHANGED <<tn, list, sampled, pending, has_used_threads, winner, walk,
                 in_exit_cleanup, fini_process_done, hist>>

\* monitor_fini_process returns, or a thread that lost the race resumes.
FiniProcess(t) ==
  /\ \/ At(t, "exit", "process")
     \/ At(t, "exit", "wait") /\ fini_process_done
  /\ fini_process_done' = TRUE
  /\ Goto(t, "over")
  /\ UNCHANGED <<tn, list, sampled, pending, has_used_threads, winner, walk,
                 in_exit_cleanup, fini_thread_done, hist>>

-----------------------------------------------------------------------------

Application(t) == PthreadCreate(t) \/ ThreadEnds(t) \/ SyncSample(t) \/ Exit(t)

Monitored(t) ==
  \/ GenThreadCtxt(t) \/ ThreadCtxtDone(t) \/ Launch(t)
  \/ LinkThreadNode(t) \/ InitThread(t) \/ ApplStarted(t)
  \/ TestFini(t) \/ FiniThread(t) \/ FiniThreadReturns(t) \/ FiniDone(t)
  \/ UnlinkThreadNode(t)
  \/ EndProcess(t) \/ BeginShootdown(t) \/ Visit(t) \/ Poll(t)
  \/ FiniThreadsDone(t) \/ FiniProcess(t)

Sampling(t) == BlockShootdown(t) \/ UnblockShootdown(t)

Next == \E t \in Threads :
  \/ Application(t) \/ Monitored(t) \/ Sampling(t)
  \/ AsyncSample(t) \/ ShootdownSignal(t) \/ GiveUp(t)

Spec == Init /\ [][Next]_vars

\* Threads run on, also between the samples that interrupt them; signals
\* arrive; and ten seconds without progress do go by.
FairSpec ==
  /\ Spec
  /\ \A t \in Threads : /\ SF_vars(Monitored(t))
                        /\ WF_vars(Sampling(t))
                        /\ WF_vars(ShootdownSignal(t))
                        /\ SF_vars(GiveUp(t))

-----------------------------------------------------------------------------

Frames == [fn : {"thread", "create", "async", "sync", "cleanup", "handler",
                 "fini", "exit"},
           at : {"none", "link", "init", "start", "app", "gone", "ctxt",
                 "unwind", "launch", "enter", "body", "test", "mark", "done",
                 "unlink", "run", "race", "flag", "walk", "finis", "process",
                 "over", "wait"}]

Exiting(t, where) == \E i \in 1..Len(stack[t]) :
                       stack[t][i] \in {Frame("exit", at) : at \in where}

\* monitor_thread_shootdown walks the list without the lock, which is safe
\* because the list stands still meanwhile: the nodes still to be visited are
\* the end of the list, with the links they had when the walk began.
WalkOnList ==
  \A t \in Threads : Exiting(t, {"walk"}) =>
    \E k \in 0..Len(list) : walk.rest = SubSeq(list, k + 1, Len(list))

\* Whichever signal interrupts what, no thread runs its fini-thread callback
\* in the middle of a sample or of the unwind of a creation context, and no
\* asynchronous sample is recorded in a thread whose callback has begun: its
\* thread data may by then belong to another thread.
SamplesApart ==
  \A t \in Threads :
    /\ \A i, j \in 1..Len(stack[t]) :
         stack[t][i].at \in {"body", "unwind"} /\ stack[t][j].fn = "fini" => j < i
    /\ Frame("async", "body") \in Range(stack[t]) => finis[t] = 0

\* When the fini-process callback begins and shootdown did not give up, each
\* other thread, main included, has run its fini-thread callback to the end,
\* unless the last walk met it before the application had started in it.
FinishedBeforeProcess ==
  \A t \in Threads : Exiting(t, {"process"}) /\ ~ timedout =>
    \A u \in Threads \ ({t} \cup late) :
      tn[u].appl_started => tn[u].fini_done /\ finis[u] > 0

\* No thread resumes the system exit before the fini-process callback has
\* returned, and only the winner of the race runs it.
ExitWaits ==
  \A t, u \in Threads :
    /\ Exiting(t, {"over"}) =>
         ~ Exiting(u, {"flag", "walk", "finis", "mark", "done", "process"})
    /\ Exiting(t, {"flag", "walk", "finis", "process"}) => t = winner

\* A process that begins to exit finishes: shootdown neither waits for ever
\* for a thread that blocks it nor for one that is gone.
ExitCompletes == winner # noThread ~> fini_process_done

\* "Block and unblock receiving a thread shootdown signal.  This is used in
\* hpctoolkit to block receiving the fini-thread callback (via shootdown
\* signal) while in the middle of a sample": and at no other time.
BlockedOnlyInSample ==
  \A t \in Threads : tn[t].block =>
    \E f \in Range(stack[t]) : f.at \in {"body", "unwind"}

\* "fini-thread has already run, or else we don't want it to run": the
\* callback runs at most once in a thread.
FiniOnce == \A t \in Threads : finis[t] <= 1

\* Shootdown is to "walk through the list of unfinished threads, send a signal
\* to force them into their fini_thread functions, and wait until they all
\* finish": unless it gives up, each thread on the list has finished.
AllFinished ==
  \A t \in Threads : Exiting(t, {"process"}) /\ ~ timedout =>
    \A u \in Range(list) : tn[u].fini_done

=============================================================================
