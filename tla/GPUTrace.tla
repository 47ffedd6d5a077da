------------------------------ MODULE GPUTrace ------------------------------
(***************************************************************************)
(* GPU trace streams from first item to closed file (gpu-trace-api.c).     *)
(* Threads send trace items to streams under one global lock, creating the *)
(* channel of a stream when it is first used.  Tracing threads write what  *)
(* they receive and, once told to stop, drain, write out and close their   *)
(* streams; gpu_trace_fini waits until no stream is active.                *)
(*                                                                         *)
(* The lock is MCSLock, the filling of channel sets under contention is    *)
(* TraceDemux (here the global lock serialises it), and when a tracing     *)
(* thread sleeps is ChannelSet.  There is one GPU context.                 *)
(***************************************************************************)
EXTENDS Integers, Sequences, FiniteSets

CONSTANTS Senders, Streams, none,
          streams_per_thread,
          MaxItems              \* bound: calls of each sender

VARIABLES lock,                 \* who holds the lock
          spc, calls, to,       \* senders: place, calls made (bound), streams to send to
          known,                \* streams in the context's stream map
          active,               \* active_streams_counter
          sets,                 \* channel sets: each the channels on its stack
          queue,                \* queue[x]: items in the channel of x
          linking,              \* streams whose last item is not linked yet
          closed,               \* streams whose file is written and closed
          stop, fpc,            \* stop_trace_flag; the thread that finalizes
          rpc, todo             \* tracing thread of each set

sender == <<lock, spc, calls, to, known>>
files == <<active, queue, linking, closed>>
fini == <<stop, fpc>>
tracer == <<rpc, todo>>
vars == <<sender, files, sets, fini, tracer>>

Init ==
  /\ lock = none
  /\ spc = [s \in Senders |-> "out"]
  /\ calls = [s \in Senders |-> 0]
  /\ to = [s \in Senders |-> {}]
  /\ known = {}
  /\ active = 0
  /\ sets = <<>>
  /\ queue = [x \in Streams |-> 0]
  /\ linking = {}
  /\ closed = {}
  /\ stop = FALSE
  /\ fpc = "running"
  /\ rpc = <<>> /\ todo = <<>>

Goto(s, l) == spc' = [spc EXCEPT ![s] = l]

(* Threads that send have ended, or are the thread that finalizes, by the    *)
(* time gpu_trace_fini is called: libmonitor has seen the application        *)
(* threads off, and the operation thread calls it after its last item.       *)
Quiet == \A s \in Senders : spc[s] = "out"

-----------------------------------------------------------------------------
(* gpu_trace_process_stream and gpu_trace_process_context *)

Lock(s) ==
  /\ spc[s] = "out" /\ lock = none
  /\ fpc = "running"
  /\ calls[s] < MaxItems
  /\ lock' = s
  /\ calls' = [calls EXCEPT ![s] = @ + 1]
  /\ Goto(s, "in")
  /\ UNCHANGED <<to, known, files, sets, fini, tracer>>

(* An item for one stream: look the stream up, or acquire it ... *)
ProcessStream(s, x) ==
  /\ spc[s] = "in"
  /\ to' = [to EXCEPT ![s] = {x}]
  /\ known' = known \cup {x}
  /\ active' = IF x \in known THEN active ELSE active + 1
  /\ Goto(s, IF x \in known THEN "send" ELSE "push")
  /\ UNCHANGED <<lock, calls, queue, linking, closed, sets, fini, tracer>>

(* ... and give it a channel: gpu_trace_demultiplexer_push, with demux_init  *)
(* the first time.  A new set has a tracing thread.                          *)
PushChannel(s) ==
  LET full == sets = <<>> \/ Len(sets[Len(sets)]) >= streams_per_thread
      x == CHOOSE y \in to[s] : TRUE
  IN  /\ spc[s] = "push"
      /\ sets' = IF full THEN Append(sets, <<x>>)
                 ELSE [sets EXCEPT ![Len(sets)] = <<x>> \o @]
      /\ rpc' = IF full THEN Append(rpc, "test") ELSE rpc
      /\ todo' = IF full THEN Append(todo, <<>>) ELSE todo
      /\ Goto(s, "send")
      /\ UNCHANGED <<lock, calls, to, known, files, fini>>

(* An item for all streams of the context. *)
ProcessContext(s) ==
  /\ spc[s] = "in"
  /\ to' = [to EXCEPT ![s] = known]
  /\ Goto(s, "send")
  /\ UNCHANGED <<lock, calls, known, files, sets, fini, tracer>>

(* gpu_trace_channel_send: the item becomes the last of the queue ... *)
Send(s) ==
  /\ spc[s] = "send"
  /\ \E x \in to[s] :
       /\ queue' = [queue EXCEPT ![x] = @ + 1]
       /\ linking' = {x}
       /\ to' = [to EXCEPT ![s] = @ \ {x}]
  /\ Goto(s, "link")
  /\ UNCHANGED <<lock, calls, known, active, closed, sets, fini, tracer>>

(* ... and the one before it gets the link to it. *)
Link(s) ==
  /\ spc[s] = "link"
  /\ linking' = {}
  /\ Goto(s, "send")
  /\ UNCHANGED <<lock, calls, to, known, active, queue, closed, sets, fini, tracer>>

Unlock(s) ==
  /\ spc[s] = "send" /\ to[s] = {}
  /\ lock' = none
  /\ Goto(s, "out")
  /\ UNCHANGED <<calls, to, known, files, sets, fini, tracer>>

-----------------------------------------------------------------------------
(* gpu_trace_fini, called twice: by the operation thread or a finalizer of a *)
(* device, and once more by a later finalizer.                               *)

(* The notification, which may be lost, only cuts the sleep short; it        *)
(* creates the first set when there is none (gpu_trace_demultiplexer_get).   *)
SetStop ==
  /\ fpc = "running" /\ Quiet
  /\ stop' = TRUE
  /\ fpc' = "waiting"
  /\ sets' = IF sets = <<>> THEN << <<>> >> ELSE sets
  /\ rpc' = IF sets = <<>> THEN <<"test">> ELSE rpc
  /\ todo' = IF sets = <<>> THEN << <<>> >> ELSE todo
  /\ UNCHANGED <<sender, files>>

AwaitStreams ==
  /\ fpc = "waiting" /\ active = 0
  /\ fpc' = "again"
  /\ UNCHANGED <<sender, files, sets, stop, tracer>>

FiniAgain ==
  /\ fpc = "again" /\ stop
  /\ fpc' = "done"
  /\ UNCHANGED <<sender, files, sets, stop, tracer>>

-----------------------------------------------------------------------------
(* gpu_trace_record_thread_fn of channel set k *)

Apply(k) ==
  /\ rpc[k] = "test"
  /\ rpc' = [rpc EXCEPT ![k] = IF stop THEN "final" ELSE "consume"]
  /\ todo' = [todo EXCEPT ![k] = sets[k]]
  /\ UNCHANGED <<sender, files, sets, fini>>

(* Items of stream x that are linked.  As in ChannelSet, a dequeue can take  *)
(* one of these, and may find nothing when only one is.                      *)
Linked(x) == IF x \in linking THEN queue[x] - 1 ELSE queue[x]
SeemsEmpty(x) == Linked(x) = 0 \/ (Linked(x) = 1 /\ x \in linking)

(* consume_trace_channel, consume_trace_item *)
Consume(k) ==
  /\ rpc[k] \in {"consume", "final"} /\ todo[k] # <<>>
  /\ LET x == Head(todo[k])
     IN  \/ Linked(x) > 0 /\ queue' = [queue EXCEPT ![x] = @ - 1] /\ UNCHANGED todo
         \/ SeemsEmpty(x) /\ todo' = [todo EXCEPT ![k] = Tail(@)] /\ UNCHANGED queue
  /\ UNCHANGED <<sender, active, linking, closed, sets, fini, rpc>>

EndApply(k) ==
  /\ rpc[k] \in {"consume", "final"} /\ todo[k] = <<>>
  /\ rpc' = [rpc EXCEPT ![k] = IF @ = "final" THEN "release" ELSE "test"]
  /\ todo' = [todo EXCEPT ![k] = IF rpc[k] = "final" THEN sets[k] ELSE <<>>]
  /\ UNCHANGED <<sender, files, sets, fini>>

(* gpu_trace_channel_release *)
Release(k) ==
  /\ rpc[k] = "release" /\ todo[k] # <<>>
  /\ closed' = closed \cup {Head(todo[k])}
  /\ active' = active - 1
  /\ todo' = [todo EXCEPT ![k] = Tail(@)]
  /\ UNCHANGED <<sender, queue, linking, sets, fini, rpc>>

Return(k) ==
  /\ rpc[k] = "release" /\ todo[k] = <<>>
  /\ rpc' = [rpc EXCEPT ![k] = "done"]
  /\ UNCHANGED <<sender, files, sets, fini, todo>>

-----------------------------------------------------------------------------
Fini == SetStop \/ AwaitStreams \/ FiniAgain
Tracer(k) == Apply(k) \/ Consume(k) \/ EndApply(k) \/ Release(k) \/ Return(k)

(* Finalization and the tracing threads are over. *)
Finished ==
  /\ fpc = "done" /\ \A k \in DOMAIN rpc : rpc[k] = "done"
  /\ UNCHANGED vars

Next ==
  \/ \E s \in Senders : \/ Lock(s) \/ PushChannel(s) \/ ProcessContext(s)
                        \/ Send(s) \/ Link(s) \/ Unlock(s)
                        \/ \E x \in Streams : ProcessStream(s, x)
  \/ Fini
  \/ \E k \in DOMAIN rpc : Tracer(k)
  \/ Finished

Spec == Init /\ [][Next]_vars

(* A tracing thread runs on (its sleep is bounded), and so does a finalizer  *)
(* that has started.                                                         *)
FairSpec ==
  /\ Spec
  /\ WF_vars(AwaitStreams \/ FiniAgain)
  /\ \A k \in 1 .. Cardinality(Streams) : WF_vars(k \in DOMAIN rpc /\ Tracer(k))
-----------------------------------------------------------------------------

(* A stream is written out and closed only when no item is left for it, and  *)
(* no item arrives later: nothing is appended to a closed trace file.        *)
ClosedIsComplete == \A x \in closed : queue[x] = 0

(* gpu_trace_fini returns, because no stream stays active forever, and the   *)
(* files of all streams are then closed.                                     *)
FiniReturns == fpc = "waiting" ~> fpc = "done" /\ closed = known
=============================================================================
