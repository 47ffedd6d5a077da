---------------------------- MODULE GPUOperation ----------------------------
(***************************************************************************)
(* How an OpenCL activity gets back to the thread that started it.         *)
(*                                                                         *)
(* An application thread submits an operation and counts it as pending     *)
(* (opencl_subscriber_callback).  When the device is done, some thread     *)
(* runs the completion callback and pushes the activity into its own       *)
(* operation channel (gpu_operation_multiplexer_push).  The operation      *)
(* thread moves it into the activity channel of the thread that submitted  *)
(* it (gpu_operation_item_process), and that thread attributes it to its   *)
(* calling contexts (gpu_application_thread_process_activities).  A thread *)
(* that ends flushes first (opencl_api_thread_finalize), and the process   *)
(* stops the operation thread last (gpu_operation_multiplexer_fini).       *)
(*                                                                         *)
(* When the operation thread sleeps is the business of ChannelSet; here it *)
(* may apply at any time.  So is a dequeue that finds nothing because of   *)
(* an enqueue under way: here an enqueue is one step, as a thread waits    *)
(* for its own pushes and a late push of another one is a later step.      *)
(***************************************************************************)
EXTENDS Integers, Sequences, FiniteSets

CONSTANTS Main, Workers,   \* application threads
          Callbacks,       \* threads of the OpenCL runtime
          Ops,             \* operations
          none             \* no thread

Apps == {Main} \cup Workers
Threads == Apps \cup Callbacks

Ordinary == 0     \* monitor_fini_process_how before monitor_fini_process
Normal == 1       \* MONITOR_EXIT_NORMAL
Signal == 2       \* MONITOR_EXIT_SIGNAL
Exec == 3         \* MONITOR_EXIT_EXEC

VARIABLES owner,    \* owner[o]: the thread that submitted o
          stage,    \* stage[o]: how far o has come
          pending,  \* opencl_self_pending_operations of each thread
          flag,     \* opencl_api_flag of each thread
          pc,       \* where each application thread is
          wait,     \* the variable that the flush of a thread clears
          how,      \* monitor_fini_process_how
          channels, \* threads whose operation channel is in the set, newest first
          opq,      \* opq[t]: operation channel of t, operations and flushes
          stop, finished,   \* stop_operation_flag, gpu_trace_finished
          rpc, todo, item   \* operation thread: channels to visit, item in hand

app == <<owner, pending, flag, pc, wait, how>>
rec == <<rpc, todo, item>>
vars == <<app, stage, channels, opq, stop, finished, rec>>

Op(o) == [kind |-> "op", op |-> o]
Flush(t) == [kind |-> "flush", thread |-> t]
Nothing == [kind |-> "none"]
Items == {Op(o) : o \in Ops} \cup {Flush(t) : t \in Apps}

Init ==
  /\ owner = [o \in Ops |-> none]
  /\ stage = [o \in Ops |-> "new"]
  /\ pending = [t \in Apps |-> 0]
  /\ flag = [t \in Apps |-> FALSE]
  /\ pc = [t \in Apps |-> "run"]
  /\ wait = [t \in Apps |-> FALSE]
  /\ how = Ordinary
  /\ channels = <<>>
  /\ opq = [t \in Threads |-> <<>>]
  /\ stop = FALSE
  /\ finished = FALSE
  /\ rpc = "test" /\ todo = <<>> /\ item = Nothing

Of(t) == {o \in Ops : owner[o] = t}
At(t, l) == pc[t] = l
Goto(t, l) == pc' = [pc EXCEPT ![t] = l]

(* gpu_application_thread_process_activities: empty the activity channel. *)
Attribute(t, st) == [o \in Ops |-> IF owner[o] = t /\ st[o] = "activity"
                                   THEN "attributed" ELSE st[o]]

(* gpu_operation_multiplexer_push, from thread t. *)
Push(t, it) ==
  /\ opq' = [opq EXCEPT ![t] = Append(@, it)]
  /\ channels' = IF \E i \in DOMAIN channels : channels[i] = t
                 THEN channels ELSE <<t>> \o channels

-----------------------------------------------------------------------------
(* Faulty: the operation is not counted as pending. *)
Submit_uncounted(t, o) ==
  /\ At(t, "run") /\ stage[o] = "new"
  /\ owner' = [owner EXCEPT ![o] = t]
  /\ flag' = [flag EXCEPT ![t] = TRUE]
  /\ stage' = [Attribute(t, stage) EXCEPT ![o] = "device"]
  /\ UNCHANGED <<pending, pc, wait, how, channels, opq, stop, finished, rec>>
(* opencl_subscriber_callback *)
Submit(t, o) ==
  /\ At(t, "run") /\ stage[o] = "new"
  /\ owner' = [owner EXCEPT ![o] = t]
  /\ flag' = [flag EXCEPT ![t] = TRUE]
  /\ pending' = [pending EXCEPT ![t] = @ + 1]
  /\ stage' = [Attribute(t, stage) EXCEPT ![o] = "device"]
  /\ UNCHANGED <<pc, wait, how, channels, opq, stop, finished, rec>>

(* opencl_activity_completion_callback, run by a thread of the runtime or by *)
(* an application thread inside the runtime.  An operation that ends with an *)
(* error is not pushed, and stays counted (as does one whose enqueue failed, *)
(* for which there is no callback).                                          *)
Complete(c, o) ==
  /\ c \in Callbacks \/ (c \in Apps /\ At(c, "run"))
  /\ stage[o] = "device"
  /\ \/ stage' = [stage EXCEPT ![o] = "operation"] /\ Push(c, Op(o))
     \/ stage' = [stage EXCEPT ![o] = "failed"] /\ UNCHANGED <<opq, channels>>
  /\ UNCHANGED <<app, stop, finished, rec>>

-----------------------------------------------------------------------------
(* opencl_api_thread_finalize, step by step *)

(* A worker ends (hpcrun_thread_fini), or the process does                   *)
(* (monitor_fini_process, after libmonitor has seen the workers off).        *)
End(t) ==
  /\ At(t, "run")
  /\ \/ t \in Workers /\ UNCHANGED how
     \/ /\ t = Main
        /\ \A w \in Workers : At(w, "done")
        /\ how' \in {Normal, Signal, Exec}
  /\ Goto(t, IF flag[t] THEN "flush" ELSE IF t = Main THEN "fini" ELSE "done")
  /\ flag' = [flag EXCEPT ![t] = FALSE]
  /\ UNCHANGED <<owner, pending, wait, stage, channels, opq, stop, finished, rec>>

PushFlush(t) ==
  /\ At(t, "flush")
  /\ wait' = [wait EXCEPT ![t] = TRUE]
  /\ Push(t, Flush(t))
  /\ Goto(t, "await")
  /\ UNCHANGED <<owner, pending, flag, how, stage, stop, finished, rec>>

AwaitFlush(t) ==
  /\ At(t, "await") /\ ~wait[t]
  /\ Goto(t, IF how = Normal THEN "pending" ELSE "attribute")
  /\ UNCHANGED <<owner, pending, flag, wait, how, stage, channels, opq, stop, finished, rec>>

(* Faulty: one operation too early. *)
AwaitPending_early(t) ==
  /\ At(t, "pending") /\ pending[t] <= 1
  /\ Goto(t, "attribute")
  /\ UNCHANGED <<owner, pending, flag, wait, how, stage, channels, opq, stop, finished, rec>>
(* opencl_wait_for_self_pending_operations *)
AwaitPending(t) ==
  /\ At(t, "pending") /\ pending[t] = 0
  /\ Goto(t, "attribute")
  /\ UNCHANGED <<owner, pending, flag, wait, how, stage, channels, opq, stop, finished, rec>>

AttributeAll(t) ==
  /\ At(t, "attribute")
  /\ stage' = Attribute(t, stage)
  /\ Goto(t, IF t = Main THEN "fini" ELSE "done")
  /\ UNCHANGED <<owner, pending, flag, wait, how, channels, opq, stop, finished, rec>>

(* gpu_operation_multiplexer_fini: stop the operation thread ... *)
Stop ==
  /\ At(Main, "fini")
  /\ stop' = TRUE
  /\ Goto(Main, "stopping")
  /\ UNCHANGED <<owner, pending, flag, wait, how, stage, channels, opq, finished, rec>>

(* ... and wait for it. *)
AwaitFinished ==
  /\ At(Main, "stopping") /\ finished
  /\ Goto(Main, "done")
  /\ UNCHANGED <<owner, pending, flag, wait, how, stage, channels, opq, stop, finished, rec>>

-----------------------------------------------------------------------------
(* gpu_operation_record_thread_fn *)

RecordApply ==
  /\ rpc = "test"
  /\ rpc' = IF stop THEN "final" ELSE "apply"
  /\ todo' = channels
  /\ UNCHANGED <<app, stage, channels, opq, stop, finished, item>>

(* gpu_operation_channel_receive_all takes the next item ... *)
Dequeue ==
  /\ todo # <<>> /\ item = Nothing
  /\ LET ch == Head(todo)
     IN  \/ /\ opq[ch] # <<>>
            /\ item' = Head(opq[ch])
            /\ opq' = [opq EXCEPT ![ch] = Tail(@)]
            /\ UNCHANGED todo
         \/ /\ opq[ch] = <<>>
            /\ todo' = Tail(todo)
            /\ UNCHANGED <<item, opq>>
  /\ UNCHANGED <<app, stage, channels, stop, finished, rpc>>

(* ... and gpu_operation_item_process sends an activity on its way ... *)
ProcessActivity ==
  /\ item.kind = "op" /\ stage[item.op] = "operation"
  /\ stage' = [stage EXCEPT ![item.op] = "activity"]
  /\ UNCHANGED <<app, channels, opq, stop, finished, rec>>

(* Faulty: the count does not go down. *)
CountDown_not ==
  /\ item.kind = "op" /\ stage[item.op] # "operation"
  /\ item' = Nothing
  /\ UNCHANGED <<app, stage, channels, opq, stop, finished, rpc, todo>>
(* ... and after that counts it as no longer pending, *)
CountDown ==
  /\ item.kind = "op" /\ stage[item.op] # "operation"
  /\ pending' = [pending EXCEPT ![owner[item.op]] = @ - 1]
  /\ item' = Nothing
  /\ UNCHANGED <<owner, flag, pc, wait, how, stage, channels, opq, stop, finished, rpc, todo>>

(* or lets the thread go on that waits for its flush. *)
ProcessFlush ==
  /\ item.kind = "flush"
  /\ wait' = [wait EXCEPT ![item.thread] = FALSE]
  /\ item' = Nothing
  /\ UNCHANGED <<owner, pending, flag, pc, how, stage, channels, opq, stop, finished, rpc, todo>>

(* The end of an apply; after the last one, gpu_trace_fini and done. *)
RecordNext ==
  /\ rpc \in {"apply", "final"} /\ todo = <<>>
  /\ rpc' = IF rpc = "final" THEN "done" ELSE "test"
  /\ finished' = (rpc = "final")
  /\ UNCHANGED <<app, stage, channels, opq, stop, todo, item>>

-----------------------------------------------------------------------------
Finalize(t) == PushFlush(t) \/ AwaitFlush(t) \/ AwaitPending(t) \/ AttributeAll(t)
Fini == Stop \/ AwaitFinished
Record == RecordApply \/ Dequeue \/ ProcessActivity \/ CountDown \/ ProcessFlush \/ RecordNext

(* The process is gone. *)
Exited == At(Main, "done") /\ UNCHANGED vars

Next ==
  \/ \E t \in Apps, o \in Ops : Submit(t, o)
  \/ \E c \in Threads, o \in Ops : Complete(c, o)
  \/ \E t \in Apps : End(t) \/ Finalize(t)
  \/ Fini \/ Record \/ Exited

Spec == Init /\ [][Next]_vars

(* The operation thread and threads inside finalize run on, and what is on   *)
(* the device completes or fails.                                            *)
FairSpec ==
  /\ Spec
  /\ WF_vars(Record) /\ WF_vars(Fini)
  /\ \A t \in Apps : WF_vars(Finalize(t))
  /\ \A o \in Ops : WF_vars(\E c \in Callbacks : Complete(c, o))
-----------------------------------------------------------------------------

(* A thread whose pending count is zero, after its flush, finds all its      *)
(* activities in its activity channel: the operation thread sends an         *)
(* activity before it counts it down, and nothing else counts.               *)
ZeroMeansDelivered ==
  \A t \in Apps : pending[t] = 0 =>
    \A o \in Of(t) : stage[o] \in {"activity", "attributed"}

(* When a process exits normally, the main thread has attributed all its     *)
(* operations before the operation thread is stopped.                        *)
MainAttributesAll ==
  how = Normal /\ pc[Main] \in {"fini", "stopping", "done"} =>
    \A o \in Of(Main) : stage[o] = "attributed"

(* A thread that has invoked OpenCL attributes all its activities before it  *)
(* ends: "If I have invoked any opencl api, I have to attribute all my       *)
(* activities to my ccts" (opencl-api.c, opencl_api_thread_finalize).        *)
WorkersAttributeAll ==
  \A t \in Workers : At(t, "done") => \A o \in Of(t) : stage[o] = "attributed"

(* A thread that starts to end gets there, whatever the others do, unless it *)
(* is the main thread of a process that exits normally, which waits for an   *)
(* operation of its own that failed.                                         *)
EndsTerminate ==
  \A t \in Apps :
    /\ pc[t] = "flush" ~> At(t, "done") \/ (how = Normal /\ \E o \in Of(t) : stage[o] = "failed")
    /\ pc[t] = "fini" ~> At(t, "done")

(* Without that exception, "Wait until my activities are drained"            *)
(* (opencl-api.c:1447) would say that the wait ends.                         *)
WaitEnds == \A t \in Apps : pc[t] = "pending" ~> At(t, "done")
=============================================================================
