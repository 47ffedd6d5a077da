----------------------------- MODULE ChannelSet -----------------------------
(***************************************************************************)
(* A channel set (src/hpcrun/gpu/common/base-channel-set.c, specialised by *)
(* gpu-operation-channel-set.c and gpu-trace-channel-set.c): threads send  *)
(* items into channels, and one receiver thread sleeps until there is      *)
(* enough to do, drains all channels of the set, and stops when told to    *)
(* (gpu_operation_record_thread_fn, gpu_trace_record_thread_fn).           *)
(*                                                                         *)
(* Every sender has a channel of its own, as gpu_operation_channel_get_    *)
(* local gives it.  The queue in a channel is MPSCQueue; here a channel is *)
(* the number of its items.  An enqueue is two steps, the exchange of the  *)
(* tail and the link to the item before: between them a dequeue may find   *)
(* nothing, although there is an item that was sent before.                *)
(***************************************************************************)
EXTENDS Integers, Sequences

CONSTANTS Senders,
          MaxSends,    \* bound: how many items are sent
          Target,      \* unprocessed_target_count, 100 in the code
          Word         \* 2^64: uprocessed_count is a size_t

VARIABLES channels,    \* the stack of the channels in the set, newest first
          items,       \* items[s]: how many items are in the channel of s
          sent,        \* bound: how many items have been sent
          spc,         \* where each sender is
          uprocessed_count, processed,   \* the fields of base_channel_set_t
          stop,        \* stop_operation_flag, stop_trace_flag
          notified,    \* fini has called base_channel_set_notify
          rpc, todo,   \* the receiver: where it is, channels left in this apply
          owed,        \* history: items that were in a channel when stop was set
                       \* and have not been received
          late         \* history: senders with an enqueue under way during the
                       \* last apply

senderVars == <<channels, sent, spc>>
countVars == <<uprocessed_count, processed>>
stopVars == <<stop, notified>>
history == <<owed, late>>
vars == <<senderVars, items, countVars, stopVars, rpc, todo, history>>

Init ==
  /\ channels = <<>>
  /\ items = [s \in Senders |-> 0]
  /\ sent = 0
  /\ spc = [s \in Senders |-> "new"]
  /\ uprocessed_count = 0
  /\ processed = 0
  /\ stop = FALSE
  /\ notified = FALSE
  /\ rpc = "test"
  /\ todo = <<>>
  /\ owed = [s \in Senders |-> 0]
  /\ late = {}

-----------------------------------------------------------------------------
(* The senders *)

(* gpu_operation_channel_set_add: callbacks first, then the push. *)
AddChannel(s) ==
  /\ spc[s] = "new"
  /\ channels' = <<s>> \o channels
  /\ spc' = [spc EXCEPT ![s] = "ready"]
  /\ UNCHANGED <<items, sent, countVars, stopVars, rpc, todo, history>>

(* gpu_operation_channel_send, gpu_trace_channel_send: the item becomes the  *)
(* last of the queue, ...                                                    *)
Send(s) ==
  /\ spc[s] = "ready"
  /\ sent < MaxSends
  /\ items' = [items EXCEPT ![s] = @ + 1]
  /\ sent' = sent + 1
  /\ spc' = [spc EXCEPT ![s] = "link"]
  /\ late' = IF rpc \in {"finalapply", "finalreceive"} THEN late \cup {s} ELSE late
  /\ UNCHANGED <<channels, countVars, stopVars, rpc, todo, owed>>

(* ... the one before it gets the link to it, ... *)
Link(s) ==
  /\ spc[s] = "link"
  /\ spc' = [spc EXCEPT ![s] = "count"]
  /\ UNCHANGED <<channels, items, sent, countVars, stopVars, rpc, todo, history>>

(* ... and base_channel_set_on_send_callback. *)
OnSend(s) ==
  LET count == (uprocessed_count + 1) % Word
  IN  /\ spc[s] = "count"
      /\ uprocessed_count' = count
      /\ spc' = [spc EXCEPT ![s] = IF count = Target THEN "signal" ELSE "ready"]
      /\ UNCHANGED <<channels, items, sent, processed, stopVars, rpc, todo, history>>

(* pthread_cond_signal: lost unless the receiver is waiting. *)
Wake == rpc' = IF rpc = "waiting" THEN "apply" ELSE rpc

SignalTarget(s) ==
  /\ spc[s] = "signal"
  /\ Wake
  /\ spc' = [spc EXCEPT ![s] = "ready"]
  /\ UNCHANGED <<channels, items, sent, countVars, stopVars, todo, history>>

-----------------------------------------------------------------------------
(* gpu_operation_multiplexer_fini, gpu_trace_fini *)

SetStop ==
  /\ ~stop
  /\ stop' = TRUE
  /\ owed' = items
  /\ UNCHANGED <<senderVars, items, countVars, notified, rpc, todo, late>>

Notify ==
  /\ stop /\ ~notified
  /\ notified' = TRUE
  /\ Wake
  /\ UNCHANGED <<senderVars, items, countVars, stop, todo, history>>

-----------------------------------------------------------------------------
(* The receiver *)

(* Faulty: when it sees the flag, it is done. *)
TestStop_noFinalApply ==
  /\ rpc = "test"
  /\ rpc' = IF stop THEN "done" ELSE "await"
  /\ UNCHANGED <<senderVars, items, countVars, stopVars, todo, history>>
TestStop ==
  /\ rpc = "test"
  /\ rpc' = IF stop THEN "finalapply" ELSE "await"
  /\ late' = IF stop THEN { s \in Senders : spc[s] = "link" } ELSE late
  /\ UNCHANGED <<senderVars, items, countVars, stopVars, todo, owed>>

(* base_channel_set_await, up to the test of the count. *)
Await ==
  LET left == (uprocessed_count - processed) % Word
  IN  /\ rpc = "await"
      /\ uprocessed_count' = left
      /\ processed' = 0
      /\ rpc' = IF left >= Target THEN "apply" ELSE "lock"
      /\ UNCHANGED <<senderVars, items, stopVars, todo, history>>

(* pthread_mutex_lock and the start of pthread_cond_timedwait.  The senders  *)
(* do not take the mutex, so it does not order them with the receiver.       *)
Wait ==
  /\ rpc = "lock"
  /\ rpc' = "waiting"
  /\ UNCHANGED <<senderVars, items, countVars, stopVars, todo, history>>

(* Faulty: pthread_cond_wait, without a timeout. *)
Timeout_never ==
  /\ rpc = "waiting" /\ FALSE
  /\ rpc' = "apply"
  /\ UNCHANGED <<senderVars, items, countVars, stopVars, todo, history>>
(* The wait times out (or wakes up spuriously). *)
Timeout ==
  /\ rpc = "waiting"
  /\ rpc' = "apply"
  /\ UNCHANGED <<senderVars, items, countVars, stopVars, todo, history>>

(* channel_stack_for_each walks the channels that are on the stack now. *)
Apply ==
  /\ rpc \in {"apply", "finalapply"}
  /\ todo' = channels
  /\ rpc' = IF rpc = "apply" THEN "receive" ELSE "finalreceive"
  /\ UNCHANGED <<senderVars, items, countVars, stopVars, history>>

(* mpsc_queue_dequeue can take the first item of channel ch if that is      *)
(* linked.  It finds nothing when there is none, and also, unless the stub   *)
(* happens to be in between, when the item after the only linked one is not  *)
(* linked yet.                                                               *)
Linked(ch) == IF spc[ch] = "link" THEN items[ch] - 1 ELSE items[ch]
SeemsEmpty(ch) == Linked(ch) = 0 \/ (Linked(ch) = 1 /\ spc[ch] = "link")

(* gpu_operation_channel_receive_all and on_receive_callback: one item, or   *)
(* nothing found and on to the next channel.                                 *)
Receive ==
  /\ rpc \in {"receive", "finalreceive"}
  /\ todo # <<>>
  /\ LET ch == Head(todo)
     IN  \/ /\ Linked(ch) > 0
            /\ items' = [items EXCEPT ![ch] = @ - 1]
            /\ owed' = [owed EXCEPT ![ch] = IF @ > 0 THEN @ - 1 ELSE 0]
            /\ processed' = processed + 1
            /\ UNCHANGED todo
         \/ /\ SeemsEmpty(ch)
            /\ todo' = Tail(todo)
            /\ UNCHANGED <<items, owed, processed>>
  /\ UNCHANGED <<senderVars, uprocessed_count, stopVars, rpc, late>>

EndApply ==
  /\ rpc \in {"receive", "finalreceive"}
  /\ todo = <<>>
  /\ rpc' = IF rpc = "receive" THEN "test" ELSE "done"
  /\ UNCHANGED <<senderVars, items, countVars, stopVars, todo, history>>

-----------------------------------------------------------------------------
Sender(s) == Link(s) \/ OnSend(s) \/ SignalTarget(s)
Receiver == TestStop \/ Await \/ Wait \/ Timeout \/ Apply \/ Receive \/ EndApply

(* The receiver has returned and everybody else has nothing left to do. *)
Finished ==
  /\ rpc = "done" /\ notified
  /\ \A s \in Senders : spc[s] = "ready"
  /\ sent = MaxSends
  /\ UNCHANGED vars

Next ==
  \/ \E s \in Senders : AddChannel(s) \/ Send(s) \/ Sender(s)
  \/ SetStop \/ Notify
  \/ Receiver
  \/ Finished

Spec == Init /\ [][Next]_vars

(* The receiver and a sender inside send run on.  Nobody has to send or stop. *)
FairSpec ==
  /\ Spec
  /\ WF_vars(Receiver)
  /\ \A s \in Senders : WF_vars(Sender(s))
-----------------------------------------------------------------------------

(* When the receiver returns, it has received every item that was in a       *)
(* channel when the stop flag was set, from every sender that was not in the *)
(* middle of an enqueue during the last apply.                               *)
DrainedAtStop == rpc = "done" => \A s \in Senders \ late : owed[s] = 0

(* The same of every sender, which the code does not give: an item sent      *)
(* before the stop stays behind an enqueue that the last apply runs into.    *)
AllDrained == rpc = "done" => \A s \in Senders : owed[s] = 0

(* The signal is sent without the mutex and only when the count hits the     *)
(* target exactly, so it can be lost.  Still every item is received, unless  *)
(* the receiver is told to stop.                                             *)
ItemsReceived == \A s \in Senders : items[s] > 0 ~> items[s] = 0 \/ stop

=============================================================================
