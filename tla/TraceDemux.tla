----------------------------- MODULE TraceDemux -----------------------------
(***************************************************************************)
(* gpu_trace_demultiplexer_push (gpu-trace-demultiplexer.c): every trace   *)
(* channel goes into a channel set with room for it.  All threads try the  *)
(* newest set; when that is full, one of them creates the next set, and a  *)
(* tracing thread for it, under a mutex.                                   *)
(*                                                                         *)
(* Every thread pushes one channel, which is named after the thread.       *)
(*                                                                         *)
(* The module models the demultiplexer by itself, with threads that push   *)
(* at the same time, which is what its mutex and its counters are for.     *)
(* The one caller there is at present, gpu_trace_process_stream, holds a   *)
(* global lock around the push (gpu-trace-api.c:445), so that the threads  *)
(* of today's program take turns: the behaviours without contention.       *)
(***************************************************************************)
EXTENDS Integers, Sequences, FiniteSets

CONSTANTS Threads,
          streams_per_thread,   \* room in a channel set
          none

VARIABLES sets,      \* the channel sets created: counter and channels of each
          visible,   \* how many of them are on the stack; the last is the top
          mtx,       \* who holds the mutex
          pc,
          set        \* local variable channel_set of each thread

vars == <<sets, visible, mtx, pc, set>>

Empty == [channels_size |-> 0, channels |-> {}]

(* demux_init has pushed the first set. *)
Init ==
  /\ sets = <<Empty>>
  /\ visible = 1
  /\ mtx = none
  /\ pc = [t \in Threads |-> "top"]
  /\ set = [t \in Threads |-> 1]

Goto(t, l) == pc' = [pc EXCEPT ![t] = l]

(* channel_set_stack_top, before and after the mutex is taken *)
Top(t) ==
  /\ pc[t] \in {"top", "locked"}
  /\ set' = [set EXCEPT ![t] = visible]
  /\ Goto(t, IF pc[t] = "top" THEN "add" ELSE "addlocked")
  /\ UNCHANGED <<sets, visible, mtx>>

HasRoom(k) == sets[k].channels_size < streams_per_thread

(* base_channel_set_add: the counter goes up in any case ... *)
Reserve(t) ==
  /\ pc[t] \in {"add", "addlocked"}
  /\ sets' = [sets EXCEPT ![set[t]].channels_size = @ + 1]
  /\ Goto(t, IF HasRoom(set[t])
             THEN IF pc[t] = "add" THEN "push" ELSE "pushlocked"
             ELSE IF pc[t] = "add" THEN "reverse" ELSE "reverselocked")
  /\ UNCHANGED <<visible, mtx, set>>

(* ... and down again when the set was full. *)
Reverse(t) ==
  /\ pc[t] \in {"reverse", "reverselocked"}
  /\ sets' = [sets EXCEPT ![set[t]].channels_size = @ - 1]
  /\ Goto(t, IF pc[t] = "reverse" THEN "lock" ELSE "create")
  /\ UNCHANGED <<visible, mtx, set>>

(* gpu_trace_channel_set_add, once there is room: push the channel. *)
Push(t) ==
  /\ pc[t] \in {"push", "pushlocked", "pushnew"}
  /\ sets' = [sets EXCEPT ![set[t]].channels = @ \cup {t}]
  /\ Goto(t, IF pc[t] = "push" THEN "done"
             ELSE IF pc[t] = "pushlocked" THEN "unlock" ELSE "publish")
  /\ UNCHANGED <<visible, mtx, set>>

Lock(t) ==
  /\ pc[t] = "lock" /\ mtx = none
  /\ mtx' = t
  /\ Goto(t, "locked")
  /\ UNCHANGED <<sets, visible, set>>

(* gpu_trace_channel_set_create, and the reservation that "cannot fail" *)
Create(t) ==
  /\ pc[t] = "create"
  /\ sets' = Append(sets, [Empty EXCEPT !.channels_size = 1])
  /\ set' = [set EXCEPT ![t] = Len(sets) + 1]
  /\ Goto(t, "pushnew")
  /\ UNCHANGED <<visible, mtx>>

(* Faulty: the new set is not made visible. *)
Publish_not(t) ==
  /\ pc[t] = "publish"
  /\ Goto(t, "unlock")
  /\ UNCHANGED <<sets, visible, mtx, set>>
(* channel_set_stack_push *)
Publish(t) ==
  /\ pc[t] = "publish"
  /\ visible' = set[t]
  /\ Goto(t, "unlock")
  /\ UNCHANGED <<sets, mtx, set>>

Unlock(t) ==
  /\ pc[t] = "unlock"
  /\ mtx' = none
  /\ Goto(t, "done")
  /\ UNCHANGED <<sets, visible, set>>

Step(t) == Top(t) \/ Reserve(t) \/ Reverse(t) \/ Push(t) \/ Lock(t)
           \/ Create(t) \/ Publish(t) \/ Unlock(t)

Pushed == {t \in Threads : pc[t] = "done"}
AllPushed == Pushed = Threads /\ UNCHANGED vars

Next == (\E t \in Threads : Step(t)) \/ AllPushed

Spec == Init /\ [][Next]_vars
-----------------------------------------------------------------------------

(* However many threads overshoot a counter and take it back, no tracing     *)
(* thread gets more than its streams_per_thread channels.                    *)
NoSetOverfull ==
  \A k \in DOMAIN sets : Cardinality(sets[k].channels) <= streams_per_thread

(* "Use mutex to ensure that exactly one new channel set is created": a      *)
(* tracing thread is created only when all the sets before are full, room    *)
(* taken by a thread that has yet to push included.                          *)
NewOnlyIfFull ==
  \A k \in DOMAIN sets : k < Len(sets) =>
    LET coming == {t \in Threads : set[t] = k /\ pc[t] \in {"push", "pushlocked", "pushnew"}}
    IN  Cardinality(sets[k].channels \cup coming) = streams_per_thread

(* A channel whose push has returned is in exactly one set, and its tracing  *)
(* thread can be notified: the set is on the stack.                          *)
PushedOnce ==
  \A t \in Pushed :
    \E k \in 1 .. visible : \A j \in DOMAIN sets : t \in sets[j].channels <=> j = k

=============================================================================
