---------------------------- MODULE GPUStreams ------------------------------
(***************************************************************************)
(* The channel sets and the trace streams of GPU measurement side by side, *)
(* each an instance of its module with variables of its own, and what both *)
(* promise at the end of the process.                                      *)
(***************************************************************************)
EXTENDS Integers, Sequences

CONSTANTS Senders, MaxSends, Target, Word,                 \* of ChannelSet
          Streams, streams_per_thread, MaxItems, nobody    \* of GPUTrace

VARIABLES c_channels, items, sent, spc, uprocessed_count, processed, c_stop,
          notified, c_rpc, c_todo, owed, late

channelSet == <<c_channels, items, sent, spc, uprocessed_count, processed,
                c_stop, notified, c_rpc, c_todo, owed, late>>

Set == INSTANCE ChannelSet
  WITH channels <- c_channels, stop <- c_stop, rpc <- c_rpc, todo <- c_todo
-----------------------------------------------------------------------------
VARIABLES t_lock, t_spc, calls, to, known, active, sets, t_queue, linking,
          closed, t_stop, fpc, t_rpc, t_todo

trace == <<t_lock, t_spc, calls, to, known, active, sets, t_queue, linking,
           closed, t_stop, fpc, t_rpc, t_todo>>

Trace == INSTANCE GPUTrace
  WITH none <- nobody, lock <- t_lock, spc <- t_spc, queue <- t_queue,
       stop <- t_stop, rpc <- t_rpc, todo <- t_todo
-----------------------------------------------------------------------------
(* base-channel-set.c, gpu-trace-api.c: nothing is lost at the end.  When a  *)
(* receiver returns, it has received every item that was in a channel when   *)
(* the stop flag was set, from every sender that was not in the middle of an *)
(* enqueue during the last apply; and a trace file is closed with all of its *)
(* stream, because its senders are gone by then.                             *)
NothingLost == Set!DrainedAtStop /\ Trace!ClosedIsComplete
=============================================================================
