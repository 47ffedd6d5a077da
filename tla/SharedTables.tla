---------------------------- MODULE SharedTables ----------------------------
(***************************************************************************)
(* Tables that the threads of a measured process share with little or no   *)
(* locking, side by side: the channel sets of GPU tracing (TraceDemux),    *)
(* the map of activity channels (ActivityChannels) and the table of lock   *)
(* blame (LockBlame).  Each has its own threads, constants and variables.  *)
(***************************************************************************)
EXTENDS Integers, Sequences, FiniteSets

CONSTANTS PushThreads, streams_per_thread, none,
          IdThreads, BLOCK_SIZE, NUM_BLOCKS, FirstIds, MaxGets, NULL,
          BlameThreads, Mutexes, Events, N, Low, Wrap, Weights, MaxSamples,
          MaxUses

VARIABLES sets, visible, mtx, d_pc, set

demux == <<sets, visible, mtx, d_pc, set>>

Demux == INSTANCE TraceDemux WITH Threads <- PushThreads, pc <- d_pc
-----------------------------------------------------------------------------
VARIABLES next_channel_id, local_channel_id, blocks, made, i_pc, idx, block,
          turn, gets, given

ids == <<next_channel_id, local_channel_id, blocks, made, i_pc, idx, block,
         turn, gets, given>>

Ids == INSTANCE ActivityChannels
  WITH Threads <- IdThreads, pc <- i_pc, i <- turn, nil <- NULL
-----------------------------------------------------------------------------
VARIABLES table, holder, target, b_pc, obj, spc, weight, oldval,
          sampling_is_active, samples, uses, added, dropped, wrapped, accepted,
          ignored

blame == <<table, holder, target, b_pc, obj, spc, weight, oldval,
           sampling_is_active, samples, uses, added, dropped, wrapped, accepted,
           ignored>>

Blame == INSTANCE LockBlame WITH Threads <- BlameThreads, pc <- b_pc
-----------------------------------------------------------------------------
(* gpu-trace-demultiplexer.c: a channel whose push has returned is in        *)
(* exactly one set on the stack, although the counters of the sets are       *)
(* overshot and taken back no set has too many channels, and a set is opened *)
(* only when those before it are full.  That is so even for threads that     *)
(* push at the same time, which the present caller keeps apart.              *)
ChannelsPlaced == Demux!PushedOnce /\ Demux!NoSetOverfull /\ Demux!NewOnlyIfFull

(* concurrent-id-map.h, gpu-activity-channel.c: two threads never share an   *)
(* activity channel, and an id keeps its channel.                            *)
OwnChannel == Ids!OwnChannel

(* blame-map.c: no weight that samples give a lock is lost, doubled or moved *)
(* to another one, whatever samples and unlocks do to its entry at once.     *)
BlameConserved == Blame!BlameConserved
=============================================================================
