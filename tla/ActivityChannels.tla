-------------------------- MODULE ActivityChannels --------------------------
(***************************************************************************)
(* The activity channels of hpcrun (gpu/activity/gpu-activity-channel.c)   *)
(* and the concurrent map they are kept in (common/lean/collections/       *)
(* concurrent-id-map.h).  A thread draws its channel id once; from then on *)
(* its channel is the map's entry for that id, which monitoring threads    *)
(* look up by the id in a correlation id.  The map has one block of        *)
(* entries from the start; the others are allocated by whoever needs them  *)
(* first, without a lock, and a thread that comes too late puts its block  *)
(* into the next slot that is empty.                                       *)
(***************************************************************************)
EXTENDS Integers, FiniteSets

CONSTANTS Threads,
          BLOCK_SIZE, NUM_BLOCKS,
          FirstIds,             \* ids drawn before this part of the run
          MaxGets,              \* bound: calls of ch_map_get
          nil

VARIABLES next_channel_id, local_channel_id,
          blocks,               \* slot -> block, or nil
          made,                 \* blocks allocated; block0 is block 0
          pc, idx, block, i,    \* locals of ch_map_get
          gets,                 \* bound: calls begun
          given                 \* history: id -> the entries returned for it

ids == <<next_channel_id, local_channel_id>>
locals == <<idx, block, i>>
vars == <<ids, blocks, made, pc, locals, gets, given>>

AllIds == 0 .. (CHOOSE n \in FirstIds : \A m \in FirstIds : m <= n) + Cardinality(Threads)
block_idx(n) == (n - BLOCK_SIZE) \div BLOCK_SIZE

Init ==
  /\ next_channel_id \in FirstIds
  /\ local_channel_id = [t \in Threads |-> 0]
  /\ blocks = [s \in 0 .. NUM_BLOCKS - 1 |-> nil]
  /\ made = 0
  /\ pc = [t \in Threads |-> "idle"]
  /\ idx = [t \in Threads |-> 0]
  /\ block = [t \in Threads |-> 0]
  /\ i = [t \in Threads |-> 0]
  /\ gets = 0
  /\ given = [n \in AllIds |-> {}]

(* gpu_activity_channel_get_local *)
GetLocal(t) ==
  LET new == local_channel_id[t] = 0
  IN  /\ pc[t] = "idle" /\ gets < MaxGets
      /\ gets' = gets + 1
      /\ next_channel_id' = IF new THEN next_channel_id + 1 ELSE next_channel_id
      /\ local_channel_id' = [local_channel_id EXCEPT ![t] = IF new THEN next_channel_id ELSE @]
      /\ idx' = [idx EXCEPT ![t] = local_channel_id'[t]]
      /\ pc' = [pc EXCEPT ![t] = "get"]
      /\ UNCHANGED <<blocks, made, block, i, given>>

(* gpu_activity_channel_lookup, with an id some thread has drawn. *)
Lookup(t) ==
  /\ pc[t] = "idle" /\ gets < MaxGets
  /\ \E u \in Threads \ {t} :
       /\ local_channel_id[u] # 0
       /\ idx' = [idx EXCEPT ![t] = local_channel_id[u]]
  /\ gets' = gets + 1
  /\ pc' = [pc EXCEPT ![t] = "get"]
  /\ UNCHANGED <<ids, blocks, made, block, i, given>>

(* ch_map_get returns entry e. *)
Give(t, e) ==
  /\ given' = [given EXCEPT ![idx[t]] = @ \cup {e}]
  /\ pc' = [pc EXCEPT ![t] = "idle"]
  /\ idx' = [idx EXCEPT ![t] = 0]
  /\ block' = [block EXCEPT ![t] = 0]
  /\ i' = [i EXCEPT ![t] = 0]

(* The entry of an id in a block that is there, NULL past the last block, or  *)
(* a new block, initialized before any other thread sees it.                  *)
Get(t) ==
  LET n == idx[t]
      blk == blocks[block_idx(n)]
  IN  /\ pc[t] = "get"
      /\ IF n < BLOCK_SIZE THEN Give(t, <<0, n>>) /\ UNCHANGED made
         ELSE IF block_idx(n) >= NUM_BLOCKS THEN Give(t, nil) /\ UNCHANGED made
         ELSE IF blk # nil THEN Give(t, <<blk, n % BLOCK_SIZE>>) /\ UNCHANGED made
         ELSE /\ made' = made + 1
              /\ block' = [block EXCEPT ![t] = made']
              /\ pc' = [pc EXCEPT ![t] = "install"]
              /\ UNCHANGED <<given, idx, i>>
      /\ UNCHANGED <<ids, blocks, gets>>

(* One turn of the loop that tries to set the new block. *)
Install(t) ==
  LET s == (block_idx(idx[t]) + i[t]) % NUM_BLOCKS
  IN  /\ pc[t] = "install"
      /\ blocks' = IF blocks[s] = nil THEN [blocks EXCEPT ![s] = block[t]] ELSE blocks
      /\ i' = [i EXCEPT ![t] = @ + 1]
      /\ IF blocks[s] = nil \/ i'[t] = NUM_BLOCKS THEN pc' = [pc EXCEPT ![t] = "load"]
         ELSE UNCHANGED pc
      /\ UNCHANGED <<ids, made, idx, block, gets, given>>

(* Faulty: the entry is taken from the thread's own block. *)
Load_own(t) ==
  /\ pc[t] = "load"
  /\ Give(t, <<block[t], idx[t] % BLOCK_SIZE>>)
  /\ UNCHANGED <<ids, blocks, made, gets>>
(* Whoever was first: the block that is in the slot by now. *)
Load(t) ==
  /\ pc[t] = "load"
  /\ Give(t, <<blocks[block_idx(idx[t])], idx[t] % BLOCK_SIZE>>)
  /\ UNCHANGED <<ids, blocks, made, gets>>

Done ==
  /\ gets = MaxGets /\ \A t \in Threads : pc[t] = "idle"
  /\ UNCHANGED vars

Next == Done \/ \E t \in Threads : GetLocal(t) \/ Lookup(t) \/ Get(t) \/ Install(t) \/ Load(t)

Spec == Init /\ [][Next]_vars

-----------------------------------------------------------------------------
(* A channel belongs to its thread for good: everyone who ever asks for an id *)
(* gets the same entry (concurrent-id-map.h:149), no two ids share one, which *)
(* is the danger in putting a losing block into another slot (line 136), and  *)
(* there is none only for an id past the last block.                          *)
OwnChannel ==
  \A n \in AllIds :
    /\ Cardinality(given[n]) <= 1
    /\ \A e \in given[n] : /\ e = nil <=> n >= BLOCK_SIZE * (NUM_BLOCKS + 1)
                           /\ e # nil => e[1] # nil
    /\ \A m \in AllIds \ {n} : given[n] \cap given[m] \subseteq {nil}

=============================================================================
