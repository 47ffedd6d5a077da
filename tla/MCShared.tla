----------------------------- MODULE MCShared -------------------------------
(***************************************************************************)
(* What the threads of a measured process share: the MCS lock (MCSLock)    *)
(* and the tables of SharedTables, both of which this module extends, and  *)
(* the skip list and the unwind recipes kept in one.  They are independent *)
(* here, so a behaviour runs one of them, chosen at the start.  The lock   *)
(* and the tables stay in an initial state in the others, and the          *)
(* variables of the list and the recipes are 0 unless they run: there are  *)
(* as many states as the components have together, not their product.      *)
(***************************************************************************)
EXTENDS MCSLock, SharedTables, TLC

CONSTANTS t1, t2, t3, lsent, rsent

(* Load modules [start, end) with the function starts of their tables: A and *)
(* B can be mapped together, C where both were.  D leaves one address next   *)
(* to A and none next to B.                                                  *)
A == [lm |-> "A", start |-> 2, end |-> 4, table |-> {2, 3, 4}]
B == [lm |-> "B", start |-> 6, end |-> 8, table |-> {6, 8}]
C == [lm |-> "C", start |-> 3, end |-> 7, table |-> {3, 5, 7}]
D == [lm |-> "D", start |-> 5, end |-> 6, table |-> {5, 6}]

(* Threads of the skip list: one deletes, the others insert and find. *)
Calls == (t1 :> {"delete"}) @@ (t2 :> {"insert"}) @@ (t3 :> {"insert", "find"})

VARIABLES running     \* the component that this behaviour runs

-----------------------------------------------------------------------------
VARIABLES val, height, s_next, fully_linked, node_lock, readers, writer,
          lf_cskl_nodes, GF_cskl_nodes, unmade, s_pc, op, lo, hi, new_node,
          s_pred, layer, preds, succs, node, highestLocked, s_first, ops,
          members, sure

skip == <<val, height, s_next, fully_linked, node_lock, readers, writer,
          lf_cskl_nodes, GF_cskl_nodes, unmade, s_pc, op, lo, hi, new_node,
          s_pred, layer, preds, succs, node, highestLocked, s_first, ops,
          members, sure>>

Skip == INSTANCE CSkipList
  WITH Threads <- {t1, t2, t3}, Nodes <- 1 .. 5, Keys <- {1, 2},
       left <- lsent, right <- rsent, max_height <- 2, NUM_NODES <- 1,
       MaxOps <- 1, next <- s_next, pc <- s_pc, pred <- s_pred,
       first <- s_first
-----------------------------------------------------------------------------
VARIABLES interval, upper, mapped, uw_hash, r_pc, addr, ilm_btui, freed,
          loading, module, start, end, cramped

recipe == <<interval, upper, mapped, uw_hash, r_pc, addr, ilm_btui, freed,
            loading, module, start, end, cramped>>

Recipe == INSTANCE RecipeMap
  WITH Threads <- {t1, t2}, loader <- t1, UINTPTR_MAX <- 11,
       Modules <- {A, B, C, D}, HashSize <- 1, Sampled <- {3, 9},
       MapCramped <- FALSE, pc <- r_pc
-----------------------------------------------------------------------------
suite == <<running, vars, demux, ids, blame, skip, recipe>>

(* The variables of the list and of the recipes when they do not run. *)
NoSkip ==
  /\ val = 0 /\ height = 0 /\ s_next = 0 /\ fully_linked = 0
  /\ node_lock = 0 /\ readers = 0 /\ writer = 0 /\ lf_cskl_nodes = 0
  /\ GF_cskl_nodes = 0 /\ unmade = 0 /\ s_pc = 0 /\ op = 0 /\ lo = 0
  /\ hi = 0 /\ new_node = 0 /\ s_pred = 0 /\ layer = 0 /\ preds = 0
  /\ succs = 0 /\ node = 0 /\ highestLocked = 0 /\ s_first = 0 /\ ops = 0
  /\ members = 0 /\ sure = 0
NoRecipe ==
  /\ interval = 0 /\ upper = 0 /\ mapped = 0 /\ uw_hash = 0 /\ r_pc = 0
  /\ addr = 0 /\ ilm_btui = 0 /\ loading = 0 /\ module = 0 /\ start = 0
  /\ end = 0 /\ freed = 0 /\ cramped = 0

(* What varies between the initial states of a component does so only when   *)
(* it runs.                                                                  *)
SuiteInit ==
  /\ running \in {"lock", "demux", "ids", "blame", "skip", "recipe"}
  /\ Init /\ Demux!Init /\ Ids!Init /\ Blame!Init
  /\ running = "lock" \/ \A t \in Threads : next[t] = nil /\ ~blocked[t]
  /\ running = "ids" \/ \A n \in FirstIds : next_channel_id <= n
  /\ IF running = "skip" THEN Skip!Init ELSE NoSkip
  /\ IF running = "recipe" THEN Recipe!Init ELSE NoRecipe

Runs(x) == running = x /\ UNCHANGED running

SuiteNext ==
  \/ Runs("lock") /\ Next /\ UNCHANGED <<demux, ids, blame, skip, recipe>>
  \/ Runs("demux") /\ Demux!Next /\ UNCHANGED <<vars, ids, blame, skip, recipe>>
  \/ Runs("ids") /\ Ids!Next /\ UNCHANGED <<vars, demux, blame, skip, recipe>>
  \/ Runs("blame") /\ Blame!Next /\ UNCHANGED <<vars, demux, ids, skip, recipe>>
  \/ Runs("skip") /\ Skip!Next /\ UNCHANGED <<vars, demux, ids, blame, recipe>>
  \/ Runs("recipe") /\ Recipe!Next /\ UNCHANGED <<vars, demux, ids, blame, skip>>

SuiteSpec == SuiteInit /\ [][SuiteNext]_suite
-----------------------------------------------------------------------------
(* cskiplist.c: a node that a thread stands on, or that the list can be      *)
(* walked to, has not been freed, and the layers stay sorted and nested.     *)
ListSound == running = "skip" => Skip!NoneFreed /\ Skip!LayersSorted

(* cskiplist.c: a find whose key is in the list from its start returns the   *)
(* node of that key, and the node an insert returns is in the list.          *)
Linearizable == running = "skip" => Skip!Linearizable

(* uw_recipe_map.c: an address is poisoned exactly if no mapped module has   *)
(* it.                                                                       *)
PoisonExact == running = "recipe" => Recipe!PoisonExact

(* uw_recipe_map.c: one thread at most builds the recipes of a function.     *)
OneBuilder == running = "recipe" => Recipe!OneBuilder
=============================================================================
