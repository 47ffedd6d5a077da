----------------------------- MODULE CSkipList -----------------------------
(***************************************************************************)
(* The concurrent skip list (common/lean/cskiplist.c) behind hpcrun's map  *)
(* from addresses to unwind recipes.  Samples of different threads search  *)
(* it and insert into it at the same time, holding the phase-fair lock of  *)
(* module PFQRWLock for reading; the thread that maps or unmaps a load     *)
(* module deletes ranges of it, holding that lock for writing.  An insert  *)
(* searches without any node's lock, then locks its predecessors from the  *)
(* bottom layer up, checks that they still point where they did, and links *)
(* the node from the bottom layer up.                                      *)
(*                                                                         *)
(* One step is one read of a next pointer, one lock, or one write another  *)
(* thread can see.  The two locks are taken in one step each: modules      *)
(* PFQRWLock and MCSLock are about what they promise.  The nodes' values   *)
(* are kept as the keys `compare' orders them by.  `marked' is left out:   *)
(* only cskl_delete sets it, and nothing calls cskl_delete.                *)
(***************************************************************************)
EXTENDS Integers, FiniteSets

CONSTANTS Threads, left, right, none,
          Nodes, Keys,          \* integers
          max_height,
          NUM_NODES,            \* nodes moved or made when a free list runs out
          Calls,                \* for each thread the operations it may call
          MaxOps                \* bound: operations of one thread

Layers == 0 .. max_height - 1
NO_LAYER == -1

VARIABLES val,                  \* the key of each node
          height,
          next,                 \* nexts[layer] of each node
          fully_linked,
          node_lock,            \* holder of each node's MCS lock
          readers, writer,      \* holders of the list's lock
          lf_cskl_nodes,        \* free nodes of each thread
          GF_cskl_nodes,        \* free nodes of all
          unmade,               \* bound: nodes m_alloc has not handed out
          pc, op, lo, hi,       \* the call each thread is in
          new_node, pred, layer, preds, succs, node, highestLocked,  \* its locals
          first,                \* nodes a deletion has still to free
          ops,                  \* bound: operations begun
          members,              \* history: keys in the list
          sure                  \* history: the key sought, or the node returned,
                                \* has been in the list throughout

list == <<val, height, next, fully_linked>>
locks == <<node_lock, readers, writer>>
free == <<lf_cskl_nodes, GF_cskl_nodes, unmade>>
call == <<op, lo, hi, ops>>
search == <<pred, layer, preds, succs>>
history == <<members, sure>>
vars == <<list, locks, free, pc, call, new_node, search, node, highestLocked,
          first, history>>

Key(n) ==
  CASE n = left -> (CHOOSE k \in Keys : \A j \in Keys : k <= j) - 1
    [] n = right -> (CHOOSE k \in Keys : \A j \in Keys : k >= j) + 1
    [] OTHER -> val[n]

(* The nodes that can be walked to at layer l. *)
Reach(l) ==
  LET walk[i \in 0 .. Cardinality(Nodes) + 1] ==
        IF i = 0 THEN {left}
        ELSE LET w == walk[i - 1] IN w \cup { next[n][l] : n \in w \ {right} }
  IN  walk[Cardinality(Nodes) + 1]

(* A list that earlier inserts have left, the node of key k being node k:     *)
(* after cskl_new there are only the sentinels.                               *)
Init ==
  /\ \E present \in SUBSET Keys, level \in [Keys -> 1 .. max_height] :
       LET on(l) == { k \in present : level[k] > l }
           following(n, l) ==
             { k \in on(l) : n = left \/ (n \in on(l) /\ n < k) }
       IN  /\ \A k \in Keys \ present : level[k] = 1
           /\ val = [n \in Nodes |-> IF n \in present THEN n ELSE 0]
           /\ height = [n \in Nodes |-> IF n \in present THEN level[n] ELSE 1]
           /\ next = [n \in Nodes \cup {left} |-> [l \in Layers |->
                        IF following(n, l) = {} THEN right
                        ELSE CHOOSE k \in following(n, l) : \A j \in following(n, l) : k <= j]]
           /\ fully_linked = [n \in Nodes |-> n \in present]
           /\ unmade = Nodes \ present
           /\ members = present
  /\ node_lock = [n \in Nodes \cup {left} |-> none]
  /\ readers = {} /\ writer = none
  /\ lf_cskl_nodes = [t \in Threads |-> {}]
  /\ GF_cskl_nodes = {}
  /\ pc = [t \in Threads |-> "idle"]
  /\ op = [t \in Threads |-> "find"]
  /\ lo = [t \in Threads |-> 0]
  /\ hi = [t \in Threads |-> 0]
  /\ new_node = [t \in Threads |-> none]
  /\ pred = [t \in Threads |-> left]
  /\ layer = [t \in Threads |-> 0]
  /\ preds = [t \in Threads |-> [l \in Layers |-> left]]
  /\ succs = [t \in Threads |-> [l \in Layers |-> left]]
  /\ node = [t \in Threads |-> none]
  /\ highestLocked = [t \in Threads |-> NO_LAYER]
  /\ first = [t \in Threads |-> {}]
  /\ ops = [t \in Threads |-> 0]
  /\ sure = [t \in Threads |-> FALSE]

Goto(t, place) == pc' = [pc EXCEPT ![t] = place]

(* bound: an insert is begun only when there is memory for its node, as there *)
(* always is for the program.                                                 *)
Memory(t) == Cardinality(unmade) >= NUM_NODES * Cardinality({ u \in Threads : pc[u] = "malloc" } \cup {t})

Start(t) ==
  /\ pc[t] = "idle" /\ ops[t] < MaxOps
  /\ ops' = [ops EXCEPT ![t] = @ + 1]
  /\ \E o \in Calls[t], a, b \in Keys :
       /\ IF o = "delete" THEN a <= b ELSE a = b
       /\ o = "insert" => Memory(t)
       /\ op' = [op EXCEPT ![t] = o]
       /\ lo' = [lo EXCEPT ![t] = a]
       /\ hi' = [hi EXCEPT ![t] = b]
       /\ Goto(t, CASE o = "insert" -> "malloc" [] o = "find" -> "read_lock"
                    [] o = "delete" -> "write_lock")
  /\ UNCHANGED <<list, locks, free, new_node, search, node, highestLocked, first, history>>

-----------------------------------------------------------------------------
(* csklnode_malloc: a node of the thread's own list, which is filled from the *)
(* global one, or with new nodes when that is empty or busy.                  *)
Take(t, mine) ==
  \E n \in mine :
    /\ lf_cskl_nodes' = [lf_cskl_nodes EXCEPT ![t] = mine \ {n}]
    /\ new_node' = [new_node EXCEPT ![t] = n]
    /\ val' = [val EXCEPT ![n] = lo[t]]

csklnode_malloc(t) ==
  /\ pc[t] = "malloc"
  /\ \/ /\ lf_cskl_nodes[t] # {}
        /\ Take(t, lf_cskl_nodes[t])
        /\ UNCHANGED <<height, GF_cskl_nodes, unmade>>
     \/ /\ lf_cskl_nodes[t] = {} /\ GF_cskl_nodes # {}
        /\ \E moved \in SUBSET GF_cskl_nodes :
             /\ Cardinality(moved) = IF Cardinality(GF_cskl_nodes) < NUM_NODES
                                     THEN Cardinality(GF_cskl_nodes) ELSE NUM_NODES
             /\ GF_cskl_nodes' = GF_cskl_nodes \ moved
             /\ Take(t, moved)
        /\ UNCHANGED <<height, unmade>>
     \/ /\ lf_cskl_nodes[t] = {}
        /\ GF_cskl_nodes = {} \/ \E u \in Threads \ {t} : pc[u] \in {"malloc", "free"}
        /\ LET made == CHOOSE m \in SUBSET unmade : Cardinality(m) = NUM_NODES
           IN  /\ unmade' = unmade \ made
               /\ Take(t, made)
               /\ \E level \in [made -> 1 .. max_height] :
                    height' = [n \in Nodes |-> IF n \in made THEN level[n] ELSE height[n]]
        /\ UNCHANGED GF_cskl_nodes
  /\ Goto(t, "read_lock")
  /\ UNCHANGED <<next, fully_linked, locks, call, search, node, highestLocked,
                 first, history>>

-----------------------------------------------------------------------------
(* Faulty: a reader does not wait for the writer. *)
ReadLock_open(t) ==
  /\ pc[t] = "read_lock"
  /\ readers' = readers \cup {t}
  /\ pred' = [pred EXCEPT ![t] = left]
  /\ layer' = [layer EXCEPT ![t] = max_height - 1]
  /\ node' = [node EXCEPT ![t] = none]
  /\ sure' = [sure EXCEPT ![t] = lo[t] \in members]
  /\ Goto(t, "walk")
  /\ UNCHANGED <<list, node_lock, writer, free, call, new_node, preds, succs,
                 highestLocked, first, members>>
ReadLock(t) ==
  /\ pc[t] = "read_lock" /\ writer = none
  /\ readers' = readers \cup {t}
  /\ pred' = [pred EXCEPT ![t] = left]
  /\ layer' = [layer EXCEPT ![t] = max_height - 1]
  /\ node' = [node EXCEPT ![t] = none]
  /\ sure' = [sure EXCEPT ![t] = lo[t] \in members]
  /\ Goto(t, "walk")
  /\ UNCHANGED <<list, node_lock, writer, free, call, new_node, preds, succs,
                 highestLocked, first, members>>

(* Where a search that has seen all the layers it wants leads. *)
Searched(t, found) ==
  CASE op[t] = "find" -> "result"
    [] op[t] = "insert" -> IF found # none THEN "wait" ELSE "lock"

(* cskiplist_find_helper, one next pointer at a time.  A find ends at the     *)
(* first layer that has the key, an insert goes on to the bottom layer and    *)
(* remembers the first match.                                                 *)
Walk(t) ==
  LET l == layer[t]
      current == next[pred[t]][l]
      found == IF node[t] = none /\ Key(current) = lo[t] THEN current ELSE node[t]
      over == l = 0 \/ (op[t] = "find" /\ found # none)
  IN  /\ pc[t] = "walk"
      /\ IF Key(current) < lo[t]
         THEN /\ pred' = [pred EXCEPT ![t] = current]
              /\ UNCHANGED <<layer, preds, succs, node, pc>>
         ELSE /\ preds' = [preds EXCEPT ![t][l] = pred[t]]
              /\ succs' = [succs EXCEPT ![t][l] = current]
              /\ node' = [node EXCEPT ![t] = found]
              /\ layer' = [layer EXCEPT ![t] = IF over THEN 0 ELSE l - 1]
              /\ IF over THEN Goto(t, Searched(t, found)) ELSE UNCHANGED pc
              /\ UNCHANGED pred
      /\ UNCHANGED <<list, locks, free, call, new_node, highestLocked, first, history>>

(* cskiplist_find: a node that is not fully linked is not there yet. *)
Result(t) ==
  /\ pc[t] = "result"
  /\ node' = [node EXCEPT ![t] = IF @ # none /\ fully_linked[@] THEN @ ELSE none]
  /\ Goto(t, "read_unlock")
  /\ UNCHANGED <<list, locks, free, call, new_node, search, highestLocked, first, history>>

-----------------------------------------------------------------------------
(* Faulty: the other thread's node is used before it is fully linked. *)
WaitLinked_not(t) ==
  /\ pc[t] = "wait"
  /\ lf_cskl_nodes' = [lf_cskl_nodes EXCEPT ![t] = (@ \cup {new_node[t]}) \ {none}]
  /\ new_node' = [new_node EXCEPT ![t] = none]
  /\ Goto(t, "read_unlock")
  /\ UNCHANGED <<list, locks, GF_cskl_nodes, unmade, call, search, node, highestLocked,
                 first, history>>
(* The key is there: the thread keeps its own node for later, and spins until *)
(* the thread that is inserting the other one has linked it.                  *)
WaitLinked(t) ==
  /\ pc[t] = "wait"
  /\ fully_linked[node[t]] \/ new_node[t] # none
  /\ lf_cskl_nodes' = [lf_cskl_nodes EXCEPT ![t] = (@ \cup {new_node[t]}) \ {none}]
  /\ new_node' = [new_node EXCEPT ![t] = none]
  /\ IF fully_linked[node[t]] THEN Goto(t, "read_unlock") ELSE UNCHANGED pc
  /\ UNCHANGED <<list, locks, GF_cskl_nodes, unmade, call, search, node, highestLocked,
                 first, history>>

(* Whether layer l still needs a lock: the node below has the same           *)
(* predecessor when it is tall.                                               *)
NewPred(t, l) == l = 0 \/ preds[t][l] # preds[t][l - 1]

Valid(t, l) == next[preds[t][l]][l] = succs[t][l]

(* One layer of the locking loop: lock the predecessor, and stop if it has    *)
(* another successor by now.                                                  *)
Lock(t) ==
  LET l == layer[t]
      p == preds[t][l]
  IN  /\ pc[t] = "lock"
      /\ IF NewPred(t, l)
         THEN /\ node_lock[p] = none
              /\ node_lock' = [node_lock EXCEPT ![p] = t]
              /\ highestLocked' = [highestLocked EXCEPT ![t] = l]
         ELSE UNCHANGED <<node_lock, highestLocked>>
      /\ IF Valid(t, l) /\ l < height[new_node[t]] - 1
         THEN layer' = [layer EXCEPT ![t] = l + 1] /\ UNCHANGED pc
         ELSE /\ layer' = [layer EXCEPT ![t] = 0]
              /\ Goto(t, IF Valid(t, l) THEN "link" ELSE "unlock_preds")
      /\ UNCHANGED <<list, readers, writer, free, call, new_node, pred, preds, succs, node,
                     first, history>>

LinkLayer(t) == layer[t]

Link(t) ==
  LET l == LinkLayer(t)
      n == new_node[t]
      top == layer[t] = height[n] - 1
  IN  /\ pc[t] = "link"
      /\ next' = [next EXCEPT ![n][l] = succs[t][l], ![preds[t][l]][l] = n]
      /\ layer' = [layer EXCEPT ![t] = IF top THEN 0 ELSE @ + 1]
      /\ IF top THEN Goto(t, "publish") ELSE UNCHANGED pc
      /\ UNCHANGED <<val, height, fully_linked, locks, free, call, new_node, pred, preds,
                     succs, node, highestLocked, first, history>>

Publish(t) ==
  /\ pc[t] = "publish"
  /\ fully_linked' = [fully_linked EXCEPT ![new_node[t]] = TRUE]
  /\ node' = [node EXCEPT ![t] = new_node[t]]
  /\ new_node' = [new_node EXCEPT ![t] = none]
  /\ members' = members \cup {lo[t]}
  /\ Goto(t, "unlock_preds")
  /\ UNCHANGED <<val, height, next, locks, free, call, search, highestLocked, first, sure>>

(* unlock_preds, one layer at a time up to the last one that took a lock. *)
UnlockPreds(t) ==
  LET l == layer[t]
  IN  /\ pc[t] = "unlock_preds"
      /\ IF NewPred(t, l)
         THEN node_lock' = [node_lock EXCEPT ![preds[t][l]] = none]
         ELSE UNCHANGED node_lock
      /\ layer' = [layer EXCEPT ![t] = IF l < highestLocked[t] THEN l + 1 ELSE 0]
      /\ IF l < highestLocked[t] THEN UNCHANGED pc ELSE Goto(t, "read_unlock")
      /\ highestLocked' = [highestLocked EXCEPT ![t] = IF l < @ THEN @ ELSE NO_LAYER]
      /\ UNCHANGED <<list, readers, writer, free, call, new_node, pred, preds, succs, node,
                     first, history>>

Return(t) ==
  /\ Goto(t, "idle")
  /\ op' = [op EXCEPT ![t] = "find"]
  /\ lo' = [lo EXCEPT ![t] = 0] /\ hi' = [hi EXCEPT ![t] = 0]

(* The end of cskiplist_find, and of one turn of cskl_insert's loop: without a *)
(* node the insert begins again.                                              *)
ReadUnlock(t) ==
  /\ pc[t] = "read_unlock"
  /\ readers' = readers \ {t}
  /\ pred' = [pred EXCEPT ![t] = left]
  /\ preds' = [preds EXCEPT ![t] = [l \in Layers |-> left]]
  /\ succs' = [succs EXCEPT ![t] = [l \in Layers |-> left]]
  /\ sure' = [sure EXCEPT ![t] = node[t] # none]
  /\ IF node[t] = none /\ op[t] = "find" THEN Return(t)
     ELSE /\ Goto(t, IF node[t] = none THEN "read_lock" ELSE "value")
          /\ UNCHANGED <<op, lo, hi>>
  /\ UNCHANGED <<list, node_lock, writer, free, ops, new_node, layer, node,
                 highestLocked, first, members>>

(* The value of the node: cskl_cmp_find, cskl_inrange_find and the callers of *)
(* cskl_insert read it when the lock has been given up.                       *)
ReadValue(t) ==
  /\ pc[t] = "value"
  /\ node' = [node EXCEPT ![t] = none]
  /\ sure' = [sure EXCEPT ![t] = FALSE]
  /\ Return(t)
  /\ UNCHANGED <<list, locks, free, ops, new_node, search, highestLocked, first, members>>

-----------------------------------------------------------------------------
(* cskl_del_bulk_unsynch *)

WriteLock(t) ==
  /\ pc[t] = "write_lock" /\ writer = none /\ readers = {}
  /\ writer' = t
  /\ Goto(t, "splice")
  /\ UNCHANGED <<list, node_lock, readers, free, call, new_node, search, node,
                 highestLocked, first, history>>

Spliced(t) == Layers

(* The nodes from lo to hi leave every layer.  No other thread looks at the   *)
(* list meanwhile.                                                            *)
Splice(t) ==
  LET on == [l \in Layers |-> Reach(l)]
      before(l) == { n \in on[l] : Key(n) < lo[t] }
      after(l) == { n \in on[l] : Key(n) > hi[t] }
      lpred == [l \in Layers |->
                  CHOOSE n \in before(l) : \A m \in before(l) : Key(m) <= Key(n)]
      hsucc == [l \in Layers |->
                  CHOOSE n \in after(l) : \A m \in after(l) : Key(n) <= Key(m)]
  IN  /\ pc[t] = "splice"
      /\ first' = [first EXCEPT ![t] = { n \in on[0] : Key(n) \in lo[t] .. hi[t] }]
      /\ next' = [n \in DOMAIN next |-> [l \in Layers |->
                    IF l \in Spliced(t) /\ n = lpred[l] THEN hsucc[l] ELSE next[n][l]]]
      /\ members' = members \ (lo[t] .. hi[t])
      /\ sure' = [u \in Threads |-> sure[u] /\ lo[u] \notin lo[t] .. hi[t]]
      /\ Goto(t, "free")
      /\ UNCHANGED <<val, height, fully_linked, locks, free, call, new_node, search, node,
                     highestLocked>>

(* m_free, and with it cskl_free, of one node after another. *)
Free(t) ==
  /\ pc[t] = "free"
  /\ \E n \in first[t] :
       /\ \A m \in first[t] : val[n] <= val[m]
       /\ first' = [first EXCEPT ![t] = @ \ {n}]
       /\ next' = [next EXCEPT ![n] = [l \in Layers |-> right]]
       /\ fully_linked' = [fully_linked EXCEPT ![n] = FALSE]
       /\ val' = [val EXCEPT ![n] = 0]
       /\ GF_cskl_nodes' = GF_cskl_nodes \cup {n}
  /\ UNCHANGED <<height, locks, lf_cskl_nodes, unmade, pc, call, new_node, search, node,
                 highestLocked, history>>

WriteUnlock(t) ==
  /\ pc[t] = "free" /\ first[t] = {}
  /\ writer' = none
  /\ Return(t)
  /\ UNCHANGED <<list, node_lock, readers, free, ops, new_node, search, node,
                 highestLocked, first, history>>

-----------------------------------------------------------------------------
Step(t) ==
  \/ csklnode_malloc(t) \/ ReadLock(t) \/ Walk(t) \/ Result(t) \/ WaitLinked(t)
  \/ Lock(t) \/ Link(t) \/ Publish(t) \/ UnlockPreds(t) \/ ReadUnlock(t) \/ ReadValue(t)
  \/ WriteLock(t) \/ Splice(t) \/ Free(t) \/ WriteUnlock(t)

Done ==
  /\ \A t \in Threads : pc[t] = "idle" /\ ops[t] = MaxOps
  /\ UNCHANGED vars

Next == Done \/ \E t \in Threads : Start(t) \/ Step(t)

Spec == Init /\ [][Next]_vars

-----------------------------------------------------------------------------
(* Each layer runs to the right sentinel in strictly increasing order, and    *)
(* what a layer has the one below has too, at every step of every insert and  *)
(* once a deletion has spliced: a search may be anywhere in the list and must *)
(* still end, and no key ever has two nodes.                                  *)
LayersSorted ==
  \A l \in Layers :
    LET on == Reach(l)
    IN  /\ right \in on
        /\ \A n \in on \ {right} : Key(n) < Key(next[n][l])
        /\ l > 0 => on \subseteq Reach(l - 1)

(* A node that a search or an insert of some thread stands on, or that the    *)
(* list can be walked to, has not been freed: readers keep deletions out      *)
(* (cskiplist.c:248, 310), and a deletion takes a node off every layer before *)
(* it frees it.  The node that a call returns can be freed before its value   *)
(* is read, but only by a deletion of its key.                                *)
NoneFreed ==
  LET freed == GF_cskl_nodes \cup unmade \cup UNION { lf_cskl_nodes[t] : t \in Threads }
      returned(t) == pc[t] = "value" /\ ~sure[t]
      held(t) == {pred[t], new_node[t]} \cup (IF returned(t) THEN {} ELSE {node[t]})
                   \cup { preds[t][l] : l \in Layers } \cup { succs[t][l] : l \in Layers }
  IN  /\ \A l \in Layers : Reach(l) \cap freed = {}
      /\ \A t \in Threads : held(t) \cap freed = {}

(* What the callers of the list rely on (cskiplist.h: "If cskl has a node     *)
(* that contains val then return that node's value"): a find whose key is in  *)
(* the list from its start returns the node of that key, and the node an      *)
(* insert returns, its own or another thread's, is in the list and usable.    *)
(* That is so when the lock is given up, and still when the node's value is   *)
(* read, if the key has not been deleted in between.                          *)
Linearizable ==
  \A t \in Threads :
    /\ pc[t] = "read_unlock" /\ op[t] = "find" /\ sure[t] => node[t] # none
    /\ node[t] # none /\ (pc[t] = "read_unlock" \/ (pc[t] = "value" /\ sure[t])) =>
         /\ val[node[t]] = lo[t] /\ lo[t] \in members
         /\ node[t] \in Reach(0) /\ fully_linked[node[t]]

(* cskiplist.c:430, of the node found: "found->val == value".  The code does  *)
(* not give that with a deletion in between.                                  *)
ValueCurrent == \A t \in Threads : pc[t] = "value" => val[node[t]] = lo[t]
=============================================================================
