------------------------------- MODULE MCSLock -------------------------------
(***************************************************************************)
(* The MCS queue lock of src/common/lean/mcs-lock.c.  Every thread brings  *)
(* its own queue node, allocated on its stack by the callers               *)
(* (MCS_LOCK_SYNCHRONIZED, gpu_trace_process_stream, ...), so a node is    *)
(* named by the thread that owns it.  One action is one atomic access of   *)
(* the C code; a store to a private node that precedes the                 *)
(* read-modify-write that publishes the node is taken together with it.    *)
(***************************************************************************)
EXTENDS Naturals

CONSTANTS Threads,   \* the threads that use the lock
          nil        \* mcs_nil

ASSUME NilNotThread == nil \notin Threads

VARIABLES tail,      \* l->tail
          next,      \* next[t]: the next field of thread t's node
          blocked,   \* blocked[t]: the blocked field of thread t's node
          pred,      \* pred[t]: the local "predecessor" of mcs_lock
          pc,        \* where each thread is
          place,     \* history: place[t] is t's position in the queue, or 0
          len        \* history: the length of the queue

vars == <<tail, next, blocked, pred, pc, place, len>>

(***************************************************************************)
(*   idle     outside the lock: its node does not exist                    *)
(*   block    mcs_lock, about to set me->blocked                           *)
(*   link     mcs_lock, about to set predecessor->next                     *)
(*   spin     mcs_lock, waiting for me->blocked to be cleared              *)
(*   cs       returned from mcs_lock or from a successful mcs_trylock      *)
(*   cas      mcs_unlock found no successor, about to try the tail         *)
(*   await    mcs_unlock, waiting for the successor to link itself         *)
(*   signal   mcs_unlock, about to clear successor->blocked                *)
(***************************************************************************)
Queued == {"block", "link", "spin"}
Locked == {"cs", "cas", "await", "signal"}
PCs == {"idle"} \cup Queued \cup Locked

At(t, l) == pc[t] = l
Goto(t, l) == pc' = [pc EXCEPT ![t] = l]

(* The fields of a node on the stack hold anything until they are written. *)
Init ==
  /\ tail = nil
  /\ next \in [Threads -> Threads \cup {nil}]
  /\ blocked \in [Threads -> BOOLEAN]
  /\ pred = [t \in Threads |-> nil]
  /\ pc = [t \in Threads |-> "idle"]
  /\ place = [t \in Threads |-> 0]
  /\ len = 0

(* History: a thread goes to the end of the queue, or leaves it from the front. *)
Join(t) == place' = [place EXCEPT ![t] = len + 1] /\ len' = len + 1
Depart ==
  /\ place' = [t \in Threads |-> IF place[t] = 0 THEN 0 ELSE place[t] - 1]
  /\ len' = len - 1
Stay == UNCHANGED <<place, len>>

-----------------------------------------------------------------------------
(* mcs_lock *)

(* Faulty: the result of the exchange is not looked at. *)
AfterSwap_ignorePredecessor == "cs"
AfterSwap == IF tail = nil THEN "cs" ELSE "block"

LockSwap(t) ==
  /\ At(t, "idle")
  /\ next' = [next EXCEPT ![t] = nil]
  /\ pred' = [pred EXCEPT ![t] = tail]
  /\ tail' = t
  /\ Goto(t, AfterSwap)
  /\ Join(t)
  /\ UNCHANGED blocked

LockBlock(t) ==
  /\ At(t, "block")
  /\ blocked' = [blocked EXCEPT ![t] = TRUE]
  /\ Goto(t, "link")
  /\ Stay /\ UNCHANGED <<tail, next, pred>>

LockLink(t) ==
  /\ At(t, "link")
  /\ next' = [next EXCEPT ![pred[t]] = t]
  /\ Goto(t, "spin")
  /\ Stay /\ UNCHANGED <<tail, blocked, pred>>

LockSpin(t) ==
  /\ At(t, "spin")
  /\ ~blocked[t]
  /\ Goto(t, "cs")
  /\ Stay /\ UNCHANGED <<tail, next, blocked, pred>>

(* mcs_trylock: gets the lock when the queue is empty, or returns false. *)
TryLock(t) ==
  /\ At(t, "idle")
  /\ next' = [next EXCEPT ![t] = nil]
  /\ \/ tail = nil /\ tail' = t /\ Goto(t, "cs") /\ Join(t)
     \/ tail # nil /\ Stay /\ UNCHANGED <<tail, pc>>
  /\ UNCHANGED <<blocked, pred>>

-----------------------------------------------------------------------------
(* mcs_unlock *)

UnlockLoad(t) ==
  /\ At(t, "cs")
  /\ Goto(t, IF next[t] = nil THEN "cas" ELSE "signal")
  /\ Stay /\ UNCHANGED <<tail, next, blocked, pred>>

(* Faulty: the tail is cleared although another thread is behind this one. *)
UnlockCas_blindStore(t) ==
  /\ At(t, "cas")
  /\ tail' = nil /\ Goto(t, "idle") /\ Depart
  /\ UNCHANGED <<next, blocked, pred>>
UnlockCas(t) ==
  /\ At(t, "cas")
  /\ \/ tail = t /\ tail' = nil /\ Goto(t, "idle") /\ Depart
     \/ tail # t /\ Goto(t, "await") /\ Stay /\ UNCHANGED tail
  /\ UNCHANGED <<next, blocked, pred>>

(* Faulty: it does not wait for the successor. *)
UnlockAwait_noWait(t) ==
  /\ At(t, "await")
  /\ Goto(t, "signal")
  /\ Stay /\ UNCHANGED <<tail, next, blocked, pred>>
UnlockAwait(t) ==
  /\ At(t, "await")
  /\ next[t] # nil
  /\ Goto(t, "signal")
  /\ Stay /\ UNCHANGED <<tail, next, blocked, pred>>

UnlockSignal(t) ==
  /\ At(t, "signal")
  /\ blocked' = [blocked EXCEPT ![next[t]] = FALSE]
  /\ Goto(t, "idle")
  /\ Depart
  /\ UNCHANGED <<tail, next, pred>>

-----------------------------------------------------------------------------
(* What a thread does once it is in the queue, until it has left it. *)
Wait(t) == LockBlock(t) \/ LockLink(t) \/ LockSpin(t)
Unlock(t) == UnlockLoad(t) \/ UnlockCas(t) \/ UnlockAwait(t) \/ UnlockSignal(t)

Next == \E t \in Threads : LockSwap(t) \/ TryLock(t) \/ Wait(t) \/ Unlock(t)

Spec == Init /\ [][Next]_vars

-----------------------------------------------------------------------------
(* Types; in particular mcs_unlock never gets to its store through next      *)
(* without a successor.                                                      *)
TypeOK ==
  /\ tail \in Threads \cup {nil}
  /\ next \in [Threads -> Threads \cup {nil}]
  /\ blocked \in [Threads -> BOOLEAN]
  /\ pred \in [Threads -> Threads \cup {nil}]
  /\ pc \in [Threads -> PCs]
  /\ place \in [Threads -> Nat]
  /\ len \in Nat
  /\ \A t \in Threads : At(t, "signal") => next[t] \in Threads

Holds(t) == pc[t] \in Locked

(* The lock is held by at most one thread between the return of mcs_lock (or *)
(* of a successful mcs_trylock) and the store in mcs_unlock that hands over. *)
MutualExclusion == \A s, t \in Threads : Holds(s) /\ Holds(t) => s = t

(* A node lives on the stack of its owner and is gone when mcs_unlock        *)
(* returns: mcs_lock stores to predecessor->next and mcs_unlock to           *)
(* successor->blocked only while the thread that owns that node is still in  *)
(* its mcs_lock or mcs_unlock.                                               *)
NodeAlive ==
  \A t \in Threads :
    /\ At(t, "link") => pred[t] # nil /\ pc[pred[t]] # "idle"
    /\ At(t, "signal") => next[t] # nil /\ At(next[t], "spin")

(* The queue is first come, first served: only the thread whose exchange of  *)
(* the tail came first among those still queued is ever signalled.           *)
FirstComeFirstServed ==
  [][\A t \in Threads : ~Holds(t) /\ Holds(t)' => place'[t] = 1]_vars

Abstract == INSTANCE FairLock WITH inside <- {t \in Threads : Holds(t)}

(* mcs_lock and mcs_unlock implement a first-come-first-served lock. *)
ImplementsFairLock == Abstract!Spec
==============================================================================
