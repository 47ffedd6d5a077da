------------------------------ MODULE FairLock ------------------------------
(***************************************************************************)
(* What a first-come-first-served lock promises: threads stand in a line,  *)
(* only the one at its front may be inside, and it leaves the line when it *)
(* leaves the lock.  MCSLock implements this specification.                *)
(***************************************************************************)
EXTENDS Naturals

CONSTANT Threads

VARIABLES place,    \* place[t]: t's position in the line, 0 when not in it
          len,      \* how many threads are in the line
          inside    \* the threads that have the lock

vars == <<place, len, inside>>

Init ==
  /\ place = [t \in Threads |-> 0]
  /\ len = 0
  /\ inside = {}

(* A thread joins the line; one that finds it empty may get the lock at once. *)
Enter(t) ==
  /\ place[t] = 0
  /\ place' = [place EXCEPT ![t] = len + 1]
  /\ len' = len + 1
  /\ \/ inside' = inside
     \/ len = 0 /\ inside' = inside \cup {t}

Acquire(t) ==
  /\ place[t] = 1
  /\ inside = {}
  /\ inside' = {t}
  /\ UNCHANGED <<place, len>>

(* The holder leaves and everybody behind it moves up one place. *)
MoveUp == [t \in Threads |-> IF place[t] = 0 THEN 0 ELSE place[t] - 1]

Leave(t) ==
  /\ inside = {t}
  /\ place[t] = 1
  /\ inside' = {}
  /\ place' = MoveUp
  /\ len' = len - 1

Next == \E t \in Threads : Enter(t) \/ Acquire(t) \/ Leave(t)

Spec == Init /\ [][Next]_vars
=============================================================================
