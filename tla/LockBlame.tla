------------------------------ MODULE LockBlame ------------------------------
(***************************************************************************)
(* Directed blame shifting (sample-sources/pthread-blame.c, the overrides  *)
(* in pthread-blame-overrides.c, blame-shift/blame-map.c).  A thread that  *)
(* waits for a synchronization object says so first; a sample that hits it *)
(* there adds its weight to the object's entry in a hash table shared by   *)
(* all threads.  Whoever unlocks or signals the object then takes what has *)
(* gathered there and attributes it to the calling context.                *)
(*                                                                         *)
(* An entry holds an object id and a weight in one atomic word; ids are    *)
(* cut down from addresses, so that different objects may have one id, and *)
(* different ids one entry.  A sample is a signal handler: it runs in the  *)
(* thread that it interrupts, between any two of its steps.                *)
(***************************************************************************)
EXTENDS Integers, FiniteSets

CONSTANTS Threads,
          Mutexes,              \* addresses of mutexes and spin locks
          Events,               \* addresses of condition variables and semaphores
          N, Low, Wrap,         \* table size, 2^32 for addresses and for weights
          Weights,              \* weights of samples
          MaxSamples, MaxUses   \* bounds: samples; waits and signals

Objects == Mutexes \cup Events

blame_map_obj_id(obj) == (obj % Low) \div 4
Ids == { blame_map_obj_id(o) : o \in Objects }
index(id) == id % N

VARIABLES table,                \* index -> [obj_id, blame]
          holder,               \* mutex -> the threads that hold it
          target,               \* pthread_blame.target of each thread
          pc, obj,              \* place of each thread, object of its call
          spc, weight,          \* place in the sample handler, its metric value
          oldval,               \* the entry a thread has loaded
          sampling_is_active,
          samples, uses,        \* bounds: samples and calls so far
          added, dropped,       \* history: id -> weight added, weight leaked
          wrapped,              \* history: id -> weight lost to overflow
          accepted, ignored     \* history: id -> weight attributed, or not

handler == <<spc, weight>>
history == <<added, dropped, wrapped, accepted, ignored>>
vars == <<table, holder, target, pc, obj, handler, oldval, sampling_is_active,
          samples, uses, history>>

Empty == [obj_id |-> 0, blame |-> 0]
Zero == [x \in Ids |-> 0]
Plus(f, x, v) == [f EXCEPT ![x] = @ + v]

Init ==
  /\ table = [n \in 0 .. N - 1 |-> Empty]
  /\ holder = [m \in Mutexes |-> {}]
  /\ target = [t \in Threads |-> 0]
  /\ pc = [t \in Threads |-> "run"]
  /\ obj = [t \in Threads |-> 0]
  /\ spc = [t \in Threads |-> "none"]
  /\ weight = [t \in Threads |-> 0]
  /\ oldval = [t \in Threads |-> Empty]
  /\ sampling_is_active = TRUE
  /\ samples = 0 /\ uses = 0
  /\ added = Zero /\ dropped = Zero /\ wrapped = Zero
  /\ accepted = Zero /\ ignored = Zero

Goto(t, l) == pc' = [pc EXCEPT ![t] = l]

(* The thread's own code runs only while it is not in the sample handler. *)
At(t, l) == pc[t] = l /\ spc[t] = "none"

-----------------------------------------------------------------------------
(* The overrides *)

(* pthread_directed_blame_shift_blocked_start, or _spin_start *)
WaitStart(t, o) ==
  /\ At(t, "run") /\ uses < MaxUses
  /\ o \in Mutexes => t \notin holder[o]
  /\ uses' = uses + 1
  /\ target' = [target EXCEPT ![t] = o]
  /\ obj' = [obj EXCEPT ![t] = o]
  /\ Goto(t, "wait")
  /\ UNCHANGED <<table, holder, handler, oldval, sampling_is_active, samples, history>>

(* The call returns: with the lock, or without it after a timeout. *)
Waited(t) ==
  /\ At(t, "wait")
  /\ \/ /\ obj[t] \in Mutexes /\ holder[obj[t]] = {}
        /\ holder' = [holder EXCEPT ![obj[t]] = {t}]
     \/ UNCHANGED holder
  /\ Goto(t, "waited")
  /\ UNCHANGED <<table, target, obj, handler, oldval, sampling_is_active, samples, uses, history>>

(* pthread_directed_blame_shift_end *)
WaitEnd(t) ==
  /\ At(t, "waited")
  /\ target' = [target EXCEPT ![t] = 0]
  /\ obj' = [obj EXCEPT ![t] = 0]
  /\ Goto(t, "run")
  /\ UNCHANGED <<table, holder, handler, oldval, sampling_is_active, samples, uses, history>>

(* The real unlock, signal or post comes first, ... *)
Release(t, o) ==
  /\ At(t, "run")
  /\ \/ /\ o \in Mutexes /\ t \in holder[o]
        /\ holder' = [holder EXCEPT ![o] = {}]
        /\ UNCHANGED uses
     \/ /\ o \in Events /\ uses < MaxUses
        /\ uses' = uses + 1
        /\ UNCHANGED holder
  /\ obj' = [obj EXCEPT ![t] = o]
  /\ Goto(t, "accept")
  /\ UNCHANGED <<table, target, handler, oldval, sampling_is_active, samples, history>>

(* ... then pthread_directed_blame_accept with blame_map_get_blame: a load, *)
GetLoad(t) ==
  LET x == blame_map_obj_id(obj[t])
      e == table[index(x)]
  IN  /\ At(t, "accept")
      /\ IF e.obj_id = x
         THEN oldval' = [oldval EXCEPT ![t] = e] /\ Goto(t, "take") /\ UNCHANGED obj
         ELSE obj' = [obj EXCEPT ![t] = 0] /\ Goto(t, "run") /\ UNCHANGED oldval
      /\ UNCHANGED <<table, holder, target, handler, sampling_is_active, samples, uses, history>>

(* What was taken is attributed only while sampling is active. *)
Attribute(x, v) ==
  IF sampling_is_active THEN accepted' = Plus(accepted, x, v) /\ UNCHANGED ignored
  ELSE ignored' = Plus(ignored, x, v) /\ UNCHANGED accepted

Take(t) ==
  LET x == blame_map_obj_id(obj[t])
  IN  /\ table' = [table EXCEPT ![index(x)] = Empty]
      /\ Attribute(x, oldval[t].blame)
      /\ oldval' = [oldval EXCEPT ![t] = Empty]
      /\ obj' = [obj EXCEPT ![t] = 0]
      /\ Goto(t, "run")
      /\ UNCHANGED <<holder, target, handler, sampling_is_active, samples, uses, added, dropped, wrapped>>

(* Faulty: the entry is emptied by a store. *)
GetCas_store(t) == At(t, "take") /\ Take(t)
(* and a compare-and-exchange that starts again when it fails. *)
GetCas(t) ==
  /\ At(t, "take")
  /\ IF table[index(blame_map_obj_id(obj[t]))] = oldval[t] THEN Take(t)
     ELSE /\ oldval' = [oldval EXCEPT ![t] = Empty]
          /\ Goto(t, "accept")
          /\ UNCHANGED <<table, holder, target, obj, handler, sampling_is_active, samples, uses, history>>

-----------------------------------------------------------------------------
(* The sample handler: process_directed_blame_for_sample *)

(* A sample in a thread that waits: the load of blame_map_add_blame. *)
Sample(t, v) ==
  /\ spc[t] = "none" /\ target[t] # 0 /\ samples < MaxSamples
  /\ samples' = samples + 1
  /\ weight' = [weight EXCEPT ![t] = v]
  /\ oldval' = [oldval EXCEPT ![t] = table[index(blame_map_obj_id(target[t]))]]
  /\ spc' = [spc EXCEPT ![t] = "add"]
  /\ UNCHANGED <<table, holder, target, pc, obj, sampling_is_active, uses, history>>

HandlerReturns(t) ==
  /\ spc' = [spc EXCEPT ![t] = "none"]
  /\ weight' = [weight EXCEPT ![t] = 0]
  /\ oldval' = [oldval EXCEPT ![t] = Empty]

(* The entry with the weight added, which is cut down to its width. *)
Sum(e, v) == [e EXCEPT !.blame = (@ + v) % Wrap]

(* One turn of the loop: the weight is added to the object's entry, put into *)
(* an entry nobody uses, or dropped when another object has the entry.  When *)
(* the exchange fails it has loaded the entry again.                         *)
AddCas(t) ==
  LET x == blame_map_obj_id(target[t])
      old == oldval[t]
      sum == Sum(old, weight[t])
      new == IF old.obj_id = x THEN sum ELSE [obj_id |-> x, blame |-> weight[t]]
      lost == IF old.obj_id = x THEN old.blame + weight[t] - sum.blame ELSE 0
  IN  /\ spc[t] = "add"
      /\ IF old.obj_id \notin {x, 0}
         THEN /\ added' = Plus(added, x, weight[t])
              /\ dropped' = Plus(dropped, x, weight[t])
              /\ HandlerReturns(t)
              /\ UNCHANGED <<table, wrapped>>
         ELSE IF table[index(x)] = old
         THEN /\ table' = [table EXCEPT ![index(x)] = new]
              /\ added' = Plus(added, x, weight[t])
              /\ wrapped' = Plus(wrapped, x, lost)
              /\ HandlerReturns(t)
              /\ UNCHANGED dropped
         ELSE /\ oldval' = [oldval EXCEPT ![t] = table[index(x)]]
              /\ UNCHANGED <<table, handler, added, dropped, wrapped>>
      /\ UNCHANGED <<holder, target, pc, obj, sampling_is_active, samples, uses, accepted, ignored>>

-----------------------------------------------------------------------------
(* hpctoolkit_sampling_stop and _start, called by the application.  The flag  *)
(* is global, the sample sources are those of the calling thread: the others *)
(* are still sampled.                                                        *)
SamplingStop ==
  /\ sampling_is_active
  /\ sampling_is_active' = FALSE
  /\ UNCHANGED <<table, holder, target, pc, obj, handler, oldval, samples, uses, history>>

SamplingStart ==
  /\ ~sampling_is_active
  /\ sampling_is_active' = TRUE
  /\ UNCHANGED <<table, holder, target, pc, obj, handler, oldval, samples, uses, history>>

Next ==
  \/ \E t \in Threads :
       \/ \E o \in Objects : WaitStart(t, o) \/ Release(t, o)
       \/ Waited(t) \/ WaitEnd(t) \/ GetLoad(t) \/ GetCas(t)
       \/ (\E v \in Weights : Sample(t, v)) \/ AddCas(t)
  \/ SamplingStop \/ SamplingStart

Spec == Init /\ [][Next]_vars

-----------------------------------------------------------------------------
InTable(x) == IF table[index(x)].obj_id = x THEN table[index(x)].blame ELSE 0

(* LOSSLESS_BLAME: what samples add for an object is, at any time, in the    *)
(* table, attributed to a thread that released an object with the same id,   *)
(* or accounted for: dropped with a message, lost to the width of the entry, *)
(* or taken while sampling was off.  Nothing goes to another object.  Id 0   *)
(* is left out: the table takes an entry with that id for an empty one.      *)
BlameConserved ==
  \A x \in Ids \ {0} :
    added[x] = InTable(x) + accepted[x] + ignored[x] + dropped[x] + wrapped[x]
=============================================================================
