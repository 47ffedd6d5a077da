----------------------------- MODULE GPUProofs ------------------------------
(***************************************************************************)
(* Proofs about GPU measurement, for any number of threads, operations and *)
(* streams: ZeroMeansDelivered and MainAttributesAll of GPUOperation, and  *)
(* NothingLost of GPUStreams.                                              *)
(*                                                                         *)
(* The pending count of a thread is the number of its operations that are  *)
(* on the device, in an operation channel or in the hand of the operation  *)
(* thread: that holds because an operation is in at most one of these      *)
(* places, once (InOnePlace), so that it is counted down exactly once.     *)
(***************************************************************************)
EXTENDS GPUOperation, GPUStreams, FiniteSetTheorems, TLAPS

(* A leaf is for Zenon unless it says SMTT. *)
USE Zenon

(* Of the constants: finitely many operations, and "no thread" is none. *)
Parameters == IsFiniteSet(Ops) /\ none \notin Apps

Stages == {"new", "device", "failed", "operation", "activity", "attributed"}

TypeOK ==
  /\ owner \in [Ops -> Apps \cup {none}]
  /\ stage \in [Ops -> Stages]
  /\ pending \in [Apps -> Int]
  /\ flag \in [Apps -> BOOLEAN]
  /\ pc \in [Apps -> {"run", "flush", "await", "pending", "attribute", "fini", "stopping", "done"}]
  /\ how \in {Ordinary, Normal, Signal, Exec}
  /\ channels \in Seq(Threads) /\ todo \in Seq(Threads)
  /\ opq \in [Threads -> Seq(Items)]
  /\ item \in Items \cup {Nothing}

(* Only an operation that has been submitted has an owner. *)
Owned == \A o \in Ops : owner[o] = none <=> stage[o] = "new"

(* An operation in a channel is there once, and is not in the hand of the    *)
(* operation thread, which sends on what it holds.                           *)
InOnePlace ==
  /\ \A t \in Threads : \A j \in 1 .. Len(opq[t]) : \A o \in Ops : opq[t][j] = Op(o) =>
       /\ stage[o] = "operation" /\ item # Op(o)
       /\ \A u \in Threads : \A k \in 1 .. Len(opq[u]) : opq[u][k] = Op(o) => u = t /\ k = j
  /\ \A o \in Ops : item = Op(o) => stage[o] \in {"operation", "activity", "attributed"}

(* The operations that the pending count of a thread stands for. *)
Undelivered(t) == { o \in Ops : owner[o] = t /\ (stage[o] \in {"device", "failed", "operation"} \/ item = Op(o)) }
Counted == \A t \in Apps : pending[t] = Cardinality(Undelivered(t))

(* A thread that ends without having raised its flag has no operations, and  *)
(* the main thread attributes, in a normal exit, when all is delivered.      *)
FlagRaised == \A t \in Apps : pc[t] = "run" /\ ~flag[t] => Of(t) = {}
NormalExit ==
  /\ pc[Main] = "run" => how = Ordinary
  /\ how = Normal /\ pc[Main] = "attribute" =>
       \A o \in Of(Main) : stage[o] \in {"activity", "attributed"}

IInv == TypeOK /\ Owned /\ InOnePlace /\ Counted /\ FlagRaised /\ NormalExit /\ MainAttributesAll

-----------------------------------------------------------------------------
(* The kinds of items differ. *)
LEMMA ItemsDiffer ==
  /\ \A o \in Ops : Op(o).kind = "op" /\ Op(o).op = o /\ Op(o) # Nothing /\ Op(o) \in Items
  /\ \A t \in Apps : Flush(t).kind = "flush" /\ Flush(t) \in Items
  /\ \A t \in Apps, o \in Ops : Flush(t) # Op(o)
  /\ \A o, q \in Ops : Op(o) = Op(q) => o = q
  /\ Nothing.kind = "none"
<1>1. \A o \in Ops : Op(o).kind = "op" /\ Op(o).op = o
  BY DEF Op
<1>2. \A t \in Apps : Flush(t).kind = "flush"
  BY DEF Flush
<1>3. Nothing.kind = "none"
  BY DEF Nothing
<1>4. (\A o \in Ops : Op(o) \in Items) /\ (\A t \in Apps : Flush(t) \in Items)
  BY DEF Items
<1> QED
  BY <1>1, <1>2, <1>3, <1>4

LEMMA ItemCases ==
  ASSUME NEW it \in Items \cup {Nothing}
  PROVE  /\ it.kind = "op" => \E o \in Ops : it = Op(o)
         /\ it.kind = "flush" => \E t \in Apps : it = Flush(t)
BY ItemsDiffer DEF Items

LEMMA UndeliveredFinite ==
  ASSUME Parameters, NEW t \in Apps
  PROVE  IsFiniteSet(Undelivered(t)) /\ Cardinality(Undelivered(t)) \in Nat
<1>1. Undelivered(t) \subseteq Ops
  BY DEF Undelivered
<1> QED
  BY <1>1, FS_Subset, FS_CardinalityType DEF Parameters

LEMMA IInvImpliesZero == ASSUME Parameters, IInv PROVE ZeroMeansDelivered
<1> SUFFICES ASSUME NEW t \in Apps, pending[t] = 0, NEW o \in Of(t)
             PROVE  stage[o] \in {"activity", "attributed"}
  BY DEF ZeroMeansDelivered
<1>1. Undelivered(t) = {}
  BY UndeliveredFinite, FS_EmptySet DEF IInv, Counted
<1>2. o \in Ops /\ owner[o] = t /\ t # none
  BY DEF Of, Parameters
<1>3. stage[o] \in Stages /\ stage[o] # "new"
  BY <1>2 DEF IInv, TypeOK, Owned
<1> QED
  BY <1>1, <1>2, <1>3 DEF Undelivered, Stages

LEMMA IInvInit == ASSUME Parameters, Init PROVE IInv
<1>1. TypeOK
  BY SMTT(30) DEF Init, TypeOK, Stages, Threads
<1>2. Owned /\ FlagRaised
  BY DEF Init, Owned, FlagRaised, Of, Parameters
<1>3. InOnePlace
  BY ItemsDiffer, SMTT(30) DEF Init, InOnePlace
<1>4. Counted
  <2> SUFFICES ASSUME NEW t \in Apps PROVE pending[t] = Cardinality(Undelivered(t))
    BY DEF Counted
  <2>1. Undelivered(t) = {}
    BY DEF Init, Undelivered, Parameters
  <2> QED
    BY <2>1, FS_EmptySet DEF Init
<1>5. NormalExit /\ MainAttributesAll
  BY DEF Init, NormalExit, MainAttributesAll, Apps, Ordinary, Normal
<1> QED
  BY <1>1, <1>2, <1>3, <1>4, <1>5 DEF IInv

-----------------------------------------------------------------------------
(* Steps that leave the operations where they are. *)
LEMMA PlacesKept ==
  ASSUME Owned, InOnePlace, Counted, UNCHANGED <<owner, stage, pending, opq, item>>
  PROVE  Owned' /\ InOnePlace' /\ Counted'
<1>1. Owned'
  BY DEF Owned
<1>2. InOnePlace'
  BY SMTT(30) DEF InOnePlace, Op
<1>3. \A t \in Apps : Undelivered(t)' = Undelivered(t)
  BY DEF Undelivered, Op
<1>4. Counted'
  BY <1>3 DEF Counted
<1> QED
  BY <1>1, <1>2, <1>4

(* Where the items of the channels are after a push. *)
LEMMA Pushed ==
  ASSUME TypeOK, NEW c \in Threads, NEW it \in Items, Push(c, it)
  PROVE  /\ opq' \in [Threads -> Seq(Items)] /\ channels' \in Seq(Threads)
         /\ \A u \in Threads : \A j \in 1 .. Len(opq'[u]) :
              \/ j \in 1 .. Len(opq[u]) /\ opq'[u][j] = opq[u][j]
              \/ u = c /\ j = Len(opq[c]) + 1 /\ opq'[u][j] = it
<1>1. opq[c] \in Seq(Items) /\ Append(opq[c], it) \in Seq(Items)
  BY SMTT(30) DEF TypeOK
<1>2. /\ Len(Append(opq[c], it)) = Len(opq[c]) + 1
      /\ \A j \in 1 .. Len(opq[c]) : Append(opq[c], it)[j] = opq[c][j]
      /\ Append(opq[c], it)[Len(opq[c]) + 1] = it
  BY <1>1, SMTT(30)
<1>3. opq' = [opq EXCEPT ![c] = Append(opq[c], it)]
  BY DEF Push
<1>4. channels' \in Seq(Threads)
  BY SMTT(30) DEF Push, TypeOK
<1>5. ASSUME NEW u \in Threads, NEW j \in 1 .. Len(opq'[u])
      PROVE  \/ j \in 1 .. Len(opq[u]) /\ opq'[u][j] = opq[u][j]
             \/ u = c /\ j = Len(opq[c]) + 1 /\ opq'[u][j] = it
  <2>1. CASE u = c
    <3>1. opq'[u] = Append(opq[c], it)
      BY <1>3, <2>1 DEF TypeOK
    <3>2. Len(opq[c]) \in Nat
      BY <1>1, SMTT(30)
    <3> QED
      BY <1>2, <1>5, <2>1, <3>1, <3>2, SMTT(30)
  <2>2. CASE u # c
    BY <1>3, <1>5, <2>2 DEF TypeOK
  <2> QED
    BY <2>1, <2>2
<1>6. opq' \in [Threads -> Seq(Items)]
  BY <1>1, <1>3 DEF TypeOK
<1> QED
  BY <1>4, <1>5, <1>6

(* What thread t attributes changes its stage, and nothing else does. *)
LEMMA Attributed ==
  ASSUME TypeOK, NEW t \in Apps
  PROVE  /\ Attribute(t, stage) \in [Ops -> Stages]
         /\ \A o \in Ops : Attribute(t, stage)[o] =
              IF owner[o] = t /\ stage[o] = "activity" THEN "attributed" ELSE stage[o]
BY DEF Attribute, TypeOK, Stages

LEMMA SubmitKeeps ==
  ASSUME Parameters, IInv, NEW t \in Apps, NEW o \in Ops, Submit(t, o)
  PROVE  IInv'
<1>1. TypeOK /\ Owned /\ InOnePlace /\ Counted /\ FlagRaised /\ NormalExit /\ MainAttributesAll
  BY DEF IInv
<1>2. /\ pc[t] = "run" /\ stage[o] = "new" /\ owner[o] = none /\ t # none
      /\ owner' = [owner EXCEPT ![o] = t] /\ flag' = [flag EXCEPT ![t] = TRUE]
      /\ pending' = [pending EXCEPT ![t] = pending[t] + 1]
      /\ UNCHANGED <<pc, how, channels, opq, todo, item>>
  BY <1>1 DEF Submit, At, Owned, rec, Parameters
<1>3. /\ stage' \in [Ops -> Stages] /\ stage'[o] = "device"
      /\ \A q \in Ops \ {o} : stage'[q] = stage[q] \/ (stage[q] = "activity" /\ stage'[q] = "attributed")
  BY <1>1, Attributed DEF Submit, Stages
<1>4. /\ owner' \in [Ops -> Apps \cup {none}] /\ owner'[o] = t
      /\ \A q \in Ops \ {o} : owner'[q] = owner[q]
  BY <1>1, <1>2 DEF TypeOK
<1>5. TypeOK'
  <2>1. pending' \in [Apps -> Int] /\ flag' \in [Apps -> BOOLEAN]
    BY <1>1, <1>2, SMTT(30) DEF TypeOK
  <2> QED
    BY <1>1, <1>2, <1>3, <1>4, <2>1 DEF TypeOK, Threads, Items
<1>6. Owned'
  BY <1>1, <1>2, <1>3, <1>4 DEF Owned
<1>7. item # Op(o) /\ \A u \in Threads : \A j \in 1 .. Len(opq[u]) : opq[u][j] # Op(o)
  BY <1>1, <1>2 DEF InOnePlace
<1>8. InOnePlace'
  <2>1. \A q \in Ops : item = Op(q) => stage'[q] \in {"operation", "activity", "attributed"}
    BY <1>1, <1>3, <1>7 DEF InOnePlace
  <2>2. \A u \in Threads : \A j \in 1 .. Len(opq[u]) : \A q \in Ops : opq[u][j] = Op(q) => stage'[q] = "operation"
    BY <1>1, <1>3, <1>7, SMTT(30) DEF InOnePlace
  <2> QED
    BY <1>1, <1>2, <2>1, <2>2, SMTT(30) DEF InOnePlace, Op
<1>9. Counted'
  <2> SUFFICES ASSUME NEW u \in Apps PROVE pending'[u] = Cardinality(Undelivered(u)')
    BY DEF Counted
  <2>1. CASE u = t
    <3>1. o \notin Undelivered(t) /\ Undelivered(t)' = Undelivered(t) \cup {o}
      BY <1>2, <1>3, <1>4, <1>7 DEF Undelivered, Op
    <3>2. Cardinality(Undelivered(t)') = Cardinality(Undelivered(t)) + 1
      BY <3>1, UndeliveredFinite, FS_AddElement
    <3> QED
      BY <1>1, <1>2, <2>1, <3>2 DEF Counted, TypeOK
  <2>2. CASE u # t
    <3>1. Undelivered(u)' = Undelivered(u)
      BY <1>2, <1>3, <1>4, <2>2 DEF Undelivered, Op, Parameters
    <3> QED
      BY <1>1, <1>2, <2>2, <3>1 DEF Counted, TypeOK
  <2> QED
    BY <2>1, <2>2
<1>10. FlagRaised'
  <2> SUFFICES ASSUME NEW u \in Apps, pc[u] = "run", ~flag'[u], NEW q \in Ops, owner'[q] = u PROVE FALSE
    BY <1>2 DEF FlagRaised, Of
  <2>1. u # t
    BY <1>1, <1>2 DEF TypeOK
  <2>2. ~flag[u]
    BY <1>1, <1>2, <2>1 DEF TypeOK
  <2> QED
    BY <1>1, <1>4, <2>1, <2>2 DEF FlagRaised, Of
<1>11. NormalExit' /\ MainAttributesAll'
  <2>1. CASE t = Main
    BY <1>1, <1>2, <2>1 DEF NormalExit, MainAttributesAll, Ordinary, Normal
  <2>2. CASE t # Main
    <3>1. \A q \in Ops : owner'[q] = Main => q # o /\ owner[q] = Main
      BY <1>4, <2>2
    <3> QED
      BY <1>1, <1>2, <1>3, <3>1 DEF NormalExit, MainAttributesAll, Of
  <2> QED
    BY <2>1, <2>2
<1> QED
  BY <1>5, <1>6, <1>8, <1>9, <1>10, <1>11 DEF IInv

(* An operation that fails is in no channel, and is still counted. *)
LEMMA FailedKeeps ==
  ASSUME Parameters, IInv, NEW o \in Ops, stage[o] = "device",
         stage' = [stage EXCEPT ![o] = "failed"], UNCHANGED <<app, opq, channels, rec>>
  PROVE  IInv'
<1>1. TypeOK /\ Owned /\ InOnePlace /\ Counted /\ FlagRaised /\ NormalExit /\ MainAttributesAll
  BY DEF IInv
<1>2. UNCHANGED <<owner, pending, flag, pc, how, todo, item, opq, channels>>
  BY DEF app, rec
<1>3. stage' \in [Ops -> Stages] /\ stage'[o] = "failed" /\ \A q \in Ops \ {o} : stage'[q] = stage[q]
  BY <1>1 DEF TypeOK, Stages
<1>4. TypeOK'
  BY <1>1, <1>2, <1>3 DEF TypeOK, Threads, Items
<1>5. Owned'
  BY <1>1, <1>2, <1>3 DEF Owned
<1>6. item # Op(o) /\ \A u \in Threads : \A j \in 1 .. Len(opq[u]) : opq[u][j] # Op(o)
  BY <1>1 DEF InOnePlace
<1>7. InOnePlace'
  <2>1. \A q \in Ops : item = Op(q) => stage'[q] \in {"operation", "activity", "attributed"}
    BY <1>1, <1>3, <1>6 DEF InOnePlace
  <2>2. \A u \in Threads : \A j \in 1 .. Len(opq[u]) : \A q \in Ops : opq[u][j] = Op(q) => stage'[q] = "operation"
    BY <1>1, <1>3, <1>6, SMTT(30) DEF InOnePlace
  <2> QED
    BY <1>1, <1>2, <2>1, <2>2, SMTT(30) DEF InOnePlace, Op
<1>8. Counted'
  <2>1. \A u \in Apps : Undelivered(u)' = Undelivered(u)
    BY <1>2, <1>3 DEF Undelivered, Op
  <2> QED
    BY <1>1, <1>2, <2>1 DEF Counted
<1>9. FlagRaised'
  BY <1>1, <1>2 DEF FlagRaised, Of
<1>10. NormalExit' /\ MainAttributesAll'
  BY <1>1, <1>2, <1>3 DEF NormalExit, MainAttributesAll, Of
<1> QED
  BY <1>4, <1>5, <1>7, <1>8, <1>9, <1>10 DEF IInv

(* One that completes is pushed. *)
LEMMA CompletedKeeps ==
  ASSUME Parameters, IInv, NEW c \in Threads, NEW o \in Ops, stage[o] = "device",
         stage' = [stage EXCEPT ![o] = "operation"], Push(c, Op(o)), UNCHANGED <<app, rec>>
  PROVE  IInv'
<1>1. TypeOK /\ Owned /\ InOnePlace /\ Counted /\ FlagRaised /\ NormalExit /\ MainAttributesAll
  BY DEF IInv
<1>2. /\ stage[o] = "device" /\ stage' = [stage EXCEPT ![o] = "operation"]
      /\ Push(c, Op(o)) /\ UNCHANGED <<owner, pending, flag, pc, how, todo, item>>
  BY DEF app, rec
<1>3. Op(o) \in Items
  BY ItemsDiffer
<1>4. /\ opq' \in [Threads -> Seq(Items)] /\ channels' \in Seq(Threads)
      /\ \A u \in Threads : \A j \in 1 .. Len(opq'[u]) :
           \/ j \in 1 .. Len(opq[u]) /\ opq'[u][j] = opq[u][j]
           \/ u = c /\ j = Len(opq[c]) + 1 /\ opq'[u][j] = Op(o)
  BY <1>1, <1>2, <1>3, Pushed
<1>5. stage' \in [Ops -> Stages] /\ stage'[o] = "operation" /\ \A q \in Ops \ {o} : stage'[q] = stage[q]
  BY <1>1, <1>2 DEF TypeOK, Stages
<1>6. TypeOK'
  BY <1>1, <1>2, <1>4, <1>5 DEF TypeOK, Threads, Items
<1>7. Owned'
  BY <1>1, <1>2, <1>5 DEF Owned
<1>8. item # Op(o) /\ \A u \in Threads : \A j \in 1 .. Len(opq[u]) : opq[u][j] # Op(o)
  BY <1>1, <1>2 DEF InOnePlace
<1>9. InOnePlace'
  <2>1. \A q \in Ops : item = Op(q) => stage'[q] \in {"operation", "activity", "attributed"}
    BY <1>1, <1>5, <1>8 DEF InOnePlace
  <2>2. ASSUME NEW u \in Threads, NEW j \in 1 .. Len(opq'[u]), NEW q \in Ops, opq'[u][j] = Op(q)
        PROVE  /\ stage'[q] = "operation" /\ item # Op(q)
               /\ \A v \in Threads : \A k \in 1 .. Len(opq'[v]) : opq'[v][k] = Op(q) => v = u /\ k = j
    <3>1. CASE q = o
      <4>1. \A v \in Threads : \A k \in 1 .. Len(opq'[v]) : opq'[v][k] = Op(o) => v = c /\ k = Len(opq[c]) + 1
        BY <1>4, <1>8
      <4> QED
        BY <1>5, <1>8, <2>2, <3>1, <4>1
    <3>2. CASE q # o
      <4>1. Op(q) # Op(o)
        BY <3>2, ItemsDiffer
      <4>2. \A v \in Threads : \A k \in 1 .. Len(opq'[v]) : opq'[v][k] = Op(q) => k \in 1 .. Len(opq[v]) /\ opq[v][k] = Op(q)
        BY <1>4, <4>1
      <4> QED
        BY <1>1, <1>5, <2>2, <3>2, <4>2, SMTT(30) DEF InOnePlace
    <3> QED
      BY <3>1, <3>2
  <2> QED
    BY <1>2, <2>1, <2>2, SMTT(30) DEF InOnePlace, Op
<1>10. Counted'
  <2>1. \A u \in Apps : Undelivered(u)' = Undelivered(u)
    BY <1>2, <1>5 DEF Undelivered, Op
  <2> QED
    BY <1>1, <1>2, <2>1 DEF Counted
<1>11. FlagRaised'
  BY <1>1, <1>2 DEF FlagRaised, Of
<1>12. NormalExit' /\ MainAttributesAll'
  BY <1>1, <1>2, <1>5 DEF NormalExit, MainAttributesAll, Of
<1> QED
  BY <1>6, <1>7, <1>9, <1>10, <1>11, <1>12 DEF IInv

LEMMA CompleteKeeps ==
  ASSUME Parameters, IInv, NEW c \in Threads, NEW o \in Ops, Complete(c, o)
  PROVE  IInv'
<1>1. stage[o] = "device" /\ UNCHANGED <<app, rec>>
  BY DEF Complete
<1>2. CASE stage' = [stage EXCEPT ![o] = "operation"] /\ Push(c, Op(o))
  BY <1>1, <1>2, CompletedKeeps
<1>3. CASE stage' = [stage EXCEPT ![o] = "failed"] /\ UNCHANGED <<opq, channels>>
  BY <1>1, <1>3, FailedKeeps
<1> QED
  BY <1>2, <1>3 DEF Complete

LEMMA EndKeeps ==
  ASSUME Parameters, IInv, NEW t \in Apps, End(t)
  PROVE  IInv'
<1>1. TypeOK /\ Owned /\ InOnePlace /\ Counted /\ FlagRaised /\ NormalExit /\ MainAttributesAll
  BY DEF IInv
<1>2. /\ pc[t] = "run" /\ flag' = [flag EXCEPT ![t] = FALSE]
      /\ UNCHANGED <<owner, pending, stage, channels, opq, todo, item>>
      /\ pc' = [pc EXCEPT ![t] = IF flag[t] THEN "flush" ELSE IF t = Main THEN "fini" ELSE "done"]
      /\ how' \in {Ordinary, Normal, Signal, Exec} /\ (t # Main => how' = how)
  <2>1. pc[t] = "run" /\ flag' = [flag EXCEPT ![t] = FALSE]
    BY DEF End, At
  <2>2. pc' = [pc EXCEPT ![t] = IF flag[t] THEN "flush" ELSE IF t = Main THEN "fini" ELSE "done"]
    BY DEF End, Goto
  <2>3. UNCHANGED <<owner, pending, stage, channels, opq, todo, item>>
    BY DEF End, rec
  <2>4. how' \in {Ordinary, Normal, Signal, Exec} /\ (t # Main => how' = how)
    <3>1. how \in {Ordinary, Normal, Signal, Exec}
      BY <1>1 DEF TypeOK
    <3>2. how' = how \/ (t = Main /\ how' \in {Normal, Signal, Exec})
      BY DEF End
    <3> QED
      BY <3>1, <3>2
  <2> QED
    BY <2>1, <2>2, <2>3, <2>4
<1>3. Owned' /\ InOnePlace' /\ Counted'
  BY <1>1, <1>2, PlacesKept
<1>4. TypeOK'
  <2>1. flag' \in [Apps -> BOOLEAN]
    BY <1>1, <1>2 DEF TypeOK
  <2>2. pc' \in [Apps -> {"run", "flush", "await", "pending", "attribute", "fini", "stopping", "done"}]
    BY <1>1, <1>2 DEF TypeOK
  <2> QED
    BY <1>1, <1>2, <2>1, <2>2 DEF TypeOK, Threads, Items
<1>5. FlagRaised'
  <2> SUFFICES ASSUME NEW u \in Apps, pc'[u] = "run", ~flag'[u] PROVE Of(u) = {}
    BY <1>2 DEF FlagRaised, Of
  <2>1. u # t /\ pc[u] = "run"
    BY <1>1, <1>2 DEF TypeOK
  <2>2. ~flag[u]
    BY <1>1, <1>2, <2>1 DEF TypeOK
  <2> QED
    BY <1>1, <2>1, <2>2 DEF FlagRaised
<1>6. NormalExit' /\ MainAttributesAll'
  <2>0. Main \in Apps
    BY DEF Apps
  <2>1. CASE t = Main
    <3>1. pc'[Main] \in {"flush", "fini"} /\ (pc'[Main] = "fini" => ~flag[Main])
      BY <1>1, <1>2, <2>0, <2>1 DEF TypeOK
    <3>2. pc'[Main] = "fini" => Of(Main) = {}
      BY <1>1, <1>2, <2>0, <2>1, <3>1 DEF FlagRaised
    <3>3. Of(Main)' = Of(Main)
      BY <1>2 DEF Of
    <3> QED
      BY <3>1, <3>2, <3>3 DEF NormalExit, MainAttributesAll
  <2>2. CASE t # Main
    <3>1. pc'[Main] = pc[Main] /\ how' = how /\ Of(Main)' = Of(Main)
      BY <1>1, <1>2, <2>0, <2>2 DEF TypeOK, Of
    <3> QED
      BY <1>1, <1>2, <3>1 DEF NormalExit, MainAttributesAll
  <2> QED
    BY <2>1, <2>2
<1> QED
  BY <1>3, <1>4, <1>5, <1>6 DEF IInv

LEMMA PushFlushKeeps ==
  ASSUME Parameters, IInv, NEW t \in Apps, PushFlush(t)
  PROVE  IInv'
<1>1. TypeOK /\ Owned /\ InOnePlace /\ Counted /\ FlagRaised /\ NormalExit /\ MainAttributesAll
  BY DEF IInv
<1>2. /\ pc[t] = "flush" /\ pc' = [pc EXCEPT ![t] = "await"]
      /\ Push(t, Flush(t)) /\ UNCHANGED <<owner, pending, flag, how, stage, todo, item>>
  BY DEF PushFlush, At, Goto, rec
<1>3. t \in Threads /\ Flush(t) \in Items /\ \A o \in Ops : Flush(t) # Op(o)
  BY ItemsDiffer DEF Threads
<1>4. /\ opq' \in [Threads -> Seq(Items)] /\ channels' \in Seq(Threads)
      /\ \A u \in Threads : \A j \in 1 .. Len(opq'[u]) :
           \/ j \in 1 .. Len(opq[u]) /\ opq'[u][j] = opq[u][j]
           \/ u = t /\ j = Len(opq[t]) + 1 /\ opq'[u][j] = Flush(t)
  BY <1>1, <1>2, <1>3, Pushed
<1>5. TypeOK'
  BY <1>1, <1>2, <1>4 DEF TypeOK, Threads, Items
<1>6. Owned'
  BY <1>1, <1>2 DEF Owned
<1>7. InOnePlace'
  <2>1. \A v \in Threads : \A k \in 1 .. Len(opq'[v]) : \A q \in Ops :
          opq'[v][k] = Op(q) => k \in 1 .. Len(opq[v]) /\ opq[v][k] = Op(q)
    BY <1>3, <1>4
  <2>2. ASSUME NEW u \in Threads, NEW j \in 1 .. Len(opq'[u]), NEW q \in Ops, opq'[u][j] = Op(q)
        PROVE  /\ stage[q] = "operation" /\ item # Op(q)
               /\ \A v \in Threads : \A k \in 1 .. Len(opq'[v]) : opq'[v][k] = Op(q) => v = u /\ k = j
    BY <1>1, <2>1, <2>2, SMTT(30) DEF InOnePlace
  <2> QED
    BY <1>1, <1>2, <2>2, SMTT(30) DEF InOnePlace, Op
<1>8. Counted'
  BY <1>1, <1>2 DEF Counted, Undelivered, Op
<1>9. FlagRaised'
  BY <1>1, <1>2 DEF TypeOK, FlagRaised, Of
<1>10. NormalExit' /\ MainAttributesAll'
  BY <1>1, <1>2 DEF TypeOK, NormalExit, MainAttributesAll, Of, Apps
<1> QED
  BY <1>5, <1>6, <1>7, <1>8, <1>9, <1>10 DEF IInv

(* The waits, and the end of the main thread. *)
LEMMA WaitsKeep ==
  ASSUME Parameters, IInv, NEW t \in Apps,
         AwaitFlush(t) \/ AwaitPending(t) \/ (t = Main /\ Fini)
  PROVE  IInv'
<1>1. TypeOK /\ Owned /\ InOnePlace /\ Counted /\ FlagRaised /\ NormalExit /\ MainAttributesAll
  BY DEF IInv
<1>2. UNCHANGED <<owner, pending, flag, how, stage, channels, opq, todo, item>>
  BY DEF AwaitFlush, AwaitPending, Fini, Stop, AwaitFinished, rec
<1>3. Owned' /\ InOnePlace' /\ Counted'
  BY <1>1, <1>2, PlacesKept
<1>4. PICK l \in {"pending", "attribute", "stopping", "done"} : pc' = [pc EXCEPT ![t] = l]
  BY DEF AwaitFlush, AwaitPending, Fini, Stop, AwaitFinished, Goto
<1>5. TypeOK'
  <2>1. pc' \in [Apps -> {"run", "flush", "await", "pending", "attribute", "fini", "stopping", "done"}]
    BY <1>1, <1>4 DEF TypeOK
  <2> QED
    BY <1>1, <1>2, <2>1 DEF TypeOK, Threads, Items
<1>6. FlagRaised'
  BY <1>1, <1>2, <1>4 DEF TypeOK, FlagRaised, Of
<1>7. Main \in Apps /\ Of(Main)' = Of(Main)
  BY <1>2 DEF Apps, Of
<1>8. NormalExit' /\ MainAttributesAll'
  <2>1. CASE t # Main
    <3>1. pc'[Main] = pc[Main]
      BY <1>1, <1>4, <1>7, <2>1 DEF TypeOK
    <3> QED
      BY <1>1, <1>2, <1>7, <3>1 DEF NormalExit, MainAttributesAll
  <2>2. CASE t = Main /\ AwaitFlush(t)
    <3>1. how = Normal => pc'[Main] = "pending"
      BY <1>1, <1>7, <2>2 DEF TypeOK, AwaitFlush, Goto
    <3>2. pc'[Main] \in {"pending", "attribute"}
      BY <1>1, <1>7, <2>2 DEF TypeOK, AwaitFlush, Goto
    <3> QED
      BY <1>2, <3>1, <3>2 DEF NormalExit, MainAttributesAll
  <2>3. CASE t = Main /\ AwaitPending(t)
    <3>1. pc'[Main] = "attribute" /\ pending[Main] = 0
      BY <1>1, <1>7, <2>3 DEF TypeOK, AwaitPending, Goto
    <3>2. \A o \in Of(Main) : stage[o] \in {"activity", "attributed"}
      BY <1>7, <3>1, IInvImpliesZero DEF ZeroMeansDelivered
    <3> QED
      BY <1>2, <1>7, <3>1, <3>2 DEF NormalExit, MainAttributesAll
  <2>4. CASE Fini
    <3>1. pc[Main] \in {"fini", "stopping"} /\ pc'[Main] \in {"stopping", "done"}
      BY <1>1, <1>7, <2>4 DEF TypeOK, Fini, Stop, AwaitFinished, At, Goto
    <3> QED
      BY <1>1, <1>2, <1>7, <3>1 DEF NormalExit, MainAttributesAll
  <2> QED
    BY <2>1, <2>2, <2>3, <2>4
<1> QED
  BY <1>3, <1>5, <1>6, <1>8 DEF IInv

LEMMA AttributeAllKeeps ==
  ASSUME Parameters, IInv, NEW t \in Apps, AttributeAll(t)
  PROVE  IInv'
<1>1. TypeOK /\ Owned /\ InOnePlace /\ Counted /\ FlagRaised /\ NormalExit /\ MainAttributesAll
  BY DEF IInv
<1>2. /\ pc[t] = "attribute" /\ stage' = Attribute(t, stage)
      /\ pc' = [pc EXCEPT ![t] = IF t = Main THEN "fini" ELSE "done"]
      /\ UNCHANGED <<owner, pending, flag, how, channels, opq, todo, item>>
  BY DEF AttributeAll, At, Goto, rec
<1>3. /\ stage' \in [Ops -> Stages]
      /\ \A o \in Ops : stage'[o] = IF owner[o] = t /\ stage[o] = "activity" THEN "attributed" ELSE stage[o]
  BY <1>1, <1>2, Attributed
<1>4. TypeOK'
  <2>1. pc' \in [Apps -> {"run", "flush", "await", "pending", "attribute", "fini", "stopping", "done"}]
    BY <1>1, <1>2 DEF TypeOK
  <2> QED
    BY <1>1, <1>2, <1>3, <2>1 DEF TypeOK, Threads, Items
<1>5. Owned'
  BY <1>1, <1>2, <1>3 DEF Owned
<1>6. InOnePlace'
  <2>1. \A o \in Ops : stage[o] = "operation" => stage'[o] = "operation"
    BY <1>3
  <2>2. \A o \in Ops : stage[o] \in {"operation", "activity", "attributed"} =>
                      stage'[o] \in {"operation", "activity", "attributed"}
    BY <1>3
  <2> QED
    BY <1>1, <1>2, <2>1, <2>2, SMTT(30) DEF InOnePlace, Op
<1>7. Counted'
  <2>1. \A u \in Apps : Undelivered(u)' = Undelivered(u)
    BY <1>2, <1>3 DEF Undelivered, Op
  <2> QED
    BY <1>1, <1>2, <2>1 DEF Counted
<1>8. FlagRaised'
  BY <1>1, <1>2 DEF TypeOK, FlagRaised, Of
<1>9. NormalExit' /\ MainAttributesAll'
  <2>0. Main \in Apps
    BY DEF Apps
  <2>1. CASE t = Main
    <3>1. pc'[Main] = "fini"
      BY <1>1, <1>2, <2>0, <2>1 DEF TypeOK
    <3>2. how = Normal => \A o \in Ops : owner[o] = Main => stage'[o] = "attributed"
      BY <1>1, <1>2, <1>3, <2>1 DEF NormalExit, Of
    <3> QED
      BY <1>2, <3>1, <3>2 DEF NormalExit, MainAttributesAll, Of
  <2>2. CASE t # Main
    <3>1. pc'[Main] = pc[Main]
      BY <1>1, <1>2, <2>0, <2>2 DEF TypeOK
    <3> QED
      BY <1>1, <1>2, <1>3, <3>1 DEF NormalExit, MainAttributesAll, Of
  <2> QED
    BY <2>1, <2>2
<1> QED
  BY <1>4, <1>5, <1>6, <1>7, <1>8, <1>9 DEF IInv

-----------------------------------------------------------------------------
(* The operation thread, between items. *)
LEMMA RecordKeeps ==
  ASSUME Parameters, IInv, RecordApply \/ RecordNext
  PROVE  IInv'
<1>1. TypeOK /\ Owned /\ InOnePlace /\ Counted /\ FlagRaised /\ NormalExit /\ MainAttributesAll
  BY DEF IInv
<1>2. UNCHANGED <<owner, pending, flag, pc, how, stage, channels, opq, item>> /\ todo' \in Seq(Threads)
  BY <1>1 DEF RecordApply, RecordNext, app, TypeOK
<1>3. Owned' /\ InOnePlace' /\ Counted'
  BY <1>1, <1>2, PlacesKept
<1>4. TypeOK'
  BY <1>1, <1>2 DEF TypeOK, Threads, Items
<1>5. FlagRaised' /\ NormalExit' /\ MainAttributesAll'
  BY <1>1, <1>2 DEF FlagRaised, NormalExit, MainAttributesAll, Of
<1> QED
  BY <1>3, <1>4, <1>5 DEF IInv

LEMMA DequeueKeeps ==
  ASSUME Parameters, IInv, Dequeue
  PROVE  IInv'
<1>1. TypeOK /\ Owned /\ InOnePlace /\ Counted /\ FlagRaised /\ NormalExit /\ MainAttributesAll
  BY DEF IInv
<1> DEFINE ch == Head(todo)
<1>2. ch \in Threads /\ Tail(todo) \in Seq(Threads) /\ opq[ch] \in Seq(Items)
  BY <1>1, SMTT(30) DEF TypeOK, Dequeue
<1>3. item = Nothing /\ UNCHANGED <<owner, pending, flag, pc, how, stage, channels>>
  BY DEF Dequeue, app
<1>4. FlagRaised' /\ NormalExit' /\ MainAttributesAll' /\ Owned'
  BY <1>1, <1>3 DEF FlagRaised, NormalExit, MainAttributesAll, Of, Owned
<1>5. CASE opq[ch] = <<>>
  <2>1. UNCHANGED <<opq, item>> /\ todo' = Tail(todo)
    BY <1>5 DEF Dequeue
  <2>2. InOnePlace' /\ Counted'
    BY <1>1, <1>3, <2>1, PlacesKept
  <2>3. TypeOK'
    BY <1>1, <1>2, <1>3, <2>1 DEF TypeOK, Threads, Items
  <2> QED
    BY <1>4, <2>2, <2>3 DEF IInv
<1>6. CASE opq[ch] # <<>>
  <2>1. item' = Head(opq[ch]) /\ opq' = [opq EXCEPT ![ch] = Tail(opq[ch])] /\ todo' = todo
    BY <1>6 DEF Dequeue
  <2> HIDE DEF ch
  <2>2. /\ Len(opq[ch]) \in Nat /\ 1 \in 1 .. Len(opq[ch])
        /\ item' = opq[ch][1] /\ item' \in Items /\ Tail(opq[ch]) \in Seq(Items)
        /\ Len(Tail(opq[ch])) = Len(opq[ch]) - 1
        /\ \A j \in 1 .. Len(Tail(opq[ch])) : j + 1 \in 1 .. Len(opq[ch]) /\ Tail(opq[ch])[j] = opq[ch][j + 1]
    BY <1>2, <1>6, <2>1, SMTT(30)
  <2>3. opq' \in [Threads -> Seq(Items)]
    BY <1>1, <2>1, <2>2 DEF TypeOK
  <2>4. TypeOK'
    BY <1>1, <1>3, <2>1, <2>2, <2>3 DEF TypeOK, Threads, Items
  <2>5. /\ \A j \in 1 .. Len(opq'[ch]) : j + 1 \in 1 .. Len(opq[ch]) /\ opq'[ch][j] = opq[ch][j + 1]
        /\ \A u \in Threads \ {ch} : opq'[u] = opq[u]
    BY <1>1, <1>2, <2>1, <2>2 DEF TypeOK
  <2>6. \A o \in Ops : item' = Op(o) => stage[o] = "operation"
    BY <1>1, <1>2, <2>2 DEF InOnePlace
  <2>7. ASSUME NEW u \in Threads, NEW j \in 1 .. Len(opq'[u]), NEW q \in Ops, opq'[u][j] = Op(q)
        PROVE  /\ stage[q] = "operation" /\ item' # Op(q)
               /\ \A v \in Threads : \A k \in 1 .. Len(opq'[v]) : opq'[v][k] = Op(q) => v = u /\ k = j
    <3> DEFINE Before(v, k) == IF v = ch THEN k + 1 ELSE k
    <3>1. \A v \in Threads : \A k \in 1 .. Len(opq'[v]) :
            Before(v, k) \in 1 .. Len(opq[v]) /\ opq'[v][k] = opq[v][Before(v, k)]
      BY <2>5
    <3>2. Before(u, j) \in 1 .. Len(opq[u]) /\ opq[u][Before(u, j)] = Op(q)
      BY <2>7, <3>1
    <3>3. /\ stage[q] = "operation"
          /\ \A v \in Threads : \A k \in 1 .. Len(opq[v]) : opq[v][k] = Op(q) => v = u /\ k = Before(u, j)
      BY <1>1, <3>2, SMTT(30) DEF InOnePlace
    <3>4. item' # Op(q)
      <4> SUFFICES ASSUME item' = Op(q) PROVE FALSE
        OBVIOUS
      <4>1. ch = u /\ 1 = Before(u, j)
        BY <1>2, <2>2, <3>3
      <4> QED
        BY <4>1, <2>7, SMTT(30)
    <3>5. ASSUME NEW v \in Threads, NEW k \in 1 .. Len(opq'[v]), opq'[v][k] = Op(q) PROVE v = u /\ k = j
      <4>1. v = u /\ Before(v, k) = Before(u, j)
        BY <3>1, <3>3, <3>5, SMTT(30)
      <4> QED
        BY <4>1, <2>7, <3>5, SMTT(30)
    <3> QED
      BY <3>3, <3>4, <3>5
  <2>8. InOnePlace'
    BY <1>3, <2>6, <2>7, SMTT(30) DEF InOnePlace, Op
  <2>9. Counted'
    <3>1. \A o \in Ops : item # Op(o)
      BY <1>3, ItemsDiffer
    <3>2. \A u \in Apps : Undelivered(u)' = Undelivered(u)
      BY <1>3, <2>6, <3>1 DEF Undelivered, Op
    <3> QED
      BY <1>1, <1>3, <3>2 DEF Counted
  <2> QED
    BY <1>4, <2>4, <2>8, <2>9 DEF IInv
<1> QED
  BY <1>5, <1>6

LEMMA ProcessActivityKeeps ==
  ASSUME Parameters, IInv, ProcessActivity
  PROVE  IInv'
<1>1. TypeOK /\ Owned /\ InOnePlace /\ Counted /\ FlagRaised /\ NormalExit /\ MainAttributesAll
  BY DEF IInv
<1>2. item.kind = "op" /\ UNCHANGED <<owner, pending, flag, pc, how, channels, opq, todo, item>>
  BY DEF ProcessActivity, app, rec
<1>3. PICK o \in Ops : item = Op(o)
  BY <1>1, <1>2, ItemCases DEF TypeOK
<1>4. stage[o] = "operation" /\ stage' = [stage EXCEPT ![o] = "activity"]
  BY <1>3, ItemsDiffer DEF ProcessActivity
<1>5. stage' \in [Ops -> Stages] /\ stage'[o] = "activity" /\ \A q \in Ops \ {o} : stage'[q] = stage[q]
  BY <1>1, <1>4 DEF TypeOK, Stages
<1>6. TypeOK'
  BY <1>1, <1>2, <1>5 DEF TypeOK, Threads, Items
<1>7. Owned'
  BY <1>1, <1>2, <1>4, <1>5 DEF Owned
<1>8. InOnePlace'
  <2>1. \A u \in Threads : \A j \in 1 .. Len(opq[u]) : opq[u][j] # Op(o)
    BY <1>1, <1>3 DEF InOnePlace
  <2>2. \A q \in Ops : item = Op(q) => q = o
    BY <1>3, ItemsDiffer
  <2>3. opq' = opq /\ item' = item
    BY <1>2
  <2>4. ASSUME NEW u \in Threads, NEW j \in 1 .. Len(opq[u]), NEW q \in Ops, opq[u][j] = Op(q)
        PROVE  /\ stage'[q] = "operation" /\ item # Op(q)
               /\ \A v \in Threads : \A k \in 1 .. Len(opq[v]) : opq[v][k] = Op(q) => v = u /\ k = j
    <3>1. q # o
      BY <2>1, <2>4
    <3>2. /\ stage[q] = "operation" /\ item # Op(q)
          /\ \A v \in Threads : \A k \in 1 .. Len(opq[v]) : opq[v][k] = Op(q) => v = u /\ k = j
      BY <1>1, <2>4, SMTT(30) DEF InOnePlace
    <3> QED
      BY <1>5, <3>1, <3>2
  <2>5. \A q \in Ops : item = Op(q) => stage'[q] \in {"operation", "activity", "attributed"}
    BY <1>5, <2>2
  <2> QED
    BY <2>3, <2>4, <2>5, SMTT(30) DEF InOnePlace, Op
<1>9. Counted'
  <2>1. \A u \in Apps : Undelivered(u)' = Undelivered(u)
    BY <1>2, <1>3, <1>4, <1>5 DEF Undelivered, Op
  <2> QED
    BY <1>1, <1>2, <2>1 DEF Counted
<1>10. FlagRaised'
  BY <1>1, <1>2 DEF FlagRaised, Of
<1>11. NormalExit' /\ MainAttributesAll'
  BY <1>1, <1>2, <1>4, <1>5 DEF NormalExit, MainAttributesAll, Of
<1> QED
  BY <1>6, <1>7, <1>8, <1>9, <1>10, <1>11 DEF IInv

LEMMA CountDownKeeps ==
  ASSUME Parameters, IInv, CountDown
  PROVE  IInv'
<1>1. TypeOK /\ Owned /\ InOnePlace /\ Counted /\ FlagRaised /\ NormalExit /\ MainAttributesAll
  BY DEF IInv
<1>2. item.kind = "op" /\ item' = Nothing /\ UNCHANGED <<owner, flag, pc, how, stage, channels, opq, todo>>
  BY DEF CountDown
<1>3. PICK o \in Ops : item = Op(o)
  BY <1>1, <1>2, ItemCases DEF TypeOK
<1> DEFINE t == owner[o]
<1>4. stage[o] # "operation" /\ pending' = [pending EXCEPT ![t] = pending[t] - 1]
  BY <1>3, ItemsDiffer DEF CountDown
<1>5. stage[o] \in {"activity", "attributed"}
  BY <1>1, <1>3, <1>4 DEF InOnePlace
<1>6. t \in Apps
  BY <1>1, <1>5 DEF TypeOK, Owned
<1>7. TypeOK'
  <2>1. pending' \in [Apps -> Int]
    BY <1>1, <1>4, <1>6, SMTT(30) DEF TypeOK
  <2> QED
    BY <1>1, <1>2, <2>1 DEF TypeOK, Threads, Items
<1>8. \A q \in Ops : item' # Op(q)
  BY <1>2, ItemsDiffer
<1>9. InOnePlace'
  BY <1>1, <1>2, <1>8, SMTT(30) DEF InOnePlace, Op
<1>10. Counted'
  <2> SUFFICES ASSUME NEW u \in Apps PROVE pending'[u] = Cardinality(Undelivered(u)')
    BY DEF Counted
  <2>0. \A q \in Ops : item = Op(q) <=> q = o
    BY <1>3, ItemsDiffer
  <2>1. CASE u = t
    <3>1. o \in Undelivered(u) /\ Undelivered(u)' = Undelivered(u) \ {o}
      BY <1>2, <1>3, <1>5, <1>8, <2>0, <2>1 DEF Undelivered, Op
    <3>2. Cardinality(Undelivered(u)') = Cardinality(Undelivered(u)) - 1
      BY <3>1, UndeliveredFinite, FS_RemoveElement
    <3> QED
      BY <1>1, <1>4, <1>6, <2>1, <3>2 DEF Counted, TypeOK
  <2>2. CASE u # t
    <3>1. Undelivered(u)' = Undelivered(u)
      BY <1>2, <1>8, <2>0, <2>2 DEF Undelivered, Op
    <3> QED
      BY <1>1, <1>4, <1>6, <2>2, <3>1 DEF Counted, TypeOK
  <2> QED
    BY <2>1, <2>2
<1>11. FlagRaised' /\ NormalExit' /\ MainAttributesAll' /\ Owned'
  BY <1>1, <1>2 DEF FlagRaised, NormalExit, MainAttributesAll, Of, Owned
<1> QED
  BY <1>7, <1>9, <1>10, <1>11 DEF IInv

LEMMA ProcessFlushKeeps ==
  ASSUME Parameters, IInv, ProcessFlush
  PROVE  IInv'
<1>1. TypeOK /\ Owned /\ InOnePlace /\ Counted /\ FlagRaised /\ NormalExit /\ MainAttributesAll
  BY DEF IInv
<1>2. /\ item.kind = "flush" /\ item' = Nothing
      /\ UNCHANGED <<owner, pending, flag, pc, how, stage, channels, opq, todo>>
  BY DEF ProcessFlush
<1>3. \A q \in Ops : item # Op(q) /\ item' # Op(q)
  BY <1>2, ItemsDiffer
<1>4. TypeOK'
  BY <1>1, <1>2 DEF TypeOK, Threads, Items
<1>5. InOnePlace'
  BY <1>1, <1>2, <1>3, SMTT(30) DEF InOnePlace, Op
<1>6. Counted'
  <2>1. \A u \in Apps : Undelivered(u)' = Undelivered(u)
    BY <1>2, <1>3 DEF Undelivered, Op
  <2> QED
    BY <1>1, <1>2, <2>1 DEF Counted
<1>7. FlagRaised' /\ NormalExit' /\ MainAttributesAll' /\ Owned'
  BY <1>1, <1>2 DEF FlagRaised, NormalExit, MainAttributesAll, Of, Owned
<1> QED
  BY <1>4, <1>5, <1>6, <1>7 DEF IInv

-----------------------------------------------------------------------------
LEMMA Inductive == ASSUME Parameters PROVE Spec => []IInv
<1>1. Init => IInv
  BY IInvInit
<1>2. IInv /\ [Next]_vars => IInv'
  <2> SUFFICES ASSUME IInv, [Next]_vars PROVE IInv'
    OBVIOUS
  <2>1. CASE UNCHANGED vars
    <3>1. UNCHANGED <<owner, pending, flag, pc, how, stage, channels, opq, todo, item>>
      BY <2>1 DEF vars, app, rec
    <3>2. Owned' /\ InOnePlace' /\ Counted'
      BY <3>1, PlacesKept DEF IInv
    <3> QED
      BY <3>1, <3>2 DEF IInv, TypeOK, FlagRaised, NormalExit, MainAttributesAll, Of, Threads, Items
  <2>2. CASE Exited
    BY <2>1, <2>2 DEF Exited
  <2>3. CASE \E t \in Apps, o \in Ops : Submit(t, o)
    BY <2>3, SubmitKeeps
  <2>4. CASE \E c \in Threads, o \in Ops : Complete(c, o)
    BY <2>4, CompleteKeeps
  <2>5. CASE \E t \in Apps : End(t) \/ Finalize(t)
    BY <2>5, EndKeeps, PushFlushKeeps, WaitsKeep, AttributeAllKeeps DEF Finalize
  <2>6. CASE Fini
    BY <2>6, WaitsKeep DEF Apps
  <2>7. CASE Record
    BY <2>7, RecordKeeps, DequeueKeeps, ProcessActivityKeeps, CountDownKeeps, ProcessFlushKeeps
       DEF Record
  <2> QED
    BY <2>1, <2>2, <2>3, <2>4, <2>5, <2>6, <2>7 DEF Next
<1> QED
  BY <1>1, <1>2, PTL DEF Spec

(* gpu-operation-item-process.c:184, opencl-api.c: when a thread reads zero   *)
(* from its pending count, every operation it has submitted is in its         *)
(* activity channel or attributed.                                            *)
THEOREM PendingIsExact == ASSUME Parameters PROVE Spec => []ZeroMeansDelivered
<1>1. IInv => ZeroMeansDelivered
  BY IInvImpliesZero
<1> QED
  BY <1>1, Inductive, PTL

(* opencl-api.c, opencl_api_thread_finalize and opencl_api_process_finalize:  *)
(* in a process that exits normally the main thread has attributed all its    *)
(* operations before it stops the operation thread.                           *)
THEOREM NormalExitAttributes == ASSUME Parameters PROVE Spec => []MainAttributesAll
<1>1. IInv => MainAttributesAll
  BY DEF IInv
<1> QED
  BY <1>1, Inductive, PTL

-----------------------------------------------------------------------------
(* The elements of a sequence. *)
Listed(q) == { q[i] : i \in 1 .. Len(q) }

LEMMA ListedTail ==
  ASSUME NEW T, NEW q \in Seq(T), q # <<>>
  PROVE  /\ Head(q) \in Listed(q) /\ Head(q) \in T /\ Tail(q) \in Seq(T)
         /\ Listed(q) = {Head(q)} \cup Listed(Tail(q))
<1>1. Len(q) \in Nat /\ Len(q) > 0 /\ Head(q) = q[1] /\ Tail(q) \in Seq(T) /\ Len(Tail(q)) = Len(q) - 1
  BY SMTT(30)
<1>2. \A i \in 1 .. Len(q) : i = 1 \/ (i - 1 \in 1 .. Len(Tail(q)) /\ q[i] = Tail(q)[i - 1])
  BY <1>1, SMTT(30)
<1>3. \A i \in 1 .. Len(Tail(q)) : i + 1 \in 1 .. Len(q) /\ Tail(q)[i] = q[i + 1]
  BY <1>1, SMTT(30)
<1>4. 1 \in 1 .. Len(q) /\ q[1] \in T
  BY <1>1, SMTT(30)
<1>5. Listed(q) \subseteq {Head(q)} \cup Listed(Tail(q))
  <2> SUFFICES ASSUME NEW i \in 1 .. Len(q) PROVE q[i] \in {Head(q)} \cup Listed(Tail(q))
    BY DEF Listed
  <2> QED
    BY <1>1, <1>2 DEF Listed
<1>6. {Head(q)} \cup Listed(Tail(q)) \subseteq Listed(q)
  <2>1. Head(q) \in Listed(q)
    BY <1>1, <1>4 DEF Listed
  <2>2. ASSUME NEW i \in 1 .. Len(Tail(q)) PROVE Tail(q)[i] \in Listed(q)
    BY <1>3 DEF Listed
  <2> QED
    BY <2>1, <2>2 DEF Listed
<1> QED
  BY <1>1, <1>4, <1>5, <1>6

LEMMA ListedPush ==
  ASSUME NEW T, NEW q \in Seq(T), NEW x \in T
  PROVE  <<x>> \o q \in Seq(T) /\ Listed(<<x>> \o q) = {x} \cup Listed(q)
<1>1. <<x>> \o q \in Seq(T) /\ Len(<<x>> \o q) = Len(q) + 1 /\ Len(q) \in Nat
  BY SMTT(30)
<1>2. (<<x>> \o q)[1] = x /\ 1 \in 1 .. Len(<<x>> \o q)
  BY <1>1, SMTT(30)
<1>3. \A i \in 1 .. Len(q) : i + 1 \in 1 .. Len(<<x>> \o q) /\ (<<x>> \o q)[i + 1] = q[i]
  BY <1>1, SMTT(30)
<1>4. \A i \in 1 .. Len(<<x>> \o q) : i = 1 \/ (i - 1 \in 1 .. Len(q) /\ (<<x>> \o q)[i] = q[i - 1])
  BY <1>1, SMTT(30)
<1>5. Listed(<<x>> \o q) \subseteq {x} \cup Listed(q)
  <2> SUFFICES ASSUME NEW i \in 1 .. Len(<<x>> \o q) PROVE (<<x>> \o q)[i] \in {x} \cup Listed(q)
    BY DEF Listed
  <2> QED
    BY <1>2, <1>4 DEF Listed
<1>6. {x} \cup Listed(q) \subseteq Listed(<<x>> \o q)
  <2>1. x \in Listed(<<x>> \o q)
    BY <1>2 DEF Listed
  <2>2. ASSUME NEW i \in 1 .. Len(q) PROVE q[i] \in Listed(<<x>> \o q)
    BY <1>3 DEF Listed
  <2> QED
    BY <2>1, <2>2 DEF Listed
<1> QED
  BY <1>1, <1>5, <1>6

LEMMA ListedEmpty == Listed(<<>>) = {}
<1>1. \A i \in 1 .. Len(<<>>) : FALSE
  BY SMTT(30)
<1> QED
  BY <1>1 DEF Listed

(* A sequence of which one element is replaced. *)
LEMMA OnePut ==
  ASSUME NEW T, NEW q \in Seq(T), NEW k \in 1 .. Len(q), NEW v \in T,
         NEW p, p = [q EXCEPT ![k] = v]
  PROVE  /\ p \in Seq(T) /\ Len(p) = Len(q) /\ p[k] = v
         /\ \A l \in 1 .. Len(q) : l # k => p[l] = q[l]
BY SMTT(30)

-----------------------------------------------------------------------------
(* The channel sets *)

SetTypeOK ==
  /\ c_channels \in Seq(Senders) /\ c_todo \in Seq(Senders)
  /\ items \in [Senders -> Nat] /\ owed \in [Senders -> Nat]
  /\ spc \in [Senders -> {"new", "ready", "link", "count", "signal"}]
  /\ c_stop \in BOOLEAN
  /\ c_rpc \in {"test", "await", "lock", "waiting", "apply", "finalapply", "receive",
                "finalreceive", "done"}

(* A sender has added its channel before it sends. *)
Added == \A s \in Senders : spc[s] # "new" => s \in Listed(c_channels)
SentAfter == \A s \in Senders : spc[s] = "new" => items[s] = 0

(* What is owed is still there; the last walk, which began after the flag    *)
(* was set, has a channel with something owed before it, unless it has run   *)
(* into an enqueue there.                                                    *)
OwedKept == \A s \in Senders : owed[s] <= items[s]
LastWalk ==
  /\ c_rpc \in {"finalapply", "finalreceive", "done"} => c_stop
  /\ c_rpc \in {"finalapply", "finalreceive"} => \A s \in Senders : spc[s] = "link" => s \in late
  /\ c_rpc = "finalreceive" => \A s \in Senders \ late : owed[s] > 0 => s \in Listed(c_todo)

SetIInv == SetTypeOK /\ Added /\ SentAfter /\ OwedKept /\ LastWalk /\ Set!DrainedAtStop

LEMMA SetInitially == ASSUME Set!Init PROVE SetIInv
<1>1. SetTypeOK
  <2>1. <<>> \in Seq(Senders) /\ 0 \in Nat
    BY SMTT(30)
  <2> QED
    BY <2>1 DEF Set!Init, SetTypeOK
<1> QED
  BY <1>1, SMTT(30) DEF Set!Init, SetIInv, Added, SentAfter, OwedKept, LastWalk, Set!DrainedAtStop

(* Steps of the senders and of the thread that stops. *)
LEMMA SenderKeeps ==
  ASSUME SetIInv, NEW s \in Senders,
         Set!AddChannel(s) \/ Set!Send(s) \/ Set!Link(s) \/ Set!OnSend(s) \/ Set!SignalTarget(s)
  PROVE  SetIInv'
<1> USE DEF SetIInv
<1>1. CASE Set!AddChannel(s)
  <2>1. /\ c_channels' = <<s>> \o c_channels /\ spc' = [spc EXCEPT ![s] = "ready"] /\ spc[s] = "new"
        /\ UNCHANGED <<items, owed, late, c_stop, c_rpc, c_todo>>
    BY <1>1 DEF Set!AddChannel, Set!countVars, Set!stopVars, Set!history
  <2>2. c_channels' \in Seq(Senders) /\ Listed(c_channels') = {s} \cup Listed(c_channels)
    BY <2>1, ListedPush DEF SetTypeOK
  <2>3. SetTypeOK'
    BY <2>1, <2>2, SMTT(30) DEF SetTypeOK
  <2>4. Added' /\ SentAfter'
    <3>1. \A x \in Senders : x # s => spc'[x] = spc[x]
      BY <2>1 DEF SetTypeOK
    <3>2. spc'[s] = "ready"
      BY <2>1 DEF SetTypeOK
    <3> QED
      BY <2>1, <2>2, <3>1, <3>2 DEF Added, SentAfter
  <2>5. LastWalk'
    BY <2>1, SMTT(30) DEF LastWalk, SetTypeOK
  <2> QED
    BY <2>1, <2>3, <2>4, <2>5 DEF OwedKept, Set!DrainedAtStop
<1>2. CASE Set!Send(s)
  <2>1. /\ items' = [items EXCEPT ![s] = @ + 1] /\ spc' = [spc EXCEPT ![s] = "link"] /\ spc[s] = "ready"
        /\ late' = IF c_rpc \in {"finalapply", "finalreceive"} THEN late \cup {s} ELSE late
        /\ UNCHANGED <<c_channels, owed, c_stop, c_rpc, c_todo>>
    BY <1>2 DEF Set!Send, Set!countVars, Set!stopVars
  <2>2. SetTypeOK'
    BY <2>1, SMTT(30) DEF SetTypeOK
  <2>3. Added' /\ SentAfter' /\ OwedKept'
    BY <2>1, SMTT(30) DEF Added, SentAfter, OwedKept, SetTypeOK
  <2>4. LastWalk' /\ Set!DrainedAtStop'
    BY <2>1, SMTT(30) DEF LastWalk, Set!DrainedAtStop, SetTypeOK
  <2> QED
    BY <2>2, <2>3, <2>4
<1>3. CASE Set!Link(s) \/ Set!OnSend(s)
  <2>1. /\ \/ spc' = [spc EXCEPT ![s] = "signal"]
           \/ spc' = [spc EXCEPT ![s] = "ready"]
           \/ spc' = [spc EXCEPT ![s] = "count"]
        /\ spc[s] \in {"link", "count"}
        /\ UNCHANGED <<c_channels, items, owed, late, c_stop, c_rpc, c_todo>>
    BY <1>3 DEF Set!Link, Set!OnSend, Set!countVars, Set!stopVars, Set!history
  <2>2. spc' \in [Senders -> {"new", "ready", "link", "count", "signal"}]
    BY <2>1 DEF SetTypeOK
  <2>3. \A x \in Senders : (spc'[x] = "new" <=> spc[x] = "new") /\ (spc'[x] = "link" => spc[x] = "link")
    <3> SUFFICES ASSUME NEW x \in Senders
                 PROVE  (spc'[x] = "new" <=> spc[x] = "new") /\ (spc'[x] = "link" => spc[x] = "link")
      OBVIOUS
    <3>1. CASE x = s
      BY <2>1, <3>1, SMTT(30) DEF SetTypeOK
    <3>2. CASE x # s
      BY <2>1, <3>2, SMTT(30) DEF SetTypeOK
    <3> QED
      BY <3>1, <3>2
  <2>4. SetTypeOK' /\ Added' /\ SentAfter'
    BY <2>1, <2>2, <2>3 DEF SetTypeOK, Added, SentAfter
  <2> QED
    BY <2>1, <2>3, <2>4 DEF OwedKept, LastWalk, Set!DrainedAtStop
<1>4. CASE Set!SignalTarget(s)
  <2>1. /\ c_rpc' = c_rpc \/ (c_rpc = "waiting" /\ c_rpc' = "apply")
        /\ spc' = [spc EXCEPT ![s] = "ready"] /\ spc[s] = "signal"
        /\ UNCHANGED <<c_channels, items, owed, late, c_stop, c_todo>>
    BY <1>4, SMTT(30) DEF Set!SignalTarget, Set!Wake, Set!countVars, Set!stopVars, Set!history
  <2>2. SetTypeOK' /\ Added' /\ SentAfter'
    BY <2>1, SMTT(30) DEF SetTypeOK, Added, SentAfter
  <2>3. LastWalk' /\ Set!DrainedAtStop'
    BY <2>1, SMTT(30) DEF LastWalk, Set!DrainedAtStop, SetTypeOK
  <2> QED
    BY <2>1, <2>2, <2>3 DEF OwedKept
<1> QED
  BY <1>1, <1>2, <1>3, <1>4

LEMMA StopKeeps ==
  ASSUME SetIInv, Set!SetStop \/ Set!Notify
  PROVE  SetIInv'
<1> USE DEF SetIInv
<1>1. CASE Set!SetStop
  <2>1. /\ ~c_stop /\ c_stop' = TRUE /\ owed' = items
        /\ UNCHANGED <<c_channels, items, spc, late, c_rpc, c_todo>>
    BY <1>1 DEF Set!SetStop, Set!senderVars
  <2>2. SetTypeOK' /\ OwedKept'
    BY <2>1, SMTT(30) DEF SetTypeOK, OwedKept
  <2>3. LastWalk' /\ Set!DrainedAtStop'
    BY <2>1, SMTT(30) DEF LastWalk, Set!DrainedAtStop
  <2> QED
    BY <2>1, <2>2, <2>3 DEF Added, SentAfter
<1>2. CASE Set!Notify
  <2>1. /\ c_rpc' = c_rpc \/ (c_rpc = "waiting" /\ c_rpc' = "apply")
        /\ UNCHANGED <<c_channels, items, spc, owed, late, c_stop, c_todo>>
    BY <1>2, SMTT(30) DEF Set!Notify, Set!Wake, Set!countVars, Set!senderVars, Set!history
  <2>2. SetTypeOK' /\ LastWalk' /\ Set!DrainedAtStop'
    BY <2>1, SMTT(30) DEF SetTypeOK, LastWalk, Set!DrainedAtStop
  <2> QED
    BY <2>1, <2>2 DEF OwedKept, Added, SentAfter
<1> QED
  BY <1>1, <1>2

LEMMA ReceiverKeeps == ASSUME SetIInv, Set!Receiver PROVE SetIInv'
<1> USE DEF SetIInv
<1>1. CASE Set!TestStop \/ Set!Await \/ Set!Wait \/ Set!Timeout
  <2>1. /\ \/ /\ c_rpc = "test" /\ c_rpc' = "finalapply" /\ c_stop
              /\ late' = { s \in Senders : spc[s] = "link" }
           \/ c_rpc' \in {"await", "lock", "waiting", "apply"}
        /\ UNCHANGED <<c_channels, items, spc, owed, c_stop, c_todo>>
    BY <1>1, SMTT(30) DEF Set!TestStop, Set!Await, Set!Wait, Set!Timeout, Set!senderVars, Set!stopVars, Set!history
  <2>2. SetTypeOK' /\ LastWalk' /\ Set!DrainedAtStop'
    BY <2>1, SMTT(30) DEF SetTypeOK, LastWalk, Set!DrainedAtStop
  <2> QED
    BY <2>1, <2>2 DEF OwedKept, Added, SentAfter
<1>2. CASE Set!Apply
  <2>1. /\ c_todo' = c_channels
        /\ \/ c_rpc = "apply" /\ c_rpc' = "receive"
           \/ c_rpc = "finalapply" /\ c_rpc' = "finalreceive"
        /\ UNCHANGED <<c_channels, items, spc, owed, late, c_stop>>
    BY <1>2, SMTT(30) DEF Set!Apply, Set!senderVars, Set!stopVars, Set!history
  <2>2. SetTypeOK' /\ Set!DrainedAtStop'
    BY <2>1, SMTT(30) DEF SetTypeOK, Set!DrainedAtStop
  <2>3. \A s \in Senders : owed[s] > 0 => s \in Listed(c_channels)
    BY SMTT(30) DEF Added, SentAfter, OwedKept, SetTypeOK
  <2>4. LastWalk'
    BY <2>1, <2>3, SMTT(30) DEF LastWalk
  <2> QED
    BY <2>1, <2>2, <2>4 DEF OwedKept, Added, SentAfter
<1>3. CASE Set!Receive
  <2>1. /\ c_rpc \in {"receive", "finalreceive"} /\ c_todo # <<>>
        /\ UNCHANGED <<c_channels, spc, late, c_stop, c_rpc>>
    BY <1>3 DEF Set!Receive, Set!senderVars, Set!stopVars
  <2> DEFINE ch == Head(c_todo)
  <2>2. /\ ch \in Senders /\ Tail(c_todo) \in Seq(Senders)
        /\ Listed(c_todo) = {ch} \cup Listed(Tail(c_todo))
    BY <2>1, ListedTail DEF SetTypeOK
  <2>3. CASE /\ Set!Linked(ch) > 0 /\ items' = [items EXCEPT ![ch] = @ - 1]
             /\ owed' = [owed EXCEPT ![ch] = IF @ > 0 THEN @ - 1 ELSE 0] /\ UNCHANGED c_todo
    <3> HIDE DEF ch
    <3> items[ch] > 0
      BY <2>2, <2>3, SMTT(30) DEF SetTypeOK, Set!Linked
    <3>1. SetTypeOK'
      BY <2>1, <2>2, <2>3, SMTT(30) DEF SetTypeOK
    <3>2. \A s \in Senders : owed'[s] <= items'[s] /\ (owed'[s] > 0 => owed[s] > 0)
      BY <2>2, <2>3, SMTT(30) DEF OwedKept, SetTypeOK
    <3>3. SentAfter'
      BY <2>1, <2>2, <2>3, SMTT(30) DEF SentAfter, SetTypeOK
    <3>4. LastWalk' /\ Set!DrainedAtStop'
      BY <2>1, <2>3, <3>2, SMTT(30) DEF LastWalk, Set!DrainedAtStop
    <3> QED
      BY <2>1, <3>1, <3>2, <3>3, <3>4 DEF OwedKept, Added
  <2>4. CASE Set!SeemsEmpty(ch) /\ c_todo' = Tail(c_todo) /\ UNCHANGED <<items, owed>>
    <3>1. spc[ch] = "link" \/ owed[ch] = 0
      BY <2>2, <2>4, SMTT(30) DEF OwedKept, SetTypeOK, Set!SeemsEmpty, Set!Linked
    <3>2. SetTypeOK'
      BY <2>1, <2>2, <2>4, SMTT(30) DEF SetTypeOK
    <3>3. LastWalk' /\ Set!DrainedAtStop'
      <4> HIDE DEF ch
      <4> QED
        BY <2>1, <2>2, <2>4, <3>1, SMTT(30) DEF LastWalk, Set!DrainedAtStop
    <3> QED
      BY <2>1, <2>4, <3>2, <3>3 DEF OwedKept, Added, SentAfter
  <2> QED
    BY <1>3, <2>3, <2>4 DEF Set!Receive
<1>4. CASE Set!EndApply
  <2>1. /\ c_todo = <<>>
        /\ \/ c_rpc = "receive" /\ c_rpc' = "test"
           \/ c_rpc = "finalreceive" /\ c_rpc' = "done"
        /\ UNCHANGED <<c_channels, items, spc, owed, late, c_stop, c_todo>>
    BY <1>4, SMTT(30) DEF Set!EndApply, Set!senderVars, Set!stopVars, Set!history
  <2>2. c_rpc = "finalreceive" => \A s \in Senders \ late : owed[s] = 0
    <3>1. c_rpc = "finalreceive" => \A s \in Senders \ late : ~(owed[s] > 0)
      BY <2>1, ListedEmpty DEF LastWalk
    <3>2. \A s \in Senders : owed[s] \in Nat
      BY DEF SetTypeOK
    <3>3. \A n \in Nat : ~(n > 0) => n = 0
      BY SMTT(30)
    <3> QED
      BY <3>1, <3>2, <3>3
  <2>3. SetTypeOK' /\ LastWalk' /\ Set!DrainedAtStop'
    BY <2>1, <2>2, SMTT(30) DEF SetTypeOK, LastWalk, Set!DrainedAtStop
  <2> QED
    BY <2>1, <2>3 DEF OwedKept, Added, SentAfter
<1> QED
  BY <1>1, <1>2, <1>3, <1>4 DEF Set!Receiver

(* base-channel-set.c: what is in a channel when the stop flag is set has    *)
(* been received when the receiver returns, unless the last apply has run    *)
(* into an enqueue on that channel.                                          *)
LEMMA SetInductive == Set!Spec => []SetIInv
<1>1. SetIInv /\ [Set!Next]_(Set!vars) => SetIInv'
  <2> SUFFICES ASSUME SetIInv, Set!Next \/ UNCHANGED Set!vars PROVE SetIInv'
    OBVIOUS
  <2>1. CASE UNCHANGED Set!vars
    BY <2>1, SMTT(30) DEF Set!vars, Set!senderVars, Set!countVars, Set!stopVars, Set!history, SetIInv, SetTypeOK,
       Added, SentAfter, OwedKept, LastWalk, Set!DrainedAtStop
  <2>2. CASE Set!Next
    BY <2>1, <2>2, SenderKeeps, StopKeeps, ReceiverKeeps DEF Set!Next, Set!Sender, Set!Finished
  <2> QED
    BY <2>1, <2>2
<1> QED
  BY <1>1, SetInitially, PTL DEF Set!Spec

-----------------------------------------------------------------------------
(* The trace streams *)

Tracers == 1 .. Len(t_rpc)
TraceTypeOK ==
  /\ t_queue \in [Streams -> Nat]
  /\ sets \in Seq(Seq(Streams)) /\ t_todo \in Seq(Seq(Streams))
  /\ t_rpc \in Seq({"test", "consume", "final", "release", "done"})
  /\ Len(sets) = Len(t_rpc) /\ Len(t_todo) = Len(t_rpc)
  /\ closed \subseteq Streams /\ known \subseteq Streams
  /\ t_stop \in BOOLEAN
  /\ t_spc \in [Senders -> {"out", "in", "push", "send", "link"}]
  /\ to \in [Senders -> SUBSET Streams]
  /\ \A s \in Senders : t_spc[s] = "push" => to[s] # {}

(* Nobody sends any more when the flag is set, and files are closed only     *)
(* then.                                                                     *)
StopQuiet ==
  /\ t_stop => fpc # "running"
  /\ fpc # "running" => Trace!Quiet
  /\ closed # {} => t_stop
  /\ \A k \in Tracers : t_rpc[k] \in {"final", "release", "done"} => t_stop

(* An item that is not linked has its sender at work on it. *)
Linking == linking # {} => \E s \in Senders : t_spc[s] = "link"

(* The last walk of a tracing thread has the streams that are not empty      *)
(* before it, and what it closes is empty.                                   *)
Drained ==
  \A k \in Tracers :
    /\ t_rpc[k] = "final" =>
         \A x \in Listed(sets[k]) : t_queue[x] = 0 \/ x \in Listed(t_todo[k])
    /\ t_rpc[k] \in {"release", "done"} => \A x \in Listed(sets[k]) : t_queue[x] = 0
    /\ t_rpc[k] = "release" => Listed(t_todo[k]) \subseteq Listed(sets[k])

TraceIInv == TraceTypeOK /\ StopQuiet /\ Linking /\ Drained /\ Trace!ClosedIsComplete

LEMMA TraceInitially == ASSUME Trace!Init PROVE TraceIInv
<1>1. /\ t_rpc = <<>> /\ t_todo = <<>> /\ sets = <<>> /\ closed = {} /\ known = {}
      /\ t_stop = FALSE /\ fpc = "running" /\ t_queue = [x \in Streams |-> 0]
      /\ linking = {} /\ t_spc = [s \in Senders |-> "out"] /\ to = [s \in Senders |-> {}]
  BY DEF Trace!Init
<1>2. \A k \in Tracers : FALSE
  BY <1>1, SMTT(30) DEF Tracers
<1>3. /\ <<>> \in Seq(Seq(Streams)) /\ 0 \in Nat
      /\ <<>> \in Seq({"test", "consume", "final", "release", "done"})
  BY SMTT(30)
<1>4. TraceTypeOK
  BY <1>1, <1>3 DEF TraceTypeOK
<1> QED
  BY <1>1, <1>2, <1>4 DEF TraceIInv, StopQuiet, Linking, Drained, Trace!ClosedIsComplete

(* The flag down: no tracing thread is past its test of it. *)
LEMMA BeforeStop ==
  ASSUME TraceIInv, ~t_stop
  PROVE  closed = {} /\ \A k \in Tracers : t_rpc[k] \in {"test", "consume"}
<1>1. \A k \in Tracers : t_rpc[k] \in {"test", "consume", "final", "release", "done"}
  BY SMTT(30) DEF TraceIInv, TraceTypeOK, Tracers
<1> QED
  BY <1>1 DEF TraceIInv, StopQuiet

(* A sender at work: the flag is down, and nothing follows from what the     *)
(* tracing threads do before that.                                           *)
LEMMA BeforeStopKeeps ==
  ASSUME TraceIInv, ~t_stop, UNCHANGED <<t_stop, closed>>, fpc' # "running" => Trace!Quiet',
         \A k \in Tracers' : t_rpc'[k] \in {"test", "consume"},
         TraceTypeOK', Linking'
  PROVE  TraceIInv'
<1>1. closed' = {}
  BY BeforeStop
<1>2. StopQuiet'
  BY <1>1 DEF StopQuiet
<1>3. Drained'
  BY DEF Drained
<1> QED
  BY <1>1, <1>2, <1>3 DEF TraceIInv, Trace!ClosedIsComplete

LEMMA TraceSenderKeeps ==
  ASSUME TraceIInv, NEW s \in Senders,
         \/ Trace!Lock(s) \/ Trace!PushChannel(s) \/ Trace!ProcessContext(s)
         \/ Trace!Send(s) \/ Trace!Link(s) \/ Trace!Unlock(s) \/ \E x \in Streams : Trace!ProcessStream(s, x)
  PROVE  TraceIInv'
<1> USE DEF Trace!files, Trace!fini, Trace!tracer, Trace!Goto
<1>1. fpc = "running"
  <2>1. CASE Trace!Lock(s)
    BY <2>1 DEF Trace!Lock
  <2>2. CASE t_spc[s] # "out"
    BY <2>2 DEF TraceIInv, StopQuiet, Trace!Quiet
  <2>3. CASE ~Trace!Lock(s)
    <3>1. t_spc[s] = "in" \/ t_spc[s] = "push" \/ t_spc[s] = "send" \/ t_spc[s] = "link"
      BY <2>3, ZenonT(30) DEF Trace!PushChannel, Trace!ProcessContext, Trace!Send, Trace!Link,
         Trace!Unlock, Trace!ProcessStream
    <3> QED
      BY <2>2, <3>1
  <2> QED
    BY <2>1, <2>3
<1>2. ~t_stop /\ UNCHANGED <<t_stop, fpc, closed>>
  <2>1. ~t_stop
    BY <1>1 DEF TraceIInv, StopQuiet
  <2>2. UNCHANGED <<t_stop, fpc, closed>>
    BY ZenonT(30) DEF Trace!Lock, Trace!PushChannel, Trace!ProcessContext, Trace!Send, Trace!Link,
       Trace!Unlock, Trace!ProcessStream
  <2> QED
    BY <2>1, <2>2
<1>3. \A k \in Tracers : t_rpc[k] \in {"test", "consume"}
  BY <1>2, BeforeStop
<1> Linking'
  <2>1. CASE Trace!Send(s)
    <3>1. t_spc' = [t_spc EXCEPT ![s] = "link"]
      BY <2>1 DEF Trace!Send
    <3>2. t_spc'[s] = "link"
      BY <3>1 DEF TraceIInv, TraceTypeOK
    <3> QED
      BY <3>2 DEF Linking
  <2>2. CASE Trace!Link(s)
    BY <2>2 DEF Trace!Link, Linking
  <2>3. CASE ~Trace!Send(s) /\ ~Trace!Link(s)
    <3>1. /\ linking' = linking /\ t_spc[s] # "link"
          /\ \E l : t_spc' = [t_spc EXCEPT ![s] = l]
      BY <2>3, SMTT(30) DEF Trace!Lock, Trace!PushChannel, Trace!ProcessContext, Trace!Unlock, Trace!ProcessStream
    <3>2. \A u \in Senders : u # s => t_spc'[u] = t_spc[u]
      BY <3>1 DEF TraceIInv, TraceTypeOK
    <3> QED
      BY <3>1, <3>2 DEF TraceIInv, Linking
  <2> QED
    BY <2>1, <2>2, <2>3
<1>4. CASE Trace!PushChannel(s)
  <2> DEFINE full == sets = <<>> \/ Len(sets[Len(sets)]) >= streams_per_thread
             x == CHOOSE y \in to[s] : TRUE
  <2>1. /\ t_spc[s] = "push" /\ t_spc' = [t_spc EXCEPT ![s] = "send"]
        /\ UNCHANGED <<to, known, t_queue>>
    BY <1>4 DEF Trace!PushChannel
  <2>2. x \in Streams
    BY <2>1 DEF TraceIInv, TraceTypeOK
  <2>3. t_spc' \in [Senders -> {"out", "in", "push", "send", "link"}]
        /\ \A u \in Senders : t_spc'[u] = "push" => to'[u] # {}
    BY <2>1, SMTT(30) DEF TraceIInv, TraceTypeOK
  <2>4. CASE full
    <3>1. sets' = Append(sets, <<x>>) /\ t_rpc' = Append(t_rpc, "test") /\ t_todo' = Append(t_todo, <<>>)
      BY <1>4, <2>4 DEF Trace!PushChannel
    <3> HIDE DEF x, full
    <3>2. /\ sets' \in Seq(Seq(Streams)) /\ Len(sets') = Len(sets) + 1
          /\ t_todo' \in Seq(Seq(Streams)) /\ Len(t_todo') = Len(t_todo) + 1
      BY <3>1, <2>2, SMTT(30) DEF TraceIInv, TraceTypeOK
    <3>3. /\ t_rpc' \in Seq({"test", "consume", "final", "release", "done"})
          /\ Len(t_rpc') = Len(t_rpc) + 1
      BY <3>1, SMTT(30) DEF TraceIInv, TraceTypeOK
    <3>4. TraceTypeOK'
      BY <1>2, <2>1, <2>3, <3>2, <3>3 DEF TraceIInv, TraceTypeOK
    <3>5. \A k \in Tracers' : t_rpc'[k] \in {"test", "consume"}
      BY <1>3, <3>1, <3>3, SMTT(30) DEF Tracers, TraceIInv, TraceTypeOK
    <3> QED
      BY <1>1, <1>2, <3>4, <3>5, BeforeStopKeeps
  <2>5. CASE ~full
    <3>1. sets' = [sets EXCEPT ![Len(sets)] = <<x>> \o @] /\ UNCHANGED <<t_rpc, t_todo>> /\ sets # <<>>
      BY <1>4, <2>5 DEF Trace!PushChannel
    <3> HIDE DEF x, full
    <3>2. sets' \in Seq(Seq(Streams)) /\ Len(sets') = Len(sets)
      BY <3>1, <2>2, SMTT(30) DEF TraceIInv, TraceTypeOK
    <3>4. TraceTypeOK'
      BY <1>2, <2>1, <2>3, <3>1, <3>2 DEF TraceIInv, TraceTypeOK
    <3> QED
      BY <1>1, <1>2, <1>3, <3>1, <3>4, BeforeStopKeeps DEF Tracers
  <2> QED
    BY <2>4, <2>5
<1>5. CASE ~Trace!PushChannel(s)
  <2>1. UNCHANGED <<sets, t_rpc, t_todo>>
    BY <1>5, ZenonT(30) DEF Trace!Lock, Trace!ProcessContext, Trace!Send, Trace!Link, Trace!Unlock,
       Trace!ProcessStream
  <2>2. /\ t_queue' \in [Streams -> Nat] /\ known' \subseteq Streams
        /\ to' \in [Senders -> SUBSET Streams]
        /\ t_spc' \in [Senders -> {"out", "in", "push", "send", "link"}]
        /\ \A u \in Senders : t_spc'[u] = "push" => to'[u] # {}
    <3>1. CASE Trace!Lock(s)
      BY <3>1, SMTT(30) DEF Trace!Lock, TraceIInv, TraceTypeOK
    <3>2. CASE \E x \in Streams : Trace!ProcessStream(s, x)
      <4>1. PICK x \in Streams : /\ to' = [to EXCEPT ![s] = {x}] /\ known' = known \cup {x}
                                 /\ \/ t_spc' = [t_spc EXCEPT ![s] = "send"]
                                    \/ t_spc' = [t_spc EXCEPT ![s] = "push"]
                                 /\ UNCHANGED t_queue
        BY <3>2 DEF Trace!ProcessStream
      <4>2. t_spc' \in [Senders -> {"out", "in", "push", "send", "link"}]
        BY <4>1, SMTT(30) DEF TraceIInv, TraceTypeOK
      <4>3. to' \in [Senders -> SUBSET Streams] /\ known' \subseteq Streams
        BY <4>1, SMTT(30) DEF TraceIInv, TraceTypeOK
      <4>4. \A u \in Senders : u # s => t_spc'[u] = t_spc[u] /\ to'[u] = to[u]
        BY <4>1 DEF TraceIInv, TraceTypeOK
      <4>5. to'[s] # {}
        BY <4>1 DEF TraceIInv, TraceTypeOK
      <4> QED
        BY <4>1, <4>2, <4>3, <4>4, <4>5 DEF TraceIInv, TraceTypeOK
    <3>3. CASE Trace!ProcessContext(s)
      BY <3>3, SMTT(30) DEF Trace!ProcessContext, TraceIInv, TraceTypeOK
    <3>4. CASE Trace!Send(s)
      <4>1. PICK x \in to[s] : /\ t_queue' = [t_queue EXCEPT ![x] = @ + 1]
                               /\ to' = [to EXCEPT ![s] = @ \ {x}]
        BY <3>4 DEF Trace!Send
      <4>2. t_spc[s] = "send" /\ t_spc' = [t_spc EXCEPT ![s] = "link"] /\ UNCHANGED known
        BY <3>4 DEF Trace!Send
      <4>3. x \in Streams
        BY DEF TraceIInv, TraceTypeOK
      <4>4. t_queue' \in [Streams -> Nat]
        BY <4>1, <4>3, SMTT(30) DEF TraceIInv, TraceTypeOK
      <4>5. /\ to' \in [Senders -> SUBSET Streams]
            /\ t_spc' \in [Senders -> {"out", "in", "push", "send", "link"}]
            /\ \A u \in Senders : t_spc'[u] = "push" => to'[u] # {}
        BY <4>1, <4>2, SMTT(30) DEF TraceIInv, TraceTypeOK
      <4> QED
        BY <4>2, <4>4, <4>5 DEF TraceIInv, TraceTypeOK
    <3>5. CASE Trace!Unlock(s)
      BY <3>5, SMTT(30) DEF Trace!Unlock, TraceIInv, TraceTypeOK
    <3>6. CASE Trace!Link(s)
      BY <3>6, SMTT(30) DEF Trace!Link, TraceIInv, TraceTypeOK
    <3> QED
      BY <1>5, <3>1, <3>2, <3>3, <3>4, <3>5, <3>6
  <2>3. TraceTypeOK'
    BY <1>2, <2>1, <2>2 DEF TraceIInv, TraceTypeOK
  <2> QED
    BY <1>1, <1>2, <1>3, <2>1, <2>3, BeforeStopKeeps DEF Tracers
<1> QED
  BY <1>4, <1>5

LEMMA TraceFiniKeeps == ASSUME TraceIInv, Trace!Fini PROVE TraceIInv'
<1>1. CASE Trace!SetStop
  <2>1. /\ fpc = "running" /\ Trace!Quiet /\ t_stop' = TRUE /\ fpc' = "waiting"
        /\ UNCHANGED <<t_spc, to, known, t_queue, linking, closed>>
    BY <1>1 DEF Trace!SetStop, Trace!sender, Trace!files
  <2>2. ~t_stop
    BY <2>1 DEF TraceIInv, StopQuiet
  <2>3. closed = {} /\ \A k \in Tracers : t_rpc[k] \in {"test", "consume"}
    BY <2>2, BeforeStop
  <2>4. Trace!Quiet'
    BY <2>1 DEF Trace!Quiet
  <2>5. CASE sets = <<>>
    <3>1. sets' = << <<>> >> /\ t_rpc' = <<"test">> /\ t_todo' = << <<>> >>
      BY <1>1, <2>5 DEF Trace!SetStop
    <3>2. /\ sets' \in Seq(Seq(Streams)) /\ t_todo' \in Seq(Seq(Streams))
          /\ t_rpc' \in Seq({"test", "consume", "final", "release", "done"})
          /\ Len(sets') = 1 /\ Len(t_rpc') = 1 /\ Len(t_todo') = 1
      BY <3>1, SMTT(30)
    <3>3. TraceTypeOK'
      BY <2>1, <3>2 DEF TraceIInv, TraceTypeOK
    <3>4. \A k \in Tracers' : t_rpc'[k] = "test"
      BY <3>1, SMTT(30) DEF Tracers
    <3> QED
      BY <2>1, <2>3, <2>4, <3>3, <3>4 DEF TraceIInv, StopQuiet, Linking, Drained, Trace!ClosedIsComplete
  <2>6. CASE sets # <<>>
    <3>1. UNCHANGED <<sets, t_rpc, t_todo>>
      BY <1>1, <2>6 DEF Trace!SetStop
    <3>2. TraceTypeOK'
      BY <2>1, <3>1 DEF TraceIInv, TraceTypeOK
    <3>3. Drained'
      BY <2>3, <3>1 DEF Drained, Tracers
    <3> QED
      BY <2>1, <2>3, <2>4, <3>2, <3>3 DEF TraceIInv, StopQuiet, Linking, Trace!ClosedIsComplete
  <2> QED
    BY <2>5, <2>6
<1>2. CASE Trace!AwaitStreams \/ Trace!FiniAgain
  <2>1. /\ fpc \in {"waiting", "again"} /\ fpc' \in {"again", "done"}
        /\ UNCHANGED <<t_spc, to, known, t_queue, linking, closed, sets, t_rpc, t_todo, t_stop>>
    BY <1>2, SMTT(30) DEF Trace!AwaitStreams, Trace!FiniAgain, Trace!sender, Trace!files, Trace!tracer
  <2>2. TraceTypeOK' /\ Linking' /\ Drained' /\ Trace!ClosedIsComplete'
    BY <2>1 DEF TraceIInv, TraceTypeOK, Linking, Drained, Tracers, Trace!ClosedIsComplete
  <2>3. fpc # "running" /\ fpc' # "running"
    BY <2>1
  <2>4. StopQuiet'
    BY <2>1, <2>3 DEF TraceIInv, StopQuiet, Trace!Quiet, Tracers
  <2> QED
    BY <2>2, <2>4 DEF TraceIInv
<1> QED
  BY <1>1, <1>2 DEF Trace!Fini

(* The types of the walk of one tracing thread. *)
LEMMA TracerTypes ==
  ASSUME TraceTypeOK, NEW k \in Tracers
  PROVE  /\ sets[k] \in Seq(Streams) /\ t_todo[k] \in Seq(Streams)
         /\ \A l \in Tracers : Listed(sets[l]) \subseteq Streams
<1>1. /\ sets \in Seq(Seq(Streams)) /\ t_todo \in Seq(Seq(Streams))
      /\ Tracers = 1 .. Len(sets) /\ Tracers = 1 .. Len(t_todo)
  BY DEF TraceTypeOK, Tracers
<1>2. \A l \in Tracers : sets[l] \in Seq(Streams)
  BY <1>1, SMTT(30)
<1>3. \A l \in Tracers : t_todo[l] \in Seq(Streams)
  BY <1>1, SMTT(30)
<1>4. ASSUME NEW q \in Seq(Streams)
      PROVE  Listed(q) \subseteq Streams
  BY SMTT(30) DEF Listed
<1> QED
  BY <1>2, <1>3, <1>4

LEMMA TracerKeeps ==
  ASSUME TraceIInv, NEW k \in Tracers, Trace!Tracer(k)
  PROVE  TraceIInv'
<1> USE DEF Trace!sender, Trace!files, Trace!fini
<1>1. sets[k] \in Seq(Streams) /\ t_todo[k] \in Seq(Streams)
  BY TracerTypes DEF TraceIInv
<1> Linking'
  BY DEF TraceIInv, Linking, Trace!Tracer, Trace!Apply, Trace!Consume, Trace!EndApply, Trace!Release, Trace!Return
<1>2. CASE Trace!Apply(k)
  <2> DEFINE place == IF t_stop THEN "final" ELSE "consume"
  <2>1. /\ t_rpc[k] = "test" /\ t_rpc' = [t_rpc EXCEPT ![k] = place]
        /\ t_todo' = [t_todo EXCEPT ![k] = sets[k]]
        /\ UNCHANGED <<t_spc, to, known, t_queue, closed, sets, fpc, t_stop>>
    BY <1>2 DEF Trace!Apply
  <2>2. place \in {"final", "consume"} /\ (place = "final" => t_stop)
    BY DEF TraceIInv, TraceTypeOK
  <2> HIDE DEF place
  <2>3. /\ TraceTypeOK' /\ Tracers' = Tracers
        /\ t_rpc'[k] = place /\ t_todo'[k] = sets[k]
        /\ \A l \in Tracers : l # k => t_rpc'[l] = t_rpc[l] /\ t_todo'[l] = t_todo[l]
    <3> DEFINE places == {"test", "consume", "final", "release", "done"}
    <3>1. /\ t_rpc \in Seq(places) /\ place \in places /\ k \in 1 .. Len(t_rpc)
          /\ t_todo \in Seq(Seq(Streams)) /\ k \in 1 .. Len(t_todo)
      BY <2>2 DEF TraceIInv, TraceTypeOK, Tracers
    <3> HIDE DEF places
    <3>2. /\ t_rpc' \in Seq(places) /\ Len(t_rpc') = Len(t_rpc) /\ t_rpc'[k] = place
          /\ \A l \in 1 .. Len(t_rpc) : l # k => t_rpc'[l] = t_rpc[l]
      BY <2>1, <3>1, OnePut, SMTT(30)
    <3>3. /\ t_todo' \in Seq(Seq(Streams)) /\ Len(t_todo') = Len(t_todo) /\ t_todo'[k] = sets[k]
          /\ \A l \in 1 .. Len(t_todo) : l # k => t_todo'[l] = t_todo[l]
      BY <1>1, <2>1, <3>1, OnePut, SMTT(30)
    <3> QED
      BY <2>1, <3>2, <3>3 DEF TraceIInv, TraceTypeOK, Tracers, places
  <2>4. StopQuiet'
    BY <2>1, <2>2, <2>3 DEF TraceIInv, StopQuiet, Trace!Quiet
  <2>5. Drained'
    BY <2>1, <2>2, <2>3 DEF TraceIInv, Drained
  <2> QED
    BY <2>1, <2>3, <2>4, <2>5 DEF TraceIInv, Trace!ClosedIsComplete
<1>3. CASE Trace!Consume(k)
  <2> DEFINE x == Head(t_todo[k])
  <2>1. /\ t_rpc[k] \in {"consume", "final"} /\ t_todo[k] # <<>>
        /\ UNCHANGED <<t_spc, to, known, closed, sets, fpc, t_stop, t_rpc>>
    BY <1>3 DEF Trace!Consume
  <2>2. /\ x \in Streams /\ Tail(t_todo[k]) \in Seq(Streams)
        /\ Listed(t_todo[k]) = {x} \cup Listed(Tail(t_todo[k]))
    BY <1>1, <2>1, ListedTail
  <2>3. CASE Trace!Linked(x) > 0 /\ t_queue' = [t_queue EXCEPT ![x] = @ - 1] /\ UNCHANGED t_todo
    <3> HIDE DEF x
    <3> t_queue[x] > 0
      BY <2>2, <2>3, SMTT(30) DEF Trace!Linked, TraceIInv, TraceTypeOK
    <3>1. t_queue' \in [Streams -> Nat] /\ \A y \in Streams : t_queue[y] = 0 => t_queue'[y] = 0
      BY <2>2, <2>3, SMTT(30) DEF TraceIInv, TraceTypeOK
    <3>2. TraceTypeOK'
      BY <2>1, <2>3, <3>1 DEF TraceIInv, TraceTypeOK
    <3>3. StopQuiet'
      BY <2>1 DEF TraceIInv, StopQuiet, Trace!Quiet, Tracers
    <3>4. Trace!ClosedIsComplete'
      BY <2>1, <3>1 DEF TraceIInv, TraceTypeOK, Trace!ClosedIsComplete
    <3>5. Drained'
      BY <2>1, <2>3, <3>1, TracerTypes DEF TraceIInv, Drained, Tracers
    <3> QED
      BY <3>2, <3>3, <3>4, <3>5 DEF TraceIInv
  <2>4. CASE Trace!SeemsEmpty(x) /\ t_todo' = [t_todo EXCEPT ![k] = Tail(@)] /\ UNCHANGED t_queue
    <3>1. t_todo' = [t_todo EXCEPT ![k] = Tail(t_todo[k])]
      BY <2>4
    <3> HIDE DEF x
    <3>2. /\ TraceTypeOK' /\ Tracers' = Tracers /\ t_todo'[k] = Tail(t_todo[k])
          /\ \A l \in Tracers : l # k => t_todo'[l] = t_todo[l]
      <4>1. t_todo \in Seq(Seq(Streams)) /\ k \in 1 .. Len(t_todo)
        BY DEF TraceIInv, TraceTypeOK, Tracers
      <4>2. /\ t_todo' \in Seq(Seq(Streams)) /\ Len(t_todo') = Len(t_todo)
            /\ t_todo'[k] = Tail(t_todo[k])
            /\ \A l \in 1 .. Len(t_todo) : l # k => t_todo'[l] = t_todo[l]
        BY <2>2, <3>1, <4>1, OnePut, SMTT(30)
      <4> QED
        BY <2>1, <2>4, <4>2 DEF TraceIInv, TraceTypeOK, Tracers
    <3>3. StopQuiet'
      BY <2>1 DEF TraceIInv, StopQuiet, Trace!Quiet, Tracers
    <3>4. Trace!ClosedIsComplete'
      BY <2>1, <2>4 DEF TraceIInv, Trace!ClosedIsComplete
    <3>5. Drained'
      <4> SUFFICES ASSUME NEW l \in Tracers
                   PROVE  /\ t_rpc[l] = "final" =>
                               \A y \in Listed(sets[l]) : t_queue[y] = 0 \/ y \in Listed(t_todo'[l])
                          /\ t_rpc[l] \in {"release", "done"} => \A y \in Listed(sets[l]) : t_queue[y] = 0
                          /\ t_rpc[l] = "release" => Listed(t_todo'[l]) \subseteq Listed(sets[l])
        BY <2>1, <2>4, <3>2 DEF Drained
      <4>1. CASE l = k
        <5>1. t_rpc[k] = "final" => linking = {}
          BY DEF TraceIInv, StopQuiet, Linking, Trace!Quiet
        <5>2. t_rpc[k] = "final" => t_queue[x] = 0
          BY <2>2, <2>4, <5>1, SMTT(30) DEF Trace!SeemsEmpty, Trace!Linked, TraceIInv, TraceTypeOK
        <5> QED
          BY <2>1, <2>2, <5>2, <3>2, <4>1 DEF TraceIInv, Drained
      <4>2. CASE l # k
        BY <3>2, <4>2 DEF TraceIInv, Drained
      <4> QED
        BY <4>1, <4>2
    <3> QED
      BY <3>2, <3>3, <3>4, <3>5 DEF TraceIInv
  <2> QED
    BY <1>3, <2>3, <2>4 DEF Trace!Consume
<1>4. CASE Trace!EndApply(k)
  <2> DEFINE place == IF t_rpc[k] = "final" THEN "release" ELSE "test"
             walk == IF t_rpc[k] = "final" THEN sets[k] ELSE <<>>
  <2>1. /\ t_rpc[k] \in {"consume", "final"} /\ t_todo[k] = <<>>
        /\ t_rpc' = [t_rpc EXCEPT ![k] = place] /\ t_todo' = [t_todo EXCEPT ![k] = walk]
        /\ UNCHANGED <<t_spc, to, known, t_queue, closed, sets, fpc, t_stop>>
    BY <1>4 DEF Trace!EndApply
  <2>2. /\ place \in {"release", "test"} /\ walk \in Seq(Streams)
        /\ place = "release" => /\ t_rpc[k] = "final" /\ walk = sets[k] /\ t_stop
                               /\ \A x \in Listed(sets[k]) : t_queue[x] = 0
    <3>1. t_rpc[k] = "final" => t_stop /\ \A x \in Listed(sets[k]) : t_queue[x] = 0
      BY <2>1, ListedEmpty DEF TraceIInv, StopQuiet, Drained
    <3>2. <<>> \in Seq(Streams)
      BY SMTT(30)
    <3>3. CASE t_rpc[k] = "final"
      BY <1>1, <3>1, <3>3
    <3>4. CASE t_rpc[k] # "final"
      BY <3>2, <3>4
    <3> QED
      BY <3>3, <3>4
  <2> HIDE DEF place, walk
  <2>3. /\ TraceTypeOK' /\ Tracers' = Tracers
        /\ t_rpc'[k] = place /\ t_todo'[k] = walk
        /\ \A l \in Tracers : l # k => t_rpc'[l] = t_rpc[l] /\ t_todo'[l] = t_todo[l]
    <3>1. /\ t_rpc' \in Seq({"test", "consume", "final", "release", "done"})
          /\ Len(t_rpc') = Len(t_rpc) /\ t_rpc'[k] = place
          /\ \A l \in Tracers : l # k => t_rpc'[l] = t_rpc[l]
      <4>1. place \in {"test", "consume", "final", "release", "done"}
        BY <2>2
      <4>2. t_rpc \in Seq({"test", "consume", "final", "release", "done"})
        BY DEF TraceIInv, TraceTypeOK
      <4> QED
        BY <2>1, <4>1, <4>2, OnePut, SMTT(30) DEF Tracers
    <3>2. /\ t_todo' \in Seq(Seq(Streams))
          /\ Len(t_todo') = Len(t_todo) /\ t_todo'[k] = walk
          /\ \A l \in Tracers : l # k => t_todo'[l] = t_todo[l]
      <4>1. t_todo \in Seq(Seq(Streams)) /\ Tracers = 1 .. Len(t_todo)
        BY DEF TraceIInv, TraceTypeOK, Tracers
      <4> QED
        BY <2>1, <2>2, <4>1, OnePut, SMTT(30)
    <3> QED
      BY <2>1, <3>1, <3>2 DEF TraceIInv, TraceTypeOK, Tracers
  <2>4. StopQuiet'
    BY <2>1, <2>2, <2>3 DEF TraceIInv, StopQuiet, Trace!Quiet
  <2>5. Drained'
    BY <2>1, <2>2, <2>3 DEF TraceIInv, Drained
  <2> QED
    BY <2>1, <2>3, <2>4, <2>5 DEF TraceIInv, Trace!ClosedIsComplete
<1>5. CASE Trace!Release(k)
  <2> DEFINE x == Head(t_todo[k])
  <2>1. /\ t_rpc[k] = "release" /\ t_todo[k] # <<>> /\ closed' = closed \cup {x}
        /\ t_todo' = [t_todo EXCEPT ![k] = Tail(t_todo[k])]
        /\ UNCHANGED <<t_spc, to, known, t_queue, sets, fpc, t_stop, t_rpc>>
    BY <1>5 DEF Trace!Release
  <2>2. /\ x \in Streams /\ Tail(t_todo[k]) \in Seq(Streams)
        /\ Listed(t_todo[k]) = {x} \cup Listed(Tail(t_todo[k]))
    BY <1>1, <2>1, ListedTail
  <2>3. t_queue[x] = 0 /\ t_stop
    BY <2>1, <2>2 DEF TraceIInv, StopQuiet, Drained
  <2> HIDE DEF x
  <2>4. /\ TraceTypeOK' /\ Tracers' = Tracers /\ t_todo'[k] = Tail(t_todo[k])
        /\ \A l \in Tracers : l # k => t_todo'[l] = t_todo[l]
    BY <2>1, <2>2, SMTT(30) DEF TraceIInv, TraceTypeOK, Tracers
  <2>5. StopQuiet'
    BY <2>1, <2>3 DEF TraceIInv, StopQuiet, Trace!Quiet, Tracers
  <2>6. Trace!ClosedIsComplete'
    BY <2>1, <2>3 DEF TraceIInv, Trace!ClosedIsComplete
  <2>7. Drained'
    BY <2>1, <2>2, <2>4 DEF TraceIInv, Drained
  <2> QED
    BY <2>4, <2>5, <2>6, <2>7 DEF TraceIInv
<1>6. CASE Trace!Return(k)
  <2>1. /\ t_rpc[k] = "release" /\ t_rpc' = [t_rpc EXCEPT ![k] = "done"]
        /\ UNCHANGED <<t_spc, to, known, t_queue, closed, sets, fpc, t_stop, t_todo>>
    BY <1>6 DEF Trace!Return
  <2>2. /\ TraceTypeOK' /\ Tracers' = Tracers /\ t_rpc'[k] = "done"
        /\ \A l \in Tracers : l # k => t_rpc'[l] = t_rpc[l]
    BY <2>1, SMTT(30) DEF TraceIInv, TraceTypeOK, Tracers
  <2>3. StopQuiet'
    BY <2>1, <2>2 DEF TraceIInv, StopQuiet, Trace!Quiet
  <2>4. Drained'
    BY <2>1, <2>2 DEF TraceIInv, Drained
  <2> QED
    BY <2>1, <2>2, <2>3, <2>4 DEF TraceIInv, Trace!ClosedIsComplete
<1> QED
  BY <1>2, <1>3, <1>4, <1>5, <1>6 DEF Trace!Tracer

LEMMA TraceInductive == Trace!Spec => []TraceIInv
<1>1. TraceIInv /\ [Trace!Next]_(Trace!vars) => TraceIInv'
  <2> SUFFICES ASSUME TraceIInv, Trace!Next \/ UNCHANGED Trace!vars PROVE TraceIInv'
    OBVIOUS
  <2>1. CASE UNCHANGED Trace!vars
    BY <2>1 DEF Trace!vars, Trace!sender, Trace!files, Trace!fini, Trace!tracer, TraceIInv,
       TraceTypeOK, StopQuiet, Linking, Drained, Tracers, Trace!Quiet, Trace!ClosedIsComplete
  <2>2. ASSUME NEW k \in DOMAIN t_rpc, Trace!Tracer(k) PROVE TraceIInv'
    <3>1. k \in Tracers
      BY SMTT(30) DEF TraceIInv, TraceTypeOK, Tracers
    <3> QED
      BY <2>2, <3>1, TracerKeeps
  <2>3. CASE Trace!Next
    BY <2>1, <2>2, <2>3, TraceSenderKeeps, TraceFiniKeeps DEF Trace!Next, Trace!Finished
  <2> QED
    BY <2>1, <2>3
<1> QED
  BY <1>1, TraceInitially, PTL DEF Trace!Spec

(* gpu_operation_record_thread_fn, gpu_trace_record_thread_fn: however many  *)
(* threads send, and however signals are lost, what is in a channel when the *)
(* stop flag is set is received before the receiver returns, unless the last *)
(* apply runs into an enqueue of the same sender; and a trace file is closed *)
(* when its stream is empty and stays so.                                    *)
THEOREM NothingIsLost == Set!Spec /\ Trace!Spec => []NothingLost
<1>1. SetIInv => Set!DrainedAtStop
  BY DEF SetIInv
<1>2. TraceIInv => Trace!ClosedIsComplete
  BY DEF TraceIInv
<1> QED
  BY <1>1, <1>2, SetInductive, TraceInductive, PTL DEF NothingLost
=============================================================================
