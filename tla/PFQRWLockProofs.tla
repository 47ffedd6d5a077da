--------------------------- MODULE PFQRWLockProofs ---------------------------
(***************************************************************************)
(* Proofs about PFQRWLock, for any finite set of readers that fits in the  *)
(* count of a ticket and any set of writers.  The lemmas on the MCS lock   *)
(* are those of MCSLockProofs, instantiated for the writers.               *)
(***************************************************************************)
EXTENDS PFQRWLock, FiniteSetTheorems, TLAPS

McsP == INSTANCE MCSLockProofs WITH Threads <- Writers, pc <- mpc

RPCs == {"idle", "wait", "read", "check", "signal"}
Holding == {"block", "head", "flag", "in", "last", "out", "drain", "write", "uout", "uflag"}
WPCs == {"idle", "mcs", "umcs"} \cup Holding

TypeOK ==
  /\ r_in \in Ticket /\ r_out \in Ticket /\ last \in Ticket
  /\ wbr \in [{0, 1} -> BOOLEAN]
  /\ whead \in Writers \cup {nil}
  /\ rpc \in [Readers -> RPCs]
  /\ rtick \in [Readers -> Ticket]
  /\ passed \in [Readers -> Nat]
  /\ wpc \in [Writers -> WPCs]
  /\ wphase \in [Writers -> {0, 1}]
  /\ wticket \in [Writers -> Ticket]

(* A writer is between write_lock and write_unlock exactly while it has the  *)
(* MCS lock.                                                                 *)
HoldsMcs ==
  \A w \in Writers :
    /\ wpc[w] = "idle" <=> mpc[w] = "idle"
    /\ wpc[w] = "mcs" <=> mpc[w] \in {"block", "link", "spin"}
    /\ wpc[w] \in Holding => mpc[w] = "cs"

(* Some writer is at one of the stages in S. *)
Stage(S) == \E w \in Writers : wpc[w] \in S

(* What the low byte of each word says, and the flags, as the writer that    *)
(* has the MCS lock goes from stage to stage.                                *)
WordsSay ==
  /\ r_in.wp <=> Stage({"last", "out", "drain", "write"})
  /\ r_out.wp <=> Stage({"drain", "write", "uout"})
  /\ r_out.phase = r_in.phase <=> ~Stage({"uout"})

WriterKnows ==
  \A w \in Writers :
    /\ wpc[w] \in {"drain", "write", "uout"} => last.wp /\ last.phase = r_out.phase
    /\ wpc[w] \in {"last", "out"} => wticket[w].phase = r_in.phase /\ ~wticket[w].wp
    /\ wpc[w] = "out" => last = LastTicket(wticket[w])
    /\ wpc[w] \in {"uout", "uflag"} => wphase[w] = 1 - r_in.phase
    /\ wpc[w] \in {"head", "flag", "in", "last", "out"} => blocked[w]
    /\ wpc[w] \in {"flag", "in", "last", "out", "drain"} => whead = w

FlagsSay ==
  \A p \in {0, 1} :
    wbr[p] <=> \/ p = r_in.phase /\ Stage({"in", "last", "out", "drain", "write"})
               \/ p # r_in.phase /\ Stage({"uout", "uflag"})

(* The readers inside, and those of them that the writer has to wait for:    *)
(* the others came after WRITER_PRESENT was set and wait for its phase.      *)
Inside == {r \in Readers : rpc[r] \in {"wait", "read"}}
Ahead ==
  {r \in Readers : rpc[r] = "read" \/ (rpc[r] = "wait" /\ rtick[r].phase # r_in.phase)}

(* The count that follows n, and the distance from b up to a in the ring of counts. *)
Up(n) == IF n = Wrap - 1 THEN 0 ELSE n + 1
Gap(a, b) == IF a >= b THEN a - b ELSE a - b + Wrap

(* The counts of the words differ by the readers inside, and the count the   *)
(* writer took differs from r_out's by the readers ahead of it.  Between the *)
(* two toggles of write_unlock neither count has come round to last.         *)
CountsSay ==
  /\ Gap(r_in.n, r_out.n) = Cardinality(Inside)
  /\ \A w \in Writers :
       /\ wpc[w] \in {"last", "out"} => Gap(wticket[w].n, r_out.n) = Cardinality(Ahead)
       /\ wpc[w] \in {"drain", "write"} => Gap(Plus(last).n, r_out.n) = Cardinality(Ahead)
       /\ wpc[w] = "uout" =>
            Gap(r_in.n, Plus(last).n) = Gap(r_out.n, Plus(last).n) + Cardinality(Inside)

(* Readers that have found, or will find, that they are the last. *)
Signaller(r) == rpc[r] = "signal" \/ (rpc[r] = "check" /\ rtick[r] = last)

(* There is one such reader at a time; the writer that it will release is    *)
(* draining, still blocked, and nobody is ahead of it any more.              *)
OneSignal ==
  /\ \A r, s \in Readers : Signaller(r) /\ Signaller(s) => r = s
  /\ \A r \in Readers :
       Signaller(r) => Ahead = {} /\ \E w \in Writers : wpc[w] = "drain" /\ blocked[w]

(* A writer that has been released, or is writing, has nobody ahead of it. *)
NobodyAhead ==
  \A w \in Writers :
    wpc[w] = "write" \/ (wpc[w] = "drain" /\ ~blocked[w]) => Ahead = {}

(* A reader waits for the present phase only while a writer is present, and  *)
(* has not been overtaken before that writer writes.                         *)
WaitersSay ==
  \A r \in Readers :
    /\ rpc[r] # "wait" => passed[r] = 0
    /\ rpc[r] = "wait" /\ rtick[r].phase = r_in.phase =>
         r_in.wp /\ (Stage({"write"}) \/ passed[r] = 0)
    /\ passed[r] <= 1

IInv ==
  /\ TypeOK /\ McsP!IInv
  /\ HoldsMcs /\ WordsSay /\ WriterKnows /\ FlagsSay
  /\ CountsSay /\ OneSignal /\ NobodyAhead /\ WaitersSay

-----------------------------------------------------------------------------
(* READER_INCREMENT and its subtraction, in the ring of counts. *)
USE WrapAssumption

LEMMA Ring ==
  ASSUME NEW n \in 0 .. Wrap - 1
  PROVE  /\ (n + 1) % Wrap = IF n = Wrap - 1 THEN 0 ELSE n + 1
         /\ (n - 1) % Wrap = IF n = 0 THEN Wrap - 1 ELSE n - 1
<1>1. CASE n = Wrap - 1
  BY <1>1, WrapAssumption
<1>2. CASE n # Wrap - 1
  BY <1>2, WrapAssumption
<1> QED
  BY <1>1, <1>2

(* The operations on the words of the lock yield words. *)
LEMMA Words ==
  ASSUME NEW k \in Ticket
  PROVE  /\ Plus(k) \in Ticket /\ Present(k) \in Ticket /\ Toggle(k) \in Ticket
         /\ LastTicket(k) \in Ticket
         /\ Plus(k).n = Up(k.n)
         /\ Plus(k).phase = k.phase /\ Plus(k).wp = k.wp
         /\ Present(k).n = k.n /\ Present(k).phase = k.phase /\ Present(k).wp
         /\ Toggle(k).n = k.n /\ Toggle(k).phase = 1 - k.phase /\ (Toggle(k).wp <=> ~k.wp)
         /\ LastTicket(k).n = (IF k.n = 0 THEN Wrap - 1 ELSE k.n - 1)
         /\ LastTicket(k).phase = k.phase /\ LastTicket(k).wp
         /\ Plus(LastTicket(k)).n = k.n
<1>1. k.n \in 0 .. Wrap - 1 /\ k.phase \in {0, 1} /\ k.wp \in BOOLEAN
  BY DEF Ticket
<1>2. /\ (k.n + 1) % Wrap = (IF k.n = Wrap - 1 THEN 0 ELSE k.n + 1)
      /\ (k.n - 1) % Wrap = (IF k.n = 0 THEN Wrap - 1 ELSE k.n - 1)
  BY <1>1, Ring
<1>3. /\ (k.n + 1) % Wrap \in 0 .. Wrap - 1
      /\ (k.n - 1) % Wrap \in 0 .. Wrap - 1
  BY <1>1, <1>2, WrapAssumption
<1>4. /\ Plus(k) \in Ticket
      /\ Plus(k).n = Up(k.n)
      /\ Plus(k).phase = k.phase /\ Plus(k).wp = k.wp
  BY <1>2, <1>3, Zenon DEF Plus, Ticket, Up
<1>5. /\ Present(k) \in Ticket
      /\ Present(k).n = k.n /\ Present(k).phase = k.phase /\ Present(k).wp
  BY Zenon DEF Present, Ticket
<1>6. /\ Toggle(k) \in Ticket
      /\ Toggle(k).n = k.n /\ Toggle(k).phase = 1 - k.phase /\ (Toggle(k).wp <=> ~k.wp)
  <2>1. 1 - k.phase \in {0, 1}
    BY <1>1
  <2>2. CASE k.wp = TRUE
    <3>1. Toggle(k) = [k EXCEPT !.phase = 1 - k.phase, !.wp = FALSE]
      BY <2>2, Zenon DEF Toggle
    <3> QED
      BY <2>1, <2>2, <3>1, Zenon DEF Ticket
  <2>3. CASE k.wp = FALSE
    <3>1. Toggle(k) = [k EXCEPT !.phase = 1 - k.phase, !.wp = TRUE]
      BY <2>3, Zenon DEF Toggle
    <3> QED
      BY <2>1, <2>3, <3>1, Zenon DEF Ticket
  <2> QED
    BY <1>1, <2>2, <2>3, Zenon
<1>7. /\ LastTicket(k) \in Ticket
      /\ LastTicket(k).n = (IF k.n = 0 THEN Wrap - 1 ELSE k.n - 1)
      /\ LastTicket(k).phase = k.phase /\ LastTicket(k).wp
  BY <1>2, <1>3, Zenon DEF LastTicket, Present, Ticket
<1>8. Plus(LastTicket(k)).n = k.n
  <2> DEFINE m == LastTicket(k).n
  <2>1. m \in 0 .. Wrap - 1 /\ m = (IF k.n = 0 THEN Wrap - 1 ELSE k.n - 1)
    BY <1>1, <1>7, WrapAssumption
  <2>2. (m + 1) % Wrap = IF m = Wrap - 1 THEN 0 ELSE m + 1
    BY <2>1, Ring
  <2>3. (m + 1) % Wrap = k.n
    BY <2>1, <2>2, <1>1, WrapAssumption
  <2>4. Plus(LastTicket(k)).n = (m + 1) % Wrap
    BY <1>7 DEF Plus, Ticket
  <2> QED
    BY <2>3, <2>4
<1> QED
  BY <1>4, <1>5, <1>6, <1>7, <1>8

(* Adding a reader to a finite set, or taking one out. *)
LEMMA ReaderSets ==
  ASSUME NEW S \in SUBSET Readers
  PROVE  /\ IsFiniteSet(S) /\ Cardinality(S) \in 0 .. Wrap - 1
         /\ Cardinality(S) = 0 <=> S = {}
         /\ \A r \in S : Cardinality(S \ {r}) = Cardinality(S) - 1
         /\ \A r \in Readers \ S : /\ Cardinality(S \cup {r}) = Cardinality(S) + 1
                                   /\ Cardinality(S) + 1 < Wrap
<1>1. IsFiniteSet(S) /\ Cardinality(S) <= Cardinality(Readers)
  BY FS_Subset, ThreadsAssumption
<1>2. Cardinality(S) \in Nat /\ Cardinality(Readers) \in Nat
  BY <1>1, FS_CardinalityType, ThreadsAssumption
<1>3. Cardinality(S) = 0 <=> S = {}
  BY <1>1, FS_EmptySet
<1>4. \A r \in S : Cardinality(S \ {r}) = Cardinality(S) - 1
  BY <1>1, FS_RemoveElement
<1>5. ASSUME NEW r \in Readers \ S
      PROVE  Cardinality(S \cup {r}) = Cardinality(S) + 1 /\ Cardinality(S) + 1 < Wrap
  <2>1. Cardinality(S \cup {r}) = Cardinality(S) + 1
    BY <1>1, FS_AddElement
  <2>2. S \cup {r} \subseteq Readers
    OBVIOUS
  <2>3. Cardinality(S \cup {r}) <= Cardinality(Readers)
    BY <2>2, FS_Subset, ThreadsAssumption
  <2> QED
    BY <2>1, <2>3, <1>2, WrapAssumption, ThreadsAssumption
<1> QED
  BY <1>1, <1>2, <1>3, <1>4, <1>5, ThreadsAssumption, WrapAssumption

-----------------------------------------------------------------------------
(* The steps of the writers' queue, as steps of the lock that MCSLockProofs  *)
(* is about.                                                                 *)
LEMMA McsSteps ==
  ASSUME NEW w \in Writers, Mcs!LockSwap(w) \/ Mcs!Wait(w) \/ Mcs!Unlock(w)
  PROVE  McsP!Next /\ (McsP!LockSwap(w) \/ McsP!Wait(w) \/ McsP!Unlock(w))
<1> USE DEF Mcs!At, McsP!At, Mcs!Goto, McsP!Goto, Mcs!Stay, McsP!Stay,
            Mcs!Join, McsP!Join, Mcs!Depart, McsP!Depart
<1>1. CASE Mcs!LockSwap(w)
  BY <1>1, Zenon
  DEF Mcs!LockSwap, McsP!LockSwap, Mcs!AfterSwap, McsP!AfterSwap, McsP!Next
<1>2. CASE Mcs!Wait(w)
  <2>1. McsP!Wait(w)
    BY <1>2 DEF Mcs!Wait, McsP!Wait, Mcs!LockBlock, McsP!LockBlock, Mcs!LockLink,
                McsP!LockLink, Mcs!LockSpin, McsP!LockSpin
  <2> QED
    BY <2>1 DEF McsP!Next
<1>3. CASE Mcs!Unlock(w)
  <2>1. McsP!Unlock(w)
    BY <1>3
    DEF Mcs!Unlock, McsP!Unlock, Mcs!UnlockLoad, McsP!UnlockLoad, Mcs!UnlockCas,
        McsP!UnlockCas, Mcs!UnlockAwait, McsP!UnlockAwait, Mcs!UnlockSignal,
        McsP!UnlockSignal
  <2> QED
    BY <2>1 DEF McsP!Next
<1> QED
  BY <1>1, <1>2, <1>3

(* Steps that leave the queue alone keep it in shape. *)
LEMMA McsFrame ==
  ASSUME IInv, UNCHANGED mcsVars
  PROVE  McsP!IInv'
<1>1. McsP!IInv /\ UNCHANGED McsP!vars
  BY DEF IInv, mcsVars, McsP!vars
<1> QED
  BY <1>1, McsP!NextIInv, ThreadsAssumption

(* And so do the stores to the blocked field of the writer that has the MCS  *)
(* lock: that field means nothing to the queue any more.                     *)
LEMMA McsBlocked ==
  ASSUME McsP!IInv, NEW w \in Writers, NEW b \in BOOLEAN, mpc[w] = "cs",
         blocked' = [blocked EXCEPT ![w] = b],
         UNCHANGED <<tail, next, pred, mpc, place, len>>
  PROVE  McsP!IInv'
<1>1. McsP!TypeOK'
  BY DEF McsP!IInv, McsP!TypeOK, McsP!PCs, McsP!At
<1>2. McsP!Numbered' /\ McsP!TailIsLast' /\ McsP!PredIsBefore' /\ McsP!NextIsBehind'
  BY DEF McsP!IInv, McsP!Numbered, McsP!TailIsLast, McsP!PredIsBefore,
         McsP!NextIsBehind, McsP!At
<1>3. McsP!FrontHasTurn' /\ McsP!BlockedBeforeLink'
  BY DEF McsP!IInv, McsP!FrontHasTurn, McsP!BlockedBeforeLink, McsP!TypeOK,
         McsP!Turn, McsP!Holds, McsP!Locked, McsP!At
<1> QED
  BY <1>1, <1>2, <1>3 DEF McsP!IInv

(* The counts are in the ring. *)
LEMMA InRange ==
  ASSUME IInv
  PROVE  /\ r_in.n \in 0 .. Wrap - 1 /\ r_out.n \in 0 .. Wrap - 1 /\ last.n \in 0 .. Wrap - 1
         /\ Plus(last).n \in 0 .. Wrap - 1 /\ Plus(last).n = Up(last.n)
         /\ \A w \in Writers : wticket[w].n \in 0 .. Wrap - 1
<1>1. \A k \in Ticket : k.n \in 0 .. Wrap - 1
  BY DEF Ticket
<1>2. r_in \in Ticket /\ r_out \in Ticket /\ last \in Ticket
  BY DEF IInv, TypeOK
<1>3. \A w \in Writers : wticket[w] \in Ticket
  BY DEF IInv, TypeOK
<1>4. Plus(last) \in Ticket /\ Plus(last).n = Up(last.n)
  BY <1>2, Words
<1> QED
  BY <1>1, <1>2, <1>3, <1>4, Zenon

(* While one writer has the MCS lock the others are outside or wait for it. *)
LEMMA Alone ==
  ASSUME IInv, NEW w \in Writers, wpc[w] \notin {"idle", "mcs"}
  PROVE  /\ mpc[w] \in {"cs", "cas", "await", "signal"}
         /\ \A v \in Writers : v # w => wpc[v] \in {"idle", "mcs"}
<1>1. ASSUME NEW v \in Writers, wpc[v] \notin {"idle", "mcs"}
      PROVE  mpc[v] \in {"cs", "cas", "await", "signal"} /\ place[v] = 1
  <2>1. mpc[v] \in {"cs", "cas", "await", "signal"}
    BY <1>1
    DEF IInv, HoldsMcs, McsP!IInv, McsP!TypeOK, McsP!PCs, McsP!Queued, McsP!Locked
  <2> QED
    BY <2>1 DEF IInv, McsP!IInv, McsP!FrontHasTurn, McsP!Turn, McsP!Holds, McsP!Locked
<1> QED
  BY <1>1 DEF IInv, McsP!IInv, McsP!Numbered

-----------------------------------------------------------------------------
(* Steps of readers.  None of them changes the stage of a writer. *)

(* pfq_rwlock_read_lock, up to the decision whether to wait. *)
LEMMA ReadEnterKeeps ==
  ASSUME IInv, NEW r \in Readers, ReadEnter(r)
  PROVE  IInv'
<1>1. /\ r_in' \in Ticket /\ r_in'.phase = r_in.phase /\ r_in'.wp = r_in.wp
      /\ r_in'.n = Up(r_in.n)
  BY Words DEF IInv, TypeOK, ReadEnter
<1>2. TypeOK'
  <2>1. Zero \in Ticket
    BY WrapAssumption DEF Zero, Ticket
  <2>2. rtick' \in [Readers -> Ticket] /\ rpc' \in [Readers -> RPCs]
    BY <2>1 DEF IInv, TypeOK, ReadEnter, RPCs
  <2> QED
    BY <1>1, <2>2 DEF IInv, TypeOK, ReadEnter, writerVars
<1>3. McsP!IInv' /\ HoldsMcs'
  BY McsFrame DEF IInv, HoldsMcs, ReadEnter, mcsVars, writerVars
<1>4. WordsSay' /\ WriterKnows' /\ FlagsSay'
  BY <1>1
  DEF IInv, WordsSay, WriterKnows, FlagsSay, Stage, ReadEnter, mcsVars, writerVars
<1>5. Inside' = Inside \cup {r} /\ r \notin Inside
  BY DEF IInv, TypeOK, Inside, ReadEnter
<1>6. Ahead' = IF r_in.wp THEN Ahead ELSE Ahead \cup {r}
  BY <1>1 DEF IInv, TypeOK, Ahead, ReadEnter
<1>7. CountsSay'
  <2>1. Inside \in SUBSET Readers
    BY DEF Inside
  <2>2. Cardinality(Inside') = Cardinality(Inside) + 1 /\ Cardinality(Inside) + 1 < Wrap
    BY <1>5, <2>1, ReaderSets
  <2>3. r_in.n \in 0 .. Wrap - 1 /\ r_out.n \in 0 .. Wrap - 1
    BY DEF IInv, TypeOK, Ticket
  <2>4. Gap(r_in'.n, r_out.n) = Cardinality(Inside')
    BY <1>1, <2>2, <2>3 DEF IInv, CountsSay, Gap, Up
  <2>5. ASSUME NEW w \in Writers, wpc[w] \in {"last", "out", "drain", "write"}
        PROVE  Ahead' = Ahead
    BY <1>6, <2>5 DEF IInv, WordsSay, Stage
  <2>6. ASSUME NEW w \in Writers, wpc[w] = "uout"
        PROVE  Gap(r_in'.n, Plus(last).n) = Gap(r_out.n, Plus(last).n) + Cardinality(Inside')
    <3>1. /\ last.n \in 0 .. Wrap - 1 /\ Plus(last).n \in 0 .. Wrap - 1
          /\ Plus(last).n = Up(last.n)
      BY InRange
    <3>2. r_in.n # last.n
      BY <2>6 DEF ReadEnter, NoLap
    <3>3. Gap(r_in.n, Plus(last).n) \in 0 .. Wrap - 1
      BY <2>3, <3>1 DEF Gap
    <3>4. Gap(r_in.n, Plus(last).n) # Wrap - 1
      BY <2>3, <3>1, <3>2 DEF Gap, Up
    <3>5. Gap(r_in'.n, Plus(last).n) = Gap(r_in.n, Plus(last).n) + 1
      BY <1>1, <2>3, <3>1, <3>3, <3>4 DEF Gap, Up
    <3>6. Gap(r_in.n, Plus(last).n) = Gap(r_out.n, Plus(last).n) + Cardinality(Inside)
      BY <2>6 DEF IInv, CountsSay
    <3>7. Gap(r_out.n, Plus(last).n) \in Int /\ Cardinality(Inside) \in Int
      BY <2>1, <2>3, <3>1, ReaderSets DEF Gap
    <3> QED
      BY <2>2, <3>5, <3>6, <3>7
  <2>7. UNCHANGED <<r_out, last, wpc, wticket>>
    BY DEF ReadEnter, writerVars
  <2> QED
    BY <2>4, <2>5, <2>6, <2>7 DEF IInv, CountsSay, Plus
<1>8. \A s \in Readers : Signaller(s)' <=> Signaller(s)
  BY DEF IInv, TypeOK, Signaller, ReadEnter
<1>9. OneSignal' /\ NobodyAhead'
  BY <1>6, <1>8
  DEF IInv, WordsSay, Stage, OneSignal, NobodyAhead, ReadEnter, mcsVars, writerVars
<1>10. WaitersSay'
  BY <1>1 DEF IInv, TypeOK, WaitersSay, Stage, ReadEnter, writerVars
<1> QED
  BY <1>2, <1>3, <1>4, <1>7, <1>9, <1>10 DEF IInv

(* The spin of pfq_rwlock_read_lock ends.  The flag that the reader waits    *)
(* for is clear only if its phase is over.                                   *)
LEMMA ReadWaitKeeps ==
  ASSUME IInv, NEW r \in Readers, ReadWait(r)
  PROVE  IInv'
<1>1. rtick[r].phase # r_in.phase
  <2>1. rtick[r].phase \in {0, 1}
    BY DEF IInv, TypeOK, Ticket
  <2> QED
    BY <2>1 DEF ReadWait, IInv, WaitersSay, WordsSay, FlagsSay, Stage
<1>2. TypeOK'
  BY DEF IInv, TypeOK, ReadWait, RPCs, Ticket, Zero, wordVars, writerVars
<1>3. McsP!IInv' /\ HoldsMcs'
  BY McsFrame DEF IInv, HoldsMcs, ReadWait, mcsVars, writerVars
<1>4. WordsSay' /\ WriterKnows' /\ FlagsSay'
  BY DEF IInv, WordsSay, WriterKnows, FlagsSay, Stage, ReadWait, mcsVars, wordVars,
         writerVars
<1>5. Inside' = Inside /\ Ahead' = Ahead
  BY <1>1 DEF IInv, TypeOK, Inside, Ahead, ReadWait, wordVars
<1>6. CountsSay'
  BY <1>5 DEF IInv, CountsSay, ReadWait, wordVars, writerVars, Plus, Gap
<1>7. \A s \in Readers : Signaller(s)' <=> Signaller(s)
  BY DEF IInv, TypeOK, Signaller, ReadWait, wordVars
<1>8. OneSignal' /\ NobodyAhead'
  BY <1>5, <1>7 DEF IInv, OneSignal, NobodyAhead, ReadWait, mcsVars, writerVars
<1>9. WaitersSay'
  BY DEF IInv, TypeOK, WaitersSay, Stage, ReadWait, wordVars, writerVars
<1> QED
  BY <1>2, <1>3, <1>4, <1>6, <1>8, <1>9 DEF IInv

(* The decrement of pfq_rwlock_read_unlock.  The reader finds last in the    *)
(* word exactly when it is the last one that a draining writer waits for.    *)
LEMMA ReadExitKeeps ==
  ASSUME IInv, NEW r \in Readers, ReadExit(r)
  PROVE  IInv'
<1>1. /\ r_out' \in Ticket /\ r_out'.phase = r_out.phase /\ r_out'.wp = r_out.wp
      /\ r_out'.n = Up(r_out.n)
  BY Words DEF IInv, TypeOK, ReadExit
<1>2. TypeOK'
  <2>1. Zero \in Ticket
    BY DEF Zero, Ticket
  <2>2. rtick' \in [Readers -> Ticket] /\ rpc' \in [Readers -> RPCs]
    BY <2>1 DEF IInv, TypeOK, ReadExit, RPCs
  <2> QED
    BY <1>1, <2>2 DEF IInv, TypeOK, ReadExit, writerVars
<1>3. McsP!IInv' /\ HoldsMcs'
  BY McsFrame DEF IInv, HoldsMcs, ReadExit, mcsVars, writerVars
<1>4. WordsSay' /\ WriterKnows' /\ FlagsSay'
  BY <1>1
  DEF IInv, WordsSay, WriterKnows, FlagsSay, Stage, ReadExit, mcsVars, writerVars
<1>5. Inside' = Inside \ {r} /\ r \in Inside
  BY DEF IInv, TypeOK, Inside, ReadExit
<1>6. Ahead' = Ahead \ {r} /\ r \in Ahead
  BY DEF IInv, TypeOK, Ahead, ReadExit
<1>7. /\ Cardinality(Inside) \in 1 .. Wrap - 1 /\ Cardinality(Inside') = Cardinality(Inside) - 1
      /\ Cardinality(Ahead) \in 1 .. Wrap - 1 /\ Cardinality(Ahead') = Cardinality(Ahead) - 1
      /\ Cardinality(Ahead) = 1 => Ahead' = {}
  <2>1. Inside \in SUBSET Readers /\ Ahead \in SUBSET Readers /\ Ahead' \in SUBSET Readers
    BY <1>6 DEF Inside, Ahead
  <2>2. /\ Cardinality(Inside) \in 0 .. Wrap - 1 /\ Cardinality(Inside) # 0
        /\ Cardinality(Inside \ {r}) = Cardinality(Inside) - 1
    BY <1>5, <2>1, ReaderSets
  <2>3. /\ Cardinality(Ahead) \in 0 .. Wrap - 1 /\ Cardinality(Ahead) # 0
        /\ Cardinality(Ahead \ {r}) = Cardinality(Ahead) - 1
    BY <1>6, <2>1, ReaderSets
  <2>4. Cardinality(Ahead') = 0 => Ahead' = {}
    BY <2>1, ReaderSets
  <2> QED
    BY <1>5, <1>6, <2>2, <2>3, <2>4
<1>8. /\ r_in.n \in 0 .. Wrap - 1 /\ r_out.n \in 0 .. Wrap - 1 /\ last.n \in 0 .. Wrap - 1
      /\ Plus(last).n \in 0 .. Wrap - 1 /\ Plus(last).n = Up(last.n)
      /\ \A w \in Writers : wticket[w].n \in 0 .. Wrap - 1
  BY InRange
<1>9. UNCHANGED <<r_in, last, wpc, wticket, blocked, passed>>
  BY DEF ReadExit, writerVars, mcsVars
<1>10. \A w \in Writers : wpc[w] # "write" /\ (wpc[w] = "drain" => blocked[w])
  BY <1>6 DEF IInv, NobodyAhead, TypeOK, McsP!IInv, McsP!TypeOK
<1>11. CountsSay'
  <2>1. Gap(r_in.n, r_out'.n) = Cardinality(Inside')
    BY <1>1, <1>7, <1>8, SMTT(30) DEF IInv, CountsSay, Gap, Up
  <2>2. ASSUME NEW w \in Writers, wpc[w] \in {"last", "out"}
        PROVE  Gap(wticket[w].n, r_out'.n) = Cardinality(Ahead')
    BY <1>1, <1>7, <1>8, <2>2 DEF IInv, CountsSay, Gap, Up
  <2>3. ASSUME NEW w \in Writers, wpc[w] = "drain"
        PROVE  Gap(Plus(last).n, r_out'.n) = Cardinality(Ahead')
    BY <1>1, <1>7, <1>8, <2>3 DEF IInv, CountsSay, Gap, Up
  <2>4. ASSUME NEW w \in Writers, wpc[w] = "uout"
        PROVE  Gap(r_in.n, Plus(last).n) = Gap(r_out'.n, Plus(last).n) + Cardinality(Inside')
    BY <1>1, <1>7, <1>8, <2>4 DEF IInv, CountsSay, Gap, Up
  <2> QED
    BY <1>9, <1>10, <2>1, <2>2, <2>3, <2>4 DEF CountsSay, Plus
<1>12. \A s \in Readers : s # r => (Signaller(s)' <=> Signaller(s))
  BY <1>9 DEF IInv, TypeOK, Signaller, ReadExit
<1>13. ASSUME Signaller(r)'
       PROVE  Ahead' = {} /\ \E w \in Writers : wpc[w] = "drain" /\ blocked[w]
  <2>1. r_out.wp /\ r_out = last
    BY <1>9, <1>13 DEF IInv, TypeOK, Signaller, ReadExit
  <2>2. PICK w \in Writers : wpc[w] \in {"drain", "uout"}
    BY <1>10, <2>1 DEF IInv, WordsSay, Stage
  <2>3. wpc[w] # "uout"
    BY <1>7, <1>8, <2>1 DEF IInv, CountsSay, Gap, Up
  <2>4. Cardinality(Ahead) = 1
    BY <1>7, <1>8, <2>1, <2>2, <2>3 DEF IInv, CountsSay, Gap, Up
  <2> QED
    BY <1>7, <1>10, <2>2, <2>3, <2>4
<1>14. \A s \in Readers : ~Signaller(s)
  BY <1>6 DEF IInv, OneSignal
<1>15. OneSignal'
  BY <1>9, <1>12, <1>13, <1>14 DEF OneSignal
<1>16. NobodyAhead'
  BY <1>9, <1>10 DEF NobodyAhead
<1>17. WaitersSay'
  BY <1>9 DEF IInv, TypeOK, WaitersSay, Stage, ReadExit
<1> QED
  BY <1>2, <1>3, <1>4, <1>11, <1>15, <1>16, <1>17 DEF IInv

(* The comparison with last in pfq_rwlock_read_unlock. *)
LEMMA ReadCheckKeeps ==
  ASSUME IInv, NEW r \in Readers, ReadCheck(r)
  PROVE  IInv'
<1>2. TypeOK'
  BY DEF IInv, TypeOK, ReadCheck, RPCs, Ticket, Zero, wordVars, writerVars
<1>3. McsP!IInv' /\ HoldsMcs'
  BY McsFrame DEF IInv, HoldsMcs, ReadCheck, mcsVars, writerVars
<1>4. WordsSay' /\ WriterKnows' /\ FlagsSay'
  BY DEF IInv, WordsSay, WriterKnows, FlagsSay, Stage, ReadCheck, mcsVars, wordVars,
         writerVars
<1>5. Inside' = Inside /\ Ahead' = Ahead
  BY DEF IInv, TypeOK, Inside, Ahead, ReadCheck, wordVars
<1>6. CountsSay'
  BY <1>5 DEF IInv, CountsSay, ReadCheck, wordVars, writerVars, Plus, Gap
<1>7. \A s \in Readers : Signaller(s)' <=> Signaller(s)
  BY DEF IInv, TypeOK, Signaller, IsLast, ReadCheck, wordVars
<1>8. OneSignal' /\ NobodyAhead'
  BY <1>5, <1>7 DEF IInv, OneSignal, NobodyAhead, ReadCheck, mcsVars, writerVars
<1>9. WaitersSay'
  BY DEF IInv, TypeOK, WaitersSay, Stage, ReadCheck, wordVars, writerVars
<1> QED
  BY <1>2, <1>3, <1>4, <1>6, <1>8, <1>9 DEF IInv

(* The store of pfq_rwlock_read_unlock to whead->blocked reaches the writer  *)
(* that drains, and no other.                                                *)
LEMMA ReadSignalKeeps ==
  ASSUME IInv, NEW r \in Readers, ReadSignal(r)
  PROVE  IInv'
<1>1. Signaller(r)
  BY DEF ReadSignal, Signaller
<1>2. PICK w \in Writers : wpc[w] = "drain"
  BY <1>1 DEF IInv, OneSignal
<1>3. whead = w /\ mpc[w] = "cs" /\ Ahead = {}
  BY <1>1, <1>2 DEF IInv, WriterKnows, HoldsMcs, Holding, OneSignal
<1>4. \A v \in Writers : v # w => wpc[v] \in {"idle", "mcs"}
  BY <1>2, Alone
<1>5. /\ blocked' = [blocked EXCEPT ![w] = FALSE]
      /\ rpc' = [rpc EXCEPT ![r] = "idle"]
      /\ UNCHANGED <<tail, next, pred, mpc, place, len, r_in, r_out, last, wbr, whead,
                     wpc, wphase, wticket, rtick, passed>>
  BY <1>3 DEF ReadSignal, wordVars, writerVars
<1>6. TypeOK'
  BY <1>5 DEF IInv, TypeOK, RPCs
<1>7. McsP!IInv' /\ HoldsMcs'
  BY <1>3, <1>5, McsBlocked, Zenon DEF IInv, HoldsMcs
<1>8. WordsSay' /\ FlagsSay'
  BY <1>5, Zenon DEF IInv, WordsSay, FlagsSay, Stage
<1>9. WriterKnows'
  BY <1>2, <1>5 DEF IInv, WriterKnows, McsP!IInv, McsP!TypeOK
<1>10. Inside' = Inside /\ Ahead' = {}
  BY <1>3, <1>5 DEF IInv, TypeOK, Inside, Ahead, ReadSignal
<1>11. CountsSay'
  BY <1>3, <1>5, <1>10 DEF IInv, CountsSay, Plus, Gap
<1>12. \A s \in Readers : ~Signaller(s)'
  BY <1>1, <1>5 DEF IInv, TypeOK, OneSignal, Signaller
<1>13. OneSignal' /\ NobodyAhead'
  BY <1>10, <1>12 DEF OneSignal, NobodyAhead
<1>14. WaitersSay'
  BY <1>5 DEF IInv, TypeOK, WaitersSay, Stage, ReadSignal
<1> QED
  BY <1>6, <1>7, <1>8, <1>9, <1>11, <1>13, <1>14 DEF IInv

-----------------------------------------------------------------------------
(* Steps of writers. *)

(* What is said of the readers does not change while a writer changes        *)
(* neither their state nor the phase of r_in nor last.                       *)
LEMMA ReadersFrame ==
  ASSUME UNCHANGED <<rpc, rtick, last>>, r_in'.phase = r_in.phase
  PROVE  /\ Inside' = Inside /\ Ahead' = Ahead
         /\ \A r \in Readers : Signaller(r)' <=> Signaller(r)
  BY DEF Inside, Ahead, Signaller

(* mcs_lock in pfq_rwlock_write_lock. *)
LEMMA WriteMcsKeeps ==
  ASSUME IInv, NEW w \in Writers, WriteMcs(w)
  PROVE  IInv'
<1>1. /\ wpc[w] \in {"idle", "mcs"}
      /\ Mcs!LockSwap(w) \/ Mcs!Wait(w)
      /\ wpc' = [wpc EXCEPT ![w] = IF mpc'[w] = "cs" THEN "block" ELSE "mcs"]
      /\ UNCHANGED <<r_in, r_out, last, wbr, whead, rpc, rtick, passed, wphase, wticket>>
  BY DEF WriteMcs, WGoto, Others, wordVars, readerVars
<1>2. McsP!IInv'
  BY <1>1, McsSteps, McsP!NextIInv, ThreadsAssumption DEF IInv
<1>3. /\ mpc' = [mpc EXCEPT ![w] = mpc'[w]] /\ mpc'[w] \in {"cs", "block", "link", "spin"}
      /\ \A v \in Writers : v # w => blocked'[v] = blocked[v]
  BY <1>1
  DEF Mcs!LockSwap, Mcs!Wait, Mcs!LockBlock, Mcs!LockLink, Mcs!LockSpin, Mcs!Goto,
      Mcs!AfterSwap, IInv, McsP!IInv, McsP!TypeOK
<1>4. wpc'[w] \in {"block", "mcs"} /\ \A v \in Writers : v # w => wpc'[v] = wpc[v]
  BY <1>1 DEF IInv, TypeOK
<1>5. TypeOK'
  BY <1>1 DEF IInv, TypeOK, WPCs, Holding
<1>6. HoldsMcs'
  BY <1>1, <1>3, <1>4 DEF IInv, TypeOK, HoldsMcs, Holding, McsP!IInv, McsP!TypeOK
<1>7. WordsSay' /\ FlagsSay'
  BY <1>1, <1>4, Zenon DEF IInv, WordsSay, FlagsSay, Stage
<1>8. WriterKnows'
  BY <1>1, <1>3, <1>4 DEF IInv, WriterKnows
<1>9. /\ Inside' = Inside /\ Ahead' = Ahead
      /\ \A r \in Readers : Signaller(r)' <=> Signaller(r)
  BY <1>1, ReadersFrame
<1>10. CountsSay'
  BY <1>1, <1>4, <1>9 DEF IInv, CountsSay, Plus, Gap
<1>11. OneSignal' /\ NobodyAhead'
  BY <1>1, <1>3, <1>4, <1>9, Zenon DEF IInv, OneSignal, NobodyAhead
<1>12. WaitersSay'
  BY <1>1, <1>4 DEF IInv, WaitersSay, Stage
<1> QED
  BY <1>2, <1>5, <1>6, <1>7, <1>8, <1>10, <1>11, <1>12, Zenon DEF IInv

(* The store to me->blocked in pfq_rwlock_write_lock. *)
LEMMA WriteBlockKeeps ==
  ASSUME IInv, NEW w \in Writers, WriteBlock(w)
  PROVE  IInv'
<1>1. /\ wpc[w] = "block" /\ wpc' = [wpc EXCEPT ![w] = "head"]
      /\ blocked' = [blocked EXCEPT ![w] = TRUE]
      /\ UNCHANGED <<tail, next, pred, mpc, place, len>>
      /\ UNCHANGED <<r_in, r_out, last, wbr, whead, rpc, rtick, passed, wphase, wticket>>
  BY DEF WriteBlock, Block, WGoto, Others, wordVars, readerVars
<1>2. \A v \in Writers : v # w => wpc[v] \in {"idle", "mcs"}
  BY <1>1, Alone
<1>3. wpc'[w] = "head" /\ blocked'[w] /\ \A v \in Writers : v # w => wpc'[v] = wpc[v]
  BY <1>1 DEF IInv, TypeOK, McsP!IInv, McsP!TypeOK
<1>4. mpc[w] = "cs"
  BY <1>1, Zenon DEF IInv, HoldsMcs, Holding
<1>5. TypeOK'
  BY <1>1 DEF IInv, TypeOK, WPCs, Holding
<1>6. McsP!IInv'
  BY <1>1, <1>4, McsBlocked, Zenon DEF IInv
<1>7. HoldsMcs'
  BY <1>1, <1>3, <1>4 DEF IInv, HoldsMcs, Holding
<1>8. WordsSay' /\ FlagsSay'
  BY <1>1, <1>2, <1>3, Zenon DEF IInv, WordsSay, FlagsSay, Stage
<1>9. WriterKnows'
  BY <1>2, <1>3 DEF WriterKnows
<1>10. /\ Inside' = Inside /\ Ahead' = Ahead
       /\ \A r \in Readers : ~Signaller(r)'
  BY <1>1, <1>2, ReadersFrame DEF IInv, OneSignal
<1>11. CountsSay'
  BY <1>1, <1>2, <1>3, <1>10 DEF IInv, CountsSay, Plus, Gap
<1>12. OneSignal' /\ NobodyAhead'
  BY <1>2, <1>3, <1>10 DEF OneSignal, NobodyAhead
<1>13. WaitersSay'
  BY <1>1, <1>2, <1>3 DEF IInv, WaitersSay, Stage
<1> QED
  BY <1>5, <1>6, <1>7, <1>8, <1>9, <1>11, <1>12, <1>13 DEF IInv

(* A writer that has the MCS lock goes from stage to stage; the others stay  *)
(* where they are, outside the lock's code or waiting in the queue.          *)
LEMMA HolderMoves ==
  ASSUME IInv, NEW w \in Writers, NEW l \in Holding \cup {"umcs"},
         wpc[w] \in Holding, wpc' = [wpc EXCEPT ![w] = l], UNCHANGED mcsVars
  PROVE  /\ McsP!IInv' /\ HoldsMcs'
         /\ wpc' \in [Writers -> WPCs]
         /\ wpc'[w] = l /\ blocked' = blocked
         /\ \A v \in Writers : v # w => wpc[v] \in {"idle", "mcs"} /\ wpc'[v] = wpc[v]
<1>1. wpc'[w] = l /\ \A v \in Writers : v # w => wpc'[v] = wpc[v]
  BY DEF IInv, TypeOK
<1>2. l \notin {"idle", "mcs"} /\ wpc[w] \notin {"idle", "mcs"}
  BY DEF Holding
<1>3. HoldsMcs'
  BY <1>1, <1>2 DEF IInv, HoldsMcs, mcsVars, Holding
<1>4. \A v \in Writers : v # w => wpc[v] \in {"idle", "mcs"}
  BY <1>2, Alone
<1>5. wpc' \in [Writers -> WPCs]
  BY DEF IInv, TypeOK, WPCs
<1> QED
  BY <1>1, <1>3, <1>4, <1>5, McsFrame DEF mcsVars

(* l->whead = me *)
LEMMA WriteHeadKeeps ==
  ASSUME IInv, NEW w \in Writers, WriteHead(w)
  PROVE  IInv'
<1>1. /\ wpc[w] = "head" /\ wpc' = [wpc EXCEPT ![w] = "flag"] /\ whead' = w
      /\ UNCHANGED mcsVars
      /\ UNCHANGED <<r_in, r_out, last, wbr, rpc, rtick, passed, wphase, wticket>>
  BY DEF WriteHead, WGoto, Others, wordVars, readerVars
<1>2. /\ McsP!IInv' /\ HoldsMcs'
      /\ wpc' \in [Writers -> WPCs]
      /\ wpc'[w] = "flag" /\ blocked' = blocked
      /\ \A v \in Writers : v # w => wpc[v] \in {"idle", "mcs"} /\ wpc'[v] = wpc[v]
  BY <1>1, HolderMoves, Zenon DEF Holding
<1>3. TypeOK'
  BY <1>1, <1>2 DEF IInv, TypeOK
<1>4. WordsSay' /\ FlagsSay'
  BY <1>1, <1>2, Zenon DEF IInv, WordsSay, FlagsSay, Stage
<1>5. WriterKnows'
  BY <1>1, <1>2 DEF IInv, WriterKnows
<1>6. Inside' = Inside /\ Ahead' = Ahead /\ \A r \in Readers : ~Signaller(r)'
  BY <1>1, <1>2, ReadersFrame DEF IInv, OneSignal
<1>7. CountsSay'
  BY <1>1, <1>2, <1>6 DEF IInv, CountsSay, Plus, Gap
<1>8. OneSignal' /\ NobodyAhead'
  BY <1>2, <1>6 DEF OneSignal, NobodyAhead
<1>9. WaitersSay'
  BY <1>1, <1>2 DEF IInv, WaitersSay, Stage
<1> QED
  BY <1>2, <1>3, <1>4, <1>5, <1>7, <1>8, <1>9 DEF IInv

(* The flag of the phase is set: new readers will wait once they see         *)
(* WRITER_PRESENT.                                                           *)
LEMMA WriteFlagKeeps ==
  ASSUME IInv, NEW w \in Writers, WriteFlag(w)
  PROVE  IInv'
<1>1. /\ wpc[w] = "flag" /\ wpc' = [wpc EXCEPT ![w] = "in"]
      /\ wbr' = [wbr EXCEPT ![r_in.phase] = TRUE]
      /\ UNCHANGED mcsVars
      /\ UNCHANGED <<r_in, r_out, last, whead, rpc, rtick, passed, wphase, wticket>>
  BY DEF WriteFlag, WGoto, Others, wordVars, readerVars
<1>2. /\ McsP!IInv' /\ HoldsMcs'
      /\ wpc' \in [Writers -> WPCs]
      /\ wpc'[w] = "in" /\ blocked' = blocked
      /\ \A v \in Writers : v # w => wpc[v] \in {"idle", "mcs"} /\ wpc'[v] = wpc[v]
  BY <1>1, HolderMoves, Zenon DEF Holding
<1>3. TypeOK'
  BY <1>1, <1>2, Zenon DEF IInv, TypeOK
<1>4. WordsSay'
  BY <1>1, <1>2 DEF IInv, WordsSay, Stage
<1>5. FlagsSay'
  <2>1. r_in.phase \in {0, 1} /\ wbr \in [{0, 1} -> BOOLEAN]
    BY DEF IInv, TypeOK, Ticket
  <2>2. \A p \in {0, 1} : ~wbr[p]
    BY <1>1, <1>2, Zenon DEF IInv, FlagsSay, Stage
  <2> QED
    BY <1>1, <1>2, <2>1, <2>2 DEF FlagsSay, Stage
<1>6. WriterKnows'
  BY <1>1, <1>2 DEF IInv, WriterKnows
<1>7. Inside' = Inside /\ Ahead' = Ahead /\ \A r \in Readers : ~Signaller(r)'
  BY <1>1, <1>2, ReadersFrame DEF IInv, OneSignal
<1>8. CountsSay'
  BY <1>1, <1>2, <1>7 DEF IInv, CountsSay, Plus, Gap
<1>9. OneSignal' /\ NobodyAhead'
  BY <1>2, <1>7, Zenon DEF OneSignal, NobodyAhead
<1>10. WaitersSay'
  BY <1>1, <1>2 DEF IInv, WaitersSay, Stage
<1> QED
  BY <1>2, <1>3, <1>4, <1>5, <1>6, <1>8, <1>9, <1>10 DEF IInv

(* WRITER_PRESENT is set in r_in: everybody inside at this moment is ahead   *)
(* of the writer.                                                            *)
LEMMA WriteInKeeps ==
  ASSUME IInv, NEW w \in Writers, WriteIn(w)
  PROVE  IInv'
<1>1. /\ wpc[w] = "in" /\ wpc' = [wpc EXCEPT ![w] = "last"]
      /\ wticket' = [wticket EXCEPT ![w] = r_in]
      /\ r_in' \in Ticket /\ r_in'.n = r_in.n /\ r_in'.phase = r_in.phase /\ r_in'.wp
      /\ UNCHANGED mcsVars
      /\ UNCHANGED <<r_out, last, wbr, whead, rpc, rtick, passed, wphase>>
  BY Words DEF WriteIn, WGoto, Others, readerVars, IInv, TypeOK
<1>2. /\ McsP!IInv' /\ HoldsMcs'
      /\ wpc' \in [Writers -> WPCs]
      /\ wpc'[w] = "last" /\ blocked' = blocked
      /\ \A v \in Writers : v # w => wpc[v] \in {"idle", "mcs"} /\ wpc'[v] = wpc[v]
  BY <1>1, HolderMoves, Zenon DEF Holding
<1>3. ~r_in.wp
  BY <1>1, <1>2, Zenon DEF IInv, WordsSay, Stage
<1>4. TypeOK'
  BY <1>1, <1>2, Zenon DEF IInv, TypeOK
<1>5. WordsSay' /\ FlagsSay'
  <2>1. WordsSay'
    BY <1>1, <1>2, Zenon DEF IInv, WordsSay, Stage
  <2>2. FlagsSay'
    BY <1>1, <1>2, Zenon DEF IInv, FlagsSay, Stage
  <2> QED
    BY <2>1, <2>2
<1>6. wticket'[w] = r_in
  BY <1>1, Zenon DEF IInv, TypeOK
<1>7. WriterKnows'
  <2>1. ASSUME NEW v \in Writers, wpc'[v] \notin {"idle", "mcs"}
        PROVE  v = w
    BY <1>2, <2>1
  <2>2. wticket'[w].phase = r_in'.phase /\ ~wticket'[w].wp
    BY <1>1, <1>3, <1>6
  <2>3. blocked'[w] /\ whead' = w
    BY <1>1, <1>2, Zenon DEF IInv, WriterKnows
  <2> QED
    BY <1>2, <2>1, <2>2, <2>3, Zenon DEF WriterKnows
<1>8. Inside' = Inside /\ Ahead' = Ahead /\ \A r \in Readers : ~Signaller(r)'
  BY <1>1, <1>2, ReadersFrame, Zenon DEF IInv, OneSignal
<1>9. Ahead = Inside
  BY <1>3, Zenon DEF IInv, WaitersSay, Ahead, Inside
<1>10. CountsSay'
  BY <1>1, <1>2, <1>6, <1>8, <1>9 DEF IInv, CountsSay, Gap
<1>11. OneSignal' /\ NobodyAhead'
  BY <1>2, <1>8, Zenon DEF OneSignal, NobodyAhead
<1>12. WaitersSay'
  BY <1>1, <1>2, <1>3, Zenon DEF IInv, WaitersSay, Stage
<1> QED
  BY <1>2, <1>4, <1>5, <1>7, <1>10, <1>11, <1>12 DEF IInv

(* The store to last, when no reader that still has a comparison to make     *)
(* holds that very ticket.                                                   *)
LEMMA WriteLastKeeps ==
  ASSUME IInv, NEW w \in Writers, WriteLast(w), ~stalled'
  PROVE  IInv'
<1>1. /\ wpc[w] = "last" /\ wpc' = [wpc EXCEPT ![w] = "out"]
      /\ ~Stale(w)
      /\ last' = LastTicket(wticket[w])
      /\ UNCHANGED mcsVars
      /\ UNCHANGED <<r_in, r_out, wbr, whead, rpc, rtick, passed, wphase, wticket>>
  BY DEF WriteLast, WGoto, Others, readerVars
<1>2. /\ McsP!IInv' /\ HoldsMcs'
      /\ wpc' \in [Writers -> WPCs]
      /\ wpc'[w] = "out" /\ blocked' = blocked
      /\ \A v \in Writers : v # w => wpc[v] \in {"idle", "mcs"} /\ wpc'[v] = wpc[v]
  BY <1>1, HolderMoves, Zenon DEF Holding
<1>3. TypeOK'
  BY <1>1, <1>2, Words, Zenon DEF IInv, TypeOK
<1>4. WordsSay' /\ FlagsSay'
  BY <1>1, <1>2 DEF IInv, WordsSay, FlagsSay, Stage
<1>5. WriterKnows'
  BY <1>1, <1>2, Zenon DEF IInv, WriterKnows, LastTicket, Present
<1>6. Inside' = Inside /\ Ahead' = Ahead
  BY <1>1 DEF Inside, Ahead
<1>7. \A r \in Readers : ~Signaller(r)'
  BY <1>1, <1>2 DEF IInv, OneSignal, Signaller, Stale
<1>8. CountsSay'
  BY <1>1, <1>2, <1>6, Zenon DEF IInv, CountsSay, Gap
<1>9. OneSignal' /\ NobodyAhead'
  BY <1>2, <1>7 DEF OneSignal, NobodyAhead
<1>10. WaitersSay'
  BY <1>1, <1>2 DEF IInv, WaitersSay, Stage
<1> QED
  BY <1>2, <1>3, <1>4, <1>5, <1>8, <1>9, <1>10 DEF IInv

(* A writer begins: the readers that wait have come for its phase, and this  *)
(* is the first writer to go ahead of them.                                  *)
LEMMA OvertakeOnce ==
  ASSUME IInv, NEW w \in Writers, wpc[w] \in {"out", "drain"}, Ahead = {},
         \A v \in Writers : v # w => wpc[v] \in {"idle", "mcs"}, Overtake
  PROVE  /\ passed' \in [Readers -> Nat]
         /\ \A r \in Readers : /\ rpc[r] # "wait" => passed'[r] = 0
                               /\ passed'[r] <= 1
<1>1. ~Stage({"write"})
  BY DEF Stage
<1>2. \A r \in Readers : passed[r] = 0 /\ passed[r] \in Nat
  BY <1>1 DEF IInv, TypeOK, WaitersSay, Ahead
<1>3. \A r \in Readers : passed'[r] = IF rpc[r] = "wait" THEN 1 ELSE 0
  BY <1>2 DEF Overtake
<1> QED
  BY <1>3 DEF Overtake

(* WRITER_PRESENT is set in r_out.  If the word was the writer's ticket,     *)
(* nobody was ahead any more; if not, the last reader ahead will signal.     *)
LEMMA WriteOutKeeps ==
  ASSUME IInv, NEW w \in Writers, WriteOut(w)
  PROVE  IInv'
<1> DEFINE now == IF wticket[w] = r_out THEN "write" ELSE "drain"
<1>1. /\ wpc[w] = "out" /\ wpc' = [wpc EXCEPT ![w] = now]
      /\ r_out' \in Ticket /\ r_out'.n = r_out.n /\ r_out'.phase = r_out.phase /\ r_out'.wp
      /\ wticket' = [wticket EXCEPT ![w] = Zero]
      /\ UNCHANGED mcsVars
      /\ UNCHANGED <<r_in, last, wbr, whead, rpc, rtick, wphase>>
  BY Words DEF WriteOut, WGoto, IInv, TypeOK
<1>2. now \in {"write", "drain"}
  OBVIOUS
<1>3. /\ McsP!IInv' /\ HoldsMcs'
      /\ wpc' \in [Writers -> WPCs]
      /\ wpc'[w] = now /\ blocked' = blocked
      /\ \A v \in Writers : v # w => wpc[v] \in {"idle", "mcs"} /\ wpc'[v] = wpc[v]
  BY <1>1, <1>2, HolderMoves, Zenon DEF Holding
<1>4. Inside' = Inside /\ Ahead' = Ahead /\ \A r \in Readers : ~Signaller(r)'
  BY <1>1, <1>3, ReadersFrame, Zenon DEF IInv, OneSignal
<1>5. now = "write" => Ahead = {}
  <2>1. Ahead \in SUBSET Readers
    BY DEF Ahead
  <2>2. wticket[w] = r_out => Gap(wticket[w].n, r_out.n) = 0
    BY InRange DEF Gap
  <2>3. Gap(wticket[w].n, r_out.n) = Cardinality(Ahead)
    BY <1>1 DEF IInv, CountsSay
  <2> QED
    BY <2>1, <2>2, <2>3, ReaderSets
<1>6. /\ passed' \in [Readers -> Nat]
      /\ \A r \in Readers : /\ rpc[r] # "wait" => passed'[r] = 0
                            /\ passed'[r] <= 1
                            /\ now = "drain" => passed'[r] = passed[r]
  <2>1. CASE wticket[w] = r_out
    BY <1>1, <1>3, <1>5, <2>1, OvertakeOnce DEF WriteOut
  <2>2. CASE wticket[w] # r_out
    BY <2>2, Zenon DEF WriteOut, IInv, TypeOK, WaitersSay
  <2> QED
    BY <2>1, <2>2
<1>7. TypeOK'
  <2>1. Zero \in Ticket
    BY DEF Zero, Ticket
  <2> QED
    BY <1>1, <1>3, <1>6, <2>1, Zenon DEF IInv, TypeOK
<1>8. WordsSay' /\ FlagsSay'
  BY <1>1, <1>2, <1>3 DEF IInv, WordsSay, FlagsSay, Stage
<1>9. last = LastTicket(wticket[w]) /\ wticket[w] \in Ticket
  BY <1>1 DEF IInv, WriterKnows, TypeOK
<1>10. WriterKnows'
  <2>1. last.wp /\ last.phase = wticket[w].phase
    BY <1>9, Words
  <2>2. wticket[w].phase = r_in.phase /\ whead = w
    BY <1>1, Zenon DEF IInv, WriterKnows
  <2>3. r_out.phase = r_in.phase
    BY <1>1, <1>3, Zenon DEF IInv, WordsSay, Stage
  <2> QED
    BY <1>1, <1>2, <1>3, <2>1, <2>2, <2>3, Zenon DEF WriterKnows
<1>11. CountsSay'
  <2>1. Plus(last).n = wticket[w].n
    BY <1>9, Words
  <2>2. Plus(last)' = Plus(last)
    BY <1>1 DEF Plus
  <2> QED
    BY <1>1, <1>2, <1>3, <1>4, <2>1, <2>2, Zenon DEF IInv, CountsSay, Gap
<1>12. OneSignal'
  BY <1>4, Zenon DEF OneSignal
<1>13. NobodyAhead'
  BY <1>1, <1>2, <1>3, <1>4, <1>5, Zenon DEF IInv, WriterKnows, NobodyAhead
<1>14. WaitersSay'
  BY <1>1, <1>2, <1>3, <1>6, ZenonT(30) DEF IInv, WaitersSay, Stage
<1> QED
  BY <1>3, <1>7, <1>8, <1>10, <1>11, <1>12, <1>13, <1>14 DEF IInv

(* The spin of pfq_rwlock_write_lock ends. *)
LEMMA WriteDrainKeeps ==
  ASSUME IInv, NEW w \in Writers, WriteDrain(w)
  PROVE  IInv'
<1>1. /\ wpc[w] = "drain" /\ wpc' = [wpc EXCEPT ![w] = "write"] /\ ~blocked[w]
      /\ UNCHANGED mcsVars
      /\ UNCHANGED <<r_in, r_out, last, wbr, whead, rpc, rtick, wphase, wticket>>
  BY DEF WriteDrain, WGoto, wordVars
<1>2. /\ McsP!IInv' /\ HoldsMcs'
      /\ wpc' \in [Writers -> WPCs]
      /\ wpc'[w] = "write" /\ blocked' = blocked
      /\ \A v \in Writers : v # w => wpc[v] \in {"idle", "mcs"} /\ wpc'[v] = wpc[v]
  BY <1>1, HolderMoves, Zenon DEF Holding
<1>3. Ahead = {}
  BY <1>1 DEF IInv, NobodyAhead
<1>4. /\ passed' \in [Readers -> Nat]
      /\ \A r \in Readers : /\ rpc[r] # "wait" => passed'[r] = 0
                            /\ passed'[r] <= 1
  BY <1>1, <1>2, <1>3, OvertakeOnce DEF WriteDrain
<1>5. TypeOK'
  BY <1>1, <1>2, <1>4, Zenon DEF IInv, TypeOK
<1>6. WordsSay' /\ FlagsSay'
  BY <1>1, <1>2 DEF IInv, WordsSay, FlagsSay, Stage
<1>7. WriterKnows'
  BY <1>1, <1>2, Zenon DEF IInv, WriterKnows
<1>8. Inside' = Inside /\ Ahead' = Ahead /\ \A r \in Readers : ~Signaller(r)'
  <2>1. \A r \in Readers : ~Signaller(r)
    BY <1>1, <1>2 DEF IInv, OneSignal
  <2> QED
    BY <1>1, <2>1, ReadersFrame
<1>9. CountsSay'
  BY <1>1, <1>2, <1>8 DEF IInv, CountsSay, Plus, Gap
<1>10. OneSignal' /\ NobodyAhead'
  BY <1>2, <1>3, <1>8, Zenon DEF OneSignal, NobodyAhead
<1>11. WaitersSay'
  BY <1>1, <1>2, <1>4 DEF IInv, WaitersSay, Stage
<1> QED
  BY <1>2, <1>5, <1>6, <1>7, <1>9, <1>10, <1>11 DEF IInv

(* The first toggle of pfq_rwlock_write_unlock.  Everybody inside waits for  *)
(* the phase that ends, so the next writer will have to wait for them.       *)
LEMMA UnlockInKeeps ==
  ASSUME IInv, NEW w \in Writers, UnlockIn(w)
  PROVE  IInv'
<1>1. /\ wpc[w] = "write" /\ wpc' = [wpc EXCEPT ![w] = "uout"]
      /\ wphase' = [wphase EXCEPT ![w] = r_in.phase]
      /\ r_in' \in Ticket /\ r_in'.n = r_in.n /\ r_in'.phase = 1 - r_in.phase
      /\ r_in'.wp <=> ~r_in.wp
      /\ UNCHANGED mcsVars
      /\ UNCHANGED <<r_out, last, wbr, whead, rpc, rtick, passed, wticket>>
  BY Words DEF UnlockIn, WGoto, readerVars, IInv, TypeOK
<1>2. /\ McsP!IInv' /\ HoldsMcs'
      /\ wpc' \in [Writers -> WPCs]
      /\ wpc'[w] = "uout" /\ blocked' = blocked
      /\ \A v \in Writers : v # w => wpc[v] \in {"idle", "mcs"} /\ wpc'[v] = wpc[v]
  BY <1>1, HolderMoves, Zenon DEF Holding
<1>3. r_in.phase \in {0, 1} /\ r_out.phase \in {0, 1}
  BY Zenon DEF IInv, TypeOK, Ticket
<1>4. TypeOK'
  BY <1>1, <1>2, <1>3 DEF IInv, TypeOK
<1>5. r_in.wp /\ r_out.wp /\ r_out.phase = r_in.phase
  BY <1>1, <1>2, Zenon DEF IInv, WordsSay, Stage
<1>6. WordsSay'
  BY <1>1, <1>2, <1>3, <1>5 DEF WordsSay, Stage
<1>7. FlagsSay'
  <2>1. \A p \in {0, 1} : wbr[p] <=> p = r_in.phase
    BY <1>1, <1>2 DEF IInv, FlagsSay, Stage
  <2> QED
    BY <1>1, <1>2, <1>3, <2>1 DEF FlagsSay, Stage
<1>8. wphase'[w] = r_in.phase
  BY <1>1, Zenon DEF IInv, TypeOK
<1>9. WriterKnows'
  <2>1. wphase'[w] = 1 - r_in'.phase
    BY <1>1, <1>3, <1>8
  <2>2. last.wp /\ last.phase = r_out.phase
    BY <1>1, Zenon DEF IInv, WriterKnows
  <2> QED
    BY <1>1, <1>2, <2>1, <2>2, Zenon DEF WriterKnows
<1>10. Ahead = {} /\ \A r \in Readers : ~Signaller(r)'
  BY <1>1, <1>2, Zenon DEF IInv, NobodyAhead, OneSignal, Signaller
<1>11. Inside' = Inside
  BY <1>1, Zenon DEF Inside
<1>12. CountsSay'
  <2>1. Cardinality(Ahead) = 0
    BY <1>10, FS_EmptySet
  <2>2. /\ r_in.n \in 0 .. Wrap - 1 /\ r_out.n \in 0 .. Wrap - 1
        /\ Plus(last).n \in 0 .. Wrap - 1
    BY InRange
  <2>3. Plus(last).n = r_out.n
    <3>1. Gap(Plus(last).n, r_out.n) = 0
      BY <1>1, <2>1, Zenon DEF IInv, CountsSay
    <3> QED
      BY <2>2, <3>1 DEF Gap
  <2>4. Gap(r_out.n, Plus(last).n) = 0
    BY <2>2, <2>3 DEF Gap
  <2>5. Gap(r_in.n, r_out.n) = Cardinality(Inside)
    BY Zenon DEF IInv, CountsSay
  <2>6. Gap(r_in.n, r_out.n) \in Int
    BY <2>2 DEF Gap
  <2>7. Plus(last)' = Plus(last)
    BY <1>1 DEF Plus
  <2>8. Gap(r_in.n, Plus(last).n) = Gap(r_out.n, Plus(last).n) + Cardinality(Inside)
    BY <2>3, <2>4, <2>5, <2>6
  <2> QED
    BY <1>1, <1>2, <1>11, <2>5, <2>7, <2>8 DEF CountsSay
<1>13. OneSignal' /\ NobodyAhead'
  BY <1>2, <1>10 DEF OneSignal, NobodyAhead
<1>14. WaitersSay'
  <2>1. \A r \in Readers : rpc[r] = "wait" => rtick[r].phase = r_in.phase
    BY <1>10 DEF Ahead
  <2>2. r_in'.phase # r_in.phase
    <3>1. r_in'.phase = 1 - r_in.phase /\ (r_in.phase = 0 \/ r_in.phase = 1)
      BY <1>1, <1>3, Zenon
    <3> QED
      BY <3>1, SMTT(30)
  <2> QED
    BY <1>1, <2>1, <2>2, Zenon DEF IInv, WaitersSay
<1> QED
  BY <1>2, <1>4, <1>6, <1>7, <1>9, <1>12, <1>13, <1>14 DEF IInv

(* The second toggle: the two words agree on the phase again. *)
LEMMA UnlockOutKeeps ==
  ASSUME IInv, NEW w \in Writers, UnlockOut(w)
  PROVE  IInv'
<1>1. /\ wpc[w] = "uout" /\ wpc' = [wpc EXCEPT ![w] = "uflag"]
      /\ r_out' \in Ticket /\ r_out'.n = r_out.n /\ r_out'.phase = 1 - r_out.phase
      /\ r_out'.wp <=> ~r_out.wp
      /\ UNCHANGED mcsVars
      /\ UNCHANGED <<r_in, last, wbr, whead, rpc, rtick, passed, wphase, wticket>>
  BY Words DEF UnlockOut, WGoto, Others, readerVars, IInv, TypeOK
<1>2. /\ McsP!IInv' /\ HoldsMcs'
      /\ wpc' \in [Writers -> WPCs]
      /\ wpc'[w] = "uflag" /\ blocked' = blocked
      /\ \A v \in Writers : v # w => wpc[v] \in {"idle", "mcs"} /\ wpc'[v] = wpc[v]
  BY <1>1, HolderMoves, Zenon DEF Holding
<1>3. r_in.phase \in {0, 1} /\ r_out.phase \in {0, 1}
  BY DEF IInv, TypeOK, Ticket
<1>4. TypeOK'
  BY <1>1, <1>2, Zenon DEF IInv, TypeOK
<1>5. ~r_in.wp /\ r_out.wp /\ r_out.phase # r_in.phase
  BY <1>1, <1>2, Zenon DEF IInv, WordsSay, Stage
<1>6. WordsSay'
  <2>1. r_out'.phase = r_in.phase
    <3>1. /\ r_out'.phase = 1 - r_out.phase /\ r_out.phase # r_in.phase
          /\ (r_in.phase = 0 \/ r_in.phase = 1) /\ (r_out.phase = 0 \/ r_out.phase = 1)
      BY <1>1, <1>3, <1>5, Zenon
    <3> QED
      BY <3>1, SMTT(30)
  <2>2. \A v \in Writers : wpc'[v] \notin {"last", "out", "drain", "write", "uout"}
    BY <1>2, Zenon
  <2> QED
    BY <1>1, <1>5, <2>1, <2>2, Zenon DEF WordsSay, Stage
<1>7. FlagsSay' /\ WriterKnows'
  BY <1>1, <1>2, ZenonT(30) DEF IInv, FlagsSay, WriterKnows, Stage
<1>8. Inside' = Inside /\ Ahead' = Ahead /\ \A r \in Readers : ~Signaller(r)'
  BY <1>1, <1>2, ReadersFrame, Zenon DEF IInv, OneSignal
<1>9. CountsSay'
  BY <1>1, <1>2, <1>8, Zenon DEF IInv, CountsSay, Gap
<1>10. OneSignal' /\ NobodyAhead'
  BY <1>2, <1>8, Zenon DEF OneSignal, NobodyAhead
<1>11. WaitersSay'
  BY <1>1, <1>2, <1>5, Zenon DEF IInv, WaitersSay
<1> QED
  BY <1>2, <1>4, <1>6, <1>7, <1>9, <1>10, <1>11 DEF IInv

(* The readers that wait for the phase that has ended are let in. *)
LEMMA UnlockFlagKeeps ==
  ASSUME IInv, NEW w \in Writers, UnlockFlag(w)
  PROVE  IInv'
<1>1. /\ wpc[w] = "uflag" /\ wpc' = [wpc EXCEPT ![w] = "umcs"]
      /\ wbr' = [wbr EXCEPT ![wphase[w]] = FALSE]
      /\ wphase' = [wphase EXCEPT ![w] = 0]
      /\ UNCHANGED mcsVars
      /\ UNCHANGED <<r_in, r_out, last, whead, rpc, rtick, passed, wticket>>
  BY DEF UnlockFlag, WGoto, wordVars, readerVars
<1>2. /\ McsP!IInv' /\ HoldsMcs'
      /\ wpc' \in [Writers -> WPCs]
      /\ wpc'[w] = "umcs" /\ blocked' = blocked
      /\ \A v \in Writers : v # w => wpc[v] \in {"idle", "mcs"} /\ wpc'[v] = wpc[v]
  BY <1>1, HolderMoves, Zenon DEF Holding
<1>3. TypeOK'
  BY <1>1, <1>2, Zenon DEF IInv, TypeOK
<1>4. WordsSay' /\ WriterKnows'
  BY <1>1, <1>2, Zenon DEF IInv, WordsSay, WriterKnows, Stage
<1>5. FlagsSay'
  <2>1. /\ r_in.phase \in {0, 1} /\ wphase[w] = 1 - r_in.phase
        /\ wbr \in [{0, 1} -> BOOLEAN]
    BY <1>1 DEF IInv, TypeOK, Ticket, WriterKnows
  <2>2. \A p \in {0, 1} : wbr[p] <=> p # r_in.phase
    BY <1>1, <1>2 DEF IInv, FlagsSay, Stage
  <2>3. \A p \in {0, 1} : ~wbr'[p]
    BY <1>1, <2>1, <2>2
  <2> QED
    BY <1>2, <2>3 DEF FlagsSay, Stage
<1>6. Inside' = Inside /\ Ahead' = Ahead /\ \A r \in Readers : ~Signaller(r)'
  BY <1>1, <1>2, ReadersFrame DEF IInv, OneSignal
<1>7. CountsSay'
  BY <1>1, <1>2, <1>6 DEF IInv, CountsSay, Plus, Gap
<1>8. OneSignal' /\ NobodyAhead'
  BY <1>2, <1>6 DEF OneSignal, NobodyAhead
<1>9. WaitersSay'
  BY <1>1, <1>2 DEF IInv, WaitersSay, Stage
<1> QED
  BY <1>2, <1>3, <1>4, <1>5, <1>7, <1>8, <1>9 DEF IInv

(* mcs_unlock in pfq_rwlock_write_unlock.  The other writers are outside or  *)
(* in the queue, so the store to the next one's blocked field is the MCS     *)
(* lock's own signal and is not taken for a reader's.                        *)
LEMMA UnlockMcsKeeps ==
  ASSUME IInv, NEW w \in Writers, UnlockMcs(w)
  PROVE  IInv'
<1>1. /\ wpc[w] = "umcs"
      /\ Mcs!Unlock(w)
      /\ wpc' = [wpc EXCEPT ![w] = IF mpc'[w] = "idle" THEN "idle" ELSE "umcs"]
      /\ UNCHANGED <<r_in, r_out, last, wbr, whead, rpc, rtick, passed, wphase, wticket>>
  BY DEF UnlockMcs, WGoto, Others, wordVars, readerVars
<1>2. McsP!IInv'
  BY <1>1, McsSteps, McsP!NextIInv, ThreadsAssumption DEF IInv
<1>3. /\ mpc' = [mpc EXCEPT ![w] = mpc'[w]]
      /\ mpc'[w] \in {"idle", "cas", "await", "signal"}
  BY <1>1
  DEF Mcs!Unlock, Mcs!UnlockLoad, Mcs!UnlockCas, Mcs!UnlockAwait, Mcs!UnlockSignal,
      Mcs!Goto, IInv, McsP!IInv, McsP!TypeOK
<1>4. /\ wpc'[w] \in {"idle", "umcs"}
      /\ \A v \in Writers : v # w => wpc'[v] = wpc[v] /\ wpc[v] \in {"idle", "mcs"}
  BY <1>1, Alone, Zenon DEF IInv, TypeOK
<1>5. TypeOK'
  BY <1>1 DEF IInv, TypeOK, WPCs
<1>6. HoldsMcs'
  BY <1>1, <1>3, <1>4, SMTT(30) DEF IInv, TypeOK, HoldsMcs, Holding, McsP!IInv, McsP!TypeOK
<1>7. WordsSay' /\ FlagsSay'
  BY <1>1, <1>4 DEF IInv, WordsSay, FlagsSay, Stage
<1>8. WriterKnows'
  BY <1>4 DEF WriterKnows
<1>9. Inside' = Inside /\ Ahead' = Ahead /\ \A r \in Readers : ~Signaller(r)'
  BY <1>1, <1>4, ReadersFrame DEF IInv, OneSignal
<1>10. CountsSay'
  BY <1>1, <1>4, <1>9, Zenon DEF IInv, CountsSay, Gap
<1>11. OneSignal' /\ NobodyAhead'
  BY <1>4, <1>9, Zenon DEF OneSignal, NobodyAhead
<1>12. WaitersSay'
  BY <1>1, <1>4 DEF IInv, WaitersSay, Stage
<1> QED
  BY <1>2, <1>5, <1>6, <1>7, <1>8, <1>10, <1>11, <1>12 DEF IInv

-----------------------------------------------------------------------------
(* pfq_rwlock_init *)
LEMMA InitIInv == Init => IInv
<1> SUFFICES ASSUME Init
             PROVE  IInv
  OBVIOUS
<1>1. McsP!IInv
  <2>1. McsP!Init
    BY DEF Init, Mcs!Init, McsP!Init
  <2> QED
    BY <2>1, McsP!InitIInv, ThreadsAssumption
<1>2. r_in = Zero /\ r_out = Zero /\ Zero.n = 0 /\ Zero.phase = 0 /\ Zero.wp = FALSE
  BY DEF Init, Zero
<1>3. TypeOK
  BY DEF Init, TypeOK, Zero, Ticket, RPCs, WPCs
<1>4. HoldsMcs /\ WordsSay /\ WriterKnows /\ FlagsSay
  BY <1>2 DEF Init, Mcs!Init, HoldsMcs, Holding, WordsSay, WriterKnows, FlagsSay, Stage
<1>5. Inside = {} /\ Ahead = {}
  BY DEF Init, Inside, Ahead
<1>6. CountsSay
  BY <1>2, <1>5, FS_EmptySet DEF Init, CountsSay, Gap
<1>7. OneSignal /\ NobodyAhead /\ WaitersSay
  BY DEF Init, OneSignal, Signaller, NobodyAhead, WaitersSay
<1> QED
  BY <1>1, <1>3, <1>4, <1>6, <1>7 DEF IInv

(* A reader that stalls is on record from then on. *)
LEMMA StallRecorded == [Next]_vars /\ stalled => stalled'
<1> SUFFICES ASSUME [Next]_vars, stalled
             PROVE  stalled'
  OBVIOUS
<1> USE DEF wordVars
<1>1. CASE UNCHANGED vars
  BY <1>1 DEF vars
<1>2. ASSUME NEW r \in Readers, ReadEnter(r) \/ ReadStep(r)
      PROVE  stalled'
  BY <1>2 DEF ReadStep, ReadEnter, ReadWait, ReadExit, ReadCheck, ReadSignal
<1>3. ASSUME NEW w \in Writers, WriteMcs(w) \/ WriteStep(w)
      PROVE  stalled'
  BY <1>3
  DEF WriteMcs, WriteStep, WriteBlock, WriteHead, WriteFlag, WriteIn, WriteLast,
      WriteOut, WriteDrain, UnlockIn, UnlockOut, UnlockFlag, UnlockMcs
<1> QED
  BY <1>1, <1>2, <1>3 DEF Next

(* Every step keeps the invariant, as long as no reader stalls. *)
LEMMA NextIInv ==
  ASSUME IInv, [Next]_vars, ~stalled'
  PROVE  IInv'
<1>1. CASE UNCHANGED vars
  <2>1. McsP!IInv'
    BY <1>1, McsFrame DEF vars
  <2>2. UNCHANGED <<blocked, mpc, r_in, r_out, last, wbr, whead, rpc, rtick, passed,
                    wpc, wphase, wticket>>
    BY <1>1 DEF vars, mcsVars, wordVars, readerVars, writerVars
  <2>3. Inside' = Inside /\ Ahead' = Ahead /\ \A r \in Readers : Signaller(r)' <=> Signaller(r)
    BY <2>2, ReadersFrame
  <2>4. TypeOK' /\ HoldsMcs'
    BY <2>2, Zenon DEF IInv, TypeOK, HoldsMcs
  <2>5. WordsSay' /\ FlagsSay' /\ WriterKnows'
    BY <2>2, Zenon DEF IInv, WordsSay, WriterKnows, FlagsSay, Stage
  <2>6. CountsSay'
    BY <2>2, <2>3 DEF IInv, CountsSay, Plus, Gap
  <2>7. OneSignal' /\ NobodyAhead' /\ WaitersSay'
    BY <2>2, <2>3, Zenon DEF IInv, OneSignal, NobodyAhead, WaitersSay, Stage
  <2> QED
    BY <2>1, <2>4, <2>5, <2>6, <2>7 DEF IInv
<1>2. ASSUME NEW r \in Readers, ReadEnter(r) \/ ReadStep(r)
      PROVE  IInv'
  BY <1>2, ReadEnterKeeps, ReadWaitKeeps, ReadExitKeeps, ReadCheckKeeps, ReadSignalKeeps
  DEF ReadStep
<1>3. ASSUME NEW w \in Writers, WriteMcs(w) \/ WriteStep(w)
      PROVE  IInv'
  BY <1>3, WriteMcsKeeps, WriteBlockKeeps, WriteHeadKeeps, WriteFlagKeeps, WriteInKeeps,
     WriteLastKeeps, WriteOutKeeps, WriteDrainKeeps, UnlockInKeeps, UnlockOutKeeps,
     UnlockFlagKeeps, UnlockMcsKeeps
  DEF WriteStep
<1> QED
  BY <1>1, <1>2, <1>3 DEF Next

(* The words, the flags and the queue of the lock agree with where its       *)
(* readers and writers are, in every state up to which no reader has stalled *)
(* in read_unlock for two whole write phases.                                *)
THEOREM LockShape == Spec => [](~stalled => IInv)
<1>1. (~stalled => IInv) /\ [Next]_vars => (~stalled => IInv)'
  BY NextIInv, StallRecorded
<1> QED
  BY InitIInv, <1>1, PTL DEF Spec

(* pfq_rwlock_write_lock admits one writer, and no reader beside it, as long *)
(* as no reader has stalled in read_unlock.                                  *)
THEOREM WritersAlone == Spec => []WriterAlone
<1>1. ASSUME ~stalled => IInv
      PROVE  WriterAlone
  BY <1>1, Alone DEF IInv, NobodyAhead, Ahead, WriterAlone, Exclusive
<1> QED
  BY <1>1, LockShape, PTL

(* At most one writer gets ahead of a reader that waits in read_lock, as     *)
(* long as no reader has stalled in read_unlock.                             *)
THEOREM PhasesFair == Spec => []PhaseFair
<1>1. (~stalled => IInv) => PhaseFair
  BY Zenon DEF IInv, WaitersSay, PhaseFair
<1> QED
  BY <1>1, LockShape, PTL

(* The writers' queue is a first-come-first-served lock until a reader has   *)
(* stalled in read_unlock: the steps of mcs_lock and mcs_unlock are steps of *)
(* one, and the stores that readers and the holder itself make to a blocked  *)
(* field leave it unchanged.                                                 *)
THEOREM QueueRefinement == Spec => WritersQueueFairly
<1>1. Init => Queue!Init
  BY DEF Init, Mcs!Init, Queue!Init, Mcs!Holds, Mcs!Locked
<1>2. ASSUME IInv, IInv', [Next]_vars
      PROVE  [Queue!Next]_(Queue!vars)
  <2> SUFFICES Queue!Next \/ UNCHANGED Queue!vars
    OBVIOUS
  <2>1. CASE UNCHANGED <<mpc, place, len>>
    BY <2>1 DEF Queue!vars, Mcs!Holds
  <2>2. ASSUME NEW w \in Writers, WriteMcs(w) \/ UnlockMcs(w)
        PROVE  Queue!Next \/ UNCHANGED Queue!vars
    <3>1. McsP!IInv /\ McsP!IInv' /\ McsP!Next
      BY <1>2, <2>2, McsSteps, Zenon DEF IInv, WriteMcs, UnlockMcs
    <3>2. McsP!Abstract!Next \/ UNCHANGED McsP!Abstract!vars
      BY <3>1, McsP!StepRefines, ThreadsAssumption
    <3> QED
      BY <3>2
      DEF McsP!Abstract!Next, McsP!Abstract!vars, Queue!Next, Queue!vars,
          McsP!Abstract!Enter, McsP!Abstract!Acquire, McsP!Abstract!Leave,
          McsP!Abstract!MoveUp, Queue!Enter, Queue!Acquire, Queue!Leave, Queue!MoveUp,
          Mcs!Holds, Mcs!Locked, McsP!Holds, McsP!Locked
  <2>3. ASSUME NEW r \in Readers, ReadEnter(r) \/ ReadStep(r)
        PROVE  UNCHANGED <<mpc, place, len>>
    BY <2>3
    DEF ReadStep, ReadEnter, ReadWait, ReadExit, ReadCheck, ReadSignal, mcsVars
  <2>4. ASSUME NEW w \in Writers, WriteStep(w), ~UnlockMcs(w)
        PROVE  UNCHANGED <<mpc, place, len>>
    BY <2>4, Zenon
    DEF WriteStep, WriteBlock, WriteHead, WriteFlag, WriteIn, WriteLast, WriteOut,
        WriteDrain, UnlockIn, UnlockOut, UnlockFlag, mcsVars
  <2> QED
    BY <1>2, <2>1, <2>2, <2>3, <2>4 DEF Next, vars, mcsVars
<1>3. ASSUME ~stalled => IInv, (~stalled => IInv)', [Next]_vars
      PROVE  [stalled' \/ Queue!Next]_(Queue!vars)
  BY <1>2, <1>3, StallRecorded
<1> QED
  BY <1>1, <1>3, LockShape, PTL DEF Spec, WritersQueueFairly
==============================================================================
