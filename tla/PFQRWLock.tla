------------------------------ MODULE PFQRWLock ------------------------------
(***************************************************************************)
(* The phase-fair reader-writer lock of src/common/lean/pfq-rwlock.c,      *)
(* composed with the MCS lock (MCSLock) that its writers queue on.  The    *)
(* two share the nodes: once a writer has the MCS lock, the blocked field  *)
(* of its MCS node is what the last departing reader clears.               *)
(*                                                                         *)
(* r_in, r_out and last are 32-bit words: a reader count in the upper 24   *)
(* bits, PHASE_BIT and WRITER_PRESENT in the low byte.  They are records   *)
(* here, with a count modulo Wrap.                                         *)
(***************************************************************************)
EXTENDS Integers, FiniteSets

CONSTANTS Readers, Writers,
          nil,
          Wrap        \* 2^24 in the code

ASSUME WrapAssumption == Wrap \in Nat \ {0}
ASSUME ThreadsAssumption ==
  /\ nil \notin Writers
  /\ IsFiniteSet(Readers) /\ Cardinality(Readers) < Wrap   \* so many threads may read at once

VARIABLES tail, next, blocked, pred, mpc, place, len,   \* the lock wtail
          r_in, r_out, last,     \* tickets
          wbr,        \* writer_blocking_readers[0..1].bit
          whead,      \* l->whead
          rpc, rtick, \* readers: where they are, the local "ticket"
          wpc,        \* writers: where they are
          wphase, wticket,   \* writers: the locals "phase" (of unlock) and "in"
          passed,     \* history: writers that went ahead of a waiting reader
          stalled     \* history: a reader has stalled in read_unlock (see Stale)

mcsVars == <<tail, next, blocked, pred, mpc, place, len>>
wordVars == <<r_in, r_out, last, stalled>>
readerVars == <<rpc, rtick, passed>>
writerVars == <<wpc, wphase, wticket>>
vars == <<mcsVars, wordVars, wbr, whead, readerVars, writerVars>>

Mcs == INSTANCE MCSLock WITH Threads <- Writers, pc <- mpc

Ticket == [n : 0 .. Wrap - 1, phase : {0, 1}, wp : BOOLEAN]
Zero == [n |-> 0, phase |-> 0, wp |-> FALSE]   \* also a local that is not in use

(* + READER_INCREMENT, | WRITER_PRESENT, ^ WRITER_MASK *)
Plus(k) == [k EXCEPT !.n = (k.n + 1) % Wrap]
Present(k) == [k EXCEPT !.wp = TRUE]
Toggle(k) == [k EXCEPT !.phase = 1 - k.phase, !.wp = ~k.wp]

(* pfq_rwlock_init; the nodes, whose fields MCSLock starts arbitrary, cleared. *)
Init ==
  /\ Mcs!Init
  /\ next = [w \in Writers |-> nil] /\ blocked = [w \in Writers |-> FALSE]
  /\ r_in = Zero /\ r_out = Zero /\ last = Zero
  /\ stalled = FALSE
  /\ wbr = [p \in {0, 1} |-> FALSE]
  /\ whead = nil
  /\ rpc = [r \in Readers |-> "idle"]
  /\ rtick = [r \in Readers |-> Zero]
  /\ passed = [r \in Readers |-> 0]
  /\ wpc = [w \in Writers |-> "idle"]
  /\ wphase = [w \in Writers |-> 0]
  /\ wticket = [w \in Writers |-> Zero]

-----------------------------------------------------------------------------
(* pfq_rwlock_read_lock *)

(* The bound of the model: fewer than Wrap reads begin while another thread  *)
(* is between two steps of one unlock, so the count comes round neither to   *)
(* the ticket a reader still has to compare with last, nor to last between   *)
(* the two toggles of write_unlock.  In the code this takes 2^24 reads.      *)
NoLap ==
  /\ \A r \in Readers : rpc[r] = "check" => r_in.n # rtick[r].n
  /\ \A w \in Writers : wpc[w] = "uout" => r_in.n # last.n

ReadEnter(r) ==
  /\ rpc[r] = "idle"
  /\ NoLap
  /\ r_in' = Plus(r_in)
  /\ rtick' = [rtick EXCEPT ![r] = IF r_in.wp THEN r_in ELSE Zero]
  /\ rpc' = [rpc EXCEPT ![r] = IF r_in.wp THEN "wait" ELSE "read"]
  /\ UNCHANGED <<mcsVars, r_out, last, stalled, wbr, whead, writerVars, passed>>

(* Faulty: the reader waits on the flag of the other phase. *)
ReadWait_wrongPhase(r) ==
  /\ rpc[r] = "wait"
  /\ ~wbr[1 - rtick[r].phase]
  /\ rpc' = [rpc EXCEPT ![r] = "read"]
  /\ passed' = [passed EXCEPT ![r] = 0]
  /\ rtick' = [rtick EXCEPT ![r] = Zero]
  /\ UNCHANGED <<mcsVars, wordVars, wbr, whead, writerVars>>
ReadWait(r) ==
  /\ rpc[r] = "wait"
  /\ ~wbr[rtick[r].phase]
  /\ rpc' = [rpc EXCEPT ![r] = "read"]
  /\ passed' = [passed EXCEPT ![r] = 0]
  /\ rtick' = [rtick EXCEPT ![r] = Zero]
  /\ UNCHANGED <<mcsVars, wordVars, wbr, whead, writerVars>>

-----------------------------------------------------------------------------
(* pfq_rwlock_read_unlock *)

ReadExit(r) ==
  /\ rpc[r] = "read"
  /\ r_out' = Plus(r_out)
  /\ rtick' = [rtick EXCEPT ![r] = IF r_out.wp THEN r_out ELSE Zero]
  /\ rpc' = [rpc EXCEPT ![r] = IF r_out.wp THEN "check" ELSE "idle"]
  /\ UNCHANGED <<mcsVars, r_in, last, stalled, wbr, whead, writerVars, passed>>

IsLast(r) == rtick[r] = last

ReadCheck(r) ==
  /\ rpc[r] = "check"
  /\ rpc' = [rpc EXCEPT ![r] = IF IsLast(r) THEN "signal" ELSE "idle"]
  /\ rtick' = [rtick EXCEPT ![r] = Zero]
  /\ UNCHANGED <<mcsVars, wordVars, wbr, whead, writerVars, passed>>

ReadSignal(r) ==
  /\ rpc[r] = "signal"
  /\ blocked' = [blocked EXCEPT ![whead] = FALSE]
  /\ rpc' = [rpc EXCEPT ![r] = "idle"]
  /\ UNCHANGED <<tail, next, pred, mpc, place, len, wordVars, wbr, whead,
                 writerVars, rtick, passed>>

-----------------------------------------------------------------------------
(* pfq_rwlock_write_lock *)

WGoto(w, l) == wpc' = [wpc EXCEPT ![w] = l]
Others == UNCHANGED <<readerVars, wphase>>

WriteMcs(w) ==
  /\ \/ wpc[w] = "idle" /\ Mcs!LockSwap(w)
     \/ wpc[w] = "mcs" /\ Mcs!Wait(w)
  /\ WGoto(w, IF mpc'[w] = "cs" THEN "block" ELSE "mcs")
  /\ Others /\ UNCHANGED <<wordVars, wbr, whead, wticket>>

(* Faulty: the store to me->blocked is left out. *)
Block_omitted(w) == blocked
Block(w) == [blocked EXCEPT ![w] = TRUE]

WriteBlock(w) ==
  /\ wpc[w] = "block"
  /\ blocked' = Block(w)
  /\ WGoto(w, "head")
  /\ Others
  /\ UNCHANGED <<tail, next, pred, mpc, place, len, wordVars, wbr, whead, wticket>>

WriteHead(w) ==
  /\ wpc[w] = "head"
  /\ whead' = w
  /\ WGoto(w, "flag")
  /\ Others /\ UNCHANGED <<mcsVars, wordVars, wbr, wticket>>

(* PHASE_BIT changes only under the MCS lock: its load goes with the store. *)
WriteFlag(w) ==
  /\ wpc[w] = "flag"
  /\ wbr' = [wbr EXCEPT ![r_in.phase] = TRUE]
  /\ WGoto(w, "in")
  /\ Others /\ UNCHANGED <<mcsVars, wordVars, whead, wticket>>

WriteIn(w) ==
  /\ wpc[w] = "in"
  /\ wticket' = [wticket EXCEPT ![w] = r_in]
  /\ r_in' = Present(r_in)
  /\ WGoto(w, "last")
  /\ Others /\ UNCHANGED <<mcsVars, r_out, last, stalled, wbr, whead>>

(* The ticket the last reader will see: in - READER_INCREMENT + WRITER_PRESENT. *)
LastTicket(k) == Present([k EXCEPT !.n = (k.n - 1) % Wrap])

(* A reader is stale when the ticket it still has to compare with last is    *)
(* the one that a later writer stores there.  It happens when the reader     *)
(* leaves between the two toggles of write_unlock and then stalls for two    *)
(* whole write phases.                                                       *)
Stale(w) == \E r \in Readers : rpc[r] = "check" /\ rtick[r] = LastTicket(wticket[w])

WriteLast(w) ==
  /\ wpc[w] = "last"
  /\ last' = LastTicket(wticket[w])
  /\ stalled' = (stalled \/ Stale(w))
  /\ WGoto(w, "out")
  /\ Others /\ UNCHANGED <<mcsVars, r_in, r_out, wbr, whead, wticket>>

(* history: a writer begins while readers are waiting. *)
Overtake == passed' = [r \in Readers |-> passed[r] + (IF rpc[r] = "wait" THEN 1 ELSE 0)]

WriteOut(w) ==
  /\ wpc[w] = "out"
  /\ r_out' = Present(r_out)
  /\ \/ wticket[w] = r_out /\ WGoto(w, "write") /\ Overtake
     \/ wticket[w] # r_out /\ WGoto(w, "drain") /\ UNCHANGED passed
  /\ wticket' = [wticket EXCEPT ![w] = Zero]
  /\ UNCHANGED <<mcsVars, r_in, last, stalled, wbr, whead, rpc, rtick, wphase>>

WriteDrain(w) ==
  /\ wpc[w] = "drain"
  /\ ~blocked[w]
  /\ WGoto(w, "write")
  /\ Overtake
  /\ UNCHANGED <<mcsVars, wordVars, wbr, whead, rpc, rtick, wphase, wticket>>

-----------------------------------------------------------------------------
(* pfq_rwlock_write_unlock *)

UnlockIn(w) ==
  /\ wpc[w] = "write"
  /\ wphase' = [wphase EXCEPT ![w] = r_in.phase]
  /\ r_in' = Toggle(r_in)
  /\ WGoto(w, "uout")
  /\ UNCHANGED <<mcsVars, r_out, last, stalled, wbr, whead, readerVars, wticket>>

UnlockOut(w) ==
  /\ wpc[w] = "uout"
  /\ r_out' = Toggle(r_out)
  /\ WGoto(w, "uflag")
  /\ Others /\ UNCHANGED <<mcsVars, r_in, last, stalled, wbr, whead, wticket>>

UnlockFlag(w) ==
  /\ wpc[w] = "uflag"
  /\ wbr' = [wbr EXCEPT ![wphase[w]] = FALSE]
  /\ wphase' = [wphase EXCEPT ![w] = 0]
  /\ WGoto(w, "umcs")
  /\ UNCHANGED <<mcsVars, wordVars, whead, readerVars, wticket>>

UnlockMcs(w) ==
  /\ wpc[w] = "umcs"
  /\ Mcs!Unlock(w)
  /\ WGoto(w, IF mpc'[w] = "idle" THEN "idle" ELSE "umcs")
  /\ Others /\ UNCHANGED <<wordVars, wbr, whead, wticket>>

-----------------------------------------------------------------------------
ReadStep(r) == ReadWait(r) \/ ReadExit(r) \/ ReadCheck(r) \/ ReadSignal(r)
WriteStep(w) ==
  \/ WriteBlock(w) \/ WriteHead(w) \/ WriteFlag(w)
  \/ WriteIn(w) \/ WriteLast(w) \/ WriteOut(w) \/ WriteDrain(w)
  \/ UnlockIn(w) \/ UnlockOut(w) \/ UnlockFlag(w) \/ UnlockMcs(w)

Next ==
  \/ \E r \in Readers : ReadEnter(r) \/ ReadStep(r)
  \/ \E w \in Writers : WriteMcs(w) \/ WriteStep(w)

Spec == Init /\ [][Next]_vars

(* A thread in the lock's code runs on and sections end; nobody has to enter. *)
FairSpec ==
  /\ Spec
  /\ \A r \in Readers : WF_vars(ReadStep(r))
  /\ \A w \in Writers : WF_vars(WriteStep(w) \/ (wpc[w] = "mcs" /\ WriteMcs(w)))

-----------------------------------------------------------------------------

(* A writer between write_lock and write_unlock is alone: no reader is       *)
(* between read_lock and read_unlock and no other writer is writing.         *)
Exclusive ==
  \A w \in Writers :
    wpc[w] = "write" =>
      /\ \A v \in Writers \ {w} : wpc[v] # "write"
      /\ \A r \in Readers : rpc[r] # "read"

(* The lock is exclusive as long as no reader has stalled in read_unlock. *)
WriterAlone == ~stalled => Exclusive

(* Phase-fairness, as long as no reader has stalled in read_unlock: at most  *)
(* one writer gets ahead of a reader that waits.                             *)
PhaseFair == ~stalled => \A r \in Readers : passed[r] <= 1

Queue == INSTANCE FairLock
           WITH Threads <- Writers, inside <- {w \in Writers : Mcs!Holds(w)}

(* The readers' stores to the blocked fields of MCS nodes do not disturb the *)
(* MCS lock: the writers queue first come, first served until a reader has   *)
(* stalled in read_unlock.                                                   *)
WritersQueueFairly ==
  Queue!Init /\ [][stalled' \/ Queue!Next]_(Queue!vars)

Trying == {"mcs", "block", "head", "flag", "in", "last", "out", "drain"}

(* A reader that spins on the flag of its phase gets in, and so does a       *)
(* writer: the queue moves and the readers ahead of it drain.  A reader that *)
(* stalled in read_unlock may have spoilt it for the others.                 *)
EveryoneGetsIn ==
  /\ \A r \in Readers : rpc[r] = "wait" ~> rpc[r] = "read" \/ stalled
  /\ \A w \in Writers : wpc[w] \in Trying ~> wpc[w] = "write" \/ stalled

==============================================================================
