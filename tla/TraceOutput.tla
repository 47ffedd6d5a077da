---------------------------- MODULE TraceOutput -----------------------------
(***************************************************************************)
(* One thread's trace on its way through hpcprof: Hpcrun4::realread reads  *)
(* the samples, ProfilePipeline::Source::timepoint sorts them with a       *)
(* buffer that is as large as the disorder the trace declares, and         *)
(* HPCTraceDB2 writes them into the thread's part of trace.db.             *)
(*                                                                         *)
(* Two things make this hard.  When the buffer turns out too small         *)
(* everything starts again from the first sample, with a larger buffer or  *)
(* in memory, and the sinks are told to rewind.  And until the threads     *)
(* wavefront has passed nobody knows where the thread's part is, so        *)
(* samples collect in a prebuffer that another thread writes out.          *)
(*                                                                         *)
(* Samples are numbered in the order of the trace file.  Offsets count     *)
(* samples from the start of the thread's part.                            *)
(***************************************************************************)
EXTENDS Integers, Sequences, FiniteSets, SequencesExt

CONSTANTS Inputs,               \* the traces: sequences of [time, blank]
          Disorder,             \* declared disorders, 0: the trace is in order
          FallbackBound,        \* 1023 in the code
          FallbackLimit,        \* 800 in the code
          StagingMax,           \* 4096 in the code
          BufferMax             \* samples in HPCTraceDB2's buffer

VARIABLES trace,                \* the trace file
          pos,                  \* samples read
          bound, sortBuf, staging, unboundedDisorder,   \* TimepointsData
          rpc, ret,             \* the reader: place, where notifyTimepoints returns to
          batch,                \* the timepoints a call of notifyTimepoints has left
          prebuffer, prebuffer_done, hdr_prebuffered,
          buffer, off, tmcntr, lastWasBlank,            \* udThread
          wpc, drained,         \* notifyWavefront: place, the prebuffer it extracted
          file, hdr,            \* trace.db: the thread's part, its length in the header
          emitted, rewound      \* history: handed to the sink since the last rewind; any?

input == <<trace>>
sorter == <<pos, bound, sortBuf, staging, unboundedDisorder>>
call == <<rpc, ret, batch>>
pre == <<prebuffer, prebuffer_done, hdr_prebuffered>>
out == <<buffer, off, tmcntr, lastWasBlank>>
wave == <<wpc, drained>>
db == <<file, hdr>>
history == <<emitted, rewound>>
vars == <<input, sorter, call, pre, out, wave, db, history>>

time(i) == trace[i].time
blank(i) == trace[i].blank
InOrder(s) == \A a, b \in DOMAIN s : a < b => time(s[a]) <= time(s[b])

unset == 0 - 1

Init ==
  /\ trace \in Inputs
  /\ \E k \in Disorder :
       /\ k = 0 => InOrder([i \in DOMAIN trace |-> i])
       /\ bound = IF k > 0 THEN k + 2 ELSE 0
  /\ pos = 0
  /\ sortBuf = {} /\ staging = <<>> /\ unboundedDisorder = FALSE
  /\ rpc = "read" /\ ret = "read" /\ batch = <<>>
  /\ prebuffer = <<>> /\ prebuffer_done = FALSE /\ hdr_prebuffered = FALSE
  /\ buffer = <<>> /\ off = unset /\ tmcntr = 0 /\ lastWasBlank = FALSE
  /\ wpc = "wave" /\ drained = <<>>
  /\ file = [i \in DOMAIN trace |-> unset] /\ hdr = unset
  /\ emitted = <<>> /\ rewound = FALSE

-----------------------------------------------------------------------------
(* Source::timepoint for the next sample *)

Sample == pos + 1
Reading == rpc = "read" /\ pos < Len(trace)

(* A call of notifyTimepoints with the timepoints s. *)
Notify(s, return) ==
  /\ batch' = s
  /\ emitted' = emitted \o s
  /\ ret' = return
  /\ rpc' = "check"

(* The timepoint i goes to the staging vector, and on when that is full. *)
Stage(i) ==
  LET s == Append(staging, i)
  IN  IF Len(s) >= StagingMax
      THEN Notify(s, "read") /\ staging' = <<>>
      ELSE staging' = s /\ UNCHANGED <<call, emitted>>

Unsorted ==
  /\ Reading
  /\ ~unboundedDisorder /\ bound = 0
  /\ pos' = Sample
  /\ Stage(Sample)
  /\ UNCHANGED <<input, bound, sortBuf, unboundedDisorder, pre, out, wave, db, rewound>>

Stash ==
  /\ Reading
  /\ unboundedDisorder
  /\ pos' = Sample
  /\ staging' = Append(staging, Sample)
  /\ UNCHANGED <<input, bound, sortBuf, unboundedDisorder, call, pre, out, wave, db, history>>

Push ==
  /\ Reading
  /\ ~unboundedDisorder /\ Cardinality(sortBuf) < bound
  /\ pos' = Sample
  /\ sortBuf' = sortBuf \cup {Sample}
  /\ UNCHANGED <<input, bound, staging, unboundedDisorder, call, pre, out, wave, db, history>>

Smallest(S) == { i \in S : \A j \in S : time(i) <= time(j) }

(* em_replace: m has left the buffer and the sample comes in.  Whether it is *)
(* now the smallest, an equal one included (push_heap_last).                 *)
Over(m) == \A j \in sortBuf \ {m} : time(Sample) <= time(j)

Replace ==
  /\ Reading
  /\ ~unboundedDisorder /\ bound > 0 /\ Cardinality(sortBuf) = bound
  /\ \E m \in Smallest(sortBuf) :
       /\ ~Over(m)
       /\ sortBuf' = (sortBuf \ {m}) \cup {Sample}
       /\ Stage(m)
  /\ pos' = Sample
  /\ UNCHANGED <<input, bound, unboundedDisorder, pre, out, wave, db, rewound>>

(* The buffer is too small: a larger one, or everything in memory. *)
OverBound ==
  /\ Reading
  /\ ~unboundedDisorder /\ bound > 0 /\ Cardinality(sortBuf) = bound
  /\ \E m \in Smallest(sortBuf) : Over(m)
  /\ sortBuf' = {} /\ staging' = <<>>
  /\ IF bound < FallbackLimit
     THEN bound' = FallbackBound /\ UNCHANGED unboundedDisorder
     ELSE unboundedDisorder' = TRUE /\ UNCHANGED bound
  /\ rpc' = "rewind"
  /\ UNCHANGED <<input, pos, ret, batch, pre, out, wave, db, history>>

-----------------------------------------------------------------------------
(* ProfilePipeline::complete, at the end of the trace *)

(* All orders of S that a sort by time may leave. *)
Orders(S) == { s \in SetToSeqs(S) : InOrder(s) }

DrainStaging ==
  /\ rpc = "read" /\ pos = Len(trace) /\ staging # <<>>
  /\ IF unboundedDisorder
     THEN \E s \in Orders(Range(staging)) : Notify(s, "read")
     ELSE Notify(staging, "read")
  /\ staging' = <<>>
  /\ UNCHANGED <<input, pos, bound, sortBuf, unboundedDisorder, pre, out, wave, db, rewound>>

DrainSortBuf ==
  /\ rpc = "read" /\ pos = Len(trace) /\ staging = <<>> /\ sortBuf # {}
  /\ \E s \in Orders(sortBuf) : Notify(s, "read")
  /\ sortBuf' = {}
  /\ UNCHANGED <<input, pos, bound, staging, unboundedDisorder, pre, out, wave, db, rewound>>

-----------------------------------------------------------------------------
(* HPCTraceDB2::notifyTimepoints *)

(* Of two blank samples in a row only the first is kept. *)
Kept(wasBlank, s) ==
  LET repeated(k) == blank(s[k]) /\ IF k = 1 THEN wasBlank ELSE blank(s[k - 1])
      ks == SetToSortSeq({ k \in DOMAIN s : ~repeated(k) }, <)
  IN  [ n \in DOMAIN ks |-> s[ks[n]] ]

Check ==
  /\ rpc = "check"
  /\ rpc' = IF prebuffer_done THEN "direct" ELSE "lock"
  /\ UNCHANGED <<input, sorter, ret, batch, pre, out, wave, db, history>>

(* Faulty: prebuffer_done is not tested again under the lock. *)
Prebuffer_noRecheck ==
  LET kept == Kept(lastWasBlank, batch)
  IN  /\ rpc = "lock"
      /\ prebuffer' = prebuffer \o kept
      /\ tmcntr' = tmcntr + Len(kept)
      /\ lastWasBlank' = blank(batch[Len(batch)])
      /\ batch' = <<>> /\ rpc' = ret
      /\ UNCHANGED <<input, sorter, ret, prebuffer_done, hdr_prebuffered, buffer, off, wave, db, history>>
(* With the lock held, unless the wavefront has passed meanwhile. *)
Prebuffer ==
  LET kept == Kept(lastWasBlank, batch)
  IN  /\ rpc = "lock"
      /\ IF prebuffer_done
         THEN rpc' = "direct" /\ UNCHANGED <<prebuffer, tmcntr, lastWasBlank, batch>>
         ELSE /\ prebuffer' = prebuffer \o kept
              /\ tmcntr' = tmcntr + Len(kept)
              /\ lastWasBlank' = blank(batch[Len(batch)])
              /\ batch' = <<>> /\ rpc' = ret
      /\ UNCHANGED <<input, sorter, ret, prebuffer_done, hdr_prebuffered, buffer, off, wave, db, history>>

(* File::Instance::writeat *)
WriteAt(o, s) ==
  file' = [ i \in DOMAIN file |-> IF o < i /\ i <= o + Len(s) THEN s[i - o] ELSE file[i] ]

(* One sample into the buffer, and the buffer into the file when full. *)
Direct ==
  LET i == Head(batch)
      start == IF buffer = <<>> THEN tmcntr ELSE off
      filled == Append(buffer, i)
  IN  /\ rpc = "direct" /\ batch # <<>>
      /\ batch' = Tail(batch)
      /\ IF lastWasBlank /\ blank(i)
         THEN UNCHANGED <<buffer, off, tmcntr, lastWasBlank, file>>
         ELSE /\ lastWasBlank' = blank(i)
              /\ off' = start
              /\ tmcntr' = tmcntr + 1
              /\ IF Len(filled) = BufferMax
                 THEN WriteAt(start, filled) /\ buffer' = <<>>
                 ELSE buffer' = filled /\ UNCHANGED file
      /\ UNCHANGED <<input, sorter, rpc, ret, pre, wave, hdr, history>>

DirectReturn ==
  /\ rpc = "direct" /\ batch = <<>>
  /\ rpc' = ret
  /\ UNCHANGED <<input, sorter, ret, batch, pre, out, wave, db, history>>

-----------------------------------------------------------------------------
(* notifyCtxTimepointRewindStart, and the source goes back to the start *)

Rewind ==
  /\ rpc = "rewind"
  /\ buffer' = <<>> /\ off' = unset /\ tmcntr' = 0
  /\ rpc' = "clear"
  /\ emitted' = <<>> /\ rewound' = TRUE
  /\ UNCHANGED <<input, sorter, ret, batch, pre, lastWasBlank, wave, db>>

Clear ==
  /\ rpc = "clear"
  /\ prebuffer' = IF prebuffer_done THEN prebuffer ELSE <<>>
  /\ pos' = 0
  /\ rpc' = "read"
  /\ UNCHANGED <<input, bound, sortBuf, staging, unboundedDisorder, ret, batch,
                 prebuffer_done, hdr_prebuffered, out, wave, db, history>>

-----------------------------------------------------------------------------
(* notifyThreadFinal *)

Flush ==
  /\ rpc = "read" /\ pos = Len(trace) /\ staging = <<>> /\ sortBuf = {}
  /\ IF buffer # <<>> THEN WriteAt(off, buffer) ELSE UNCHANGED file
  /\ rpc' = "header"
  /\ UNCHANGED <<input, sorter, ret, batch, pre, out, wave, hdr, history>>

CheckFinal ==
  /\ rpc = "header"
  /\ rpc' = IF prebuffer_done THEN "writeHdr" ELSE "lockHdr"
  /\ UNCHANGED <<input, sorter, ret, batch, pre, out, wave, db, history>>

PrebufferHdr ==
  /\ rpc = "lockHdr"
  /\ IF prebuffer_done THEN rpc' = "writeHdr" /\ UNCHANGED hdr_prebuffered
                       ELSE rpc' = "done" /\ hdr_prebuffered' = TRUE
  /\ UNCHANGED <<input, sorter, ret, batch, prebuffer, prebuffer_done, out, wave, db, history>>

WriteHdr ==
  /\ rpc = "writeHdr"
  /\ hdr' = tmcntr
  /\ rpc' = "done"
  /\ UNCHANGED <<input, sorter, ret, batch, pre, out, wave, file, history>>

-----------------------------------------------------------------------------
(* notifyWavefront, in another thread *)

Extract ==
  /\ wpc = "wave"
  /\ drained' = prebuffer
  /\ prebuffer' = <<>>
  /\ prebuffer_done' = TRUE
  /\ wpc' = "write"
  /\ UNCHANGED <<input, sorter, call, hdr_prebuffered, out, db, history>>

WriteDrained ==
  /\ wpc = "write"
  /\ WriteAt(0, drained)
  /\ drained' = <<>>
  /\ wpc' = "writeHdr"
  /\ UNCHANGED <<input, sorter, call, pre, out, hdr, history>>

WriteDeferredHdr ==
  /\ wpc = "writeHdr"
  /\ hdr' = IF hdr_prebuffered THEN tmcntr ELSE hdr
  /\ wpc' = "done"
  /\ UNCHANGED <<input, sorter, call, pre, out, drained, file, history>>

Done == rpc = "done" /\ wpc = "done"

Reader ==
  \/ Unsorted \/ Stash \/ Push \/ Replace \/ OverBound \/ DrainStaging \/ DrainSortBuf
  \/ Check \/ Prebuffer \/ Direct \/ DirectReturn \/ Rewind \/ Clear
  \/ Flush \/ CheckFinal \/ PrebufferHdr \/ WriteHdr
Wavefront == Extract \/ WriteDrained \/ WriteDeferredHdr

Next == Reader \/ Wavefront \/ (Done /\ UNCHANGED vars)

Spec == Init /\ [][Next]_vars

-----------------------------------------------------------------------------
(* Whatever the order of the trace, and however often the sort buffer was    *)
(* too small, the sinks have in the end been handed every sample once, in    *)
(* the order of time.                                                        *)
EmittedInOrder ==
  /\ InOrder(emitted)
  /\ rpc = "header" => Range(emitted) = DOMAIN trace /\ Len(emitted) = Len(trace)

Written == SubSeq(file, 1, hdr)
TraceRight == Done => hdr # unset /\ Written = Kept(FALSE, emitted)

(* trace.db holds what the sink was handed less the repeated blank samples,  *)
(* and the header says how many, whichever thread wrote which part of it:    *)
(* for a trace that was never rewound.                                       *)
StraightTraceRight == ~rewound => TraceRight

(* The same for every trace: notifyCtxTimepointRewindStart announces that    *)
(* "the next Context-type timepoint will not be the sequentially next, but   *)
(* instead be rewound back to the first".                                    *)
RewoundTraceRight == TraceRight
=============================================================================
