---------------------------- MODULE TraceLayout -----------------------------
(***************************************************************************)
(* Where the threads' traces go in trace.db: HPCTraceDB2::calcStartEnd and *)
(* assignHdrs on every MPI rank, with the parallel-prefix exscan they use. *)
(* A rank sizes its threads' traces, exchanges totals with the others, and *)
(* lays its traces out behind those of the lower ranks.                    *)
(***************************************************************************)
EXTENDS Integers, Sequences, FiniteSets, FiniteSetsExt, SequencesExt

CONSTANTS Size,                 \* number of ranks
          MaxThreads,           \* bound: threads of a rank
          Counts                \* ctxTimepointMaxCount values

Ranks == 0 .. Size - 1
SZ_CtxSample == 12
SZ_CtxTrace == 24
ctx_pTraces == 64
align(v) == ((v + 7) \div 8) * 8

VARIABLES counts,               \* rank -> its threads' ctxTimepointMaxCounts
          pc,                   \* rank -> place in calcStartEnd
          data, tmp, round,     \* rank -> exscan's locals
          total,                \* rank -> total_size
          hdr,                  \* rank -> thread -> [start, end]
          footerPos

vars == <<counts, pc, data, tmp, round, total, hdr, footerPos>>

SumOf(s) == FoldLeft(LAMBDA a, b : a + b, 0, s)
NumTraces == SumOf([ i \in 1..Size |-> Len(counts[i - 1]) ])

Init ==
  /\ counts \in [Ranks -> BoundedSeq(Counts, MaxThreads)]
  /\ pc = [r \in Ranks |-> "sizes"]
  /\ data = [r \in Ranks |-> <<>>] /\ tmp = data
  /\ round = [r \in Ranks |-> 0]
  /\ total = [r \in Ranks |-> 0]
  /\ hdr = [r \in Ranks |-> <<>>]
  /\ footerPos = [r \in Ranks |-> 0]

Sizes(r) == [ i \in DOMAIN counts[r] |-> align(counts[r][i] * SZ_CtxSample) ]

(* The sizes of the rank's traces and a zero; tmp starts as zeros. *)
CalcSizes(r) ==
  /\ pc[r] = "sizes"
  /\ data' = [data EXCEPT ![r] = Append(Sizes(r), 0)]
  /\ tmp' = [tmp EXCEPT ![r] = [ i \in 1 .. Len(counts[r]) + 1 |-> 0 ]]
  /\ total' = [total EXCEPT ![r] = SumOf(Sizes(r))]
  /\ pc' = [pc EXCEPT ![r] = "mpi"]
  /\ UNCHANGED <<counts, round, hdr, footerPos>>

(* mpi::exscan of the totals: nobody leaves it before everybody is in. *)
Exchange(r) ==
  /\ pc[r] = "mpi"
  /\ \A q \in Ranks : pc[q] # "sizes"
  /\ pc' = [pc EXCEPT ![r] = "scan"]
  /\ UNCHANGED <<counts, data, tmp, round, total, hdr, footerPos>>

(* ceil(log2(n)) *)
Rounds(n) == CHOOSE k \in 0 .. n : 2 ^ k >= n /\ \A j \in 0 .. k - 1 : 2 ^ j < n

(* Faulty: every round starts from the sizes again. *)
Scan_restart(r) ==
  LET n == Len(data[r])
      p == 2 ^ round[r]
  IN  /\ pc[r] = "scan" /\ round[r] < Rounds(n)
      /\ tmp' = [tmp EXCEPT ![r] =
           [ j \in 1..n |-> IF j - 1 < p THEN data[r][j] ELSE data[r][j] + data[r][j - p] ]]
      /\ round' = [round EXCEPT ![r] = @ + 1]
      /\ UNCHANGED <<counts, pc, data, total, hdr, footerPos>>
(* One round of exscan: every element adds the one 2^round places before it. *)
Scan(r) ==
  LET n == Len(data[r])
      p == 2 ^ round[r]
      added == [ j \in 1..n |-> IF j - 1 < p THEN data[r][j] ELSE data[r][j] + data[r][j - p] ]
  IN  /\ pc[r] = "scan" /\ round[r] < Rounds(n)
      /\ tmp' = [tmp EXCEPT ![r] = added]
      /\ data' = IF round[r] < Rounds(n) - 1 THEN [data EXCEPT ![r] = added] ELSE data
      /\ round' = [round EXCEPT ![r] = @ + 1]
      /\ UNCHANGED <<counts, pc, total, hdr, footerPos>>

(* The end of exscan, and assignHdrs. *)
Assign(r) ==
  LET n == Len(data[r])
      scanned == [ i \in 1..n |-> IF i = 1 THEN 0 ELSE tmp[r][i - 1] ]
      lower == SumOf([ i \in 1..r |-> total[i - 1] ])
      my_off == lower + align(ctx_pTraces + NumTraces * SZ_CtxTrace)
  IN  /\ pc[r] = "scan" /\ round[r] = Rounds(n)
      /\ data' = [data EXCEPT ![r] = scanned]
      /\ hdr' = [hdr EXCEPT ![r] = [ i \in DOMAIN counts[r] |->
                   [ start |-> scanned[i] + my_off,
                     end |-> scanned[i] + my_off + counts[r][i] * SZ_CtxSample ] ]]
      /\ footerPos' = [footerPos EXCEPT ![r] = scanned[n] + my_off]
      /\ pc' = [pc EXCEPT ![r] = "done"]
      /\ UNCHANGED <<counts, tmp, round, total>>

Done == \A r \in Ranks : pc[r] = "done"

Next == \/ \E r \in Ranks : CalcSizes(r) \/ Exchange(r) \/ Scan(r) \/ Assign(r)
        \/ Done /\ UNCHANGED vars

Spec == Init /\ [][Next]_vars

-----------------------------------------------------------------------------
Traces == UNION { { <<r, i>> : i \in DOMAIN hdr[r] } : r \in Ranks }
Hdr(t) == hdr[t[1]][t[2]]

(* exscan leaves the sums of the sizes before each trace, whatever their     *)
(* number, so that on every rank the traces, aligned for the reader, are     *)
(* apart from each other, from the table of headers and from the footer that *)
(* the last rank writes.                                                     *)
TracesApart ==
  Done => \A t \in Traces :
    /\ Hdr(t).start % 8 = 0
    /\ Hdr(t).start >= ctx_pTraces + NumTraces * SZ_CtxTrace
    /\ Hdr(t).end <= footerPos[Size - 1]
    /\ \A u \in Traces \ {t} : Hdr(t).end <= Hdr(u).start \/ Hdr(u).end <= Hdr(t).start
=============================================================================
