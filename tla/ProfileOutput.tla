--------------------------- MODULE ProfileOutput ----------------------------
(***************************************************************************)
(* hpcprof-mpi writing profile.db and sharing out the work on cct.db: the  *)
(* SparseDB sink on every rank, its DoubleBufferedOutput, the              *)
(* SharedAccumulator that hands out file offsets and context ranges, and   *)
(* the messages between a rank and the accumulator's server thread on      *)
(* rank 0.                                                                 *)
(*                                                                         *)
(* The team of a rank processes profiles: each is laid out in one of two   *)
(* buffers, and the thread that fills a buffer allocates room in the file  *)
(* and writes it out while the others go on with the other buffer.  When   *)
(* the team is done the rank's main thread runs SparseDB::write.           *)
(*                                                                         *)
(* A piece of a profile (its metric values or its context indices) is a    *)
(* record of where it is; the bytes themselves are left out.               *)
(***************************************************************************)
EXTENDS Integers, Sequences, FiniteSets

CONSTANTS Size,                 \* number of MPI ranks
          Workers,              \* Workers[r + 1]: the team of rank r
          Profiles,             \* worker -> its profiles, in order: [mv, ci] sizes
          Summary,              \* [mv, ci] of the summary profile
          bufferSize,           \* 64 MiB in the code
          startOffset,          \* end of the id tuples
          NumRanges,            \* ctxRanges.size() - 1
          needsLock             \* MPI_THREAD_SERIALIZED

Ranks == 0 .. Size - 1
Bufs == {0, 1}
Mains == { [main |-> r] : r \in Ranks }
Team == UNION { Workers[r + 1] : r \in Ranks }
Threads == Team \cup Mains
Rank(t) == IF t \in Mains THEN t.main ELSE CHOOSE r \in Ranks : t \in Workers[r + 1]
Tags == {"SparseDB_1", "SparseDB_2"}
Profs == UNION { { <<w, i>> : i \in DOMAIN Profiles[w] } : w \in Team }
Owner(p) == Rank(p[1])
summary == <<"summary">>
unset == 0 - 1

VARIABLES pc, ret,              \* thread -> place, where a call returns to
          done,                 \* worker -> profiles processed
          lowlock, blob, pieces, currentBuf,    \* DoubleBufferedOutput of each rank
          buf,                  \* thread -> the buffer it flushes
          tag, amount, got,     \* thread -> fetch_add's arguments and result
          atom,                 \* SharedAccumulator::atom on rank 0
          query, reply, server, \* messages to the server, from it, what it is answering
          started,              \* accumulators whose server runs
          mpiLock,              \* rank -> is it held
          arrived,              \* <<operation, rank>>: who has entered a collective
          pos,                  \* profile -> recorded [mv, ci] offsets
          file,                 \* profile.db: the pieces written
          info, seen,           \* the profile infos in the file; as read by a rank
          range, taken          \* rank -> its context range; history: how often one was processed

output == <<lowlock, blob, pieces, currentBuf, buf>>
alloc == <<tag, amount, got>>
mpi == <<atom, query, reply, server, started, mpiLock, arrived>>
database == <<pos, file, info, seen>>
shares == <<range, taken>>
vars == <<pc, ret, done, output, alloc, mpi, database, shares>>

align(v, a) == ((v + a - 1) \div a) * a

Init ==
  /\ pc = [t \in Threads |-> "process"] /\ ret = [t \in Threads |-> "process"]
  /\ done = [w \in Team |-> 0]
  /\ lowlock = [r \in Ranks |-> [b \in Bufs |-> FALSE]]
  /\ blob = [r \in Ranks |-> [b \in Bufs |-> 0]]
  /\ pieces = [r \in Ranks |-> [b \in Bufs |-> {}]]
  /\ currentBuf = [r \in Ranks |-> 0]
  /\ buf = [t \in Threads |-> 0]
  /\ tag = [t \in Threads |-> "SparseDB_1"]
  /\ amount = [t \in Threads |-> 0] /\ got = [t \in Threads |-> unset]
  /\ atom = [g \in Tags |-> IF g = "SparseDB_1" THEN align(startOffset, 4) ELSE 0]
  /\ query = [g \in Tags |-> [r \in Ranks |-> <<>>]] /\ reply = query
  /\ server = [g \in Tags |-> <<>>]
  /\ started = {"SparseDB_1"}
  /\ mpiLock = [r \in Ranks |-> FALSE]
  /\ arrived = {}
  /\ pos = [p \in Profs \cup {summary} |-> [mv |-> unset, ci |-> unset]]
  /\ file = {}
  /\ info = [p \in Profs \cup {summary} |-> [mv |-> unset, ci |-> unset]]
  /\ seen = [r \in Ranks |-> <<>>]
  /\ range = [r \in Ranks |-> unset] /\ taken = [i \in 0 .. NumRanges - 1 |-> 0]

Goto(t, where) == pc' = [pc EXCEPT ![t] = where]

-----------------------------------------------------------------------------
(* SharedAccumulator::fetch_add *)

(* A call by t; it returns to where with the result in got. *)
FetchAdd(t, g, n, where) ==
  /\ tag' = [tag EXCEPT ![t] = g]
  /\ amount' = [amount EXCEPT ![t] = n]
  /\ got' = got
  /\ ret' = [ret EXCEPT ![t] = where]
  /\ Goto(t, IF Rank(t) = 0 THEN "atomic" ELSE "send")

Atomic(t) ==
  /\ pc[t] = "atomic"
  /\ got' = [got EXCEPT ![t] = atom[tag[t]]]
  /\ atom' = [atom EXCEPT ![tag[t]] = @ + amount[t]]
  /\ Goto(t, ret[t])
  /\ UNCHANGED <<ret, done, output, tag, amount, query, reply, server, started, mpiLock,
                 arrived, database, shares>>

LockFree(r) == needsLock => ~mpiLock[r]

Send(t) ==
  LET r == Rank(t)
  IN  /\ pc[t] = "send"
      /\ LockFree(r)
      /\ query' = [query EXCEPT ![tag[t]][r] = Append(@, amount[t])]
      /\ Goto(t, "recv")
      /\ UNCHANGED <<ret, done, output, alloc, atom, reply, server, started, mpiLock,
                     arrived, database, shares>>

(* MPI_Recv blocks with the lock held. *)
Recv(t) ==
  /\ pc[t] = "recv"
  /\ LockFree(Rank(t))
  /\ mpiLock' = IF needsLock THEN [mpiLock EXCEPT ![Rank(t)] = TRUE] ELSE mpiLock
  /\ Goto(t, "receiving")
  /\ UNCHANGED <<ret, done, output, alloc, atom, query, reply, server, started, arrived,
                 database, shares>>

(* The reply comes to whichever receive of this rank and tag matches it. *)
Received(t) ==
  LET r == Rank(t)
  IN  /\ pc[t] = "receiving"
      /\ reply[tag[t]][r] # <<>>
      /\ got' = [got EXCEPT ![t] = Head(reply[tag[t]][r])]
      /\ reply' = [reply EXCEPT ![tag[t]][r] = Tail(@)]
      /\ mpiLock' = IF needsLock THEN [mpiLock EXCEPT ![r] = FALSE] ELSE mpiLock
      /\ Goto(t, ret[t])
      /\ UNCHANGED <<ret, done, output, tag, amount, atom, query, server, started, arrived,
                     database, shares>>

(* The server thread: receive_server and the addition, then the answer. *)
Serve(g) ==
  /\ g \in started /\ server[g] = <<>>
  /\ LockFree(0)
  /\ \E r \in Ranks :
       /\ query[g][r] # <<>>
       /\ server' = [server EXCEPT ![g] = <<r, atom[g]>>]
       /\ atom' = [atom EXCEPT ![g] = @ + Head(query[g][r])]
       /\ query' = [query EXCEPT ![g][r] = Tail(@)]
  /\ UNCHANGED <<pc, ret, done, output, alloc, reply, started, mpiLock, arrived, database, shares>>

Answer(g) ==
  /\ server[g] # <<>>
  /\ LockFree(0)
  /\ reply' = [reply EXCEPT ![g][server[g][1]] = Append(@, server[g][2])]
  /\ server' = [server EXCEPT ![g] = <<>>]
  /\ UNCHANGED <<pc, ret, done, output, alloc, atom, query, started, mpiLock, arrived,
                 database, shares>>

-----------------------------------------------------------------------------
(* DoubleBufferedOutput *)

(* Faulty: room for the profile that filled the buffer, not for all of it. *)
Room_last(end, s) == align(s.mv + s.ci, 4)
(* What the flush of a buffer that ends at end allocates in the file. *)
Room(end, s) == align(end, 4)

(* Lays p, of size s, out in the current buffer.  When that is then full     *)
(* the buffers rotate and t goes on to flush it with its lock held.          *)
Write(t, p, s, after) ==
  LET r == Rank(t)
      cur == currentBuf[r]
      mvOffset == align(blob[r][cur], 2)
      ciOffset == align(mvOffset + s.mv, 4)
      end == ciOffset + s.ci
  IN  /\ ~lowlock[r][cur]
      /\ pos' = [pos EXCEPT ![p] = [mv |-> mvOffset, ci |-> ciOffset]]
      /\ pieces' = [pieces EXCEPT ![r][cur] = @ \cup
                      { [prof |-> p, part |-> "mv", start |-> mvOffset, len |-> s.mv],
                        [prof |-> p, part |-> "ci", start |-> ciOffset, len |-> s.ci] }]
      /\ blob' = [blob EXCEPT ![r][cur] = end]
      /\ IF end >= bufferSize
         THEN /\ currentBuf' = [currentBuf EXCEPT ![r] = 1 - cur]
              /\ lowlock' = [lowlock EXCEPT ![r][cur] = TRUE]
              /\ buf' = [buf EXCEPT ![t] = cur]
              /\ FetchAdd(t, "SparseDB_1", Room(end, s), "flush")
         ELSE Goto(t, after) /\ UNCHANGED <<currentBuf, lowlock, buf, ret, alloc>>

(* The offsets x of a profile in a buffer that is written at o. *)
Final(x, o) == [mv |-> x.mv + o, ci |-> x.ci + o]

(* Buffer::flush at the allocated offset, and the lock is given up. *)
Flush(t, after) ==
  LET r == Rank(t)
      cur == buf[t]
      flushed(p) == \E x \in pieces[r][cur] : x.prof = p
  IN  /\ file' = file \cup { [x EXCEPT !.start = @ + got[t]] : x \in pieces[r][cur] }
      /\ pos' = [p \in DOMAIN pos |-> IF flushed(p) THEN Final(pos[p], got[t]) ELSE pos[p]]
      /\ blob' = [blob EXCEPT ![r][cur] = 0]
      /\ pieces' = [pieces EXCEPT ![r][cur] = {}]
      /\ lowlock' = [lowlock EXCEPT ![r][cur] = FALSE]
      /\ got' = [got EXCEPT ![t] = unset]
      /\ Goto(t, after)

FlushFull(t) ==
  /\ pc[t] = "flush"
  /\ Flush(t, IF t \in Mains THEN "flush0" ELSE "process")
  /\ UNCHANGED <<ret, done, currentBuf, buf, tag, amount, mpi, info, seen, shares>>

(* SparseDB::process for the worker's next profile *)
Process(w) ==
  /\ pc[w] = "process" /\ done[w] < Len(Profiles[w])
  /\ done' = [done EXCEPT ![w] = @ + 1]
  /\ Write(w, <<w, done'[w]>>, Profiles[w][done'[w]], "process")
  /\ UNCHANGED <<mpi, file, info, seen, shares>>

-----------------------------------------------------------------------------
(* SparseDB::write, by the main thread m of a rank *)

Start(m) ==
  /\ pc[m] = "process"
  /\ \A w \in Workers[Rank(m) + 1] : pc[w] = "process" /\ done[w] = Len(Profiles[w])
  /\ Goto(m, "flush0")
  /\ UNCHANGED <<ret, done, output, alloc, mpi, database, shares>>

(* DoubleBufferedOutput::flush, for one buffer after the other *)
FlushBuf(m, b) ==
  LET r == Rank(m)
  IN  /\ pc[m] = IF b = 0 THEN "flush0" ELSE "flush1"
      /\ ~lowlock[r][b]
      /\ lowlock' = [lowlock EXCEPT ![r][b] = TRUE]
      /\ buf' = [buf EXCEPT ![m] = b]
      /\ FetchAdd(m, "SparseDB_1", align(blob[r][b], 4), "drain")
      /\ UNCHANGED <<done, blob, pieces, currentBuf, mpi, database, shares>>

Drain(m) ==
  /\ pc[m] = "drain"
  /\ Flush(m, IF buf[m] = 0 THEN "flush1"
              ELSE IF seen[Rank(m)] = <<>> THEN "barrier" ELSE "footer")
  /\ UNCHANGED <<ret, done, currentBuf, buf, tag, amount, mpi, info, seen, shares>>

(* The collective operations, with the lock held inside. *)
Collectives == {"barrier", "allreduce", "lastBarrier"}
Enter(m) ==
  /\ pc[m] \in Collectives
  /\ LockFree(Rank(m))
  /\ mpiLock' = IF needsLock THEN [mpiLock EXCEPT ![Rank(m)] = TRUE] ELSE mpiLock
  /\ arrived' = arrived \cup {<<pc[m], Rank(m)>>}
  /\ ret' = [ret EXCEPT ![m] = pc[m]]
  /\ Goto(m, "waiting")
  /\ UNCHANGED <<done, output, alloc, atom, query, reply, server, started, database, shares>>

(* Faulty: nobody waits for the others. *)
Together_not(c) == \E r \in Ranks : <<c, r>> \in arrived
Together(c) == \A r \in Ranks : <<c, r>> \in arrived

Leave(m) ==
  /\ pc[m] = "waiting"
  /\ Together(ret[m])
  /\ mpiLock' = IF needsLock THEN [mpiLock EXCEPT ![Rank(m)] = FALSE] ELSE mpiLock
  /\ Goto(m, CASE ret[m] = "barrier" -> "infos"
               [] ret[m] = "allreduce" -> "read"
               [] ret[m] = "lastBarrier" -> "end")
  /\ UNCHANGED <<ret, done, output, alloc, atom, query, reply, server, started, arrived,
                 database, shares>>

(* Every profile's info goes to its place in the file. *)
WriteInfos(m) ==
  /\ pc[m] = "infos"
  /\ info' = [p \in DOMAIN info |-> IF p \in Profs /\ Owner(p) = Rank(m) THEN pos[p] ELSE info[p]]
  /\ Goto(m, "allreduce")
  /\ UNCHANGED <<ret, done, output, alloc, mpi, pos, file, seen, shares>>

(* Faulty: the preallocated ranges are not kept from the others. *)
Preallocated_none == 0
(* The first range that is not preallocated to a rank other than 0. *)
Preallocated == Size - 1

(* ctxRangeCounter.initialize, and the infos of all ranks are read back. *)
ReadInfos(m) ==
  LET r == Rank(m)
  IN  /\ pc[m] = "read"
      /\ IF r = 0
         THEN /\ started' = started \cup {"SparseDB_2"}
              /\ atom' = [atom EXCEPT !["SparseDB_2"] = Preallocated]
         ELSE UNCHANGED <<started, atom>>
      /\ seen' = [seen EXCEPT ![r] = info]
      /\ range' = [range EXCEPT ![r] = IF r > 0 THEN r - 1 ELSE @]
      /\ Goto(m, IF r = 0 THEN "summary" ELSE "range")
      /\ UNCHANGED <<ret, done, output, alloc, query, reply, server, mpiLock, arrived, pos, file,
                     info, taken>>

(* Rank 0 writes the summary profile, flushes, and writes the footer. *)
WriteSummary(m) ==
  /\ pc[m] = "summary"
  /\ Write(m, summary, Summary, "flush0")
  /\ UNCHANGED <<done, mpi, file, info, seen, shares>>

AllocateFooter(m) ==
  /\ pc[m] = "footer"
  /\ info' = [info EXCEPT ![summary] = pos[summary]]
  /\ FetchAdd(m, "SparseDB_1", align(8, 4), "writeFooter")
  /\ UNCHANGED <<done, output, mpi, pos, file, seen, shares>>

WriteFooter(m) ==
  /\ pc[m] = "writeFooter"
  /\ file' = file \cup {[prof |-> <<"footer">>, part |-> "footer", start |-> got[m], len |-> 8]}
  /\ FetchAdd(m, "SparseDB_2", 1, "fetched")
  /\ UNCHANGED <<done, output, mpi, pos, info, seen, shares>>

(* The next context range, or none left. *)
Fetched(m) ==
  /\ pc[m] = "fetched"
  /\ range' = [range EXCEPT ![Rank(m)] = got[m]]
  /\ got' = [got EXCEPT ![m] = unset]
  /\ Goto(m, "range")
  /\ UNCHANGED <<ret, done, output, tag, amount, mpi, database, taken>>

Transpose(m) ==
  LET i == range[Rank(m)]
  IN  /\ pc[m] = "range" /\ i < NumRanges
      /\ taken' = [taken EXCEPT ![i] = @ + 1]
      /\ FetchAdd(m, "SparseDB_2", 1, "fetched")
      /\ UNCHANGED <<done, output, mpi, database, range>>

NoRange(m) ==
  /\ pc[m] = "range" /\ range[Rank(m)] >= NumRanges
  /\ Goto(m, "lastBarrier")
  /\ UNCHANGED <<ret, done, output, alloc, mpi, database, shares>>

(* The counter goes out of scope, and its server with it. *)
End(m) ==
  /\ pc[m] = "end"
  /\ started' = IF Rank(m) = 0 THEN started \ {"SparseDB_2"} ELSE started
  /\ Goto(m, "done")
  /\ UNCHANGED <<ret, done, output, alloc, atom, query, reply, server, mpiLock, arrived,
                 database, shares>>

Finished == \A m \in Mains : pc[m] = "done"

Call(t) == Atomic(t) \/ Send(t) \/ Recv(t) \/ Received(t) \/ FlushFull(t)
Worker(w) == Process(w) \/ Call(w)
Main(m) ==
  \/ Start(m) \/ Call(m) \/ (\E b \in Bufs : FlushBuf(m, b)) \/ Drain(m) \/ Enter(m) \/ Leave(m)
  \/ WriteInfos(m) \/ ReadInfos(m) \/ WriteSummary(m) \/ AllocateFooter(m) \/ WriteFooter(m)
  \/ Fetched(m) \/ Transpose(m) \/ NoRange(m) \/ End(m)
Server(g) == Serve(g) \/ Answer(g)

Next ==
  \/ \E w \in Team : Worker(w)
  \/ \E m \in Mains : Main(m)
  \/ \E g \in Tags : Server(g)
  \/ Finished /\ UNCHANGED vars

Spec == Init /\ [][Next]_vars
FairSpec ==
  /\ Spec
  /\ \A w \in Team : WF_vars(Worker(w))
  /\ \A m \in Mains : WF_vars(Main(m))
  /\ \A g \in Tags : WF_vars(Server(g))

-----------------------------------------------------------------------------
End_(x) == x.start + x.len

(* What the ranks write to profile.db does not overlap, whoever allocated    *)
(* the room for it and through whom, and the footer comes last:              *)
(* DoubleBufferedOutput::allocate returns "the final offset for this space". *)
ProfilesApart ==
  /\ \A x, y \in file : x # y => End_(x) <= y.start \/ End_(y) <= x.start
  /\ \A x, y \in file : x.part = "footer" => End_(y) <= End_(x)

At(p, part) == { x.start : x \in { y \in file : y.prof = p /\ y.part = part } }

(* Each rank reads back, for the profiles of all ranks, offsets at which     *)
(* they have been written: nobody reads before the buffers are flushed, the  *)
(* offsets final and the infos in the file.                                  *)
InfosFinal ==
  \A r \in Ranks, p \in Profs : seen[r] # <<>> =>
    At(p, "mv") = {seen[r][p].mv} /\ At(p, "ci") = {seen[r][p].ci}

(* Every rank gets through SparseDB::write: every request is answered and    *)
(* no rank waits in a collective operation for one that waits for it.  By    *)
(* then every range of contexts has been transposed once, the ones           *)
(* preallocated to a rank and the ones fetched alike.                        *)
WriteReturns == <>(Finished /\ \A i \in DOMAIN taken : taken[i] = 1)
=============================================================================
