------------------------------ MODULE MCHpcrun ------------------------------
(***************************************************************************)
(* The parts of hpcrun whose threads wait for each other: OpenCL           *)
(* operations (GPUOperation), the channel sets and GPU trace streams       *)
(* (GPUStreams), both of which this module extends, and the reader-writer  *)
(* lock.  They are independent here, so a behaviour runs one of them,      *)
(* chosen at the start, and the others stay in their initial states: there *)
(* are as many states as the components have together, not their product.  *)
(***************************************************************************)
EXTENDS GPUOperation, GPUStreams

CONSTANTS r1, w1, w2, nil

VARIABLES running     \* the component that this behaviour runs

-----------------------------------------------------------------------------
VARIABLES l_tail, l_next, blocked, l_pred, mpc, place, len, r_in, r_out, last,
          wbr, whead, l_rpc, rtick, wpc, wphase, wticket, passed, stalled

lock == <<l_tail, l_next, blocked, l_pred, mpc, place, len, r_in, r_out, last,
          wbr, whead, l_rpc, rtick, wpc, wphase, wticket, passed, stalled>>

RWLock == INSTANCE PFQRWLock
  WITH Readers <- {r1}, Writers <- {w1, w2}, Wrap <- 2,
       tail <- l_tail, next <- l_next, pred <- l_pred, rpc <- l_rpc
-----------------------------------------------------------------------------
suite == <<running, lock, channelSet, vars, trace>>

SuiteInit ==
  /\ running \in {"rwlock", "set", "operation", "trace"}
  /\ RWLock!Init /\ Set!Init /\ Init /\ Trace!Init

Runs(x) == running = x /\ UNCHANGED running

(* The bound of MCPFQRWLock. *)
UntilStall == IF stalled THEN UNCHANGED lock ELSE RWLock!Next

SuiteNext ==
  \/ /\ Runs("rwlock") /\ UntilStall
     /\ UNCHANGED <<channelSet, vars, trace>>
  \/ /\ Runs("set") /\ Set!Next
     /\ UNCHANGED <<lock, vars, trace>>
  \/ /\ Runs("operation") /\ Next
     /\ UNCHANGED <<lock, channelSet, trace>>
  \/ /\ Runs("trace") /\ Trace!Next
     /\ UNCHANGED <<lock, channelSet, vars>>

(* The fairness of each component is that of its own module. *)
SuiteSpec ==
  /\ SuiteInit /\ [][SuiteNext]_suite
  /\ WF_lock(running = "rwlock" /\ RWLock!ReadStep(r1))
  /\ \A x \in {w1, w2} :
       WF_lock(running = "rwlock" /\ (RWLock!WriteStep(x) \/ (wpc[x] = "mcs" /\ RWLock!WriteMcs(x))))
  /\ WF_channelSet(running = "set" /\ Set!Receiver)
  /\ \A s \in Senders : WF_channelSet(running = "set" /\ Set!Sender(s))
  /\ WF_vars(running = "operation" /\ Record)
  /\ WF_vars(running = "operation" /\ Fini)
  /\ \A t \in Apps : WF_vars(running = "operation" /\ Finalize(t))
  /\ \A o \in Ops : WF_vars(running = "operation" /\ \E c \in Callbacks : Complete(c, o))
  /\ WF_trace(running = "trace" /\ (Trace!AwaitStreams \/ Trace!FiniAgain))
  /\ \A k \in 1 .. Cardinality(Streams) : WF_trace(running = "trace" /\ k \in DOMAIN t_rpc /\ Trace!Tracer(k))
-----------------------------------------------------------------------------
(* pfq-rwlock.c: a reader that spins on the flag of its phase gets in, and   *)
(* so does a writer, unless a reader has stalled in read_unlock.             *)
EveryoneGetsIn == RWLock!EveryoneGetsIn

(* base-channel-set.c: signals get lost, and still every item is received,   *)
(* unless the receiver is told to stop.                                      *)
ItemsReceived == Set!ItemsReceived

(* opencl-api.c, gpu-trace-api.c: a thread that starts to end gets there,    *)
(* whatever the others do, unless it is main on a normal exit with an        *)
(* operation of its own that failed; and gpu_trace_fini returns when the     *)
(* files of all streams are closed.                                          *)
ThreadsEnd == EndsTerminate /\ Trace!FiniReturns
=============================================================================
