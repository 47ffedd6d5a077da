---------------------------- MODULE MCPFQRWLock -----------------------------
(***************************************************************************)
(* The reader-writer lock up to the first stall of a reader in             *)
(* read_unlock.  Its properties claim nothing about what comes later, when *)
(* the lock may admit everybody or hang.                                   *)
(***************************************************************************)
EXTENDS PFQRWLock

\* The bound: no step is explored once a reader has stalled.
UntilStall == ~stalled /\ Next
Stalled == stalled /\ UNCHANGED vars

BoundedSpec == Init /\ [][UntilStall \/ Stalled]_vars
=============================================================================
