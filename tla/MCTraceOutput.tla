--------------------------- MODULE MCTraceOutput ----------------------------
(***************************************************************************)
(* One trace that the sort buffer of its declared disorder cannot          *)
(* straighten, so that it is read again from the start.                    *)
(***************************************************************************)
EXTENDS TraceOutput

Rewinding == { [ i \in 1 .. 6 |-> [time |-> <<2, 4, 6, 8, 10, 5>>[i], blank |-> b[i]] ] :
                 b \in [1 .. 6 -> BOOLEAN] }
=============================================================================
