-------------------------- MODULE MCProfileOutput ---------------------------
(***************************************************************************)
(* Two ranks; on the second one two threads fill a buffer each, and ask    *)
(* rank 0 for room at the same time.                                       *)
(***************************************************************************)
EXTENDS ProfileOutput

CONSTANTS a, b, c

Small == [mv |-> 10, ci |-> 12]
Large == [mv |-> 20, ci |-> 12]
Teams == <<{a}, {b, c}>>
Inputs == [w \in Team |-> IF w = c THEN <<Large>> ELSE <<Small>>]
=============================================================================
