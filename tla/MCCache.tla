------------------------------ MODULE MCCache ------------------------------
(* Model values and bounds for the run of Cache.                           *)
EXTENDS Cache

CONSTANTS p1, p2

MCProcs == {p1, p2}
MCBlocks == 1..4
MCCalls == [p \in MCProcs |-> IF p = p1 THEN 3 ELSE 1]
=============================================================================
