------------------------------ MODULE Channel ------------------------------
(***************************************************************************)
(* What a pipe promises: bytes come out in the order they went in, at most  *)
(* Capacity are under way, an end that is closed stays closed, and a pipe   *)
(* is made anew only after both ends are.                                   *)
(***************************************************************************)
EXTENDS Naturals, Sequences, SequencesExt

CONSTANT Capacity

VARIABLES q,            \* bytes written and not yet read
          reads, writes \* the end is open

vars == <<q, reads, writes>>

Init == q = <<>> /\ ~ reads /\ ~ writes

open ==
  /\ ~ reads /\ ~ writes
  /\ reads' /\ writes' /\ q' = <<>>

\* A write puts in what has room.
write ==
  /\ writes
  /\ Len(q') \in Len(q) + 1 .. Capacity
  /\ IsPrefix(q, q')
  /\ UNCHANGED <<reads, writes>>

read ==
  /\ reads /\ q # <<>>
  /\ \E n \in 1 .. Len(q) : q' = SubSeq(q, n + 1, Len(q))
  /\ UNCHANGED <<reads, writes>>

\* The bytes of a pipe that nobody has any more are gone.
close ==
  /\ \/ reads /\ ~ reads' /\ writes' = writes
     \/ writes /\ ~ writes' /\ reads' = reads
  /\ q' = IF reads' \/ writes' THEN q ELSE <<>>

Next == open \/ write \/ read \/ close

Spec == Init /\ [][Next]_vars
=============================================================================
