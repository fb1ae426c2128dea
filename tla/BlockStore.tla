----------------------------- MODULE BlockStore -----------------------------
(***************************************************************************)
(* What the buffer cache promises to the file system: blocks that a process *)
(* locks, changes while it has them, and gives back.  No cache, no disk.    *)
(***************************************************************************)
CONSTANTS Procs, Blocks, Nobody, Data

VARIABLES owner,     \* who has each block
          content    \* the last thing written to it

vars == <<owner, content>>

Init ==
  /\ owner = [n \in Blocks |-> Nobody]
  /\ content \in [Blocks -> Data]

lock(p, n) ==
  /\ owner[n] = Nobody
  /\ owner' = [owner EXCEPT ![n] = p]
  /\ UNCHANGED content

write(p, n) ==
  /\ owner[n] = p
  /\ \E d \in Data : content' = [content EXCEPT ![n] = d]
  /\ UNCHANGED owner

unlock(p, n) ==
  /\ owner[n] = p
  /\ owner' = [owner EXCEPT ![n] = Nobody]
  /\ UNCHANGED content

Next == \E p \in Procs, n \in Blocks : lock(p, n) \/ write(p, n) \/ unlock(p, n)

Spec == Init /\ [][Next]_vars
=============================================================================
