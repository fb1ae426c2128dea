------------------------------- MODULE MCLog -------------------------------
(* Model values and symmetry for the runs of Log.                          *)
EXTENDS LogInv, TLC

CONSTANTS o1, o2, o3, s1, b1, b2, b3, b4, b5

MCOps2 == {o1, o2}
MCOps3 == {o1, o2, o3}
MCNone == {}
MCSync == {s1}
MCBlocks2 == {b1, b2}
MCBlocks5 == {b1, b2, b3, b4, b5}

\* Operations are alike and so are blocks: sound for invariants and for
\* step properties, and not used where liveness is checked.
Alike5 == Permutations(MCOps3) \cup Permutations(MCBlocks5)
=============================================================================
