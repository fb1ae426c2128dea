---------------------------- MODULE AddressSpaces ----------------------------
(***************************************************************************)
(* What processes may expect of memory: each has words of its own.  No step *)
(* of another process changes them, new ones are zero, a child begins with  *)
(* a copy, and exec replaces all of them or none.                           *)
(***************************************************************************)
EXTENDS Naturals

CONSTANTS Slots, Words,
          Sizes,   \* the sizes an address space may have
          Loaded   \* what a space is after an exec

VARIABLE space   \* slot -> address -> word; without addresses for a slot not in use

None == [a \in {} |-> 0]
Size(s) == 0 .. s - 1

Init == \E p \in Slots, s \in Loaded : space = [q \in Slots |-> IF q = p THEN s ELSE None]

\* Only the words of p change, from s to t.
Only(p, s, t) == s # t /\ \A q \in Slots \ {p} : space'[q] = space[q]

Stored(s, t) == \E a \in DOMAIN s \cap DOMAIN t : t[a] \in Words /\ t = [s EXCEPT ![a] = t[a]]
Resized(s, t) == \E n \in Sizes : t = [a \in Size(n) |-> IF a \in DOMAIN s THEN s[a] ELSE "0"]

Next ==
  \E p \in Slots :
    LET s == space[p]  t == space'[p] IN
    /\ Only(p, s, t)
    /\ \/ s = None /\ \E q \in Slots : t = space[q]        \* fork
       \/ s # None /\ (Stored(s, t) \/ Resized(s, t) \/ t \in Loaded \/ t = None)

Spec == Init /\ [][Next]_space
=============================================================================
