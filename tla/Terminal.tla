------------------------------ MODULE Terminal ------------------------------
(***************************************************************************)
(* What the console promises: a line that can be edited until it is         *)
(* entered, and entered characters that each go to one reader, in order, no *)
(* read taking more than one line.                                          *)
(***************************************************************************)
EXTENDS Naturals, Sequences, SequencesExt

CONSTANTS Capacity, Readers

VARIABLES line,   \* typed, not entered
          ready,  \* entered, not read
          got     \* what each reader has of the read it is in

vars == <<line, ready, got>>

Init == line = <<>> /\ ready = <<>> /\ got = [p \in Readers |-> <<>>]

Stops(c) == c \in {"\n", "^D"}

erase == line # <<>> /\ line' = Front(line) /\ UNCHANGED <<ready, got>>

kill == line' = <<>> /\ UNCHANGED <<ready, got>>

\* A key is added, and enters the line if it ends one or fills the terminal.
type(c) ==
  LET typed == Append(line, c) IN
  /\ Len(ready) + Len(line) < Capacity
  /\ IF Stops(c) \/ Len(ready) + Len(typed) = Capacity
     THEN line' = <<>> /\ ready' = ready \o typed
     ELSE line' = typed /\ UNCHANGED ready
  /\ UNCHANGED got

\* Reader p takes k characters; a newline is the last of its line, and ^D is no character
\* but ends a read: it is taken by one that has nothing else.
take(p, k) ==
  /\ \A j \in 1 .. k - 1 : ~ Stops(ready[j])
  /\ got[p] = <<>> \/ ~ Stops(Last(got[p]))
  /\ IF k = 1 /\ ready[1] = "^D"
     THEN got[p] = <<>> /\ UNCHANGED got
     ELSE ready[k] # "^D" /\ got' = [got EXCEPT ![p] = @ \o SubSeq(ready, 1, k)]
  /\ ready' = SubSeq(ready, k + 1, Len(ready))
  /\ UNCHANGED line

return(p) == got' = [got EXCEPT ![p] = <<>>] /\ UNCHANGED <<line, ready>>

Next ==
  \/ erase \/ kill
  \/ \E c \in {"a", "b", "\n", "^D"} : type(c)
  \/ \E p \in Readers : return(p) \/ \E k \in DOMAIN ready : take(p, k)

Spec == Init /\ [][Next]_vars
=============================================================================
