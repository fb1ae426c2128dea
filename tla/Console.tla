------------------------------ MODULE Console ------------------------------
(***************************************************************************)
(* The line discipline of console.c: the ring of characters typed, with the *)
(* read, write and edit index of `input`, as operators on that record.      *)
(* cons.lock makes each of them one step of the actions of Names.  Echo and *)
(* the listing of processes (^P) are left out.                              *)
(***************************************************************************)
EXTENDS Naturals, Sequences, FiniteSets, SequencesExt

CONSTANTS INPUT_BUF,   \* size of the ring
          UINT         \* the indices wrap at this value, a multiple of the size

Empty == [buf |-> [j \in 0 .. INPUT_BUF - 1 |-> ""], r |-> 0, w |-> 0, e |-> 0]

Distance(a, b) == (b + UINT - a) % UINT
Between(in, a, b) == [j \in 1 .. Distance(a, b) |-> in.buf[(a + j - 1) % INPUT_BUF]]
Ready(in) == Between(in, in.r, in.w)   \* lines that can be read
Line(in) == Between(in, in.w, in.e)    \* the line that is being typed

\* Mutant: one character too many for the ring.
HasRoom_off(in) == Distance(in.r, in.e) <= INPUT_BUF

HasRoom(in) == Distance(in.r, in.e) < INPUT_BUF

\* Back to the start of the line, which the write index or a newline marks.
Killed(in) ==
  [in EXCEPT !.e = (in.w + SelectLastInSeq(Line(in), LAMBDA c : c = "\n")) % UINT]

Erased(in) == IF in.e = in.w THEN in ELSE [in EXCEPT !.e = (@ + UINT - 1) % UINT]

Put(in, c) == [in EXCEPT !.buf[in.e % INPUT_BUF] = c, !.e = (@ + 1) % UINT]

\* A line ends with a newline, with ^D, and where the ring is full.
Ends(in, c) == c \in {"\n", "^D"} \/ in.e = (in.r + INPUT_BUF) % UINT

\* consoleintr for one character, and whether it wakes the readers.
Wakes(in, c) == c \notin {"^U", "^H"} /\ HasRoom(in) /\ Ends(Put(in, c), c)
Typed(in, c) ==
  CASE c = "^U" -> Killed(in)
    [] c = "^H" -> Erased(in)
    [] OTHER -> IF ~ HasRoom(in) THEN in
                ELSE IF Wakes(in, c) THEN [Put(in, c) EXCEPT !.w = Put(in, c).e] ELSE Put(in, c)

\* What the loop of consoleread takes for a reader that wants n more characters: all
\* there is, to the end of a line.
Taken(in, n) ==
  LET most == Min({n, Len(Ready(in))})
      ends == {j \in 1 .. most : Ready(in)[j] \in {"\n", "^D"}} IN
  SubSeq(Ready(in), 1, IF ends = {} THEN most ELSE Min(ends))

Consumed(in, k) == [in EXCEPT !.r = (@ + k) % UINT]
=============================================================================
