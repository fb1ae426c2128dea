----------------------------- MODULE StrideHeap -----------------------------
(***************************************************************************)
(* The binary heap of proj_scheduler/xv6-public/proc.c, as operators on    *)
(* the sequence proc_list[1..size] and the field pass of every process.    *)
(* Its users are the actions of Scheduler.                                 *)
(***************************************************************************)
EXTENDS Integers, Sequences, SequencesExt

Swap(s, i, j) == [s EXCEPT ![i] = s[j], ![j] = s[i]]

\* The inner loop of build_heap: the entry at t sinks below its smaller child.
RECURSIVE SiftDown(_, _, _)
SiftDown(pass, s, t) ==
  LET left == 2 * t
      right == 2 * t + 1
      less(i, j) == i <= Len(s) /\ pass[s[i]] < pass[s[j]]
  IN  IF less(right, left) /\ less(right, t)
        THEN SiftDown(pass, Swap(s, t, right), right)
      ELSE IF less(left, t)
        THEN SiftDown(pass, Swap(s, t, left), left)
      ELSE s

\* One turn of the outer loop: entry idx against its parent.
BuildTurn(pass, s, idx) ==
  IF pass[s[idx \div 2]] < pass[s[idx]]
    THEN s
    ELSE SiftDown(pass, Swap(s, idx \div 2, idx), idx)

\* idx runs from size down to 2.
build_heap(pass, s) ==
  LET turn(t, k) == BuildTurn(pass, t, Len(s) + 1 - k)
  IN  FoldLeft(turn, s, [k \in 1 .. Len(s) - 1 |-> k])

push_heap(pass, s, p) == build_heap(pass, Append(s, p))

\* Mutant: the last entry is lost instead of moved to the root.
pop_heap_lossy(pass, s) == build_heap(pass, SubSeq(s, 1, Len(s) - 1))

\* The heap after pop_heap; what it returns is s[1].
pop_heap(pass, s) ==
  build_heap(pass, SubSeq([s EXCEPT ![1] = s[Len(s)]], 1, Len(s) - 1))

\* The position of a process: the search loops of sleep and exit.
PlaceOf(s, p) == CHOOSE i \in DOMAIN s : s[i] = p

\* The loop of sleep: the entry at i sinks past every child that is not
\* greater, equal ones included.
RECURSIVE SinkFrom(_, _, _)
SinkFrom(pass, s, i) ==
  LET left == 2 * i
      child == IF left + 1 <= Len(s) /\ pass[s[left]] > pass[s[left + 1]]
                 THEN left + 1 ELSE left
  IN  IF left > Len(s) \/ pass[s[child]] > pass[s[i]]
        THEN s
        ELSE SinkFrom(pass, Swap(s, child, i), child)

\* exit: the process is swapped to the root, whatever its pass, and popped.
Removed(pass, s, p) == pop_heap(pass, Swap(s, PlaceOf(s, p), 1))
=============================================================================
