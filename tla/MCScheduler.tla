---------------------------- MODULE MCScheduler ----------------------------
(* Model values, tables and symmetry for the runs of Scheduler.             *)
EXTENDS Scheduler

CONSTANTS init, p1, p2, p3, c1, c2

MCProcs3 == {init, p1, p2}
MCProcs4 == {init, p1, p2, p3}
MCCpus1 == {c1}
MCCpus2 == {c1, c2}

Work(do, share, on, n, t, c) ==
  [calls |-> do, portions |-> share, cpus |-> on, nproc |-> n, forks |-> n - 1, turns |-> t, cuts |-> c]

MCStride == {[Work({"yield", "kill"}, {}, MCCpus2, 3, 1, 0) EXCEPT !.forks = 3],
             Work({"yield", "kill"}, {}, MCCpus2, 3, 2, 0), Work({"sleep"}, {}, MCCpus2, 3, 2, 0)}

\* Few processes that use everything and are interrupted in it, and more, or longer,
\* that are all in the MLFQ; on either CPU, because CPUs are alike.
MCTickets == UNION {
  {Work({"sleep"}, {10, 20}, {c}, 3, 1, 2),
   Work({"run_MLFQ"}, {20}, {c}, 3, 1, 1),
   Work({"run_MLFQ", "sleep", "MLFQ sleeps"}, {}, {c}, 3, 1, 1),
   Work({"run_MLFQ"}, {}, {c}, 3, 3, 0),
   Work({"run_MLFQ"}, {}, {c}, 4, 1, 0)} : c \in MCCpus2}

MCWorkloads == MCStride \cup MCTickets

MCAllotTurns == [l \in 0..2 |-> l + 1]
MCAllot == [l \in 0..2 |-> l]
MCLevelAllot == [l \in 0..2 |-> l]

\* Processes other than init are alike, and so are CPUs: sound for invariants
\* and step properties.
AlikeProcs == Permutations(MCProcs4 \ {init})
Alike == AlikeProcs \cup Permutations(MCCpus2)
=============================================================================
