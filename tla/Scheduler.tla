----------------------------- MODULE Scheduler -----------------------------
(***************************************************************************)
(* The process table and the scheduler of proj_scheduler/xv6-public: the   *)
(* stride heap, the three-level MLFQ under it, and the system calls that   *)
(* move a process between them (proc.c, cpu_share.c, run_MLFQ.c, trap.c).  *)
(*                                                                         *)
(* A CPU is in scheduler() ("loop"), in a process ("run"), or has just     *)
(* been switched back to by a process ("back"), still under the lock that  *)
(* process took.  A critical section of ptable.lock is one step, split     *)
(* only at swtch.  cpu_share and run_MLFQ take no lock: each of their      *)
(* assignments is a step, and a tick may fall between two.  A process is a *)
(* slot of ptable; init is the first.                                      *)
(***************************************************************************)
EXTENDS StrideHeap, FiniteSets, TLC

CONSTANTS Procs,         \* slots of ptable
          initproc,
          Cpus,
          None,
          Workloads,     \* what a run does: its calls besides fork, wait and exit; the
                         \* portions it asks of cpu_share; cpus that are up, nproc slots;
                         \* bounds on the forks, on the turns a process gives up itself
                         \* and on the ticks inside cpu_share and run_MLFQ (cuts)
          TOTAL_TICKET,
          proc_allot,    \* ticks a process may run before its turn is over
          level_allot,   \* ticks after which a process leaves a level
          BoostTicks,    \* mlfq.b_tick at which priorities are boosted
          ASLEEP,        \* pass of a sleeper: 2000000000
          UINT           \* size of an unsigned integer

ASSUME SchedulerAssumption ==
  /\ initproc \in Procs
  /\ None \notin Procs \cup Cpus
  /\ \A w \in Workloads :
       /\ {w.forks, w.turns, w.cuts, w.nproc} \subseteq Nat /\ w.cpus \subseteq Cpus
       /\ w.portions \subseteq 1..20 /\ (w.portions # {} => Cardinality(w.cpus) = 1)
       /\ "run_MLFQ" \in w.calls => Cardinality(w.cpus) = 1
       /\ w.calls \subseteq {"sleep", "yield", "kill", "cpu_share again",
                            "run_MLFQ", "run_MLFQ again", "MLFQ exits early",
                            "MLFQ sleeps"}
  /\ proc_allot \in [0..2 -> Nat]
  /\ level_allot \in [0..2 -> Nat]

VARIABLES state, kind, pass, ticket, portion,   \* fields of struct proc
          level, tick, quantom, parent, chan, killed,
          h,             \* the heap: proc_list, counters, min_pass
          mlfq,          \* queues, b_tick, mlfq_pass
          cpu,           \* what each CPU does, and scheduler()'s locals
          lock,          \* the CPU that holds ptable.lock, or None
          call,          \* where a process is in cpu_share or run_MLFQ, and their locals
          panic,         \* the message the kernel stopped with
          load,          \* the workload
          turns, forks,  \* turns a process has given up, forks that are left
          cuts,          \* ticks that may still fall inside cpu_share and run_MLFQ
          dropped, stale \* history, read by no action: processes init_MLFQ threw out of
                         \* the queues; whether a tick fell between norm_ticket and the
                         \* end of its loop, and no fork or exit has dealt since

class == <<kind, ticket, portion>>
history == <<level, tick, quantom>>
family == <<parent, killed>>
seen == <<dropped, stale>>
bounds == <<turns, forks, cuts, seen>>
vars == <<state, kind, pass, ticket, portion, level, tick, quantom, parent, chan, killed,
          h, mlfq, cpu, lock, call, panic, load, turns, forks, cuts, dropped, stale>>

Levels == 0..2
MLFQ_SHARE == 20

\* The lines of cpu_share after its test, and of run_MLFQ with init_MLFQ and push_MLFQ,
\* in their order, one assignment each; a tick may fall between any two.
Lines ==
  [SHARE |-> <<"leave", "kind", "portion", "total", "norm", "deal">>,
   MLFQ |-> <<"init", "has", "mlfq_pass", "leave", "total", "portion", "pass", "kind",
              "level", "quantom", "ticket", "store", "size", "num", "push quantom",
              "push pass", "norm", "deal">>]
Outside == [to |-> "NORMAL", pc |-> 0, n |-> 0, norm |-> 0, i |-> 0]
Idle == [at |-> "loop", proc |-> None, top |-> None]

Init ==
  /\ state = [p \in Procs |-> IF p = initproc THEN "RUNNABLE" ELSE "UNUSED"]
  /\ kind = [p \in Procs |-> "NORMAL"]
  /\ pass = [p \in Procs |-> 0]
  /\ ticket = [p \in Procs |-> IF p = initproc THEN TOTAL_TICKET ELSE 0]
  /\ portion = [p \in Procs |-> 0]
  /\ level = [p \in Procs |-> 0]
  /\ tick = [p \in Procs |-> 0]
  /\ quantom = [p \in Procs |-> 0]
  /\ parent = [p \in Procs |-> None]
  /\ chan = [p \in Procs |-> None]
  /\ killed = [p \in Procs |-> FALSE]
  /\ h = [list |-> <<initproc>>, normal_num |-> 1, mlfq_num |-> 0,
          total_share |-> 0, min_pass |-> 0, has_mlfq |-> 0]
  /\ mlfq = [q |-> [l \in Levels |-> <<>>], size |-> [l \in Levels |-> 0],
             b_tick |-> 0, mlfq_pass |-> 0]
  /\ lock = None
  /\ call = [p \in Procs |-> Outside]
  /\ dropped = {} /\ stale = FALSE
  /\ panic = ""
  /\ turns = [p \in Procs |-> 0]
  /\ \E w \in Workloads :
       /\ load = w /\ forks = w.forks /\ cuts = w.cuts
       /\ cpu = [c \in Cpus |-> IF c \in w.cpus THEN Idle ELSE [Idle EXCEPT !.at = "off"]]

----------------------------------------------------------------------------
(* What the handlers share.                                                 *)

\* c is in p, in user code or in a call of p.
Runs(c, p) ==
  /\ panic = ""
  /\ cpu[c].at = "run"
  /\ cpu[c].proc = p

\* The line of cpu_share or run_MLFQ that p executes next, if it is in one of them.
Line(p) == IF call[p] = Outside THEN "" ELSE Lines[call[p].to][call[p].pc]

\* A process about to take ptable.lock in a system call or at a tick.
Enters(c, p) == Runs(c, p) /\ lock = None /\ call[p] = Outside

\* The same, for a process that is not inside wait.  One that was killed makes
\* no other call: trap sends it to exit.
Calling(c, p) == Enters(c, p) /\ ~ killed[p] /\ chan[p] # p

\* h.min_pass after a push or a pop: the root's pass, or 0 if it sleeps.
MinPass(s, st, ps) == IF st[s[1]] = "SLEEPING" THEN 0 ELSE ps[s[1]]

\* Mutant: what others reserved is not taken off.
NormalTickets_all(hh) == TOTAL_TICKET

\* What NORMAL processes have to share: norm_ticket.
NormalTickets(hh) == (TOTAL_TICKET * (100 - hh.total_share - hh.has_mlfq)) \div 100

\* What one turn of the loop that hands out tickets gives to k.
Dealt(k, kd, pt, norm, hh, old) ==
  CASE kd[k] = "NORMAL" -> norm \div hh.normal_num
    [] kd[k] = "SHARE" -> (TOTAL_TICKET * pt[k]) \div 100
    [] OTHER -> old

\* The whole loop, in fork and exit, over the new heap.
Reshare(hh, kd) ==
  IF hh.normal_num = 0 /\ \E k \in ToSet(hh.list) : kd[k] = "NORMAL"
    THEN panic' = "divide error" /\ UNCHANGED <<ticket, stale>>
    ELSE /\ ticket' = [k \in Procs |-> IF k \in ToSet(hh.list)
                          THEN Dealt(k, kd, portion, NormalTickets(hh), hh, ticket[k])
                          ELSE ticket[k]]
         /\ stale' = \E k \in Procs : Line(k) = "deal"
         /\ UNCHANGED panic

\* Mutant: a woken process keeps the pass it slept with.
WokenPass_kept(p) == pass[p]

\* Where a woken process stands in the order.
WokenPass(p) == IF kind[p] = "MLFQ" THEN mlfq.mlfq_pass ELSE h.min_pass

\* wakeup1.
Sleepers(ch) == {p \in Procs : state[p] = "SLEEPING" /\ chan[p] = ch}

\* sched() in the process, swtch to the scheduler of its CPU, which now holds
\* the lock the process took.
Sched(c) ==
  /\ cpu' = [cpu EXCEPT ![c].at = "back"]
  /\ lock' = c

\* push_MLFQ and pop_MLFQ, on the queues.  A queue holds the entries from start to end;
\* pop_MLFQ goes by size, which is smaller while somebody is inside push_MLFQ.
Pushed(m, l, p) == [m EXCEPT !.q[l] = Append(@, p), !.size[l] = @ + 1]

Sized == {l \in Levels : mlfq.size[l] > 0}
Lowest == CHOOSE l \in Sized : \A k \in Sized : l <= k

\* Mutant: the start of the queue does not move.
Popped_kept(m, l) == [m EXCEPT !.size[l] = @ - 1]

Popped(m, l) == [m EXCEPT !.q[l] = Tail(@), !.size[l] = @ - 1]
Queued == UNION {ToSet(mlfq.q[l]) : l \in Levels}

----------------------------------------------------------------------------
(* Processes.                                                               *)

\* A timer interrupt, in user space or inside cpu_share or run_MLFQ: trap and yield.
timer(c, p) ==
  /\ Calling(c, p) \/ (Runs(c, p) /\ lock = None /\ call[p] # Outside)
  /\ turns[p] < load.turns \/ p \in Queued
  /\ IF call[p] = Outside THEN UNCHANGED cuts ELSE cuts > 0 /\ cuts' = cuts - 1
  /\ turns' = [turns EXCEPT ![p] = IF @ < load.turns THEN @ + 1 ELSE @]
  /\ LET one == IF kind[p] = "MLFQ" THEN 1 ELSE 0
     IN  /\ tick' = [tick EXCEPT ![p] = @ + one]
         /\ quantom' = [quantom EXCEPT ![p] = @ + one]
  /\ state' = [state EXCEPT ![p] = "RUNNABLE"]
  /\ Sched(c)
  /\ stale' = (stale \/ Line(p) = "deal")
  /\ UNCHANGED <<class, family, pass, level, chan, h, mlfq, call, panic, forks, dropped>>

\* The yield system call, which counts no tick.
sys_yield(c, p) ==
  /\ "yield" \in load.calls
  /\ Calling(c, p)
  /\ turns[p] < load.turns
  /\ turns' = [turns EXCEPT ![p] = @ + 1]
  /\ state' = [state EXCEPT ![p] = "RUNNABLE"]
  /\ Sched(c)
  /\ UNCHANGED <<class, family, history, pass, chan, h, mlfq, call, panic, forks, cuts, seen>>

\* The part of sleep under ptable.lock: the sleeper sinks to the bottom.
Sleep(c, p, ch) ==
  LET ps == [pass EXCEPT ![p] = ASLEEP] IN
  /\ kind[p] = "MLFQ" => "MLFQ sleeps" \in load.calls
  /\ state' = [state EXCEPT ![p] = "SLEEPING"]
  /\ chan' = [chan EXCEPT ![p] = ch]
  /\ pass' = ps
  /\ h' = [h EXCEPT !.list = SinkFrom(ps, @, PlaceOf(@, p))]
  /\ Sched(c)

\* A system call sleeps for a device, a pipe or a lock.
sleep(c, p) ==
  /\ "sleep" \in load.calls
  /\ Calling(c, p)
  /\ turns[p] < load.turns
  /\ turns' = [turns EXCEPT ![p] = @ + 1]
  /\ Sleep(c, p, "event")
  /\ UNCHANGED <<class, family, history, mlfq, call, panic, forks, cuts, seen>>

\* wakeup by an interrupt or by another process.
wakeup ==
  /\ panic = ""
  /\ lock = None
  /\ Sleepers("event") # {}
  /\ state' = [p \in Procs |-> IF p \in Sleepers("event") THEN "RUNNABLE" ELSE state[p]]
  /\ pass' = [p \in Procs |-> IF p \in Sleepers("event") THEN WokenPass(p) ELSE pass[p]]
  /\ UNCHANGED <<class, family, history, chan, h, mlfq, cpu, lock, call, panic, bounds>>

\* allocproc and the end of fork: the child enters the heap before it is
\* RUNNABLE, and everybody's tickets are recomputed.
fork(c, p, np) ==
  LET ps == [pass EXCEPT ![np] = h.min_pass]
      s == push_heap(ps, h.list, np)
  IN
  /\ Calling(c, p)
  /\ forks > 0
  /\ forks' = forks - 1
  /\ state[np] = "UNUSED" /\ Cardinality({k \in Procs : state[k] # "UNUSED"}) < load.nproc
  /\ kind' = [kind EXCEPT ![np] = "NORMAL"]
  /\ pass' = ps
  /\ state' = [state EXCEPT ![np] = "RUNNABLE"]
  /\ parent' = [parent EXCEPT ![np] = p]
  /\ turns' = [turns EXCEPT ![np] = 0]
  /\ h' = [h EXCEPT !.list = s, !.normal_num = @ + 1,
                     !.min_pass = MinPass(s, state, ps)]
  /\ chan' = [chan EXCEPT ![np] = None]
  /\ Reshare(h', kind')
  /\ UNCHANGED <<portion, killed, history, mlfq, cpu, lock, call, cuts, dropped>>

\* exit wakes the parent, gives the children to init, becomes a zombie and
\* leaves the heap; the shares are recomputed unless it was an MLFQ process.
exit(c, p) ==
  LET orphans == {k \in Procs : parent[k] = p}
      heirs == IF \E k \in orphans : state[k] = "ZOMBIE" THEN {initproc} ELSE {}
      woken == UNION {Sleepers(x) : x \in {parent[p]} \cup heirs}
      st == [k \in Procs |-> IF k = p THEN "ZOMBIE"
                             ELSE IF k \in woken THEN "RUNNABLE" ELSE state[k]]
      ps == [k \in Procs |-> IF k = p THEN -1
                             ELSE IF k \in woken THEN WokenPass(k) ELSE pass[k]]
      s == Removed(ps, h.list, p)
      popped == [h EXCEPT !.list = s, !.min_pass = MinPass(s, st, ps)]
  IN
  /\ Enters(c, p)
  /\ chan[p] = p => killed[p]
  /\ p # initproc
  /\ p \in Queued => "MLFQ exits early" \in load.calls
  /\ state' = st
  /\ pass' = ps
  /\ parent' = [k \in Procs |-> IF k \in orphans THEN initproc ELSE parent[k]]
  /\ h' = CASE kind[p] = "NORMAL" -> [popped EXCEPT !.normal_num = @ - 1]
             [] kind[p] = "SHARE" -> [popped EXCEPT !.total_share = @ - portion[p]]
             [] kind[p] = "MLFQ" -> IF h.mlfq_num = 0
                                      THEN [popped EXCEPT !.has_mlfq = 0]
                                      ELSE popped
  /\ IF kind[p] = "MLFQ" THEN UNCHANGED <<ticket, stale, panic>>
                         ELSE Reshare(h', kind)
  /\ Sched(c)
  /\ UNCHANGED <<kind, portion, killed, history, chan, mlfq, call, turns, forks, cuts, dropped>>

\* wait frees one zombie child, ...
reap(c, p, z) ==
  /\ Enters(c, p)
  /\ parent[z] = p
  /\ state[z] = "ZOMBIE"
  /\ parent' = [parent EXCEPT ![z] = None]
  /\ killed' = [killed EXCEPT ![z] = FALSE]
  /\ state' = [state EXCEPT ![z] = "UNUSED"]
  /\ tick' = [tick EXCEPT ![z] = 0]
  /\ pass' = [pass EXCEPT ![z] = 0]
  /\ ticket' = [ticket EXCEPT ![z] = 0]
  /\ portion' = [portion EXCEPT ![z] = 0]
  /\ kind' = [kind EXCEPT ![z] = "NORMAL"]
  /\ chan' = [chan EXCEPT ![p] = None]
  /\ UNCHANGED <<level, quantom, h, mlfq, cpu, lock, call, panic, bounds>>

\* ... or sleeps until a child exits.
wait(c, p) ==
  /\ Enters(c, p)
  /\ ~ killed[p]
  /\ \E k \in Procs : parent[k] = p
  /\ \A k \in Procs : parent[k] = p => state[k] # "ZOMBIE"
  /\ Sleep(c, p, p)
  /\ UNCHANGED <<class, family, history, mlfq, call, panic, bounds>>

kill(c, p, v) ==
  /\ "kill" \in load.calls
  /\ Calling(c, p)
  /\ state[v] \in {"SLEEPING", "RUNNABLE", "RUNNING"}
  /\ v # initproc
  /\ ~ killed[v]
  /\ killed' = [killed EXCEPT ![v] = TRUE]
  /\ state' = [state EXCEPT ![v] = IF @ = "SLEEPING" THEN "RUNNABLE" ELSE @]
  /\ UNCHANGED <<class, pass, history, parent, chan, h, mlfq, cpu, lock, call,
                 panic, bounds>>

----------------------------------------------------------------------------
(* cpu_share and run_MLFQ: neither takes ptable.lock.  They are made on one *)
(* CPU only: what a second one sees of the heap and counters in the middle  *)
(* of a pop is left out.                                                    *)

\* What no line of theirs touches.
apart == <<state, chan, tick, family, cpu, lock, turns, forks, cuts, stale>>

\* The test of the shares in cpu_share, and the first line after it.
ShareLeft(n) == h.total_share + n <= 20

cpu_share(c, p, n) ==
  /\ p # initproc
  /\ Calling(c, p)
  /\ kind[p] # "NORMAL" => "cpu_share again" \in load.calls
  /\ ShareLeft(n)
  /\ call' = [call EXCEPT ![p] = [Outside EXCEPT !.to = "SHARE", !.pc = 1, !.n = n]]
  /\ UNCHANGED <<apart, class, level, quantom, pass, h, mlfq, panic, dropped>>

\* run_MLFQ calls init_MLFQ when no share is reserved for the MLFQ.
run_MLFQ(c, p) ==
  /\ "run_MLFQ" \in load.calls /\ p # initproc
  /\ Calling(c, p)
  /\ kind[p] = "MLFQ" => "run_MLFQ again" \in load.calls
  /\ call' = [call EXCEPT ![p] = [Outside EXCEPT !.to = "MLFQ",
                                                !.pc = IF h.has_mlfq = 0 THEN 1 ELSE 4]]
  /\ UNCHANGED <<apart, class, level, quantom, pass, h, mlfq, panic, dropped>>

\* p executes one of the lines; who was not SHARE has no share to give back.
Executes(c, p, lines) ==
  /\ Runs(c, p) /\ Line(p) \in lines
  /\ call' = [call EXCEPT ![p].pc =
       IF Line(p) = "leave" /\ call[p].to = "MLFQ" /\ kind[p] # "SHARE" THEN @ + 3 ELSE @ + 1]
  /\ UNCHANGED apart

\* A field of its own.
set_field(c, p) ==
  LET set(lines, f, v) == [f EXCEPT ![p] = IF Line(p) \in lines THEN v ELSE @] IN
  /\ Executes(c, p, {"kind", "portion", "pass", "level", "quantom", "ticket",
                     "push quantom", "push pass"})
  /\ kind' = set({"kind"}, kind, call[p].to)
  /\ portion' = set({"portion"}, portion, call[p].n)
  /\ pass' = set({"pass", "push pass"}, pass, mlfq.mlfq_pass)
  /\ level' = set({"level"}, level, 0)
  /\ quantom' = set({"quantom", "push quantom"}, quantom, 0)
  /\ ticket' = set({"ticket"}, ticket, TOTAL_TICKET \div 5)
  /\ UNCHANGED <<h, mlfq, panic, dropped>>

\* Mutant: it stays counted as NORMAL.
Leaves_not(p) == h

\* The counters once p leaves its class; run_MLFQ takes nobody off mlfq_num.
Leaves(p) == [h EXCEPT
  !.normal_num = IF kind[p] = "NORMAL" THEN @ - 1 ELSE @,
  !.mlfq_num = IF kind[p] = "MLFQ" /\ call[p].to = "SHARE" THEN (@ + UINT - 1) % UINT ELSE @]

\* A counter of the heap.
set_counter(c, p) ==
  /\ Executes(c, p, {"leave", "total", "has", "num"})
  /\ h' = CASE Line(p) = "leave" -> Leaves(p)
             [] Line(p) = "total" -> [h EXCEPT !.total_share =
                  IF call[p].to = "SHARE" THEN @ + call[p].n ELSE @ - portion[p]]
             [] Line(p) = "has" -> [h EXCEPT !.has_mlfq = MLFQ_SHARE]
             [] Line(p) = "num" -> [h EXCEPT !.mlfq_num = (@ + 1) % UINT]
  /\ UNCHANGED <<class, level, quantom, pass, mlfq, panic, dropped>>

\* A field of the queues: those of one level in the loop of init_MLFQ, mlfq_pass, and
\* in push_MLFQ the entry and then the size.
set_queue(c, p) ==
  /\ Executes(c, p, {"mlfq_pass", "store", "size"})
  /\ mlfq' = CASE Line(p) = "mlfq_pass" -> [mlfq EXCEPT !.mlfq_pass = h.min_pass]
                [] Line(p) = "store" -> [mlfq EXCEPT !.q[level[p]] = Append(@, p)]
                [] Line(p) = "size" -> [mlfq EXCEPT !.size[level[p]] = @ + 1]
  /\ UNCHANGED <<class, level, quantom, pass, h, panic, dropped>>

\* init_MLFQ empties the three queues, a level after the other; the processes in them are
\* not told.
init_level(c, p) ==
  LET l == call[p].i IN
  /\ Runs(c, p) /\ Line(p) = "init"
  /\ mlfq' = [mlfq EXCEPT !.b_tick = IF l = 0 THEN 0 ELSE @, !.q[l] = <<>>, !.size[l] = 0]
  /\ dropped' = dropped \cup ToSet(mlfq.q[l])
  /\ call' = [call EXCEPT ![p].i = IF l < 2 THEN l + 1 ELSE 0,
                          ![p].pc = IF l < 2 THEN @ ELSE @ + 1]
  /\ UNCHANGED <<apart, class, level, quantom, pass, h, panic>>

\* What NORMAL processes share, computed before the loop and kept in a local.
norm_ticket(c, p) ==
  /\ Runs(c, p) /\ Line(p) = "norm"
  /\ call' = [call EXCEPT ![p].norm = NormalTickets(h), ![p].i = 1, ![p].pc = @ + 1]
  /\ UNCHANGED <<apart, class, level, quantom, pass, h, mlfq, panic, dropped>>

\* One turn of the loop over the heap as it is by now, or the return from the call.
deal(c, p) ==
  LET i == call[p].i  k == h.list[i] IN
  /\ Runs(c, p) /\ Line(p) = "deal"
  /\ IF i > Len(h.list)
       THEN call' = [call EXCEPT ![p] = Outside] /\ UNCHANGED <<ticket, panic>>
     ELSE IF kind[k] = "NORMAL" /\ h.normal_num = 0
       THEN panic' = "divide error" /\ UNCHANGED <<ticket, call>>
     ELSE /\ call' = [call EXCEPT ![p].i = @ + 1]
          /\ ticket' = [ticket EXCEPT ![k] = Dealt(k, kind, portion, call[p].norm, h, @)]
          /\ UNCHANGED panic
  /\ UNCHANGED <<apart, kind, portion, level, quantom, pass, h, mlfq, dropped>>

----------------------------------------------------------------------------
(* scheduler().                                                             *)

\* The CPU goes on in p, which leaves sleep if it was there; one in wait looks again.
Dispatch(c, p, top) ==
  /\ state' = [state EXCEPT ![p] = "RUNNING"]
  /\ chan' = [chan EXCEPT ![p] = IF @ = "event" THEN None ELSE @]
  /\ cpu' = [cpu EXCEPT ![c] = [at |-> "run", proc |-> p, top |-> top]]

\* The heap after pop_heap(&h) and push_heap(&h, p), with the passes ps.
Repushed(p, ps) ==
  LET s == push_heap(ps, pop_heap(pass, h.list), p)
  IN  [h EXCEPT !.list = s, !.min_pass = MinPass(s, state, ps)]

Picks(c) == panic = "" /\ cpu[c].at = "loop" /\ lock = None

\* The root does not run: it is pushed back, and the loop starts again.
pick_none(c) ==
  LET p == h.list[1] IN
  /\ Picks(c)
  /\ state[p] # "RUNNABLE"
  /\ h' = Repushed(p, pass)
  /\ UNCHANGED <<state, class, family, history, pass, chan, mlfq, cpu, lock, call,
                 panic, bounds>>

\* What one turn costs a process.
Stride(p) == TOTAL_TICKET \div ticket[p]

\* Mutant: the state of the root is not looked at.
Runnable_any(p) == TRUE

\* The test on the root of the heap.
Runnable(p) == state[p] = "RUNNABLE"

\* A NORMAL or SHARE process: it pays for its turn and runs.
pick_stride(c) ==
  LET p == h.list[1] IN
  /\ Picks(c)
  /\ Runnable(p)
  /\ kind[p] # "MLFQ"
  /\ IF ticket[p] = 0
       THEN panic' = "divide error" /\ UNCHANGED <<pass, h, state, chan, cpu>>
       ELSE LET ps == [pass EXCEPT ![p] = @ + Stride(p)]
            IN  /\ pass' = ps
                /\ h' = Repushed(p, ps)
                /\ Dispatch(c, p, None)
                /\ UNCHANGED panic
  /\ UNCHANGED <<class, family, history, mlfq, lock, call, bounds>>

\* An MLFQ process at the root stands for all: pop_MLFQ chooses who runs.  It may find
\* nothing, and switchuvm panics; or take an old entry of the array, where the model stops:
\* the root, demoted between the two lines of push_MLFQ, was stored in one queue and is
\* counted in the next.
pick_MLFQ(c) ==
  LET p == h.list[1] IN
  /\ Picks(c)
  /\ Runnable(p)
  /\ kind[p] = "MLFQ"
  /\ IF Sized = {} \/ mlfq.q[Lowest] = <<>>
       THEN /\ panic' = IF Sized = {} THEN "switchuvm: no process" ELSE "old entry"
            /\ UNCHANGED <<h, mlfq, state, chan, cpu>>
       ELSE /\ h' = [Repushed(p, pass) EXCEPT !.mlfq_num = (@ + UINT - 1) % UINT]
            /\ mlfq' = Popped(mlfq, Lowest)
            /\ Dispatch(c, Head(mlfq.q[Lowest]), p)
            /\ UNCHANGED panic
  /\ UNCHANGED <<class, family, history, pass, lock, call, bounds>>

Release(c) ==
  /\ cpu' = [cpu EXCEPT ![c] = Idle]
  /\ lock' = None

\* swtch returns from a process that was not picked from the queues, or does not
\* go back to them: asleep, a zombie, or turned to SHARE.
back(c) ==
  LET p == cpu[c].proc IN
  /\ panic = ""
  /\ cpu[c].at = "back"
  /\ cpu[c].top = None \/ state[p] # "RUNNABLE" \/ kind[p] # "MLFQ"
  /\ mlfq' = IF cpu[c].top = None THEN mlfq
             ELSE [mlfq EXCEPT !.b_tick = @ + quantom[p]]
  /\ Release(c)
  /\ UNCHANGED <<state, class, family, history, pass, chan, h, call, panic, bounds>>

\* priority_boost pops from the highest level there is, so it ends only if it
\* finds nothing to move, or one process and no other.
Below == mlfq.size[1] + mlfq.size[2]
BoostEnds == Below = 0 \/ (Below = 1 /\ mlfq.size[0] = 0 /\ mlfq.q[Lowest] # <<>>)
Moved == IF Below = 0 THEN {} ELSE {Head(mlfq.q[Lowest])}
Boosted == IF Below = 0 THEN mlfq ELSE Pushed(Popped(mlfq, Lowest), 0, Head(mlfq.q[Lowest]))

\* The process used up its level: adjust_level, called for the heap's pick.
Adjusts(c) == tick[cpu[c].proc] > level_allot[level[cpu[c].proc]]
BoostDue(c) == mlfq.b_tick + quantom[cpu[c].proc] >= BoostTicks
Demoted(p) == level[p] < 2 /\ tick[p] > level_allot[level[p]]

\* The same for an MLFQ process that gave up the CPU: adjust_level, and either
\* another turn or the end of the queue.
back_MLFQ(c) ==
  LET p == cpu[c].proc
      top == cpu[c].top
      boost == Adjusts(c) /\ BoostDue(c)
      moved == IF boost THEN Moved ELSE {}
      demoted == IF Adjusts(c) /\ ~ boost /\ Demoted(top) THEN {top} ELSE {}
      b_tick == mlfq.b_tick + quantom[p]
      over == quantom[p] > proc_allot[level'[p]]
      mlfq_pass == mlfq.mlfq_pass + 5 * quantom[p]
      left == [IF boost THEN Boosted ELSE mlfq EXCEPT !.b_tick = b_tick]
  IN
  /\ panic = ""
  /\ cpu[c].at = "back"
  /\ top # None
  /\ state[p] = "RUNNABLE" /\ kind[p] = "MLFQ"
  /\ boost => BoostEnds
  /\ level' = [k \in Procs |-> IF k \in moved THEN 0
                               ELSE IF k \in demoted THEN level[k] + 1 ELSE level[k]]
  /\ tick' = [k \in Procs |-> IF k \in moved \cup demoted THEN 0 ELSE tick[k]]
  /\ quantom' = [k \in Procs |-> IF k \in moved \/ (k = p /\ over) THEN 0 ELSE quantom[k]]
  /\ IF over
       THEN /\ mlfq' = [Pushed(left, level'[p], p) EXCEPT !.mlfq_pass = mlfq_pass]
            /\ pass' = [k \in Procs |->
                          IF k \in ToSet(h.list) /\ kind[k] = "MLFQ" THEN mlfq_pass
                          ELSE IF k \in moved THEN mlfq.mlfq_pass ELSE pass[k]]
            /\ h' = [h EXCEPT !.mlfq_num = (@ + 1) % UINT]
            /\ Release(c)
            /\ UNCHANGED <<state, chan>>
       ELSE /\ mlfq' = left
            /\ pass' = [k \in Procs |-> IF k \in moved THEN mlfq.mlfq_pass ELSE pass[k]]
            /\ Dispatch(c, p, top)
            /\ lock' = None
            /\ UNCHANGED h
  /\ UNCHANGED <<class, family, call, panic, bounds>>

\* priority_boost that does not end: the CPU keeps ptable.lock for ever.
boost_hangs(c) ==
  LET p == cpu[c].proc IN
  /\ panic = ""
  /\ cpu[c].at = "back"
  /\ cpu[c].top # None
  /\ state[p] = "RUNNABLE" /\ kind[p] = "MLFQ"
  /\ Adjusts(c) /\ BoostDue(c) /\ ~ BoostEnds
  /\ cpu' = [cpu EXCEPT ![c].at = "boosting"]
  /\ UNCHANGED <<class, family, history, state, pass, chan, h, mlfq, lock, call,
                 panic, bounds>>

----------------------------------------------------------------------------
(* The machine.                                                             *)

\* The kernel has panicked or hangs, or init has nothing left to do.
Stopped ==
  /\ \/ panic # ""
     \/ \E c \in Cpus : cpu[c].at = "boosting"
     \/ /\ \A p \in Procs \ {initproc} : state[p] = "UNUSED"
        /\ turns[initproc] = load.turns /\ forks = 0
  /\ UNCHANGED vars

ProcStep(c, p) ==
  \/ timer(c, p) \/ sys_yield(c, p) \/ sleep(c, p) \/ exit(c, p) \/ wait(c, p)
  \/ run_MLFQ(c, p) \/ set_field(c, p) \/ set_counter(c, p) \/ set_queue(c, p)
  \/ init_level(c, p) \/ norm_ticket(c, p) \/ deal(c, p)
  \/ \E k \in Procs : fork(c, p, k) \/ reap(c, p, k) \/ kill(c, p, k)
  \/ \E n \in load.portions : cpu_share(c, p, n)

SchedStep(c) ==
  \/ pick_none(c) \/ pick_stride(c) \/ pick_MLFQ(c)
  \/ back(c) \/ back_MLFQ(c) \/ boost_hangs(c)

Next ==
  \/ /\ \/ \E c \in Cpus, p \in Procs : ProcStep(c, p)
        \/ \E c \in Cpus : SchedStep(c)
        \/ wakeup
     /\ UNCHANGED load
  \/ Stopped

Spec == Init /\ [][Next]_vars

----------------------------------------------------------------------------
Live == {p \in Procs : state[p] \in {"SLEEPING", "RUNNABLE", "RUNNING"}}
Ready == {p \in Procs : state[p] \in {"RUNNABLE", "RUNNING"}}
Of(k) == {p \in ToSet(h.list) : kind[p] = k}

\* The heap holds every live process once, on whatever path it got there, and exit's mark (a
\* pass of -1) stays with zombies.
HeapHoldsLive ==
  /\ ToSet(h.list) = Live
  /\ Len(h.list) = Cardinality(Live)
  /\ \A p \in Procs : pass[p] < 0 => pass[p] = -1 /\ state[p] = "ZOMBIE"

\* A process runs on one CPU at a time, and only a RUNNING one.
OneCpu ==
  /\ \A p \in Procs : (state[p] = "RUNNING") = (\E c \in Cpus : Runs(c, p))
  /\ \A c, d \in Cpus, p \in Procs : Runs(c, p) /\ Runs(d, p) => c = d

\* The counters agree with the heap and the queues, and whoever is in the middle of
\* cpu_share, run_MLFQ or push_MLFQ differs from them by exactly the lines it has still
\* to execute: normal_num and total_share always, mlfq_num and the sizes of the queues
\* until init_MLFQ empties a queue that is in use.
CountsRight ==
  LET left == {p \in Of("NORMAL") : Line(p) \in {"total", "portion", "pass", "kind"}}
      between == {p \in Procs : \/ call[p].to = "SHARE" /\ Line(p) = "total"
                                \/ call[p].to = "MLFQ" /\ Line(p) = "portion"}
      at(line) == Cardinality({p \in Procs : Line(p) = line})
      sum(f) == SumFunction([l \in Levels |-> f[l]])
  IN
  /\ h.normal_num = Cardinality(Of("NORMAL") \ left)
  /\ h.total_share = SumFunctionOnSet(portion, Of("SHARE") \ between)
  /\ dropped = {} =>
       /\ (h.mlfq_num + at("num")) % UINT = sum(mlfq.size)
       /\ sum(mlfq.size) + at("size") = sum([l \in Levels |-> Len(mlfq.q[l])])

\* The tickets of the heap and the reserve for the MLFQ stay within the total, and every
\* live process has some, while nobody is inside the two calls and no tick has fallen
\* between norm_ticket and the end of its loop.  After such a tick they may exceed the
\* total (7040 of 6400), and do so until the next fork or exit deals anew.
TicketsWithin ==
  (\A p \in Procs : call[p] = Outside) /\ ~ stale =>
    /\ SumFunctionOnSet(ticket, Of("NORMAL") \cup Of("SHARE"))
         + (TOTAL_TICKET * h.has_mlfq) \div 100 <= TOTAL_TICKET
    /\ \A p \in Live : ticket[p] > 0

\* Stride scheduling: of two processes that are ready none is ahead by more than the
\* longest turn, or by two of them where processes sleep for events, because wakeup1
\* lowers a pass and leaves its entry where it is, so that another is picked once more.
\* Not claimed: for a process killed in its sleep, which keeps a sleeper's pass; where
\* such a kill and sleeps for events meet, because its pass can get into min_pass; and for
\* workloads with run_MLFQ, whose stale mlfq_pass gets there too (a child then starts far
\* ahead).  So it says nothing of those cases of a wrong min_pass.
LongestTurn == IF load.portions = {} THEN load.nproc ELSE 10
Lag ==
  "run_MLFQ" \notin load.calls /\ ~ {"kill", "sleep"} \subseteq load.calls =>
    \A p, q \in Ready : ~ killed[p] =>
      pass[p] - pass[q] <= (IF "sleep" \in load.calls THEN 2 ELSE 1) * LongestTurn

\* MLFQ processes that could run and that neither a queue nor a CPU has: scheduler()
\* never finds them again.
Places(p) == SumFunction([l \in Levels |-> Len(SelectSeq(mlfq.q[l], LAMBDA k : k = p))])
Astray == {p \in Procs : /\ kind[p] = "MLFQ" /\ state[p] = "RUNNABLE" /\ Places(p) = 0
                          /\ \A c \in Cpus : cpu[c].proc # p}

\* No process is in the queues twice, or while a CPU that took it from there has it.
\* There are three ways to go astray and no other: a tick falls between kind = MLFQ and
\* the end of size++ in push_MLFQ; the process sleeps; init_MLFQ, interrupted before it
\* sets has_mlfq, empties a queue that another process has filled.
QueuedOnce ==
  /\ \A p \in Procs :
       /\ Places(p) <= 1
       /\ \A c \in Cpus : cpu[c].proc = p /\ cpu[c].top # None => Places(p) = 0
  /\ \A p \in Astray : \/ Line(p) \in {"level", "quantom", "ticket", "store", "size"}
                        \/ chan[p] # None
                        \/ p \in dropped

\* The kernel stops only for this: pop_MLFQ finds nothing because somebody is astray or
\* has not got to size++; a process is picked whose ticket was dealt while it was SHARE
\* and had no portion, between two lines of cpu_share or run_MLFQ.
PanicsExplained ==
  /\ panic = "switchuvm: no process" => Astray # {} \/ \E p \in Procs : Line(p) = "size"
  /\ panic = "divide error" =>
       \E p \in Of("SHARE") : portion[p] = 0 /\ Line(p) \in {"portion", "pass", "kind"}

\* Heap and queues together: nobody who can run is lost to scheduler(), or found twice,
\* except on the ways listed.
EveryoneHeld == HeapHoldsLive /\ QueuedOnce /\ PanicsExplained

\* cpu_share: the counters it divides by are right, and so are the tickets it deals out,
\* as far as it goes without a lock.
SharesRight == CountsRight /\ TicketsWithin
=============================================================================
