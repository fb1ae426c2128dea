------------------------------ MODULE Threads ------------------------------
(***************************************************************************)
(* Processes and their threads in proj_LWP: thread_create, thread_exit and  *)
(* thread_join (thread.c), and fork, exit, wait, kill, sleep, growproc and  *)
(* exec as that project changed them (proc.c, exec.c), on several CPUs.     *)
(*                                                                         *)
(* A thread is a slot of ptable with the pid and the page table of the      *)
(* process.  What happens under ptable.lock is one step; what a call does   *)
(* before it takes the lock is a step of its own.  Stride order is left     *)
(* out: any RUNNABLE thread with an entry in the heap may be dispatched.     *)
(* Programs are lists of calls, chosen in the initial state.                *)
(***************************************************************************)
EXTENDS Naturals, Sequences, FiniteSets, SequencesExt

CONSTANTS NPROC,      \* slots of the process table
          CPUs,
          Programs,   \* name -> sequence of calls, <<call, argument, ...>>
          Loads       \* the cases: what the first process runs (test), the pages kalloc
                      \* can hand out (mem), the calls for which these may not do (may)

ASSUME ThreadsAssumption ==
  /\ {NPROC, CPUs} \subseteq Nat \ {0} /\ NPROC > 1
  /\ \A l \in Loads : l.test \in DOMAIN Programs /\ l.mem \in Nat

Slots == 1 .. NPROC
initproc == 1
ticks == NPROC + 1     \* the channel of sleepers

\* A slot as wait and thread_join leave it.
Unused == [state |-> "UNUSED", pid |-> 0, tid |-> 0, parent |-> 0, parent_thread |-> 0,
           chan |-> 0, killed |-> FALSE, pgdir |-> 0, sz |-> 0, kstack |-> FALSE,
           cwd |-> FALSE, used |-> {}, retval |-> 0]

\* A thread's user code: which call of which program is next, where in the kernel the
\* thread is, what thread_create gave it; made are the threads it has created, kids the
\* children it may wait for; child and main are locals of the call it is in.
Fresh == [prog |-> "init", pc |-> 1, at |-> "user", arg |-> 0, child |-> 0, main |-> 0,
          made |-> <<>>, kids |-> {}]

\* History: failed, what returned -1 to a test; untimely, whether an exit was Untimely.
VARIABLES proc, heap, cpu, spaces, mem, nextpid, user, panic, load, failed, untimely

memory == <<spaces, mem>>
history == <<failed, untimely>>
state == <<proc, heap, cpu, memory, nextpid, user, panic, history>>
vars == <<state, load>>

Init ==
  /\ \E l \in Loads :
       /\ load = l /\ mem = l.mem
       /\ user = [s \in Slots |-> IF s = 2 THEN [Fresh EXCEPT !.prog = l.test] ELSE Fresh]
  /\ proc = [s \in Slots |->
       IF s > 2 THEN Unused
       ELSE [Unused EXCEPT !.state = "RUNNABLE", !.pid = s, !.pgdir = s, !.kstack = TRUE,
                           !.cwd = TRUE, !.parent = s - 1]]
  /\ heap = {1, 2} /\ cpu = {}
  /\ spaces = [a \in {1, 2} |-> 0]      \* pages mapped in each page table
  /\ nextpid = 3 /\ panic = "" /\ failed = {} /\ untimely = FALSE

----------------------------------------------------------------------------

Op(s) == LET u == user[s] IN
  IF u.pc \in DOMAIN Programs[u.prog] THEN Programs[u.prog][u.pc] ELSE <<"exit">>

\* Thread s is on a CPU, at place a in the kernel.
At(s, a) == s \in cpu /\ user[s].at = a

\* Thread s makes the system call; a killed one does not get that far (trap).
Calls(s, call) == At(s, "user") /\ ~ proc[s].killed /\ Op(s)[1] = call

Goes(s, a) == user' = [user EXCEPT ![s].at = a]
Returns(s) == user' = [user EXCEPT ![s].at = "user", ![s].pc = @ + 1]

\* Calls whose result the program does not look at.
Unchecked == {<<"wait", "unchecked">>, <<"sbrk", "unchecked">>}

\* The call returns -1: the test returns, and main exits, or it calls exit itself.
Fails(s, call) ==
  IF Op(s) \in Unchecked THEN Returns(s) /\ UNCHANGED failed
  ELSE /\ failed' = failed \cup {call}
       /\ user' = [user EXCEPT ![s].at = "user", ![s].pc = Len(Programs[user[s].prog]) + 1]

Process(pid) == {p \in Slots : proc[p].pid = pid}
Lowest(S) == Min(S)

\* wakeup1 on table pr.
wakeup1(pr, chan) ==
  [p \in Slots |-> IF pr[p].state = "SLEEPING" /\ pr[p].chan = chan
                   THEN [pr[p] EXCEPT !.state = "RUNNABLE", !.chan = 0] ELSE pr[p]]

\* Under ptable.lock: off the CPU until somebody wakes channel chan.
sleep(s, chan) ==
  /\ proc' = [proc EXCEPT ![s].state = "SLEEPING", ![s].chan = chan]
  /\ cpu' = cpu \ {s}

\* Mutant: the pass of the thread is not lowered first, so that the entry found by its
\* pid may be another thread's.
Removed_other(P) ==
  {heap \ X : X \in {Y \in SUBSET {q \in heap : \E p \in P : proc[q].pid = proc[p].pid} :
                       Cardinality(Y) = Cardinality(P)}}

\* exit and thread_exit take one entry per thread in P out of the heap: that thread's,
\* else one of its process, else whatever is at the root.
Removed(P) ==
  LET mine == {q \in heap : \E p \in P : proc[q].pid = proc[p].pid}
      gone(n) == {heap \ X : X \in {Y \in SUBSET heap : Cardinality(Y) = n}}
      n == Cardinality(P) IN
  IF n <= Cardinality(mine)
  THEN IF P \subseteq heap THEN {heap \ P}
       ELSE {H \in gone(n) : heap \ mine \subseteq H}
  ELSE {H \in gone(Min({n, Cardinality(heap)})) : H \cap mine = {}}

----------------------------------------------------------------------------
(* The scheduler of a CPU, the timer tick.                                 *)

scheduler(s) ==
  /\ s \in heap \ cpu /\ proc[s].state = "RUNNABLE" /\ Cardinality(cpu) < CPUs
  /\ cpu' = cpu \cup {s}
  /\ proc' = [proc EXCEPT ![s].state = "RUNNING"]
  /\ UNCHANGED <<heap, memory, nextpid, user, panic, history>>

\* A thread that is not RUNNING is not preempted.
yield(s) ==
  /\ s \in cpu /\ proc[s].state = "RUNNING"
  /\ cpu' = cpu \ {s}
  /\ proc' = [proc EXCEPT ![s].state = "RUNNABLE"]
  /\ UNCHANGED <<heap, memory, nextpid, user, panic, history>>

\* sys_sleep and the tick that ends it.
sys_sleep(s) ==
  /\ Calls(s, "sleep") /\ sleep(s, ticks) /\ Returns(s)
  /\ UNCHANGED <<heap, memory, nextpid, panic, history>>

tick ==
  /\ \E p \in Slots : proc[p].state = "SLEEPING" /\ proc[p].chan = ticks
  /\ proc' = wakeup1(proc, ticks)
  /\ UNCHANGED <<heap, cpu, memory, nextpid, user, panic, history>>

----------------------------------------------------------------------------
(* allocproc, thread_create and fork.                                      *)

\* The first part of both: a slot with a kernel stack, then on to place next; the call
\* fails without one.  A slot whose kalloc failed keeps its new pid.
allocproc(s, next) ==
  LET free == {p \in Slots : proc[p].state = "UNUSED"}
      p == Lowest(free)
      new == [Unused EXCEPT !.pid = nextpid] IN
  /\ IF free = {} THEN UNCHANGED <<proc, nextpid, mem>> /\ Fails(s, next)
     ELSE /\ nextpid' = nextpid + 1
          /\ IF mem = 0
             THEN proc' = [proc EXCEPT ![p] = new] /\ UNCHANGED mem /\ Fails(s, next)
             ELSE /\ proc' = [proc EXCEPT ![p] =
                        [new EXCEPT !.state = "EMBRYO", !.kstack = TRUE]]
                  /\ mem' = mem - 1
                  /\ user' = [user EXCEPT ![s].at = next, ![s].child = p]
                  /\ UNCHANGED failed
  /\ UNCHANGED <<heap, cpu, spaces, panic, untimely>>

thread_create(s) == Calls(s, "thread_create") /\ allocproc(s, "thread_create")

\* The user stacks that no thread of the process has.  Only exec makes them, so that a
\* thread, whose array is empty, finds none and copyout fails.
Stacks(s) == IF proc[s].tid > 0 THEN {} ELSE (1 .. NPROC - 1) \ proc[s].used

\* The user stack, and the copy of what the process shares.
thread_create_fill(s) ==
  /\ At(s, "thread_create")
  /\ LET t == user[s].child  i == Lowest(Stacks(s)) IN
     IF Stacks(s) = {}
     THEN proc' = [proc EXCEPT ![t].state = "UNUSED"] /\ Fails(s, "thread_create")
     ELSE /\ proc' = [proc EXCEPT
               ![s].used = @ \cup {i},
               ![t] = [@ EXCEPT !.tid = i, !.pid = proc[s].pid, !.pgdir = proc[s].pgdir,
                                !.sz = proc[s].sz, !.cwd = TRUE, !.parent = s]]
          /\ Goes(s, "thread_start") /\ UNCHANGED failed
  /\ UNCHANGED <<heap, cpu, memory, nextpid, panic, untimely>>

thread_create_push(s) ==
  /\ At(s, "thread_start")
  /\ LET t == user[s].child IN
     /\ heap' = heap \cup {t}
     /\ proc' = [proc EXCEPT ![t].state = "RUNNABLE"]
     /\ user' = [user EXCEPT
          ![t] = [Fresh EXCEPT !.prog = Op(s)[2], !.arg = Op(s)[3]],
          ![s] = [@ EXCEPT !.at = "user", !.pc = @ + 1,
                  !.made = Append(@, [tid |-> proc[t].tid, arg |-> Op(s)[3]])]]
  /\ UNCHANGED <<cpu, memory, nextpid, panic, history>>

fork(s) == Calls(s, "fork") /\ allocproc(s, "fork")

Space == Min((1 .. NPROC + 1) \ DOMAIN spaces)
Freed(a) == [b \in DOMAIN spaces \ {a} |-> spaces[b]]
With(a, pages) == [b \in DOMAIN spaces \cup {a} |-> IF b = a THEN pages ELSE spaces[b]]

\* Mutant: the child of a thread is the main thread's only.
ForkingThread_none(s) == 0

ForkingThread(s) == IF proc[s].tid > 0 THEN s ELSE 0

\* copyuvm, which may run out of memory, and the rest of the copy.
fork_copy(s) ==
  /\ At(s, "fork")
  /\ LET c == user[s].child  pages == proc[s].sz IN
     IF mem < 1 + pages
     THEN /\ proc' = [proc EXCEPT ![c].state = "UNUSED", ![c].kstack = FALSE]
          /\ mem' = mem + 1
          /\ Fails(s, "fork") /\ UNCHANGED spaces
     ELSE /\ proc' = [proc EXCEPT ![c] =
               [@ EXCEPT !.pgdir = Space, !.sz = pages, !.cwd = TRUE,
                         !.parent = IF proc[s].tid > 0 THEN proc[s].parent ELSE s,
                         !.parent_thread = ForkingThread(s)]]
          /\ spaces' = With(Space, pages)
          /\ mem' = mem - (1 + pages)
          /\ Goes(s, "fork_start") /\ UNCHANGED failed
  /\ UNCHANGED <<heap, cpu, nextpid, panic, untimely>>

fork_push(s) ==
  /\ At(s, "fork_start")
  /\ LET c == user[s].child IN
     /\ heap' = heap \cup {c}
     /\ proc' = [proc EXCEPT ![c].state = "RUNNABLE"]
     /\ user' = [user EXCEPT ![c] = [Fresh EXCEPT !.prog = Op(s)[2]],
                             ![s] = [@ EXCEPT !.at = "user", !.pc = @ + 1,
                                              !.kids = @ \cup {proc[c].pid}]]
  /\ UNCHANGED <<cpu, memory, nextpid, panic, history>>

----------------------------------------------------------------------------
(* thread_exit and exit.                                                   *)

\* iput(p->cwd).  iput takes no null pointer: it locks words of the program at address 0.
iput(p) == panic' = IF proc[p].cwd THEN panic ELSE "iput"

thread_exit(s) ==
  /\ Calls(s, "thread_exit") /\ proc[s].tid > 0
  /\ proc' = [proc EXCEPT ![s].retval = user[s].arg]
  /\ iput(s) /\ Goes(s, "thread_exit_cwd")
  /\ UNCHANGED <<heap, cpu, memory, nextpid, history>>

thread_exit_cwd(s) ==
  /\ At(s, "thread_exit_cwd")
  /\ proc' = [proc EXCEPT ![s].cwd = FALSE] /\ Goes(s, "thread_exit")
  /\ UNCHANGED <<heap, cpu, memory, nextpid, panic, history>>

\* Mutant: nobody is woken.
Told_nobody(pr, s) == pr

Told(pr, s) == wakeup1(pr, proc[s].parent)

thread_exit_zombie(s) ==
  /\ At(s, "thread_exit")
  /\ proc' = [Told(proc, s) EXCEPT ![s].state = "ZOMBIE"]
  /\ heap' \in Removed({s})
  /\ cpu' = cpu \ {s}
  /\ UNCHANGED <<memory, nextpid, user, panic, history>>

exit(s) ==
  /\ At(s, "user")
  /\ \/ proc[s].killed
     \/ Op(s)[1] = "exit"
     \/ Op(s)[1] = "thread_exit" /\ proc[s].tid = 0
  /\ panic' = IF s = initproc THEN "init exiting" ELSE panic
  /\ user' = [user EXCEPT ![s].at = "exit", ![s].child = 0,
                         ![s].main = IF proc[s].tid > 0 THEN proc[s].parent ELSE s]
  /\ UNCHANGED <<proc, heap, cpu, memory, nextpid, history>>

\* The loop over the table, without a lock: the slots of the process it has not come to.
ToClose(s) == {p \in Process(proc[s].pid) : p > user[s].child}

exit_iput(s) ==
  /\ At(s, "exit") /\ ToClose(s) # {}
  /\ LET p == Lowest(ToClose(s)) IN
     iput(p) /\ user' = [user EXCEPT ![s].at = "exit_cwd", ![s].child = p]
  /\ UNCHANGED <<proc, heap, cpu, memory, nextpid, history>>

exit_cwd(s) ==
  /\ At(s, "exit_cwd")
  /\ proc' = [proc EXCEPT ![user[s].child].cwd = FALSE] /\ Goes(s, "exit")
  /\ UNCHANGED <<heap, cpu, memory, nextpid, panic, history>>

\* The exit of s ends another thread that is on a CPU or has not come back from a system
\* call (proc.c:489), or a thread with a child nobody will wait for: only the children of s
\* go to init (proc.c:479), and a child that a thread forked wakes that thread (proc.c:472).
Untimely(s) ==
  LET P == Process(proc[s].pid) IN
  \/ \E p \in P \ {s} : p \in cpu \/ user[p].at # "user"
  \/ \E c \in Slots \ P : proc[c].parent \in P \ {s} \/ proc[c].parent_thread \in P

exit_zombie(s) ==
  /\ At(s, "exit") /\ ToClose(s) = {}
  /\ LET P == Process(proc[s].pid)
         woken == wakeup1(proc, IF proc[s].parent_thread # 0 THEN proc[s].parent_thread
                                ELSE proc[user[s].main].parent)
         orphans == {p \in Slots : proc[p].parent = s}
         given == [p \in Slots |-> IF p \in orphans
                     THEN [woken[p] EXCEPT !.parent = initproc] ELSE woken[p]]
         told == IF \E p \in orphans : proc[p].state = "ZOMBIE"
                 THEN wakeup1(given, initproc) ELSE given IN
     /\ proc' = [p \in Slots |-> IF p \in P THEN [told[p] EXCEPT !.state = "ZOMBIE"]
                                 ELSE told[p]]
     /\ heap' \in Removed(P)
  /\ untimely' = (untimely \/ Untimely(s))
  /\ cpu' = cpu \ {s}
  /\ UNCHANGED <<memory, nextpid, user, panic, failed>>

----------------------------------------------------------------------------
(* thread_join and wait: one turn of their loop.  A killed thread leaves the *)
(* loop with -1, and the return from the system call makes it exit.          *)

\* The test asks for the value the thread was to return.
thread_join(s) ==
  /\ Calls(s, "thread_join")
  /\ LET t == user[s].made[Op(s)[2]]
         P == {p \in Process(proc[s].pid) : proc[p].tid = t.tid}
         p == Lowest(P) IN
     IF P = {} THEN Fails(s, "thread_join") /\ UNCHANGED <<proc, cpu, mem>>
     ELSE IF proc[p].state = "ZOMBIE"
     THEN /\ proc' = [proc EXCEPT ![p] = Unused, ![s].used = @ \ {t.tid}]
          /\ mem' = mem + 1
          /\ IF proc[p].retval = t.arg THEN Returns(s) /\ UNCHANGED failed
             ELSE Fails(s, "retval")
          /\ UNCHANGED cpu
     ELSE sleep(s, s) /\ UNCHANGED <<mem, user, failed>>
  /\ UNCHANGED <<heap, spaces, nextpid, panic, untimely>>

\* wait frees the zombie it finds, with its page table, and the zombies of its process.
Reaped(p) == {p} \cup {t \in Process(proc[p].pid) : proc[t].state = "ZOMBIE"}

Kids(s) == {p \in Slots : proc[p].parent = s \/ proc[p].parent_thread = s}

wait(s) ==
  /\ Calls(s, "wait")
  /\ LET zombies == {p \in Kids(s) : proc[p].state = "ZOMBIE"}
         p == Lowest(zombies)  R == Reaped(p) IN
     IF zombies # {}
     THEN /\ proc' = [q \in Slots |-> IF q \in R THEN Unused ELSE proc[q]]
          /\ spaces' = Freed(proc[p].pgdir)
          /\ mem' = mem + Cardinality(R) +
                    (IF proc[p].pgdir \in DOMAIN spaces THEN 1 + spaces[proc[p].pgdir] ELSE 0)
          /\ user' = [user EXCEPT ![s].kids = @ \ {proc[p].pid},
                                  ![s].pc = IF s = initproc THEN @ ELSE @ + 1]
          /\ UNCHANGED <<cpu, failed>>
     ELSE IF Kids(s) = {}
     THEN Fails(s, "wait") /\ UNCHANGED <<proc, cpu, memory>>
     ELSE sleep(s, s) /\ UNCHANGED <<memory, user, failed>>
  /\ UNCHANGED <<heap, nextpid, panic, untimely>>

----------------------------------------------------------------------------
(* kill, growproc, exec.                                                   *)

kill(s) ==
  /\ Calls(s, "kill")
  /\ LET pids == IF Op(s)[2] = "self" THEN {proc[s].pid} ELSE user[s].kids IN
     proc' = [p \in Slots |->
       IF proc[p].pid \notin pids THEN proc[p]
       ELSE [proc[p] EXCEPT !.killed = TRUE,
                            !.state = IF @ = "SLEEPING" THEN "RUNNABLE" ELSE @]]
  /\ Returns(s)
  /\ UNCHANGED <<heap, cpu, memory, nextpid, panic, history>>

\* allocuvm: one page at the end, which must not be mapped.
growproc(s) ==
  /\ Calls(s, "sbrk")
  /\ LET a == proc[s].pgdir IN
     IF mem = 0 THEN Fails(s, "sbrk") /\ UNCHANGED <<memory, panic>>
     ELSE /\ panic' = IF spaces[a] > proc[s].sz THEN "remap" ELSE panic
          /\ spaces' = [spaces EXCEPT ![a] = @ + 1]
          /\ mem' = mem - 1
          /\ Goes(s, "growproc") /\ UNCHANGED failed
  /\ UNCHANGED <<proc, heap, cpu, nextpid, untimely>>

\* Mutant: only the caller learns of the new size.
Grown_alone(s) == {s}

Grown(s) == Process(proc[s].pid)

growproc_size(s) ==
  /\ At(s, "growproc")
  /\ LET sz == proc[s].sz + 1 IN
     proc' = [p \in Slots |-> IF p \in Grown(s) THEN [proc[p] EXCEPT !.sz = sz] ELSE proc[p]]
  /\ Returns(s)
  /\ UNCHANGED <<heap, cpu, memory, nextpid, panic, history>>

\* Mutant: the old page table is never freed.
Shared_always(s) == TRUE

\* A thread that is not the main one leaves the old page table to the others.
Shared(s) == proc[s].tid > 0

exec(s) ==
  /\ Calls(s, "exec")
  /\ LET old == proc[s].pgdir IN
     IF mem = 0 THEN Fails(s, "exec") /\ UNCHANGED <<proc, memory>>
     ELSE /\ proc' = [proc EXCEPT ![s].pgdir = Space, ![s].sz = 0]
          /\ IF Shared(s)
             THEN spaces' = With(Space, 0) /\ mem' = mem - 1
             ELSE /\ spaces' = [b \in (DOMAIN spaces \ {old}) \cup {Space} |->
                                  IF b = Space THEN 0 ELSE spaces[b]]
                  /\ mem' = mem + spaces[old]
          /\ user' = [user EXCEPT ![s].prog = Op(s)[2], ![s].pc = 1]
          /\ UNCHANGED failed
  /\ UNCHANGED <<heap, cpu, nextpid, panic, untimely>>

----------------------------------------------------------------------------

\* Only init is left, and has no child to wait for.
Over == \/ panic # ""
        \/ /\ user[initproc].pc > 1
           /\ \A s \in Slots \ {initproc} : proc[s].state = "UNUSED"

\* After an untimely exit the heap may be empty, and every CPU idle for ever.
Finished == (Over \/ untimely) /\ UNCHANGED vars

\* What the thread on a CPU does next.
Step(s) ==
  \/ sys_sleep(s)
  \/ thread_create(s) \/ thread_create_fill(s) \/ thread_create_push(s)
  \/ fork(s) \/ fork_copy(s) \/ fork_push(s)
  \/ thread_exit(s) \/ thread_exit_cwd(s) \/ thread_exit_zombie(s)
  \/ exit(s) \/ exit_iput(s) \/ exit_cwd(s) \/ exit_zombie(s)
  \/ thread_join(s) \/ wait(s)
  \/ kill(s) \/ growproc(s) \/ growproc_size(s) \/ exec(s)

Next ==
  \/ /\ panic = "" /\ UNCHANGED load
     /\ tick \/ \E s \in Slots : Step(s) \/ scheduler(s) \/ yield(s)
  \/ Finished

Spec == Init /\ [][Next]_vars

\* An idle CPU takes a thread that can run; threads are not for ever put off the CPUs
\* before they have executed anything (a turn is a tick); the clock ticks.  Which of
\* several threads advances is left open.
FairSpec ==
  /\ Spec
  /\ WF_state(\E s \in Slots : scheduler(s))
  /\ SF_state(\E s \in Slots : Step(s))
  /\ WF_state(tick)

----------------------------------------------------------------------------
(* Properties.                                                             *)

Live == {s \in Slots : proc[s].state \in {"RUNNABLE", "RUNNING", "SLEEPING"}}

\* Every property but the last is about a system in which no exit was Untimely: such an
\* exit frees what runs, and takes entries of others out of the heap.

\* A thread that can still run has a kernel stack, the page table of its process with
\* all the memory it believes to have, and a user stack of its own; nothing it uses was
\* freed by a wait or a join of somebody else.  No page is mapped twice, and init does not
\* exit; exit with a thread that has exited and was not joined does stop in iput.
NothingFreedInUse ==
  /\ panic \in {"", "iput"}
  /\ \A s \in Live \cup cpu :
       /\ proc[s].kstack
       /\ proc[s].pgdir \in DOMAIN spaces
       /\ \A t \in Live : proc[t].pid = proc[s].pid /\ t # s => proc[t].tid # proc[s].tid

\* Every page is free, a kernel stack of a slot, or part of one page table that a slot
\* still uses: nothing leaks.
PagesAccounted ==
  LET owned == {s \in Slots : proc[s].kstack}
  IN /\ mem + Cardinality(owned) + FoldFunction(LAMBDA a, b : a + b + 1, 0, spaces)
           = load.mem + 4
     /\ DOMAIN spaces \subseteq {proc[s].pgdir : s \in Slots}

\* Memory is freed when nobody uses it any more, neither earlier nor never, also where
\* thread_create or fork fails half-way and the test exits; unless an exit was untimely.
MemoryRight == ~ untimely => NothingFreedInUse /\ PagesAccounted

\* The heap holds the threads that can still run: none is lost to the scheduler, though
\* exit and thread_exit look for entries by pid; unless an exit was untimely.
EveryLiveQueued == ~ untimely => heap = Live

\* What the tests ask for: thread_join finds the thread and gets its value, wait finds
\* the children that were forked, and no call fails but for want of memory where there may
\* be too little; unless an exit was untimely.
TestsHold == ~ untimely => failed \subseteq load.may

\* Every test comes to its end, the one that gives up with threads alive too, and init has
\* reaped what it left: no thread_join or wait misses its wakeup, and no thread is
\* forgotten; unless exit stops in iput or was untimely.
Ends == <>(Over \/ untimely)

\* An exited thread stays a zombie until wait or thread_join frees it.
ZombieStays ==
  [][\A s \in Slots : proc[s].state = "ZOMBIE" => proc'[s].state \in {"ZOMBIE", "UNUSED"}]_vars
=============================================================================
