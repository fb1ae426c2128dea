------------------------------- MODULE Machine -------------------------------
(***************************************************************************)
(* The machine under the kernel (proj_filesystem): processors that start    *)
(* one another (main.c, mp.c, lapic.c), spin locks that turn interrupts off *)
(* (spinlock.c), the interrupts of timer and disk (trap.c, ide.c), and the  *)
(* switch between the scheduler of a processor and the processes (proc.c).  *)
(*                                                                         *)
(* A thread of control is the list of what it has still to do in the        *)
(* kernel.  A processor has one, from its first instruction on, that        *)
(* becomes its scheduler, and so has a process; a process with nothing left *)
(* to do there is in user mode.  A call puts its body in front of the list. *)
(* The pushcli and popcli of myproc and holding leave no trace, and are not *)
(* in the lists.                                                           *)
(***************************************************************************)
EXTENDS MachineParameters

Locks == {"ptable", "tickslock", "idelock", "kmem", "cons"}
initproc == 1

\* Channels: &ticks; the buffer that p reads; a process, for its own wait.
Ticks == -1
Buffer(p) == -1 - p

Nobody == -1

VARIABLES cpu,    \* processor -> its registers and its struct cpu
          lock,   \* the processor that holds it, or Nobody
          boot,   \* cpus: found by mpinit; started; stack: the word at 0x7000 - 4; use_lock: of
                  \* kmem; locking: of the console; route: where the interrupts of the disk go;
                  \* first: of forkret
          todo,   \* processor -> what its first thread, later its scheduler, has to do
          kern,   \* slot of ptable -> what the kernel thread of the process has to do
          proc, work, free, ticks, panic,
          disk,   \* queue: idequeue, by process; busy: it works on the first; done
          intrs,  \* bound: timer interrupts to come
          given   \* the machine there is

vars == <<cpu, lock, boot, todo, kern, proc, work, free, ticks, panic, disk, intrs, given>>
data == <<lock, boot, proc, work, free, ticks, panic, disk, intrs, given>>

\* What a thread does next: an operation, what it is on, and numbers.
On(op, n) == [op |-> op, on |-> "none", n |-> n, since |-> 0]
Do(op) == On(op, 0)
acquire(l) == [op |-> "acquire", on |-> l, n |-> 0, since |-> 0]
release(l) == [op |-> "release", on |-> l, n |-> 0, since |-> 0]
Under(l, code) == <<acquire(l)>> \o code \o <<release(l)>>

\* Mutant: gives the lock up before it has ptable.lock.
sleep_early(chan, lk) ==
  (IF lk = "ptable" THEN <<>> ELSE <<release(lk), acquire("ptable")>>)
  \o <<On("block", chan), Do("sched"), Do("tidy")>>
  \o (IF lk = "ptable" THEN <<>> ELSE <<release("ptable"), acquire(lk)>>)

sleep(chan, lk) ==
  (IF lk = "ptable" THEN <<>> ELSE <<acquire("ptable"), release(lk)>>)
  \o <<On("block", chan), Do("sched"), Do("tidy")>>
  \o (IF lk = "ptable" THEN <<>> ELSE <<release("ptable"), acquire(lk)>>)

wakeup(chan) == Under("ptable", <<On("wakeup1", chan)>>)
yield == Under("ptable", <<Do("runnable"), Do("sched")>>)
exit == <<acquire("ptable"), Do("zombie"), Do("sched"), Do("zombie exit")>>
allocproc == <<acquire("ptable"), Do("find")>>
iderw == <<acquire("idelock"), Do("request"), Do("await")>>
scheduler == <<Do("sti"), acquire("ptable"), On("scan", 1)>>

\* A new process starts with ptable.lock held, by the scheduler.
forkret == <<release("ptable"), Do("forkret"), On("iret", 0)>>

\* How a processor ends its set-up.
mpmain == <<Do("cprintf"), Do("idtinit"), Do("started")>>

\* Mutant: all memory is free before the other processors start.
main_high == <<Do("kinit1"), Do("kalloc"), On("mpinit", 1), Do("lapicinit"), Do("consoleinit"), Do("ideinit"),
               Do("freerange"), Do("use_lock"), On("startothers", 1)>> \o allocproc \o mpmain

\* What the first processor does before that.
main == <<Do("kinit1"), Do("kalloc"), On("mpinit", 1), Do("lapicinit"), Do("consoleinit"), Do("ideinit"),
          On("startothers", 1), Do("freerange"), Do("use_lock")>> \o allocproc \o mpmain

\* What the other processors do first.
mpenter == <<Do("entry"), Do("lapicinit")>> \o mpmain

\* The thread that runs (0: that of the processor), the process of struct cpu, where the
\* traps of user mode find their stack (ts), the page directory of a process (cr3), and
\* the processor's own stack.
Off == [IF |-> FALSE, ncli |-> 0, intena |-> FALSE, run |-> 0, proc |-> 0, ts |-> 0, cr3 |-> 0,
        stack |-> 0, idt |-> FALSE, timer |-> FALSE, at |-> "run", lk |-> "kmem", r |-> 0]

\* A pid stands for its slot (0: none); one that allocproc gives up keeps it.
Unused == [state |-> "UNUSED", pid |-> 0, parent |-> 0, killed |-> FALSE, chan |-> 0, kstack |-> 0,
           intena |-> FALSE, r |-> 0]

\* The first instruction of the first processor.
Start(machine) ==
  /\ given = machine /\ work = machine.work /\ intrs = machine.interrupts
  /\ cpu = [c \in Apics |-> Off]
  /\ lock = [l \in Locks |-> Nobody]
  /\ boot = [cpus |-> <<>>, started |-> {}, stack |-> 0, use_lock |-> FALSE, locking |-> FALSE,
             route |-> Nobody, first |-> TRUE]
  /\ todo = [c \in Apics |-> IF c = BSP THEN main ELSE <<>>]
  /\ kern = [p \in Procs |-> <<>>]
  /\ proc = [p \in Procs |-> Unused]
  /\ free = <<>> /\ ticks = 0 /\ panic = FALSE
  /\ disk = [queue |-> <<>>, busy |-> FALSE, done |-> {}]

Init == \E s \in Scenarios : Start(s)

----------------------------------------------------------------------------

\* What processor c does: its own thread, or the one of a process.
Todo(c) == IF cpu[c].run = 0 THEN todo[c] ELSE kern[cpu[c].run]
Goto(c, s) ==
  IF cpu[c].run = 0 THEN todo' = [todo EXCEPT ![c] = s] /\ UNCHANGED kern
  ELSE kern' = [kern EXCEPT ![cpu[c].run] = s] /\ UNCHANGED todo
Then(c, code) == Goto(c, code \o Tail(Todo(c)))
Now(c) == Head(Todo(c))
Doing(c, op) == cpu[c].at = "run" /\ Todo(c) # <<>> /\ Now(c).op = op

\* mycpu finds the processor, and myproc its process.
Known(c) == c \in ToSet(boot.cpus)
Me(c) == cpu[c].proc

\* What kalloc has returned to the thread.
Page(c) == IF cpu[c].run = 0 THEN cpu[c].r ELSE proc[cpu[c].run].r

----------------------------------------------------------------------------
(* spinlock.c.                                                             *)

\* Mutant: counts only the first.
pushcli_once(u) == [u EXCEPT !.IF = FALSE, !.intena = IF u.ncli = 0 THEN u.IF ELSE @, !.ncli = 1]

pushcli(u) == [u EXCEPT !.IF = FALSE, !.intena = IF u.ncli = 0 THEN u.IF ELSE @, !.ncli = @ + 1]

popcli(u) == [u EXCEPT !.ncli = @ - 1, !.IF = u.ncli = 1 /\ u.intena]

holding(c, l) == lock[l] = c

acquire_cli(c) ==
  /\ Doing(c, "acquire")
  /\ cpu' = [cpu EXCEPT ![c] = [pushcli(@) EXCEPT !.at = "xchg", !.lk = Now(c).on]]
  /\ panic' = (holding(c, Now(c).on) \/ ~ Known(c))
  /\ UNCHANGED <<lock, boot, todo, kern, proc, work, free, ticks, disk, intrs, given>>

\* The xchg that finds 0; before it the processor spins.
acquire_xchg(c) ==
  /\ cpu[c].at = "xchg" /\ lock[cpu[c].lk] = Nobody
  /\ lock' = [lock EXCEPT ![cpu[c].lk] = c]
  /\ cpu' = [cpu EXCEPT ![c].at = "run"]
  /\ Then(c, <<>>)
  /\ UNCHANGED <<boot, proc, work, free, ticks, panic, disk, intrs, given>>

release_unlock(c) ==
  /\ Doing(c, "release")
  /\ lock' = [lock EXCEPT ![Now(c).on] = Nobody]
  /\ cpu' = [cpu EXCEPT ![c].at = "popcli"]
  /\ panic' = ~ holding(c, Now(c).on)
  /\ UNCHANGED <<boot, todo, kern, proc, work, free, ticks, disk, intrs, given>>

release_popcli(c) ==
  /\ cpu[c].at = "popcli"
  /\ cpu' = [cpu EXCEPT ![c] = [popcli(@) EXCEPT !.at = "run"]]
  /\ panic' = (cpu[c].IF \/ cpu[c].ncli = 0)
  /\ Then(c, <<>>)
  /\ UNCHANGED <<lock, boot, proc, work, free, ticks, disk, intrs, given>>

----------------------------------------------------------------------------
(* The scheduler and the switch to and from a process.                     *)

switchuvm(u, q) == [u EXCEPT !.ts = proc[q].kstack, !.cr3 = q]
switchkvm(u) == [u EXCEPT !.cr3 = 0]

sti(c) ==
  /\ Doing(c, "sti")
  /\ cpu' = [cpu EXCEPT ![c].IF = TRUE]
  /\ Then(c, <<>>)
  /\ UNCHANGED data

\* From place n of the table on, the first process that can run; swtch.
scan(c) ==
  /\ Doing(c, "scan")
  /\ LET R == {q \in Procs : q >= Now(c).n /\ proc[q].state = "RUNNABLE"}  q == Min(R) IN
     IF R = {} THEN Then(c, <<release("ptable")>> \o scheduler) /\ UNCHANGED <<cpu, proc, panic>>
     ELSE /\ proc' = [proc EXCEPT ![q].state = "RUNNING"]
          /\ cpu' = [cpu EXCEPT ![c] = [switchuvm(@, q) EXCEPT !.proc = q, !.run = q]]
          /\ Then(c, <<On("back", q)>>)
          /\ panic' = (proc[q].kstack = 0)
  /\ UNCHANGED <<lock, boot, work, free, ticks, disk, intrs, given>>

\* Back from it, and the rest of the table.
back(c) ==
  /\ Doing(c, "back")
  /\ cpu' = [cpu EXCEPT ![c] = [switchkvm(@) EXCEPT !.proc = 0]]
  /\ Then(c, <<On("scan", Now(c).n + 1)>>)
  /\ UNCHANGED data

\* Mutant: intena stays that of the thread that ran before.
Kept_not == <<>>

\* What sched does when the process runs again: intena is its own.
Kept == <<Do("intena")>>

sched(c) ==
  /\ Doing(c, "sched")
  /\ proc' = [proc EXCEPT ![Me(c)].intena = cpu[c].intena]
  /\ cpu' = [cpu EXCEPT ![c].run = 0]
  /\ Then(c, Kept)
  /\ panic' = (~ holding(c, "ptable") \/ cpu[c].ncli # 1 \/ proc[Me(c)].state = "RUNNING" \/ cpu[c].IF)
  /\ UNCHANGED <<lock, boot, work, free, ticks, disk, intrs, given>>

sched_intena(c) ==
  /\ Doing(c, "intena")
  /\ cpu' = [cpu EXCEPT ![c].intena = proc[Me(c)].intena]
  /\ Then(c, <<>>)
  /\ UNCHANGED data

----------------------------------------------------------------------------
(* What is done to the process table.                                      *)

\* The parts of the functions of proc.c that only change proc, by processor c.
Woken(table, chan) ==
  [q \in Procs |-> IF table[q].state = "SLEEPING" /\ table[q].chan = chan
                   THEN [table[q] EXCEPT !.state = "RUNNABLE"] ELSE table[q]]

\* exit wakes the parent and gives the children to init, which it wakes for a dead one.
Zombie(p) ==
  LET kids == {q \in Procs : proc[q].parent = p}
      told == Woken(proc, proc[p].parent)
      orphans == [q \in Procs |-> IF q \in kids THEN [told[q] EXCEPT !.parent = initproc] ELSE told[q]] IN
  [(IF \E q \in kids : proc[q].state = "ZOMBIE" THEN Woken(orphans, initproc) ELSE orphans)
     EXCEPT ![p].state = "ZOMBIE"]

Killed(q) ==
  IF proc[q].pid = 0 THEN proc
  ELSE [proc EXCEPT ![q].killed = TRUE, ![q].state = IF @ = "SLEEPING" THEN "RUNNABLE" ELSE @]

Change(c) ==
  LET i == Now(c)  p == Me(c) IN
  CASE i.op = "block" -> [proc EXCEPT ![p].chan = i.n, ![p].state = "SLEEPING"]
    [] i.op = "tidy" -> [proc EXCEPT ![p].chan = 0]
    [] i.op = "runnable" -> [proc EXCEPT ![p].state = "RUNNABLE"]
    [] i.op = "wakeup1" -> Woken(proc, i.n)
    [] i.op = "zombie" -> Zombie(p)
    [] i.op = "kill" -> Killed(i.n)
    [] i.op = "start" -> [proc EXCEPT ![i.n].state = "RUNNABLE"]
    [] i.op = "unused" -> [proc EXCEPT ![i.n] = Unused]

change(c) ==
  /\ \E op \in {"block", "tidy", "runnable", "wakeup1", "zombie", "kill", "start", "unused"} : Doing(c, op)
  /\ proc' = Change(c)
  /\ panic' = (Now(c).op = "zombie" /\ Me(c) = initproc)
  /\ Then(c, <<>>)
  /\ UNCHANGED <<cpu, lock, boot, work, free, ticks, disk, intrs, given>>

\* allocproc, for userinit and fork: a slot, then a kernel stack.
allocproc_find(c) ==
  /\ Doing(c, "find")
  /\ LET unused == {q \in Procs : proc[q].state = "UNUSED"}  q == Min(unused) IN
     IF unused = {} THEN Then(c, <<release("ptable")>>) /\ UNCHANGED proc
     ELSE /\ proc' = [proc EXCEPT ![q].state = "EMBRYO", ![q].pid = q]
          /\ Then(c, <<release("ptable"), Do("kalloc"), On("kstack", q)>>)
  /\ UNCHANGED <<cpu, lock, boot, work, free, ticks, panic, disk, intrs, given>>

allocproc_kstack(c) ==
  /\ Doing(c, "kstack")
  /\ LET q == Now(c).n  code == Under("ptable", <<On("start", q)>>) \o Tail(Todo(c)) IN
     IF Page(c) = 0
     THEN proc' = [proc EXCEPT ![q].state = "UNUSED"] /\ Then(c, <<>>)
     ELSE /\ proc' = [proc EXCEPT ![q].kstack = Page(c), ![q].parent = Me(c)]
          /\ IF cpu[c].run = 0
             THEN todo' = [todo EXCEPT ![c] = code] /\ kern' = [kern EXCEPT ![q] = forkret]
             ELSE kern' = [kern EXCEPT ![cpu[c].run] = code, ![q] = forkret] /\ UNCHANGED todo
  /\ UNCHANGED <<cpu, lock, boot, work, free, ticks, panic, disk, intrs, given>>

----------------------------------------------------------------------------
(* kalloc.c: a list of pages.                                              *)

kalloc == IF boot.use_lock THEN Under("kmem", <<Do("peek"), Do("take")>>) ELSE <<Do("peek"), Do("take")>>
kfree(q) == IF boot.use_lock THEN Under("kmem", <<On("kfree", q)>>) ELSE <<On("kfree", q)>>

kalloc_peek(c) ==
  /\ Doing(c, "peek")
  /\ LET r == IF free = <<>> THEN 0 ELSE Head(free)  q == cpu[c].run IN
     IF q = 0 THEN cpu' = [cpu EXCEPT ![c].r = r] /\ UNCHANGED proc
     ELSE proc' = [proc EXCEPT ![q].r = r] /\ UNCHANGED cpu
  /\ Then(c, <<>>)
  /\ UNCHANGED <<lock, boot, work, free, ticks, panic, disk, intrs, given>>

\* The list starts behind the page that was found first.
kalloc_take(c) ==
  /\ Doing(c, "take")
  /\ free' = IF Page(c) = 0 THEN free ELSE SubSeq(free, 1 + SelectInSeq(free, LAMBDA f : f = Page(c)), Len(free))
  /\ Then(c, <<>>)
  /\ UNCHANGED <<cpu, lock, boot, proc, work, ticks, panic, disk, intrs, given>>

kfree_push(c) ==
  /\ Doing(c, "kfree")
  /\ free' = <<proc[Now(c).n].kstack>> \o free
  /\ Then(c, <<>>)
  /\ UNCHANGED <<cpu, lock, boot, proc, work, ticks, panic, disk, intrs, given>>

----------------------------------------------------------------------------
(* Interrupts and system calls.  A gate of the IDT turns interrupts off,    *)
(* that of system calls does not; iret turns them on again.                 *)

\* The first processor of the table keeps the time.
Clock(c) == IF boot.cpus[1] = c THEN Under("tickslock", <<Do("tick")>> \o wakeup(Ticks)) ELSE <<>>

\* The end of trap: who was killed ends, and on a tick who runs gives way.
Handler(user, handled, preempt) ==
  handled \o <<On("quit", user)>> \o preempt \o <<On("quit", user), On("iret", 1)>>

Interrupt(c, handled, preempt) ==
  /\ cpu[c].IF /\ cpu[c].at = "run"
  /\ cpu' = [cpu EXCEPT ![c].IF = FALSE]
  /\ panic' = ~ cpu[c].idt
  /\ Goto(c, Handler(IF cpu[c].run # 0 /\ Todo(c) = <<>> THEN 1 ELSE 0, handled, preempt) \o Todo(c))
  /\ UNCHANGED <<lock, boot, proc, work, free, ticks>>

timer(c) ==
  /\ cpu[c].timer /\ intrs > 0 /\ intrs' = intrs - 1
  /\ Interrupt(c, Clock(c), <<Do("preempt")>>)
  /\ UNCHANGED <<disk, given>>

\* The disk is done with the first request.
ide(c) ==
  /\ disk.busy /\ boot.route = c
  /\ disk' = [disk EXCEPT !.busy = FALSE]
  /\ Interrupt(c, <<acquire("idelock"), Do("ideintr")>>, <<>>)
  /\ UNCHANGED <<intrs, given>>

tick(c) ==
  /\ Doing(c, "tick")
  /\ ticks' = ticks + 1
  /\ Then(c, <<>>)
  /\ UNCHANGED <<cpu, lock, boot, proc, work, free, panic, disk, intrs, given>>

iret(c) ==
  /\ Doing(c, "iret")
  /\ cpu' = [cpu EXCEPT ![c].IF = TRUE]
  /\ Then(c, <<>>)
  /\ UNCHANGED data

\* iderw puts the request at the end of the queue, and starts it if it is alone there.
request(c) ==
  /\ Doing(c, "request")
  /\ disk' = [disk EXCEPT !.queue = Append(@, Me(c)), !.busy = @ \/ disk.queue = <<>>]
  /\ Then(c, <<>>)
  /\ UNCHANGED <<cpu, lock, boot, proc, work, free, ticks, panic, intrs, given>>

ideintr(c) ==
  /\ Doing(c, "ideintr")
  /\ LET b == Head(disk.queue) IN
     IF disk.queue = <<>> THEN Then(c, <<release("idelock")>>) /\ UNCHANGED disk
     ELSE /\ disk' = [disk EXCEPT !.queue = Tail(@), !.done = @ \cup {b}]
          /\ Then(c, wakeup(Buffer(b)) \o <<Do("idestart"), release("idelock")>>)
  /\ UNCHANGED <<cpu, lock, boot, proc, work, free, ticks, panic, intrs, given>>

idestart(c) ==
  /\ Doing(c, "idestart")
  /\ disk' = [disk EXCEPT !.busy = disk.queue # <<>>]
  /\ Then(c, <<>>)
  /\ UNCHANGED <<cpu, lock, boot, proc, work, free, ticks, panic, intrs, given>>

await(c) ==
  /\ Doing(c, "await")
  /\ IF Me(c) \in disk.done
     THEN disk' = [disk EXCEPT !.done = @ \ {Me(c)}] /\ Then(c, <<release("idelock")>>)
     ELSE Then(c, sleep(Buffer(Me(c)), "idelock") \o <<Do("await")>>) /\ UNCHANGED disk
  /\ UNCHANGED <<cpu, lock, boot, proc, work, free, ticks, panic, intrs, given>>

Call(call) ==
  CASE call.op = "fork" -> allocproc
    [] call.op = "wait" -> <<acquire("ptable"), Do("reap")>>
    [] call.op = "kill" -> Under("ptable", <<On("kill", call.n)>>)
    [] call.op = "sleep" -> <<acquire("tickslock"), On("since", call.n)>>
    [] call.op = "read" -> iderw
    [] call.op = "exit" -> exit

syscall(c) ==
  /\ cpu[c].at = "run" /\ cpu[c].run # 0 /\ Todo(c) = <<>> /\ work[Me(c)] # <<>>
  /\ Goto(c, <<On("quit", 1)>> \o Call(Head(work[Me(c)])) \o <<On("quit", 1), On("iret", 0)>>)
  /\ work' = [work EXCEPT ![Me(c)] = Tail(@)]
  /\ UNCHANGED <<cpu, lock, boot, proc, free, ticks, panic, disk, intrs, given>>

----------------------------------------------------------------------------
(* What is left to do when a function has looked at the state.             *)

\* Mutant: frees the child when the lock is gone.
freeing_late(q) == <<release("ptable")>> \o kfree(q) \o <<On("unused", q)>>

freeing(q) == kfree(q) \o <<On("unused", q), release("ptable")>>

\* One turn of the loop of wait.
reap(p) ==
  LET kids == {q \in Procs : proc[q].parent = p}
      dead == {q \in kids : proc[q].state = "ZOMBIE"} IN
  IF dead # {} THEN freeing(Min(dead))
  ELSE IF kids = {} \/ proc[p].killed THEN <<release("ptable")>>
  ELSE sleep(p, "ptable") \o <<Do("reap")>>

\* sys_sleep notes the time, and looks at it whenever it wakes.
since(i) == <<[op |-> "doze", on |-> "none", n |-> i.n, since |-> ticks]>>
doze(p, i) ==
  IF ticks - i.since >= i.n \/ proc[p].killed THEN <<release("tickslock")>>
  ELSE sleep(Ticks, "tickslock") \o <<i>>

quit(p, user) == IF p # 0 /\ user = 1 /\ proc[p].killed THEN exit ELSE <<>>
preempt(p) == IF p # 0 /\ proc[p].state = "RUNNING" THEN yield ELSE <<>>

cprintf == IF boot.locking THEN Under("cons", <<>>) ELSE <<>>

\* One turn of the loop of startothers; the page is the stack of the processor.
startothers(c, j) ==
  IF j > Len(boot.cpus) THEN <<>>
  ELSE (IF boot.cpus[j] = c THEN <<>> ELSE <<Do("kalloc"), On("lapicstartap", j), On("wait", j)>>)
       \o <<On("startothers", j + 1)>>

Body(c) ==
  LET i == Now(c)  p == Me(c) IN
  CASE i.op = "reap" -> reap(p)
    [] i.op = "since" -> since(i)
    [] i.op = "doze" -> doze(p, i)
    [] i.op = "quit" -> quit(p, i.n)
    [] i.op = "preempt" -> preempt(p)
    [] i.op = "kalloc" -> kalloc
    [] i.op = "cprintf" -> cprintf
    [] i.op = "startothers" -> startothers(c, i.n)

enter(c) ==
  /\ \E op \in {"reap", "since", "doze", "quit", "preempt", "kalloc", "cprintf", "startothers"} : Doing(c, op)
  /\ Then(c, Body(c))
  /\ UNCHANGED cpu /\ UNCHANGED data

----------------------------------------------------------------------------
(* The start (main.c).                                                     *)

\* freerange frees from the first page on.
Freed(a, b) == Reverse([j \in 1 .. b - a + 1 |-> a + j - 1])

freerange(c) ==
  /\ Doing(c, "kinit1") \/ Doing(c, "freerange")
  /\ free' = (IF Now(c).op = "kinit1" THEN Freed(1, LowPages) ELSE Freed(LowPages + 1, given.pages)) \o free
  /\ Then(c, <<>>)
  /\ UNCHANGED <<cpu, lock, boot, proc, work, ticks, panic, disk, intrs, given>>

\* The place where the table of the BIOS is found, or "none".
mpsearch(g) ==
  LET near == IF g.ebda # "absent" THEN g.ebda ELSE g.base IN IF near # "none" THEN near ELSE g.rom

\* The configuration that it leads to; one with a wrong signature, version or sum is "bad".
mpconfig(g) == mpsearch(g) = "good"

\* One turn of the loop over the table: a processor, if there is room for it; at an entry
\* of an unknown type the loop stays for ever.
mpinit(c) ==
  /\ Doing(c, "mpinit")
  /\ panic' = ~ mpconfig(given)
  /\ LET j == Now(c).n IN
     IF j > Len(given.table) THEN Then(c, <<>>) /\ UNCHANGED boot
     ELSE /\ Then(c, <<On("mpinit", IF given.table[j].type = "other" THEN j ELSE j + 1)>>)
          /\ boot' = IF given.table[j].type = "MPPROC" /\ Len(boot.cpus) < NCPU
                     THEN [boot EXCEPT !.cpus = Append(@, given.table[j].apicid)] ELSE boot
  /\ UNCHANGED <<cpu, lock, proc, work, free, ticks, disk, intrs, given>>

lapicinit(c) ==
  /\ Doing(c, "lapicinit")
  /\ cpu' = [cpu EXCEPT ![c].timer = TRUE]
  /\ Then(c, <<>>)
  /\ UNCHANGED data

\* The interrupt goes to the processor whose APIC has that ID.
ioapicenable(id) == [boot EXCEPT !.route = id]

\* What cprintf, the disk and kalloc do from now on.  ideinit names the last processor by its place in the table, and takes that for its ID.
consoleinit(c) ==
  /\ Doing(c, "consoleinit")
  /\ boot' = [boot EXCEPT !.locking = TRUE]
  /\ Then(c, <<>>)
  /\ UNCHANGED <<cpu, lock, proc, work, free, ticks, panic, disk, intrs, given>>

ideinit(c) ==
  /\ Doing(c, "ideinit")
  /\ boot' = ioapicenable(Len(boot.cpus) - 1)
  /\ Then(c, <<>>)
  /\ UNCHANGED <<cpu, lock, proc, work, free, ticks, panic, disk, intrs, given>>

use_lock(c) ==
  /\ Doing(c, "use_lock")
  /\ boot' = [boot EXCEPT !.use_lock = TRUE]
  /\ Then(c, <<>>)
  /\ UNCHANGED <<cpu, lock, proc, work, free, ticks, panic, disk, intrs, given>>

lapicstartap(c) ==
  /\ Doing(c, "lapicstartap")
  /\ boot' = [boot EXCEPT !.stack = Page(c)]
  /\ todo' = [todo EXCEPT ![c] = Tail(@), ![boot.cpus[Now(c).n]] = mpenter]
  /\ UNCHANGED <<cpu, lock, kern, proc, work, free, ticks, panic, disk, intrs, given>>

startothers_wait(c) ==
  /\ Doing(c, "wait") /\ boot.cpus[Now(c).n] \in boot.started
  /\ Then(c, <<>>)
  /\ UNCHANGED cpu /\ UNCHANGED data

\* entryother.S: the stack that startothers has left.
entry(c) ==
  /\ Doing(c, "entry")
  /\ cpu' = [cpu EXCEPT ![c].stack = boot.stack]
  /\ Then(c, <<>>)
  /\ UNCHANGED data

idtinit(c) ==
  /\ Doing(c, "idtinit")
  /\ cpu' = [cpu EXCEPT ![c].idt = TRUE]
  /\ Then(c, <<>>)
  /\ UNCHANGED data

started(c) ==
  /\ Doing(c, "started")
  /\ boot' = [boot EXCEPT !.started = @ \cup {c}]
  /\ Then(c, scheduler)
  /\ UNCHANGED <<cpu, lock, proc, work, free, ticks, panic, disk, intrs, given>>

\* The first process to run reads the superblock and recovers the log.
forkret_first(c) ==
  /\ Doing(c, "forkret")
  /\ boot' = [boot EXCEPT !.first = FALSE]
  /\ Then(c, IF boot.first THEN iderw ELSE <<>>)
  /\ UNCHANGED <<cpu, lock, proc, work, free, ticks, panic, disk, intrs, given>>

----------------------------------------------------------------------------

Step(c) ==
  \/ acquire_cli(c) \/ acquire_xchg(c) \/ release_unlock(c) \/ release_popcli(c)
  \/ sti(c) \/ scan(c) \/ back(c) \/ sched(c) \/ sched_intena(c)
  \/ change(c) \/ allocproc_find(c) \/ allocproc_kstack(c)
  \/ kalloc_peek(c) \/ kalloc_take(c) \/ kfree_push(c)
  \/ timer(c) \/ ide(c) \/ tick(c) \/ iret(c)
  \/ request(c) \/ ideintr(c) \/ idestart(c) \/ await(c)
  \/ syscall(c) \/ enter(c)
  \/ freerange(c) \/ mpinit(c) \/ lapicinit(c) \/ consoleinit(c) \/ ideinit(c) \/ use_lock(c)
  \/ lapicstartap(c) \/ startothers_wait(c) \/ entry(c) \/ idtinit(c) \/ started(c)
  \/ forkret_first(c)

Next == ~ panic /\ \E c \in Apics : Step(c)

Spec == Init /\ [][Next]_vars

----------------------------------------------------------------------------
(* Properties.                                                             *)

Mine(c) == {l \in Locks : lock[l] = c}

\* pushcli and popcli are matched, through every switch and interrupt: the count of a
\* processor is the number of locks it holds, and one more in the middle of acquire and of
\* release.
NcliRight ==
  ~ panic => \A c \in Apics :
    cpu[c].ncli = Cardinality(Mine(c)) + (IF cpu[c].at = "run" THEN 0 ELSE 1)

\* A processor that spins, and holds what the one that it waits for may spin for.
Spins(c) == cpu[c].at = "xchg"
Awaits(c, d) == Spins(c) /\ lock[cpu[c].lk] = d

\* No interrupt comes to a processor that holds a lock or handles another interrupt, they
\* are on in user mode, and processors do not spin for one another's locks.
IntrOff ==
  ~ panic => \A c \in Apics :
    /\ cpu[c].IF => cpu[c].ncli = 0 /\ On("iret", 1) \notin ToSet(Todo(c))
    /\ cpu[c].run # 0 /\ Todo(c) = <<>> => cpu[c].IF
    /\ \A d \in Apics : ~ (Awaits(c, d) /\ Awaits(d, c))

\* The lock that what c does next relies on.
Guarded == [scan |-> "ptable", back |-> "ptable", sched |-> "ptable", find |-> "ptable", reap |-> "ptable",
            block |-> "ptable", tidy |-> "ptable", runnable |-> "ptable", wakeup1 |-> "ptable",
            zombie |-> "ptable", kill |-> "ptable", start |-> "ptable", unused |-> "ptable",
            tick |-> "tickslock", since |-> "tickslock", doze |-> "tickslock",
            request |-> "idelock", ideintr |-> "idelock", idestart |-> "idelock", await |-> "idelock",
            peek |-> "kmem", take |-> "kmem", kfree |-> "kmem", kinit1 |-> "kmem", freerange |-> "kmem"]

EveryAccessLocked ==
  \A c \in Apics :
    cpu[c].at = "run" /\ Todo(c) # <<>> /\ Now(c).op \in DOMAIN Guarded =>
      LET l == Guarded[Now(c).op] IN
      IF l = "kmem" /\ ~ boot.use_lock THEN c = BSP ELSE lock[l] = c

OneStack ==
  /\ \A c, d \in Apics : c # d =>
       /\ cpu[c].run # 0 => cpu[c].run # cpu[d].run /\ proc[cpu[c].run].kstack # cpu[d].stack
       /\ cpu[c].stack # 0 => cpu[c].stack # cpu[d].stack
       /\ cpu[c].cr3 # 0 => cpu[c].cr3 # cpu[d].cr3
  /\ \A c \in Apics :
       /\ cpu[c].stack \notin ToSet(free) /\ cpu[c].stack <= LowPages
       /\ cpu[c].run # 0 => /\ proc[cpu[c].run].kstack \notin ToSet(free) \cup {0}
                            /\ cpu[c].ts = proc[cpu[c].run].kstack
                            /\ cpu[c].cr3 = cpu[c].run /\ cpu[c].proc = cpu[c].run
       /\ cpu[c].cr3 # 0 => proc[cpu[c].cr3].state \notin {"UNUSED", "EMBRYO"}

\* A processor uses only what is its own.  What a lock is for is touched only by its
\* holder, also across the switch from one thread to another, and the page allocator only
\* by the processor that boots until its lock is in use.  Two processors are never on one
\* stack or page directory, nor on one that is free: that of a process is its own until
\* another may run the process, or free it, and a trap finds the stack of the process.
OwnOnly == ~ panic => EveryAccessLocked /\ OneStack

\* Who sleeps has something to wait for, or somebody is about to wake him.
NoLostWakeup ==
  ~ panic => \A p \in Procs : proc[p].state = "SLEEPING" =>
    \/ proc[p].chan = Ticks /\ \E i \in ToSet(kern[p]) : i.op = "doze" /\ ticks - i.since < i.n
    \/ proc[p].chan = Ticks
       /\ \E c \in Apics : lock["tickslock"] = c /\ On("wakeup1", Ticks) \in ToSet(Todo(c))
    \/ proc[p].chan = Buffer(p) /\ p \in ToSet(disk.queue)
       /\ (disk.busy \/ \E c \in Apics : \E op \in {"ideintr", "idestart"} : Do(op) \in ToSet(Todo(c)))
    \/ proc[p].chan = Buffer(p)
       /\ \E c \in Apics : lock["idelock"] = c /\ On("wakeup1", Buffer(p)) \in ToSet(Todo(c))
    \/ proc[p].chan = p /\ ~ proc[p].killed
       /\ \A q \in Procs : proc[q].parent = p => proc[q].state # "ZOMBIE"
=============================================================================
