----------------------------- MODULE MachineInv -----------------------------
(***************************************************************************)
(* The inductive invariant of Machine, part by part: which locks a thread   *)
(* has at each place of what it still has to do, and what it knows there.   *)
(***************************************************************************)
EXTENDS Machine

\* A thread: of a processor, or of a process.
Threads == ({"cpu"} \X Apics) \cup ({"proc"} \X Procs)
Code(t) == IF t[1] = "cpu" THEN todo[t[2]] ELSE kern[t[2]]
Running(c) == IF cpu[c].run = 0 THEN <<"cpu", c>> ELSE <<"proc", cpu[c].run>>

----------------------------------------------------------------------------
(* Types.                                                                  *)

\* What may be found in the lists: of any processor, of the first, of a process.
CpuOps == {"entry", "lapicinit", "cprintf", "idtinit", "started", "sti", "acquire", "release", "scan", "back",
           "tick", "wakeup1", "quit", "preempt", "iret", "ideintr", "idestart"}
BootOps == {"find", "kalloc", "kstack", "start", "peek", "take", "kinit1", "mpinit", "consoleinit", "ideinit",
            "startothers", "lapicstartap", "wait", "freerange", "use_lock"}
ProcOps == {"acquire", "release", "block", "sched", "intena", "tidy", "wakeup1", "runnable", "zombie",
            "zombie exit", "find", "kalloc", "kstack", "start", "peek", "take", "kfree", "unused", "reap",
            "since", "doze", "kill", "request", "await", "quit", "preempt", "iret", "tick", "ideintr",
            "idestart", "forkret"}
OpsOf(t) ==
  IF t[1] = "cpu" THEN CpuOps \cup (IF t[2] = BSP THEN BootOps ELSE {}) ELSE ProcOps

LockNames == Locks \cup {"none"}
Instructions(ops) ==
  {i \in [op : ops, on : LockNames, n : Int, since : Int] : i.op \in {"acquire", "release"} => i.on \in Locks}

Calls == [op : {"fork", "wait", "kill", "sleep", "read", "exit"}, n : Int]

CpuType(u) ==
  /\ DOMAIN u = {"IF", "ncli", "intena", "run", "proc", "ts", "cr3", "stack", "idt", "timer", "at", "lk", "r"}
  /\ u.IF \in BOOLEAN /\ u.ncli \in Int /\ u.run \in Procs \cup {0} /\ u.proc \in Procs \cup {0}
  /\ u.at \in {"run", "xchg", "popcli"} /\ u.lk \in Locks

DataTypes ==
  /\ DOMAIN cpu = Apics /\ \A c \in Apics : CpuType(cpu[c])
  /\ DOMAIN lock = Locks /\ \A l \in Locks : lock[l] \in Apics \cup {Nobody}
  /\ DOMAIN boot = {"cpus", "started", "stack", "use_lock", "locking", "route", "first"}
  /\ boot.cpus \in Seq(Apics) /\ boot.use_lock \in BOOLEAN
  /\ DOMAIN todo = Apics /\ DOMAIN kern = Procs
  /\ DOMAIN proc = Procs
  /\ \A p \in Procs :
       DOMAIN proc[p] = {"state", "pid", "parent", "killed", "chan", "kstack", "intena", "r"}
  /\ DOMAIN work = Procs /\ \A p \in Procs : work[p] \in Seq(Calls)
  /\ DOMAIN disk = {"queue", "busy", "done"} /\ disk.queue \in Seq(Int)
  /\ ticks \in Int /\ given \in Scenarios

CodeTypes == \A t \in Threads : Code(t) \in Seq(Instructions(OpsOf(t)))

----------------------------------------------------------------------------
(* Locks.                                                                  *)

\* What a thread has: locks; "early", the machine for itself; and "off", when it has put
\* itself to sleep or to wait and not yet called sched.
Tokens == Locks \cup {"early", "off"}

\* The locks a processor may hold when it takes l.
Below(l) ==
  IF l = "ptable" THEN {"tickslock", "idelock"} ELSE IF l = "kmem" THEN {"ptable"} ELSE {}

\* With h a thread may do i, and has k then.
Leads(h, i, k) ==
  /\ i.op = "acquire" => h \subseteq Below(i.on) /\ k = h \cup {i.on}
  /\ i.op = "release" => i.on \in h /\ "off" \notin h /\ k = h \ {i.on}
  /\ i.op \in {"block", "runnable", "zombie"} => h = {"ptable"} /\ k = {"ptable", "off"}
  /\ i.op = "sched" => h = {"ptable", "off"} /\ k = {"ptable"}
  /\ i.op \in {"scan", "back", "find", "reap", "zombie exit"} => h = {"ptable"} /\ k = {}
  /\ i.op \in {"tidy", "intena", "kill", "start", "unused"} => h = {"ptable"} /\ k = h
  /\ i.op = "wakeup1" => "ptable" \in h /\ "off" \notin h /\ k = h
  /\ i.op \in {"since", "doze"} => h = {"tickslock"} /\ k = {}
  /\ i.op = "tick" => h = {"tickslock"} /\ k = h
  /\ i.op \in {"ideintr", "await"} => h = {"idelock"} /\ k = {}
  /\ i.op \in {"request", "idestart"} => h = {"idelock"} /\ k = h
  /\ i.op \in {"peek", "take", "kfree"} => ("kmem" \in h \/ "early" \in h) /\ "off" \notin h /\ k = h
  /\ i.op \in {"kalloc", "lapicinit"} => (h = {} \/ h = {"early"}) /\ k = h
  /\ i.op \in {"sti", "iret", "quit", "preempt", "started", "cprintf", "forkret", "kstack", "entry", "idtinit"}
       => h = {} /\ k = {}
  /\ i.op \in {"kinit1", "mpinit", "consoleinit", "ideinit", "startothers", "lapicstartap", "wait", "freerange"}
       => h = {"early"} /\ k = h
  /\ i.op = "use_lock" => h = {"early"} /\ k = {}

\* The list s leads from h to k.
Path(s, h, k) ==
  \E f \in [1 .. Len(s) + 1 -> SUBSET Tokens] :
    /\ f[1] = h /\ f[Len(s) + 1] = k
    /\ \A i \in 1 .. Len(s) : Leads(f[i], s[i], f[i + 1])

\* What the thread of processor c has; at the end of release the lock is gone.
Held(c) ==
  Mine(c) \cup (IF cpu[c].at = "popcli" THEN {Now(c).on} ELSE {})
          \cup (IF cpu[c].run = 0 /\ c = BSP /\ ~ boot.use_lock THEN {"early"} ELSE {})
          \cup (IF cpu[c].run # 0 /\ proc[cpu[c].run].state # "RUNNING" THEN {"off"} ELSE {})

\* Of a processor: the count of popcli to come, the middle of acquire and of release, the
\* interrupts, and that what it does leads to no lock at all.
Sane(c) ==
  /\ cpu[c].ncli = Cardinality(Mine(c)) + (IF cpu[c].at = "run" THEN 0 ELSE 1)
  /\ cpu[c].at = "xchg" => Todo(c) # <<>> /\ Now(c).op = "acquire" /\ cpu[c].lk = Now(c).on
  /\ cpu[c].at = "popcli" => Todo(c) # <<>> /\ Now(c).op = "release" /\ Now(c).on \notin Mine(c)
  /\ cpu[c].IF => cpu[c].ncli = 0
  /\ Path(Todo(c), Held(c), {})
SaneInv == \A c \in Apics : Sane(c)

\* A thread that does not run resumes with ptable.lock.
Idle(p) == \A c \in Apics : cpu[c].run # p
Sounds ==
  /\ \A c \in Apics : cpu[c].run # 0 => Path(todo[c], {"ptable"}, {})
  /\ \A p \in Procs : Idle(p) /\ proc[p].state \notin {"UNUSED", "EMBRYO"} => Path(kern[p], {"ptable"}, {})

RunInv ==
  \A c \in Apics :
    /\ cpu[c].run # 0 => /\ cpu[c].proc = cpu[c].run /\ proc[cpu[c].run].state \notin {"UNUSED", "EMBRYO"}
                         /\ todo[c] # <<>> /\ Head(todo[c]).op = "back"
                         /\ \A d \in Apics : cpu[d].run = cpu[c].run => d = c
    /\ cpu[c].run = 0 => cpu[c].proc = 0 \/ (Todo(c) # <<>> /\ Now(c).op = "back")

\* Before the allocator has its lock.
EarlyInv ==
  ~ boot.use_lock =>
    /\ ~ cpu[BSP].IF /\ cpu[BSP].intena # TRUE
    /\ \A c \in Apics : cpu[c].run = 0
    /\ \A p \in Procs : proc[p].state = "UNUSED"

----------------------------------------------------------------------------
(* What a list promises.                                                   *)

\* Two that do not follow one another: a thread makes or frees one process at a time, frees
\* it without a stop, and starts each processor once.
Special == {"find", "kstack", "start", "reap", "unused"}
OfKmem(i) == i.op = "kfree" \/ (i.op \in {"acquire", "release"} /\ i.on = "kmem")
Wild == Special \cup {"startothers", "lapicstartap", "mpinit"}
Clash(i, j) ==
  \/ i.op \in Special /\ j.op \in Special
  \/ j.op = "unused" /\ ~ OfKmem(i)
  \/ i.op = "startothers" /\ j.op \in {"startothers", "lapicstartap"}
  \/ i.op = "lapicstartap" /\ (j.op = "lapicstartap" \/ (j.op = "startothers" /\ ~ (i.n < j.n)))
  \/ i.op = "mpinit" /\ j.op \in {"mpinit", "lapicstartap"}
  \/ i.op \in {"startothers", "lapicstartap"} /\ j.op = "mpinit"
Ordered(s) == \A a, b \in 1 .. Len(s) : a < b => ~ Clash(s[a], s[b])
OrderInv == \A t \in Threads : Ordered(Code(t))

\* A processor that has not been started.
Asleep(d) == todo[d] = <<>> /\ cpu[d] = Off /\ Mine(d) = {}

\* What a thread t knows that has to do i.
Fact(t, i) ==
  /\ i.op \in {"kstack", "start"} => i.n \in Procs /\ proc[i.n].state = "EMBRYO"
  /\ i.op = "start" => kern[i.n] = forkret
  /\ i.op = "unused" => /\ i.n \in Procs /\ proc[i.n].state = "ZOMBIE"
                        /\ \E c \in Apics : Running(c) = t /\ lock["ptable"] = c
  /\ i.op = "lapicstartap" => i.n \in 1 .. Len(boot.cpus) /\ boot.cpus[i.n] # BSP /\ Asleep(boot.cpus[i.n])
  /\ i.op = "startothers" =>
       i.n >= 1 /\ \A j \in 1 .. Len(boot.cpus) : i.n <= j /\ boot.cpus[j] # BSP => Asleep(boot.cpus[j])
  /\ i.op = "mpinit" =>
       /\ i.n >= 1 /\ \A d \in Apics \ {BSP} : Asleep(d)
       /\ \A j \in 1 .. Len(boot.cpus) : \E k \in 1 .. Len(given.table) :
            k < i.n /\ given.table[k].type = "MPPROC" /\ given.table[k].apicid = boot.cpus[j]
FactInv == \A t \in Threads : \A a \in 1 .. Len(Code(t)) : Fact(t, Code(t)[a])

\* No processor is twice in the table, and no process made twice.
OnceInv ==
  /\ \A j, k \in 1 .. Len(boot.cpus) : boot.cpus[j] = boot.cpus[k] => j = k
  /\ \A t, u \in Threads : \A a \in 1 .. Len(Code(t)), b \in 1 .. Len(Code(u)) :
       Code(t)[a].op \in {"kstack", "start"} /\ Code(u)[b].op \in {"kstack", "start"}
       /\ Code(t)[a].n = Code(u)[b].n => t = u

Core ==
  DataTypes /\ CodeTypes /\ SaneInv /\ Sounds /\ RunInv /\ EarlyInv /\ OrderInv /\ FactInv /\ OnceInv

\* After a panic nothing more happens.
IInv == ~ panic => Core

----------------------------------------------------------------------------
(* Interrupts.                                                             *)

\* What ends a handler, and what turns interrupts on before its end.
Irq == On("iret", 1)
InTrap(s) == \E b \in 1 .. Len(s) : s[b] = Irq
Opens == {"sti", "iret", "scan", "back", "started"}

\* Of two that j does not follow i: a handler does not turn interrupts on before its end;
\* what sched has left to do is done first; a wakeup, and the restart of the disk, are
\* done without a stop; and a thread waits for one block at a time.
Rough(i, j) ==
  \/ j = Irq /\ i.op \in Opens
  \/ j.op = "intena"
  \/ j.op = "wakeup1" /\ i.op \notin {"acquire", "tick"}
  \/ j.op \in {"ideintr", "tick"} /\ i.op # "acquire"
  \/ j.op = "idestart" /\ i.op \notin {"acquire", "release", "wakeup1"}
  \/ j.op = "block" /\ i.op \notin {"acquire", "release"}
  \/ j.op \in {"await", "request"} /\ i.op \in {"await", "forkret"}
Smooth(s) == \A a, b \in 1 .. Len(s) : a < b => ~ Rough(s[a], s[b])
SmoothInv == \A t \in Threads : Smooth(Code(t))

\* In a handler popcli leaves interrupts off, whichever thread ran last; who leaves the
\* kernel turns them on.
Closed(c) ==
  /\ InTrap(Todo(c)) =>
       /\ ~ cpu[c].IF
       /\ IF Now(c).op = "intena" THEN proc[cpu[c].run].intena = FALSE
          ELSE cpu[c].ncli > 0 => cpu[c].intena = FALSE
  /\ cpu[c].run # 0 /\ Todo(c) = <<>> => cpu[c].IF
Returns(p) ==
  /\ Idle(p) /\ InTrap(kern[p]) => proc[p].intena = FALSE /\ Head(kern[p]).op = "intena"
  /\ kern[p] # <<>> => kern[p][Len(kern[p])].op = "iret"
TrapInv == (\A c \in Apics : Closed(c)) /\ (\A p \in Procs : Returns(p))

----------------------------------------------------------------------------
(* Sleep and wakeup.                                                       *)

Has(s, op) == \E b \in 1 .. Len(s) : s[b].op = op

\* Only a handler wakes somebody for the clock or the disk; the tick is followed by it.
WakeOps == {"tick", "wakeup1", "ideintr", "idestart"}
Rings(s) ==
  /\ (\E op \in WakeOps : Has(s, op)) => InTrap(s)
  /\ Has(s, "tick") => \E b \in 1 .. Len(s) : s[b] = On("wakeup1", Ticks)

\* The lock that p, who is about to sleep on the channel n, gives up for it.
Given(p, n, i) == (n = Ticks /\ i = release("tickslock")) \/ (n = Buffer(p) /\ i = release("idelock"))
Block(p, s, b) ==
  /\ s[b].n \in {Ticks, Buffer(p), p}
  /\ b \in 1 .. 3
  /\ b > 1 => Given(p, s[b].n, s[b - 1])
  /\ b = 3 => s[1] = acquire("ptable")
Blocks(p) == \A b \in 1 .. Len(kern[p]) : kern[p][b].op = "block" => Block(p, kern[p], b) /\ ~ Idle(p)

\* Who sleeps on n, or is about to.
Sleeps(p, n) ==
  \/ proc[p].state = "SLEEPING" /\ proc[p].chan = n
  \/ \E i \in ToSet(kern[p]) : i.op = "block" /\ i.n = n

\* A processor that has l and is about to wake who sleeps on n; one that is about to start
\* the disk again; who waits for the disk; and who sleeps for a time not yet over.
Waking(l, n) == \E c \in Apics : lock[l] = c /\ On("wakeup1", n) \in ToSet(Todo(c))
Serving == \E c \in Apics : Do("ideintr") \in ToSet(Todo(c)) \/ Do("idestart") \in ToSet(Todo(c))
Queued(p) == p \in ToSet(disk.queue)
Due(p) == \E i \in ToSet(kern[p]) : i.op = "doze" /\ ticks - i.since < i.n

\* The reason to sleep, by channel; who waits for the disk has asked it.
Slept(p) == proc[p].state = "SLEEPING" => proc[p].chan \in {Ticks, Buffer(p), p}
TimeWakes(p) == Sleeps(p, Ticks) => Due(p) \/ Waking("tickslock", Ticks)
DiskWakes(p) == Sleeps(p, Buffer(p)) => Queued(p) \/ Waking("idelock", Buffer(p))
ChildWakes(p) == Sleeps(p, p) => ~ proc[p].killed /\ \A q \in Procs : proc[q].parent = p => proc[q].state # "ZOMBIE"
Asked(p) ==
  (\E i \in ToSet(kern[p]) : i.op = "await") =>
    (\E i \in ToSet(kern[p]) : i.op = "request") \/ Queued(p) \/ p \in disk.done
Served == disk.queue # <<>> => disk.busy \/ Serving

\* Only init may be a child of its own.
Parents == \A p \in Procs : proc[p].parent = p => p = initproc

ListInv == SmoothInv /\ (\A t \in Threads : Rings(Code(t))) /\ (\A p \in Procs : Blocks(p))

WakeInv ==
  /\ \A p \in Procs : Slept(p) /\ TimeWakes(p) /\ DiskWakes(p) /\ ChildWakes(p) /\ Asked(p)
  /\ Served /\ Parents
=============================================================================
