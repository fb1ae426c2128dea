# Verification of the 2019_OS course kernels

The repository holds four projects of an operating-systems course. `proj_shell`
is a small shell for Linux. `proj_scheduler`, `proj_LWP` and `proj_filesystem` are
three forks of xv6, a teaching kernel for x86 with two processors (`CPUS := 2` in
the Makefiles), one disk and a Unix interface; each fork changes one part of it:
the scheduler (stride scheduling and an MLFQ), threads inside a process, and the
file system (double and triple indirect blocks, a `sync` call). This directory
models the parts of those kernels where steps of several actors meet, and the algorithms
they rest on, checks the models with TLC on small instances, and proves the main results about
the log, the buffer cache, files and pipes, inodes and path names, and the locks of the machine with TLAPS.

Contents: 1 the system; 2 the modules and the code; 3 the runs; 4 bounds and
fairness; 5 the proofs; 6 disagreements found; 7 what is not modelled.

## 1. The system

Paths are relative to the fork named in the first column; files that the forks
do not change (`bio.c`, `ide.c`, `file.c`, `pipe.c`, `kalloc.c`, the locks) are
the same in all three.

| component | code | state | operations | meets the others by |
| --- | --- | --- | --- | --- |
| redo log (filesystem) | `log.c`, `sys_sync` in `sysfile.c` | `log.lh`, `outstanding`, `committing`; header and log blocks on disk | `begin_op`, `log_write`, `end_op`, `commit`, recovery, `sync` | every file-system call runs between `begin_op` and `end_op`; pins buffers of the cache with `B_DIRTY`; sleeps and wakes on `&log` |
| buffer cache | `bio.c` | `NBUF` buffers in an LRU list, `refcnt`, a sleep lock each | `bget`, `bread`, `bwrite`, `brelse` | called by all of the file system; calls the disk driver |
| disk driver | `ide.c` | the request queue | `iderw`, `ideintr` | an interrupt wakes the process that waits for its buffer |
| block map and allocation (filesystem) | `fs.c` | bitmap blocks, `addrs[]`, three levels of indirect blocks | `balloc`, `bfree`, `bmap`, `itrunc` | each changed block goes to `log_write` |
| inodes, directories, names | `fs.c`, `sysfile.c` | inode cache with `ref`, link counts, directory entries | `iget`, `iput`, `ilock`, `namex`, `dirlink`, `link`, `unlink`, `create` | sleep locks; the last `iput` of an unlinked file truncates it |
| open files, pipes | `file.c`, `pipe.c`, `sysfile.c` | file table with `ref`, a 512-byte ring per pipe | `open`, `dup`, `close`, `read`, `write` | processes share files after `fork`; readers and writers wake each other |
| locks, sleep and wakeup | `spinlock.c`, `sleeplock.c`, `proc.c` | lock words, `ncli` and `intena` of a processor, `chan` of a process | `acquire`, `release`, `pushcli`, `popcli`, `acquiresleep`, `sleep`, `wakeup` | used everywhere |
| processors, interrupts, processes (filesystem) | `main.c`, `mp.c`, `lapic.c`, `ioapic.c`, `trap.c`, `proc.c` | `cpus[]`, `ptable`, the IDT, kernel stacks | start of the processors, `scheduler`, `sched`, `fork`, `exit`, `wait`, `kill`, `yield`, `trap` | interrupts come between any two instructions; `ptable.lock` crosses `swtch` |
| process table and stride scheduler (scheduler, LWP) | `proc.c`, `trap.c`, `cpu_share.c`, `yield.c` | `ptable`, a heap ordered by `pass`, `normal_num`, `total_share`, `min_pass`, tickets | `fork`, `exit`, `wait`, `kill`, `sleep`, `wakeup`, `yield`, `cpu_share`, `scheduler` | all under `ptable.lock`, which is handed from a process to the scheduler of its CPU across `swtch`; `cpu_share` takes no lock |
| MLFQ (scheduler, LWP) | `proc.c`, `run_MLFQ.c` | three queues, `level`, `tick`, `quantom`, `b_tick`, `mlfq_pass` | `run_MLFQ`, `push_MLFQ`, `pop_MLFQ`, `adjust_level`, `priority_boost` | an MLFQ process is in the heap too: at the root it stands for all of them, and the queues choose who runs |
| threads (LWP) | `thread.c`, `proc.c` | slots of `ptable` with one `pid`, stacks of the process | `thread_create`, `thread_exit`, `thread_join`, `exit` | share page directory, files and exit |
| page allocator, VM, exec | `kalloc.c`, `vm.c`, `exec.c`, `proc.c`, `syscall.c` | free list, page directories and tables, `sz` | `kalloc`, `kfree`, `allocuvm`, `copyuvm`, `freevm`, `exec`, `sbrk` | called by `fork`, `exit`, `wait`, `exec`, pipes, threads; one free list for all processes |
| user allocator | `umalloc.c` | a circular list of free blocks | `malloc`, `free` | `sbrk` |
| mkfs | `mkfs.c` | the image of a disk | `main` | its result is the disk the kernel boots from |
| console | `console.c`, `kbd.c`, `uart.c` | a 128-byte input ring with three indices | interrupt, read | wakes readers |
| shell of xv6 | `sh.c` | the tree of a line | parser, `runcmd`, `main` | system calls |
| course shell | `proj_shell/src/shell.c` | one line of input | fork every command, wait for all | none; it runs on Linux |

What is hard in this code, and what makes each part correct:

- **log**: a power failure between any two disk writes, also while recovery is
  running; operations that share a transaction; a commit that must wait for all
  of them and hold off new ones; a log that must never fill up in `log_write`,
  where it is too late. Correct: each operation is on disk entirely or not at all,
  what is committed stays, no buffer leaves the cache before it is home, every
  call returns. `sync` commits without any of the precautions.
- **scheduler**: two CPUs share the heap; a process gives up the CPU by a tick, a
  call, sleep or exit, and is put back to work by others; entries are moved in the
  heap by hand in `sleep`, in `exit` and when `pass` is written in place; counters
  and tickets are recomputed in five places. Correct: each live process is in the
  heap once, runs on one CPU at a time, gets a share in proportion to its tickets,
  and the counters say what they are named for.
- **MLFQ**: a second set of queues that must agree with the heap. Correct: every
  MLFQ process that waits for a CPU is in exactly one queue.
- **machine**: locks that turn interrupts off and count, a count that belongs to the processor and a flag that belongs to
  the thread; a lock handed from one thread to another; a processor that starts with the stack another has made for it;
  a stack freed by the parent of the one who stood on it. Correct: no handler waits for a lock its own processor holds, what a lock is for is touched by
  its holder, no two processors share a stack, no wakeup is lost.
- **cache, driver, locks**: two processes that miss on one block, a third that
  recycles; a request overtaken in the queue; a wakeup between a test and the sleep.
  Correct: together they are a store of blocks with one holder each, and calls return.
- **files and pipes**: counts shared by `fork`, given up by `close`, `exit` and every
  failure half-way; a pipe that is freed while somebody is in it. Correct: counts are
  references, a pipe is a queue that lives as long as its ends, nobody sleeps in vain.
- **file data**: four kinds of index path, a transaction per chunk. Correct: what is
  written is read, no block has two places, the inode on disk is not behind.
- **names**: lookups and changes of directories that lock one inode at a time; the last
  link and the last reference go in either order. Correct: a tree with exact link counts, no
  inode is lost, no path leaks a reference, nobody waits for ever.
- **threads**: shared page table and stacks; exit of one thread ends the others. Correct:
  nothing is freed in use, nothing leaks, nobody is lost to the scheduler.
- **memory**: `kalloc` may fail at every step of `fork`, `exec` and `sbrk`, and processes fail in
  the middle of each other's calls; sizes are rounded to pages in four places. Correct: each page is
  free or in one place, page tables are what `sz` says, each process has words of its own.
- **shells**: descriptors copied by `fork` and closed by hand around pipelines. Correct: a line does
  what it means, whatever the order of its processes, and the shell goes on.
- **console**: a ring with three indices that wrap. Correct: a terminal with an editable
  line, each line to one reader.

## 2. Modules

| module | what it is |
| --- | --- |
| `AtomicStore` | what the log promises: a block store in which operations are atomic and a crash returns to the last commit |
| `Log` | `log.c`, recovery and `sync`, over cache and disk; refinement mapping to `AtomicStore` |
| `LogInv`, `LogProofs` | the inductive invariant of `Log` in named parts; theorems about `Log` |
| `StrideHeap` | the heap of `proc.c` as operators on a sequence |
| `Scheduler` | process table, stride scheduler, MLFQ and the system calls that move a process between them |
| `BlockStore` | what the buffer cache promises: blocks that are locked, changed and given back |
| `Cache` | `bio.c`, `sleeplock.c`, `ide.c` and the sleep and wakeup under them; refinement mapping to `BlockStore` |
| `CacheInv`, `CacheProofs` | the inductive invariant of `Cache`; theorems about `Cache` |
| `Channel` | what a pipe promises: a bounded queue of bytes with two ends |
| `Files` | descriptors, file table, pipes, and the processes that share them; refinement mapping to `Channel` |
| `FilesInv` | the inductive invariant of `Files` |
| `FilesEffects`, `FilesProofs` | what the operators of `Files` compute and what each action does; that each preserves the invariant |
| `FilesChannel` | theorem: `Files` implements `Channel` |
| `Programs` | commands, `init` and tests of pipes and `kill` as lists of the system calls of `Files` |
| `Shell` | the parser and `runcmd` of `sh.c`, and `proj_shell`, as operators from lines to such lists; what a line means |
| `FileData` | free map, block map, `writei`, `filewrite`, `itrunc`, directory entries: the content of files and the transactions it takes |
| `Mkfs` | `mkfs.c` as an operator from files to the disk that `FileData` begins with |
| `Memory` | page allocator, page tables, `exec`, and what system calls and faults do with memory; refinement mapping to `AddressSpaces` |
| `MemoryParameters`, `MachineParameters` | the constants of `Memory` and of `Machine`, with their assumptions |
| `Machine` | the start of the processors, spin locks, interrupts, the switch between scheduler and processes, and process table, page list and disk queue as they use them |
| `MachineInv`, `MachineProofs`, `MachineSafety` | the inductive invariants of `Machine` in named parts; theorems about the locks of `Machine`, and about its interrupts and wakeups |
| `AddressSpaces` | what processes may expect of memory: words of their own |
| `UserHeap` | `malloc` and `free` as operators |
| `MemTests` | tests of `usertests.c` and `forktest.c` on memory and processes, `init` and `initcode` as instructions |
| `Threads` | processes and threads of proj_LWP, with their memory as counted pages |
| `ThreadTests` | `test_thread.c` and `test_thread2.c` as sequences of calls |
| `Names` | inodes, directories and path names; the processes that use them; the console as a device file |
| `NamesInv` | the inductive invariant of `Names` |
| `NamesProofs` | counting of references, and what a step may do; that each action preserves the invariant, and theorems |
| `UserTests` | `usertests.c` and other programs as sequences of calls |
| `Console`, `Terminal` | the ring of the line discipline as operators; what it promises. `Names` has the actions and the mapping |
| `MC...` | values of constants, bounds and symmetry for TLC; `MCMachine` runs `Memory` and `Machine` |

A name that a comment calls a mutant (`LastOut_always`) is a deliberately wrong
variant of the definition that follows it. It is used by no specification;
substituted for that definition it makes the property it was written for fail.

The composition follows the calls: `Cache` puts bio, sleep locks, driver and sleep/wakeup
together; `Log` uses of the cache that a pinned buffer stays and another may be dropped;
`FileData` counts what a transaction gives to the log, the number `Log` takes as
`OpBlocks`, and begins on the disk that `Mkfs` makes; `Shell` and `Programs` give `Files` the programs
that its processes run; `Memory` uses `UserHeap` in its user code; `Names` puts inodes, directories, open files, processes, console and test
programs together; `Threads` uses of the heap of `Scheduler` only who is in it.

### Log

One actor per operation (`begin_op` ... `end_op`), one per process that calls `sync`, and
the first process, which recovers the log in `forkret` before user code runs. `pc[a]`
names the C function an actor is in. A critical section of `log.lock` is one step. Every
disk write (a log block, the header, a home block) is a step of its own, and `Crash` may
come between any two. The content of a block is the set of operations whose updates it
carries. `log_write` is two steps, the panic tests and the append, with the buffer's sleep
lock held over both (`arg`). `dirty` is `B_DIRTY`; `bget_recycle` is the cache dropping a buffer
that is not pinned. `sys_sync` runs the steps of `commit` as it is in the code: without
`log.lock`, without a look at `outstanding`.

The mapping to `AtomicStore`: `view` is what `bread` returns; `store` is what recovery would
rebuild from the disk as it is now; `running` are the operations `outstanding` counts. The
write of the header is `Commit`; every other disk write is a stutter.

### StrideHeap and Scheduler

`push_heap`, `pop_heap` and `build_heap` are operators from a sequence and a function `pass` to
a sequence; `SinkFrom` is the loop of `sleep`, which also swaps equal entries; `Removed` is what
`exit` does (swap the process to the root, pop).

A process is a slot of `ptable`. A CPU is in its `scheduler()` loop, in a process, or has just
been switched back to by one (`"back"`); `lock` is `ptable.lock`, which crosses `swtch`: it is taken by
the process in `yield`, `sleep` or `exit` and released by `scheduler()`. So a turn is `pick_*`, then
steps of the process, ended by `timer`, `sys_yield`, `sleep`, `wait` or `exit`, then `back` or `back_MLFQ`.
`cpu_share` and `run_MLFQ` hold no lock: `call[p]` says where a process is in one of them
(`Lines` lists their assignments, with those of `init_MLFQ` and `push_MLFQ`) and keeps the locals
`norm_ticket` and `i`. Each assignment and each turn of the ticket loop is a step, and the timer may
interrupt between any two; an interrupted process is picked again as any other, or is not. `dropped` and
`stale` are history that no action reads. `priority_boost` is one step where it ends
(`BoostEnds`) and a CPU that stays in it where it does not (`boost_hangs`). `Workloads` says which calls the
programs of a run make and how often they fork; `exit`, `wait` and the timer are always there.
`init` is `init.c`: it forks, waits and calls neither `cpu_share` nor `run_MLFQ`.

### Cache

A critical section of a spin lock is one step; so is `sleep()` once it has `ptable.lock`. The test
before `sleep()` is a step of its own that keeps the inner lock (`lk`, `idelock`): a wakeup that came
between the two would be lost. A process asks for blocks in ascending order, as the file system
does (parents before children), and changes and releases what it holds. The drive works on a copy of the
command, `irq` is raised and taken later, and the handler waits for `idelock`. The content of a
block is the set of processes that changed it. The mapping to `BlockStore`: a block's owner is the
holder of the locked buffer that caches it; its content is that of a valid buffer, or else of the disk.

### Files

An actor is a process that is RUNNABLE (the round-robin scheduler takes any). The steps are the
critical sections of `ftable.lock`, `ptable.lock` and the pipe's lock. `fileclose` copies the file and frees its
slot in one, and closes what was behind it (`ff`) in another. `tmp` are files a call has allocated and
not yet put into a descriptor, so that each failure of `pipe` and `open` gives them back. `pipewrite` and
`piperead` keep the pipe's lock between test and `sleep()`, since `kill` takes only `ptable.lock`. `nread` and
`nwrite` wrap at `UINT`. `spoiled` marks a pipe a killed writer has left full without a wakeup
(`pipe.c:86` returns where the end of the function would have woken the readers).

A process has a program, a list of calls (`prog`), and the little memory it needs for them: descriptors in
variables, what its loop has read, whom it has forked. One program makes any call at any time (`AnyCall`);
the others come from `Shell` and `Programs`. `text` is what a plain file holds, as a sequence of words; a
file has one inode for all paths as far as counts go (`iref`), the rest is `Names`.

### Shell, Programs

A line is a sequence of tokens. `parsecmd` and its helpers are operators that return the tree and what is left of
the line, or a panic, which ends the child that `sh.c` forks for a line; `runcmd` turns a tree into the calls
it makes. `batch` and `interactive` are `proj_shell`: a process for every piece between semicolons, the wait for all of
them, `quit`, and the first command of the last line run once more at the end of a batch file. Its
processes are taken to be those of `Files`, although it runs on Linux. `Means` says, independently of
`runcmd`, what a tree should print and leave in files; the run compares the two.

### FileData

One process per file writes, reads back and truncates it. `Route` is the index arithmetic of
`bmap`: the slot of `addrs[]` and the path below it. A step is one block written through `bmap`, with all that
is allocated on the way, or one block freed. `logged` collects what a transaction gives to `log_write`:
blocks of the free map, inode, index and data blocks; `filewrite` cuts a write by the number the code
computes. The first state is the disk of `Mkfs`: `mkfs.c` appends to inodes with an arithmetic of its own, without
the double and triple indirect blocks. The root is a file of entries: the process of a file adds its entry and clears it again.

### Memory

`phys` maps each frame to what is in it: words, a page table, a page directory, or the junk `kfree` leaves. Page tables
are walked entry by entry (`walkpgdir`, `mappages`). Each `kalloc` is a step, so a process that runs out of memory does so in
the middle of the calls of others; the `kfree`s of one `freevm` or `deallocuvm` are one step. `loc` keeps the locals of a call that
is under way. User code is a list of instructions (load, store, `sbrk`, `fork`, `exec`, `malloc` ...) that go through
the page table, and fault where it says so. The mapping to `AddressSpaces` reads the words of each process through
its page table.

### Machine

Steps are as fine as an interrupt or another processor can tell: the `cli` of `acquire` and its `xchg`, the store of `release` and its `popcli`,
each access to what a lock protects. A thread of control is the list of what it has
still to do in the kernel (`todo` of a processor: from `main` or `mpenter` to its `scheduler`; `kern` of a process); a call puts
its body in front, an interrupt its handler, and the empty list of a process is user mode. So a lock is
a pair of instructions in a list, not an atomic section, and a process that is switched away from keeps its list with
the `release` in it: whether the right processor holds the right lock at each access is what the properties ask. `cpu` has the interrupt flag, `ncli`,
`intena`, the thread that runs (`run`), where the TSS has the kernel stack (`ts`), the page directory (`cr3`), and where in
`acquire` or `release` it is (`at`). `forkret`, which begins with `ptable.lock` held by the scheduler, and `sched`, which
returns on another processor, are lists like the others. `boot` has what the start is about: the processors `mpinit` has found, which of them
are up, the word below `0x7000` that tells a processor its stack, `kmem.use_lock`.

A scenario (`Scenarios`) is a machine, with the table of its BIOS, and the calls that its processes make: `fork`, `wait`, `kill`, `sleep`, a read from disk, `exit`. `fork` copies no
memory and `exit` closes no files here: that is in `Memory` and `Files`, where `ptable.lock` is one step. Shared state that is a number there is a place here: the page list
has the pages of the kernel stacks. A panic ends the behaviour. `MCMachine` runs `Memory` and `Machine` as
two parts that share no variable: a behaviour moves one of them (`part`).

### Threads

A thread is a slot of `ptable` with the pid and page table of its process. Pages are counted: a
kernel stack per slot, a page table and its mapped pages per address space, `mem` left. What a call does
before it takes `ptable.lock` is a step of its own: `thread_create`, `fork` and `growproc` are three, three and two. Stride
order is left out: any RUNNABLE thread with an entry in the heap may be dispatched, on as many CPUs as
there are. `exit` and `thread_exit` look for their entry by pid, as the code does, and take the root when
there is none. The loop in which `exit` closes what the threads of its process hold has no lock: it goes from slot to slot, an `iput`
and the assignment after it being two steps; `iput` of a null directory, which somebody else has put, stops the model.

A test is chosen in the initial state together with the memory it gets (`load`). A call that returns -1
makes the program exit (`Fails`), with the threads it has, as the tests do. `exit` can then end threads in the middle of what they do,
and what follows is wrong in many ways (section 6). The history variable `untimely` says that this has happened: an exit ended a thread that was
on a CPU or in a system call, or one with a child. The properties of the run claim nothing after that; they do claim everything about
an exit whose other threads sleep or wait for a CPU, about failures that no thread survives, and about all that happens until then.

### Names, Console

A step ends where a sleep lock may be waited for, so that each wait with locks in hand is
a state. The inode in memory and on disk is one copy, since `iupdate` is called under the lock of the
inode wherever it changes (`FileData` has the exceptions). `puts` are inodes to `iput` before a call goes on, in the order the
code does; `iput` is `iput`, `iput_free` (no other reference, no link: truncate, free) and `iput_deref` (lower
`ref`), because `icache.lock` is released in between. `lost` marks the inode of which two `iput`s both saw the other's
reference. A file's data are tokens; a path is a sequence of names. Programs are the tests of
`UserTests`, which state what each call has to return; `wrong` is a test that does not get it.

`input` is the ring of `console.c` with its three indices. `consoleintr` takes one key; `consoleread` takes what is there
up to the end of a line, or sleeps; it holds no inode while it does. The mapping to `Terminal`: the line that
is being typed lies between write and edit index, the ready characters between read and write index.

## 3. Runs

| run | instance | properties | result |
| --- | --- | --- | --- |
| `log_crash` | 3 operations of 2 blocks, 5 blocks, 2 failures | all of an operation or nothing; what is quiet is durable; what is logged stays pinned; `log_write` never panics; `Log` implements `AtomicStore` | holds |
| `log_live` | 2 operations, one `sync`, 1 failure | every file-system call returns | holds |
| `sched` | 3 processes on 2 CPUs that yield, kill, fork, exit, wait; up to 4 on one with `cpu_share`, `run_MLFQ`, sleep, 2 ticks inside the calls | the heap holds the live processes, no MLFQ process is queued twice, and one is lost, or the kernel panics, in the ways listed only (`EveryoneHeld`); one CPU each; ready processes stay within one or two turns (`Lag`); counters are off by exactly the lines still to be executed, tickets stay within the total unless a tick cut their loop off its sum (`SharesRight`) | holds |
| `cache` | 2 processes, 4 breads, 3 buffers, 4 blocks, one pinned | types and no panic; one buffer per block, held ones are what was asked for; counts are references; `Cache` implements `BlockStore`; every call returns | holds |
| `files` | any 5 calls of 3 processes with 4 files and one pipe of 2 bytes; 5 sessions of `sh.c`, 3 of `proj_shell`, 2 tests with up to 7 processes | counts are references; a pipe lives as long as its ends; who sleeps has a reason; programs end, with the output they should have; a pipe implements `Channel` | holds |
| `data` | the disk of `Mkfs`, 2 files and the root, up to 3 writes of 3 to 16 cells, removals, 5 workloads | what is written is read; the free map is exact and the inode on disk is current between transactions (`BlocksRight`) | holds |
| `machine` | `Memory`: 18 tests, of which 6 also with little memory | each frame is free or used once; page tables are what `sz` says; tests get what they demand; `Memory` implements `AddressSpaces` | holds |
| | `Machine`: 2 processors with up to 3 processes in 4 workloads, 3 processors | `pushcli` and `popcli` match; interrupts are off where they must be; no panic (in `TestsHold`); what a lock protects is touched by its holder, stacks and page directories are not shared; no wakeup is lost | holds |
| `threads` | 9 programs of `ThreadTests` and ours with enough memory, 6 of them also with every smaller amount, 6 slots, 2 CPUs | until an exit is `Untimely`: nothing freed in use and pages are accounted for (`MemoryRight`); live threads are in the heap; no call fails but for want of memory; all end | holds |
| `names` | 29 programs alone and 5 pairs, 3 slots | counts are references; link counts are entries; no inode is lost; tests get what they demand; the console implements `Terminal`; all end | holds |
| `log_sync_atomic` | one `sync` | all of an operation or nothing | violated |
| `data_maxop` | a write inside the triple indirect region | a transaction logs at most `MAXOPBLOCKS` blocks | violated |
| `threads_exit` | tests in which one thread calls `exit` while others run | a zombie stays one until it is reaped | violated |

`ZombieStays` is a property of steps; `CallsReturn` and
`Ends` are liveness; the `Implements...` are refinements; the others are invariants.

Deadlock is checked in all runs but `files`, whose programs may do what they like and so
may wait for each other.

## 4. Bounds and fairness

**Log.** `Ops` run once each: the protocol has no memory of earlier operations except the log
itself. Three operations are enough for one that commits, one that is active and one that
waits; two blocks per operation for half of it to be on disk; two failures for one inside recovery.
`MAXOPBLOCKS` and `LOGSIZE` are 3 and 6 instead of 10 and 30: two operations fit, a third has to wait, as with
the real numbers three fit and the fourth waits. The proofs hold for all values.

**Scheduler.** `turns` bounds how often a process gives up the CPU itself, `forks` how many
processes are made (slots are reused), `cuts` how many ticks fall inside `cpu_share` and `run_MLFQ`: one or two of
them, at any of their lines. `ASLEEP` is 200 instead of 2000000000, larger than any pass a
run reaches by turns. `BoostTicks`, `proc_allot` and `level_allot` are 4 and 0 to 2 ticks instead of 100, 1 to 4 and
5 to 100, so that demotion and boost happen within the turns of a run. `LongestTurn` is the stride of one of three processes with equal tickets, or that of a share of 10 percent. The `portions`
are 10 and 20: two of 10 fit into the 20 percent, and two processes that both pass the test get 40.
The two calls are made on one CPU; three processes are enough for one that is interrupted in a call, one that
makes the same call or the other, and `init`, which forks meanwhile. A
run ends when `init` is alone and the bounds are used up, when the kernel has panicked or when
a CPU hangs: that is `Stopped`, and deadlock is checked otherwise.

**Cache.** One process reads three times, the other once, with three buffers for four blocks and
one pinned: hits, misses, recycling of a buffer just read and two requests in the queue all happen. With
`MaxHold` 1 and `MaxPins` 1, 3 buffers are just enough: the panic of `bget` is an edge away.

**Files.** The workload `free` makes any calls, five in all: enough for a pipe with a process at either end, one
asleep, and a call that wakes it (pipe, fork, read, write or close or exit). Three descriptors and four files make the table full,
one page makes `pipealloc` fail; `UINT` 4 makes the counters of a ring of 2 wrap. The other
workloads run to their end: pipelines, redirections, lists, background commands, syntax errors, too many arguments and a
missing program for `sh.c`; batches with empty commands, `quit` and the prompt for `proj_shell`; `pipe1` with 2 chunks of 3
bytes, and `preempt`. Commands read 4 words at once. The theorems hold for all values.

**FileData.** One direct block, two entries per index block and two cells per block: 12 cells of a file
reach into the second half of the double indirect region, and two writes of 12 into the triple
one, as does one of 16; the root has room for its entries and then grows by a block.
The free map has three blocks, so that a transaction crosses from one into the next. `data_maxop` has
four entries per index block and `MAXOPBLOCKS` as shipped.

**Memory.** Pages of 6 words, 2 entries in a page table and 4 for the user in a directory: 8 pages, so that `sbrk` and `exec`
cross from one page table into the next, and the highest size is reached. 4 processes, `MAXARG` 4, `MINUNITS` 8. 40 frames are
enough for all tests. `forktest`, `exitwait` and `orphan`, which must survive a lack of memory, are run with every amount from 15, where `init` just
runs, to 36; the races of `fork` and of `exec` with 27 to 34, where one of two calls fails at each of its `kalloc`s in turn.
The loops of the tests are cut to a few rounds. `sbrk` of minus the whole size is left out (see the hazard at `proc.c:169`).

**Machine.** Two processors and three slots: a processor that idles, one that runs a process, and a third process that sleeps or is about to be
reaped; with two, `sched` returns on the other processor. The pages are three below and one or two above the 4 MB line, so that
the third kernel stack is missing in some workloads and a freed one is used again. One timer interrupt at most, at any
moment, besides those of the disk. The third machine has three processors in an order that is not that of their IDs, and `init`
alone, with the table found in the last KB of base memory. The theorems hold for all machines.

**Threads.** `NUM_THREAD` 2 instead of 10 (1 in each of the two processes of `pipetest` and `stridetest`), `nstress` 2 instead of 35000.
12 pages are enough for each test; fewer let each `kalloc` of `thread_create`, `fork`, `sbrk` and `exec` fail, in `forktest` with 0 to 7 pages left beside
the 4 of `init` and the test: for the first thread, for the second, and in `fork` of either at the stack and at the copy. 6 slots
are what two threads with a child each need. TLC reaches, in this run, exits of a process with two other threads that sleep or wait for a CPU, the
stop in `iput`, and untimely exits.

**Names.** 14 inodes, 8 slots of the inode cache (`iref` goes once more than `NINODE` times through each way
out of `namex`), 4 open files. Loops of the tests that repeat the same calls with other names are cut
to 2 to 4 rounds. The ring has 5 characters and the indices wrap at 10; every sequence of 4 keys out
of two alphabets and of 6 out of two others is typed, so that a full ring is entered and a
read of part of a line follows.

**Fairness.** `log_live`: weak fairness of each actor's own steps (a process that can run is
scheduled, a disk write ends), none for the start of an operation, a power failure or
the recycling of a buffer. `cache`: weak fairness of each process's own steps, of its releases
(whoever locks a buffer gives it back) and of drive and interrupt; none of new calls.
`threads`: an idle CPU takes a thread that can run (weak), some thread on a CPU
executes its next instruction although the timer may preempt it (strong, because a preempted thread's step
is disabled until it is picked again), and the clock ticks (weak); which of several advances is left open. `names`: weak
fairness of each process's steps and of the keys that are still to be typed. The round-robin and
stride schedulers give every RUNNABLE process its turn and the machine handles interrupts, which is
what these say. Symmetry is used among operations, blocks, CPUs and processes, only in
runs without liveness.

## 5. Proofs

### The log

`LogProofs` proves, for any finite set of operations, any set of blocks, any geometry and any number
of power failures, that `Log` keeps its types (`LogTypes`), commits alone (`LogCommitsAlone`), loses
nothing that was quiet (`LogQuietMeansDurable`), pins exactly what is logged (`LogPinned`), is atomic across
crashes (`LogAllOrNothing`, `LogNeverForgets`), never panics in `log_write` (`LogNeverTooBig`) and implements the
abstract store (`LogImplementsStore`).

Assumptions: `LogAssumption`, the types of the constants; and `Disciplined`: nobody calls `sync`, and an
operation logs at most `MAXOPBLOCKS` distinct blocks. Both are needed: the first by run
`log_sync_atomic`, and that the second is not always true of this code is run `data_maxop`. `LogNeverTooBig`
needs `Roomy` as well, because `log.c:218` panics one block before the log of `mkfs.c` (`nlog = LOGSIZE`) is full: an
operation logs at most `MAXOPBLOCKS - 1` blocks, one block of slack. The shipped numbers allow operations of 9
blocks, those of `log_crash` operations of 2. It rests on `TightInv`: while operations run, two blocks stay
free beyond what they may still log, because of two at once each leaves one of its reservation; or all there is comes from
one that began alone, on an empty log.

None of these properties is inductive. `LogInvariant` proves `IInv`, whose parts say:

- `CountInv`: `outstanding` counts the operations between `begin_op` and `end_op`, `committing` is set
  exactly while one actor is in `commit`, and then the count is zero. Without it a step of a
  commit could not rule out a `log_write` beside it.
- `SpaceInv`: one token for every block a running operation may still log; log and tokens together
  fit `LOGSIZE`. The test in `begin_op` takes `MAXOPBLOCKS` tokens, and a `log_write` turns one into an entry or,
  by absorption, into nothing.
- `ContentInv`: for each place a commit or a recovery can be at, which of log blocks, cache and home
  blocks agree, and up to which index. This is what a crash in the middle needs.
- `HistoryInv` (over `IInv`): an operation that has not begun has left no trace, and what recovery
  would rebuild holds all of an operation's blocks or none.

Each action has a lemma per part; the refinement is a lemma per action, and the write of the header is
the only one that maps to `Commit`.

### The cache

`CacheProofs` proves about `Cache`, for any finite set of processes and of blocks and any number of buffers:
that the reference counts are right (`CacheRefcntRight`), that what `bread` returned stays the one buffer of
its block, locked, referenced and read, until `brelse` (`CacheHeldIsTheBuffer`), that the cache implements
`BlockStore` (`CacheImplementsStore`), and that of the panics of `bio.c`, `sleeplock.c` and `ide.c` only the one of
`bget` can happen (`CacheOnlyBgetPanics`). `TypeOK`, which also excludes that one, needs enough buffers for what is held and
pinned, and is model-checked. The only assumption is `CacheAssumption`, the types of the constants. Neither
the order in which a process asks for blocks nor `MaxHold` or `MaxPins` is used: safety does not depend on
the discipline of the callers, only termination does.

`CacheInvariant` proves `IInv`:

- `PlaceInv`: the buffer and the sleep channel that go with each place in the code, so that a wakeup resumes
  exactly the loop that waits for it.
- `LockInv`, `BlockInv`, `RefcntRight`: `held`, `locked` and `pid` agree; one buffer per block; one reference per
  holder and waiter. Together they say that a buffer `bget` may recycle (`refcnt` 0) is locked by nobody, waited for by nobody and
  not at the disk; `releasesleep` moves a process from the holders to the waiters and `acquiresleep` back, which
  keeps the sum.
- `ValidInv`, `QueueInv`: a held buffer is read, about to go to the disk or in the queue; each request is there once and belongs
  to a process that sleeps for it, so nobody changes a buffer while it is queued.
- `DriveInv`: the drive's command is that of the first request, and once it interrupts a write is on the
  disk. Without it `ideintr` could mark a buffer clean whose data never arrived.
- `CleanInv`: a clean valid buffer equals the disk. This is what lets `bget` throw it away.

Each part has a lemma with one step per action. In the refinement the taking of the sleep lock is
`lock`, `log_write` and `bwrite` are `write`, `releasesleep` is `unlock`; recycling, the drive and its interrupt stutter.

### Files and pipes

`FilesProofs` and `FilesChannel` prove about `Files`, for any programs (all that `Calls` holds, or any call at any time), any number of
processes, descriptors, files and pipes, and any `PIPESIZE` that divides the range of the counters: that reference counts are
right in the middle of every call (`FilesRefsRight`), that a pipe lives exactly as long as its ends and nobody is inside one
that is freed (`FilesPipeEnds`), that nobody sleeps without a reason (`FilesSleepersWait`: no wakeup is lost), and that a
pipe implements the bounded queue `Channel` (`FilesImplementsChannel`). Assumptions: `FilesAssumption`, sizes and
`UINT % PIPESIZE = 0`, which is true of 512 and 2^32 and without which the place of a byte in the ring would jump when a counter
wraps; and `ProgramsAssumption`, the types of calls.

`FilesInvariant` proves `IInv`:

- `Types`, `PlaceInv`: what a process has in hand at each place: how many files it has allocated (`tmp`), that it works on a
  copy (`ff`) only inside `fileclose`, that one that is exiting has no descriptors left. Without it a failure half-way in `pipe`
  could not be shown to give back what it had.
- `MineInv`: a file that is still being made is nobody else's. This is what lets `sys_pipe` and `sys_open` set its fields
  without a lock.
- `RefsRight`: a count is the number of references: descriptors, allocated files, and the copy in `fileclose`.
- `EndInv`, `InsideInv`: each end of a pipe is had by one file, or by one process that is about to close it; who is inside `piperead` or
  `pipewrite` has a descriptor of that end. With the counts, no close by another process can be the last one.
- `CountInv`, `SleepInv`, `SleepersWait`: a pipe never holds more than `PIPESIZE`; between its test and `sleep()` a process holds the
  lock, so the test is still true; a sleeper's channel is that of the pipe or of the parent it waits in.

The argument goes by process, since most actions change the record of one. `FilesEffects` says of each action
which fields change and how. Of a count, the part of that process (`Held`) and the part of all others are separated, so a
step that moves a reference inside one record (descriptor to `tmp`, `tmp` to `ff`) keeps the sum, and only `dup`, `fork`,
`filealloc` and `fileclose` change count and sum together. `exit` and `wait`, which change several records, have lemmas of
their own. For the refinement the counters are taken modulo `PIPESIZE`: `pipewrite` appends to, and `piperead`
takes from, the front of the content between `nread` and `nwrite`, also when one of them has wrapped. The first page stands for all pipes: nothing
distinguishes it.

### Inodes and path names

`NamesProofs` proves about `Names`, for any programs and tables of any size: the count of references of an inode in the cache
is what processes and open files hold of it (`NamesRefsRight`), in the middle of `link`, `unlink`, `create`, `open`,
`chdir`, `fork`, `exit` and `iput` and on every error path; and an inode without links stays allocated only while
somebody holds it, except after the one race of `iput` that sets `lost` (`NamesNoOrphan`). The only assumption is `NamesAssumption`:
types, `mkfs` leaves room for its files, and each call has the arguments it needs.

`NamesInvariant` proves `IInv`:

- `Types`, `PlaceInv`: at which place a process holds an inode as `ip`, as `dp` (the directory in `unlink`) or as `old` (the first
  inode of `link`), and what the call is.
- `FdsInv`: a file has at least as many references as processes that have it. `close` needs it: a process whose file has
  one reference left is the only one to use it.
- `RefsRight`: one reference for each of `cwd`, `ip`, `dp`, `old` and each inode still to be put, and one per open file.
- `LockInv`: who is between the steps of a call that keep a lock, or is freeing, has that lock. So nobody else is in that
  inode.
- `SettledInv`: an inode from which a process may take a link later (`link` on its way out, the second half of `unlink`) is in memory,
  and nobody frees it while it is held. Without it `link_bad` could lower the count of a freed inode.
- `OrphanInv`: an inode without links is held by somebody who has not yet passed the test of `iput` (`Leaving` are those who
  have), or is `lost`. `NoOrphan` alone is not inductive: it does not say that a holder is still going to look.

The first part of `NamesProofs` counts: how often an inode is in the record of a process (`Has`), in all of them (`Pairs`), in open files
(`For`); and says what a step that is no `iput` may do (`OneKeeps`): change one record, take a reference where the count goes up
and give one back through `puts`. Each call then has a lemma that checks these conditions; `fork`, with two records, has a version
of its own. The three steps of `iput` are done by hand: when `iput` sees the last reference, nobody else can have the
inode settled, because that would be a second holder; `iput_deref` leaves more references than there are processes
that have passed the test.

### The machine

`MachineProofs` proves about `Machine`, for any number of processors, processes and pages, any table of the BIOS in which no
processor stands twice, and any calls: `pushcli` and `popcli` are matched through every interrupt and every `swtch`
(`MachineNcliRight`); no interrupt comes to a processor with a lock (`MachineNoLockOpen`); what a lock protects is touched by its
holder (`MachineAccessLocked`, the half of `OwnOnly` that is about locks); no set of processors spins in a circle
(`MachineNoCircle`, where run `machine` looks at pairs); a process is on one processor at a time (`MachineOneProcessor`); `release`,
`popcli` and `sched` never panic, nor does `acquire` for a lock the processor has already (`MachineNoLockPanic`). The only assumption is
`MachineAssumption`: types, and the table. A panic ends the behaviour, so each statement begins with `~ panic`.

The difficulty is that a lock is not an atomic section here: it is a pair of instructions in the list of a thread, the
list may be left with the lock held (`sched`) and another thread releases it, on a list that has the `release` but not the
`acquire`. `MachineInvariant` proves `IInv`, which therefore speaks about lists:

- `SaneInv`: what the thread of a processor has now leads, along its list, to nothing (`Path`). What it has (`Held`) are its locks, `"early"`
  while the first processor boots and the allocator is used without its lock, and `"off"` between the line that
  makes a process SLEEPING, RUNNABLE or ZOMBIE and `sched`. `Leads` says for each instruction what must be had before it and what is had
  after it; the order of the locks is in its line for `acquire`. A call puts a list in front that leads from what there
  is to the same, and an interrupt one that leads from nothing to nothing. The part says too that `ncli` counts the locks, and
  interrupts are on only where the count is zero.
- `Sounds`: a thread that does not run resumes with `ptable.lock` and nothing else: a process after `sched`, a new one at `forkret`, a
  scheduler at `back`. This is what makes the hand-over at `swtch` right.
- `RunInv`: who runs is on one processor, its scheduler waits at `back`, and its slot is not free.
- `EarlyInv`: until the allocator has its lock no other processor runs a process, no slot is used and interrupts are off.
- `OrderInv`, `FactInv`, `OnceInv`: what a list still to be done promises. The process that `allocproc` has begun is EMBRYO until it is started,
  and only its maker has it in hand; the one that `wait` frees is ZOMBIE until it is freed, under `ptable.lock` without
  a stop; a processor that `startothers` has not come to has done nothing. Without them a `release` further down a list
  could not be known to be still that of this thread.

`MachineSafety` adds `IntrOff` (`MachineIntrOff`): no interrupt reaches a processor that holds a lock or is in a handler,
interrupts are on in user mode, and no two processors spin for one another's lock. The middle part is the new one: a handler may
give the processor away (`yield` in `preempt`), another thread runs, turns interrupts on and off and comes back, perhaps on
another processor, and the handler must still find them off. `MachineSafe` proves `SafeInv`, which adds to `IInv`:

- `SmoothInv`: of two instructions of a list, what may not follow what (`Rough`). Nothing before the `iret` of a handler turns
  interrupts on, and `intena` is the first that a thread has to do when it comes back from `sched`.
- `TrapInv`: in a handler `intena` of the processor is off while it counts a lock, so `popcli` leaves interrupts off
  (`Closed`); a thread in a handler that does not run has off saved in its process, and reads it first (`Returns`). This is
  where `sched` must save `intena` per thread; without the line (mutant `Kept_not`) `Closed` is lost at the first
  switch.
- `Rings`, `Blocks`: which instructions only a handler has, and which locks surround the line of `sleep` that makes a process SLEEPING.

On it rests `MachineNoLostWakeup`: until a panic, whoever sleeps sleeps for a time not yet over, for a block still in the queue
of a disk that works or is about to, for a child while none is a zombie and he is not killed, or some processor holds the lock
that `sleep` was given and has his `wakeup1` still to do. Its inductive invariant is `WakeInv`, with one part for each reason:

- `Sleeps` counts as asleep also a process whose list still has the line that makes it SLEEPING (`block`): between the test
  and that line it has already given up `tickslock` or `idelock`, and a tick or an interrupt of the disk may come there. What saves it is that
  it took `ptable.lock` first, which the `wakeup1` behind the tick has yet to get (`Blocks`, `Waking`).
- `TimeWakes`, `DiskWakes`, `ChildWakes`: the reason, by channel. `Asked`: who is about to wait for the disk has put its
  request into the queue. `Served`: while there are requests the disk is busy, or a processor is on its way to start it again.
- `Parents`: only `init` may be its own parent. Without it the `exit` of a process could make the zombie that its own
  `wait` has just looked for.

`ChildWakes` needs the `wakeup` of `kill` and of `exit` to be under the same lock as the change, and `exit` to wake `init` for an orphan that is
already dead; a step that starts no sleep and keeps the reasons (`Flow`, `Hushed`) is handled once for all actions.

Run `machine` evaluates `MachineAssumption`. The proof has, for each kind of step (one processor's registers, its list, one process, a switch, a call, the start of a
processor), a lemma that says which parts of `IInv` the step can disturb; each action then shows that its list still leads where it should.

### Only model-checked

- Liveness (`CallsReturn` of log and cache, `Ends` of threads and names), which is out of the prover's reach, as is every
  statement with `ENABLED`.
- `ProgramsEnd`, `TestsHold`: they are about particular programs, and `Shell` and the printed output are `RECURSIVE` or
  inductions over data.
- `LinksRight`: true of the programs of the run only. A file created in a directory that has been removed while it was somebody's cwd has a
  link count without an entry that can be reached.
- `TypeOK` of `Cache`: its types are part of `CacheInvariant`; that `bget` does not panic depends on `MaxHold` and
  `MaxPins`, which say how many buffers are in use at once.
- The scheduler: the sift loops are `RECURSIVE`, which the prover's SMT backend does not accept, and `OneCpu`, `QueuedOnce` and
  `CountsRight` hold for the workloads of the run, not for all (section 6).
- `Machine`: that there is no panic at all, and no shared stack (`OneStack`, the other half of `OwnOnly`). That there is no panic is
  about the workloads of the run: `exit` of `init`, or a machine without a table, ends in one. Stacks need an account of
  the pages in the list and in hand beside what the theorems need.
- Threads: what the properties except is reached (section 6), so that they hold for the `load`s of the run as stated; `exectest` and
  `sbrktest` violate `MemoryRight` without an untimely exit.
- Memory, file data, and the console's `ImplementsTerminal`: their invariants count over page tables, index blocks and the ring by
  folds; the instances of section 3 are all that is shown.

## 6. Disagreements between the code and its comments

- `sync` (`sysfile.c:450`, run `log_sync_atomic`) calls `commit` while operations are active. `log.c:12` promises
  that "the logging system only commits when there are no FS system calls active". Half of an operation
  survives a crash.
- `filewrite` (`file.c:132`, run `data_maxop`) sizes its transactions by one index block. With triple indirect
  blocks one may log 11 blocks; `param.h:10` and `file.c:127` promise at most `MAXOPBLOCKS`, 10.
- `exit` (`proc.c:489` of proj_LWP, run `threads_exit`) marks threads ZOMBIE that run on the other CPU.
  They go on, sleep, wake and may call `exit`; `proc.c:436` says that an exited process stays a zombie.

The models show more that contradicts no document and is therefore kept as a hazard only:

- **scheduler**: a tick between `kind = MLFQ` (`run_MLFQ.c:36`) and the end of `push_MLFQ` (40) leaves an MLFQ process that
  no queue holds; if it is the only one, `pop_MLFQ` finds nothing and `switchuvm` panics on a null process, otherwise it
  never runs again. A tick between `kind = SHARE` (`cpu_share.c:35`) and
  `portion` (36), and a fork in that turn, give a ticket of 0 and `scheduler` divides by it. A tick
  between `norm_ticket` (38) and the end of the loop leaves tickets of 7040 where 6400 is all there is, until the next fork or exit. Two processes
  that both pass the test at 27 have 40 percent. All of this happens in run `sched`, whose properties say that nothing else does. Besides, an MLFQ process that sleeps
  is in no queue afterwards (in the run), and one that exits in the turn of its `run_MLFQ` is dispatched as
  a zombie (not in the run); a killed sleeper keeps the pass of a sleeper and may not
  get to the root; once that pass, or a stale `mlfq_pass`, is `min_pass`, a child starts far behind or ahead (`Lag` excepts
  these workloads); `priority_boost` pops what it has just pushed as
  soon as level 0 holds a process, and never ends (`boost_hangs`, which happens in run `sched`).
- **pipes**: a killed writer leaves a full pipe without waking the reader (`pipe.c:86`); a killed reader
  returns at `pipe.c:107` in the same way.
- **names**: `create` (`sysfile.c:281`) puts the parent, which takes its lock, with the new inode locked, while
  `unlink` or `link` holds the parent and waits for the new inode: with `<<"linkunlink">>` among `MCScripts` TLC finds the
  deadlock, and `usertests.c` calls that test one "to look for deadlocks". `link(f, ".")` waits for a lock it
  holds itself (`fs.c:659`). Two `iput`s at once may each see the reference of the other, and the inode is never
  freed (`fs.c:340`; the comment at 328 has it that the last reference frees it).
- **mkfs**: a file beyond its one indirect block passes the assertion at `mkfs.c:270` and is written outside the array at
  275; a root that ends with its block is given a size one block too large (`mkfs.c:161`), for which it has no block.
  `MkfsAssumption` excludes both.
- **machine**: `ideinit` names the processor for the disk by its place in the table, where `ioapicenable` (`ioapic.c:72`) says that this "happens to
  be that cpu's APIC ID", and `mp.c:110` that it "may differ": with IDs that are not the numbers from 0 on, the disk would interrupt
  nobody. `mpinit` stays for ever at an entry of an unknown type, since the `break` leaves the `switch` only. A process
  killed between the test of `sys_sleep` and its `sleep` waits for the next tick.
- **memory**: `sbrk` of minus the whole size frees all pages and fails (`proc.c:169`).
- **shells**: `>>` opens its file as `>` does (`sh.c:391`) and writes over its beginning; `a & b` is a syntax error ("leftovers"). At the end of a batch
  file `proj_shell` runs the first command of the last line again.
- **threads**: two threads in `sbrk` at once map one page twice, which panics (`sbrktest`); a thread that is
  not the main one and creates threads loses their pages; after `exec` in one thread its process has two page tables, and
  `wait` frees one (`exectest`). `exit` of one thread of several: the search by pid finds no entry, and that of `init`
  goes (`exittest2`, and `racingtest` with memory for one thread: the thread is in `thread_exit` when the main one gives up); a
  thread that has exited and was not joined, or is in `thread_exit`, has put its directory, and `exit` locks the words at
  address 0 of the program for ever (`proc.c:463`); a child that a thread has forked wakes that thread when it exits, also when the thread is gone and
  `init` is its parent (`proc.c:472`), and a child of the main thread is given to nobody when another thread exits (`proc.c:479`).

## 7. Not modelled

`PROJECT.json` lists every component, with what is left out of it. In short: reading the ELF header (one step of `exec`), segment
registers; the table of system calls and device registers; screen, keyboard map and
UART; `cd` in `sh.c`, and the messages both shells print about errors; `procdump`, `getlev`; integer overflow of
`pass`, which grows by at least 1 per turn and is never normalised; a drive that reports errors; a reader of the
console that is killed; byte order and the files of the host in `mkfs`. Generated files (`*.asm`, `*.sym`,
`_*`) are build products.

The three kernels are forks of one source. Where a file is the same in all three, or differs only in
formatting, it is modelled once, from the fork whose project touches its neighbourhood: the file
system, driver, pipes, memory, shell and `usertests.c` from `proj_filesystem`, the stride scheduler from `proj_scheduler` (proj_LWP
has a copy), threads from `proj_LWP`. The copies in the other two directories have no definitions of their
own.
