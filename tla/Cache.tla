------------------------------- MODULE Cache -------------------------------
(***************************************************************************)
(* The buffer cache (bio.c) over the disk driver (ide.c), with sleep locks  *)
(* (sleeplock.c) and the sleep and wakeup of proc.c under them.             *)
(*                                                                         *)
(* A critical section of a spin lock is one step, and so is sleep() after   *)
(* it has taken ptable.lock.  What a loop such as acquiresleep's does under  *)
(* the inner lock before it calls sleep() is a step of its own, which keeps  *)
(* that lock: a wakeup that came between the two would be lost.  The content *)
(* of a block is the set of processes that changed it.                      *)
(***************************************************************************)
EXTENDS Naturals, Sequences, FiniteSets, SequencesExt

CONSTANTS Procs,      \* processes in the file system
          Blocks,     \* block numbers, in the order they are locked in
          NBUF,       \* size of bcache.buf
          Nobody,     \* no process, no buffer, no command
          MaxHold,    \* buffers a process holds at a time
          MaxPins,    \* blocks the log keeps from being recycled
          MaxCalls    \* bound: breads per process

ASSUME CacheAssumption ==
  /\ Blocks \subseteq Nat \ {0} /\ IsFiniteSet(Blocks) /\ IsFiniteSet(Procs)
  /\ NBUF \in Nat \ {0}
  /\ Nobody \notin Procs \cup (1..NBUF)
  /\ Nobody \notin [buf : 1..NBUF, write : BOOLEAN, data : SUBSET Procs]
  /\ MaxHold \in Nat /\ MaxPins \in Nat
  /\ MaxCalls \in [Procs -> Nat]

NoBlock == 0
Data == SUBSET Procs
Bufs == 1..NBUF

VARIABLES blockno, refcnt,     \* the fields of each struct buf, B_VALID and
          valid, dirty, data,  \* B_DIRTY apart
          locked, pid,         \* and those of its sleep lock
          lru,        \* the list of bcache.head: most recently used first
          disk,       \* content of the sectors
          idequeue,   \* requests, the active one first
          drive,      \* the command the drive works on, with a write's data
          irq,        \* the drive has finished and interrupts
          lk,         \* sleeplock.lk of each buffer: its holder
          idelock,    \* holder of idelock
          pc, arg, chan, \* per process: place in the code, buffer, sleep channel
          want,       \* block number a process asks bget for
          held,       \* buffers it got from bread and has not released
          calls       \* breads so far

blockVars == <<blockno, valid, dirty, data>>
lockVars == <<locked, pid>>
bufVars  == <<blockVars, refcnt, lockVars, lru>>
ideVars  == <<disk, idequeue, drive, irq>>
spinVars == <<lk, idelock>>
procVars == <<pc, arg, chan, want, held, calls>>
vars == <<bufVars, ideVars, spinVars, procVars>>

LockOf(b) == <<"lock", b>>     \* the channel of acquiresleep
Request(b) == <<"request", b>> \* the channel of iderw
NoChan == <<"none", Nobody>>

\* Types, and no panic: each buffer, request and process is in a state the code
\* goes on from, given buffers for all that is held and pinned at a time.
TypeOK ==
  /\ blockno \in [Bufs -> Blocks \cup {NoBlock}]
  /\ valid \in [Bufs -> BOOLEAN] /\ dirty \in [Bufs -> BOOLEAN]
  /\ data \in [Bufs -> Data]
  /\ refcnt \in [Bufs -> 0..Cardinality(Procs) * MaxHold]
  /\ locked \in [Bufs -> BOOLEAN] /\ pid \in [Bufs -> Procs \cup {Nobody}]
  /\ lru \in [Bufs -> Bufs] /\ ToSet(lru) = Bufs
  /\ disk \in [Blocks -> Data]
  /\ ToSet(idequeue) \subseteq Bufs /\ IsInjective(idequeue)
  /\ drive = Nobody \/ (/\ drive.buf \in Bufs
                        /\ drive.write \in BOOLEAN /\ drive.data \in Data)
  /\ irq \in BOOLEAN
  /\ lk \in [Bufs -> Procs \cup {Nobody}]
  /\ idelock \in Procs \cup {Nobody}
  /\ pc \in [Procs -> {"run", "bget", "acquiresleep", "iderw", "wait", "sleep",
                       "asleep", "brelse"}]
  /\ \A p \in Procs : held[p] \subseteq Bufs /\ Cardinality(held[p]) <= MaxHold

\* binit and ideinit; nothing is cached and the drive is idle.
Init ==
  /\ blockno = [b \in Bufs |-> NoBlock] /\ refcnt = [b \in Bufs |-> 0]
  /\ valid = [b \in Bufs |-> FALSE] /\ dirty = [b \in Bufs |-> FALSE]
  /\ data = [b \in Bufs |-> {}]
  /\ locked = [b \in Bufs |-> FALSE] /\ pid = [b \in Bufs |-> Nobody]
  /\ lru = [i \in Bufs |-> NBUF + 1 - i]
  /\ disk = [n \in Blocks |-> {}]
  /\ idequeue = <<>> /\ drive = Nobody /\ irq = FALSE
  /\ lk = [b \in Bufs |-> Nobody] /\ idelock = Nobody
  /\ pc = [p \in Procs |-> "run"] /\ arg = [p \in Procs |-> Nobody]
  /\ chan = [p \in Procs |-> NoChan] /\ want = [p \in Procs |-> NoBlock]
  /\ held = [p \in Procs |-> {}] /\ calls = [p \in Procs |-> 0]

Goto(p, label) == pc' = [pc EXCEPT ![p] = label]
Panic(p) == Goto(p, "panic")
Return(p) == Goto(p, "run") /\ arg' = [arg EXCEPT ![p] = Nobody]

----------------------------------------------------------------------------
(* sleep and wakeup.                                                       *)

\* sleep(chan, lk): under ptable.lock, give up the lock that goes with the channel
\* and become SLEEPING.
sleep(p) ==
  /\ pc[p] = "sleep"
  /\ IF chan[p] = Request(arg[p])
     THEN idelock' = Nobody /\ UNCHANGED lk
     ELSE lk' = [lk EXCEPT ![arg[p]] = Nobody] /\ UNCHANGED idelock
  /\ Goto(p, "asleep")
  /\ UNCHANGED <<bufVars, ideVars, arg, chan, want, held, calls>>

\* wakeup1: everybody who sleeps on c.
Woken(c) == {p \in Procs : pc[p] = "asleep" /\ chan[p] = c}

\* A woken process takes its lock again and repeats the test of its loop.
Resumed(c) == [p \in Procs |-> IF p \notin Woken(c) THEN pc[p]
                               ELSE IF c[1] = "lock" THEN "acquiresleep" ELSE "wait"]

----------------------------------------------------------------------------
(* bio.c and sleeplock.c.                                                  *)

\* A process asks for a block, in the order of block numbers: the file system
\* locks parents before children and inodes before what they point to.
call_bread(p, n) ==
  /\ pc[p] = "run"
  /\ calls[p] < MaxCalls[p]
  /\ Cardinality(held[p]) < MaxHold
  /\ \A b \in held[p] : blockno[b] < n
  /\ want' = [want EXCEPT ![p] = n]
  /\ calls' = [calls EXCEPT ![p] = @ + 1]
  /\ Goto(p, "bget")
  /\ UNCHANGED <<bufVars, ideVars, spinVars, arg, chan, held>>

\* The buffers bget finds for block n.
Cached(n) == {b \in Bufs : blockno[b] = n}

\* Found: one more reference, then wait for the lock.
bget_hit(p) ==
  /\ pc[p] = "bget"
  /\ \E b \in Cached(want[p]) :
       /\ refcnt' = [refcnt EXCEPT ![b] = @ + 1]
       /\ arg' = [arg EXCEPT ![p] = b]
  /\ Goto(p, "acquiresleep")
  /\ UNCHANGED <<blockVars, lockVars, lru, ideVars, spinVars, chan, want, held, calls>>

\* Places in the list of buffers that bget may recycle.
Unused == {i \in DOMAIN lru : refcnt[lru[i]] = 0 /\ ~ dirty[lru[i]]}

\* Mutants: the flag of the old block stays, or the reference is forgotten.
Recycled_valid(b, n) ==
  /\ blockno' = [blockno EXCEPT ![b] = n] /\ refcnt' = [refcnt EXCEPT ![b] = 1]
  /\ dirty' = [dirty EXCEPT ![b] = FALSE] /\ UNCHANGED valid

Recycled_unref(b, n) ==
  /\ blockno' = [blockno EXCEPT ![b] = n] /\ UNCHANGED refcnt
  /\ valid' = [valid EXCEPT ![b] = FALSE] /\ dirty' = [dirty EXCEPT ![b] = FALSE]

Recycled(b, n) ==
  /\ blockno' = [blockno EXCEPT ![b] = n] /\ refcnt' = [refcnt EXCEPT ![b] = 1]
  /\ valid' = [valid EXCEPT ![b] = FALSE] /\ dirty' = [dirty EXCEPT ![b] = FALSE]

\* Mutant: the block may have come in since the scan.
Missed_stale(p) == TRUE

\* The scan found nothing, and bcache.lock is still held.
Missed(p) == Cached(want[p]) = {}

\* Not found: the least recently used buffer nobody needs, or panic.
bget_recycle(p) ==
  /\ pc[p] = "bget"
  /\ Missed(p)
  /\ IF Unused = {}
     THEN Panic(p) /\ UNCHANGED <<blockno, valid, dirty, refcnt, arg>>
     ELSE \E i \in Unused :
          /\ \A j \in Unused : j <= i
          /\ Recycled(lru[i], want[p])
          /\ arg' = [arg EXCEPT ![p] = lru[i]]
          /\ Goto(p, "acquiresleep")
  /\ UNCHANGED <<data, lockVars, lru, ideVars, spinVars, chan, want, held, calls>>

\* Mutant: lk is released between the test and sleep().
acquiresleep_sleep_early(p) ==
  /\ pc[p] = "acquiresleep"
  /\ lk[arg[p]] = Nobody
  /\ locked[arg[p]]
  /\ chan' = [chan EXCEPT ![p] = LockOf(arg[p])]
  /\ Goto(p, "sleep")
  /\ UNCHANGED <<bufVars, ideVars, spinVars, arg, want, held, calls>>

\* while (lk->locked) sleep(lk, &lk->lk)
acquiresleep_sleep(p) ==
  /\ pc[p] = "acquiresleep"
  /\ lk[arg[p]] = Nobody
  /\ locked[arg[p]]
  /\ lk' = [lk EXCEPT ![arg[p]] = p]
  /\ chan' = [chan EXCEPT ![p] = LockOf(arg[p])]
  /\ Goto(p, "sleep")
  /\ UNCHANGED <<bufVars, ideVars, idelock, arg, want, held, calls>>

\* The lock is free: take it, and go to the disk unless the data is there (bread).
acquiresleep(p) ==
  /\ pc[p] = "acquiresleep"
  /\ lk[arg[p]] = Nobody
  /\ ~ locked[arg[p]]
  /\ locked' = [locked EXCEPT ![arg[p]] = TRUE] /\ pid' = [pid EXCEPT ![arg[p]] = p]
  /\ held' = [held EXCEPT ![p] = @ \cup {arg[p]}]
  /\ want' = [want EXCEPT ![p] = NoBlock]
  /\ chan' = [chan EXCEPT ![p] = NoChan]
  /\ IF valid[arg[p]] THEN Return(p) ELSE Goto(p, "iderw") /\ UNCHANGED arg
  /\ UNCHANGED <<blockVars, refcnt, lru, ideVars, spinVars, calls>>

holdingsleep(p, b) == locked[b] /\ pid[b] = p

\* Bound: a process changes one block, once.
Changed(p) == \/ \E b \in Bufs : p \in data[b]
              \/ \E n \in Blocks : p \in disk[n]

\* A process changes the data of a buffer it has locked and tells the log
\* (log_write sets B_DIRTY), so that the buffer stays in the cache.
log_write(p, b) ==
  /\ pc[p] = "run"
  /\ b \in held[p]
  /\ Cardinality({c \in Bufs : dirty[c]} \cup {b}) <= MaxPins
  /\ ~ Changed(p)
  /\ data' = [data EXCEPT ![b] = @ \cup {p}] /\ dirty' = [dirty EXCEPT ![b] = TRUE]
  /\ UNCHANGED <<blockno, valid, refcnt, lockVars, lru, ideVars, spinVars, procVars>>

\* bwrite of a buffer the process has changed, or that was pinned and is to go home.
bwrite(p, b) ==
  /\ pc[p] = "run"
  /\ b \in held[p]
  /\ dirty[b] \/ ~ Changed(p)
  /\ IF holdingsleep(p, b)
     THEN /\ dirty' = [dirty EXCEPT ![b] = TRUE]
          /\ data' = [data EXCEPT ![b] = IF dirty[b] THEN @ ELSE @ \cup {p}]
          /\ arg' = [arg EXCEPT ![p] = b]
          /\ Goto(p, "iderw")
     ELSE UNCHANGED <<dirty, data, arg>> /\ Panic(p)
  /\ UNCHANGED <<blockno, valid, refcnt, lockVars, lru, ideVars, spinVars, chan, want, held, calls>>

\* brelse, first part: releasesleep clears the lock and wakes, under lk.
releasesleep(p, b) ==
  /\ pc[p] = "run"
  /\ b \in held[p]
  /\ lk[b] = Nobody
  /\ IF holdingsleep(p, b)
     THEN /\ locked' = [locked EXCEPT ![b] = FALSE] /\ pid' = [pid EXCEPT ![b] = Nobody]
          /\ arg' = [arg EXCEPT ![p] = b]
          /\ held' = [held EXCEPT ![p] = @ \ {b}]
          /\ pc' = [Resumed(LockOf(b)) EXCEPT ![p] = "brelse"]
     ELSE Panic(p) /\ UNCHANGED <<lockVars, arg, held>>
  /\ UNCHANGED <<blockVars, refcnt, lru, ideVars, spinVars, chan, want, calls>>

MovedToFront(b) ==
  LET place == CHOOSE i \in Bufs : lru[i] = b IN
  [i \in Bufs |-> IF i = 1 THEN b ELSE IF i <= place THEN lru[i - 1] ELSE lru[i]]

\* Mutant: the count stays.
Dropped_not(b) == refcnt[b]

Dropped(b) == refcnt[b] - 1

\* The reference goes back; the last one makes the buffer most recently used.
brelse(p) ==
  /\ pc[p] = "brelse"
  /\ refcnt' = [refcnt EXCEPT ![arg[p]] = Dropped(arg[p])]
  /\ lru' = IF Dropped(arg[p]) = 0 THEN MovedToFront(arg[p]) ELSE lru
  /\ Return(p)
  /\ UNCHANGED <<blockVars, lockVars, ideVars, spinVars, chan, want, held, calls>>

----------------------------------------------------------------------------
(* ide.c.                                                                  *)

\* The command idestart gives the drive; a write's data goes with it.
Command(b) == [buf |-> b, write |-> dirty[b], data |-> data[b]]

NothingToDo(b) == valid[b] /\ ~ dirty[b]

\* A request starts the drive when no other is in the queue.
Starts == idequeue = <<>>

\* Append the request, start the drive if it is idle, and wait.
iderw(p) ==
  /\ pc[p] = "iderw"
  /\ idelock = Nobody
  /\ IF ~ holdingsleep(p, arg[p]) \/ NothingToDo(arg[p])
     THEN Panic(p) /\ UNCHANGED <<idequeue, drive, idelock, chan>>
     ELSE /\ idequeue' = Append(idequeue, arg[p])
          /\ drive' = IF Starts THEN Command(arg[p]) ELSE drive
          /\ idelock' = p
          /\ chan' = [chan EXCEPT ![p] = Request(arg[p])]
          /\ Goto(p, "sleep")
  /\ UNCHANGED <<bufVars, disk, irq, lk, arg, want, held, calls>>

\* Awake: is the request done?
iderw_wait(p) ==
  /\ pc[p] = "wait"
  /\ idelock = Nobody
  /\ IF NothingToDo(arg[p])
     THEN Return(p) /\ chan' = [chan EXCEPT ![p] = NoChan] /\ UNCHANGED idelock
     ELSE Goto(p, "sleep") /\ idelock' = p /\ UNCHANGED <<arg, chan>>
  /\ UNCHANGED <<bufVars, ideVars, lk, want, held, calls>>

\* The drive carries out its command and raises the interrupt.
drive_done ==
  /\ drive # Nobody /\ ~ irq
  /\ disk' = IF drive.write THEN [disk EXCEPT ![blockno[drive.buf]] = drive.data]
             ELSE disk
  /\ irq' = TRUE
  /\ UNCHANGED <<bufVars, idequeue, drive, spinVars, procVars>>

\* The command for the request that is now first.
Next_command(q) == IF q = <<>> THEN Nobody ELSE Command(Head(q))

\* The handler takes the first request, reads its data if it was a read, wakes its
\* process and starts the next request.
ideintr ==
  /\ irq
  /\ idelock = Nobody
  /\ irq' = FALSE
  /\ LET b == Head(idequeue) IN
       /\ data' = [data EXCEPT ![b] = IF dirty[b] THEN @ ELSE disk[blockno[b]]]
       /\ valid' = [valid EXCEPT ![b] = TRUE] /\ dirty' = [dirty EXCEPT ![b] = FALSE]
       /\ pc' = Resumed(Request(b))
  /\ idequeue' = Tail(idequeue)
  /\ drive' = Next_command(Tail(idequeue))
  /\ UNCHANGED <<blockno, refcnt, lockVars, lru, disk, spinVars, arg, chan, want, held, calls>>

----------------------------------------------------------------------------

\* What a process inside bread, bwrite or brelse does next; it never stays there.
step(p) ==
  \/ sleep(p)
  \/ bget_hit(p) \/ bget_recycle(p)
  \/ acquiresleep_sleep(p) \/ acquiresleep(p) \/ brelse(p)
  \/ iderw(p) \/ iderw_wait(p)

disk_step == drive_done \/ ideintr

release(p) == \E b \in Bufs : releasesleep(p, b)

\* All calls are made and returned.
Finished ==
  /\ \A p \in Procs : pc[p] = "run" /\ calls[p] = MaxCalls[p] /\ held[p] = {}
  /\ UNCHANGED vars

Next ==
  \/ \E p \in Procs :
       \/ step(p) \/ release(p)
       \/ \E n \in Blocks : call_bread(p, n)
       \/ \E b \in Bufs : log_write(p, b) \/ bwrite(p, b)
  \/ disk_step
  \/ Finished

Spec == Init /\ [][Next]_vars

\* The scheduler runs every RUNNABLE process, the drive answers, interrupts are
\* taken, and a process gives back what it locked.
Fairness ==
  /\ \A p \in Procs : WF_vars(step(p)) /\ WF_vars(release(p))
  /\ WF_vars(disk_step)

FairSpec == Spec /\ Fairness

----------------------------------------------------------------------------
(* Properties.                                                             *)

\* bget gives a block at most one buffer, and what a process got from bread stays
\* what it asked for until brelse: locked by it, referenced, read, of one block.
HeldIsTheBuffer ==
  /\ \A n \in Blocks : Cardinality(Cached(n)) <= 1
  /\ \A p \in Procs : \A b \in held[p] :
       /\ holdingsleep(p, b) /\ refcnt[b] > 0
       /\ pc[p] = "run" => valid[b]
       /\ blockno[b] \in Blocks

Holders(b) == {p \in Procs : b \in held[p]}

\* Who waits for the lock of b, or has given it back and is still in brelse.
Waiters(b) == {p \in Procs : arg[p] = b /\
                 (pc[p] \in {"acquiresleep", "brelse"} \/
                  (pc[p] \in {"sleep", "asleep"} /\ chan[p] = LockOf(b)))}

\* The counts bget recycles by are right: a buffer has one reference for each
\* process that holds it, waits for it or is still in brelse.
RefcntRight ==
  \A b \in Bufs : refcnt[b] = Cardinality(Holders(b)) + Cardinality(Waiters(b))

\* Who has each block, and what it holds: the buffer's, where it has a valid one.
BlockOwner ==
  [n \in Blocks |->
     LET B == {b \in Cached(n) : locked[b]} IN
     IF B = {} THEN Nobody ELSE pid[CHOOSE b \in B : TRUE]]

BlockContent ==
  [n \in Blocks |->
     LET B == {b \in Cached(n) : valid[b]} IN
     IF B = {} THEN disk[n] ELSE data[CHOOSE b \in B : TRUE]]

\* Cache, queue and drive together are a store of blocks: a locked block changes
\* only by its holder, and none loses what was written to it, however often
\* its buffer is recycled and its data goes to the disk and comes back.
Store == INSTANCE BlockStore WITH owner <- BlockOwner, content <- BlockContent

ImplementsStore == Store!Spec

\* Every bread, bwrite and brelse returns: no wakeup is lost, neither of a sleep
\* lock nor of a disk request, and every request is served.
CallsReturn == \A p \in Procs : pc[p] # "run" ~> pc[p] = "run"
=============================================================================
