-------------------------------- MODULE Log --------------------------------
(***************************************************************************)
(* The redo log of proj_filesystem/xv6-public/log.c: begin_op, log_write,  *)
(* end_op, commit, recovery at boot, and the sync system call added to     *)
(* sysfile.c, over the buffer cache (bread, bwrite, recycling) and a disk  *)
(* that loses power at any moment.                                         *)
(*                                                                         *)
(* Actors are the file-system operations (one per begin_op/end_op pair),   *)
(* the processes that call sync, and the first process, which recovers the *)
(* log in forkret before user code runs.  An actor's pc names the C        *)
(* function it is in.  One disk write is one step.  The content of a block *)
(* is the set of the operations whose updates it carries.                  *)
(***************************************************************************)
EXTENDS Naturals, Sequences, FiniteSets

CONSTANTS Ops,          \* file-system operations, each run once
          Syncers,      \* processes that call sync, once each
          Boot,         \* the process that runs initlog
          Blocks,       \* home blocks (inodes, bitmap, data)
          NoBlock,      \* "no buffer held"
          MAXOPBLOCKS,  \* blocks begin_op reserves for one operation
          LOGSIZE,      \* entries of logheader.block[]
          NLOG,         \* sb.nlog as mkfs wrote it: log.size
          OpBlocks,     \* distinct blocks an operation really logs
          MaxCrashes    \* bound: power failures in a behaviour

ASSUME LogAssumption ==
  /\ MAXOPBLOCKS \in Nat \ {0}
  /\ LOGSIZE \in Nat \ {0}
  /\ NLOG \in Nat \ {0}
  /\ OpBlocks \in Nat
  /\ MaxCrashes \in Nat
  /\ Ops \cap Syncers = {}
  /\ Boot \notin Ops \cup Syncers
  /\ NoBlock \notin Blocks
  /\ IsFiniteSet(Ops)

VARIABLES disk,         \* home location of every block
          logd,         \* log blocks on disk, after the header block
          head,         \* header block on disk: the block numbers
          cache,        \* what bread of a block returns
          dirty,        \* blocks whose buffer has B_DIRTY (pinned)
          lh,           \* log.lh: block numbers logged since the last commit
          outstanding,  \* log.outstanding
          committing,   \* log.committing
          pc,           \* where each actor is
          tail,         \* the loop index of write_log and install_trans
          arg,          \* the buffer an operation holds inside log_write
          wrote,        \* history: blocks each operation has logged
          crashes       \* power failures so far

diskVars == <<disk, logd, head>>
memVars  == <<cache, dirty, lh>>
lockVars == <<outstanding, committing>>
vars == <<disk, logd, head, cache, dirty, lh, outstanding, committing,
          pc, tail, arg, wrote, crashes>>

Actors == Ops \cup Syncers \cup {Boot}
Content == SUBSET Ops
Slots == 1..LOGSIZE

RangeOf(s) == {s[i] : i \in DOMAIN s}

\* Types: every actor is at a known place of a C function, and every block number
\* in the header and the log is one of the file system.
TypeOK ==
  /\ disk \in [Blocks -> Content]
  /\ logd \in [Slots -> Content]
  /\ head \in Seq(Blocks)
  /\ cache \in [Blocks -> Content]
  /\ dirty \subseteq Blocks
  /\ lh \in Seq(Blocks)
  /\ outstanding \in Nat
  /\ committing \in BOOLEAN
  /\ pc \in [Actors -> {"idle", "begin", "asleep", "run", "append", "commit",
                        "write_log", "write_head", "install_trans", "clear",
                        "erase", "unlock", "done", "dead", "read_head", "up",
                        "panic"}]
  /\ tail \in [Actors -> Nat]
  /\ arg \in [Ops -> Blocks \cup {NoBlock}]
  /\ wrote \in [Ops -> SUBSET Blocks]
  /\ crashes \in 0..MaxCrashes

\* The disk as mkfs left it, and the machine switched on: initlog runs first.
Init ==
  /\ disk = [b \in Blocks |-> {}]
  /\ logd = [i \in Slots |-> {}]
  /\ head = <<>>
  /\ cache = disk
  /\ dirty = {}
  /\ lh = <<>>
  /\ outstanding = 0
  /\ committing = FALSE
  /\ pc = [a \in Actors |-> IF a = Boot THEN "read_head" ELSE "idle"]
  /\ tail = [a \in Actors |-> 0]
  /\ arg = [o \in Ops |-> NoBlock]
  /\ wrote = [o \in Ops |-> {}]
  /\ crashes = 0

Goto(a, label) == pc' = [pc EXCEPT ![a] = label]

\* bread of a block waits for the operation that holds its buffer.
Free(b) == \A p \in Ops : arg[p] # b

----------------------------------------------------------------------------
(* Operations: begin_op, log_write, end_op.                                *)

\* Mutant: the operation that is asking is not counted.
MightExhaustLog_self ==
  Len(lh) + outstanding * MAXOPBLOCKS > LOGSIZE

\* The condition under which begin_op sleeps although no commit is running.
MightExhaustLog ==
  Len(lh) + (outstanding + 1) * MAXOPBLOCKS > LOGSIZE

\* begin_op goes back to sleep.
MustWait == committing \/ MightExhaustLog

\* A system call is made; user processes exist only once recovery is over.
call_op(o) ==
  /\ pc[Boot] = "up"
  /\ pc[o] = "idle"
  /\ Goto(o, "begin")
  /\ UNCHANGED <<diskVars, memVars, lockVars, tail, arg, wrote, crashes>>

\* One turn of the loop of begin_op, under log.lock.  sleep() gives the lock up
\* and blocks in one step, so a wakeup cannot fall between the two.
begin_op_sleep(o) ==
  /\ pc[o] = "begin"
  /\ MustWait
  /\ Goto(o, "asleep")
  /\ UNCHANGED <<diskVars, memVars, lockVars, tail, arg, wrote, crashes>>

begin_op(o) ==
  /\ pc[o] = "begin"
  /\ ~ MustWait
  /\ outstanding' = outstanding + 1
  /\ Goto(o, "run")
  /\ UNCHANGED <<diskVars, memVars, committing, tail, arg, wrote, crashes>>

\* The panic test of log_write is made before log.lock is taken ...
TooBig == Len(lh) >= LOGSIZE \/ Len(lh) >= NLOG - 1

\* ... by an operation that has read the buffer, holds its lock and changed it.
log_write(o, b) ==
  /\ pc[o] = "run"
  /\ Free(b)
  /\ Cardinality(wrote[o] \cup {b}) <= OpBlocks
  /\ IF TooBig \/ outstanding < 1
       THEN Goto(o, "panic") /\ UNCHANGED arg
       ELSE Goto(o, "append") /\ arg' = [arg EXCEPT ![o] = b]
  /\ UNCHANGED <<diskVars, memVars, lockVars, tail, wrote, crashes>>

\* Log absorption: a block already in the log keeps its slot.
Absorb(b) == IF b \in RangeOf(lh) THEN lh ELSE Append(lh, b)

\* The rest of log_write, under log.lock, then brelse.
log_append(o) ==
  /\ pc[o] = "append"
  /\ cache' = [cache EXCEPT ![arg[o]] = @ \cup {o}]
  /\ lh' = Absorb(arg[o])
  /\ dirty' = dirty \cup {arg[o]}
  /\ wrote' = [wrote EXCEPT ![o] = @ \cup {arg[o]}]
  /\ arg' = [arg EXCEPT ![o] = NoBlock]
  /\ Goto(o, "run")
  /\ UNCHANGED <<diskVars, lockVars, tail, crashes>>

\* Mutant: the wakeup reaches nobody.
Woken_nobody(p) == p

\* wakeup(&log): every process asleep in begin_op becomes runnable.
Woken(p) == [a \in Actors |-> IF p[a] = "asleep" THEN "begin" ELSE p[a]]

\* Mutant: every end_op commits, not only the last.
LastOut_always == TRUE

\* log.outstanding -= 1, and the test whether this was the last operation.
Released == outstanding - 1
LastOut == Released = 0

\* The locked part of end_op: the last operation out commits, the others wake
\* those that wait for log space.
end_op(o) ==
  /\ pc[o] = "run"
  /\ outstanding' = Released
  /\ committing' = (committing \/ LastOut)
  /\ pc' = IF committing THEN [pc EXCEPT ![o] = "panic"]
           ELSE IF LastOut THEN [pc EXCEPT ![o] = "commit"]
           ELSE Woken([pc EXCEPT ![o] = "done"])
  /\ UNCHANGED <<diskVars, memVars, tail, arg, wrote, crashes>>

\* The tail of end_op after commit() returned.
end_op_unlock(o) ==
  /\ pc[o] = "unlock"
  /\ committing' = FALSE
  /\ pc' = Woken([pc EXCEPT ![o] = "done"])
  /\ UNCHANGED <<diskVars, memVars, outstanding, tail, arg, wrote, crashes>>

----------------------------------------------------------------------------
(* commit() and its loops: run by the last end_op and by sync, and, from   *)
(* install_trans on, by recovery.                                          *)

\* Where an actor goes when commit() or recover_from_log() returns.
Return(a) == IF a = Boot THEN "up" ELSE IF a \in Ops THEN "unlock" ELSE "done"

sys_sync(s) ==
  /\ pc[Boot] = "up"
  /\ pc[s] = "idle"
  /\ Goto(s, "commit")
  /\ UNCHANGED <<diskVars, memVars, lockVars, tail, arg, wrote, crashes>>

commit(a) ==
  /\ pc[a] = "commit"
  /\ Goto(a, IF Len(lh) > 0 THEN "write_log" ELSE Return(a))
  /\ tail' = [tail EXCEPT ![a] = 0]
  /\ UNCHANGED <<diskVars, memVars, lockVars, arg, wrote, crashes>>

\* Mutant: the loops stop one block early.
InLoop_short(a) == tail[a] + 1 < Len(lh)

\* The condition of both loops over the log.
InLoop(a) == tail[a] < Len(lh)

\* The entry of the log the loop is at.
Slot(a) == tail[a] + 1

write_log(a) ==
  /\ pc[a] = "write_log"
  /\ InLoop(a)
  /\ Free(lh[Slot(a)])
  /\ logd' = [logd EXCEPT ![Slot(a)] = cache[lh[Slot(a)]]]
  /\ tail' = [tail EXCEPT ![a] = Slot(a)]
  /\ UNCHANGED <<disk, head, memVars, lockVars, pc, arg, wrote, crashes>>

write_log_done(a) ==
  /\ pc[a] = "write_log"
  /\ ~ InLoop(a)
  /\ Goto(a, "write_head")
  /\ UNCHANGED <<diskVars, memVars, lockVars, tail, arg, wrote, crashes>>

\* write_head, the first call: the real commit.
write_head(a) ==
  /\ pc[a] = "write_head"
  /\ head' = lh
  /\ tail' = [tail EXCEPT ![a] = 0]
  /\ Goto(a, "install_trans")
  /\ UNCHANGED <<disk, logd, memVars, lockVars, arg, wrote, crashes>>

\* bwrite of the home block leaves its buffer valid and clean.
install_trans(a) ==
  /\ pc[a] = "install_trans"
  /\ InLoop(a)
  /\ Free(lh[Slot(a)])
  /\ cache' = [cache EXCEPT ![lh[Slot(a)]] = logd[Slot(a)]]
  /\ disk' = [disk EXCEPT ![lh[Slot(a)]] = logd[Slot(a)]]
  /\ dirty' = dirty \ {lh[Slot(a)]}
  /\ tail' = [tail EXCEPT ![a] = Slot(a)]
  /\ UNCHANGED <<logd, head, lh, lockVars, pc, arg, wrote, crashes>>

install_trans_done(a) ==
  /\ pc[a] = "install_trans"
  /\ ~ InLoop(a)
  /\ Goto(a, "clear")
  /\ UNCHANGED <<diskVars, memVars, lockVars, tail, arg, wrote, crashes>>

\* log.lh.n = 0, outside any lock.
clear(a) ==
  /\ pc[a] = "clear"
  /\ lh' = <<>>
  /\ Goto(a, "erase")
  /\ UNCHANGED <<diskVars, cache, dirty, lockVars, tail, arg, wrote, crashes>>

\* write_head, the second call: erase the transaction from the log.
erase(a) ==
  /\ pc[a] = "erase"
  /\ head' = lh
  /\ Goto(a, Return(a))
  /\ UNCHANGED <<disk, logd, memVars, lockVars, tail, arg, wrote, crashes>>

----------------------------------------------------------------------------
(* Recovery, the buffer cache, power failure.                              *)

read_head ==
  /\ pc[Boot] = "read_head"
  /\ lh' = head
  /\ tail' = [tail EXCEPT ![Boot] = 0]
  /\ Goto(Boot, "install_trans")
  /\ UNCHANGED <<diskVars, cache, dirty, lockVars, arg, wrote, crashes>>

\* Mutant: bget looks at the reference count only.
Pinned_never(b) == FALSE

\* The test by which bget refuses to recycle a buffer.
Pinned(b) == b \in dirty

\* bget hands the buffer of b to another block; the next bread of b reads the
\* disk.
bget_recycle(b) ==
  /\ ~ Pinned(b)
  /\ Free(b)
  /\ cache' = [cache EXCEPT ![b] = disk[b]]
  /\ UNCHANGED <<diskVars, dirty, lh, lockVars, pc, tail, arg, wrote, crashes>>

\* Memory is lost, the disk is not; the machine boots again.
Crash ==
  /\ crashes < MaxCrashes
  /\ crashes' = crashes + 1
  /\ cache' = disk
  /\ dirty' = {}
  /\ lh' = <<>>
  /\ outstanding' = 0
  /\ committing' = FALSE
  /\ pc' = [a \in Actors |-> IF a = Boot THEN "read_head"
                             ELSE IF pc[a] \in {"idle", "done"} THEN pc[a]
                             ELSE "dead"]
  /\ tail' = [a \in Actors |-> 0]
  /\ arg' = [o \in Ops |-> NoBlock]
  /\ UNCHANGED <<diskVars, wrote>>

----------------------------------------------------------------------------
CommitStep(a) == \/ commit(a) \/ write_log(a) \/ write_log_done(a)
                 \/ write_head(a) \/ install_trans(a) \/ install_trans_done(a)
                 \/ clear(a) \/ erase(a)

OpStep(o) == \/ call_op(o) \/ begin_op_sleep(o) \/ begin_op(o)
             \/ log_append(o) \/ end_op(o) \/ end_op_unlock(o)

\* Nothing left to do: every operation and every sync is over.
Terminated ==
  /\ pc[Boot] = "up"
  /\ \A a \in Ops \cup Syncers : pc[a] \in {"done", "dead"}
  /\ UNCHANGED vars

Next ==
  \/ \E o \in Ops : OpStep(o)
  \/ \E o \in Ops, b \in Blocks : log_write(o, b)
  \/ \E s \in Syncers : sys_sync(s)
  \/ \E a \in Actors : CommitStep(a)
  \/ read_head
  \/ \E b \in Blocks : bget_recycle(b)
  \/ Crash
  \/ Terminated

Spec == Init /\ [][Next]_vars

\* The scheduler gives every runnable process a turn, and every file-system
\* operation makes finitely many calls of log_write before its end_op.
Fairness ==
  /\ \A o \in Ops : /\ WF_vars(begin_op_sleep(o) \/ begin_op(o) \/ log_append(o)
                               \/ end_op_unlock(o))
                    /\ SF_vars(end_op(o))
  /\ \A a \in Actors : WF_vars(CommitStep(a))
  /\ WF_vars(read_head)

FairSpec == Spec /\ Fairness

----------------------------------------------------------------------------
(* What must hold.                                                          *)

Active == {o \in Ops : pc[o] \in {"run", "append"}}
Committers == {a \in Ops \cup Syncers :
                 pc[a] \in {"commit", "write_log", "write_head",
                            "install_trans", "clear", "erase", "unlock"}}

\* The home blocks d after recovery has installed the log blocks l that the
\* header h names.
RecoveredFrom(d, l, h) ==
  [b \in Blocks |->
     LET hits == {i \in DOMAIN h : h[i] = b}
     IN  IF hits = {} THEN d[b]
         ELSE l[CHOOSE i \in hits : \A j \in hits : j <= i]]

\* What a power failure now would bring back.
Recovered == RecoveredFrom(disk, logd, head)

View == IF pc[Boot] = "up" THEN cache ELSE Recovered

\* The log implements the atomic store: every bread returns the latest update
\* of the block, what a crash brings back changes in one step only, and in that
\* step no operation is between begin_op and end_op.
Store == INSTANCE AtomicStore WITH store <- Recovered, view <- View,
                                   running <- Active
ImplementsStore == Store!Spec

\* All or nothing: a crash brings back every block an operation logged or none,
\* and none of an operation that has not reached the commit.
AllOrNothing ==
  \A o \in Ops :
    (\E b \in Blocks : o \in Recovered[b])
      => o \notin Active /\ \A b \in wrote[o] : o \in Recovered[b]

\* When end_op has let the log go and no operation is running, everything any
\* finished operation wrote survives a crash (the group commit of log.c).
QuietMeansDurable ==
  (pc[Boot] = "up" /\ outstanding = 0 /\ ~ committing)
    => Recovered = cache /\ lh = <<>>

\* "The logging system only commits when there are no FS system calls active"
\* (log.c, lines 12-15), and one process commits at a time.
CommitsAlone ==
  \A a \in Committers : Active = {} /\ Committers = {a}

\* log_write never finds the log full, because begin_op reserved the space.
NeverTooBig == \A o \in Ops : pc[o] # "panic"

\* B_DIRTY pins exactly the logged blocks that are not yet home: the buffer of a
\* block the log still needs is never recycled, and no other buffer is stuck.
PinnedUntilInstalled ==
  LET home == {lh[i] : i \in {j \in DOMAIN lh : \E a \in Actors :
                 \/ pc[a] = "install_trans" /\ j <= tail[a]
                 \/ pc[a] = "clear"}}
  IN  pc[Boot] = "up" => dirty = RangeOf(lh) \ home

\* Survival is for good: what a crash would bring back at some point, every
\* later crash brings back too, however often recovery itself is interrupted.
NeverForgets ==
  [][\A b \in Blocks : Recovered[b] \subseteq Recovered'[b]]_vars

\* Every file-system call returns, unless power fails: the sleeps of begin_op
\* and the wakeups of end_op leave nobody behind, and every commit ends.
CallsReturn ==
  \A o \in Ops : pc[o] = "begin" ~> pc[o] \in {"done", "dead"}
=============================================================================
