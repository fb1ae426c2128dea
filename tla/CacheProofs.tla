---------------------------- MODULE CacheProofs ----------------------------
(***************************************************************************)
(* Proofs about the buffer cache: CacheInv's invariant is inductive, and   *)
(* with it the cache, the request queue and the drive implement a store of *)
(* blocks, for any number of processes, blocks and buffers.                 *)
(***************************************************************************)
EXTENDS CacheInv, FiniteSetTheorems, TLAPS

\* A wakeup reaches who sleeps for the same reason, on the same buffer.
LEMMA ChannelsDiffer ==
  \A b, c : LockOf(b) # Request(c) /\ (LockOf(b) = LockOf(c) => b = c)
            /\ (Request(b) = Request(c) => b = c)
            /\ LockOf(b)[1] = "lock" /\ Request(b)[1] # "lock"
  BY DEF LockOf, Request

\* Who is woken takes up its loop where it left it.
LEMMA ResumedLock ==
  ASSUME NEW b
  PROVE  Resumed(LockOf(b)) = [q \in Procs |->
           IF pc[q] = "asleep" /\ chan[q] = LockOf(b) THEN "acquiresleep" ELSE pc[q]]
  BY ChannelsDiffer DEF Resumed, Woken

LEMMA ResumedRequest ==
  ASSUME NEW b
  PROVE  Resumed(Request(b)) = [q \in Procs |->
           IF pc[q] = "asleep" /\ chan[q] = Request(b) THEN "wait" ELSE pc[q]]
  BY ChannelsDiffer DEF Resumed, Woken

\* What RefcntRight counts can be counted.
LEMMA CountsFinite ==
  ASSUME NEW b
  PROVE  /\ IsFiniteSet(Holders(b)) /\ Cardinality(Holders(b)) \in Nat
         /\ IsFiniteSet(Waiters(b)) /\ Cardinality(Waiters(b)) \in Nat
<1>1. Holders(b) \subseteq Procs /\ Waiters(b) \subseteq Procs
  BY DEF Holders, Waiters
<1> QED
  BY <1>1, FS_Subset, FS_CardinalityType, CacheAssumption

\* A buffer somebody holds or waits for has a reference and a block.
LEMMA InUse ==
  ASSUME Types, RefcntRight, BlockInv, NEW b \in Bufs, Holders(b) \cup Waiters(b) # {}
  PROVE  refcnt[b] > 0 /\ blockno[b] \in Blocks
<1>1. Cardinality(Holders(b)) # 0 \/ Cardinality(Waiters(b)) # 0
  BY CountsFinite, FS_EmptySet
<1>2. refcnt[b] > 0
  BY <1>1, CountsFinite DEF RefcntRight
<1> QED
  BY <1>2 DEF BlockInv

\* A buffer that bget may recycle is nobody's.
LEMMA Idle ==
  ASSUME Types, RefcntRight, LockInv, NEW b \in Bufs, refcnt[b] = 0
  PROVE  Holders(b) = {} /\ Waiters(b) = {} /\ ~ locked[b]
<1>1. Cardinality(Holders(b)) = 0 /\ Cardinality(Waiters(b)) = 0
  BY CountsFinite DEF RefcntRight
<1>2. Holders(b) = {} /\ Waiters(b) = {}
  BY <1>1, CountsFinite, FS_EmptySet
<1> QED
  BY <1>2 DEF LockInv, Holders

\* The buffers in the queue: referenced, of a block, in nobody else's hands.
LEMMA Queued ==
  ASSUME Types, RefcntRight, BlockInv, LockInv, QueueInv, NEW i \in DOMAIN idequeue
  PROVE  /\ idequeue[i] \in Bufs
         /\ blockno[idequeue[i]] \in Blocks
         /\ refcnt[idequeue[i]] > 0
         /\ \E p \in Procs : Requested(p, idequeue[i])
<1>1. idequeue[i] \in Bufs
  BY DEF Types, DiskTypes
<1>2. PICK p \in Procs : Requested(p, idequeue[i])
  BY DEF QueueInv
<1>3. p \in Holders(idequeue[i])
  BY <1>2 DEF Requested, Holders
<1> QED
  BY <1>1, <1>2, <1>3, InUse

\* The first request, when the drive interrupts.
LEMMA First ==
  ASSUME Types, RefcntRight, BlockInv, LockInv, QueueInv, DriveInv, drive # Nobody
  PROVE  /\ idequeue # <<>> /\ 1 \in DOMAIN idequeue /\ Head(idequeue) = idequeue[1]
         /\ Head(idequeue) \in Bufs /\ blockno[Head(idequeue)] \in Blocks
         /\ Tail(idequeue) \in Seq(Bufs)
         /\ drive = Command(Head(idequeue))
<1>1. idequeue # <<>> /\ idequeue \in Seq(Bufs)
  BY DEF DriveInv, Types, DiskTypes
<1>2. 1 \in DOMAIN idequeue /\ Head(idequeue) = idequeue[1] /\ Tail(idequeue) \in Seq(Bufs)
  BY <1>1
<1> QED
  BY <1>1, <1>2, Queued DEF DriveInv

\* The next-state relation, action by action.
LEMMA Actions ==
  ASSUME [Next]_vars
  PROVE  \/ \E p \in Procs :
              \/ \E n \in Blocks : call_bread(p, n)
              \/ \E b \in Bufs : log_write(p, b) \/ bwrite(p, b) \/ releasesleep(p, b)
              \/ sleep(p) \/ bget_hit(p) \/ bget_recycle(p)
              \/ acquiresleep_sleep(p) \/ acquiresleep(p) \/ brelse(p)
              \/ iderw(p) \/ iderw_wait(p)
         \/ drive_done \/ ideintr \/ UNCHANGED vars
  BY DEF Next, step, release, disk_step, Finished

\* What bget_hit and bget_recycle do when they do not panic.
LEMMA Found ==
  ASSUME Types, PlaceInv, NEW p \in Procs, bget_hit(p)
  PROVE  \E b \in Bufs :
           /\ blockno[b] = want[p] /\ want[p] \in Blocks
           /\ refcnt' = [refcnt EXCEPT ![b] = @ + 1]
           /\ arg' = [arg EXCEPT ![p] = b]
  BY DEF bget_hit, Cached, PlaceInv

LEMMA NotFound ==
  ASSUME Types, PlaceInv, NEW p \in Procs, bget_recycle(p), pc'[p] # "panic"
  PROVE  \E b \in Bufs :
           /\ refcnt[b] = 0 /\ ~ dirty[b]
           /\ want[p] \in Blocks /\ \A c \in Bufs : blockno[c] # want[p]
           /\ Recycled(b, want[p])
           /\ arg' = [arg EXCEPT ![p] = b]
           /\ pc' = [pc EXCEPT ![p] = "acquiresleep"]
<1>1. Unused # {}
  BY DEF bget_recycle, Panic, Goto, Types, ProcTypes
<1>2. PICK i \in Unused : Recycled(lru[i], want[p]) /\ arg' = [arg EXCEPT ![p] = lru[i]]
                          /\ Goto(p, "acquiresleep")
  BY <1>1 DEF bget_recycle
<1>3. lru[i] \in Bufs /\ refcnt[lru[i]] = 0 /\ ~ dirty[lru[i]]
  BY DEF Unused, Types, BufTypes
<1>4. want[p] \in Blocks /\ \A c \in Bufs : blockno[c] # want[p]
  BY DEF bget_recycle, Missed, Cached, PlaceInv
<1> QED
  BY <1>2, <1>3, <1>4 DEF Goto

\* bget's panic.
LEMMA NoBuffer ==
  ASSUME Types, NEW p \in Procs, bget_recycle(p), pc'[p] = "panic"
  PROVE  /\ pc' = [pc EXCEPT ![p] = "panic"]
         /\ UNCHANGED <<bufVars, ideVars, spinVars, arg, chan, want, held, calls>>
<1>1. Unused = {}
  BY DEF bget_recycle, Goto, Types, ProcTypes
<1> QED
  BY <1>1 DEF bget_recycle, Panic, Goto, bufVars, blockVars, lockVars

\* Every step of the cache keeps its variables in their types.
LEMMA BufTypesStep ==
  ASSUME Types, PlaceInv, LockInv, BlockInv, RefcntRight, QueueInv, DriveInv, [Next]_vars
  PROVE  BufTypes'
<1> USE DEF Types, BufTypes, bufVars, blockVars, lockVars, procVars
<1>1. ASSUME NEW p \in Procs, NEW b \in Bufs, log_write(p, b) \/ bwrite(p, b) PROVE BufTypes'
  <2>1. data[b] \cup {p} \in Data
    BY DEF Data
  <2> QED
    BY <1>1, <2>1 DEF log_write, bwrite
<1>2. ASSUME NEW p \in Procs, NEW b \in Bufs, releasesleep(p, b) PROVE BufTypes'
  BY <1>2 DEF releasesleep
<1>3. ASSUME NEW p \in Procs, bget_hit(p) PROVE BufTypes'
  <2>1. PICK b \in Bufs : refcnt' = [refcnt EXCEPT ![b] = @ + 1]
    BY <1>3, Found
  <2> QED
    BY <1>3, <2>1 DEF bget_hit
<1>4. ASSUME NEW p \in Procs, bget_recycle(p) PROVE BufTypes'
  <2>1. CASE pc'[p] = "panic"
    BY <1>4, <2>1, NoBuffer
  <2>2. CASE pc'[p] # "panic"
    <3>1. PICK b \in Bufs : want[p] \in Blocks /\ Recycled(b, want[p])
      BY <1>4, <2>2, NotFound
    <3>2. UNCHANGED <<data, locked, pid, lru>>
      BY <1>4 DEF bget_recycle
    <3> QED
      BY <3>1, <3>2 DEF Recycled
  <2> QED
    BY <2>1, <2>2
<1>5. ASSUME NEW p \in Procs, acquiresleep(p) PROVE BufTypes'
  BY <1>5 DEF acquiresleep, PlaceInv
<1>6. ASSUME NEW p \in Procs, brelse(p) PROVE BufTypes'
  <2>1. arg[p] \in Bufs /\ p \in Waiters(arg[p])
    BY <1>6 DEF brelse, PlaceInv, Waiters
  <2>2. refcnt[arg[p]] > 0
    BY <2>1, InUse
  <2>3. Dropped(arg[p]) \in Nat
    BY <2>1, <2>2 DEF Dropped
  <2>4. MovedToFront(arg[p]) \in [Bufs -> Bufs]
    <3>1. ASSUME NEW i \in Bufs, i # 1 PROVE i - 1 \in Bufs
      BY <3>1, CacheAssumption DEF Bufs
    <3>2. lru \in [Bufs -> Bufs]
      OBVIOUS
    <3> QED
      BY <2>1, <3>1, <3>2 DEF MovedToFront
  <2> QED
    BY <1>6, <2>1, <2>3, <2>4 DEF brelse
<1>7. CASE ideintr
  <2> DEFINE b == Head(idequeue)
  <2>1. drive # Nobody
    BY <1>7 DEF ideintr, DriveInv
  <2>2. b \in Bufs /\ disk[blockno[b]] \in Data
    BY <2>1, First DEF DiskTypes
  <2> QED
    BY <1>7, <2>2 DEF ideintr
<1>8. ASSUME NEW p \in Procs, \/ \E n \in Blocks : call_bread(p, n)
                              \/ sleep(p) \/ acquiresleep_sleep(p) \/ iderw(p) \/ iderw_wait(p)
      PROVE  BufTypes'
  <2>1. UNCHANGED bufVars
    BY <1>8 DEF call_bread, sleep, acquiresleep_sleep, iderw, iderw_wait
  <2> QED
    BY <2>1
<1>9. CASE drive_done \/ UNCHANGED vars
  BY <1>9 DEF drive_done, vars
<1> QED
  BY Actions, <1>1, <1>2, <1>3, <1>4, <1>5, <1>6, <1>7, <1>8, <1>9

\* The processes' variables, step by step.
LEMMA ProcTypesStep ==
  ASSUME Types, PlaceInv, [Next]_vars
  PROVE  ProcTypes'
<1> USE DEF Types, ProcTypes, Goto, Panic, Return, spinVars, procVars
<1>1. ASSUME NEW p \in Procs, NEW n \in Blocks, call_bread(p, n) PROVE ProcTypes'
  BY <1>1 DEF call_bread
<1>2. ASSUME NEW p \in Procs, NEW b \in Bufs, log_write(p, b) \/ bwrite(p, b) PROVE ProcTypes'
  BY <1>2 DEF log_write, bwrite
<1>3. ASSUME NEW p \in Procs, NEW b \in Bufs, releasesleep(p, b) PROVE ProcTypes'
  BY <1>3, ResumedLock DEF releasesleep
<1>4. ASSUME NEW p \in Procs, sleep(p) PROVE ProcTypes'
  BY <1>4 DEF sleep, PlaceInv
<1>5. ASSUME NEW p \in Procs, bget_hit(p) PROVE ProcTypes'
  <2>1. PICK b \in Bufs : arg' = [arg EXCEPT ![p] = b]
    BY <1>5, Found
  <2> QED
    BY <1>5, <2>1 DEF bget_hit
<1>6. ASSUME NEW p \in Procs, bget_recycle(p) PROVE ProcTypes'
  <2>1. CASE pc'[p] = "panic"
    BY <1>6, <2>1, NoBuffer
  <2>2. CASE pc'[p] # "panic"
    <3>1. PICK b \in Bufs : arg' = [arg EXCEPT ![p] = b] /\ pc' = [pc EXCEPT ![p] = "acquiresleep"]
      BY <1>6, <2>2, NotFound
    <3> QED
      BY <1>6, <3>1 DEF bget_recycle
  <2> QED
    BY <2>1, <2>2
<1>7. ASSUME NEW p \in Procs, acquiresleep_sleep(p) PROVE ProcTypes'
  BY <1>7 DEF acquiresleep_sleep, PlaceInv
<1>8. ASSUME NEW p \in Procs, acquiresleep(p) PROVE ProcTypes'
  BY <1>8 DEF acquiresleep, PlaceInv, NoBlock
<1>9. ASSUME NEW p \in Procs, brelse(p) PROVE ProcTypes'
  BY <1>9 DEF brelse
<1>10. ASSUME NEW p \in Procs, iderw(p) \/ iderw_wait(p) PROVE ProcTypes'
  BY <1>10 DEF iderw, iderw_wait
<1>11. CASE drive_done \/ UNCHANGED vars
  BY <1>11 DEF drive_done, vars
<1>12. CASE ideintr
  BY <1>12, ResumedRequest DEF ideintr
<1> QED
  BY Actions, <1>1, <1>2, <1>3, <1>4, <1>5, <1>6, <1>7, <1>8, <1>9, <1>10, <1>11, <1>12

\* The disk's variables, step by step.
LEMMA DiskTypesStep ==
  ASSUME Types, PlaceInv, LockInv, BlockInv, RefcntRight, QueueInv, DriveInv, [Next]_vars
  PROVE  DiskTypes' /\ DriveType' /\ ChanType'
<1> DEFINE Commands == [buf : Bufs, write : BOOLEAN, data : Data]
<1>0. ASSUME NEW b \in Bufs PROVE Command(b) \in Commands
  BY DEF Command, Types, BufTypes
<1> USE DEF Types, DiskTypes, DriveType, ChanType, ideVars, procVars
<1>1. ASSUME NEW p \in Procs,
             \/ \E n \in Blocks : call_bread(p, n)
             \/ \E b \in Bufs : log_write(p, b) \/ bwrite(p, b) \/ releasesleep(p, b)
             \/ sleep(p) \/ bget_hit(p) \/ bget_recycle(p) \/ brelse(p)
      PROVE  DiskTypes' /\ DriveType' /\ ChanType'
  <2>1. UNCHANGED <<ideVars, chan>>
    BY <1>1 DEF call_bread, log_write, bwrite, releasesleep, sleep, bget_hit, bget_recycle, brelse
  <2> QED
    BY <2>1
<1>2. ASSUME NEW p \in Procs, acquiresleep_sleep(p) \/ acquiresleep(p)
      PROVE  DiskTypes' /\ DriveType' /\ ChanType'
  BY <1>2 DEF acquiresleep_sleep, acquiresleep, LockOf, PlaceInv
<1>3. ASSUME NEW p \in Procs, iderw(p) PROVE DiskTypes' /\ DriveType' /\ ChanType'
  <2>1. arg[p] \in Bufs
    BY <1>3 DEF iderw, PlaceInv
  <2>2. Command(arg[p]) \in Commands
    BY <2>1, <1>0
  <2>3. DiskTypes'
    BY <1>3, <2>1 DEF iderw
  <2>4. DriveType'
    BY <1>3, <2>2 DEF iderw
  <2>5. ChanType'
    BY <1>3, <2>1 DEF iderw, Request
  <2> QED
    BY <2>3, <2>4, <2>5
<1>4. ASSUME NEW p \in Procs, iderw_wait(p) PROVE DiskTypes' /\ DriveType' /\ ChanType'
  BY <1>4 DEF iderw_wait
<1>5. CASE drive_done
  <2>1. drive # Nobody /\ drive \in Commands
    BY <1>5 DEF drive_done
  <2>2. disk' \in [Blocks -> Data]
    BY <1>5, <2>1 DEF drive_done
  <2> QED
    BY <1>5, <2>2 DEF drive_done
<1>6. CASE ideintr
  <2> DEFINE q == Tail(idequeue)
  <2>1. drive # Nobody
    BY <1>6 DEF ideintr, DriveInv
  <2>2. q \in Seq(Bufs)
    BY <2>1, First
  <2>3. DriveType'
    <3>1. CASE q = <<>>
      BY <1>6, <3>1 DEF ideintr, Next_command
    <3>2. CASE q # <<>>
      <4>1. Head(q) \in Bufs
        BY <2>2, <3>2
      <4> QED
        BY <1>6, <3>2, <4>1, <1>0 DEF ideintr, Next_command
    <3> QED
      BY <3>1, <3>2
  <2>4. DiskTypes'
    BY <1>6, <2>2 DEF ideintr
  <2>5. ChanType'
    BY <1>6 DEF ideintr
  <2> QED
    BY <2>3, <2>4, <2>5
<1>7. CASE UNCHANGED vars
  BY <1>7 DEF vars
<1> QED
  BY Actions, <1>1, <1>2, <1>3, <1>4, <1>5, <1>6, <1>7

\* A step keeps what PlaceInv says of where each process is.
LEMMA PlaceStep ==
  ASSUME Types, PlaceInv, [Next]_vars
  PROVE  PlaceInv'
<1> USE DEF Types, ProcTypes, PlaceInv, Goto, Panic, Return
<1>1. ASSUME NEW p \in Procs, NEW n \in Blocks, call_bread(p, n) PROVE PlaceInv'
  BY <1>1 DEF call_bread
<1>2. ASSUME NEW p \in Procs, NEW b \in Bufs, log_write(p, b) \/ bwrite(p, b) PROVE PlaceInv'
  BY <1>2 DEF log_write, bwrite, procVars
<1>3. ASSUME NEW p \in Procs, NEW b \in Bufs, releasesleep(p, b) PROVE PlaceInv'
  <2>1. CASE pc' = [pc EXCEPT ![p] = "panic"] /\ UNCHANGED <<arg, chan, want>>
    BY <2>1
  <2>2. CASE /\ pc' = [Resumed(LockOf(b)) EXCEPT ![p] = "brelse"]
             /\ arg' = [arg EXCEPT ![p] = b] /\ UNCHANGED <<chan, want>>
    BY <1>3, <2>2, ResumedLock DEF releasesleep
  <2> QED
    BY <1>3, <2>1, <2>2 DEF releasesleep
<1>4. ASSUME NEW p \in Procs, sleep(p) PROVE PlaceInv'
  BY <1>4 DEF sleep
<1>5. ASSUME NEW p \in Procs, bget_hit(p) PROVE PlaceInv'
  <2>1. PICK b \in Bufs : arg' = [arg EXCEPT ![p] = b]
    BY <1>5, Found
  <2> QED
    BY <1>5, <2>1 DEF bget_hit
<1>6. ASSUME NEW p \in Procs, bget_recycle(p) PROVE PlaceInv'
  <2>1. CASE pc'[p] = "panic"
    BY <1>6, <2>1, NoBuffer
  <2>2. CASE pc'[p] # "panic"
    <3>1. PICK b \in Bufs : arg' = [arg EXCEPT ![p] = b] /\ pc' = [pc EXCEPT ![p] = "acquiresleep"]
      BY <1>6, <2>2, NotFound
    <3> QED
      BY <1>6, <3>1 DEF bget_recycle
  <2> QED
    BY <2>1, <2>2
<1>7. ASSUME NEW p \in Procs, acquiresleep_sleep(p) PROVE PlaceInv'
  BY <1>7 DEF acquiresleep_sleep, ChanType
<1>8. ASSUME NEW p \in Procs, acquiresleep(p) PROVE PlaceInv'
  BY <1>8 DEF acquiresleep
<1>9. ASSUME NEW p \in Procs, brelse(p) PROVE PlaceInv'
  BY <1>9 DEF brelse
<1>10. ASSUME NEW p \in Procs, iderw(p) \/ iderw_wait(p) PROVE PlaceInv'
  BY <1>10 DEF iderw, iderw_wait, ChanType
<1>11. CASE drive_done \/ UNCHANGED vars
  BY <1>11 DEF drive_done, vars, procVars
<1>12. CASE ideintr
  BY <1>12, ResumedRequest, ChannelsDiffer DEF ideintr
<1> QED
  BY Actions, <1>1, <1>2, <1>3, <1>4, <1>5, <1>6, <1>7, <1>8, <1>9, <1>10, <1>11, <1>12

\* A step keeps held, locked and pid in agreement.
LEMMA LockStep ==
  ASSUME Types, PlaceInv, LockInv, [Next]_vars
  PROVE  LockInv'
<1> USE DEF Types, BufTypes, ProcTypes, LockInv
<1>1. ASSUME NEW p \in Procs, NEW b \in Bufs, releasesleep(p, b) PROVE LockInv'
  <2>1. CASE UNCHANGED <<held, locked, pid>>
    BY <2>1
  <2>2. CASE /\ locked' = [locked EXCEPT ![b] = FALSE] /\ pid' = [pid EXCEPT ![b] = Nobody]
             /\ held' = [held EXCEPT ![p] = @ \ {b}]
    <3>1. locked[b] /\ pid[b] = p
      BY <1>1 DEF releasesleep
    <3>2. ASSUME NEW q \in Procs, NEW c \in held'[q] PROVE locked'[c] /\ pid'[c] = q
      <4>1. c \in held[q] /\ locked[c] /\ pid[c] = q /\ c \in Bufs
        BY <2>2, <3>2
      <4>2. c # b
        BY <2>2, <3>1, <3>2, <4>1
      <4> QED
        BY <2>2, <4>1, <4>2
    <3>3. ASSUME NEW c \in Bufs, locked'[c] PROVE pid'[c] \in Procs /\ c \in held'[pid'[c]]
      BY <2>2, <3>3
    <3> QED
      BY <3>2, <3>3
  <2> QED
    BY <1>1, <2>1, <2>2 DEF releasesleep, lockVars
<1>2. ASSUME NEW p \in Procs, acquiresleep(p) PROVE LockInv'
  <2>1. arg[p] \in Bufs /\ ~ locked[arg[p]]
    BY <1>2 DEF acquiresleep, PlaceInv
  <2> QED
    BY <1>2, <2>1 DEF acquiresleep
<1>3. ASSUME NEW p \in Procs,
             \/ \E n \in Blocks : call_bread(p, n)
             \/ \E b \in Bufs : log_write(p, b) \/ bwrite(p, b)
             \/ sleep(p) \/ bget_hit(p) \/ bget_recycle(p)
             \/ acquiresleep_sleep(p) \/ brelse(p) \/ iderw(p) \/ iderw_wait(p)
      PROVE  LockInv'
  <2>1. UNCHANGED <<held, locked, pid>>
    BY <1>3 DEF call_bread, log_write, bwrite, sleep, bget_hit, bget_recycle, acquiresleep_sleep,
                brelse, iderw, iderw_wait, bufVars, lockVars, procVars
  <2> QED
    BY <2>1
<1>4. CASE drive_done \/ ideintr \/ UNCHANGED vars
  <2>1. UNCHANGED <<held, locked, pid>>
    BY <1>4 DEF drive_done, ideintr, vars, bufVars, lockVars, procVars
  <2> QED
    BY <2>1
<1> QED
  BY Actions, <1>1, <1>2, <1>3, <1>4

\* A step gives a block no second buffer.
LEMMA BlockStep ==
  ASSUME Types, PlaceInv, BlockInv, RefcntRight, [Next]_vars
  PROVE  BlockInv'
<1> USE DEF Types, BufTypes, BlockInv
<1>1. ASSUME NEW p \in Procs, bget_hit(p) PROVE BlockInv'
  <2>1. PICK b \in Bufs : /\ blockno[b] = want[p] /\ want[p] \in Blocks
                          /\ refcnt' = [refcnt EXCEPT ![b] = @ + 1]
    BY <1>1, Found
  <2> QED
    BY <1>1, <2>1 DEF bget_hit, blockVars
<1>2. ASSUME NEW p \in Procs, bget_recycle(p) PROVE BlockInv'
  <2>1. CASE pc'[p] = "panic"
    BY <1>2, <2>1, NoBuffer DEF bufVars, blockVars
  <2>2. CASE pc'[p] # "panic"
    <3>1. PICK b \in Bufs : /\ want[p] \in Blocks /\ \A c \in Bufs : blockno[c] # want[p]
                            /\ Recycled(b, want[p])
      BY <1>2, <2>2, NotFound
    <3> QED
      BY <3>1 DEF Recycled
  <2> QED
    BY <2>1, <2>2
<1>3. ASSUME NEW p \in Procs, brelse(p) PROVE BlockInv'
  <2>1. arg[p] \in Bufs /\ p \in Waiters(arg[p])
    BY <1>3 DEF brelse, PlaceInv, Waiters
  <2>2. refcnt[arg[p]] > 0 /\ blockno[arg[p]] \in Blocks
    BY <2>1, InUse
  <2> QED
    BY <1>3, <2>1, <2>2 DEF brelse, blockVars
<1>4. ASSUME NEW p \in Procs,
             \/ \E n \in Blocks : call_bread(p, n)
             \/ \E b \in Bufs : log_write(p, b) \/ bwrite(p, b) \/ releasesleep(p, b)
             \/ sleep(p) \/ acquiresleep_sleep(p) \/ acquiresleep(p) \/ iderw(p) \/ iderw_wait(p)
      PROVE  BlockInv'
  <2>1. UNCHANGED <<blockno, refcnt>>
    BY <1>4 DEF call_bread, log_write, bwrite, releasesleep, sleep, acquiresleep_sleep,
                acquiresleep, iderw, iderw_wait, bufVars, blockVars
  <2> QED
    BY <2>1
<1>5. CASE drive_done \/ ideintr \/ UNCHANGED vars
  <2>1. UNCHANGED <<blockno, refcnt>>
    BY <1>5 DEF drive_done, ideintr, vars, bufVars, blockVars
  <2> QED
    BY <2>1
<1> QED
  BY Actions, <1>1, <1>2, <1>3, <1>4, <1>5

\* A step that moves no reference.
LEMMA RefcntKept ==
  ASSUME RefcntRight, UNCHANGED refcnt,
         \A b \in Bufs : Holders(b)' = Holders(b) /\ Waiters(b)' = Waiters(b)
  PROVE  RefcntRight'
  BY DEF RefcntRight

\* A step keeps the counts right.
LEMMA RefcntStep ==
  ASSUME Types, PlaceInv, LockInv, BlockInv, RefcntRight, [Next]_vars
  PROVE  RefcntRight'
<1> USE DEF Types, ProcTypes, Goto, Panic, Return
<1>1. ASSUME NEW p \in Procs,
             \/ \E n \in Blocks : call_bread(p, n)
             \/ \E b \in Bufs : log_write(p, b) \/ bwrite(p, b)
             \/ sleep(p) \/ acquiresleep_sleep(p) \/ iderw(p) \/ iderw_wait(p)
      PROVE  RefcntRight'
  <2>1. UNCHANGED <<refcnt, held>>
    BY <1>1 DEF call_bread, log_write, bwrite, sleep, acquiresleep_sleep, iderw, iderw_wait,
                bufVars, procVars
  <2>2. ASSUME NEW b \in Bufs PROVE Holders(b)' = Holders(b)
    BY <2>1 DEF Holders
  <2>3. ASSUME NEW b \in Bufs PROVE Waiters(b)' = Waiters(b)
    <3>1. CASE \E n \in Blocks : call_bread(p, n)
      BY <3>1 DEF call_bread, Waiters
    <3>2. CASE \E c \in Bufs : log_write(p, c) \/ bwrite(p, c)
      BY <3>2 DEF log_write, bwrite, Waiters, procVars
    <3>3. CASE sleep(p) \/ acquiresleep_sleep(p)
      BY <3>3, ChannelsDiffer DEF sleep, acquiresleep_sleep, Waiters, ChanType
    <3>4. CASE iderw(p)
      <4>1. Request(arg[p]) # LockOf(b)
        BY ChannelsDiffer
      <4> QED
        BY <3>4, <4>1 DEF iderw, Waiters, ChanType
    <3>5. CASE iderw_wait(p)
      <4>1. chan[p] # LockOf(b)
        BY <3>5, ChannelsDiffer DEF iderw_wait, PlaceInv
      <4> QED
        BY <3>5, <4>1 DEF iderw_wait, Waiters, ChanType
    <3> QED
      BY <1>1, <3>1, <3>2, <3>3, <3>4, <3>5
  <2> QED
    BY <2>1, <2>2, <2>3, RefcntKept
<1>2. ASSUME NEW p \in Procs, bget_hit(p) PROVE RefcntRight'
  <2>1. PICK c \in Bufs : /\ refcnt' = [refcnt EXCEPT ![c] = @ + 1]
                          /\ arg' = [arg EXCEPT ![p] = c]
    BY <1>2, Found
  <2>2. pc[p] = "bget" /\ pc' = [pc EXCEPT ![p] = "acquiresleep"] /\ UNCHANGED <<held, chan>>
    BY <1>2 DEF bget_hit
  <2>3. arg[p] = Nobody
    BY <2>2 DEF PlaceInv
  <2>4. ASSUME NEW b \in Bufs
        PROVE  refcnt'[b] = Cardinality(Holders(b)') + Cardinality(Waiters(b)')
    <3>1. Holders(b)' = Holders(b)
      BY <2>2 DEF Holders
    <3>2. CASE b = c
      <4>1. Waiters(b)' = Waiters(b) \cup {p} /\ p \notin Waiters(b)
        BY <2>1, <2>2, <3>2 DEF Waiters
      <4>2. Cardinality(Waiters(b)') = Cardinality(Waiters(b)) + 1
        BY <4>1, CountsFinite, FS_AddElement
      <4> QED
        BY <2>1, <3>1, <3>2, <4>2, CountsFinite DEF RefcntRight, BufTypes
    <3>3. CASE b # c
      <4>1. Waiters(b)' = Waiters(b)
        BY <2>1, <2>2, <2>3, <3>3 DEF Waiters
      <4> QED
        BY <2>1, <3>1, <3>3, <4>1 DEF RefcntRight, BufTypes
    <3> QED
      BY <3>2, <3>3
  <2> QED
    BY <2>4 DEF RefcntRight
<1>3. ASSUME NEW p \in Procs, bget_recycle(p) PROVE RefcntRight'
  <2>1. CASE pc'[p] = "panic"
    <3>1. /\ pc[p] = "bget" /\ pc' = [pc EXCEPT ![p] = "panic"]
          /\ UNCHANGED <<refcnt, arg, chan, held>>
      BY <1>3, <2>1, NoBuffer DEF bget_recycle, bufVars
    <3> QED
      BY <3>1, RefcntKept DEF Holders, Waiters
  <2>2. CASE pc'[p] # "panic"
    <3>1. PICK c \in Bufs : /\ refcnt[c] = 0 /\ Recycled(c, want[p])
                            /\ arg' = [arg EXCEPT ![p] = c]
                            /\ pc' = [pc EXCEPT ![p] = "acquiresleep"]
      BY <1>3, <2>2, NotFound
    <3>2. pc[p] = "bget" /\ UNCHANGED <<held, chan>>
      BY <1>3 DEF bget_recycle
    <3>3. arg[p] = Nobody
      BY <3>2 DEF PlaceInv
    <3>4. ASSUME NEW b \in Bufs
          PROVE  refcnt'[b] = Cardinality(Holders(b)') + Cardinality(Waiters(b)')
      <4>1. Holders(b)' = Holders(b)
        BY <3>2 DEF Holders
      <4>2. CASE b = c
        <5>1. Holders(b) = {} /\ Waiters(b) = {}
          BY <3>1, <4>2, Idle
        <5>2. Waiters(b)' = {p}
          BY <3>1, <3>2, <4>2, <5>1 DEF Waiters
        <5>3. Cardinality(Holders(b)') = 0 /\ Cardinality(Waiters(b)') = 1
          BY <4>1, <5>1, <5>2, FS_EmptySet, FS_Singleton
        <5> QED
          BY <3>1, <4>2, <5>3 DEF Recycled, BufTypes
      <4>3. CASE b # c
        <5>1. Waiters(b)' = Waiters(b)
          BY <3>1, <3>2, <3>3, <4>3 DEF Waiters
        <5> QED
          BY <3>1, <4>1, <4>3, <5>1 DEF Recycled, RefcntRight, BufTypes
      <4> QED
        BY <4>2, <4>3
    <3> QED
      BY <3>4 DEF RefcntRight
  <2> QED
    BY <2>1, <2>2
<1>4. ASSUME NEW p \in Procs, acquiresleep(p) PROVE RefcntRight'
  <2> DEFINE c == arg[p]
  <2>1. c \in Bufs /\ ~ locked[c] /\ pc[p] = "acquiresleep"
    BY <1>4 DEF acquiresleep, PlaceInv
  <2>2. /\ held' = [held EXCEPT ![p] = @ \cup {c}] /\ UNCHANGED refcnt
        /\ chan' = [chan EXCEPT ![p] = NoChan]
        /\ \/ pc' = [pc EXCEPT ![p] = "run"] /\ arg' = [arg EXCEPT ![p] = Nobody]
           \/ pc' = [pc EXCEPT ![p] = "iderw"] /\ UNCHANGED arg
    BY <1>4 DEF acquiresleep
  <2>3. ASSUME NEW b \in Bufs
        PROVE  refcnt'[b] = Cardinality(Holders(b)') + Cardinality(Waiters(b)')
    <3>1. CASE b = c
      <4>1. Holders(b)' = Holders(b) \cup {p} /\ p \notin Holders(b)
        BY <2>1, <2>2, <3>1 DEF Holders, LockInv
      <4>2. Waiters(b)' = Waiters(b) \ {p} /\ p \in Waiters(b)
        BY <2>1, <2>2, <3>1 DEF Waiters
      <4>3. Cardinality(Holders(b)') = Cardinality(Holders(b)) + 1
        BY <4>1, CountsFinite, FS_AddElement
      <4>4. Cardinality(Waiters(b)') = Cardinality(Waiters(b)) - 1
        BY <4>2, CountsFinite, FS_RemoveElement
      <4> QED
        BY <2>2, <4>3, <4>4, CountsFinite DEF RefcntRight
    <3>2. CASE b # c
      <4>1. Holders(b)' = Holders(b)
        BY <2>2, <3>2 DEF Holders
      <4>2. Waiters(b)' = Waiters(b)
        BY <2>1, <2>2, <3>2 DEF Waiters
      <4> QED
        BY <2>2, <4>1, <4>2 DEF RefcntRight
    <3> QED
      BY <3>1, <3>2
  <2> QED
    BY <2>3 DEF RefcntRight
<1>5. ASSUME NEW p \in Procs, NEW c \in Bufs, releasesleep(p, c) PROVE RefcntRight'
  <2>1. CASE /\ pc[p] = "run" /\ pc' = [pc EXCEPT ![p] = "panic"]
             /\ UNCHANGED <<refcnt, arg, chan, held>>
    BY <2>1, RefcntKept DEF Holders, Waiters
  <2>2. CASE /\ pc' = [Resumed(LockOf(c)) EXCEPT ![p] = "brelse"]
             /\ arg' = [arg EXCEPT ![p] = c] /\ held' = [held EXCEPT ![p] = @ \ {c}]
    <3>1. pc[p] = "run" /\ c \in held[p] /\ UNCHANGED <<refcnt, chan>>
      BY <1>5 DEF releasesleep
    <3>2. arg[p] = Nobody
      BY <3>1 DEF PlaceInv
    <3>3. ASSUME NEW q \in Procs, q # p
          PROVE  /\ pc'[q] = IF pc[q] = "asleep" /\ chan[q] = LockOf(c) THEN "acquiresleep" ELSE pc[q]
                 /\ arg'[q] = arg[q] /\ chan'[q] = chan[q]
      BY <2>2, <3>1, <3>3, ResumedLock
    <3>4. pc'[p] = "brelse" /\ arg'[p] = c
      BY <2>2, ResumedLock
    <3>5. ASSUME NEW b \in Bufs, NEW q \in Procs, q # p
          PROVE  q \in Waiters(b)' <=> q \in Waiters(b)
      <4>1. CASE pc[q] = "asleep" /\ chan[q] = LockOf(c)
        <5>1. arg[q] = c
          BY <4>1, ChannelsDiffer DEF PlaceInv
        <5> QED
          BY <3>3, <3>5, <4>1, <5>1 DEF Waiters
      <4>2. CASE ~ (pc[q] = "asleep" /\ chan[q] = LockOf(c))
        BY <3>3, <3>5, <4>2 DEF Waiters
      <4> QED
        BY <4>1, <4>2
    <3>6. ASSUME NEW b \in Bufs
          PROVE  refcnt'[b] = Cardinality(Holders(b)') + Cardinality(Waiters(b)')
      <4>1. p \notin Waiters(b)
        BY <3>1 DEF Waiters
      <4>2. CASE b = c
        <5>1. Holders(b)' = Holders(b) \ {p} /\ p \in Holders(b)
          BY <2>2, <3>1, <4>2 DEF Holders
        <5>2. Waiters(b)' = Waiters(b) \cup {p}
          <6>1. p \in Waiters(b)'
            BY <3>4, <4>2 DEF Waiters
          <6>2. \A q \in Procs : q # p => (q \in Waiters(b)' <=> q \in Waiters(b))
            BY <3>5
          <6>3. Waiters(b) \subseteq Procs /\ Waiters(b)' \subseteq Procs
            BY DEF Waiters
          <6> QED
            BY <6>1, <6>2, <6>3
        <5>3. Cardinality(Holders(b)') = Cardinality(Holders(b)) - 1
          BY <5>1, CountsFinite, FS_RemoveElement
        <5>4. Cardinality(Waiters(b)') = Cardinality(Waiters(b)) + 1
          BY <4>1, <5>2, CountsFinite, FS_AddElement
        <5> QED
          BY <3>1, <5>3, <5>4, CountsFinite DEF RefcntRight
      <4>3. CASE b # c
        <5>1. Holders(b)' = Holders(b)
          BY <2>2, <4>3 DEF Holders
        <5>2. Waiters(b)' = Waiters(b)
          <6>1. p \notin Waiters(b)'
            BY <3>4, <4>3 DEF Waiters
          <6>2. \A q \in Procs : q # p => (q \in Waiters(b)' <=> q \in Waiters(b))
            BY <3>5
          <6>3. Waiters(b) \subseteq Procs /\ Waiters(b)' \subseteq Procs
            BY DEF Waiters
          <6>4. Waiters(b)' \subseteq Waiters(b)
            BY <6>1, <6>2, <6>3
          <6>5. Waiters(b) \subseteq Waiters(b)'
            BY <6>2, <6>3, <4>1
          <6> QED
            BY <6>4, <6>5
        <5> QED
          BY <3>1, <5>1, <5>2 DEF RefcntRight
      <4> QED
        BY <4>2, <4>3
    <3> QED
      BY <3>6 DEF RefcntRight
  <2> QED
    BY <1>5, <2>1, <2>2 DEF releasesleep
<1>6. ASSUME NEW p \in Procs, brelse(p) PROVE RefcntRight'
  <2> DEFINE c == arg[p]
  <2>1. c \in Bufs /\ pc[p] = "brelse"
    BY <1>6 DEF brelse, PlaceInv
  <2>2. /\ refcnt' = [refcnt EXCEPT ![c] = Dropped(c)] /\ UNCHANGED <<held, chan>>
        /\ pc' = [pc EXCEPT ![p] = "run"] /\ arg' = [arg EXCEPT ![p] = Nobody]
    BY <1>6 DEF brelse
  <2>3. ASSUME NEW b \in Bufs
        PROVE  refcnt'[b] = Cardinality(Holders(b)') + Cardinality(Waiters(b)')
    <3>1. Holders(b)' = Holders(b)
      BY <2>2 DEF Holders
    <3>2. CASE b = c
      <4>1. Waiters(b)' = Waiters(b) \ {p} /\ p \in Waiters(b)
        BY <2>1, <2>2, <3>2 DEF Waiters
      <4>2. Cardinality(Waiters(b)') = Cardinality(Waiters(b)) - 1
        BY <4>1, CountsFinite, FS_RemoveElement
      <4> QED
        BY <2>2, <3>1, <3>2, <4>2, CountsFinite DEF RefcntRight, BufTypes, Dropped
    <3>3. CASE b # c
      <4>1. Waiters(b)' = Waiters(b)
        BY <2>1, <2>2, <3>3 DEF Waiters
      <4> QED
        BY <2>2, <3>1, <3>3, <4>1 DEF RefcntRight, BufTypes
    <3> QED
      BY <3>2, <3>3
  <2> QED
    BY <2>3 DEF RefcntRight
<1>7. CASE drive_done \/ UNCHANGED vars
  <2>1. UNCHANGED <<refcnt, pc, arg, chan, held>>
    BY <1>7 DEF drive_done, vars, bufVars, procVars
  <2> QED
    BY <2>1, RefcntKept DEF Holders, Waiters
<1>8. CASE ideintr
  <2> DEFINE c == Head(idequeue)
  <2>1. UNCHANGED <<refcnt, arg, chan, held>>
    BY <1>8 DEF ideintr
  <2>2. pc' = [q \in Procs |-> IF pc[q] = "asleep" /\ chan[q] = Request(c) THEN "wait" ELSE pc[q]]
    BY <1>8, ResumedRequest DEF ideintr
  <2>3. ASSUME NEW b \in Bufs PROVE Holders(b)' = Holders(b) /\ Waiters(b)' = Waiters(b)
    <3>1. Request(c) # LockOf(b)
      BY ChannelsDiffer
    <3>2. ASSUME NEW q \in Procs PROVE q \in Waiters(b)' <=> q \in Waiters(b)
      BY <2>1, <2>2, <3>1 DEF Waiters
    <3>3. Waiters(b) \subseteq Procs /\ Waiters(b)' \subseteq Procs
      BY DEF Waiters
    <3> QED
      BY <2>1, <3>2, <3>3 DEF Holders
  <2> QED
    BY <2>1, <2>3, RefcntKept
<1> QED
  BY Actions, <1>1, <1>2, <1>3, <1>4, <1>5, <1>6, <1>7, <1>8

\* A step leaves nobody with an unread buffer and no request for it.
LEMMA ValidStep ==
  ASSUME Types, PlaceInv, LockInv, BlockInv, RefcntRight, ValidInv, QueueInv, DriveInv, [Next]_vars
  PROVE  ValidInv'
<1> USE DEF Types, ProcTypes, Goto, Panic, Return
<1>1. ASSUME NEW p \in Procs, NEW n \in Blocks, call_bread(p, n) PROVE ValidInv'
  BY <1>1 DEF call_bread, bufVars, blockVars, ValidInv, Requested
<1>2. ASSUME NEW p \in Procs, NEW b \in Bufs, log_write(p, b) \/ bwrite(p, b) PROVE ValidInv'
  BY <1>2 DEF log_write, bwrite, procVars, ValidInv, Requested
<1>3. ASSUME NEW p \in Procs, NEW b \in Bufs, releasesleep(p, b) PROVE ValidInv'
  <2>1. pc[p] = "run" /\ UNCHANGED <<valid, chan>>
    BY <1>3 DEF releasesleep, blockVars
  <2>2. CASE pc' = [pc EXCEPT ![p] = "panic"] /\ UNCHANGED <<arg, held>>
    BY <2>1, <2>2 DEF ValidInv, Requested
  <2>3. CASE /\ pc' = [Resumed(LockOf(b)) EXCEPT ![p] = "brelse"]
             /\ arg' = [arg EXCEPT ![p] = b] /\ held' = [held EXCEPT ![p] = @ \ {b}]
    <3>1. ASSUME NEW q \in Procs, q # p
          PROVE  /\ arg'[q] = arg[q] /\ chan'[q] = chan[q] /\ held'[q] = held[q]
                 /\ pc'[q] = IF pc[q] = "asleep" /\ chan[q] = LockOf(b) THEN "acquiresleep" ELSE pc[q]
      BY <2>1, <2>3, <3>1, ResumedLock
    <3>2. ASSUME NEW q \in Procs, NEW c \in held'[q]
          PROVE  valid'[c] \/ (arg'[q] = c /\ pc'[q] \in {"iderw", "panic"}) \/ Requested(q, c)'
      <4>1. c \in held[q]
        BY <2>3, <3>2
      <4>2. CASE q = p
        BY <2>1, <4>1, <4>2 DEF ValidInv, Requested
      <4>3. CASE q # p /\ valid[c]
        BY <2>1, <4>3
      <4>4. CASE q # p /\ arg[q] = c /\ pc[q] \in {"iderw", "panic"}
        BY <3>1, <4>4
      <4>5. CASE q # p /\ Requested(q, c)
        <5>1. chan[q] # LockOf(b)
          BY <4>5, ChannelsDiffer DEF Requested
        <5>2. Requested(q, c)'
          BY <3>1, <4>5, <5>1 DEF Requested
        <5> QED
          BY <5>2
      <4> QED
        BY <4>1, <4>2, <4>3, <4>4, <4>5 DEF ValidInv
    <3> QED
      BY <3>2 DEF ValidInv
  <2> QED
    BY <1>3, <2>2, <2>3 DEF releasesleep
<1>4. ASSUME NEW p \in Procs, sleep(p) PROVE ValidInv'
  BY <1>4 DEF sleep, bufVars, blockVars, ValidInv, Requested
<1>5. ASSUME NEW p \in Procs, bget_hit(p) PROVE ValidInv'
  <2>1. PICK b \in Bufs : arg' = [arg EXCEPT ![p] = b]
    BY <1>5, Found
  <2> QED
    BY <1>5, <2>1 DEF bget_hit, blockVars, ValidInv, Requested
<1>6. ASSUME NEW p \in Procs, bget_recycle(p) PROVE ValidInv'
  <2>1. CASE pc'[p] = "panic"
    <3>1. /\ pc[p] = "bget" /\ pc' = [pc EXCEPT ![p] = "panic"]
          /\ UNCHANGED <<valid, arg, chan, held>>
      BY <1>6, <2>1, NoBuffer DEF bget_recycle, bufVars, blockVars
    <3> QED
      BY <3>1 DEF ValidInv, Requested
  <2>2. CASE pc'[p] # "panic"
    <3>1. PICK b \in Bufs : /\ refcnt[b] = 0 /\ Recycled(b, want[p])
                            /\ arg' = [arg EXCEPT ![p] = b]
                            /\ pc' = [pc EXCEPT ![p] = "acquiresleep"]
      BY <1>6, <2>2, NotFound
    <3>2. pc[p] = "bget" /\ UNCHANGED <<held, chan>>
      BY <1>6 DEF bget_recycle
    <3>3. \A q \in Procs : b \notin held[q]
      BY <3>1, Idle DEF Holders
    <3> QED
      BY <3>1, <3>2, <3>3 DEF Recycled, ValidInv, Requested, BufTypes
  <2> QED
    BY <2>1, <2>2
<1>7. ASSUME NEW p \in Procs, acquiresleep_sleep(p) PROVE ValidInv'
  BY <1>7 DEF acquiresleep_sleep, bufVars, blockVars, ValidInv, Requested
<1>8. ASSUME NEW p \in Procs, acquiresleep(p) PROVE ValidInv'
  <2>1. /\ pc[p] = "acquiresleep" /\ UNCHANGED valid /\ chan' = [chan EXCEPT ![p] = NoChan]
        /\ held' = [held EXCEPT ![p] = @ \cup {arg[p]}]
        /\ IF valid[arg[p]]
           THEN pc' = [pc EXCEPT ![p] = "run"] /\ arg' = [arg EXCEPT ![p] = Nobody]
           ELSE pc' = [pc EXCEPT ![p] = "iderw"] /\ UNCHANGED arg
    BY <1>8 DEF acquiresleep, blockVars
  <2>2. arg[p] \in Bufs
    BY <2>1 DEF PlaceInv
  <2>3. \A c \in held[p] : valid[c]
    BY <2>1 DEF ValidInv, Requested
  <2>4. ASSUME NEW c \in held'[p] PROVE valid'[c] \/ (arg'[p] = c /\ pc'[p] = "iderw")
    BY <2>1, <2>2, <2>3, <2>4
  <2>5. ASSUME NEW q \in Procs, q # p
        PROVE  arg'[q] = arg[q] /\ chan'[q] = chan[q] /\ held'[q] = held[q] /\ pc'[q] = pc[q]
    BY <2>1, <2>5 DEF ChanType
  <2> QED
    BY <2>1, <2>4, <2>5 DEF ValidInv, Requested
<1>9. ASSUME NEW p \in Procs, brelse(p) PROVE ValidInv'
  BY <1>9 DEF brelse, blockVars, ValidInv, Requested
<1>10. ASSUME NEW p \in Procs, iderw(p) PROVE ValidInv'
  <2>1. pc[p] = "iderw" /\ UNCHANGED <<valid, arg, held>>
    BY <1>10 DEF iderw, bufVars, blockVars
  <2>2. \/ pc' = [pc EXCEPT ![p] = "panic"] /\ UNCHANGED chan
        \/ pc' = [pc EXCEPT ![p] = "sleep"] /\ chan' = [chan EXCEPT ![p] = Request(arg[p])]
    BY <1>10 DEF iderw
  <2> QED
    BY <2>1, <2>2 DEF ValidInv, Requested, ChanType
<1>11. ASSUME NEW p \in Procs, iderw_wait(p) PROVE ValidInv'
  <2>1. pc[p] = "wait" /\ UNCHANGED <<valid, held>>
    BY <1>11 DEF iderw_wait, bufVars, blockVars
  <2>2. \/ /\ valid[arg[p]] /\ pc' = [pc EXCEPT ![p] = "run"]
           /\ arg' = [arg EXCEPT ![p] = Nobody] /\ chan' = [chan EXCEPT ![p] = NoChan]
        \/ pc' = [pc EXCEPT ![p] = "sleep"] /\ UNCHANGED <<arg, chan>>
    BY <1>11 DEF iderw_wait, NothingToDo
  <2> QED
    BY <2>1, <2>2 DEF ValidInv, Requested, ChanType
<1>12. CASE drive_done \/ UNCHANGED vars
  BY <1>12 DEF drive_done, vars, bufVars, blockVars, procVars, ValidInv, Requested
<1>13. CASE ideintr
  <2> DEFINE b == Head(idequeue)
  <2>1. UNCHANGED <<arg, chan, held>> /\ valid' = [valid EXCEPT ![b] = TRUE]
    BY <1>13 DEF ideintr
  <2>2. pc' = [q \in Procs |-> IF pc[q] = "asleep" /\ chan[q] = Request(b) THEN "wait" ELSE pc[q]]
    BY <1>13, ResumedRequest DEF ideintr
  <2> QED
    BY <2>1, <2>2 DEF ValidInv, Requested, BufTypes
<1> QED
  BY Actions, <1>1, <1>2, <1>3, <1>4, <1>5, <1>6, <1>7, <1>8, <1>9, <1>10, <1>11, <1>12, <1>13

\* A process that is not at the disk has none of its buffers in the queue.
LEMMA NotQueued ==
  ASSUME Types, LockInv, QueueInv, NEW p \in Procs, NEW b \in Bufs, locked[b] /\ pid[b] = p,
         pc[p] \notin {"sleep", "asleep", "wait"}, NEW i \in DOMAIN idequeue
  PROVE  idequeue[i] # b
<1>1. SUFFICES ASSUME idequeue[i] = b PROVE FALSE
  OBVIOUS
<1>2. PICK q \in Procs : Requested(q, b)
  BY <1>1 DEF QueueInv
<1>3. q = p
  BY <1>2 DEF Requested, LockInv
<1> QED
  BY <1>2, <1>3 DEF Requested

\* A buffer without references is not in the queue.
LEMMA IdleNotQueued ==
  ASSUME Types, LockInv, RefcntRight, QueueInv, NEW b \in Bufs, refcnt[b] = 0, NEW i \in DOMAIN idequeue
  PROVE  idequeue[i] # b
<1>1. Holders(b) = {}
  BY Idle
<1> QED
  BY <1>1 DEF QueueInv, Requested, Holders

\* A request stays its process's while it is in the queue.
LEMMA RequestedStep ==
  ASSUME Types, PlaceInv, LockInv, QueueInv, [Next]_vars, NEW q \in Procs, NEW b \in Bufs,
         Requested(q, b), ~ NothingToDo(b)
  PROVE  Requested(q, b)'
<1> USE DEF Types, ProcTypes, ChanType, Goto, Panic, Return, Requested
<1>1. ASSUME NEW p \in Procs,
             \/ \E n \in Blocks : call_bread(p, n)
             \/ \E c \in Bufs : log_write(p, c) \/ bwrite(p, c)
             \/ acquiresleep_sleep(p) \/ acquiresleep(p)
      PROVE  Requested(q, b)'
  BY <1>1 DEF call_bread, log_write, bwrite, acquiresleep_sleep, acquiresleep, procVars
<1>2. ASSUME NEW p \in Procs, sleep(p) \/ brelse(p) \/ iderw(p) \/ iderw_wait(p)
      PROVE  Requested(q, b)'
  BY <1>2 DEF sleep, brelse, iderw, iderw_wait
<1>3. ASSUME NEW p \in Procs, NEW c \in Bufs, releasesleep(p, c) PROVE Requested(q, b)'
  <2>1. pc[p] = "run" /\ UNCHANGED chan
    BY <1>3 DEF releasesleep
  <2>2. CASE pc' = [pc EXCEPT ![p] = "panic"] /\ UNCHANGED <<arg, held>>
    BY <2>1, <2>2
  <2>3. CASE /\ pc' = [Resumed(LockOf(c)) EXCEPT ![p] = "brelse"]
             /\ arg' = [arg EXCEPT ![p] = c] /\ held' = [held EXCEPT ![p] = @ \ {c}]
    BY <2>1, <2>3, ResumedLock, ChannelsDiffer
  <2> QED
    BY <1>3, <2>2, <2>3 DEF releasesleep
<1>4. ASSUME NEW p \in Procs, bget_hit(p) PROVE Requested(q, b)'
  <2>1. PICK c \in Bufs : arg' = [arg EXCEPT ![p] = c]
    BY <1>4, Found
  <2> QED
    BY <1>4, <2>1 DEF bget_hit
<1>5. ASSUME NEW p \in Procs, bget_recycle(p) PROVE Requested(q, b)'
  <2>1. pc[p] = "bget" /\ UNCHANGED <<chan, held>>
    BY <1>5 DEF bget_recycle
  <2>2. CASE pc'[p] = "panic"
    BY <1>5, <2>1, <2>2, NoBuffer
  <2>3. CASE pc'[p] # "panic"
    <3>1. PICK c \in Bufs : arg' = [arg EXCEPT ![p] = c] /\ pc' = [pc EXCEPT ![p] = "acquiresleep"]
      BY <1>5, <2>3, NotFound
    <3> QED
      BY <2>1, <3>1
  <2> QED
    BY <2>2, <2>3
<1>6. CASE drive_done \/ UNCHANGED vars
  BY <1>6 DEF drive_done, vars, procVars
<1>7. CASE ideintr
  BY <1>7, ResumedRequest DEF ideintr
<1> QED
  BY Actions, <1>1, <1>2, <1>3, <1>4, <1>5, <1>6, <1>7

\* What is to be done for a buffer in the queue is done by the interrupt only.
LEMMA ToDoStep ==
  ASSUME Types, PlaceInv, [Next]_vars, ~ ideintr, NEW b \in Bufs, ~ NothingToDo(b)
  PROVE  ~ NothingToDo(b)'
<1> USE DEF Types, BufTypes, NothingToDo
<1>1. ASSUME NEW p \in Procs, NEW c \in Bufs, log_write(p, c) \/ bwrite(p, c)
      PROVE  ~ NothingToDo(b)'
  BY <1>1 DEF log_write, bwrite
<1>2. ASSUME NEW p \in Procs, bget_recycle(p) PROVE ~ NothingToDo(b)'
  <2>1. CASE pc'[p] = "panic"
    BY <1>2, <2>1, NoBuffer DEF bufVars, blockVars
  <2>2. CASE pc'[p] # "panic"
    <3>1. PICK c \in Bufs : ~ dirty[c] /\ Recycled(c, want[p])
      BY <1>2, <2>2, NotFound
    <3> QED
      BY <3>1 DEF Recycled
  <2> QED
    BY <2>1, <2>2
<1>3. ASSUME NEW p \in Procs,
             \/ \E n \in Blocks : call_bread(p, n)
             \/ \E c \in Bufs : releasesleep(p, c)
             \/ sleep(p) \/ bget_hit(p) \/ acquiresleep_sleep(p) \/ acquiresleep(p)
             \/ brelse(p) \/ iderw(p) \/ iderw_wait(p)
      PROVE  ~ NothingToDo(b)'
  <2>1. UNCHANGED <<valid, dirty>>
    BY <1>3 DEF call_bread, releasesleep, sleep, bget_hit, acquiresleep_sleep, acquiresleep,
                brelse, iderw, iderw_wait, bufVars, blockVars
  <2> QED
    BY <2>1
<1>4. CASE drive_done \/ UNCHANGED vars
  BY <1>4 DEF drive_done, vars, bufVars, blockVars
<1> QED
  BY Actions, <1>1, <1>2, <1>3, <1>4

\* The queue and the drive's command after a step.
LEMMA QueueChange ==
  ASSUME Types, PlaceInv, LockInv, [Next]_vars
  PROVE  \/ UNCHANGED <<idequeue, drive>> /\ ~ ideintr
         \/ /\ ideintr /\ idequeue' = Tail(idequeue)
            /\ drive' = Next_command(Tail(idequeue))
         \/ \E p \in Procs, b \in Bufs :
              /\ iderw(p) /\ ~ ideintr /\ pc[p] = "iderw" /\ locked[b] /\ pid[b] = p
              /\ idequeue' = Append(idequeue, b)
              /\ drive' = IF Starts THEN Command(b) ELSE drive
              /\ ~ NothingToDo(b) /\ Requested(p, b)'
<1>1. ASSUME NEW p \in Procs,
             \/ \E n \in Blocks : call_bread(p, n)
             \/ \E b \in Bufs : log_write(p, b) \/ bwrite(p, b) \/ releasesleep(p, b)
             \/ sleep(p) \/ bget_hit(p) \/ bget_recycle(p)
             \/ acquiresleep_sleep(p) \/ acquiresleep(p) \/ brelse(p) \/ iderw_wait(p)
      PROVE  UNCHANGED <<idequeue, drive>>
  BY <1>1 DEF call_bread, log_write, bwrite, releasesleep, sleep, bget_hit, bget_recycle,
              acquiresleep_sleep, acquiresleep, brelse, iderw_wait, ideVars
<1>2. ASSUME NEW p \in Procs, iderw(p), ~ UNCHANGED <<idequeue, drive>>
      PROVE  \E b \in Bufs : /\ pc[p] = "iderw" /\ locked[b] /\ pid[b] = p
                             /\ idequeue' = Append(idequeue, b)
                             /\ drive' = IF Starts THEN Command(b) ELSE drive
                             /\ ~ NothingToDo(b) /\ Requested(p, b)'
  <2>1. /\ pc[p] = "iderw" /\ holdingsleep(p, arg[p]) /\ ~ NothingToDo(arg[p])
        /\ idequeue' = Append(idequeue, arg[p])
        /\ drive' = IF Starts THEN Command(arg[p]) ELSE drive
        /\ chan' = [chan EXCEPT ![p] = Request(arg[p])]
        /\ pc' = [pc EXCEPT ![p] = "sleep"] /\ UNCHANGED <<arg, held>>
    BY <1>2 DEF iderw, Goto
  <2>2. arg[p] \in Bufs
    BY <2>1 DEF PlaceInv
  <2>3. arg[p] \in held[p]
    BY <2>1, <2>2 DEF holdingsleep, LockInv
  <2>4. PICK b \in Bufs : b = arg[p]
    BY <2>2
  <2>5. Requested(p, b)'
    BY <2>1, <2>3, <2>4 DEF Requested, Types, ProcTypes, ChanType
  <2> QED
    BY <2>1, <2>4, <2>5 DEF holdingsleep
<1>3. ASSUME drive_done \/ UNCHANGED vars PROVE UNCHANGED <<idequeue, drive>>
  BY <1>3 DEF drive_done, vars, ideVars
<1>4. ASSUME ideintr
      PROVE  idequeue' = Tail(idequeue) /\ drive' = Next_command(Tail(idequeue))
  BY <1>4 DEF ideintr
<1>5. CASE ~ ideintr /\ ~ UNCHANGED <<idequeue, drive>>
  <2>1. PICK p \in Procs : iderw(p)
    BY Actions, <1>1, <1>3, <1>5
  <2>2. PICK b \in Bufs : /\ pc[p] = "iderw" /\ locked[b] /\ pid[b] = p
                          /\ idequeue' = Append(idequeue, b)
                          /\ drive' = IF Starts THEN Command(b) ELSE drive
                          /\ ~ NothingToDo(b) /\ Requested(p, b)'
    BY <2>1, <1>2, <1>5
  <2> QED
    BY <2>1, <2>2, <1>5
<1> QED
  BY <1>4, <1>5

\* A step keeps the requests apart, and each with a process and something to do.
LEMMA QueueStep ==
  ASSUME Types, PlaceInv, LockInv, BlockInv, RefcntRight, QueueInv, DriveInv, [Next]_vars
  PROVE  QueueInv'
<1>0. idequeue \in Seq(Bufs)
  BY DEF Types, DiskTypes
<1>1. ASSUME NEW b \in Bufs, \E i \in DOMAIN idequeue : idequeue[i] = b
      PROVE  \E q \in Procs : Requested(q, b)'
  <2>1. ~ NothingToDo(b)
    BY <1>1 DEF QueueInv
  <2>2. PICK q \in Procs : Requested(q, b)
    BY <1>1 DEF QueueInv
  <2> QED
    BY <2>1, <2>2, RequestedStep
<1>2. ASSUME ~ ideintr, NEW b \in Bufs, \E i \in DOMAIN idequeue : idequeue[i] = b
      PROVE  ~ NothingToDo(b)'
  <2>1. ~ NothingToDo(b)
    BY <1>2 DEF QueueInv
  <2> QED
    BY <1>2, <2>1, ToDoStep
<1>3. CASE UNCHANGED idequeue /\ ~ ideintr
  <2>1. ASSUME NEW i \in DOMAIN idequeue', NEW b \in Bufs, idequeue'[i] = b
        PROVE  (\E q \in Procs : Requested(q, b)') /\ ~ NothingToDo(b)'
    BY <1>1, <1>2, <1>3, <2>1
  <2> QED
    BY <1>0, <1>3, <2>1 DEF QueueInv, Requested, NothingToDo
<1>4. ASSUME NEW p \in Procs, NEW c \in Bufs, pc[p] = "iderw", locked[c], pid[c] = p, ~ ideintr,
             idequeue' = Append(idequeue, c), ~ NothingToDo(c), Requested(p, c)'
      PROVE  QueueInv'
  <2>1. ~ NothingToDo(c)'
    BY <1>4, ToDoStep
  <2>2. \A i \in DOMAIN idequeue : idequeue[i] # c
    BY <1>4, NotQueued
  <2>3. ASSUME NEW i \in DOMAIN idequeue', NEW b \in Bufs, idequeue'[i] = b
        PROVE  (\E q \in Procs : Requested(q, b)') /\ ~ NothingToDo(b)'
    <3>1. CASE i \in DOMAIN idequeue
      <4>1. idequeue[i] = b
        BY <1>0, <1>4, <2>3, <3>1
      <4> QED
        BY <1>1, <1>2, <1>4, <3>1, <4>1
    <3>2. CASE i = Len(idequeue) + 1
      <4>1. b = c
        BY <1>0, <1>4, <2>3, <3>2
      <4> QED
        BY <1>4, <2>1, <4>1
    <3> QED
      BY <1>0, <1>4, <3>1, <3>2
  <2>4. \A i, j \in DOMAIN idequeue' : idequeue'[i] = idequeue'[j] => i = j
    BY <1>0, <1>4, <2>2 DEF QueueInv
  <2>5. idequeue' \in Seq(Bufs)
    BY <1>0, <1>4
  <2> QED
    BY <2>3, <2>4, <2>5 DEF QueueInv, Requested, NothingToDo
<1>5. CASE ideintr /\ idequeue' = Tail(idequeue)
  <2>1. drive # Nobody
    BY <1>5 DEF ideintr, DriveInv
  <2>2. idequeue # <<>> /\ Head(idequeue) = idequeue[1]
    BY <2>1, First
  <2>3. \A i \in DOMAIN idequeue' : i + 1 \in DOMAIN idequeue /\ idequeue'[i] = idequeue[i + 1]
    BY <1>0, <1>5, <2>2
  <2>4. ASSUME NEW i \in DOMAIN idequeue', NEW b \in Bufs, idequeue'[i] = b
        PROVE  (\E q \in Procs : Requested(q, b)') /\ ~ NothingToDo(b)'
    <3>1. i + 1 \in DOMAIN idequeue /\ idequeue[i + 1] = b /\ i + 1 # 1 /\ 1 \in DOMAIN idequeue
      BY <1>0, <2>2, <2>3, <2>4
    <3>2. b # Head(idequeue)
      BY <2>2, <3>1 DEF QueueInv
    <3>3. ~ NothingToDo(b)
      BY <3>1 DEF QueueInv
    <3>4. ~ NothingToDo(b)'
      BY <1>5, <3>2, <3>3 DEF ideintr, NothingToDo, Types, BufTypes
    <3> QED
      BY <1>1, <3>1, <3>4
  <2>5. \A i, j \in DOMAIN idequeue' : idequeue'[i] = idequeue'[j] => i = j
    BY <1>0, <2>3 DEF QueueInv
  <2>6. idequeue' \in Seq(Bufs)
    BY <1>0, <1>5, <2>2
  <2> QED
    BY <2>4, <2>5, <2>6 DEF QueueInv, Requested, NothingToDo
<1> QED
  BY QueueChange, <1>3, <1>4, <1>5

\* What is in a queued buffer stays until the interrupt.
LEMMA QueuedKept ==
  ASSUME Types, PlaceInv, LockInv, BlockInv, RefcntRight, QueueInv, [Next]_vars, ~ ideintr,
         NEW b \in Bufs, NEW i \in DOMAIN idequeue, idequeue[i] = b
  PROVE  dirty'[b] = dirty[b] /\ data'[b] = data[b] /\ blockno'[b] = blockno[b]
<1> USE DEF Types, BufTypes
<1>1. ASSUME NEW p \in Procs, NEW c \in Bufs, log_write(p, c) \/ bwrite(p, c)
      PROVE  dirty'[b] = dirty[b] /\ data'[b] = data[b] /\ blockno'[b] = blockno[b]
  <2>1. pc[p] = "run" /\ c \in held[p]
    BY <1>1 DEF log_write, bwrite
  <2>2. locked[c] /\ pid[c] = p
    BY <2>1 DEF LockInv
  <2>3. c # b
    BY <2>1, <2>2, NotQueued
  <2> QED
    BY <1>1, <2>3 DEF log_write, bwrite
<1>2. ASSUME NEW p \in Procs, bget_recycle(p)
      PROVE  dirty'[b] = dirty[b] /\ data'[b] = data[b] /\ blockno'[b] = blockno[b]
  <2>1. CASE pc'[p] = "panic"
    BY <1>2, <2>1, NoBuffer DEF bufVars, blockVars
  <2>2. CASE pc'[p] # "panic"
    <3>1. PICK c \in Bufs : refcnt[c] = 0 /\ Recycled(c, want[p])
      BY <1>2, <2>2, NotFound
    <3>2. c # b
      BY <3>1, IdleNotQueued
    <3>3. UNCHANGED data
      BY <1>2 DEF bget_recycle
    <3> QED
      BY <3>1, <3>2, <3>3 DEF Recycled
  <2> QED
    BY <2>1, <2>2
<1>3. ASSUME NEW p \in Procs,
             \/ \E n \in Blocks : call_bread(p, n)
             \/ \E c \in Bufs : releasesleep(p, c)
             \/ sleep(p) \/ bget_hit(p) \/ acquiresleep_sleep(p) \/ acquiresleep(p)
             \/ brelse(p) \/ iderw(p) \/ iderw_wait(p)
      PROVE  UNCHANGED <<dirty, data, blockno>>
  BY <1>3 DEF call_bread, releasesleep, sleep, bget_hit, acquiresleep_sleep, acquiresleep,
              brelse, iderw, iderw_wait, bufVars, blockVars
<1>4. ASSUME drive_done \/ UNCHANGED vars PROVE UNCHANGED <<dirty, data, blockno>>
  BY <1>4 DEF drive_done, vars, bufVars, blockVars
<1> QED
  BY Actions, <1>1, <1>2, <1>3, <1>4

\* The disk changes when the drive is done.
LEMMA DiskKept ==
  ASSUME [Next]_vars, ~ ideintr, ~ drive_done
  PROVE  UNCHANGED <<disk, irq>>
<1>1. ASSUME NEW p \in Procs,
             \/ \E n \in Blocks : call_bread(p, n)
             \/ \E b \in Bufs : log_write(p, b) \/ bwrite(p, b) \/ releasesleep(p, b)
             \/ sleep(p) \/ bget_hit(p) \/ bget_recycle(p)
             \/ acquiresleep_sleep(p) \/ acquiresleep(p) \/ brelse(p)
             \/ iderw(p) \/ iderw_wait(p)
      PROVE  UNCHANGED <<disk, irq>>
  BY <1>1 DEF call_bread, log_write, bwrite, releasesleep, sleep, bget_hit, bget_recycle,
              acquiresleep_sleep, acquiresleep, brelse, iderw, iderw_wait, ideVars
<1>2. ASSUME UNCHANGED vars PROVE UNCHANGED <<disk, irq>>
  BY <1>2 DEF vars, ideVars
<1> QED
  BY Actions, <1>1, <1>2

\* A command is not the absence of one.
LEMMA CommandIsOne ==
  ASSUME Types, NEW b \in Bufs
  PROVE  Command(b) # Nobody
<1>1. Command(b) \in [buf : Bufs, write : BOOLEAN, data : Data]
  BY DEF Command, Types, BufTypes
<1> QED
  BY <1>1, CacheAssumption DEF Bufs, Data

\* A step keeps the drive at the first request.
LEMMA DriveStep ==
  ASSUME Types, PlaceInv, LockInv, BlockInv, RefcntRight, QueueInv, DriveInv, [Next]_vars
  PROVE  DriveInv'
<1>0. idequeue \in Seq(Bufs)
  BY DEF Types, DiskTypes
<1>1. ASSUME ~ ideintr, drive # Nobody, idequeue' # <<>>, Head(idequeue') = Head(idequeue), drive' = drive
      PROVE  DriveInv'
  <2>1. PICK b \in Bufs : /\ b = Head(idequeue) /\ idequeue[1] = b /\ 1 \in DOMAIN idequeue
                          /\ blockno[b] \in Blocks /\ drive = Command(b)
    BY <1>1, First
  <2>2. dirty'[b] = dirty[b] /\ data'[b] = data[b] /\ blockno'[b] = blockno[b]
    BY <1>1, <2>1, QueuedKept
  <2>3. drive = [buf |-> b, write |-> dirty[b], data |-> data[b]]
    BY <2>1 DEF Command
  <2>4. drive' = Command(Head(idequeue))'
    BY <1>1, <2>1, <2>2, <2>3 DEF Command
  <2>5. irq' => (drive.write => disk'[blockno'[b]] = drive.data)
    <3>1. CASE drive_done
      BY <2>1, <2>2, <2>3, <3>1 DEF drive_done, Types, DiskTypes
    <3>2. CASE ~ drive_done
      <4>1. UNCHANGED <<disk, irq>>
        BY <1>1, <3>2, DiskKept
      <4> QED
        BY <2>2, <2>3, <4>1 DEF DriveInv
    <3> QED
      BY <3>1, <3>2
  <2> QED
    BY <1>1, <2>1, <2>3, <2>4, <2>5 DEF DriveInv, Command
<1>2. CASE UNCHANGED <<idequeue, drive>> /\ ~ ideintr
  <2>1. CASE drive # Nobody
    BY <1>1, <1>2, <2>1 DEF DriveInv
  <2>2. CASE drive = Nobody
    <3>1. ~ drive_done /\ ~ irq /\ idequeue = <<>>
      BY <2>2 DEF drive_done, DriveInv
    <3>2. UNCHANGED irq
      BY <1>2, <3>1, DiskKept
    <3> QED
      BY <1>2, <2>2, <3>1, <3>2 DEF DriveInv
  <2> QED
    BY <2>1, <2>2
<1>3. ASSUME NEW p \in Procs, NEW c \in Bufs, iderw(p), ~ ideintr, idequeue' = Append(idequeue, c),
             drive' = IF Starts THEN Command(c) ELSE drive
      PROVE  DriveInv'
  <2>1. UNCHANGED <<dirty, data, irq>>
    BY <1>3 DEF iderw, bufVars, blockVars
  <2>2. CASE idequeue = <<>>
    <3>1. ~ irq /\ drive' = Command(c)
      BY <1>3, <2>2 DEF DriveInv, Starts
    <3>2. idequeue' # <<>> /\ Head(idequeue') = c
      BY <1>0, <1>3, <2>2
    <3>3. Command(c) # Nobody
      BY CommandIsOne
    <3> QED
      BY <2>1, <3>1, <3>2, <3>3 DEF DriveInv, Command
  <2>3. CASE idequeue # <<>>
    <3>1. drive # Nobody /\ drive' = drive
      BY <1>3, <2>3 DEF DriveInv, Starts
    <3>2. idequeue' # <<>> /\ Head(idequeue') = Head(idequeue)
      BY <1>0, <1>3, <2>3
    <3> QED
      BY <1>1, <1>3, <3>1, <3>2
  <2> QED
    BY <2>2, <2>3
<1>4. CASE ideintr /\ idequeue' = Tail(idequeue) /\ drive' = Next_command(Tail(idequeue))
  <2>1. ~ irq'
    BY <1>4 DEF ideintr
  <2>2. CASE idequeue' = <<>>
    BY <1>4, <2>1, <2>2 DEF DriveInv, Next_command
  <2>3. CASE idequeue' # <<>>
    <3>1. drive # Nobody
      BY <1>4 DEF ideintr, DriveInv
    <3>2. idequeue # <<>> /\ 1 \in DOMAIN idequeue /\ Head(idequeue) = idequeue[1]
      BY <3>1, First
    <3>3. 2 \in DOMAIN idequeue /\ Head(idequeue') = idequeue[2]
      BY <1>0, <1>4, <2>3, <3>2
    <3>4. PICK c \in Bufs : c = Head(idequeue') /\ c = idequeue[2]
      BY <1>0, <3>3
    <3>5. c # Head(idequeue)
      BY <3>2, <3>3, <3>4 DEF QueueInv
    <3>6. dirty'[c] = dirty[c] /\ data'[c] = data[c]
      BY <1>4, <3>5 DEF ideintr, Types, BufTypes
    <3>7. drive' = Command(c)
      BY <1>4, <2>3, <3>4 DEF Next_command
    <3>8. Command(c) # Nobody
      BY CommandIsOne
    <3> QED
      BY <2>1, <2>3, <3>4, <3>6, <3>7, <3>8 DEF DriveInv, Command
  <2> QED
    BY <2>2, <2>3
<1> QED
  BY QueueChange, <1>2, <1>3, <1>4

\* A step leaves no clean buffer that differs from the disk.
LEMMA CleanStep ==
  ASSUME Types, PlaceInv, LockInv, BlockInv, RefcntRight, ValidInv, QueueInv, DriveInv, CleanInv,
         [Next]_vars
  PROVE  CleanInv'
<1> USE DEF Types, BufTypes, CleanInv
<1>1. ASSUME NEW p \in Procs, NEW c \in Bufs, log_write(p, c) \/ bwrite(p, c) PROVE CleanInv'
  <2>1. pc[p] = "run" /\ c \in held[p]
    BY <1>1 DEF log_write, bwrite
  <2>2. valid[c]
    BY <2>1 DEF ValidInv, Requested
  <2>3. UNCHANGED <<blockno, valid, disk>>
    BY <1>1 DEF log_write, bwrite, ideVars
  <2>4. \A b \in Bufs : \/ dirty'[b] = dirty[b] /\ data'[b] = data[b]
                        \/ b = c /\ dirty'[b]
    BY <1>1 DEF log_write, bwrite
  <2> QED
    BY <2>2, <2>3, <2>4
<1>2. ASSUME NEW p \in Procs, bget_recycle(p) PROVE CleanInv'
  <2>1. UNCHANGED <<data, disk>>
    BY <1>2 DEF bget_recycle, ideVars
  <2>2. CASE pc'[p] = "panic"
    BY <1>2, <2>1, <2>2, NoBuffer DEF bufVars, blockVars
  <2>3. CASE pc'[p] # "panic"
    <3>1. PICK c \in Bufs : Recycled(c, want[p])
      BY <1>2, <2>3, NotFound
    <3> QED
      BY <2>1, <3>1 DEF Recycled
  <2> QED
    BY <2>2, <2>3
<1>3. ASSUME NEW p \in Procs,
             \/ \E n \in Blocks : call_bread(p, n)
             \/ \E c \in Bufs : releasesleep(p, c)
             \/ sleep(p) \/ bget_hit(p) \/ acquiresleep_sleep(p) \/ acquiresleep(p)
             \/ brelse(p) \/ iderw(p) \/ iderw_wait(p)
      PROVE  CleanInv'
  <2>1. UNCHANGED <<blockno, valid, dirty, data, disk>>
    BY <1>3 DEF call_bread, releasesleep, sleep, bget_hit, acquiresleep_sleep, acquiresleep,
                brelse, iderw, iderw_wait, bufVars, blockVars, ideVars
  <2> QED
    BY <2>1
<1>4. CASE UNCHANGED vars
  BY <1>4 DEF vars, bufVars, blockVars, ideVars
<1>5. CASE drive_done
  <2>1. drive # Nobody /\ UNCHANGED <<blockno, valid, dirty, data>>
    BY <1>5 DEF drive_done, bufVars, blockVars
  <2>2. PICK h \in Bufs : blockno[h] \in Blocks /\ drive = Command(h)
    BY <2>1, First
  <2>3. drive.buf = h /\ drive.write = dirty[h]
    BY <2>2 DEF Command
  <2>4. ASSUME NEW b \in Bufs, valid[b], ~ dirty[b] PROVE data[b] = disk'[blockno[b]]
    <3>1. CASE drive.write
      <4>1. blockno[b] # blockno[h]
        BY <2>2, <2>3, <2>4, <3>1 DEF BlockInv
      <4> QED
        BY <1>5, <2>3, <2>4, <3>1, <4>1 DEF drive_done, DiskTypes
    <3>2. CASE ~ drive.write
      BY <1>5, <2>4, <3>2 DEF drive_done
    <3> QED
      BY <3>1, <3>2
  <2> QED
    BY <2>1, <2>4
<1>6. CASE ideintr
  <2>1. drive # Nobody /\ irq /\ UNCHANGED <<blockno, disk>>
    BY <1>6 DEF ideintr, DriveInv
  <2>2. PICK h \in Bufs : h = Head(idequeue) /\ blockno[h] \in Blocks /\ drive = Command(h)
    BY <2>1, First
  <2>3. dirty[h] => disk[blockno[h]] = data[h]
    BY <2>1, <2>2 DEF DriveInv, Command
  <2>4. /\ valid'[h] /\ ~ dirty'[h] /\ data'[h] = disk[blockno[h]]
        /\ \A b \in Bufs : b # h => valid'[b] = valid[b] /\ dirty'[b] = dirty[b] /\ data'[b] = data[b]
    BY <1>6, <2>2, <2>3 DEF ideintr
  <2> QED
    BY <2>1, <2>2, <2>4
<1> QED
  BY Actions, <1>1, <1>2, <1>3, <1>4, <1>5, <1>6

\* binit and ideinit establish the invariant.
LEMMA InitInv ==
  ASSUME Init
  PROVE  IInv
<1>1. BufTypes
  <2>1. \A i \in Bufs : NBUF + 1 - i \in Bufs
    BY CacheAssumption DEF Bufs
  <2> QED
    BY <2>1, CacheAssumption DEF Init, BufTypes, Data
<1>2. DiskTypes /\ DriveType
  <2>1. disk = [n \in Blocks |-> {}] /\ idequeue = <<>> /\ irq = FALSE /\ drive = Nobody
    BY DEF Init
  <2>2. {} \in Data
    BY DEF Data
  <2>3. disk \in [Blocks -> Data]
    BY <2>1, <2>2
  <2>4. idequeue \in Seq(Bufs)
    BY <2>1
  <2> QED
    BY <2>1, <2>3, <2>4 DEF DiskTypes, DriveType
<1>3. ProcTypes /\ ChanType
  <2>1. /\ lk = [b \in Bufs |-> Nobody] /\ idelock = Nobody
        /\ pc = [p \in Procs |-> "run"] /\ arg = [p \in Procs |-> Nobody]
        /\ chan = [p \in Procs |-> NoChan] /\ want = [p \in Procs |-> NoBlock]
        /\ held = [p \in Procs |-> {}] /\ calls = [p \in Procs |-> 0]
    BY DEF Init
  <2> QED
    BY <2>1 DEF ProcTypes, ChanType
<1>4. RefcntRight
  <2>1. ASSUME NEW b \in Bufs
        PROVE  Holders(b) = {} /\ Waiters(b) = {} /\ refcnt[b] = 0
    BY DEF Init, Holders, Waiters
  <2>2. Cardinality({}) = 0
    BY FS_EmptySet
  <2>3. ASSUME NEW b \in Bufs
        PROVE  Cardinality(Holders(b)) = 0 /\ Cardinality(Waiters(b)) = 0 /\ refcnt[b] = 0
    BY <2>1, <2>2
  <2> QED
    BY <2>3 DEF RefcntRight
<1>5. BlockInv
  BY CacheAssumption DEF Init, BlockInv, NoBlock
<1>6. PlaceInv /\ LockInv /\ ValidInv /\ QueueInv /\ DriveInv /\ CleanInv
  BY DEF Init, PlaceInv, LockInv, ValidInv, QueueInv, DriveInv, CleanInv
<1> QED
  BY <1>1, <1>2, <1>3, <1>4, <1>5, <1>6 DEF IInv, Types

\* Every step keeps it.
LEMMA StepInv ==
  ASSUME IInv, [Next]_vars
  PROVE  IInv'
<1>1. Types'
  BY BufTypesStep, ProcTypesStep, DiskTypesStep DEF IInv, Types
<1>2. PlaceInv' /\ LockInv' /\ BlockInv' /\ RefcntRight'
  BY PlaceStep, LockStep, BlockStep, RefcntStep DEF IInv
<1>3. ValidInv' /\ QueueInv' /\ DriveInv' /\ CleanInv'
  BY ValidStep, QueueStep, DriveStep, CleanStep DEF IInv
<1> QED
  BY <1>1, <1>2, <1>3 DEF IInv

\* The inductive invariant: the cache, the sleep locks, the request queue and the
\* drive agree with each other in every state, also after a panic of bget.
THEOREM CacheInvariant == Spec => []IInv
<1>1. Init => IInv
  BY InitInv
<1>2. IInv /\ [Next]_vars => IInv'
  BY StepInv
<1> QED
  BY <1>1, <1>2, PTL DEF Spec

\* refcnt, which decides what bget recycles, counts the processes that hold a
\* buffer, wait for it or are about to drop it.
THEOREM CacheRefcntRight == Spec => []RefcntRight
<1>1. IInv => RefcntRight
  BY DEF IInv
<1> QED
  BY <1>1, CacheInvariant, PTL

\* HeldIsTheBuffer from the invariant.
LEMMA HeldFromInv ==
  ASSUME IInv
  PROVE  HeldIsTheBuffer
<1> USE DEF IInv
<1>1. ASSUME NEW n \in Blocks PROVE Cardinality(Cached(n)) <= 1
  <2>1. CASE Cached(n) = {}
    BY <2>1, FS_EmptySet
  <2>2. CASE Cached(n) # {}
    <3>1. PICK b \in Bufs : Cached(n) = {b}
      BY <2>2 DEF Cached, BlockInv
    <3> QED
      BY SMTT(30), <3>1, FS_Singleton
  <2> QED
    BY <2>1, <2>2
<1>2. ASSUME NEW p \in Procs, NEW b \in held[p]
      PROVE  /\ holdingsleep(p, b) /\ refcnt[b] > 0
             /\ pc[p] = "run" => valid[b]
             /\ blockno[b] \in Blocks
  <2>1. b \in Bufs
    BY DEF Types, ProcTypes
  <2>2. p \in Holders(b)
    BY DEF Holders
  <2>3. refcnt[b] > 0 /\ blockno[b] \in Blocks
    BY <2>1, <2>2, InUse
  <2>4. holdingsleep(p, b)
    BY DEF holdingsleep, LockInv
  <2>5. pc[p] = "run" => valid[b]
    BY DEF ValidInv, Requested
  <2> QED
    BY <2>3, <2>4, <2>5
<1> QED
  BY <1>1, <1>2 DEF HeldIsTheBuffer

\* What bread returned stays the one buffer of its block, locked, referenced and read,
\* until brelse, whatever the other processes recycle.
THEOREM CacheHeldIsTheBuffer == Spec => []HeldIsTheBuffer
<1>1. IInv => HeldIsTheBuffer
  BY HeldFromInv
<1> QED
  BY <1>1, CacheInvariant, PTL

\* The owner and the content of a block, told from its buffer.
OwnerRight ==
  \A n \in Blocks :
    /\ \A b \in Bufs : blockno[b] = n => BlockOwner[n] = IF locked[b] THEN pid[b] ELSE Nobody
    /\ (\A b \in Bufs : blockno[b] # n) => BlockOwner[n] = Nobody

ContentRight ==
  \A n \in Blocks :
    /\ \A b \in Bufs : blockno[b] = n => BlockContent[n] = IF valid[b] THEN data[b] ELSE disk[n]
    /\ (\A b \in Bufs : blockno[b] # n) => BlockContent[n] = disk[n]

\* At most one buffer per block makes the mapping's choices unique.
LEMMA MappingRight == BlockInv => OwnerRight /\ ContentRight
<1> SUFFICES ASSUME BlockInv PROVE OwnerRight /\ ContentRight
  OBVIOUS
<1>1. ASSUME NEW n \in Blocks, NEW b \in Bufs, blockno[b] = n PROVE Cached(n) = {b}
  BY <1>1 DEF Cached, BlockInv
<1>2. ASSUME NEW n \in Blocks, \A b \in Bufs : blockno[b] # n PROVE Cached(n) = {}
  BY <1>2 DEF Cached
<1>3. ASSUME NEW n \in Blocks, NEW b \in Bufs, blockno[b] = n
      PROVE  /\ BlockOwner[n] = IF locked[b] THEN pid[b] ELSE Nobody
             /\ BlockContent[n] = IF valid[b] THEN data[b] ELSE disk[n]
  <2>1. {c \in Cached(n) : locked[c]} = IF locked[b] THEN {b} ELSE {}
    BY <1>1, <1>3
  <2>2. {c \in Cached(n) : valid[c]} = IF valid[b] THEN {b} ELSE {}
    BY <1>1, <1>3
  <2>3. (CHOOSE c \in {b} : TRUE) = b
    OBVIOUS
  <2>4. BlockOwner[n] = IF locked[b] THEN pid[b] ELSE Nobody
    BY <2>1, <2>3 DEF BlockOwner
  <2>5. BlockContent[n] = IF valid[b] THEN data[b] ELSE disk[n]
    BY <2>2, <2>3 DEF BlockContent
  <2> QED
    BY <2>4, <2>5
<1>4. ASSUME NEW n \in Blocks, \A b \in Bufs : blockno[b] # n
      PROVE  BlockOwner[n] = Nobody /\ BlockContent[n] = disk[n]
  BY <1>2, <1>4 DEF BlockOwner, BlockContent
<1> QED
  BY <1>3, <1>4 DEF OwnerRight, ContentRight

\* The same after a step.
LEMMA MappingRightNext == BlockInv' => OwnerRight' /\ ContentRight'
  BY MappingRight, PTL

\* A step that leaves the blocks' owners and contents alone.
LEMMA MappingKept ==
  ASSUME \A n \in Blocks : BlockOwner'[n] = BlockOwner[n] /\ BlockContent'[n] = BlockContent[n]
  PROVE  UNCHANGED <<BlockOwner, BlockContent>>
<1>1. BlockOwner' = BlockOwner
  BY DEF BlockOwner
<1>2. BlockContent' = BlockContent
  BY DEF BlockContent
<1> QED
  BY <1>1, <1>2

\* Two functions that differ in one place.
LEMMA OnePlace ==
  ASSUME NEW b \in Blocks, NEW f, NEW g, f = [n \in Blocks |-> f[n]], g = [n \in Blocks |-> g[n]],
         \A n \in Blocks : n # b => g[n] = f[n]
  PROVE  g = [f EXCEPT ![b] = g[b]] /\ (g[b] = f[b] => g = f)
  OBVIOUS

\* A step of the code on block b is a step of the store on b.
LEMMA MappingStep ==
  ASSUME NEW b \in Blocks,
         \A n \in Blocks : n # b => BlockOwner'[n] = BlockOwner[n] /\ BlockContent'[n] = BlockContent[n]
  PROVE  /\ BlockOwner' = [BlockOwner EXCEPT ![b] = BlockOwner'[b]]
         /\ BlockContent' = [BlockContent EXCEPT ![b] = BlockContent'[b]]
         /\ BlockOwner'[b] = BlockOwner[b] => BlockOwner' = BlockOwner
         /\ BlockContent'[b] = BlockContent[b] => BlockContent' = BlockContent
<1>1. /\ BlockOwner = [n \in Blocks |-> BlockOwner[n]]
      /\ BlockOwner' = [n \in Blocks |-> BlockOwner'[n]]
  BY DEF BlockOwner
<1>2. /\ BlockContent = [n \in Blocks |-> BlockContent[n]]
      /\ BlockContent' = [n \in Blocks |-> BlockContent'[n]]
  BY DEF BlockContent
<1>3. PICK o, o2, c, c2 : o = BlockOwner /\ o2 = BlockOwner' /\ c = BlockContent /\ c2 = BlockContent'
  OBVIOUS
<1>4. /\ o2 = [o EXCEPT ![b] = o2[b]] /\ (o2[b] = o[b] => o2 = o)
      /\ c2 = [c EXCEPT ![b] = c2[b]] /\ (c2[b] = c[b] => c2 = c)
  BY <1>1, <1>2, <1>3, OnePlace
<1> QED
  BY <1>3, <1>4

\* Every step of the cache is a step of the store or changes nothing there.
LEMMA StoreStep ==
  ASSUME IInv, IInv', [Next]_vars
  PROVE  [Store!Next]_(Store!vars)
<1>1. OwnerRight /\ ContentRight /\ OwnerRight' /\ ContentRight'
  BY MappingRight, MappingRightNext DEF IInv
<1> DEFINE Same == UNCHANGED <<BlockOwner, BlockContent>>
<1>2. SUFFICES Same \/ Store!Next
  BY DEF Store!vars
<1> USE DEF IInv, Types, BufTypes, OwnerRight, ContentRight
<1>3. ASSUME UNCHANGED <<blockno, valid, data, locked, pid, disk>> PROVE Same
  BY <1>3 DEF BlockOwner, BlockContent, Cached
<1>4. ASSUME NEW p \in Procs,
             \/ \E n \in Blocks : call_bread(p, n)
             \/ sleep(p) \/ bget_hit(p) \/ acquiresleep_sleep(p)
             \/ brelse(p) \/ iderw(p) \/ iderw_wait(p)
      PROVE  Same
  <2>1. UNCHANGED <<blockno, valid, data, locked, pid, disk>>
    BY <1>4 DEF call_bread, sleep, bget_hit, acquiresleep_sleep, brelse, iderw, iderw_wait,
                bufVars, blockVars, lockVars, ideVars
  <2> QED
    BY <2>1, <1>3
<1>5. ASSUME UNCHANGED vars PROVE Same
  BY <1>3, <1>5 DEF vars, bufVars, blockVars, lockVars, ideVars
<1>6. ASSUME NEW p \in Procs, bget_recycle(p) PROVE Same
  <2>1. UNCHANGED <<data, locked, pid, disk>>
    BY <1>6 DEF bget_recycle, lockVars, ideVars
  <2>2. CASE pc'[p] = "panic"
    BY <1>3, <1>6, <2>1, <2>2, NoBuffer DEF bufVars, blockVars
  <2>3. CASE pc'[p] # "panic"
    <3>1. PICK c \in Bufs : /\ refcnt[c] = 0 /\ ~ dirty[c] /\ want[p] \in Blocks
                            /\ \A b \in Bufs : blockno[b] # want[p]
                            /\ Recycled(c, want[p])
      BY <1>6, <2>3, NotFound
    <3>2. ~ locked[c]
      BY <3>1, Idle
    <3>3. /\ blockno'[c] = want[p] /\ ~ valid'[c]
          /\ \A b \in Bufs : b # c => blockno'[b] = blockno[b] /\ valid'[b] = valid[b]
      BY <3>1 DEF Recycled
    <3>4. ASSUME NEW n \in Blocks
          PROVE  BlockOwner'[n] = BlockOwner[n] /\ BlockContent'[n] = BlockContent[n]
      <4>1. CASE n = want[p]
        <5>1. BlockOwner[n] = Nobody /\ BlockContent[n] = disk[n]
          BY <1>1, <3>1, <4>1
        <5>2. BlockOwner'[n] = Nobody /\ BlockContent'[n] = disk[n]
          BY <1>1, <2>1, <3>2, <3>3, <4>1
        <5> QED
          BY <5>1, <5>2
      <4>2. CASE n = blockno[c]
        <5>1. BlockOwner[n] = Nobody /\ BlockContent[n] = disk[n]
          BY <1>1, <3>1, <3>2, <4>2 DEF CleanInv
        <5>2. ASSUME NEW b \in Bufs PROVE blockno'[b] # n
          <6>1. CASE b = c
            BY <3>1, <3>3, <4>2, <6>1
          <6>2. CASE b # c
            BY <3>3, <4>2, <6>2 DEF BlockInv
          <6> QED
            BY <6>1, <6>2
        <5>3. BlockOwner'[n] = Nobody /\ BlockContent'[n] = disk[n]
          BY <1>1, <2>1, <5>2
        <5> QED
          BY <5>1, <5>3
      <4>3. CASE n # want[p] /\ n # blockno[c]
        <5>1. CASE \E b \in Bufs : blockno[b] = n
          <6>1. PICK b \in Bufs : blockno[b] = n
            BY <5>1
          <6>2. b # c /\ blockno'[b] = n /\ valid'[b] = valid[b]
            BY <3>3, <4>3, <6>1
          <6> QED
            BY <1>1, <2>1, <6>1, <6>2
        <5>2. CASE \A b \in Bufs : blockno[b] # n
          <6>1. \A b \in Bufs : blockno'[b] # n
            BY <3>3, <4>3, <5>2
          <6> QED
            BY <1>1, <2>1, <5>2, <6>1
        <5> QED
          BY <5>1, <5>2
      <4> QED
        BY <4>1, <4>2, <4>3
    <3> QED
      BY <3>4, MappingKept
  <2> QED
    BY <2>2, <2>3
<1>7. ASSUME NEW p \in Procs, acquiresleep(p) PROVE Store!Next
  <2>1. PICK b \in Bufs : /\ b = arg[p] /\ ~ locked[b] /\ pc[p] = "acquiresleep"
                          /\ locked' = [locked EXCEPT ![b] = TRUE] /\ pid' = [pid EXCEPT ![b] = p]
                          /\ UNCHANGED <<blockno, valid, data, disk>>
    BY <1>7 DEF acquiresleep, PlaceInv, blockVars, ideVars
  <2>2. p \in Waiters(b)
    BY <2>1 DEF Waiters
  <2>3. PICK n \in Blocks : blockno[b] = n
    BY <2>2, InUse
  <2>4. BlockOwner[n] = Nobody /\ BlockOwner'[n] = p /\ BlockContent'[n] = BlockContent[n]
    BY <1>1, <2>1, <2>3
  <2>5. ASSUME NEW m \in Blocks, m # n
        PROVE  BlockOwner'[m] = BlockOwner[m] /\ BlockContent'[m] = BlockContent[m]
    <3>1. CASE \E c \in Bufs : blockno[c] = m
      BY <1>1, <2>1, <2>3, <2>5, <3>1
    <3>2. CASE \A c \in Bufs : blockno[c] # m
      BY <1>1, <2>1, <3>2
    <3> QED
      BY <3>1, <3>2
  <2>6. BlockOwner' = [BlockOwner EXCEPT ![n] = p] /\ UNCHANGED BlockContent
    BY <2>4, <2>5, MappingStep
  <2>7. Store!lock(p, n)
    BY <2>4, <2>6 DEF Store!lock
  <2> QED
    BY <2>7 DEF Store!Next
<1>8. ASSUME NEW p \in Procs, NEW b \in Bufs, log_write(p, b) \/ bwrite(p, b) PROVE Same \/ Store!Next
  <2>1. pc[p] = "run" /\ b \in held[p] /\ UNCHANGED <<blockno, valid, locked, pid, disk>>
    BY <1>8 DEF log_write, bwrite, lockVars, ideVars
  <2>2. CASE UNCHANGED data
    BY <1>3, <2>1, <2>2
  <2>3. CASE ~ UNCHANGED data
    <3>1. \A c \in Bufs : c # b => data'[c] = data[c]
      BY <1>8, <2>1 DEF log_write, bwrite
    <3>2. valid[b] /\ locked[b] /\ pid[b] = p
      BY <2>1 DEF ValidInv, Requested, LockInv
    <3>3. p \in Holders(b)
      BY <2>1 DEF Holders
    <3>4. PICK n \in Blocks : blockno[b] = n
      BY <3>3, InUse
    <3>5. BlockOwner[n] = p /\ BlockOwner'[n] = p /\ BlockContent'[n] = data'[b]
      BY <1>1, <2>1, <3>2, <3>4
    <3>6. ASSUME NEW m \in Blocks, m # n
          PROVE  BlockOwner'[m] = BlockOwner[m] /\ BlockContent'[m] = BlockContent[m]
      <4>1. CASE \E c \in Bufs : blockno[c] = m
        BY <1>1, <2>1, <3>1, <3>4, <3>6, <4>1
      <4>2. CASE \A c \in Bufs : blockno[c] # m
        BY <1>1, <2>1, <4>2
      <4> QED
        BY <4>1, <4>2
    <3>7. BlockContent' = [BlockContent EXCEPT ![n] = data'[b]] /\ UNCHANGED BlockOwner
      BY <3>5, <3>6, MappingStep
    <3>8. data'[b] \in Data
      OBVIOUS
    <3>9. Store!write(p, n)
      BY <3>5, <3>7, <3>8 DEF Store!write
    <3> QED
      BY <3>9 DEF Store!Next
  <2> QED
    BY <2>2, <2>3
<1>9. ASSUME NEW p \in Procs, NEW b \in Bufs, releasesleep(p, b) PROVE Same \/ Store!Next
  <2>1. b \in held[p] /\ UNCHANGED <<blockno, valid, data, disk>>
    BY <1>9 DEF releasesleep, blockVars, ideVars
  <2>2. locked[b] /\ pid[b] = p
    BY <2>1 DEF LockInv
  <2>3. locked' = [locked EXCEPT ![b] = FALSE] /\ pid' = [pid EXCEPT ![b] = Nobody]
    BY <1>9, <2>2 DEF releasesleep, holdingsleep
  <2>4. p \in Holders(b)
    BY <2>1 DEF Holders
  <2>5. PICK n \in Blocks : blockno[b] = n
    BY <2>4, InUse
  <2>6. BlockOwner[n] = p /\ BlockOwner'[n] = Nobody /\ BlockContent'[n] = BlockContent[n]
    BY <1>1, <2>1, <2>2, <2>3, <2>5
  <2>7. ASSUME NEW m \in Blocks, m # n
        PROVE  BlockOwner'[m] = BlockOwner[m] /\ BlockContent'[m] = BlockContent[m]
    <3>1. CASE \E c \in Bufs : blockno[c] = m
      BY <1>1, <2>1, <2>3, <2>5, <2>7, <3>1
    <3>2. CASE \A c \in Bufs : blockno[c] # m
      BY <1>1, <2>1, <3>2
    <3> QED
      BY <3>1, <3>2
  <2>8. BlockOwner' = [BlockOwner EXCEPT ![n] = Nobody] /\ UNCHANGED BlockContent
    BY <2>6, <2>7, MappingStep
  <2>9. Store!unlock(p, n)
    BY <2>6, <2>8 DEF Store!unlock
  <2> QED
    BY <2>9 DEF Store!Next
<1>10. ASSUME drive_done PROVE Same
  <2>1. drive # Nobody /\ UNCHANGED <<blockno, valid, data, locked, pid>>
    BY <1>10 DEF drive_done, bufVars, blockVars, lockVars
  <2>2. PICK h \in Bufs : blockno[h] \in Blocks /\ drive = Command(h)
    BY <2>1, First
  <2>3. \A m \in Blocks : (m = blockno[h] /\ dirty[h]) \/ disk'[m] = disk[m]
    BY <1>10, <2>2 DEF drive_done, DiskTypes, Command
  <2>4. ASSUME NEW m \in Blocks
        PROVE  BlockOwner'[m] = BlockOwner[m] /\ BlockContent'[m] = BlockContent[m]
    <3>1. CASE \E c \in Bufs : blockno[c] = m
      <4>1. PICK c \in Bufs : blockno[c] = m
        BY <3>1
      <4>2. valid[c] \/ disk'[m] = disk[m]
        BY <2>3, <4>1 DEF CleanInv, BlockInv
      <4> QED
        BY <1>1, <2>1, <4>1, <4>2
    <3>2. CASE \A c \in Bufs : blockno[c] # m
      <4>1. disk'[m] = disk[m]
        BY <2>3, <3>2
      <4> QED
        BY <1>1, <2>1, <3>2, <4>1
    <3> QED
      BY <3>1, <3>2
  <2> QED
    BY <2>4, MappingKept
<1>11. ASSUME ideintr PROVE Same
  <2>1. drive # Nobody /\ UNCHANGED <<blockno, locked, pid, disk>>
    BY <1>11 DEF ideintr, DriveInv, lockVars
  <2>2. PICK h \in Bufs : /\ h = Head(idequeue) /\ h = idequeue[1] /\ 1 \in DOMAIN idequeue
                          /\ blockno[h] \in Blocks
    BY <2>1, First
  <2>3. \/ dirty[h] /\ valid[h] /\ data'[h] = data[h]
        \/ ~ valid[h] /\ data'[h] = disk[blockno[h]]
    BY <1>11, <2>2 DEF ideintr, QueueInv, NothingToDo, CleanInv
  <2>4. /\ valid'[h]
        /\ \A c \in Bufs : c # h => valid'[c] = valid[c] /\ data'[c] = data[c]
    BY <1>11, <2>2 DEF ideintr
  <2>5. ASSUME NEW m \in Blocks
        PROVE  BlockOwner'[m] = BlockOwner[m] /\ BlockContent'[m] = BlockContent[m]
    <3>1. CASE \E c \in Bufs : blockno[c] = m
      <4>1. PICK c \in Bufs : blockno[c] = m
        BY <3>1
      <4>2. CASE c = h
        BY <1>1, <2>1, <2>3, <2>4, <4>1, <4>2
      <4>3. CASE c # h
        BY <1>1, <2>1, <2>4, <4>1, <4>3
      <4> QED
        BY <4>2, <4>3
    <3>2. CASE \A c \in Bufs : blockno[c] # m
      BY <1>1, <2>1, <3>2
    <3> QED
      BY <3>1, <3>2
  <2> QED
    BY <2>5, MappingKept
<1> QED
  BY Actions, <1>4, <1>5, <1>6, <1>7, <1>8, <1>9, <1>10, <1>11

\* The cache starts as the store does.
LEMMA StoreInit ==
  ASSUME Init
  PROVE  Store!Init
<1>1. \A n \in Blocks : Cached(n) = {}
  BY CacheAssumption DEF Init, Cached, NoBlock
<1>2. BlockOwner = [n \in Blocks |-> Nobody] /\ BlockContent = [n \in Blocks |-> disk[n]]
  BY <1>1 DEF BlockOwner, BlockContent
<1>3. \A n \in Blocks : disk[n] \in Data
  BY DEF Init, Data
<1> QED
  BY <1>2, <1>3 DEF Store!Init

\* Cache, queue and drive implement the store of blocks, for every number of
\* processes, blocks and buffers: a locked block changes only by its holder, and
\* what was written to it survives recycling and the way to the disk and back.
THEOREM CacheImplementsStore == Spec => ImplementsStore
<1>1. Init => Store!Init
  BY StoreInit
<1>2. IInv /\ IInv' /\ [Next]_vars => [Store!Next]_(Store!vars)
  BY StoreStep
<1> QED
  BY <1>1, <1>2, CacheInvariant, PTL DEF Spec, ImplementsStore, Store!Spec

\* How a process comes to iderw, and to a panic.
LEMMA ToIderw ==
  ASSUME Types, PlaceInv, [Next]_vars, NEW q \in Procs, pc'[q] = "iderw"
  PROVE  \/ pc[q] = "iderw" /\ arg'[q] = arg[q] /\ held'[q] = held[q]
         \/ acquiresleep(q) \/ \E b \in Bufs : bwrite(q, b)
<1> DEFINE Goal == \/ pc[q] = "iderw" /\ arg'[q] = arg[q] /\ held'[q] = held[q]
                   \/ acquiresleep(q) \/ \E b \in Bufs : bwrite(q, b)
<1> USE DEF Types, ProcTypes, Goto, Panic, Return
<1>1. ASSUME NEW p \in Procs,
             \/ \E n \in Blocks : call_bread(p, n)
             \/ \E b \in Bufs : log_write(p, b) \/ bwrite(p, b)
             \/ sleep(p) \/ acquiresleep_sleep(p) \/ acquiresleep(p) \/ brelse(p)
             \/ iderw(p) \/ iderw_wait(p)
      PROVE  Goal
  BY <1>1 DEF call_bread, log_write, bwrite, sleep, acquiresleep_sleep, acquiresleep, brelse,
              iderw, iderw_wait, procVars
<1>2. ASSUME NEW p \in Procs, NEW b \in Bufs, releasesleep(p, b) PROVE Goal
  BY <1>2, ResumedLock DEF releasesleep
<1>3. ASSUME NEW p \in Procs, bget_hit(p) PROVE Goal
  <2>1. PICK b \in Bufs : arg' = [arg EXCEPT ![p] = b]
    BY <1>3, Found
  <2> QED
    BY <1>3, <2>1 DEF bget_hit
<1>4. ASSUME NEW p \in Procs, bget_recycle(p) PROVE Goal
  <2>1. UNCHANGED held
    BY <1>4 DEF bget_recycle
  <2>2. CASE pc'[p] = "panic"
    BY <1>4, <2>1, <2>2, NoBuffer
  <2>3. CASE pc'[p] # "panic"
    <3>1. PICK b \in Bufs : arg' = [arg EXCEPT ![p] = b] /\ pc' = [pc EXCEPT ![p] = "acquiresleep"]
      BY <1>4, <2>3, NotFound
    <3> QED
      BY <2>1, <3>1
  <2> QED
    BY <2>2, <2>3
<1>5. CASE drive_done \/ UNCHANGED vars
  BY <1>5 DEF drive_done, vars, procVars
<1>6. CASE ideintr
  BY <1>6, ResumedRequest DEF ideintr
<1> QED
  BY Actions, <1>1, <1>2, <1>3, <1>4, <1>5, <1>6

\* Only bget leads to a panic.
LEMMA ToPanic ==
  ASSUME Types, PlaceInv, LockInv, PanicInv, [Next]_vars, NEW q \in Procs, pc'[q] = "panic"
  PROVE  want'[q] \in Blocks
<1> USE DEF Types, ProcTypes, Goto, Panic, Return
<1>1. ASSUME NEW p \in Procs,
             \/ \E n \in Blocks : call_bread(p, n)
             \/ \E b \in Bufs : log_write(p, b)
             \/ sleep(p) \/ bget_hit(p) \/ acquiresleep_sleep(p) \/ acquiresleep(p) \/ brelse(p)
             \/ iderw_wait(p)
      PROVE  want'[q] \in Blocks
  BY <1>1 DEF call_bread, log_write, sleep, bget_hit, acquiresleep_sleep, acquiresleep, brelse,
              iderw_wait, procVars, PanicInv
<1>2. ASSUME NEW p \in Procs, NEW b \in Bufs, bwrite(p, b) PROVE want'[q] \in Blocks
  <2>1. holdingsleep(p, b)
    BY <1>2 DEF bwrite, LockInv, holdingsleep
  <2> QED
    BY <1>2, <2>1 DEF bwrite, PanicInv
<1>3. ASSUME NEW p \in Procs, NEW b \in Bufs, releasesleep(p, b) PROVE want'[q] \in Blocks
  <2>1. holdingsleep(p, b)
    BY <1>3 DEF releasesleep, LockInv, holdingsleep
  <2> QED
    BY <1>3, <2>1, ResumedLock DEF releasesleep, PanicInv
<1>4. ASSUME NEW p \in Procs, iderw(p) PROVE want'[q] \in Blocks
  <2>1. holdingsleep(p, arg[p]) /\ ~ NothingToDo(arg[p])
    BY <1>4 DEF iderw, PanicInv, LockInv, holdingsleep
  <2> QED
    BY <1>4, <2>1 DEF iderw, PanicInv
<1>5. ASSUME NEW p \in Procs, bget_recycle(p) PROVE want'[q] \in Blocks
  <2>1. pc[p] = "bget" /\ UNCHANGED want /\ pc'[q] = "panic"
    BY <1>5 DEF bget_recycle
  <2>2. q = p \/ pc[q] = "panic"
    <3>1. CASE pc'[p] = "panic"
      BY <1>5, <2>1, <3>1, NoBuffer
    <3>2. CASE pc'[p] # "panic"
      <4>1. pc' = [pc EXCEPT ![p] = "acquiresleep"]
        BY <1>5, <3>2, NotFound
      <4> QED
        BY <2>1, <4>1
    <3> QED
      BY <3>1, <3>2
  <2> QED
    BY <2>1, <2>2 DEF PlaceInv, PanicInv
<1>6. CASE drive_done \/ UNCHANGED vars
  BY <1>6 DEF drive_done, vars, procVars, PanicInv
<1>7. CASE ideintr
  BY <1>7, ResumedRequest DEF ideintr, PanicInv
<1> QED
  BY Actions, <1>1, <1>2, <1>3, <1>4, <1>5, <1>6, <1>7

\* A step keeps PanicInv.
LEMMA PanicStep ==
  ASSUME IInv, PanicInv, [Next]_vars
  PROVE  PanicInv'
<1> USE DEF IInv
<1>1. ASSUME NEW q \in Procs, pc'[q] = "iderw"
      PROVE  \E b \in held'[q] : b = arg'[q] /\ ~ NothingToDo(b)'
  <2>1. CASE pc[q] = "iderw" /\ arg'[q] = arg[q] /\ held'[q] = held[q]
    <3>1. PICK b \in held[q] : b = arg[q] /\ ~ NothingToDo(b) /\ b \in Bufs /\ locked[b] /\ pid[b] = q
      BY <2>1 DEF PanicInv, LockInv, Types, ProcTypes
    <3>2. CASE ~ ideintr
      BY <2>1, <3>1, <3>2, ToDoStep
    <3>3. CASE ideintr
      <4>1. drive # Nobody
        BY <3>3 DEF ideintr, DriveInv
      <4>2. b # Head(idequeue)
        BY <2>1, <3>1, <4>1, First, NotQueued
      <4>3. ~ NothingToDo(b)'
        BY <3>1, <3>3, <4>2 DEF ideintr, NothingToDo, Types, BufTypes
      <4> QED
        BY <2>1, <3>1, <4>3
    <3> QED
      BY <3>2, <3>3
  <2>2. CASE acquiresleep(q)
    <3>1. /\ arg[q] \in Bufs /\ ~ valid[arg[q]] /\ UNCHANGED <<valid, arg>>
          /\ arg[q] \in held'[q]
      BY <1>1, <2>2 DEF acquiresleep, PlaceInv, Return, Goto, blockVars, Types, ProcTypes
    <3> QED
      BY <3>1 DEF NothingToDo
  <2>3. CASE \E b \in Bufs : bwrite(q, b)
    <3>1. PICK b \in Bufs : bwrite(q, b)
      BY <2>3
    <3>2. holdingsleep(q, b) /\ b \in held'[q]
      BY <3>1 DEF bwrite, LockInv, holdingsleep
    <3>3. dirty'[b] /\ arg'[q] = b
      BY <3>1, <3>2 DEF bwrite, Types, BufTypes, ProcTypes
    <3> QED
      BY <3>2, <3>3 DEF NothingToDo
  <2> QED
    BY <1>1, <2>1, <2>2, <2>3, ToIderw
<1>2. ASSUME NEW q \in Procs, pc'[q] = "panic" PROVE want'[q] \in Blocks
  BY <1>2, ToPanic
<1> QED
  BY <1>1, <1>2 DEF PanicInv, NothingToDo

\* Only bget panics, when every buffer is in use: a process never writes, releases or
\* sends to the disk a buffer that it does not hold or that has nothing to do.
THEOREM CacheOnlyBgetPanics == Spec => []PanicInv
<1>1. Init => PanicInv
  BY DEF Init, PanicInv
<1>2. IInv /\ PanicInv /\ [Next]_vars => PanicInv'
  BY PanicStep
<1> QED
  BY <1>1, <1>2, CacheInvariant, PTL DEF Spec
=============================================================================
