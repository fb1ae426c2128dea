------------------------------ MODULE CacheInv ------------------------------
(***************************************************************************)
(* The inductive invariant behind the safety properties of Cache, as a     *)
(* conjunction of named parts.  It holds for any number of processes and   *)
(* buffers, also where bget runs out of buffers and panics.                 *)
(***************************************************************************)
EXTENDS Cache

BufTypes ==
  /\ blockno \in [Bufs -> Blocks \cup {NoBlock}]
  /\ refcnt \in [Bufs -> Nat]
  /\ valid \in [Bufs -> BOOLEAN] /\ dirty \in [Bufs -> BOOLEAN]
  /\ data \in [Bufs -> Data]
  /\ locked \in [Bufs -> BOOLEAN] /\ pid \in [Bufs -> Procs \cup {Nobody}]
  /\ lru \in [Bufs -> Bufs]

DiskTypes ==
  /\ disk \in [Blocks -> Data]
  /\ idequeue \in Seq(Bufs)
  /\ irq \in BOOLEAN

DriveType == drive \in {Nobody} \cup [buf : Bufs, write : BOOLEAN, data : Data]

ProcTypes ==
  /\ lk \in [Bufs -> Procs \cup {Nobody}]
  /\ idelock \in Procs \cup {Nobody}
  /\ pc \in [Procs -> {"run", "bget", "acquiresleep", "iderw", "wait", "sleep",
                       "asleep", "brelse", "panic"}]
  /\ arg \in [Procs -> Bufs \cup {Nobody}]
  /\ want \in [Procs -> Blocks \cup {NoBlock}]
  /\ held \in [Procs -> SUBSET Bufs]
  /\ calls \in [Procs -> Nat]

ChanType == chan \in [Procs -> ({"lock", "request"} \X Bufs) \cup {NoChan}]

Types == BufTypes /\ DiskTypes /\ DriveType /\ ProcTypes /\ ChanType

\* Where a process is says what it is there for.
PlaceInv ==
  \A p \in Procs :
    /\ pc[p] \in {"run", "bget"} => arg[p] = Nobody
    /\ pc[p] = "bget" => want[p] \in Blocks
    /\ pc[p] \in {"acquiresleep", "iderw", "wait", "sleep", "asleep", "brelse"} => arg[p] \in Bufs
    /\ pc[p] \in {"sleep", "asleep"} => chan[p] \in {LockOf(arg[p]), Request(arg[p])}
    /\ pc[p] = "wait" => chan[p] = Request(arg[p])

\* held, locked and pid agree.
LockInv ==
  /\ \A p \in Procs : \A b \in held[p] : locked[b] /\ pid[b] = p
  /\ \A b \in Bufs : locked[b] => pid[b] \in Procs /\ b \in held[pid[b]]

\* A block has at most one buffer, and a buffer in use has a block.
BlockInv ==
  /\ \A b, c \in Bufs : blockno[b] = blockno[c] /\ blockno[b] \in Blocks => b = c
  /\ \A b \in Bufs : refcnt[b] > 0 => blockno[b] \in Blocks

\* Process p has a request for buffer b at the disk.
Requested(p, b) ==
  /\ b \in held[p] /\ arg[p] = b
  /\ pc[p] \in {"sleep", "asleep", "wait"} /\ chan[p] = Request(b)

\* What is held is read, or about to be.
ValidInv ==
  \A p \in Procs : \A b \in held[p] :
    valid[b] \/ (arg[p] = b /\ pc[p] \in {"iderw", "panic"}) \/ Requested(p, b)

\* Each request is there once, belongs to a process and has something to do.
QueueInv ==
  /\ \A i, j \in DOMAIN idequeue : idequeue[i] = idequeue[j] => i = j
  /\ \A i \in DOMAIN idequeue : \E p \in Procs : Requested(p, idequeue[i])
  /\ \A i \in DOMAIN idequeue : ~ NothingToDo(idequeue[i])

\* The drive works on the first request, for what is in its buffer.
DriveInv ==
  /\ drive = Nobody <=> idequeue = <<>>
  /\ drive # Nobody => drive = Command(Head(idequeue))
  /\ irq => /\ drive # Nobody
            /\ drive.write => disk[blockno[drive.buf]] = drive.data

\* A buffer that is clean has what is on the disk.
CleanInv ==
  \A b \in Bufs :
    /\ dirty[b] => valid[b]
    /\ valid[b] => blockno[b] \in Blocks
    /\ valid[b] /\ ~ dirty[b] => data[b] = disk[blockno[b]]

IInv == /\ Types /\ PlaceInv /\ LockInv /\ BlockInv /\ RefcntRight /\ ValidInv
        /\ QueueInv /\ DriveInv /\ CleanInv

\* What bwrite, brelse and iderw panic about does not happen: a process at iderw holds
\* its buffer and has something to do, and who panicked was looking for a buffer.
PanicInv ==
  \A p \in Procs :
    /\ pc[p] = "iderw" => arg[p] \in held[p] /\ ~ NothingToDo(arg[p])
    /\ pc[p] = "panic" => want[p] \in Blocks
=============================================================================
