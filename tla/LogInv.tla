------------------------------- MODULE LogInv -------------------------------
(***************************************************************************)
(* The inductive invariant behind the safety properties of Log, as a       *)
(* conjunction of named parts.  CountInv holds with sync; the other parts  *)
(* hold when nobody calls sync and an operation logs no more blocks than   *)
(* begin_op reserves for it.                                               *)
(***************************************************************************)
EXTENDS Log

\* The geometry and the workload the file system was designed for.
Disciplined == Syncers = {} /\ OpBlocks <= MAXOPBLOCKS

CommitPCs == {"commit", "write_log", "write_head", "install_trans", "clear",
              "erase", "unlock"}

\* The operations log.outstanding counts.
Counted == {o \in Ops : pc[o] \in {"run", "append", "panic"}}

\* Who may be where: log.outstanding and log.committing say what they mean.
CountInv ==
  /\ outstanding = Cardinality(Counted)
  /\ committing <=> \E o \in Ops : pc[o] \in CommitPCs
  /\ committing => Counted = {}
  /\ \A o, p \in Ops : pc[o] \in CommitPCs /\ pc[p] \in CommitPCs => o = p
  /\ \A o \in Ops : pc[o] \notin {"read_head", "up"}
  /\ pc[Boot] \in {"read_head", "install_trans", "clear", "erase", "up"}
  /\ pc[Boot] # "up" =>
       \A a \in Ops \cup Syncers : pc[a] \in {"idle", "done", "dead"}
  /\ \A o \in Ops : arg[o] # NoBlock <=> pc[o] = "append"

\* The reservations not yet used: one token for every block a running operation
\* may still add to the log.
Tokens == {t \in Ops \X (1..MAXOPBLOCKS) :
             t[1] \in Counted /\ t[2] > Cardinality(wrote[t[1]])}

\* The log never outgrows its header.
SpaceInv ==
  /\ \A o \in Ops :
       /\ IsFiniteSet(wrote[o])
       /\ pc[o] \in {"idle", "begin", "asleep"} => wrote[o] = {}
       /\ o \in Counted => wrote[o] \subseteq RangeOf(lh)
       /\ pc[o] = "append" => Cardinality(wrote[o] \cup {arg[o]}) <= OpBlocks
  /\ Len(lh) + Cardinality(Tokens) <= LOGSIZE
  /\ Len(head) <= LOGSIZE

NoDup(s) == \A i, j \in DOMAIN s : s[i] = s[j] => i = j

\* What the log, the cache and the home blocks say of each other, by the place
\* of the one actor that commits or recovers.
WriteLogInv(a) ==
  pc[a] = "write_log" =>
    tail[a] <= Len(lh) /\ \A i \in 1..tail[a] : logd[i] = cache[lh[i]]

WriteHeadInv(a) ==
  pc[a] = "write_head" => \A i \in 1..Len(lh) : logd[i] = cache[lh[i]]

InstallInv(a) ==
  pc[a] = "install_trans" =>
    /\ head = lh
    /\ tail[a] <= Len(lh)
    /\ \A i \in 1..tail[a] : disk[lh[i]] = logd[i]
    /\ IF a = Boot
         THEN dirty = {}
         ELSE /\ dirty = {lh[i] : i \in tail[a]+1 .. Len(lh)}
              /\ \A i \in 1..Len(lh) : cache[lh[i]] = logd[i]

ClearInv(a) ==
  pc[a] = "clear" =>
    head = lh /\ dirty = {} /\ \A i \in 1..Len(lh) : disk[lh[i]] = logd[i]

EraseInv(a) ==
  pc[a] = "erase" =>
    /\ lh = <<>>
    /\ dirty = {}
    /\ \A i \in 1..Len(head) : disk[head[i]] = logd[i]

Installing == \E a \in Ops \cup {Boot} : pc[a] \in {"install_trans", "clear", "erase"}

ContentInv ==
  /\ NoDup(lh) /\ NoDup(head)
  /\ \A b \in Blocks \ dirty : cache[b] = disk[b]
  /\ pc[Boot] = "read_head" => lh = <<>> /\ dirty = {}
  /\ pc[Boot] = "up" /\ ~ Installing => head = <<>> /\ dirty = RangeOf(lh)
  /\ pc[Boot] = "up" /\ Counted = {} /\ ~ committing => lh = <<>>
  /\ \A a \in Ops \cup {Boot} :
       /\ WriteLogInv(a) /\ WriteHeadInv(a)
       /\ InstallInv(a) /\ ClearInv(a) /\ EraseInv(a)
       /\ pc[a] = "unlock" => lh = <<>>

IInv == TypeOK /\ CountInv /\ SpaceInv /\ ContentInv

\* An operation that has not begun has left no trace.
Fresh(o) == pc[o] \in {"idle", "begin", "asleep"}

\* What the atomic store says of single operations.
HistoryInv ==
  /\ \A o \in Active : \A b \in wrote[o] : o \in View[b]
  /\ \A o \in Ops : (\E b \in Blocks : o \in View[b]) => \A b \in wrote[o] : o \in View[b]
  /\ AllOrNothing
  /\ \A o \in Ops, b \in Blocks : Fresh(o) => o \notin View[b] /\ o \notin Recovered[b]
  /\ \A b \in Blocks : Recovered[b] \subseteq View[b]

\* An operation leaves one block of what begin_op reserves for it, and the log mkfs makes
\* is not smaller than LOGSIZE, nor so small that one operation fills it.
Roomy == OpBlocks < MAXOPBLOCKS /\ LOGSIZE <= NLOG /\ OpBlocks + 1 < LOGSIZE

\* One claim for every block a running operation may still add, by what it logs at most.
Claims == {t \in Ops \X (1..OpBlocks) :
             t[1] \in Counted /\ t[2] > Cardinality(wrote[t[1]])}

\* Two blocks of the log stay free while operations run: each of two leaves one of its
\* reservation, and one that began alone found the log empty.
Tight(n) == n <= LOGSIZE - 2 \/ n <= OpBlocks
TightInv == Counted # {} => Tight(Len(lh) + Cardinality(Claims))
=============================================================================
