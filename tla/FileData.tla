------------------------------ MODULE FileData ------------------------------
(***************************************************************************)
(* The content of files in proj_filesystem: balloc and bfree, bmap and      *)
(* itrunc with single, double and triple indirect blocks, readi and writei  *)
(* (fs.c), and the loop of filewrite that cuts a write into transactions    *)
(* (file.c).                                                                *)
(*                                                                         *)
(* One process per open file writes, reads and at last unlinks it.  A step  *)
(* is what happens under the lock of one buffer of the free map: a block    *)
(* written through bmap, or a block freed.  Disk blocks hold cells, block   *)
(* numbers in an index block and data in others; unit of offset is a cell.  *)
(***************************************************************************)
EXTENDS Naturals, Sequences, FiniteSets, SequencesExt

CONSTANTS Files,        \* inodes, each with a process that uses it
          NDIRECT, NINDIRECT,
          BSIZE,        \* cells of data in a block
          FSSIZE,       \* blocks the free map describes
          BPB,          \* bits of a block of the free map
          MAXOPBLOCKS,  \* blocks begin_op reserves for a transaction
          Disk,         \* the disk at boot: its free map, blocks and inodes
          Meta,         \* blocks of the log, the inodes and the free map
          Host,         \* what the files hold at boot
          Workloads     \* file -> the sizes its process writes, and bounds: how often it
                        \* does, and may remove the file

ASSUME DataAssumption ==
  /\ {NDIRECT, NINDIRECT, BSIZE, FSSIZE, BPB} \subseteq Nat \ {0}
  /\ MAXOPBLOCKS \in Nat /\ MAXOPBLOCKS >= 6
  /\ Files \subseteq Nat \ {0}
  /\ \A w \in Workloads : w \in [Files -> [sizes : SUBSET (Nat \ {0}), writes : Nat, removes : Nat]]

NDOUBLEINDIRECT == NINDIRECT * NINDIRECT
NTRIPLEINDIRECT == NDOUBLEINDIRECT * NINDIRECT
MAXFILE == NDIRECT + NINDIRECT + NDOUBLEINDIRECT + NTRIPLEINDIRECT

Slots == 0 .. NDIRECT + 2       \* addrs[]
Cells == 0 .. Max({NINDIRECT, BSIZE}) - 1
Bnos == 1 .. FSSIZE - 1
Zeroed == [c \in Cells |-> 0]
Empty == [addrs |-> [s \in Slots |-> 0], size |-> 0]
ROOTINO == 1

VARIABLES used,       \* blocks marked in the free map
          block,      \* content of the blocks
          inode,      \* in-memory inodes
          dinode,     \* as iupdate last copied them
          call,       \* what each file's process is doing
          logged,     \* blocks its transaction has given to log_write
          written,    \* history: what should be in each file
          work,       \* the workload
          panic

diskVars == <<used, block>>
vars == <<used, block, inode, dinode, call, logged, written, work, panic>>

\* The blocks a transaction logs: of the free map, of an inode, of a file.
BBLOCK(b) == <<"free map", b \div BPB>>
IBLOCK(f) == <<"inode", f>>
Block(b) == <<"block", b>>

Idle == [at |-> "idle", off |-> 0, end |-> 0, chunk |-> 0, value |-> 0,
         todo |-> <<>>, writes |-> 0, removes |-> 0]

Init ==
  /\ used = Disk.used /\ block = Disk.block
  /\ dinode = [f \in Files |-> IF f \in DOMAIN Disk.dinode THEN Disk.dinode[f] ELSE Empty]
  /\ inode = dinode
  /\ call = [f \in Files |-> Idle]
  /\ logged = [f \in Files |-> {}]
  /\ written = Host
  /\ work \in Workloads
  /\ panic = FALSE

----------------------------------------------------------------------------
(* balloc, bfree and bmap, as functions of what they read and change:      *)
(* s is [used, block, addrs, log, at, panic].                              *)

FreeBlocks(s) == Bnos \ s.used

\* The lowest free block, zeroed; panic("balloc: out of blocks") without one.
balloc(s) ==
  IF FreeBlocks(s) = {} THEN [s EXCEPT !.panic = TRUE] ELSE
  LET b == Min(FreeBlocks(s)) IN
  [s EXCEPT !.used = @ \cup {b}, !.block[b] = Zeroed,
            !.log = @ \cup {BBLOCK(b), Block(b)}, !.at = b]

\* Mutant: the middle index of a triple indirect block is not reduced.
Route_high(bn) ==
  IF bn < NDIRECT + NINDIRECT THEN [slot |-> Min({bn, NDIRECT}), path |->
       IF bn < NDIRECT THEN <<>> ELSE <<bn - NDIRECT>>]
  ELSE [slot |-> NDIRECT + 1, path |->
    LET b == bn - NDIRECT - NINDIRECT
    IN <<(b \div NINDIRECT) % NINDIRECT, b % NINDIRECT>>]

\* Which entry of addrs[] leads to block bn of a file, and the entries of the index
\* blocks from there.
Route(bn) ==
  LET b1 == bn - NDIRECT
      b2 == b1 - NINDIRECT
      b3 == b2 - NDOUBLEINDIRECT IN
  CASE bn < NDIRECT -> [slot |-> bn, path |-> <<>>]
    [] bn >= NDIRECT /\ b1 < NINDIRECT -> [slot |-> NDIRECT, path |-> <<b1>>]
    [] bn >= NDIRECT + NINDIRECT /\ b2 < NDOUBLEINDIRECT ->
         [slot |-> NDIRECT + 1, path |-> <<b2 \div NINDIRECT, b2 % NINDIRECT>>]
    [] OTHER ->
         [slot |-> NDIRECT + 2,
          path |-> <<b3 \div NDOUBLEINDIRECT, (b3 % NDOUBLEINDIRECT) \div NINDIRECT,
                     b3 % NINDIRECT>>]

\* From index block s.at through its entry i, allocating what is missing.
Descend(s, i) ==
  LET next == s.block[s.at][i] IN
  IF next # 0 THEN [s EXCEPT !.at = next]
  ELSE LET t == balloc(s) IN
       [t EXCEPT !.block[s.at][i] = t.at, !.log = @ \cup {Block(s.at)}]

bmap(s, bn) ==
  LET r == Route(bn)
      top == IF s.addrs[r.slot] # 0 THEN [s EXCEPT !.at = s.addrs[r.slot]]
             ELSE LET t == balloc(s) IN [t EXCEPT !.addrs[r.slot] = t.at]
  IN FoldLeft(Descend, top, r.path)

\* What bmap sees of file f.
View(f) == [used |-> used, block |-> block, addrs |-> inode[f].addrs,
            log |-> logged[f], at |-> 1, panic |-> FALSE]

\* readi of n cells at off, cell by cell, or what it returns instead.
readi(f, off, n) ==
  IF off > inode[f].size THEN "error" ELSE
  [k \in 1 .. Min({n, inode[f].size - off}) |->
     block[bmap(View(f), (off + k - 1) \div BSIZE).at][(off + k - 1) % BSIZE]]

----------------------------------------------------------------------------
(* filewrite and writei.                                                   *)

\* Bytes of a write that go into one transaction.
max == ((MAXOPBLOCKS - 1 - 1 - 2) \div 2) * BSIZE

\* A program writes n cells at the offset of its file; what it writes tells its calls
\* apart.
filewrite(f, n) ==
  /\ f # ROOTINO /\ call[f].at = "idle" /\ call[f].writes < work[f].writes
  /\ call' = [call EXCEPT ![f].at = "chunk", ![f].end = call[f].off + n,
                          ![f].value = call[f].writes + 1, ![f].writes = @ + 1]
  /\ UNCHANGED <<diskVars, inode, dinode, logged, written, panic>>

\* The entries of the root, and the first that is empty or the end.
Entries == readi(ROOTINO, 0, inode[ROOTINO].size)
FirstEmpty == Min({o \in 0 .. Len(Entries) : o = Len(Entries) \/ Entries[o + 1] = 0})

\* One entry of the root is written: at most the size of a chunk.
WriteEntry(off, inum) ==
  /\ call[ROOTINO].at = "idle" /\ call[ROOTINO].writes < work[ROOTINO].writes
  /\ call' = [call EXCEPT ![ROOTINO].at = "chunk", ![ROOTINO].off = off, ![ROOTINO].end = off + 1,
                          ![ROOTINO].value = inum, ![ROOTINO].writes = @ + 1]
  /\ UNCHANGED <<diskVars, inode, dinode, logged, written, panic>>

\* A new file gets an entry; unlink clears one that is not "." or "..".
dirlink == WriteEntry(FirstEmpty, Max(Files) + 1 + call[ROOTINO].writes)
unlink == \E o \in 2 .. Len(Entries) - 1 : Entries[o + 1] # 0 /\ WriteEntry(o, 0)

\* open again: the offset starts at 0, and writes go over what is there.
open(f) ==
  /\ f # ROOTINO /\ call[f].at = "idle" /\ call[f].off > 0
  /\ call' = [call EXCEPT ![f].off = 0]
  /\ UNCHANGED <<diskVars, inode, dinode, logged, written, panic>>

\* begin_op and the checks of writei; a chunk that would end beyond the largest file
\* ends the call with -1, after the chunks before it.
writei(f) ==
  /\ call[f].at = "chunk"
  /\ LET next == Min({call[f].end, call[f].off + max}) IN
     IF next > MAXFILE * BSIZE
     THEN call' = [call EXCEPT ![f].at = "idle"] /\ UNCHANGED logged
     ELSE /\ call' = [call EXCEPT ![f].at = "writei", ![f].chunk = next]
          /\ logged' = [logged EXCEPT ![f] = {}]
  /\ UNCHANGED <<diskVars, inode, dinode, written, panic>>

\* History: cells from .. to-1 of file w become v.
Over(w, from, to, v) ==
  [o \in 1 .. Max({Len(w), to}) |-> IF o > from /\ o <= to THEN v ELSE w[o]]

\* One turn of the loop of writei: the cells that fall into one block.
writei_block(f) ==
  /\ call[f].at = "writei" /\ call[f].off < call[f].chunk
  /\ LET off == call[f].off
         to == Min({call[f].chunk, off + BSIZE - (off % BSIZE)})
         s == bmap(View(f), off \div BSIZE) IN
     /\ panic' = s.panic
     /\ used' = s.used
     /\ block' = [s.block EXCEPT ![s.at] = [c \in Cells |->
                    IF c \in (off % BSIZE) .. ((to - 1) % BSIZE) THEN call[f].value ELSE @[c]]]
     /\ inode' = [inode EXCEPT ![f].addrs = s.addrs]
     /\ logged' = [logged EXCEPT ![f] = s.log \cup {Block(s.at)}]
     /\ written' = [written EXCEPT ![f] = Over(@, off, to, call[f].value)]
     /\ call' = [call EXCEPT ![f].off = to]
  /\ UNCHANGED dinode

\* The inode in memory is copied to the disk.
iupdate(f) ==
  /\ dinode' = [dinode EXCEPT ![f] = inode'[f]]
  /\ logged' = [logged EXCEPT ![f] = @ \cup {IBLOCK(f)}]

NewSize(f) == Max({call[f].off, inode[f].size})

\* Mutant: the inode is not written when the file has grown.
Updates_not(f) == FALSE

\* The file has grown: iupdate.
Updates(f) == call[f].off > inode[f].size

\* The end of writei, iunlock and end_op.
writei_end(f) ==
  /\ call[f].at = "writei" /\ call[f].off = call[f].chunk
  /\ inode' = [inode EXCEPT ![f].size = NewSize(f)]
  /\ IF Updates(f) THEN iupdate(f) ELSE UNCHANGED <<dinode, logged>>
  /\ call' = [call EXCEPT ![f].at = IF call[f].off < call[f].end THEN "chunk" ELSE "idle"]
  /\ UNCHANGED <<diskVars, written, panic>>

----------------------------------------------------------------------------
(* itrunc, when the last reference to an unlinked file goes (iput).        *)

\* The blocks below index block b of depth d and b itself, as the nested loops
\* free them: children first.
Below[d \in 0 .. 3, b \in Bnos] ==
  IF d = 0 THEN <<b>>
  ELSE FlattenSeq([i \in 1 .. NINDIRECT |->
         IF block[b][i - 1] = 0 THEN <<>> ELSE Below[d - 1, block[b][i - 1]]]) \o <<b>>

Depth(s) == IF s < NDIRECT THEN 0 ELSE s - NDIRECT + 1

\* Mutant: the blocks of the third level are forgotten.
ToFree_double(f) == FlattenSeq([s \in 1 .. NDIRECT + 2 |->
  IF inode[f].addrs[s - 1] = 0 THEN <<>> ELSE Below[Depth(s - 1), inode[f].addrs[s - 1]]])

ToFree(f) == FlattenSeq([s \in 1 .. NDIRECT + 3 |->
  IF inode[f].addrs[s - 1] = 0 THEN <<>> ELSE Below[Depth(s - 1), inode[f].addrs[s - 1]]])

itrunc(f) ==
  /\ f # ROOTINO /\ call[f].at = "idle" /\ inode[f].size > 0
  /\ call[f].removes < work[f].removes
  /\ call' = [call EXCEPT ![f].at = "itrunc", ![f].todo = ToFree(f), ![f].removes = @ + 1]
  /\ logged' = [logged EXCEPT ![f] = {}]
  /\ UNCHANGED <<diskVars, inode, dinode, written, panic>>

\* panic("freeing free block") if it is.
bfree(f) ==
  /\ call[f].at = "itrunc" /\ call[f].todo # <<>>
  /\ LET b == Head(call[f].todo) IN
     /\ panic' = (b \notin used)
     /\ used' = used \ {b}
     /\ logged' = [logged EXCEPT ![f] = @ \cup {BBLOCK(b)}]
  /\ call' = [call EXCEPT ![f].todo = Tail(@)]
  /\ UNCHANGED <<block, inode, dinode, written>>

itrunc_end(f) ==
  /\ call[f].at = "itrunc" /\ call[f].todo = <<>>
  /\ inode' = [inode EXCEPT ![f] = Empty]
  /\ iupdate(f)
  /\ written' = [written EXCEPT ![f] = <<>>]
  /\ call' = [call EXCEPT ![f].at = "idle", ![f].off = 0]
  /\ UNCHANGED <<diskVars, panic>>

----------------------------------------------------------------------------

Finished == /\ panic \/ \A f \in Files : call[f].at = "idle" /\ call[f].writes = work[f].writes
            /\ UNCHANGED vars

Next ==
  \/ /\ ~ panic /\ UNCHANGED work
     /\ \/ dirlink \/ unlink
        \/ \E f \in Files :
             \/ \E n \in work[f].sizes : filewrite(f, n)
             \/ open(f) \/ writei(f) \/ writei_block(f) \/ writei_end(f)
             \/ itrunc(f) \/ bfree(f) \/ itrunc_end(f)
  \/ Finished

Spec == Init /\ [][Next]_vars

----------------------------------------------------------------------------
(* Properties.                                                             *)

\* A file reads back what was written to it by the kernel or by mkfs, cell for cell, at
\* every level of indirection, after any sequence of writes, overwrites and removals of
\* others; reading allocates nothing.
ReadsBack ==
  \A f \in Files : call[f].at \in {"idle", "chunk"} =>
    /\ readi(f, 0, inode[f].size + 1) = written[f]
    /\ \A o \in 0 .. inode[f].size - 1 : bmap(View(f), o \div BSIZE).used = used

\* The free map is exact: no block is in two places, in none, or freed twice.  Blocks
\* an unfinished itrunc has yet to free count as the file's.
MapExact ==
  LET owns == [f \in Files |-> IF call[f].at = "itrunc" THEN call[f].todo ELSE ToFree(f)]
      sets == [f \in Files |-> ToSet(owns[f])]
  IN /\ \A f \in Files : Cardinality(sets[f]) = Len(owns[f])
     /\ Cardinality(used \ Meta) = FoldFunction(+, 0, [f \in Files |-> Len(owns[f])])
     /\ used = Meta \cup UNION {sets[f] : f \in Files}
     /\ ~ panic

\* Outside a transaction the inode on disk is the one in memory: what bmap changes in
\* addrs[] is never left to a later iupdate, which a crash would lose.
InodeOnDisk ==
  \A f \in Files : call[f].at \in {"idle", "chunk"} => dinode[f] = inode[f]

\* Both, so that a crash finds the free map and the inodes it belongs to.
BlocksRight == MapExact /\ InodeOnDisk

\* MAXOPBLOCKS is what the comment in param.h says: no transaction logs more blocks.
TxnFits == \A f \in Files : Cardinality(logged[f]) <= MAXOPBLOCKS
=============================================================================
