-------------------------------- MODULE Mkfs --------------------------------
(***************************************************************************)
(* mkfs.c: the file system that is on the disk when the kernel first boots, *)
(* as a function of the files it is made from.  Offsets and contents are in *)
(* cells, as in FileData; a directory entry is one cell, the inode number.  *)
(***************************************************************************)
EXTENDS Naturals, Sequences, FiniteSets, SequencesExt

CONSTANTS NDIRECT, NINDIRECT, BSIZE, FSSIZE, BPB,
          LOGSIZE, NINODES,
          IPB,         \* inodes in a block
          Inputs       \* the contents of the files of the command line

\* Blocks of the boot loader, the super block, the log, the inodes and the free map.
nbitmap == FSSIZE \div BPB + 1
ninodeblocks == NINODES \div IPB + 1
nmeta == 2 + LOGSIZE + ninodeblocks + nbitmap

Cells == 0 .. Max({NINDIRECT, BSIZE}) - 1
Slots == 0 .. NDIRECT + 2
Zeroed == [c \in Cells |-> 0]
NewInode == [addrs |-> [s \in Slots |-> 0], size |-> 0]

ROOTINO == 1

Blank == [freeblock |-> nmeta, freeinode |-> ROOTINO,
          block |-> [b \in 1 .. FSSIZE - 1 |-> Zeroed], din |-> <<>>]

\* Reading and writing inodes and blocks of the image.
rinode(m, inum) == m.din[inum]
winode(m, inum, d) == [m EXCEPT !.din[inum] = d]
rsect(m, sec) == m.block[sec]
wsect(m, sec, i, cell) == [m EXCEPT !.block[sec][i] = cell]

\* Inodes are numbered from 1 in the order they are made.
ialloc(m) == [m EXCEPT !.freeinode = @ + 1, !.din = Append(@, NewInode)]

\* freeblock++
Fresh(m) == [m EXCEPT !.freeblock = @ + 1]

\* The block that fbn of a file is reached through, made if there is none.
Top(m, inum, fbn) ==
  LET s == Min({fbn, NDIRECT})
      d == rinode(m, inum) IN
  IF d.addrs[s] # 0 THEN m ELSE winode(Fresh(m), inum, [d EXCEPT !.addrs[s] = m.freeblock])

\* The same for its entry in the indirect block.  mkfs asserts no more than that fbn is
\* below MAXFILE; from NDIRECT + NINDIRECT on there is no such entry.
Mapped(m, inum, fbn) ==
  LET t == Top(m, inum, fbn)
      x == rinode(t, inum).addrs[NDIRECT] IN
  IF fbn < NDIRECT \/ rsect(t, x)[fbn - NDIRECT] # 0 THEN t
  ELSE wsect(Fresh(t), x, fbn - NDIRECT, t.freeblock)

\* iappend, a cell at a time.
AppendCell(m, inum, cell) ==
  LET off == rinode(m, inum).size
      fbn == off \div BSIZE
      t == Mapped(m, inum, fbn)
      d == rinode(t, inum)
      x == IF fbn < NDIRECT THEN d.addrs[fbn] ELSE rsect(t, d.addrs[NDIRECT])[fbn - NDIRECT] IN
  winode(wsect(t, x, off % BSIZE, cell), inum, [d EXCEPT !.size = off + 1])
iappend(m, inum, cells) == FoldLeft(LAMBDA t, c : AppendCell(t, inum, c), m, cells)

\* One file of the command line: an inode, an entry in the root, the content.
AddFile(m, content) ==
  LET t == ialloc(m)
      inum == m.freeinode IN
  iappend(iappend(t, ROOTINO, <<inum>>), inum, content)

\* The size of the root is rounded up to a block.
RootFixed(m) ==
  winode(m, ROOTINO, [rinode(m, ROOTINO) EXCEPT !.size = ((@ \div BSIZE) + 1) * BSIZE])

\* The free map has one block that is written, with the bits below freeblock.
balloc(used) == 1 .. used - 1

\* main.
Image ==
  LET root == iappend(ialloc(Blank), ROOTINO, <<ROOTINO, ROOTINO>>)
      m == RootFixed(FoldLeft(AddFile, root, Inputs)) IN
  [used |-> balloc(m.freeblock), block |-> m.block, dinode |-> m.din]

\* What mkfs asserts, and what it needs but does not: the blocks of a file that it
\* can reach, and a root that does not end with its last block.
MkfsAssumption ==
  /\ Len(Inputs) + 2 < NINODES
  /\ Cardinality(Image.used) < BPB
  /\ \A j \in DOMAIN Inputs : Len(Inputs[j]) <= (NDIRECT + NINDIRECT) * BSIZE
  /\ (Len(Inputs) + 2) % BSIZE # 0
=============================================================================
