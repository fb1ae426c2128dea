------------------------------- MODULE Names -------------------------------
(***************************************************************************)
(* Inodes, directories and path names (proj_filesystem): the inode part of  *)
(* fs.c, the calls of sysfile.c that look names up or change them, and the  *)
(* processes that make them.                                                *)
(*                                                                         *)
(* The inode cache is write-through (iupdate, under the lock of the inode), *)
(* so that inode[i] is both the copy in memory and the one on disk; what    *)
(* FileData says of blocks and Log of transactions is left out.  A step     *)
(* ends where a sleep lock may be waited for, so that every wait with a     *)
(* lock in hand is a state of the model.  Programs are lists of calls.      *)
(***************************************************************************)
EXTENDS Naturals, Sequences, FiniteSets, SequencesExt

CONSTANTS NPROC,
          ninodes,    \* inodes on the disk
          NINODE,     \* slots of the inode cache
          NFILE,      \* slots of the file table
          DIRSIZ,     \* characters of a name
          Files,      \* names of the files mkfs puts into the root
          Programs,   \* name -> sequence of calls
          Scripts,    \* what may run together: sequences of program names
          Typing,     \* script -> what may be typed while it runs
          INPUT_BUF, UINT

\* The variables of a program that hold a descriptor.
Variables == {"fd", "fd1"}
Sequence(s) == s = [j \in 1 .. Len(s) |-> s[j]] /\ Len(s) \in Nat

ASSUME NamesAssumption ==
  /\ {NPROC, ninodes, NINODE, NFILE, DIRSIZ} \subseteq Nat \ {0}
  /\ IsFiniteSet(Files) /\ Cardinality(Files) < ninodes
  /\ \A s \in Scripts : s \in Seq(DOMAIN Programs) /\ Len(s) <= NPROC
  /\ \A x \in DOMAIN Programs : \A j \in DOMAIN Programs[x] :
       LET c == Programs[x][j] IN
       /\ c.op \in {"open", "close", "read", "write"} => c.fd \in Variables
       /\ c.op = "fork" => c.child \in DOMAIN Programs
       /\ Sequence(c.path) /\ Sequence(c.new)
  /\ DOMAIN Typing = Scripts
  /\ {INPUT_BUF, UINT} \subseteq Nat \ {0} /\ UINT > INPUT_BUF /\ UINT % INPUT_BUF = 0

Tty == INSTANCE Console

Procs == 1 .. NPROC
Inums == 1 .. ninodes
ROOTINO == 1

Free == [type |-> "none", nlink |-> 0, entries |-> {}, data |-> <<>>]

\* A slot of ptable that no process has; wait makes it so again.
Unused == [prog |-> "", pc |-> 1, wrong |-> FALSE, kids |-> {}, at |-> "unused", cwd |-> 0,
           fds |-> [v \in Variables |-> 0],
           ip |-> 0, dp |-> 0, old |-> 0, path |-> <<>>,
           got |-> <<>>,                             \* read from the console
           puts |-> <<>>, put |-> "lock"]   \* the inodes to iput before anything else

NoFile == [ref |-> 0, ip |-> 0, off |-> 0, omode |-> {}]

VARIABLES inode,    \* type, nlink, entries of a directory, data of a file: its tokens
          icache,   \* ref, valid, the holder of the sleep lock; lost: see Late
          files, proc, panic,
          input, keys  \* of the console; the keys that are still to be typed

consoleVars == <<input, keys>>
vars == <<inode, icache, files, proc, panic, consoleVars>>

\* The file system mkfs makes, and the processes with the root for cwd.
Init ==
  LET named == SetToSeq(Files) IN
  /\ inode = [i \in Inums |->
       IF i = ROOTINO
       THEN [type |-> "T_DIR", nlink |-> 1, data |-> <<>>,
             entries |-> {<<".", ROOTINO>>, <<"..", ROOTINO>>} \cup
                         {<<named[j], j + 1>> : j \in DOMAIN named}]
       ELSE IF i - 1 \in DOMAIN named THEN [Free EXCEPT !.type = "T_FILE", !.nlink = 1]
       ELSE Free]
  /\ files = [f \in 1 .. NFILE |-> NoFile]
  /\ \E s \in Scripts :
       /\ keys \in Typing[s]
       /\ proc = [p \in Procs |->
            IF p \in DOMAIN s
            THEN [Unused EXCEPT !.prog = s[p], !.at = "user", !.cwd = ROOTINO] ELSE Unused]
       /\ icache = [i \in Inums |->
            [ref |-> IF i = ROOTINO THEN Len(s) ELSE 0, valid |-> FALSE, lock |-> 0,
             lost |-> FALSE]]
  /\ panic = FALSE /\ input = Tty!Empty

----------------------------------------------------------------------------
(* Calls and what they return.                                             *)

Op(k) == IF k.pc \in DOMAIN Programs[k.prog] THEN Programs[k.prog][k.pc] ELSE [op |-> "exit"]

\* Process p is at place a, with no iput under way.
At(p, a) == proc[p].at = a /\ proc[p].puts = <<>>
Calls(p, call) == At(p, "user") /\ Op(proc[p]).op = call

Is(p, k) == proc' = [proc EXCEPT ![p] = k]

\* The call returns r, once the iputs are done.
Ret(k, r, puts) ==
  [k EXCEPT !.at = "user", !.pc = @ + 1, !.wrong = @ \/ Op(k).expect \notin {"any", r},
            !.ip = 0, !.dp = 0, !.old = 0, !.path = <<>>, !.got = <<>>, !.puts = puts,
            !.fds = IF Op(k).op = "open" THEN [@ EXCEPT ![Op(k).fd] = 0] ELSE @]

----------------------------------------------------------------------------
(* The inode cache.                                                        *)

\* iget and idup on cache ic.
iget(ic, i) == [ic EXCEPT ![i].ref = @ + 1]
NoSlot(i) == icache[i].ref = 0 /\ Cardinality({j \in Inums : icache[j].ref > 0}) >= NINODE

\* ilock must wait, or finds that the inode was freed.
Unlocked(i) == icache[i].lock = 0
NoType(i) == ~ icache[i].valid /\ inode[i].type = "none"

\* The inode was locked, and is read from disk; p keeps the lock (0: it is free again).
ilock(ic, i, p) == [ic EXCEPT ![i].valid = TRUE, ![i].lock = p]
iunlock(ic, i) == [ic EXCEPT ![i].lock = 0]

\* Mutant: counts the references that will be left.
LastRef_left(i) == icache[i].ref = 0

LastRef(i) == icache[i].ref = 1

\* All other references are of processes that have decided not to free the inode, and
\* have not given them up yet: iput will free it no more.  (What the program does not
\* know, a property does.)
Leaving(i) == {q \in Procs : proc[q].put = "deref" /\ Head(proc[q].puts) = i}
Late(i) ==
  /\ inode[i].nlink = 0 /\ icache[i].valid
  /\ icache[i].ref = 1 + Cardinality(Leaving(i))
  /\ icache[i].ref > 1

\* iput: under the lock, is this the last reference to an inode without links?
iput(p) ==
  /\ proc[p].puts # <<>> /\ proc[p].put = "lock"
  /\ LET i == Head(proc[p].puts) IN
     /\ Unlocked(i)
     /\ IF icache[i].valid /\ inode[i].nlink = 0 /\ LastRef(i)
        THEN icache' = [icache EXCEPT ![i].lock = p] /\ Is(p, [proc[p] EXCEPT !.put = "free"])
        ELSE /\ icache' = [icache EXCEPT ![i].lost = @ \/ Late(i)]
             /\ Is(p, [proc[p] EXCEPT !.put = "deref"])
  /\ UNCHANGED <<inode, files, panic>>

iput_free(p) ==
  /\ proc[p].put = "free"
  /\ LET i == Head(proc[p].puts) IN
     /\ inode' = [inode EXCEPT ![i] = Free]
     /\ icache' = [icache EXCEPT ![i].valid = FALSE, ![i].lock = 0]
  /\ Is(p, [proc[p] EXCEPT !.put = "deref"])
  /\ UNCHANGED <<files, panic>>

\* A slot without references is recycled by the iget that needs one.
iput_deref(p) ==
  /\ proc[p].put = "deref"
  /\ LET i == Head(proc[p].puts) IN
     icache' = [icache EXCEPT ![i].ref = @ - 1, ![i].valid = @ /\ icache[i].ref > 1]
  /\ Is(p, [proc[p] EXCEPT !.put = "lock", !.puts = Tail(@)])
  /\ UNCHANGED <<inode, files, panic>>

----------------------------------------------------------------------------
(* Path names.                                                             *)

Elem(name) == IF Len(name) >= DIRSIZ THEN SubSeq(name, 1, DIRSIZ) ELSE name

Named(d, name) == {e \in inode[d].entries : e[1] = name}
dirlookup(d, name) == (CHOOSE e \in Named(d, name) : TRUE)[2]

\* What the walk is for, and whether it stops at the parent.
Goal(k) ==
  CASE Op(k).op = "link" -> IF k.old = 0 THEN "link" ELSE "link_dir"
    [] Op(k).op \in {"mkdir", "mknod"} -> "create"
    [] Op(k).op = "open" /\ "O_CREATE" \in Op(k).omode -> "create"
    [] OTHER -> Op(k).op
nameiparent(k) == Goal(k) \in {"create", "unlink", "link_dir"}

\* Mutant: forgets the reference to the inode it had come to.
Lost_kept(k) ==
  IF k.old = 0 THEN Ret(k, "fail", <<>>)
  ELSE [k EXCEPT !.at = "link_bad", !.ip = 0, !.path = <<>>]

\* namex returns 0; link then has its own to undo.
Lost(k) ==
  IF k.old = 0 THEN Ret(k, "fail", <<k.ip>>)
  ELSE [k EXCEPT !.at = "link_bad", !.ip = 0, !.path = <<>>, !.puts = <<k.ip>>]

\* The end of namex when no element of the path is left.
Walked(k) ==
  IF k.path # <<>> THEN k ELSE IF nameiparent(k) THEN Lost(k) ELSE [k EXCEPT !.at = Goal(k)]

\* The start of namex: a path is a sequence of elements, with "/" in front if absolute.
Start(k, path) == LET abs == path # <<>> /\ path[1] = "/" IN
  [k EXCEPT !.at = "namex", !.ip = IF abs THEN ROOTINO ELSE k.cwd,
            !.path = IF abs THEN Tail(path) ELSE path]

\* A system call with a path begins.
begin(p) ==
  /\ At(p, "user") /\ Op(proc[p]).op \in {"open", "mkdir", "mknod", "chdir", "unlink", "link"}
  /\ LET k == Start(proc[p], Op(proc[p]).path) IN
     /\ Is(p, Walked(k)) /\ icache' = iget(icache, k.ip) /\ panic' = NoSlot(k.ip)
  /\ UNCHANGED <<inode, files>>

\* One turn of the loop, under the lock of one directory.
namex(p) ==
  /\ At(p, "namex")
  /\ LET k == proc[p]  name == Elem(Head(k.path))
         next == dirlookup(k.ip, name)  loaded == ilock(icache, k.ip, 0) IN
     /\ Unlocked(k.ip)
     /\ IF inode[k.ip].type # "T_DIR"
        THEN Is(p, Lost(k)) /\ icache' = loaded /\ panic' = NoType(k.ip)
        ELSE IF nameiparent(k) /\ Len(k.path) = 1
        THEN Is(p, [k EXCEPT !.at = Goal(k)]) /\ icache' = loaded /\ UNCHANGED panic
        ELSE IF Named(k.ip, name) = {}
        THEN Is(p, Lost(k)) /\ icache' = loaded /\ UNCHANGED panic
        ELSE /\ Is(p, Walked([k EXCEPT !.ip = next, !.path = Tail(@), !.puts = <<k.ip>>]))
             /\ icache' = iget(loaded, next) /\ panic' = NoSlot(next)
  /\ UNCHANGED <<inode, files>>

----------------------------------------------------------------------------
(* link.                                                                   *)

Name(k) == Elem(k.path[1])

link(p) ==
  /\ At(p, "link")
  /\ LET k == proc[p]  i == k.ip
         l == Start([k EXCEPT !.old = i], Op(k).new) IN
     /\ Unlocked(i)
     /\ IF inode[i].type = "T_DIR"
        THEN /\ Is(p, Ret(k, "fail", <<i>>))
             /\ icache' = ilock(icache, i, 0) /\ UNCHANGED <<inode, panic>>
        ELSE /\ inode' = [inode EXCEPT ![i].nlink = @ + 1]
             /\ Is(p, Walked(l)) /\ icache' = iget(ilock(icache, i, 0), l.ip)
             /\ panic' = (NoType(i) \/ NoSlot(l.ip))
  /\ UNCHANGED files

\* dirlink: a name that is there is put while the directory is locked.
link_dir(p) ==
  /\ At(p, "link_dir")
  /\ LET k == proc[p]  d == k.ip  there == dirlookup(d, Name(k)) IN
     /\ Unlocked(d)
     /\ IF Named(d, Name(k)) # {}
        THEN /\ icache' = iget(ilock(icache, d, p), there) /\ panic' = NoSlot(there)
             /\ Is(p, [k EXCEPT !.at = "link_exists", !.puts = <<there>>])
             /\ UNCHANGED inode
        ELSE /\ inode' = [inode EXCEPT ![d].entries = @ \cup {<<Name(k), k.old>>}]
             /\ icache' = ilock(icache, d, 0)
             /\ Is(p, Ret(k, "ok", <<d, k.old>>)) /\ UNCHANGED panic
  /\ UNCHANGED files

link_exists(p) ==
  /\ At(p, "link_exists")
  /\ icache' = iunlock(icache, proc[p].ip)
  /\ Is(p, Lost(proc[p]))
  /\ UNCHANGED <<inode, files, panic>>

\* Mutant: the link that was not made stays counted.
Undone_not(n) == n

Undone(n) == n - 1

link_bad(p) ==
  /\ At(p, "link_bad") /\ Unlocked(proc[p].old)
  /\ inode' = [inode EXCEPT ![proc[p].old].nlink = Undone(@)]
  /\ Is(p, Ret(proc[p], "fail", <<proc[p].old>>))
  /\ UNCHANGED <<icache, files, panic>>

----------------------------------------------------------------------------
(* unlink.                                                                 *)

\* Mutant: looks for "." and ".." too.
isdirempty_dots(i) == inode[i].entries = {}

isdirempty(i) == \A e \in inode[i].entries : e[1] \in {".", ".."}

\* The parent is locked, and stays locked while the inode is.
unlink(p) ==
  /\ At(p, "unlink")
  /\ LET k == proc[p]  d == k.ip  i == dirlookup(d, Name(k)) IN
     /\ Unlocked(d)
     /\ IF Name(k) \in {".", ".."} \/ Named(d, Name(k)) = {}
        THEN /\ Is(p, Ret(k, "fail", <<d>>))
             /\ icache' = ilock(icache, d, 0) /\ UNCHANGED panic
        ELSE /\ Is(p, [k EXCEPT !.at = "unlink_ip", !.dp = d, !.ip = i])
             /\ icache' = iget(ilock(icache, d, p), i) /\ panic' = NoSlot(i)
  /\ UNCHANGED <<inode, files>>

unlink_ip(p) ==
  /\ At(p, "unlink_ip")
  /\ LET k == proc[p]  d == k.dp  i == k.ip  dir == inode[i].type = "T_DIR" IN
     /\ Unlocked(i)
     /\ IF dir /\ ~ isdirempty(i)
        THEN /\ icache' = ilock(icache, i, 0)
             /\ Is(p, [k EXCEPT !.at = "unlink_bad", !.ip = 0, !.puts = <<i>>])
             /\ UNCHANGED inode
        ELSE /\ inode' = [inode EXCEPT ![d].entries = @ \ {<<Name(k), i>>},
                                       ![d].nlink = IF dir THEN @ - 1 ELSE @]
             /\ icache' = iunlock(ilock(icache, i, p), d)
             /\ Is(p, [k EXCEPT !.at = "unlink_last", !.dp = 0, !.puts = <<d>>])
     /\ panic' = (NoType(i) \/ inode[i].nlink < 1)
  /\ UNCHANGED files

\* Mutant: the lock of the parent is not released.
Released_not(ic, d) == ic

Released(ic, d) == iunlock(ic, d)

unlink_bad(p) ==
  /\ At(p, "unlink_bad")
  /\ icache' = Released(icache, proc[p].dp)
  /\ Is(p, Ret(proc[p], "fail", <<proc[p].dp>>))
  /\ UNCHANGED <<inode, files, panic>>

unlink_last(p) ==
  /\ At(p, "unlink_last")
  /\ LET i == proc[p].ip IN
     /\ inode' = [inode EXCEPT ![i].nlink = @ - 1]
     /\ icache' = iunlock(icache, i)
     /\ Is(p, Ret(proc[p], "ok", <<i>>))
  /\ UNCHANGED <<files, panic>>

----------------------------------------------------------------------------
(* create, and the calls it is for.                                        *)

Dots(i, d) == {<<".", i>>, <<"..", d>>}
Type(k) == CASE Op(k).op = "mkdir" -> "T_DIR" [] Op(k).op = "mknod" -> "T_DEV" [] OTHER -> "T_FILE"

\* ialloc takes the first inode on the disk that is free.
FreeInums == {i \in Inums : inode[i].type = "none"}
ialloc == Min(FreeInums)

\* The new inode stays locked while the parent is put.
create(p) ==
  /\ At(p, "create")
  /\ LET k == proc[p]  d == k.ip  there == dirlookup(d, Name(k))
         i == ialloc  dir == Type(k) = "T_DIR" IN
     /\ Unlocked(d)
     /\ IF Named(d, Name(k)) # {}
        THEN /\ icache' = iget(ilock(icache, d, 0), there)
             /\ Is(p, [k EXCEPT !.at = "create_found", !.ip = there, !.puts = <<d>>])
             /\ panic' = NoSlot(there) /\ UNCHANGED inode
        ELSE IF FreeInums = {} THEN panic' = TRUE /\ UNCHANGED <<inode, icache, proc>>
        ELSE /\ Unlocked(i)
             /\ inode' = [inode EXCEPT
                  ![d].entries = @ \cup {<<Name(k), i>>},
                  ![d].nlink = IF dir THEN @ + 1 ELSE @,
                  ![i] = [type |-> Type(k), nlink |-> 1,
                          data |-> <<>>, entries |-> IF dir THEN Dots(i, d) ELSE {}]]
             /\ icache' = ilock(iget(ilock(icache, d, 0), i), i, p)
             /\ Is(p, [k EXCEPT !.at = "created", !.ip = i, !.puts = <<d>>])
             /\ panic' = NoSlot(i)
  /\ UNCHANGED files

\* The end of open, mkdir and mknod with inode i locked: it is unlocked, and stays in a
\* file of its own or is put.
Made(p, i) ==
  LET k == proc[p]  unused == {f \in DOMAIN files : files[f].ref = 0}  f == Min(unused) IN
  /\ IF Op(k).op = "open" /\ unused # {}
     THEN /\ files' = [files EXCEPT ![f] = [ref |-> 1, ip |-> i, off |-> 0, omode |-> Op(k).omode]]
          /\ Is(p, [Ret(k, "ok", <<>>) EXCEPT !.fds[Op(k).fd] = f])
     ELSE /\ Is(p, Ret(k, IF Op(k).op = "open" THEN "fail" ELSE "ok", <<i>>))
          /\ UNCHANGED files
  /\ icache' = ilock(icache, i, 0)

Refused(p, i) ==
  /\ Is(p, Ret(proc[p], "fail", <<i>>)) /\ icache' = ilock(icache, i, 0) /\ UNCHANGED files

created(p) == At(p, "created") /\ Made(p, proc[p].ip) /\ UNCHANGED <<inode, panic>>

create_found(p) ==
  /\ At(p, "create_found")
  /\ LET i == proc[p].ip IN
     /\ Unlocked(i)
     /\ IF Type(proc[p]) = "T_FILE" /\ inode[i].type = "T_FILE" THEN Made(p, i) ELSE Refused(p, i)
     /\ panic' = NoType(i)
  /\ UNCHANGED inode

open(p) ==
  /\ At(p, "open")
  /\ LET i == proc[p].ip IN
     /\ Unlocked(i)
     /\ IF inode[i].type = "T_DIR" /\ Op(proc[p]).omode # {} THEN Refused(p, i) ELSE Made(p, i)
     /\ panic' = NoType(i)
  /\ UNCHANGED inode

chdir(p) ==
  /\ At(p, "chdir")
  /\ LET k == proc[p]  i == k.ip IN
     /\ Unlocked(i) /\ icache' = ilock(icache, i, 0)
     /\ IF inode[i].type = "T_DIR" THEN Is(p, [Ret(k, "ok", <<k.cwd>>) EXCEPT !.cwd = i])
        ELSE Is(p, Ret(k, "fail", <<i>>))
     /\ panic' = NoType(i)
  /\ UNCHANGED <<inode, files>>

----------------------------------------------------------------------------
(* Open files: what they hold is a sequence of tokens, one per write.      *)

File(k) == files[k.fds[Op(k).fd]]
Open(k) == k.fds[Op(k).fd] # 0

\* The last descriptor of a file puts its inode.
Closed(f) == IF files[f].ref = 1 THEN NoFile ELSE [files[f] EXCEPT !.ref = @ - 1]
Put(F) == SetToSeq({f \in F : files[f].ref = 1})
Puts(F) == [j \in DOMAIN Put(F) |-> files[Put(F)[j]].ip]

close(p) ==
  /\ Calls(p, "close")
  /\ LET k == proc[p]  f == k.fds[Op(k).fd] IN
     IF ~ Open(k) THEN Is(p, Ret(k, "fail", <<>>)) /\ UNCHANGED files
     ELSE /\ files' = [files EXCEPT ![f] = Closed(f)]
          /\ Is(p, [Ret(k, "ok", Puts({f})) EXCEPT !.fds[Op(k).fd] = 0])
  /\ UNCHANGED <<inode, icache, panic>>

Device(k) == Open(k) /\ inode[File(k).ip].type = "T_DEV"

\* The offset moves under the lock of the inode.
write(p) ==
  /\ Calls(p, "write") /\ ~ Device(proc[p])
  /\ LET k == proc[p]  i == File(k).ip  at == File(k).off + 1 IN
     IF ~ Open(k) \/ File(k).omode \cap {"O_WRONLY", "O_RDWR"} = {}
     THEN Is(p, Ret(k, "fail", <<>>)) /\ UNCHANGED <<inode, icache, files>>
     ELSE /\ Unlocked(i) /\ icache' = ilock(icache, i, 0)
          /\ inode' = [inode EXCEPT ![i].data =
               [n \in DOMAIN @ \cup {at} |-> IF n = at THEN Op(k).data ELSE @[n]]]
          /\ files' = [files EXCEPT ![k.fds[Op(k).fd]].off = at]
          /\ Is(p, Ret(k, "ok", <<>>))
  /\ UNCHANGED panic

\* To the end of the file; "ok" if every token comes as often as the test expects.
read(p) ==
  /\ Calls(p, "read") /\ ~ Device(proc[p])
  /\ LET k == proc[p]  i == File(k).ip
         rest == SubSeq(inode[i].data, File(k).off + 1, Len(inode[i].data)) IN
     IF ~ Open(k) \/ "O_WRONLY" \in File(k).omode
     THEN Is(p, Ret(k, "fail", <<>>)) /\ UNCHANGED <<icache, files>>
     ELSE /\ Unlocked(i) /\ icache' = ilock(icache, i, 0)
          /\ files' = [files EXCEPT ![k.fds[Op(k).fd]].off = Len(inode[i].data)]
          /\ Is(p, Ret(k, IF ToBag(rest) = ToBag(Op(k).data) THEN "ok" ELSE "fail", <<>>))
  /\ UNCHANGED <<inode, panic>>

----------------------------------------------------------------------------
(* The console: a device file.  Nobody holds the inode while he waits for it. *)

\* read and write lock the inode; consoleread and consolewrite unlock it.
console(p) ==
  /\ At(p, "user") /\ Op(proc[p]).op \in {"read", "write"} /\ Device(proc[p])
  /\ LET k == proc[p]  i == File(k).ip  denied == IF Op(k).op = "read" THEN {"O_WRONLY"} ELSE {} IN
     IF File(k).omode \cap denied # {} \/ (Op(k).op = "write" /\ File(k).omode = {})
     THEN Is(p, Ret(k, "fail", <<>>)) /\ UNCHANGED icache
     ELSE /\ Unlocked(i) /\ icache' = ilock(icache, i, 0)
          /\ Is(p, [k EXCEPT !.at = IF Op(k).op = "read" THEN "consoleread" ELSE "console_end"])
  /\ UNCHANGED <<inode, files, panic>>

\* The loop of consoleread up to its next sleep or its end.  ^D ends it; if it has read
\* something the ^D stays, to end the next one.
consoleread(p) ==
  /\ At(p, "consoleread")
  /\ LET k == proc[p]
         taken == Tty!Taken(input, Op(k).n - Len(k.got))
         end == taken # <<>> /\ Last(taken) \in {"\n", "^D"}
         eof == end /\ Last(taken) = "^D"
         got == k.got \o (IF eof THEN Front(taken) ELSE taken) IN
     /\ input' = Tty!Consumed(input, Len(taken) - (IF eof /\ got # <<>> THEN 1 ELSE 0))
     /\ Is(p, [k EXCEPT !.got = got, !.at =
               IF end \/ Len(got) = Op(k).n THEN "console_end" ELSE "console_sleep"])
  /\ UNCHANGED <<inode, icache, files, panic, keys>>

\* The inode is locked again, unlocked by fileread or filewrite, and the call returns.
\* The offset of a device is not looked at.
console_end(p) ==
  /\ At(p, "console_end")
  /\ LET k == proc[p]  i == File(k).ip IN
     /\ Unlocked(i) /\ icache' = ilock(icache, i, 0)
     /\ Is(p, Ret(k, IF Op(k).op = "write" \/ k.got = Op(k).data THEN "ok" ELSE "fail", <<>>))
  /\ UNCHANGED <<inode, files, panic>>

\* A key is pressed.
consoleintr ==
  /\ keys # <<>>
  /\ input' = Tty!Typed(input, Head(keys)) /\ keys' = Tail(keys)
  /\ proc' = IF Tty!Wakes(input, Head(keys))
             THEN [p \in Procs |-> [proc[p] EXCEPT !.at = IF @ = "console_sleep" THEN "consoleread" ELSE @]]
             ELSE proc
  /\ UNCHANGED <<inode, icache, files, panic>>

----------------------------------------------------------------------------
(* Processes.                                                              *)

Ofile(k) == {k.fds[v] : v \in DOMAIN k.fds} \ {0}

\* The child shares the open files and the cwd.
fork(p) ==
  /\ Calls(p, "fork")
  /\ LET k == proc[p]  unused == {j \in Procs : proc[j].at = "unused"}  q == Min(unused) IN
     IF unused = {} THEN Is(p, Ret(k, "fail", <<>>)) /\ UNCHANGED <<icache, files>>
     ELSE /\ proc' = [proc EXCEPT
               ![p] = [Ret(k, "ok", <<>>) EXCEPT !.kids = @ \cup {q}],
               ![q] = [Unused EXCEPT !.prog = Op(k).child, !.at = "user", !.cwd = k.cwd,
                                     !.fds = k.fds]]
          /\ files' = [f \in DOMAIN files |->
               IF f \in Ofile(k) THEN [files[f] EXCEPT !.ref = @ + 1] ELSE files[f]]
          /\ icache' = iget(icache, k.cwd)
  /\ UNCHANGED <<inode, panic>>

exit(p) ==
  /\ Calls(p, "exit")
  /\ LET k == proc[p] IN
     /\ files' = [f \in DOMAIN files |-> IF f \in Ofile(k) THEN Closed(f) ELSE files[f]]
     /\ Is(p, [k EXCEPT !.at = "exited", !.fds = Unused.fds, !.cwd = 0,
                        !.puts = Append(Puts(Ofile(k)), k.cwd)])
  /\ UNCHANGED <<inode, icache, panic>>

wait(p) ==
  /\ Calls(p, "wait")
  /\ LET k == proc[p] IN
     \/ k.kids = {} /\ Is(p, Ret(k, "fail", <<>>))
     \/ \E q \in k.kids :
          /\ At(q, "exited")
          /\ proc' = [proc EXCEPT ![q] = Unused, ![p] = [Ret(k, "ok", <<>>) EXCEPT !.kids = @ \ {q}]]
  /\ UNCHANGED <<inode, icache, files, panic>>

----------------------------------------------------------------------------

Step(p) ==
  \/ /\ \/ iput(p) \/ iput_free(p) \/ iput_deref(p)
        \/ begin(p) \/ namex(p)
        \/ link(p) \/ link_dir(p) \/ link_exists(p) \/ link_bad(p)
        \/ unlink(p) \/ unlink_ip(p) \/ unlink_bad(p) \/ unlink_last(p)
        \/ create(p) \/ created(p) \/ create_found(p) \/ open(p) \/ chdir(p)
        \/ close(p) \/ read(p) \/ write(p) \/ console(p) \/ console_end(p)
        \/ fork(p) \/ exit(p) \/ wait(p)
     /\ UNCHANGED consoleVars
  \/ consoleread(p)

\* Nobody goes on but for another key.
Over == \A p \in Procs :
  \/ At(p, "exited") \/ At(p, "unused")
  \/ At(p, "console_sleep") /\ keys = <<>> /\ Tty!Ready(input) = <<>>

Next == \/ ~ panic /\ \E p \in Procs : Step(p)
        \/ ~ panic /\ consoleintr
        \/ Over /\ UNCHANGED vars

Spec == Init /\ [][Next]_vars

\* Every process is scheduled; a sleep lock is given to a waiter in the end, because the
\* programs are finite.  The keys are pressed.
FairSpec == /\ Spec
            /\ \A p \in Procs : WF_vars(~ panic /\ Step(p))
            /\ WF_vars(~ panic /\ consoleintr)

----------------------------------------------------------------------------
(* Properties.                                                             *)

Held(k) == <<k.cwd, k.ip, k.dp, k.old>> \o k.puts
Holds(k, i) == {j \in DOMAIN Held(k) : Held(k)[j] = i}
Holders(i) == UNION {{p} \X Holds(proc[p], i) : p \in Procs}
FilesOf(i) == {f \in DOMAIN files : files[f].ref > 0 /\ files[f].ip = i}

\* The count of references of an inode in the cache is what processes and open files
\* hold of it, in the middle of every call and on every error path.
RefsRight ==
  \A i \in Inums : icache[i].ref = Cardinality(Holders(i)) + Cardinality(FilesOf(i))

\* Link counts that run ahead of the entries (link) or lag behind (unlink).
Pending(i) == Cardinality({p \in Procs :
  proc[p].old = i \/ (proc[p].at = "unlink_last" /\ proc[p].ip = i)})

Removed(d) == inode[d].nlink = 0 \/ \E p \in Procs : proc[p].at = "unlink_last" /\ proc[p].ip = d

\* The name space is a tree with links: a directory that is still in it has one entry
\* per name, each names an allocated inode, and an inode has as many links as there are
\* entries for it, "." apart.
LinksRight ==
  LET dirs == {d \in Inums : inode[d].type = "T_DIR" /\ ~ Removed(d)}
      entries == UNION {{<<d, e>> : e \in inode[d].entries} : d \in dirs} IN
  /\ \A a, b \in entries : a[1] = b[1] /\ a[2][1] = b[2][1] => a = b
  /\ \A a \in entries : inode[a[2][2]].type # "none"
  /\ \A i \in Inums : inode[i].type # "none" =>
       inode[i].nlink = Pending(i) + Cardinality({a \in entries : a[2][1] # "." /\ a[2][2] = i})

\* An inode without links is in use, and is freed by the last iput; none stays on the
\* disk for ever, but for two iputs that both counted the reference of the other.
NoOrphan ==
  \A i \in Inums :
    inode[i].type # "none" /\ inode[i].nlink = 0 => icache[i].ref > 0 \/ icache[i].lost

\* Every call of every test returns what the test demands, and the kernel never panics.
TestsHold == ~ panic /\ \A p \in Procs : ~ proc[p].wrong

\* A terminal: what is typed is edited, and each line goes once to one reader.
Line == INSTANCE Terminal WITH
  Capacity <- INPUT_BUF, Readers <- Procs,
  line <- Tty!Line(input), ready <- Tty!Ready(input), got <- [p \in Procs |-> proc[p].got]

ImplementsTerminal == Line!Spec

\* The tests end: nobody waits for ever for a lock, a child or a line that was typed.
Ends == <>Over
=============================================================================
