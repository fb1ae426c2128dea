------------------------------- MODULE Files -------------------------------
(***************************************************************************)
(* Processes, open files and pipes of proj_filesystem: fork, exit, wait and *)
(* kill of proc.c, file.c, pipe.c, and the system calls of sysfile.c that   *)
(* make, share and give up descriptors.  The original round-robin scheduler *)
(* runs any RUNNABLE process, so a process is an actor that steps when it   *)
(* is RUNNABLE.                                                             *)
(*                                                                         *)
(* A critical section of ftable.lock, of ptable.lock or of the lock of a    *)
(* pipe is one step.  In pipewrite and piperead the test before sleep() and *)
(* sleep() itself are two, with the lock of the pipe held between them:     *)
(* kill takes only ptable.lock and may come in there.                       *)
(***************************************************************************)
EXTENDS Naturals, Sequences, FiniteSets, SequencesExt

CONSTANTS None,       \* the null pointer
          PIPESIZE,
          UINT,       \* nread and nwrite are counters modulo UINT
          Payloads,   \* byte sequences a program may write of which nothing is known
          Reads,      \* and the sizes it asks for
          MaxCalls,   \* bound: system calls of such programs together
          BUFSIZE, CHUNK, CHUNKS,   \* of Programs
          Sizes,      \* workload -> its name, the sizes of the tables; known: what its programs do
          Main,       \* workload -> the program of the first process
          Calls,      \* the calls of these programs and of those they fork
          Holds(_, _) \* what a workload that has ended must leave in the files

ASSUME FilesAssumption ==
  /\ {PIPESIZE, UINT, MaxCalls} \subseteq Nat \ {0}
  /\ UINT % PIPESIZE = 0 /\ UINT > PIPESIZE
  /\ None \notin Nat
  /\ DOMAIN Sizes = DOMAIN Main
  /\ \A w \in DOMAIN Sizes :
       /\ Sizes[w].name = w
       /\ {Sizes[w].NPROC, Sizes[w].NFILE, Sizes[w].NPIPE} \subseteq Nat \ {0}
       /\ Sizes[w].NOFILE \in Nat /\ (Sizes[w].known => Sizes[w].NOFILE >= 3)

Prog == INSTANCE Programs

Sequence(w) == Len(w) \in Nat /\ w = [k \in 1 .. Len(w) |-> w[k]]

\* What is written is a sequence of bytes, what is asked for a number.
ASSUME ProgramsAssumption ==
  /\ \A w \in DOMAIN Main : Main[w] \in Seq(Calls)
  /\ \A c \in Calls :
       /\ DOMAIN c = DOMAIN Prog!AnyCall
       /\ Sequence(c.data) /\ c.n \in Nat /\ c.child \in Seq(Calls)
  /\ Prog!AnyCall \in Calls
  /\ \A w \in Payloads : Sequence(w)
  /\ Reads \subseteq Nat /\ BUFSIZE \in Nat

VARIABLES proc,       \* ptable.proc, with what a system call keeps on its stack
          file,       \* ftable.file
          pipe,       \* the pages used for pipes
          iref,       \* references to the inode of all plain files and of all cwds
          text,       \* path -> what the file holds
          calls,      \* system calls so far of programs that make any
          work        \* the workload and its sizes

vars == <<proc, file, pipe, iref, text, calls, work>>

Procs == 1 .. work.NPROC     \* slots of ptable
Fds == 0 .. work.NOFILE - 1  \* descriptors of a process
Files == 1 .. work.NFILE     \* slots of ftable.file
Pipes == 1 .. work.NPIPE     \* pages kalloc has left for pipes
initproc == 1

NoFile == [ref |-> 0, type |-> "NONE", writable |-> FALSE, pipe |-> None, path |-> "", off |-> 0]
NoPipe == [used |-> FALSE, nread |-> 0, nwrite |-> 0, data |-> [i \in 0..PIPESIZE - 1 |-> None],
           readopen |-> FALSE, writeopen |-> FALSE, lock |-> None, spoiled |-> FALSE]

\* at is the C function a process is in; tmp holds files it has allocated but not
\* put into a descriptor; ff the copy fileclose works on; left and pipe the
\* arguments of pipewrite and piperead.  The rest is the memory of the process: the
\* calls it has still to make, its variables, what its loop has read and whom it has
\* forked.
Unused == [state |-> "UNUSED", parent |-> None, killed |-> FALSE, chan |-> None,
           ofile |-> [d \in Fds |-> None], cwd |-> FALSE, at |-> "user",
           tmp |-> <<>>, ff |-> NoFile, left |-> <<>>, n |-> 0, pipe |-> None,
           next |-> "user", prog |-> <<>>,
           var |-> [in |-> 0, out |-> 1, err |-> 2, p0 |-> 0, p1 |-> 0, fd |-> 0],
           got |-> <<>>, pids |-> <<>>]

\* userinit: the first process, with the root directory.  It has no files, or, with a
\* program, the descriptors that init has opened.
Init ==
  /\ \E w \in DOMAIN Sizes :
       work = Sizes[w]
  /\ LET known == work.known
         console == [NoFile EXCEPT !.ref = 3, !.type = "INODE", !.writable = TRUE, !.path = "console"]
     IN
     /\ proc = [p \in Procs |-> IF p = initproc
               THEN [Unused EXCEPT !.state = "RUNNABLE", !.cwd = TRUE, !.prog = Main[work.name],
                      !.ofile = [d \in Fds |-> IF known /\ d < 3 THEN 1 ELSE None]] ELSE Unused]
     /\ file = [f \in Files |-> IF known /\ f = 1 THEN console ELSE NoFile]
     /\ iref = IF known THEN 2 ELSE 1
     /\ text = [path \in IF known THEN {"console"} ELSE {} |-> <<>>]
  /\ pipe = [i \in Pipes |-> NoPipe]
  /\ calls = 0

At(p, place) == proc[p].state = "RUNNABLE" /\ proc[p].at = place

\* The next call of p, and whether it may be any.
Op(p) == Head(proc[p].prog)
Free(p) == proc[p].prog = <<Prog!AnyCall>>

\* trap() sends a killed process to exit() when it enters or leaves the kernel.
Calling(p, op) ==
  /\ At(p, "user") /\ ~ proc[p].killed
  /\ IF Free(p) THEN calls < MaxCalls /\ calls' = calls + 1
     ELSE proc[p].prog # <<>> /\ Op(p).op = op /\ UNCHANGED calls

\* The descriptors p may name in its call, and those of them that are open.
Named(p) == IF Free(p) THEN Fds ELSE {proc[p].var[Op(p).fd]}
FdsOf(p) == {d \in Fds : d \in Named(p) /\ proc[p].ofile[d] # None}

\* wakeup1
Awake(c) == [q \in Procs |->
  IF proc[q].state = "SLEEPING" /\ proc[q].chan = c
  THEN [proc[q] EXCEPT !.state = "RUNNABLE", !.chan = None] ELSE proc[q]]

NoArgs(r) == [r EXCEPT !.at = "user", !.tmp = <<>>, !.ff = NoFile, !.left = <<>>,
                       !.n = 0, !.pipe = None]

\* The call returns, and the program goes on; if the call failed, to its end perhaps.
Unknown(r) == r.prog = <<Prog!AnyCall>>
Ret(r) == IF Unknown(r) THEN NoArgs(r) ELSE [NoArgs(r) EXCEPT !.prog = Tail(@)]
Failing(r) == IF ~ Unknown(r) /\ Head(r.prog).must THEN [r EXCEPT !.prog = <<Head(@)>>] ELSE r
Fail(r) == Ret(Failing(r))

----------------------------------------------------------------------------
(* Descriptors and the file table.                                         *)

FreeFds(p) == {d \in Fds : proc[p].ofile[d] = None}
FreeFiles == {f \in Files : file[f].ref = 0}

\* argfd finds no file.
argfd_fails(p) ==
  /\ \E op \in {"dup", "close", "read", "write"} : Calling(p, op)
  /\ Named(p) \ FdsOf(p) # {}
  /\ proc' = [proc EXCEPT ![p] = Fail(@)]
  /\ UNCHANGED <<file, pipe, iref, text>>

sys_dup(p) ==
  /\ Calling(p, "dup")
  /\ \E d \in FdsOf(p) :
       IF FreeFds(p) = {} THEN proc' = [proc EXCEPT ![p] = Fail(@)] /\ UNCHANGED file
       ELSE /\ proc' = [proc EXCEPT ![p] =
                  [Ret(@) EXCEPT !.ofile[Min(FreeFds(p))] = proc[p].ofile[d]]]
            /\ file' = [file EXCEPT ![proc[p].ofile[d]].ref = @ + 1]
  /\ UNCHANGED <<pipe, iref, text>>

\* open and pipe begin with filealloc.  Nobody else looks at a file that has no
\* descriptor, so its fields may be set with the descriptor.
filealloc(p, at) ==
  /\ FreeFiles # {}
  /\ file' = [file EXCEPT ![Min(FreeFiles)].ref = 1]
  /\ proc' = [proc EXCEPT ![p].tmp = Append(@, Min(FreeFiles)), ![p].at = at]

\* sys_open looks for its inode or makes it, then needs a file.
Exists(p) == Free(p) \/ Op(p).path \in DOMAIN text \/ Op(p).create
Made(path) == [q \in DOMAIN text \cup {path} |-> IF q \in DOMAIN text THEN text[q] ELSE <<>>]
sys_open(p) ==
  /\ Calling(p, "open")
  /\ text' = IF Exists(p) THEN Made(Op(p).path) ELSE text
  /\ \/ Exists(p) /\ filealloc(p, "open")
     \/ /\ ~ Exists(p) \/ FreeFiles = {}
        /\ proc' = [proc EXCEPT ![p] = Fail(@)] /\ UNCHANGED file
  /\ UNCHANGED <<pipe, iref>>

sys_open_fd(p) ==
  /\ At(p, "open")
  /\ LET f == Head(proc[p].tmp) IN
     IF FreeFds(p) = {}
     THEN /\ file' = [file EXCEPT ![f] = NoFile]
          /\ proc' = [proc EXCEPT ![p] = Fail(@)]
          /\ UNCHANGED iref
     ELSE LET d == Min(FreeFds(p)) IN
          /\ file' = [file EXCEPT ![f] = [@ EXCEPT !.type = "INODE", !.path = Op(p).path,
                                                   !.writable = Free(p) \/ Op(p).create]]
          /\ proc' = [proc EXCEPT ![p] =
               [Ret(proc[p]) EXCEPT !.ofile[d] = f, !.var.fd = IF Free(p) THEN @ ELSE d]]
          /\ iref' = iref + 1
  /\ UNCHANGED <<pipe, text, calls>>

\* fileclose gives up the last reference to f.
LastRef(f) == file[f].ref = 1

\* p goes on to the next file it has to close, in exit the first it has open, or to
\* what it closes them for.
Closing(r) ==
  LET opened == {d \in DOMAIN r.ofile : r.ofile[d] # None}  d == Min(opened) IN
  IF r.tmp # <<>> THEN [r EXCEPT !.at = "fileclose", !.ff = NoFile]
  ELSE IF r.next = "user" THEN Ret(r)
  ELSE IF opened = {} THEN [NoArgs(r) EXCEPT !.at = "exit", !.next = "user"]
  ELSE [r EXCEPT !.at = "fileclose", !.ff = NoFile, !.tmp = <<r.ofile[d]>>, !.ofile[d] = None]

\* fileclose of the first file in tmp.  With the last reference the file goes back
\* to the table and the copy ff is what is closed.
fileclose(p) ==
  /\ At(p, "fileclose")
  /\ LET f == Head(proc[p].tmp)
         r == [proc[p] EXCEPT !.tmp = Tail(@)] IN
     /\ file' = [file EXCEPT ![f] = IF LastRef(f) THEN NoFile ELSE [file[f] EXCEPT !.ref = @ - 1]]
     /\ proc' = [proc EXCEPT ![p] =
          IF LastRef(f) /\ file[f].type # "NONE"
          THEN [r EXCEPT !.ff = file[f], !.at = "close_ff"] ELSE Closing(r)]
  /\ UNCHANGED <<pipe, iref, text, calls>>

iput(p) ==
  /\ At(p, "close_ff") /\ proc[p].ff.type = "INODE"
  /\ iref' = iref - 1
  /\ proc' = [proc EXCEPT ![p] = Closing(@)]
  /\ UNCHANGED <<file, pipe, text, calls>>

sys_close(p) ==
  /\ Calling(p, "close")
  /\ \E d \in FdsOf(p) :
       proc' = [proc EXCEPT ![p].ofile[d] = None, ![p].tmp = <<proc[p].ofile[d]>>,
                            ![p].at = "fileclose"]
  /\ UNCHANGED <<file, pipe, iref, text>>

----------------------------------------------------------------------------
(* Pipes.                                                                  *)

FreePages == {i \in Pipes : ~ pipe[i].used}

\* pipealloc: the first file, the second file, the page; what fails after the first
\* gives back what it has.
sys_pipe(p) ==
  /\ Calling(p, "pipe")
  /\ \/ filealloc(p, "pipealloc")
     \/ FreeFiles = {} /\ proc' = [proc EXCEPT ![p] = Fail(@)] /\ UNCHANGED file
  /\ UNCHANGED <<pipe, iref, text>>

pipealloc(p) ==
  /\ At(p, "pipealloc")
  /\ \/ filealloc(p, "pipealloc_page")
     \/ /\ FreeFiles = {}
        /\ proc' = [proc EXCEPT ![p] = [Failing(@) EXCEPT !.at = "fileclose"]]
        /\ UNCHANGED file
  /\ UNCHANGED <<pipe, iref, text, calls>>

\* Mutant: the files of a failed call stay in the table.
Abandoned_kept(r) == Fail(r)

\* A failed call closes both files it has allocated.
Abandoned(r) == [Failing(r) EXCEPT !.at = "fileclose"]

\* kalloc, then the two descriptors; if there are not two, the ends are closed again.
pipealloc_page(p) ==
  /\ At(p, "pipealloc_page")
  /\ LET rf == proc[p].tmp[1]
         wf == proc[p].tmp[2] IN
     IF FreePages = {}
     THEN proc' = [proc EXCEPT ![p] = Abandoned(@)] /\ UNCHANGED <<file, pipe>>
     ELSE LET i == Min(FreePages) IN
       /\ pipe' = [pipe EXCEPT ![i] = [NoPipe EXCEPT !.used = TRUE, !.readopen = TRUE,
                                                     !.writeopen = TRUE]]
       /\ file' = [file EXCEPT
            ![rf] = [@ EXCEPT !.type = "PIPE", !.pipe = i, !.writable = FALSE],
            ![wf] = [@ EXCEPT !.type = "PIPE", !.pipe = i, !.writable = TRUE]]
       /\ proc' = [proc EXCEPT ![p] =
            IF Cardinality(FreeFds(p)) < 2 THEN Abandoned(@)
            ELSE LET d == Min(FreeFds(p))  e == Min(FreeFds(p) \ {d}) IN
                 [Ret(proc[p]) EXCEPT !.ofile[d] = rf, !.ofile[e] = wf,
                    !.var.p0 = IF Free(p) THEN @ ELSE d, !.var.p1 = IF Free(p) THEN @ ELSE e]]
  /\ UNCHANGED <<iref, text, calls>>

NRead(i) == <<"nread", i>>     \* channels of the two sides
NWrite(i) == <<"nwrite", i>>

\* nwrite - nread; the counters wrap and stay congruent modulo PIPESIZE.
Count(i) == (pipe[i].nwrite + UINT - pipe[i].nread) % UINT

\* The bytes in a pipe, oldest first.
Contents(i) == [k \in 1 .. Count(i) |-> pipe[i].data[(pipe[i].nread + k - 1) % PIPESIZE]]

\* Bytes w appended at nwrite.
Filled(r, w) == [r EXCEPT !.nwrite = (@ + Len(w)) % UINT,
  !.data = [j \in DOMAIN r.data |->
     LET K == {k \in 1 .. Len(w) : (r.nwrite + k - 1) % PIPESIZE = j}
     IN IF K = {} THEN r.data[j] ELSE w[Max(K)]]]

\* read and write on a descriptor for a pipe.  A file of the wrong kind returns -1.
sys_write(p) ==
  /\ Calling(p, "write")
  /\ \E d \in FdsOf(p), w \in IF Free(p) THEN Payloads ELSE {Op(p).data} :
       LET f == file[proc[p].ofile[d]] IN
       /\ f.type = "PIPE"
       /\ proc' = IF f.writable
            THEN [proc EXCEPT ![p].at = "pipewrite", ![p].pipe = f.pipe, ![p].left = w]
            ELSE [proc EXCEPT ![p] = Fail(@)]
  /\ UNCHANGED <<file, pipe, iref, text>>

sys_read(p) ==
  /\ Calling(p, "read")
  /\ \E d \in FdsOf(p), n \in IF Free(p) THEN Reads ELSE {Op(p).n} :
       LET f == file[proc[p].ofile[d]] IN
       /\ f.type = "PIPE"
       /\ proc' = IF f.writable THEN [proc EXCEPT ![p] = Fail(@)]
            ELSE [proc EXCEPT ![p].at = "piperead", ![p].pipe = f.pipe, ![p].n = n]
  /\ UNCHANGED <<file, pipe, iref, text>>

\* Mutant: one byte too many.
Room_more(i) == PIPESIZE + 1 - Count(i)

Room(i) == PIPESIZE - Count(i)

\* The loop of pipewrite up to its next sleep or its end.  A writer that gives up
\* wakes nobody, though it may have written.
pipewrite(p) ==
  /\ At(p, "pipewrite")
  /\ LET i == proc[p].pipe
         k == Min({Room(i), Len(proc[p].left)})
         w == SubSeq(proc[p].left, 1, k)
         rest == SubSeq(proc[p].left, k + 1, Len(proc[p].left)) IN
     /\ pipe[i].lock = None
     /\ IF rest # <<>> /\ (~ pipe[i].readopen \/ proc[p].killed)
        THEN /\ pipe' = [pipe EXCEPT ![i] = [Filled(pipe[i], w) EXCEPT !.spoiled = @ \/ proc[p].killed]]
             /\ proc' = [proc EXCEPT ![p] = Fail(@)]
        ELSE /\ pipe' = [pipe EXCEPT ![i] =
                  [Filled(@, w) EXCEPT !.lock = IF rest = <<>> THEN None ELSE p]]
             /\ proc' = [Awake(NRead(i)) EXCEPT ![p] =
                  IF rest = <<>> THEN Ret(@)
                  ELSE [@ EXCEPT !.left = rest, !.at = "pipewrite_sleep"]]
  /\ UNCHANGED <<file, iref, text, calls>>

\* Copied to the reader: at most n bytes.
Taken(i, n) == Min({Count(i), n})

\* A read returns w, and the loop it is in goes on; at the end of the file the loop ends.
Read(r, w) ==
  IF Unknown(r) THEN Ret(r)
  ELSE LET c == Head(r.prog) IN
    IF c.loop # "once" /\ w # <<>>
    THEN [NoArgs(r) EXCEPT !.got = @ \o w, !.prog = Prog!Between(c, w) \o Tail(@)]
    ELSE [NoArgs(r) EXCEPT !.got = <<>>, !.prog = Prog!After(c, r.got) \o Tail(@)]

piperead(p) ==
  /\ At(p, "piperead")
  /\ LET i == proc[p].pipe IN
     /\ pipe[i].lock = None
     /\ IF Count(i) = 0 /\ pipe[i].writeopen
        THEN IF proc[p].killed
             THEN proc' = [proc EXCEPT ![p] = Fail(@)] /\ UNCHANGED pipe
             ELSE /\ proc' = [proc EXCEPT ![p].at = "piperead_sleep"]
                  /\ pipe' = [pipe EXCEPT ![i].lock = p]
        ELSE /\ pipe' = [pipe EXCEPT ![i].nread = (@ + Taken(i, proc[p].n)) % UINT]
             /\ proc' = [Awake(NWrite(i)) EXCEPT
                  ![p] = Read(@, SubSeq(Contents(i), 1, Taken(i, proc[p].n)))]
  /\ UNCHANGED <<file, iref, text, calls>>

\* sleep(), which gives up the lock of the pipe; killed or not.
pipe_sleep(p) ==
  /\ At(p, "pipewrite_sleep") \/ At(p, "piperead_sleep")
  /\ LET i == proc[p].pipe
         writes == proc[p].at = "pipewrite_sleep" IN
     /\ pipe' = [pipe EXCEPT ![i].lock = None]
     /\ proc' = [proc EXCEPT ![p].state = "SLEEPING",
                             ![p].chan = IF writes THEN NWrite(i) ELSE NRead(i),
                             ![p].at = IF writes THEN "pipewrite" ELSE "piperead"]
  /\ UNCHANGED <<file, iref, text, calls>>

\* Mutant: an end is closed silently.
WokenByClose_nobody(i, writable) == proc
WokenByClose(i, writable) == Awake(IF writable THEN NRead(i) ELSE NWrite(i))

\* Mutant: the first end to be closed frees the page.
Gone_first(r) == ~ r.readopen \/ ~ r.writeopen

Gone(r) == ~ r.readopen /\ ~ r.writeopen

\* The second end to be closed frees the page.
pipeclose(p) ==
  /\ At(p, "close_ff") /\ proc[p].ff.type = "PIPE"
  /\ LET i == proc[p].ff.pipe
         w == proc[p].ff.writable
         closed == [pipe[i] EXCEPT !.writeopen = @ /\ ~ w, !.readopen = @ /\ w] IN
     /\ pipe[i].lock = None
     /\ pipe' = [pipe EXCEPT ![i] = IF Gone(closed) THEN NoPipe ELSE closed]
     /\ proc' = [WokenByClose(i, w) EXCEPT ![p] = Closing(@)]
  /\ UNCHANGED <<file, iref, text, calls>>

\* Plain files, for programs that are known: a write at the offset of the file, a read
\* from there; the console has nothing to read.
file_write(p) ==
  /\ Calling(p, "write") /\ ~ Free(p)
  /\ \E d \in FdsOf(p) :
       LET n == proc[p].ofile[d]  f == file[n]  w == Op(p).data IN
       /\ f.type = "INODE"
       /\ IF ~ f.writable
          THEN proc' = [proc EXCEPT ![p] = Fail(@)] /\ UNCHANGED <<file, text>>
          ELSE /\ text' = [text EXCEPT ![f.path] =
                    [j \in 1 .. Max({Len(@), f.off + Len(w)}) |->
                       IF j - f.off \in DOMAIN w THEN w[j - f.off] ELSE @[j]]]
               /\ file' = [file EXCEPT ![n].off = @ + Len(w)]
               /\ proc' = [proc EXCEPT ![p] = Ret(@)]
  /\ UNCHANGED <<pipe, iref>>

file_read(p) ==
  /\ Calling(p, "read") /\ ~ Free(p)
  /\ \E d \in FdsOf(p) :
       LET n == proc[p].ofile[d]  f == file[n]
           rest == SubSeq(text[f.path], f.off + 1, Len(text[f.path]))
           w == SubSeq(rest, 1, Min({Op(p).n, Len(rest)})) IN
       /\ f.type = "INODE"
       /\ IF f.writable /\ f.path # "console"
          THEN proc' = [proc EXCEPT ![p] = Fail(@)] /\ UNCHANGED file
          ELSE /\ file' = [file EXCEPT ![n].off = @ + Len(w)]
               /\ proc' = [proc EXCEPT ![p] = Read(@, w)]
  /\ UNCHANGED <<pipe, iref, text>>

----------------------------------------------------------------------------
(* Processes.                                                              *)

Children(p) == {q \in Procs : proc[q].parent = p}
Slots == {q \in Procs : proc[q].state = "UNUSED"}

\* The child gets a reference to every file and to the directory of its parent, and a
\* copy of its memory.
fork(p) ==
  /\ Calling(p, "fork")
  /\ IF Slots = {} THEN proc' = [proc EXCEPT ![p] = Fail(@)] /\ UNCHANGED <<file, iref>>
     ELSE LET q == Min(Slots) IN
       /\ proc' = [proc EXCEPT
            ![q] = [Unused EXCEPT !.state = "RUNNABLE", !.parent = p,
                      !.ofile = proc[p].ofile, !.cwd = TRUE, !.var = proc[p].var,
                      !.prog = IF Free(p) THEN proc[p].prog ELSE Op(p).child],
            ![p] = [Ret(proc[p]) EXCEPT !.pids = IF Free(p) THEN @ ELSE Append(@, q)]]
       /\ file' = [f \in Files |-> [file[f] EXCEPT
                     !.ref = @ + Cardinality({d \in Fds : proc[p].ofile[d] = f})]]
       /\ iref' = iref + 1
  /\ UNCHANGED <<pipe, text>>

\* exit, by its own call or because it was killed: close the files in their order.
exit(p) ==
  /\ p # initproc
  /\ At(p, "user") /\ (proc[p].killed \/ proc[p].prog = <<>> \/ Free(p))
  /\ proc' = [proc EXCEPT ![p] = Closing([@ EXCEPT
       !.prog = <<>>, !.var = Unused.var, !.got = <<>>, !.pids = <<>>, !.next = "exit"])]
  /\ UNCHANGED <<file, pipe, iref, text, calls>>

exit_cwd(p) ==
  /\ At(p, "exit")
  /\ iref' = iref - 1
  /\ proc' = [proc EXCEPT ![p].cwd = FALSE, ![p].at = "zombie"]
  /\ UNCHANGED <<file, pipe, text, calls>>

\* Who is told of an exit: the parent, and init if it inherits a zombie.
Woken(p) == {proc[p].parent}
            \cup (IF \E q \in Children(p) : proc[q].state = "ZOMBIE" THEN {initproc} ELSE {})

\* Under ptable.lock: wake the parent, pass the children on, become a ZOMBIE.
exit_zombie(p) ==
  /\ At(p, "zombie")
  /\ proc' = [q \in Procs |->
       LET r == IF q \in Woken(p) THEN Awake(<<"child", q>>)[q] ELSE proc[q] IN
       IF q = p THEN [r EXCEPT !.state = "ZOMBIE"]
       ELSE IF q \in Children(p) THEN [r EXCEPT !.parent = initproc] ELSE r]
  /\ UNCHANGED <<file, pipe, iref, text, calls>>

sys_wait(p) ==
  /\ Calling(p, "wait")
  /\ proc' = [proc EXCEPT ![p].at = "wait"]
  /\ UNCHANGED <<file, pipe, iref, text>>

\* One turn of the loop of wait, all of it under ptable.lock.
wait(p) ==
  /\ At(p, "wait")
  /\ LET Z == {q \in Children(p) : proc[q].state = "ZOMBIE"} IN
     \/ \E q \in Z : proc' = [proc EXCEPT ![q] = Unused,
          ![p] = IF Op(p).loop = "again" THEN NoArgs(@) ELSE Ret(@)]
     \/ /\ Z = {}
        /\ proc' = IF Children(p) = {} \/ proc[p].killed
                   THEN [proc EXCEPT ![p] = Fail(@)]
                   ELSE [proc EXCEPT ![p].state = "SLEEPING", ![p].chan = <<"child", p>>]
  /\ UNCHANGED <<file, pipe, iref, text, calls>>

\* kill takes ptable.lock only, and wakes a sleeper wherever it sleeps.  A process that
\* is no more is not found.
kill(p, q) ==
  /\ Calling(p, "kill")
  /\ IF Free(p) THEN proc[q].state \notin {"UNUSED", "ZOMBIE"} /\ q # initproc
     ELSE q = proc[p].pids[Op(p).n]
  /\ LET killed == [proc EXCEPT ![q].killed = TRUE,
                          ![q].state = IF @ = "SLEEPING" THEN "RUNNABLE" ELSE @,
                          ![q].chan = None] IN
     proc' = IF proc[q].state = "UNUSED" THEN [proc EXCEPT ![p] = Fail(@)]
             ELSE [killed EXCEPT ![p] = Ret(@)]
  /\ UNCHANGED <<file, pipe, iref, text>>

----------------------------------------------------------------------------

step(p) ==
  \/ fileclose(p) \/ iput(p) \/ sys_open_fd(p)
  \/ pipealloc(p) \/ pipealloc_page(p)
  \/ pipewrite(p) \/ piperead(p) \/ pipe_sleep(p) \/ pipeclose(p)
  \/ exit_cwd(p) \/ exit_zombie(p) \/ wait(p)

\* What the program of p may do next.
call(p) ==
  \/ argfd_fails(p) \/ sys_dup(p) \/ sys_open(p) \/ sys_close(p) \/ sys_pipe(p)
  \/ sys_read(p) \/ sys_write(p) \/ file_read(p) \/ file_write(p)
  \/ fork(p) \/ exit(p) \/ sys_wait(p)
  \/ \E q \in Procs : kill(p, q)

Next == /\ \E p \in Procs : step(p) \/ call(p)
        /\ UNCHANGED work

Spec == Init /\ [][Next]_vars

----------------------------------------------------------------------------
(* Properties.                                                             *)

\* Who refers to file f: descriptors, and calls that make or close it.
Descriptors(f) == {x \in Procs \X Fds : proc[x[1]].ofile[x[2]] = f}
InHand(f) == {x \in Procs \X (1 .. 2) :
                x[2] <= Len(proc[x[1]].tmp) /\ proc[x[1]].tmp[x[2]] = f}

\* Every count is the number of its references, also while descriptors are being
\* made, shared by fork, given up half-way or closed by an exit.
RefsRight ==
  /\ \A f \in Files :
       /\ file[f].ref = Cardinality(Descriptors(f)) + Cardinality(InHand(f))
       /\ file[f].ref = 0 => file[f] = NoFile
  /\ iref = Cardinality({p \in Procs : proc[p].cwd})
            + Cardinality({f \in Files : file[f].type = "INODE"})
            + Cardinality({p \in Procs : proc[p].ff.type = "INODE"})

\* Who has an end of pipe i: a file, or a process that is about to close it.
Ends(i, w) ==
  LET has(r) == r.type = "PIPE" /\ r.pipe = i /\ r.writable = w IN
  {<<"file", f>> : f \in {f \in Files : has(file[f])}}
  \cup {<<"proc", p>> : p \in {p \in Procs : has(proc[p].ff)}}

\* A pipe is freed with the second end and not before: an end is open as long as
\* anybody has it, exactly one file at a time, and nobody is inside a freed pipe.
PipeEnds ==
  \A i \in Pipes :
    /\ pipe[i].readopen <=> Cardinality(Ends(i, FALSE)) = 1
    /\ pipe[i].writeopen <=> Cardinality(Ends(i, TRUE)) = 1
    /\ pipe[i].used <=> Ends(i, TRUE) \cup Ends(i, FALSE) # {}
    /\ \A p \in Procs : proc[p].pipe = i =>
         IF proc[p].at \in {"piperead", "piperead_sleep"}
         THEN pipe[i].readopen ELSE pipe[i].writeopen
    /\ Count(i) <= PIPESIZE

\* No wakeup is lost: whoever sleeps has a reason to.  A reader has an empty pipe
\* with a writer, a writer a full pipe with a reader, a waiting parent children of
\* which none is a ZOMBIE.  The exception is a pipe that a killed writer has filled.
SleepersWait ==
  \A p \in Procs : proc[p].state = "SLEEPING" =>
    /\ \A i \in Pipes :
         /\ proc[p].chan = NRead(i) =>
              pipe[i].writeopen /\ (Count(i) = 0 \/ pipe[i].spoiled)
         /\ proc[p].chan = NWrite(i) => pipe[i].readopen /\ Count(i) = PIPESIZE
    /\ proc[p].chan = <<"child", p>> =>
         /\ Children(p) # {}
         /\ \A q \in Children(p) : proc[q].state # "ZOMBIE"

\* Nobody runs or ever will, but for the first process if it has nothing more to do.
Stalled ==
  \A p \in Procs : proc[p].state = "RUNNABLE" => p = initproc /\ At(p, "user") /\ proc[p].prog = <<>>

\* Known programs end, whatever the order in which their processes run: no reader waits
\* for an end of file that a forgotten descriptor keeps away, no child is left behind,
\* the files and pipes are closed, and what was written is what the commands mean.
ProgramsEnd ==
  work.known /\ Stalled =>
    /\ \A p \in Procs \ {initproc} : proc[p].state = "UNUSED"
    /\ proc[initproc].state = "RUNNABLE"
    /\ \A f \in Files \ {1} : file[f].ref = 0
    /\ Holds(work.name, text)

\* A pipe (the first page stands for all of them) is a bounded queue of bytes with
\* two ends: nothing is lost, doubled or reordered, also where the counters wrap.
Chan == INSTANCE Channel WITH
  Capacity <- PIPESIZE, q <- Contents(1),
  reads <- pipe[1].readopen, writes <- pipe[1].writeopen

ImplementsChannel == Chan!Spec
=============================================================================
