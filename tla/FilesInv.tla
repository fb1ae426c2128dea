------------------------------ MODULE FilesInv ------------------------------
(***************************************************************************)
(* The inductive invariant behind the safety properties of Files, as a      *)
(* conjunction of named parts.  It holds whatever the programs do, for      *)
(* tables of any size.  What is said of one record has the sizes W of the   *)
(* tables and the set T of the paths that exist as arguments.               *)
(***************************************************************************)
EXTENDS Files

Reading == {"piperead", "piperead_sleep"}
Writing == {"pipewrite", "pipewrite_sleep"}
Allocating == {"open", "pipealloc", "pipealloc_page"}
Places == {"user", "fileclose", "close_ff", "wait", "exit", "zombie"}
          \cup Reading \cup Writing \cup Allocating

ProcFields == {"state", "parent", "killed", "chan", "ofile", "cwd", "at", "tmp", "ff", "left",
               "n", "pipe", "next", "prog", "var", "got", "pids"}

\* A file has what its type says.
FileType(r, W, T) ==
  /\ DOMAIN r = DOMAIN NoFile
  /\ r.ref \in Nat /\ r.type \in {"NONE", "INODE", "PIPE"} /\ r.off \in Nat
  /\ r.type = "PIPE" => r.pipe \in 1 .. W.NPIPE /\ r.writable \in BOOLEAN
  /\ r.type = "INODE" => r.path \in T

CallType(c) == /\ DOMAIN c = DOMAIN Prog!AnyCall
               /\ Sequence(c.data) /\ c.n \in Nat /\ c.child \in Seq(Calls)
ProgType(prog) == Sequence(prog) /\ \A k \in 1 .. Len(prog) : CallType(prog[k])

ProcType(r, W, T) ==
  /\ DOMAIN r = ProcFields
  /\ r.state \in {"UNUSED", "RUNNABLE", "SLEEPING", "ZOMBIE"}
  /\ r.ofile \in [0 .. W.NOFILE - 1 -> 1 .. W.NFILE \cup {None}]
  /\ r.at \in Places /\ r.next \in {"user", "exit"}
  /\ r.tmp \in Seq(1 .. W.NFILE)
  /\ FileType(r.ff, W, T)
  /\ Sequence(r.left) /\ r.n \in Nat
  /\ ProgType(r.prog)

PipeType(r) ==
  /\ DOMAIN r = DOMAIN NoPipe
  /\ {r.nread, r.nwrite} \subseteq 0 .. UINT - 1
  /\ DOMAIN r.data = 0 .. PIPESIZE - 1
  /\ {r.used, r.readopen, r.writeopen} \subseteq BOOLEAN

WorkType ==
  /\ {work.NPROC, work.NFILE, work.NPIPE} \subseteq Nat \ {0} /\ work.NOFILE \in Nat

Types ==
  /\ WorkType
  /\ DOMAIN proc = Procs /\ \A p \in Procs : ProcType(proc[p], work, DOMAIN text)
  /\ DOMAIN file = Files /\ \A f \in Files : FileType(file[f], work, DOMAIN text)
  /\ DOMAIN pipe = Pipes /\ \A i \in Pipes : PipeType(pipe[i])
  /\ \A path \in DOMAIN text : Sequence(text[path])

\* Where a process is says what it has in hand.
Place(r, W, T) ==
  /\ r.state = "UNUSED" =>
       r.parent = None /\ r.at = "user" /\ \A d \in 0 .. W.NOFILE - 1 : r.ofile[d] = None
  /\ r.state = "ZOMBIE" => r.at = "zombie"
  /\ r.state = "SLEEPING" => r.at \in {"piperead", "pipewrite", "wait"}
  /\ r.at \in {"open", "pipealloc"} => Len(r.tmp) = 1
  /\ r.at = "pipealloc_page" => Len(r.tmp) = 2
  /\ r.at = "fileclose" => Len(r.tmp) \in 1 .. 2
  /\ r.at = "close_ff" => Len(r.tmp) <= 1
  /\ r.at \notin Allocating \cup {"fileclose", "close_ff"} => r.tmp = <<>>
  /\ IF r.at = "close_ff" THEN r.ff.type # "NONE" ELSE r.ff = NoFile
  /\ r.at \in {"exit", "zombie"} => \A d \in 0 .. W.NOFILE - 1 : r.ofile[d] = None
  /\ r.cwd = (r.state # "UNUSED" /\ r.at # "zombie")
  /\ IF r.at \in Reading \cup Writing THEN r.pipe \in 1 .. W.NPIPE ELSE r.pipe = None
  /\ r.at \notin {"fileclose", "close_ff"} => r.next = "user"
  /\ r.at \in {"user", "exit", "zombie"} \/ r.next = "exit" \/ r.prog # <<>>
  /\ r.at = "open" => r.prog[1].path \in T

PlaceInv == \A p \in Procs : Place(proc[p], work, DOMAIN text)

\* A file that is being made is nobody else's.
MineInv ==
  \A p \in Procs : proc[p].at \in Allocating =>
    \A k \in 1 .. Len(proc[p].tmp) :
      file[proc[p].tmp[k]].ref = 1 /\ file[proc[p].tmp[k]].type = "NONE"

\* r has the end w of pipe i.
Has(r, i, w) == r.type = "PIPE" /\ r.pipe = i /\ r.writable = w

\* An end that is open is had by one, and who is inside a pipe has its end.
EndInv ==
  \A i \in Pipes :
    /\ \A w \in BOOLEAN : \A x, y \in Ends(i, w) : x = y
    /\ pipe[i].readopen <=> Ends(i, FALSE) # {}
    /\ pipe[i].writeopen <=> Ends(i, TRUE) # {}
    /\ pipe[i].used <=> Ends(i, TRUE) \cup Ends(i, FALSE) # {}
InsideInv ==
  \A p \in Procs : proc[p].at \in Reading \cup Writing =>
    \E d \in Fds : /\ proc[p].ofile[d] # None
                   /\ Has(file[proc[p].ofile[d]], proc[p].pipe, proc[p].at \in Writing)
CountInv == \A i \in Pipes : Count(i) <= PIPESIZE

\* Between its test and sleep a process has the lock, and the test stays true; it sleeps
\* on the channel of its pipe or on its own.
SleepInv ==
  \A p \in Procs : LET i == proc[p].pipe IN
    /\ proc[p].at = "piperead_sleep" => pipe[i].lock = p /\ pipe[i].writeopen /\ Count(i) = 0
    /\ proc[p].at = "pipewrite_sleep" => pipe[i].lock = p /\ pipe[i].readopen /\ Count(i) = PIPESIZE
    /\ proc[p].state = "SLEEPING" =>
         /\ proc[p].at = "piperead" => proc[p].chan = NRead(i)
         /\ proc[p].at = "pipewrite" => proc[p].chan = NWrite(i)
         /\ proc[p].at = "wait" => proc[p].chan = <<"child", p>>

IInv == /\ Types /\ PlaceInv /\ MineInv /\ RefsRight /\ EndInv /\ InsideInv /\ CountInv
        /\ SleepInv /\ SleepersWait
=============================================================================
