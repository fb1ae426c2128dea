------------------------------ MODULE NamesInv ------------------------------
(***************************************************************************)
(* The inductive invariant behind the safety properties of Names that hold  *)
(* whatever the programs do, as a conjunction of named parts.               *)
(***************************************************************************)
EXTENDS Names

ProcFields == {"prog", "pc", "wrong", "kids", "at", "cwd", "fds", "ip", "dp", "old", "path",
               "got", "puts", "put"}
PathCalls == {"open", "mkdir", "mknod", "chdir", "unlink", "link"}
Waiting == {"consoleread", "console_sleep", "console_end"}

ProcType(k) ==
  /\ DOMAIN k = ProcFields
  /\ {k.cwd, k.ip, k.dp, k.old} \subseteq 0 .. ninodes
  /\ k.kids \subseteq Procs
  /\ k.fds \in [Variables -> 0 .. NFILE]
  /\ Sequence(k.path)
  /\ k.puts \in Seq(Inums) /\ k.put \in {"lock", "free", "deref"}
  /\ k.at \notin {"unused", "exited"} => k.prog \in DOMAIN Programs

InodeType(r) == /\ DOMAIN r = {"type", "nlink", "entries", "data"}
                /\ \A e \in r.entries : e[2] \in Inums
SlotType(r) == /\ DOMAIN r = {"ref", "valid", "lock", "lost"}
               /\ r.ref \in Nat /\ r.valid \in BOOLEAN /\ r.lost \in BOOLEAN
FileType(r) == /\ DOMAIN r = {"ref", "ip", "off", "omode"}
               /\ r.ref \in Nat /\ (r.ref > 0 => r.ip \in Inums)

Types ==
  /\ DOMAIN proc = Procs /\ \A p \in Procs : ProcType(proc[p])
  /\ DOMAIN inode = Inums /\ \A i \in Inums : InodeType(inode[i])
  /\ DOMAIN icache = Inums /\ \A i \in Inums : SlotType(icache[i])
  /\ DOMAIN files = 1 .. NFILE /\ \A f \in 1 .. NFILE : FileType(files[f])

\* Where a process is says which inodes it holds, and what for.
HasIp == {"namex", "link", "link_dir", "link_exists", "unlink", "unlink_ip", "unlink_last",
          "create", "created", "create_found", "open", "chdir"}
HasDp == {"unlink_ip", "unlink_bad"}
HasOld == {"link_dir", "link_exists", "link_bad"}

Place(k) ==
  /\ k.at \in HasIp \cup HasDp \cup HasOld \cup Waiting \cup {"user", "unused", "exited"}
  /\ k.ip # 0 <=> k.at \in HasIp
  /\ k.dp # 0 <=> k.at \in HasDp
  /\ k.at \in HasOld => k.old # 0
  /\ k.old # 0 => k.at \in HasOld \cup {"namex"}
  /\ k.cwd # 0 <=> k.at \notin {"unused", "exited"}
  /\ k.at \in {"unused", "exited"} => k.fds = Unused.fds
  /\ k.at = "unused" => k.puts = <<>>
  /\ k.put # "lock" => k.puts # <<>>
  /\ k.at = "namex" => /\ k.path # <<>> /\ Op(k).op \in PathCalls
                       /\ k.old # 0 => Op(k).op = "link"
  /\ k.at = "link" => Op(k).op = "link"
  /\ k.at \in Waiting => Op(k).op \in {"read", "write"} /\ k.fds[Op(k).fd] # 0

PlaceInv == \A p \in Procs : Place(proc[p])

\* A file is counted by at least those that have it, a process has it in one variable.
HaveFile(f) == {p \in Procs : f \in Ofile(proc[p])}
FdsInv ==
  /\ \A p \in Procs : LET d == proc[p].fds IN d["fd"] # 0 => d["fd"] # d["fd1"]
  /\ \A f \in 1 .. NFILE : Cardinality(HaveFile(f)) <= files[f].ref

\* The inodes a process has locked in its call, and in the iput before it.
Locks(k) == CASE k.at \in {"link_exists", "unlink_last", "created"} -> {k.ip}
              [] k.at \in {"unlink_ip", "unlink_bad"} -> {k.dp}
              [] OTHER -> {}
Freeing(p, i) == proc[p].put = "free" /\ Head(proc[p].puts) = i

LockInv ==
  \A p \in Procs :
    /\ \A i \in Locks(proc[p]) : icache[i].lock = p /\ ~ Freeing(p, i)
    /\ \A i \in Inums : Freeing(p, i) => icache[i].lock = p

\* An inode that a process has had locked, and may take a link from, is in memory, and
\* nobody frees it while it is held.
Settled(k) == ({k.old, k.dp} \cup (IF k.at = "unlink_last" THEN {k.ip} ELSE {})) \ {0}
SettledInv ==
  \A p \in Procs : \A i \in Settled(proc[p]) :
    icache[i].valid /\ \A q \in Procs : ~ Freeing(q, i)

\* Somebody who holds an inode without links will free it, unless all have missed that.
OrphanInv ==
  \A i \in Inums : inode[i].type # "none" /\ inode[i].nlink = 0 =>
    icache[i].lost \/ (icache[i].valid /\ icache[i].ref > Cardinality(Leaving(i)))

IInv == Types /\ PlaceInv /\ FdsInv /\ RefsRight /\ LockInv /\ SettledInv /\ OrphanInv
=============================================================================
