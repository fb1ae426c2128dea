------------------------------ MODULE MCMachine ------------------------------
(***************************************************************************)
(* What Memory and Machine run for TLC.  They share no variable: a behaviour *)
(* is one of Memory or one of Machine, and the other does not move.         *)
(***************************************************************************)
EXTENDS Machine, MemoryParameters

\* The variables of Memory; those of Machine with the same names are Machine's.
VARIABLES part, phys, freelist, ptable, nextpid, said, failed, stopped

memory == <<phys, freelist, ptable, nextpid, said, failed, stopped>>

Mem == INSTANCE Memory WITH free <- freelist, proc <- ptable, panic <- stopped

MCInit ==
  \/ part = "memory" /\ Mem!Init /\ Start(CHOOSE s \in Scenarios : TRUE)
  \/ part = "machine" /\ Init /\ Mem!Start(CHOOSE t \in Tests : \A u \in Tests : t.frames <= u.frames)

MCNext ==
  \/ part = "memory" /\ Mem!Next /\ UNCHANGED part /\ UNCHANGED vars
  \/ part = "machine" /\ Next /\ UNCHANGED part /\ UNCHANGED memory

MCSpec == MCInit /\ [][MCNext]_<<part, memory, vars>>

\* The properties of Memory, where it moves; they are stated there.  The calls of Machine's
\* scenarios give none of its panics a cause.
FramesOnce == part = "memory" => Mem!FramesOnce
SpaceRight == part = "memory" => Mem!SpaceRight
TestsHold == (part = "memory" => Mem!TestsHold) /\ ~ panic
ImplementsSpaces == Mem!ImplementsSpaces

----------------------------------------------------------------------------
(* Machines.                                                               *)

Processor(id) == [type |-> "MPPROC", apicid |-> id]
Bus == [type |-> "MPBUS", apicid |-> 0]
Sys(op) == [op |-> op, n |-> 0]
Sys1(op, n) == [op |-> op, n |-> n]

Two(calls, size, n) ==
  [ebda |-> "none", base |-> "none", rom |-> "good", table |-> <<Processor(0), Bus, Processor(1)>>,
   work |-> calls, pages |-> size, interrupts |-> n]

\* Three processors, not in their order, and a process that does nothing.
Three == [Two(<<<<>>, <<>>, <<>>>>, 5, 0) EXCEPT !.ebda = "absent", !.base = "good",
            !.table = <<Processor(1), Processor(0), Processor(2)>>]

\* With page 5 there is a kernel stack for each process, with page 4 for two.
MCScenarios ==
  { Two(<< <<Sys("fork"), Sys("fork"), Sys("wait")>>, <<Sys1("sleep", 1), Sys("exit")>>,
           <<Sys("read"), Sys("exit")>> >>, 5, 1),
    Two(<< <<Sys("fork"), Sys("fork"), Sys("wait")>>, <<Sys("read"), Sys("exit")>>, <<Sys("exit")>> >>, 4, 0),
    Two(<< <<Sys("fork"), Sys1("kill", 2), Sys("wait")>>, <<Sys("read"), Sys("exit")>>, <<Sys("exit")>> >>, 4, 1),
    Two(<< <<Sys("fork"), Sys("wait"), Sys("fork")>>,
           <<Sys("fork"), Sys("fork"), Sys("exit"), Sys("exit")>>, <<Sys("exit"), Sys("exit")>> >>, 5, 0),
    Three }

----------------------------------------------------------------------------
(* Tests of memory.                                                        *)

T == INSTANCE MemTests WITH BIG <- 36, TextWords <- 3

Segment(vaddr, filesz, memsz, short) ==
  [vaddr |-> vaddr, filesz |-> filesz, memsz |-> memsz, short |-> short]
Elf(segments) == [elf |-> TRUE, segments |-> segments]
Small == Elf(<<Segment(0, 3, 6, FALSE)>>)

MCTestNames == {"sbrktest", "hogs", "validatetest", "bsstest", "bigargtest", "argptest", "exectest", "uio",
  "mem", "forktest", "exitwait", "heap", "badexec", "orphan", "under", "shrink", "forkrace", "execrace"}

MCBad == <<"nofile", "text", "short", "shifted", "fat", "huge", "none">>
Bad == [text |-> [elf |-> FALSE, segments |-> <<>>],
        short |-> Elf(<<Segment(0, 3, 6, TRUE)>>),
        shifted |-> Elf(<<Segment(0, 3, 6, FALSE), Segment(8, 1, 1, FALSE)>>),
        fat |-> Elf(<<Segment(0, 4, 3, FALSE)>>),
        huge |-> Elf(<<Segment(0, 3, 40, FALSE)>>),
        none |-> Elf(<<Segment(0, 0, 0, FALSE)>>),
        two |-> Elf(<<Segment(0, 6, 6, FALSE), Segment(6, 3, 9, FALSE)>>)]

\* The program a name with this beginning is made for.
For(start, n) == CHOOSE t \in MCTestNames : n = start \o t
Names(start) == {start \o t : t \in MCTestNames}

MCImages ==
  [n \in MCTestNames \cup Names("init_") \cup {"echo"} \cup DOMAIN Bad |-> IF n \in DOMAIN Bad THEN Bad[n] ELSE Small]

Bodies ==
  [sbrktest |-> T!sbrktest, sbrk_child |-> T!sbrk_child, peek |-> T!peek, hogs |-> T!hogs, hog |-> T!hog,
   validatetest |-> T!validatetest, validateint |-> T!validateint, bsstest |-> T!bsstest,
   bigargtest |-> T!bigargtest, bigargs |-> T!bigargs(MAXARG - 1), argptest |-> T!argptest,
   exectest |-> T!exectest, echo |-> <<>>, uio |-> T!uio, ports |-> T!ports, mem |-> T!mem,
   mem_child |-> T!mem_child, forktest |-> T!forktest, quits |-> <<>>, exitwait |-> T!exitwait,
   heap |-> T!heap, badexec |-> T!badexec(MCBad), two |-> <<>>, orphan |-> T!orphan, later |-> T!later,
   under |-> T!under, shrink |-> T!shrink, stack |-> T!stack, grab |-> T!grab, forkrace |-> T!forkrace, execrace |-> T!execrace]

MCPrograms ==
  [n \in Names("boot_") \cup Names("init_") \cup Names("sh_") \cup DOMAIN Bodies |->
     IF n \in DOMAIN Bodies THEN Bodies[n]
     ELSE IF n \in Names("boot_") THEN T!initcode("init_" \o For("boot_", n))
     ELSE IF n \in Names("sh_") THEN T!runs(For("sh_", n))
     ELSE T!init("sh_" \o For("init_", n))]

\* The tests that ask for nothing that little memory could not give, with every size from
\* the first that lets init run.
Scarce == {"forktest", "exitwait", "orphan"}
MCTests ==
  {[prog |-> "boot_" \o t, frames |-> 40] : t \in MCTestNames}
  \cup {[prog |-> "boot_" \o t, frames |-> f] : t \in Scarce, f \in 15 .. 36}
  \cup {[prog |-> "boot_" \o t, frames |-> f] : t \in {"forkrace", "execrace"}, f \in 27 .. 34}
  \cup {[prog |-> "boot_hogs", frames |-> 39]}
=============================================================================
