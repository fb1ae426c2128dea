---------------------------- MODULE FilesEffects ----------------------------
(***************************************************************************)
(* Facts about the operators of Files that the proofs cite: sequences,      *)
(* records, a wakeup, and the counting of what one process holds of a file; *)
(* and what each action does, as far as the invariant cares: which fields   *)
(* of which process change, and how the tables do.                          *)
(***************************************************************************)
EXTENDS FilesInv, FiniteSetTheorems, WellFoundedInduction, SequenceTheorems, TLAPS

\* The least of a set of numbers.
LEMMA Least ==
  ASSUME NEW S \in SUBSET Nat, S # {}
  PROVE  Min(S) \in S /\ \A n \in S : Min(S) <= n
<1> DEFINE R == {ss \in Nat \X Nat : ss[1] < ss[2]}
<1>1. OpToRel(<, Nat) = R
  BY Zenon DEF OpToRel
<1>2. IsWellFoundedOn(R, Nat)
  BY <1>1, NatLessThanWellFounded
<1>3. PICK x \in S : \A n \in S : ~ (<<n, x>> \in R)
  BY <1>2, WFMin
<1>4. ASSUME NEW n \in S PROVE x <= n
  <2>1. <<n, x>> \notin R
    BY <1>3
  <2> QED
    BY <2>1
<1> QED
  BY <1>4 DEF Min

----------------------------------------------------------------------------
(* Sequences and programs.                                                 *)

\* What is in Seq of a set is a sequence.
LEMMA SequenceSeq ==
  ASSUME NEW S, NEW w \in Seq(S)
  PROVE  Sequence(w)
  BY DEF Sequence

\* A sequence is in Seq of the set of its elements.
LEMMA SeqSequence ==
  ASSUME NEW w, Sequence(w)
  PROVE  w \in Seq({w[k] : k \in 1 .. Len(w)})
<1> DEFINE S == {w[k] : k \in 1 .. Len(w)}
<1>1. w \in [1 .. Len(w) -> S]
  BY DEF Sequence
<1> QED
  BY <1>1 DEF Sequence

\* What the parts of a sequence are.
LEMMA Parts ==
  ASSUME NEW w, Sequence(w)
  PROVE  /\ w # <<>> <=> Len(w) > 0
         /\ w # <<>> => /\ Sequence(Tail(w)) /\ Len(Tail(w)) = Len(w) - 1
                        /\ \A k \in 1 .. Len(Tail(w)) : Tail(w)[k] = w[k + 1]
                        /\ Head(w) = w[1]
         /\ \A v : Sequence(v) => /\ Sequence(w \o v) /\ Len(w \o v) = Len(w) + Len(v)
                                  /\ \A k \in 1 .. Len(w) + Len(v) :
                                       (w \o v)[k] = IF k <= Len(w) THEN w[k] ELSE v[k - Len(w)]
<1> DEFINE S == {w[k] : k \in 1 .. Len(w)}
<1>1. w \in Seq(S) /\ Len(w) \in Nat
  BY SeqSequence DEF Sequence
<1>2. w # <<>> <=> Len(w) > 0
  BY <1>1
<1>3. ASSUME w # <<>>
      PROVE  /\ Sequence(Tail(w)) /\ Len(Tail(w)) = Len(w) - 1
             /\ \A k \in 1 .. Len(Tail(w)) : Tail(w)[k] = w[k + 1]
             /\ Head(w) = w[1]
  <2>1. Tail(w) \in Seq(S) /\ Len(Tail(w)) = Len(w) - 1
    BY <1>1, <1>3
  <2>2. Sequence(Tail(w))
    BY <2>1, SequenceSeq
  <2> QED
    BY <1>1, <1>3, <2>1, <2>2
<1>4. ASSUME NEW v, Sequence(v)
      PROVE  /\ Sequence(w \o v) /\ Len(w \o v) = Len(w) + Len(v)
             /\ \A k \in 1 .. Len(w) + Len(v) :
                  (w \o v)[k] = IF k <= Len(w) THEN w[k] ELSE v[k - Len(w)]
  <2> DEFINE R == S \cup {v[k] : k \in 1 .. Len(v)}
  <2>1. w \in Seq(R) /\ v \in Seq(R)
    BY <1>1, <1>4, SeqSequence DEF Sequence
  <2>2. w \o v \in Seq(R) /\ Len(w \o v) = Len(w) + Len(v)
    BY <2>1
  <2>3. Sequence(w \o v)
    BY <2>2, SequenceSeq
  <2> QED
    BY <2>1, <2>2, <2>3
<1> QED
  BY <1>2, <1>3, <1>4

\* The fields of a call.
LEMMA CallFields ==
  DOMAIN Prog!AnyCall = {"op", "fd", "n", "data", "path", "create", "child", "must", "loop"}
  BY DEF Prog!AnyCall, Prog!Call

\* The parts of a program are programs.
LEMMA ProgramParts ==
  ASSUME NEW prog, ProgType(prog), prog # <<>>
  PROVE  /\ CallType(Head(prog)) /\ Head(prog) = prog[1]
         /\ ProgType(Tail(prog)) /\ ProgType(<<Head(prog)>>)
<1>1. CallType(Head(prog)) /\ Head(prog) = prog[1]
  BY Parts DEF ProgType
<1>2. ProgType(Tail(prog))
  BY Parts DEF ProgType, Sequence
<1>3. Sequence(<<Head(prog)>>) /\ Len(<<Head(prog)>>) = 1
  BY DEF Sequence
<1>4. ProgType(<<Head(prog)>>)
  BY <1>1, <1>3 DEF ProgType
<1> QED
  BY <1>1, <1>2, <1>4

\* Two programs one after the other are a program.
LEMMA ProgramJoined ==
  ASSUME NEW v, NEW w, ProgType(v), ProgType(w)
  PROVE  ProgType(v \o w)
  BY Parts DEF ProgType, Sequence

\* A sequence of the calls the programs make is a program.
LEMMA ProgramKnown ==
  ASSUME NEW prog \in Seq(Calls)
  PROVE  ProgType(prog)
<1>1. Sequence(prog)
  BY SequenceSeq
<1>2. \A k \in 1 .. Len(prog) : prog[k] \in Calls
  OBVIOUS
<1>3. \A c \in Calls : CallType(c)
  BY ProgramsAssumption DEF CallType
<1> QED
  BY <1>1, <1>2, <1>3 DEF ProgType

\* What a loop of reads goes on with.
LEMMA ProgramLoops ==
  ASSUME NEW c, CallType(c), NEW w, Sequence(w), NEW got
  PROVE  ProgType(Prog!Between(c, w)) /\ ProgType(Prog!After(c, got))
<1>1. ASSUME NEW v, Sequence(v) PROVE CallType(Prog!write("out", v))
  <2> DEFINE d == Prog!write("out", v)
  <2>1. DOMAIN d = DOMAIN Prog!AnyCall
    BY DEF Prog!write, Prog!Call, Prog!AnyCall
  <2>2. d.data = v /\ d.n = 0 /\ d.child = <<>>
    BY DEF Prog!write, Prog!Call
  <2> HIDE DEF d
  <2>3. Sequence(d.data) /\ d.n \in Nat /\ d.child \in Seq(Calls)
    BY <1>1, <2>2
  <2> QED
    BY <2>1, <2>3 DEF CallType, d
<1>2. ASSUME NEW d, CallType(d) PROVE CallType(Prog!Must(d)) /\ CallType([d EXCEPT !.fd = "out"])
  BY <1>2, CallFields DEF CallType, Prog!Must
<1>3. ASSUME NEW d, CallType(d) PROVE ProgType(<<d>>)
  BY <1>3 DEF ProgType, Sequence
<1>4. ProgType(<<>>)
  BY DEF ProgType, Sequence
<1>5. ASSUME NEW word PROVE ProgType(Prog!printf(word))
  <2>1. Sequence(<<word>>)
    BY DEF Sequence
  <2> QED
    BY <2>1, <1>1, <1>3 DEF Prog!printf
<1>6. ProgType(Prog!After(c, got))
  BY <1>4, <1>5 DEF Prog!After
<1>7. ProgType(Prog!Between(c, w))
  <2>1. CallType(Prog!Must([Prog!write("out", w) EXCEPT !.fd = "out"]))
    BY <1>1, <1>2
  <2>2. ProgType(<<Prog!Must([Prog!write("out", w) EXCEPT !.fd = "out"]), c>>)
    BY <2>1 DEF ProgType, Sequence
  <2>3. CallType([c EXCEPT !.n = IF 2 * @ > BUFSIZE THEN BUFSIZE ELSE 2 * @])
    <3>1. (IF 2 * c.n > BUFSIZE THEN BUFSIZE ELSE 2 * c.n) \in Nat
      BY ProgramsAssumption DEF CallType
    <3> QED
      BY <3>1, CallFields DEF CallType
  <2>4. ProgType(<<[c EXCEPT !.n = IF 2 * @ > BUFSIZE THEN BUFSIZE ELSE 2 * @]>>)
    BY <2>3, <1>3
  <2> QED
    BY <2>2, <2>4, <1>3 DEF Prog!Between
<1> QED
  BY <1>6, <1>7

----------------------------------------------------------------------------
(* What the operators on the record of a process leave of it.               *)

FileFields == {"ref", "type", "writable", "pipe", "path", "off"}

\* The fields of an unused process, an unused file and an unused pipe.
LEMMA Fields ==
  /\ DOMAIN Unused = ProcFields /\ DOMAIN NoFile = FileFields
  /\ DOMAIN NoPipe = {"used", "nread", "nwrite", "data", "readopen", "writeopen", "lock", "spoiled"}
  /\ \A W, T : FileType(NoFile, W, T)
  BY DEF Unused, NoFile, NoPipe, ProcFields, FileFields, FileType

Kept(r, s) ==
  /\ DOMAIN s = ProcFields
  /\ s.state = r.state /\ s.parent = r.parent /\ s.killed = r.killed /\ s.chan = r.chan
  /\ s.cwd = r.cwd /\ s.next = r.next /\ s.ofile = r.ofile

Returned(s) ==
  /\ s.at = "user" /\ s.tmp = <<>> /\ s.ff = NoFile
  /\ s.left = <<>> /\ s.n = 0 /\ s.pipe = None

\* A process that drops its arguments keeps everything else.
LEMMA NoArgsKeeps ==
  ASSUME NEW r, DOMAIN r = ProcFields
  PROVE  Kept(r, NoArgs(r)) /\ Returned(NoArgs(r)) /\ NoArgs(r).prog = r.prog
  BY DEF Kept, Returned, NoArgs, ProcFields

\* A call that returns keeps the tables of its process and goes on with the program.
LEMMA RetKeeps ==
  ASSUME NEW r, DOMAIN r = ProcFields, ProgType(r.prog), r.prog # <<>>
  PROVE  Kept(r, Ret(r)) /\ Returned(Ret(r)) /\ ProgType(Ret(r).prog)
<1>1. CASE Unknown(r)
  BY <1>1, NoArgsKeeps DEF Ret
<1>2. CASE ~ Unknown(r)
  <2>1. DOMAIN NoArgs(r) = ProcFields /\ Ret(r) = [NoArgs(r) EXCEPT !.prog = Tail(r.prog)]
    BY <1>2, NoArgsKeeps DEF Ret, Kept
  <2>2. Kept(r, Ret(r)) /\ Returned(Ret(r)) /\ Ret(r).prog = Tail(r.prog)
    BY <2>1, NoArgsKeeps DEF Kept, Returned, ProcFields
  <2> QED
    BY <2>2, ProgramParts
<1> QED
  BY <1>1, <1>2

\* A call that is going to fail stays the call it is.
LEMMA FailingKeeps ==
  ASSUME NEW r, DOMAIN r = ProcFields, ProgType(r.prog), r.prog # <<>>
  PROVE  /\ Kept(r, Failing(r))
         /\ \A x \in ProcFields : x # "prog" => Failing(r)[x] = r[x]
         /\ ProgType(Failing(r).prog) /\ Failing(r).prog # <<>>
         /\ Failing(r).prog[1] = r.prog[1]
<1>1. \/ Failing(r) = r
      \/ Failing(r) = [r EXCEPT !.prog = <<Head(r.prog)>>]
  BY DEF Failing
<1>2. Kept(r, Failing(r)) /\ \A x \in ProcFields : x # "prog" => Failing(r)[x] = r[x]
  BY <1>1 DEF Kept, ProcFields
<1>3. Failing(r).prog \in {r.prog, <<Head(r.prog)>>}
  BY <1>1 DEF ProcFields
<1> QED
  BY <1>2, <1>3, ProgramParts

\* A call that fails keeps the tables of its process.
LEMMA FailKeeps ==
  ASSUME NEW r, DOMAIN r = ProcFields, ProgType(r.prog), r.prog # <<>>
  PROVE  Kept(r, Fail(r)) /\ Returned(Fail(r)) /\ ProgType(Fail(r).prog)
<1>1. DOMAIN Failing(r) = ProcFields /\ Kept(r, Failing(r))
  BY FailingKeeps DEF Kept
<1>2. Kept(Failing(r), Fail(r)) /\ Returned(Fail(r)) /\ ProgType(Fail(r).prog)
  BY <1>1, FailingKeeps, RetKeeps DEF Fail
<1> QED
  BY <1>1, <1>2 DEF Kept

\* A read that returns keeps the tables of its process.
LEMMA ReadKeeps ==
  ASSUME NEW r, DOMAIN r = ProcFields, ProgType(r.prog), r.prog # <<>>, NEW w, Sequence(w)
  PROVE  Kept(r, Read(r, w)) /\ Returned(Read(r, w)) /\ ProgType(Read(r, w).prog)
<1>1. CASE Unknown(r)
  BY <1>1, RetKeeps DEF Read
<1>2. CASE ~ Unknown(r)
  <2> DEFINE c == Head(r.prog)
  <2>1. ProgType(Prog!Between(c, w) \o Tail(r.prog)) /\ ProgType(Prog!After(c, r.got) \o Tail(r.prog))
    BY ProgramParts, ProgramLoops, ProgramJoined
  <2>2. \E got, prog : Read(r, w) = [NoArgs(r) EXCEPT !.got = got, !.prog = prog] /\ ProgType(prog)
    <3>1. CASE c.loop # "once" /\ w # <<>>
      <4>1. Read(r, w) = [NoArgs(r) EXCEPT !.got = NoArgs(r).got \o w,
                                           !.prog = Prog!Between(c, w) \o Tail(r.prog)]
        BY <1>2, <3>1, NoArgsKeeps DEF Read
      <4> QED
        BY <4>1, <2>1
    <3>2. CASE ~ (c.loop # "once" /\ w # <<>>)
      <4>1. Read(r, w) = [NoArgs(r) EXCEPT !.got = <<>>, !.prog = Prog!After(c, r.got) \o Tail(r.prog)]
        BY <1>2, <3>2, NoArgsKeeps DEF Read
      <4> QED
        BY <4>1, <2>1
    <3> QED
      BY <3>1, <3>2
  <2>3. PICK got, prog : Read(r, w) = [NoArgs(r) EXCEPT !.got = got, !.prog = prog] /\ ProgType(prog)
    BY <2>2
  <2>4. DOMAIN NoArgs(r) = ProcFields
    BY NoArgsKeeps DEF Kept
  <2>5. Kept(r, Read(r, w)) /\ Returned(Read(r, w)) /\ Read(r, w).prog = prog
    BY <2>3, <2>4, NoArgsKeeps DEF Kept, Returned, ProcFields
  <2> QED
    BY <2>3, <2>5
<1> QED
  BY <1>1, <1>2

Local(r, W, T) == ProcType(r, W, T) /\ Place(r, W, T)

\* A process that runs, and is where it has a call to finish.
Busy(r) == /\ r.state = "RUNNABLE" /\ r.at \notin {"exit", "zombie"} /\ r.next = "user"
           /\ r.prog # <<>>

\* Who returns from a call is at rest.
LEMMA LocalReturned ==
  ASSUME NEW W, NEW T, NEW r, NEW s, Local(r, W, T), r.state = "RUNNABLE", r.at # "zombie",
         r.next = "user", Kept(r, s), Returned(s), ProgType(s.prog)
  PROVE  Local(s, W, T)
<1>1. ProcType(s, W, T)
  <2>1. Sequence(<<>>) /\ s.tmp \in Seq(1 .. W.NFILE)
    BY DEF Sequence, Returned
  <2> QED
    BY <2>1, Fields DEF Local, ProcType, Kept, Returned, Places
<1>2. Place(s, W, T)
  BY DEF Local, Place, Kept, Returned, Allocating, Reading, Writing
<1> QED
  BY <1>1, <1>2 DEF Local

\* A process back from a call is a well-formed one.
LEMMA LocalCalls ==
  ASSUME NEW W, NEW T, NEW r, Local(r, W, T), Busy(r)
  PROVE  /\ Local(Ret(r), W, T) /\ Local(Fail(r), W, T)
         /\ \A w : Sequence(w) => Local(Read(r, w), W, T)
<1>1. DOMAIN r = ProcFields /\ ProgType(r.prog)
  BY DEF Local, ProcType
<1> QED
  BY <1>1, RetKeeps, FailKeeps, ReadKeeps, LocalReturned DEF Busy

\* What others may do to a process: wake it, kill it, or give it another parent.
Touched(r, s) ==
  /\ DOMAIN s = ProcFields
  /\ \A x \in ProcFields \ {"state", "chan", "killed", "parent"} : s[x] = r[x]
  /\ s.state = r.state \/ (r.state = "SLEEPING" /\ s.state = "RUNNABLE")
  /\ r.state = "UNUSED" => s.parent = r.parent

\* What others do to a process (wake it, kill it, give it a parent) keeps it well-formed.
LEMMA LocalTouched ==
  ASSUME NEW W, NEW T, NEW r, NEW s, Local(r, W, T), Touched(r, s)
  PROVE  Local(s, W, T)
<1>1. /\ s.at = r.at /\ s.ofile = r.ofile /\ s.tmp = r.tmp /\ s.ff = r.ff /\ s.cwd = r.cwd
      /\ s.left = r.left /\ s.n = r.n /\ s.pipe = r.pipe /\ s.next = r.next /\ s.prog = r.prog
  BY DEF Touched, ProcFields
<1>2. ProcType(s, W, T)
  BY <1>1 DEF Local, ProcType, Touched
<1>3. Place(s, W, T)
  BY <1>1 DEF Local, Place, Touched
<1> QED
  BY <1>2, <1>3 DEF Local

\* Paths are only added.
LEMMA LocalLater ==
  ASSUME NEW W, NEW T, NEW U, T \subseteq U, NEW r, Local(r, W, T)
  PROVE  Local(r, W, U)
<1>1. FileType(r.ff, W, U)
  BY DEF Local, ProcType, FileType
<1> QED
  BY <1>1 DEF Local, ProcType, Place

\* What a wakeup does to one process.
LEMMA Woken1 ==
  ASSUME Types, NEW c, NEW q \in Procs
  PROVE  /\ Awake(c)[q] = IF proc[q].state = "SLEEPING" /\ proc[q].chan = c
                          THEN [proc[q] EXCEPT !.state = "RUNNABLE", !.chan = None] ELSE proc[q]
         /\ DOMAIN Awake(c) = Procs
         /\ Touched(proc[q], Awake(c)[q])
<1>1. DOMAIN proc[q] = ProcFields
  BY DEF Types, ProcType
<1>2. Touched(proc[q], proc[q])
  BY <1>1 DEF Touched
<1>3. ASSUME proc[q].state = "SLEEPING"
      PROVE  Touched(proc[q], [proc[q] EXCEPT !.state = "RUNNABLE", !.chan = None])
  BY <1>1, <1>3 DEF Touched, ProcFields
<1> QED
  BY <1>2, <1>3 DEF Awake

----------------------------------------------------------------------------
(* References.                                                             *)

\* The index sets of the tables are finite.
LEMMA Intervals ==
  ASSUME NEW n \in Nat
  PROVE  IsFiniteSet(0 .. n - 1) /\ IsFiniteSet(1 .. n)
<1>1. 0 \in Int /\ 1 \in Int /\ n \in Int /\ n - 1 \in Int
  OBVIOUS
<1> QED
  BY <1>1, FS_Interval

\* The tables are finite, their indices numbers other than None.
LEMMA Tables ==
  ASSUME WorkType
  PROVE  /\ IsFiniteSet(Procs) /\ IsFiniteSet(Fds) /\ IsFiniteSet(Files) /\ IsFiniteSet(Pipes)
         /\ Procs \subseteq Nat /\ Fds \subseteq Nat /\ Files \subseteq Nat /\ Pipes \subseteq Nat
         /\ None \notin Procs \cup Fds \cup Files \cup Pipes
         /\ initproc \in Procs /\ 1 \in Pipes /\ 1 \in Files
<1>1. /\ work.NPROC \in Nat /\ work.NFILE \in Nat /\ work.NPIPE \in Nat /\ work.NOFILE \in Nat
      /\ work.NPROC # 0 /\ work.NPIPE # 0 /\ work.NFILE # 0
  BY DEF WorkType
<1>2. \A n \in Nat : IsFiniteSet(0 .. n - 1) /\ IsFiniteSet(1 .. n)
  BY Intervals
<1>3. /\ IsFiniteSet(Procs) /\ IsFiniteSet(Fds) /\ IsFiniteSet(Files) /\ IsFiniteSet(Pipes)
  BY <1>1, <1>2 DEF Procs, Fds, Files, Pipes
<1> QED
  BY <1>1, <1>3, FilesAssumption DEF Procs, Fds, Files, Pipes, initproc

\* Finitely many descriptors and arguments refer to a file.
LEMMA RefsFinite ==
  ASSUME WorkType, NEW f
  PROVE  /\ IsFiniteSet(Descriptors(f)) /\ Cardinality(Descriptors(f)) \in Nat
         /\ IsFiniteSet(InHand(f)) /\ Cardinality(InHand(f)) \in Nat
<1>1. IsFiniteSet(1 .. 2)
  BY Intervals
<1>2. IsFiniteSet(Procs \X Fds) /\ IsFiniteSet(Procs \X (1 .. 2))
  BY <1>1, Tables, FS_Product
<1>3. Descriptors(f) \subseteq Procs \X Fds /\ InHand(f) \subseteq Procs \X (1 .. 2)
  BY DEF Descriptors, InHand
<1> QED
  BY <1>2, <1>3, FS_Subset, FS_CardinalityType

\* Who is in Descriptors.
LEMMA InDescriptors ==
  ASSUME NEW f, NEW p, NEW d
  PROVE  <<p, d>> \in Descriptors(f) <=> p \in Procs /\ d \in Fds /\ proc[p].ofile[d] = f
  BY DEF Descriptors

\* Who is in InHand.
LEMMA InInHand ==
  ASSUME NEW f, NEW p, NEW k
  PROVE  <<p, k>> \in InHand(f) <=>
           p \in Procs /\ k \in 1 .. 2 /\ k <= Len(proc[p].tmp) /\ proc[p].tmp[k] = f
  BY DEF InHand

\* Who refers to a file is counted.
LEMMA Referred ==
  ASSUME WorkType, RefsRight, NEW f \in Files
  PROVE  /\ Descriptors(f) # {} \/ InHand(f) # {} => file[f].ref >= 1
         /\ Descriptors(f) # {} /\ InHand(f) # {} => file[f].ref >= 2
         /\ \A x, y : x \in InHand(f) /\ y \in InHand(f) /\ x # y => file[f].ref >= 2
         /\ file[f].ref = 0 => Descriptors(f) = {} /\ InHand(f) = {}
<1>1. /\ Cardinality(Descriptors(f)) \in Nat /\ Cardinality(InHand(f)) \in Nat
      /\ Descriptors(f) # {} => Cardinality(Descriptors(f)) # 0
      /\ InHand(f) # {} => Cardinality(InHand(f)) # 0
      /\ file[f].ref = Cardinality(Descriptors(f)) + Cardinality(InHand(f))
  BY RefsFinite, FS_EmptySet DEF RefsRight
<1>2. ASSUME NEW x, NEW y, x \in InHand(f), y \in InHand(f), x # y
      PROVE  Cardinality(InHand(f)) >= 2
  <2>1. IsFiniteSet(InHand(f) \ {x}) /\ Cardinality(InHand(f) \ {x}) = Cardinality(InHand(f)) - 1
    BY <1>2, RefsFinite, FS_RemoveElement
  <2>2. InHand(f) \ {x} # {}
    BY <1>2
  <2>3. Cardinality(InHand(f) \ {x}) \in Nat /\ Cardinality(InHand(f) \ {x}) # 0
    BY <2>1, <2>2, FS_EmptySet, FS_CardinalityType
  <2> QED
    BY <1>1, <2>1, <2>3
<1> QED
  BY <1>1, <1>2

\* The references of one process among all.
Own(p, f) == {x \in Descriptors(f) : x[1] = p}
Times(tmp, f) == (IF Len(tmp) >= 1 /\ tmp[1] = f THEN 1 ELSE 0)
                 + (IF Len(tmp) >= 2 /\ tmp[2] = f THEN 1 ELSE 0)

\* A finite set of pairs counts as the pairs of p and those of the others.
LEMMA SplitPairs ==
  ASSUME NEW D, IsFiniteSet(D), NEW p
  PROVE  LET O == {x \in D : x[1] = p}  R == {x \in D : x[1] # p} IN
         /\ IsFiniteSet(O) /\ IsFiniteSet(R) /\ Cardinality(O) \in Nat /\ Cardinality(R) \in Nat
         /\ Cardinality(D) = Cardinality(R) + Cardinality(O)
<1> DEFINE O == {x \in D : x[1] = p}  R == {x \in D : x[1] # p}
<1>1. O \subseteq D /\ R \subseteq D /\ O \cap R = {} /\ D = R \cup O /\ R \cap O = {}
  OBVIOUS
<1> HIDE DEF O, R
<1>2. IsFiniteSet(O) /\ IsFiniteSet(R) /\ Cardinality(O) \in Nat /\ Cardinality(R) \in Nat
  BY <1>1, FS_Subset, FS_CardinalityType
<1>3. Cardinality(D) = Cardinality(R) + Cardinality(O) - Cardinality(R \cap O)
  BY <1>1, <1>2, FS_Union
<1>4. Cardinality(R \cap O) = 0
  BY <1>1, FS_EmptySet
<1>5. Cardinality(D) = Cardinality(R) + Cardinality(O)
  BY <1>2, <1>3, <1>4
<1> QED
  BY <1>2, <1>5 DEF O, R

\* What p has in hand is on its stack.
Stack(p, tmp, f) == {x \in {p} \X (1 .. 2) : x[2] <= Len(tmp) /\ tmp[x[2]] = f}

\* A file counts as often as it is among what p has in hand.
LEMMA StackPairs ==
  ASSUME NEW p, NEW tmp, Len(tmp) \in 0 .. 2, NEW f, NEW R, IsFiniteSet(R), \A x \in R : x[1] # p
  PROVE  Cardinality(R \cup Stack(p, tmp, f)) = Cardinality(R) + Times(tmp, f)
<1> DEFINE S == Stack(p, tmp, f)
           one == Len(tmp) >= 1 /\ tmp[1] = f
           two == Len(tmp) >= 2 /\ tmp[2] = f
<1>1. Cardinality(R) \in Nat
  BY FS_CardinalityType
<1>2. <<p, 1>> \notin R /\ <<p, 2>> \notin R /\ <<p, 2>> \notin R \cup {<<p, 1>>}
  OBVIOUS
<1>3. IsFiniteSet(R \cup {<<p, 1>>}) /\ Cardinality(R \cup {<<p, 1>>}) = Cardinality(R) + 1
  BY <1>2, FS_AddElement
<1>4. Cardinality(R \cup {<<p, 2>>}) = Cardinality(R) + 1
  BY <1>2, FS_AddElement
<1>5. Cardinality((R \cup {<<p, 1>>}) \cup {<<p, 2>>}) = Cardinality(R) + 2
  <2> DEFINE Q == R \cup {<<p, 1>>}
  <2>1. IsFiniteSet(Q) /\ <<p, 2>> \notin Q /\ Cardinality(Q) = Cardinality(R) + 1
    BY <1>2, <1>3
  <2> HIDE DEF Q
  <2>2. Cardinality(Q \cup {<<p, 2>>}) = Cardinality(Q) + 1
    BY <2>1, FS_AddElement
  <2> QED
    BY <1>1, <2>1, <2>2 DEF Q
<1>6. \A x : x \in R \cup S <=> x \in R \/ (one /\ x = <<p, 1>>) \/ (two /\ x = <<p, 2>>)
  BY DEF Stack
<1>7. CASE one /\ two
  <2>1. R \cup S = (R \cup {<<p, 1>>}) \cup {<<p, 2>>}
    BY <1>6, <1>7
  <2>2. Times(tmp, f) = 2
    BY <1>7 DEF Times
  <2> QED
    BY <1>1, <1>5, <2>1, <2>2
<1>8. CASE one /\ ~ two
  <2>1. R \cup S = R \cup {<<p, 1>>}
    BY <1>6, <1>8
  <2>2. Times(tmp, f) = 1
    BY <1>8 DEF Times
  <2> QED
    BY <1>1, <1>3, <2>1, <2>2
<1>9. CASE ~ one /\ two
  <2>1. R \cup S = R \cup {<<p, 2>>}
    BY <1>6, <1>9
  <2>2. Times(tmp, f) = 1
    BY <1>9 DEF Times
  <2> QED
    BY <1>1, <1>4, <2>1, <2>2
<1>10. CASE ~ one /\ ~ two
  <2>1. R \cup S = R
    BY <1>6, <1>10
  <2>2. Times(tmp, f) = 0
    BY <1>10 DEF Times
  <2>3. Cardinality(R \cup S) = Cardinality(R)
    BY <2>1, Zenon
  <2> QED
    BY <1>1, <2>2, <2>3
<1> QED
  BY <1>7, <1>8, <1>9, <1>10

\* A step of one process changes the counts by what it does to its own references.
LEMMA Recount ==
  ASSUME WorkType, UNCHANGED work, NEW p \in Procs, NEW f,
         Len(proc[p].tmp) \in 0 .. 2, Len(proc'[p].tmp) \in 0 .. 2,
         \A q \in Procs \ {p} : proc'[q].ofile = proc[q].ofile /\ proc'[q].tmp = proc[q].tmp
  PROVE  /\ Cardinality(Descriptors(f))' + Cardinality(InHand(f))' =
              Cardinality(Descriptors(f)) + Cardinality(InHand(f))
              + (Cardinality(Own(p, f))' - Cardinality(Own(p, f)))
              + (Times(proc'[p].tmp, f) - Times(proc[p].tmp, f))
         /\ IsFiniteSet(Own(p, f)) /\ Cardinality(Own(p, f)) \in Nat
         /\ Cardinality(Own(p, f))' \in Nat
<1> DEFINE D == Descriptors(f)  H == InHand(f)
           DR == {x \in D : x[1] # p}  HR == {x \in H : x[1] # p}
           S(tmp) == Stack(p, tmp, f)
<1>1. Procs' = Procs /\ Fds' = Fds
  BY DEF Procs, Fds
<1>2. IsFiniteSet(Procs \X Fds) /\ IsFiniteSet(Procs \X (1 .. 2))
  BY Tables, Intervals, FS_Product
<1>3. D' \subseteq Procs \X Fds /\ H' \subseteq Procs \X (1 .. 2)
  BY <1>1 DEF Descriptors, InHand
<1>4. IsFiniteSet(D) /\ IsFiniteSet(H) /\ IsFiniteSet(D') /\ IsFiniteSet(H')
  BY <1>2, <1>3, RefsFinite, FS_Subset
<1>5. DR' = DR /\ HR' = HR
  BY <1>1 DEF Descriptors, InHand
<1>6. /\ Cardinality(D) = Cardinality(DR) + Cardinality(Own(p, f))
      /\ IsFiniteSet(Own(p, f)) /\ Cardinality(Own(p, f)) \in Nat /\ Cardinality(DR) \in Nat
  BY <1>4, SplitPairs DEF Own
<1>7. /\ Cardinality(D') = Cardinality(DR') + Cardinality(Own(p, f)')
      /\ Cardinality(Own(p, f)') \in Nat
  BY <1>4, SplitPairs DEF Own
<1>8. H = HR \cup S(proc[p].tmp) /\ H' = HR' \cup S(proc'[p].tmp)
  BY <1>1 DEF InHand, Stack
<1>9. IsFiniteSet(HR) /\ Cardinality(HR) \in Nat /\ \A x \in HR : x[1] # p
  BY <1>4, SplitPairs
<1>10. /\ Cardinality(HR \cup S(proc[p].tmp)) = Cardinality(HR) + Times(proc[p].tmp, f)
       /\ Cardinality(HR \cup S(proc'[p].tmp)) = Cardinality(HR) + Times(proc'[p].tmp, f)
  <2>1. ASSUME NEW tmp, Len(tmp) \in 0 .. 2
        PROVE  Cardinality(HR \cup S(tmp)) = Cardinality(HR) + Times(tmp, f)
    <3> HIDE DEF HR
    <3> QED
      BY <1>9, <2>1, StackPairs
  <2> QED
    BY <2>1
<1>11. Times(proc[p].tmp, f) \in Nat /\ Times(proc'[p].tmp, f) \in Nat
  BY DEF Times
<1> HIDE DEF DR, HR, S
<1>12. /\ Cardinality(D) = Cardinality(DR) + Cardinality(Own(p, f))
       /\ Cardinality(D') = Cardinality(DR) + Cardinality(Own(p, f)')
       /\ Cardinality(H) = Cardinality(HR) + Times(proc[p].tmp, f)
       /\ Cardinality(H') = Cardinality(HR) + Times(proc'[p].tmp, f)
  BY <1>5, <1>6, <1>7, <1>8, <1>10
<1> QED
  BY <1>6, <1>7, <1>9, <1>11, <1>12

----------------------------------------------------------------------------
(* What each action does to the record of its process and to the tables.    *)

Alone(p) == DOMAIN proc' = Procs /\ \A q \in Procs \ {p} : proc'[q] = proc[q]

\* The record s is r but for the fields X.
Same(r, s, X) == DOMAIN s = ProcFields /\ \A x \in ProcFields \ X : s[x] = r[x]

\* s is r after a call, with descriptors o.
Rested(r, s, o) ==
  /\ DOMAIN s = ProcFields
  /\ s.state = r.state /\ s.parent = r.parent /\ s.killed = r.killed /\ s.chan = r.chan
  /\ s.cwd = r.cwd /\ s.next = r.next
  /\ Returned(s) /\ s.ofile = o

\* What is known of a process that runs.
LEMMA Runs ==
  ASSUME Types, PlaceInv, NEW p \in Procs, NEW place, At(p, place)
  PROVE  /\ Local(proc[p], work, DOMAIN text) /\ DOMAIN proc = Procs
         /\ DOMAIN proc[p] = ProcFields /\ proc[p].state = "RUNNABLE" /\ proc[p].at = place
         /\ Len(proc[p].tmp) \in 0 .. 2 /\ proc[p].tmp \in Seq(Files)
         /\ proc[p].ofile \in [Fds -> Files \cup {None}]
<1>1. Local(proc[p], work, DOMAIN text) /\ DOMAIN proc = Procs
  BY DEF Types, PlaceInv, Local
<1>2. Len(proc[p].tmp) \in 0 .. 2
  <2>1. proc[p].tmp \in Seq(1 .. work.NFILE) /\ proc[p].at \in Places
    BY <1>1 DEF Local, ProcType
  <2>2. Len(proc[p].tmp) \in Nat
    BY <2>1
  <2>3. proc[p].tmp = <<>> => Len(proc[p].tmp) = 0
    OBVIOUS
  <2>4. CASE proc[p].at \in Allocating \cup {"fileclose", "close_ff"}
    <3>1. Place(proc[p], work, DOMAIN text)
      BY <1>1 DEF Local
    <3>2. CASE proc[p].at \in {"open", "pipealloc"}
      BY <3>1, <3>2 DEF Place
    <3>3. CASE proc[p].at = "pipealloc_page"
      BY <3>1, <3>3 DEF Place
    <3>4. CASE proc[p].at = "fileclose"
      BY <3>1, <3>4 DEF Place
    <3>5. CASE proc[p].at = "close_ff"
      <4>1. Len(proc[p].tmp) <= 1
        BY <3>1, <3>5 DEF Place
      <4>2. \A n \in Nat : n <= 1 => n \in 0 .. 2
        OBVIOUS
      <4> QED
        BY <4>1, <4>2, <2>2, Zenon
    <3> QED
      BY <2>4, <3>2, <3>3, <3>4, <3>5 DEF Allocating
  <2>5. CASE proc[p].at \notin Allocating \cup {"fileclose", "close_ff"}
    BY <1>1, <2>3, <2>5 DEF Local, Place
  <2> QED
    BY <2>4, <2>5
<1> QED
  BY <1>1, <1>2 DEF At, Local, ProcType, Fds, Files

\* Where a process is that makes a call.
LEMMA InCall ==
  ASSUME Types, PlaceInv, NEW p \in Procs, NEW op, Calling(p, op)
  PROVE  /\ At(p, "user") /\ Busy(proc[p])
         /\ proc[p].tmp = <<>> /\ proc[p].ff = NoFile /\ proc[p].pipe = None
         /\ CallType(Op(p)) /\ Op(p) = proc[p].prog[1] /\ ProgType(proc[p].prog)
<1>1. At(p, "user") /\ proc[p].prog # <<>>
  BY DEF Calling, Free
<1>2. Local(proc[p], work, DOMAIN text) /\ proc[p].at = "user" /\ proc[p].state = "RUNNABLE"
  BY <1>1, Runs
<1>3. ProgType(proc[p].prog)
  BY <1>2 DEF Local, ProcType
<1> QED
  BY <1>1, <1>2, <1>3, ProgramParts DEF Busy, Local, Place, Op, Allocating, Reading, Writing

\* A process back from a call has its descriptors as they were.
LEMMA RestedCalls ==
  ASSUME NEW W, NEW T, NEW r, Local(r, W, T), Busy(r)
  PROVE  /\ Rested(r, Ret(r), r.ofile) /\ Rested(r, Fail(r), r.ofile)
         /\ \A w : Sequence(w) => Rested(r, Read(r, w), r.ofile)
<1>1. DOMAIN r = ProcFields /\ ProgType(r.prog)
  BY DEF Local, ProcType
<1> QED
  BY <1>1, RetKeeps, FailKeeps, ReadKeeps DEF Busy, Rested, Kept

\* A descriptor is changed, and fields that say nothing here.
LEMMA LocalOpened ==
  ASSUME NEW W, NEW T, NEW r, NEW s, Local(r, W, T), Same(r, s, {"ofile", "var", "got", "pids"}),
         r.state = "RUNNABLE", r.at \notin {"exit", "zombie"},
         s.ofile \in [0 .. W.NOFILE - 1 -> 1 .. W.NFILE \cup {None}]
  PROVE  Local(s, W, T)
<1>1. /\ s.at = r.at /\ s.tmp = r.tmp /\ s.ff = r.ff /\ s.cwd = r.cwd /\ s.state = r.state
      /\ s.left = r.left /\ s.n = r.n /\ s.pipe = r.pipe /\ s.next = r.next /\ s.prog = r.prog
      /\ s.parent = r.parent /\ DOMAIN s = ProcFields
  BY DEF Same, ProcFields
<1>2. ProcType(s, W, T)
  BY <1>1 DEF Local, ProcType
<1>3. Place(s, W, T)
  BY <1>1 DEF Local, Place
<1> QED
  BY <1>2, <1>3 DEF Local

\* A call that returns with other descriptors.
LEMMA RestedOpened ==
  ASSUME NEW W, NEW T, NEW r, NEW s, NEW o \in [0 .. W.NOFILE - 1 -> 1 .. W.NFILE \cup {None}],
         Local(r, W, T), Busy(r), Same(Ret(r), s, {"ofile", "var", "pids"}), s.ofile = o
  PROVE  Rested(r, s, o) /\ Local(s, W, T)
<1>1. Rested(r, Ret(r), r.ofile) /\ Local(Ret(r), W, T)
  BY RestedCalls, LocalCalls
<1>2. Rested(r, s, o)
  BY <1>1 DEF Same, Rested, ProcFields, Returned
<1>3. Ret(r).state = "RUNNABLE" /\ Ret(r).at = "user"
  BY <1>1 DEF Rested, Returned, Busy
<1>4. Same(Ret(r), s, {"ofile", "var", "got", "pids"})
  BY DEF Same
<1> QED
  BY <1>1, <1>2, <1>3, <1>4, LocalOpened

\* fdalloc finds a descriptor that is free.
LEMMA FreeFd ==
  ASSUME Types, NEW p \in Procs, FreeFds(p) # {}
  PROVE  Min(FreeFds(p)) \in Fds /\ proc[p].ofile[Min(FreeFds(p))] = None
<1>1. FreeFds(p) \subseteq Nat
  BY Tables DEF FreeFds, Types
<1> QED
  BY <1>1, Least DEF FreeFds

\* filealloc finds a file nobody refers to.
LEMMA FreeFile ==
  ASSUME Types, FreeFiles # {}
  PROVE  Min(FreeFiles) \in Files /\ file[Min(FreeFiles)].ref = 0
<1>1. FreeFiles \subseteq Nat
  BY Tables DEF FreeFiles, Types
<1> QED
  BY <1>1, Least DEF FreeFiles

\* pipealloc finds a page that is no pipe.
LEMMA FreePage ==
  ASSUME Types, FreePages # {}
  PROVE  Min(FreePages) \in Pipes /\ ~ pipe[Min(FreePages)].used
<1>1. FreePages \subseteq Nat
  BY Tables DEF FreePages, Types
<1> QED
  BY <1>1, Least DEF FreePages

\* argfd fails, and so do other calls: nothing but the process itself has changed.
Quietly(p) == /\ Alone(p) /\ Rested(proc[p], proc'[p], proc[p].ofile)
              /\ Local(proc'[p], work, DOMAIN text)

\* A call that only returns disturbs nobody.
LEMMA QuietCall ==
  ASSUME Types, PlaceInv, NEW p \in Procs, NEW place, At(p, place), Busy(proc[p]), NEW w, Sequence(w),
         NEW s \in {Ret(proc[p]), Fail(proc[p]), Read(proc[p], w)}, proc' = [proc EXCEPT ![p] = s]
  PROVE  Quietly(p)
<1>1. Local(proc[p], work, DOMAIN text) /\ DOMAIN proc = Procs
  BY Runs
<1>2. Rested(proc[p], s, proc[p].ofile) /\ Local(s, work, DOMAIN text)
  BY <1>1, RestedCalls, LocalCalls
<1>3. proc'[p] = s /\ Alone(p)
  BY <1>1 DEF Alone
<1> QED
  BY <1>2, <1>3 DEF Quietly

\* What argfd returns is open.
LEMMA Named1 ==
  ASSUME Types, NEW p \in Procs, NEW d \in FdsOf(p)
  PROVE  d \in Fds /\ proc[p].ofile[d] \in Files
  BY DEF FdsOf, Types, ProcType, Fds, Files

\* The empty sequence is one.
LEMMA EmptySequence == Sequence(<<>>)
  BY DEF Sequence

\* A call with a bad descriptor only fails.
LEMMA argfd_fails_effect ==
  ASSUME Types, PlaceInv, NEW p \in Procs, argfd_fails(p)
  PROVE  Quietly(p) /\ UNCHANGED <<file, pipe, iref, text>>
<1>1. PICK op : Calling(p, op)
  BY DEF argfd_fails
<1>2. At(p, "user") /\ Busy(proc[p])
  BY <1>1, InCall
<1> QED
  BY <1>2, QuietCall, EmptySequence DEF argfd_fails

\* sys_dup only fails, or one more descriptor and one more reference go to a file.
LEMMA sys_dup_effect ==
  ASSUME Types, PlaceInv, NEW p \in Procs, sys_dup(p)
  PROVE  /\ UNCHANGED <<pipe, iref, text>> /\ proc[p].tmp = <<>> /\ proc[p].ff = NoFile
         /\ \/ Quietly(p) /\ UNCHANGED file
            \/ \E d, e \in Fds : LET f == proc[p].ofile[d] IN
                 /\ f \in Files /\ proc[p].ofile[e] = None
                 /\ Alone(p) /\ Local(proc'[p], work, DOMAIN text)
                 /\ Rested(proc[p], proc'[p], [proc[p].ofile EXCEPT ![e] = f])
                 /\ file' = [file EXCEPT ![f].ref = @ + 1]
<1>1. /\ At(p, "user") /\ Busy(proc[p]) /\ proc[p].tmp = <<>> /\ proc[p].ff = NoFile
  BY InCall DEF sys_dup
<1>2. PICK d \in FdsOf(p) :
        IF FreeFds(p) = {} THEN proc' = [proc EXCEPT ![p] = Fail(@)] /\ UNCHANGED file
        ELSE /\ proc' = [proc EXCEPT ![p] = [Ret(@) EXCEPT !.ofile[Min(FreeFds(p))] = proc[p].ofile[d]]]
             /\ file' = [file EXCEPT ![proc[p].ofile[d]].ref = @ + 1]
  BY DEF sys_dup
<1>3. CASE FreeFds(p) = {}
  BY <1>1, <1>2, <1>3, QuietCall, EmptySequence DEF sys_dup
<1>4. CASE FreeFds(p) # {}
  <2> DEFINE e == Min(FreeFds(p))  f == proc[p].ofile[d]  s == [Ret(proc[p]) EXCEPT !.ofile[e] = f]
             o == [proc[p].ofile EXCEPT ![e] = f]
  <2>1. e \in Fds /\ proc[p].ofile[e] = None /\ d \in Fds /\ f \in Files
    BY <1>4, FreeFd, Named1
  <2>2. /\ Local(proc[p], work, DOMAIN text) /\ DOMAIN proc = Procs
        /\ proc[p].ofile \in [Fds -> Files \cup {None}]
    BY <1>1, Runs
  <2>3. DOMAIN Ret(proc[p]) = ProcFields /\ Ret(proc[p]).ofile = proc[p].ofile
    BY <1>1, <2>2, RestedCalls DEF Rested
  <2>4. Same(Ret(proc[p]), s, {"ofile", "var", "pids"}) /\ s.ofile = o
    BY <2>3 DEF Same, ProcFields
  <2>6. o \in [0 .. work.NOFILE - 1 -> 1 .. work.NFILE \cup {None}]
    BY <2>1, <2>2 DEF Fds, Files
  <2>5. Rested(proc[p], s, o) /\ Local(s, work, DOMAIN text)
    <3> HIDE DEF s, o
    <3> QED
      BY <1>1, <2>2, <2>4, <2>6, RestedOpened
  <2>7. proc' = [proc EXCEPT ![p] = s]
    BY <1>2, <1>4
  <2>8. proc'[p] = s /\ Alone(p)
    BY <2>2, <2>7 DEF Alone
  <2> QED
    BY <1>1, <1>2, <1>4, <2>1, <2>5, <2>8 DEF sys_dup
<1> QED
  BY <1>3, <1>4

\* filealloc by a process that goes on at at.
Allocated(p, at) ==
  /\ Alone(p) /\ Same(proc[p], proc'[p], {"tmp", "at"}) /\ proc'[p].at = at
  /\ \E f \in Files :
       /\ file[f].ref = 0 /\ file' = [file EXCEPT ![f].ref = 1]
       /\ proc'[p].tmp = Append(proc[p].tmp, f)

\* filealloc gives its caller a file nobody had, with one reference.
LEMMA AllocatedBy ==
  ASSUME Types, PlaceInv, NEW p \in Procs, NEW place, At(p, place), NEW at, filealloc(p, at)
  PROVE  Allocated(p, at)
<1> DEFINE f == Min(FreeFiles)
           s == [proc[p] EXCEPT !.tmp = Append(@, f), !.at = at]
<1>1. f \in Files /\ file[f].ref = 0
  BY FreeFile DEF filealloc
<1>2. DOMAIN proc[p] = ProcFields /\ DOMAIN proc = Procs
  BY Runs
<1>3. proc' = [proc EXCEPT ![p] = s]
  BY <1>2 DEF filealloc
<1>4. proc'[p] = s /\ Alone(p)
  BY <1>2, <1>3 DEF Alone
<1>5. Same(proc[p], s, {"tmp", "at"}) /\ s.at = at /\ s.tmp = Append(proc[p].tmp, f)
  BY <1>2 DEF Same, ProcFields
<1> QED
  BY <1>1, <1>4, <1>5 DEF Allocated, filealloc

\* Where a file that is being made may be.
LEMMA LocalAllocated ==
  ASSUME NEW W, NEW T, NEW r, NEW s, Local(r, W, T), Same(r, s, {"tmp", "at"}), Busy(r),
         r.at \in {"user", "pipealloc"}, s.tmp \in Seq(1 .. W.NFILE),
         \/ s.at = "open" /\ Len(s.tmp) = 1 /\ s.prog[1].path \in T
         \/ s.at = "pipealloc" /\ Len(s.tmp) = 1
         \/ s.at = "pipealloc_page" /\ Len(s.tmp) = 2
  PROVE  Local(s, W, T)
<1>1. /\ s.ff = r.ff /\ s.cwd = r.cwd /\ s.state = r.state /\ s.ofile = r.ofile
      /\ s.left = r.left /\ s.n = r.n /\ s.pipe = r.pipe /\ s.next = r.next /\ s.prog = r.prog
      /\ s.parent = r.parent /\ DOMAIN s = ProcFields
  BY DEF Same, ProcFields
<1>2. ProcType(s, W, T)
  BY <1>1 DEF Local, ProcType, Places, Allocating
<1>3. Place(s, W, T)
  BY <1>1 DEF Local, Place, Busy, Allocating, Reading, Writing
<1> QED
  BY <1>2, <1>3 DEF Local

\* sys_open without a descriptor yet fails, or has a new file in hand; paths may be added.
LEMMA sys_open_effect ==
  ASSUME Types, PlaceInv, NEW p \in Procs, sys_open(p)
  PROVE  /\ UNCHANGED <<pipe, iref>> /\ proc[p].at = "user" /\ proc[p].tmp = <<>>
         /\ DOMAIN text \subseteq DOMAIN text' /\ \A path \in DOMAIN text' : Sequence(text'[path])
         /\ Local(proc'[p], work, DOMAIN text')
         /\ \/ Quietly(p) /\ UNCHANGED file
            \/ Allocated(p, "open")
<1>1. At(p, "user") /\ Busy(proc[p]) /\ proc[p].tmp = <<>> /\ Op(p) = proc[p].prog[1]
  BY InCall DEF sys_open
<1>2. Local(proc[p], work, DOMAIN text) /\ proc[p].at = "user"
  BY <1>1, Runs
<1>3. /\ DOMAIN text \subseteq DOMAIN text' /\ \A path \in DOMAIN text' : Sequence(text'[path])
      /\ Exists(p) => Op(p).path \in DOMAIN text'
  BY EmptySequence DEF sys_open, Made, Types
<1>4. CASE Exists(p) /\ filealloc(p, "open")
  <2>1. Allocated(p, "open")
    BY <1>1, <1>4, AllocatedBy
  <2>2. proc'[p].tmp \in Seq(1 .. work.NFILE) /\ Len(proc'[p].tmp) = 1
    BY <1>1, <2>1 DEF Allocated, Files
  <2>3. proc'[p].prog[1].path \in DOMAIN text'
    BY <1>1, <1>3, <1>4, <2>1 DEF Allocated, Same, ProcFields
  <2>4. Local(proc[p], work, DOMAIN text')
    BY <1>2, <1>3, LocalLater
  <2>5. Local(proc'[p], work, DOMAIN text')
    BY <1>1, <1>2, <2>1, <2>2, <2>3, <2>4, LocalAllocated DEF Allocated
  <2> QED
    BY <1>1, <1>2, <1>3, <2>1, <2>5 DEF sys_open
<1>5. CASE proc' = [proc EXCEPT ![p] = Fail(@)] /\ UNCHANGED file
  <2>1. Quietly(p)
    BY <1>1, <1>5, QuietCall, EmptySequence
  <2>2. Local(proc'[p], work, DOMAIN text')
    BY <1>3, <2>1, LocalLater DEF Quietly
  <2> QED
    BY <1>1, <1>2, <1>3, <1>5, <2>1, <2>2 DEF sys_open
<1> QED
  BY <1>4, <1>5 DEF sys_open

\* sys_open gives up the file it has in hand, or makes it an inode's under a descriptor.
LEMMA sys_open_fd_effect ==
  ASSUME Types, PlaceInv, NEW p \in Procs, sys_open_fd(p)
  PROVE  /\ UNCHANGED <<pipe, text>> /\ Alone(p) /\ Local(proc'[p], work, DOMAIN text)
         /\ proc[p].at = "open" /\ Len(proc[p].tmp) = 1 /\ proc[p].tmp[1] \in Files
         /\ proc[p].ff = NoFile
         /\ LET f == proc[p].tmp[1] IN
            \/ /\ Rested(proc[p], proc'[p], proc[p].ofile)
               /\ file' = [file EXCEPT ![f] = NoFile] /\ UNCHANGED iref
            \/ \E d \in Fds : \E g :
                 /\ proc[p].ofile[d] = None
                 /\ Rested(proc[p], proc'[p], [proc[p].ofile EXCEPT ![d] = f])
                 /\ g.type = "INODE" /\ g.ref = file[f].ref /\ FileType(g, work, DOMAIN text)
                 /\ file' = [file EXCEPT ![f] = g] /\ iref' = iref + 1
<1> DEFINE r == proc[p]  f == proc[p].tmp[1]
<1>1. At(p, "open")
  BY DEF sys_open_fd
<1>2. /\ Local(r, work, DOMAIN text) /\ DOMAIN proc = Procs /\ r.ofile \in [Fds -> Files \cup {None}]
      /\ r.at = "open" /\ r.state = "RUNNABLE" /\ r.tmp \in Seq(Files)
  BY <1>1, Runs
<1>3. Len(r.tmp) = 1 /\ Busy(r) /\ r.ff = NoFile /\ Op(p).path \in DOMAIN text
  <2>1. ProgType(r.prog) /\ r.prog # <<>>
    BY <1>2 DEF Local, ProcType, Place
  <2>2. Op(p) = r.prog[1]
    BY <2>1, ProgramParts DEF Op
  <2> QED
    BY <1>2, <2>1, <2>2 DEF Local, Place, Busy
<1>4. f \in Files /\ Head(r.tmp) = f
  BY <1>2, <1>3
<1>5. FileType(file[f], work, DOMAIN text) /\ DOMAIN file = Files
  BY <1>4 DEF Types
<1>6. CASE FreeFds(p) = {}
  <2>1. proc' = [proc EXCEPT ![p] = Fail(@)] /\ file' = [file EXCEPT ![f] = NoFile] /\ iref' = iref
    BY <1>4, <1>6 DEF sys_open_fd
  <2>2. Quietly(p)
    BY <1>1, <1>3, <2>1, QuietCall, EmptySequence
  <2> QED
    BY <1>2, <1>3, <1>4, <2>1, <2>2 DEF sys_open_fd, Quietly
<1>7. CASE FreeFds(p) # {}
  <2> DEFINE d == Min(FreeFds(p))
             g == [file[f] EXCEPT !.type = "INODE", !.path = Op(p).path,
                                  !.writable = Free(p) \/ Op(p).create]
             o == [r.ofile EXCEPT ![d] = f]
             s == [Ret(r) EXCEPT !.ofile[d] = f, !.var.fd = IF Free(p) THEN @ ELSE d]
  <2>1. d \in Fds /\ r.ofile[d] = None
    BY <1>7, FreeFd
  <2>2. file' = [file EXCEPT ![f] = g] /\ iref' = iref + 1
    BY <1>4, <1>7 DEF sys_open_fd
  <2>3. proc' = [proc EXCEPT ![p] = s]
    BY <1>4, <1>7 DEF sys_open_fd
  <2>4. DOMAIN Ret(r) = ProcFields /\ Ret(r).ofile = r.ofile
    BY <1>2, <1>3, RestedCalls DEF Rested
  <2>5. Same(Ret(r), s, {"ofile", "var", "pids"}) /\ s.ofile = o
    BY <2>4 DEF Same, ProcFields
  <2>6. o \in [0 .. work.NOFILE - 1 -> 1 .. work.NFILE \cup {None}]
    BY <1>2, <1>4, <2>1 DEF Fds, Files
  <2>7. Rested(r, s, o) /\ Local(s, work, DOMAIN text)
    BY <1>2, <1>3, <2>5, <2>6, RestedOpened
  <2>8. proc'[p] = s /\ Alone(p)
    BY <1>2, <2>3 DEF Alone
  <2>9. g.type = "INODE" /\ g.ref = file[f].ref /\ FileType(g, work, DOMAIN text)
    BY <1>3, <1>5, Fields DEF FileType, FileFields
  <2> HIDE DEF s, g, d
  <2> QED
    BY <1>2, <1>3, <1>4, <2>1, <2>2, <2>7, <2>8, <2>9 DEF sys_open_fd
<1> QED
  BY <1>6, <1>7

\* p goes on closing files: s is r with nothing in ff, and perhaps with the next
\* descriptor taken down.
Closes(r, s) ==
  /\ DOMAIN s = ProcFields
  /\ s.state = r.state /\ s.parent = r.parent /\ s.killed = r.killed /\ s.chan = r.chan
  /\ s.cwd = r.cwd /\ s.ff = NoFile /\ s.at \in {"fileclose", "user", "exit"}
  /\ \/ s.tmp = r.tmp /\ s.ofile = r.ofile
     \/ /\ r.tmp = <<>>
        /\ \E d \in DOMAIN r.ofile :
             /\ r.ofile[d] # None
             /\ s.tmp = <<r.ofile[d]>> /\ s.ofile = [r.ofile EXCEPT ![d] = None]

\* exit takes the descriptors out of ofile one by one; what it has in hand counts the same.
LEMMA ClosingEffect ==
  ASSUME NEW W, W.NOFILE \in Nat, NEW T, NEW r, ProcType(r, W, T), r.state = "RUNNABLE", r.cwd = TRUE,
         r.pipe = None, Len(r.tmp) <= 1, r.next = "exit" \/ r.prog # <<>>
  PROVE  Closes(r, Closing(r)) /\ Local(Closing(r), W, T)
<1> DEFINE opened == {d \in DOMAIN r.ofile : r.ofile[d] # None}  d == Min(opened)  s == Closing(r)
<1>1. /\ DOMAIN r = ProcFields /\ ProgType(r.prog) /\ r.next \in {"user", "exit"}
      /\ r.ofile \in [0 .. W.NOFILE - 1 -> 1 .. W.NFILE \cup {None}]
      /\ r.tmp \in Seq(1 .. W.NFILE) /\ Len(r.tmp) \in Nat
  BY DEF ProcType
<1>2. CASE r.tmp # <<>>
  <2>1. s = [r EXCEPT !.at = "fileclose", !.ff = NoFile]
    BY <1>2 DEF Closing
  <2>2. /\ DOMAIN s = ProcFields /\ \A x \in ProcFields \ {"at", "ff"} : s[x] = r[x]
        /\ s.at = "fileclose" /\ s.ff = NoFile
    BY <1>1, <2>1 DEF ProcFields
  <2>3. /\ s.state = r.state /\ s.parent = r.parent /\ s.killed = r.killed /\ s.chan = r.chan
        /\ s.cwd = r.cwd /\ s.tmp = r.tmp /\ s.ofile = r.ofile /\ s.left = r.left /\ s.n = r.n
        /\ s.pipe = r.pipe /\ s.next = r.next /\ s.prog = r.prog
    BY <2>2 DEF ProcFields
  <2> HIDE DEF s
  <2>4. ProcType(s, W, T)
    BY <2>2, <2>3, Fields DEF ProcType, Places
  <2>5. Len(s.tmp) \in 1 .. 2
    <3>1. Len(r.tmp) # 0
      BY <1>1, <1>2
    <3>2. \A n \in Nat : n # 0 /\ n <= 1 => n \in 1 .. 2
      OBVIOUS
    <3> QED
      BY <1>1, <2>3, <3>1, <3>2, Zenon
  <2>6. Place(s, W, T)
    BY <2>2, <2>3, <2>5 DEF Place, Allocating, Reading, Writing
  <2> QED
    BY <2>2, <2>3, <2>4, <2>6 DEF Closes, Local, s
<1>3. CASE r.tmp = <<>> /\ r.next = "user"
  <2>1. s = Ret(r)
    BY <1>3 DEF Closing
  <2>2. Kept(r, s) /\ Returned(s) /\ ProgType(s.prog)
    BY <1>1, <1>3, <2>1, RetKeeps
  <2> HIDE DEF s
  <2>3. ProcType(s, W, T)
    BY <1>3, <2>2, Fields, EmptySequence DEF ProcType, Places, Kept, Returned
  <2>4. Place(s, W, T)
    BY <1>3, <2>2 DEF Place, Kept, Returned, Allocating, Reading, Writing
  <2> QED
    BY <1>3, <2>2, <2>3, <2>4 DEF Closes, Local, Kept, Returned, s
<1>4. CASE r.tmp = <<>> /\ r.next = "exit" /\ opened = {}
  <2>1. s = [NoArgs(r) EXCEPT !.at = "exit", !.next = "user"]
    BY <1>4 DEF Closing
  <2>2. DOMAIN NoArgs(r) = ProcFields /\ Kept(r, NoArgs(r)) /\ Returned(NoArgs(r)) /\ NoArgs(r).prog = r.prog
    BY <1>1, NoArgsKeeps DEF Kept
  <2>3. /\ DOMAIN s = ProcFields /\ \A x \in ProcFields \ {"at", "next"} : s[x] = NoArgs(r)[x]
        /\ s.at = "exit" /\ s.next = "user"
    BY <2>1, <2>2 DEF ProcFields
  <2>4. /\ s.state = r.state /\ s.parent = r.parent /\ s.killed = r.killed /\ s.chan = r.chan
        /\ s.cwd = r.cwd /\ s.tmp = <<>> /\ s.ofile = r.ofile /\ s.left = <<>> /\ s.n = 0
        /\ s.pipe = None /\ s.prog = r.prog /\ s.ff = NoFile
    BY <2>2, <2>3 DEF Kept, Returned, ProcFields
  <2>5. \A e \in 0 .. W.NOFILE - 1 : s.ofile[e] = None
    BY <1>1, <1>4, <2>4
  <2> HIDE DEF s
  <2>6. ProcType(s, W, T)
    BY <1>1, <2>3, <2>4, Fields, EmptySequence DEF ProcType, Places
  <2>7. Place(s, W, T)
    BY <2>3, <2>4, <2>5 DEF Place, Allocating, Reading, Writing
  <2> QED
    BY <1>4, <2>3, <2>4, <2>6, <2>7 DEF Closes, Local, s
<1>5. CASE r.tmp = <<>> /\ r.next = "exit" /\ opened # {}
  <2>1. s = [r EXCEPT !.at = "fileclose", !.ff = NoFile, !.tmp = <<r.ofile[d]>>, !.ofile[d] = None]
    BY <1>5 DEF Closing
  <2>2. d \in opened
    <3>1. opened \subseteq Nat
      BY <1>1
    <3> HIDE DEF opened
    <3> QED
      BY <1>5, <3>1, Least
  <2>3. /\ DOMAIN s = ProcFields /\ \A x \in ProcFields \ {"at", "ff", "tmp", "ofile"} : s[x] = r[x]
        /\ s.at = "fileclose" /\ s.ff = NoFile /\ s.tmp = <<r.ofile[d]>>
        /\ s.ofile = [r.ofile EXCEPT ![d] = None]
    BY <1>1, <2>1 DEF ProcFields
  <2>4. /\ s.state = r.state /\ s.parent = r.parent /\ s.killed = r.killed /\ s.chan = r.chan
        /\ s.cwd = r.cwd /\ s.left = r.left /\ s.n = r.n
        /\ s.pipe = r.pipe /\ s.next = r.next /\ s.prog = r.prog
    BY <2>3 DEF ProcFields
  <2>5. d \in DOMAIN r.ofile /\ r.ofile[d] # None /\ r.ofile[d] \in 1 .. W.NFILE
    BY <1>1, <2>2
  <2> HIDE DEF s, d
  <2>6. s.tmp \in Seq(1 .. W.NFILE) /\ Len(s.tmp) = 1 /\ 1 \in 1 .. 2
    BY <2>3, <2>5
  <2>7. s.ofile \in [0 .. W.NOFILE - 1 -> 1 .. W.NFILE \cup {None}]
    BY <1>1, <2>3, <2>5
  <2>8. ProcType(s, W, T)
    BY <2>3, <2>4, <2>6, <2>7, Fields DEF ProcType, Places
  <2>9. Place(s, W, T)
    BY <1>5, <2>3, <2>4, <2>6 DEF Place, Allocating, Reading, Writing
  <2> QED
    BY <1>5, <2>3, <2>4, <2>5, <2>8, <2>9 DEF Closes, Local, s
<1> QED
  BY <1>1, <1>2, <1>3, <1>4, <1>5

\* A file less in hand.
LEMMA OneLess ==
  ASSUME NEW S, NEW w \in Seq(S), Len(w) \in 1 .. 2
  PROVE  /\ Tail(w) \in Seq(S) /\ Len(Tail(w)) <= 1 /\ Len(Tail(w)) \in 0 .. 2
         /\ \A f : Times(w, f) = Times(Tail(w), f) + (IF w[1] = f THEN 1 ELSE 0)
<1>1. Len(w) \in Nat /\ Len(w) > 0 /\ w # <<>>
  OBVIOUS
<1>2. /\ Tail(w) \in Seq(S) /\ Len(Tail(w)) = Len(w) - 1
      /\ \A k \in 1 .. Len(Tail(w)) : Tail(w)[k] = w[k + 1]
  BY <1>1, SequenceSeq, Parts
<1>3. CASE Len(w) = 1
  <2>1. Len(Tail(w)) = 0
    BY <1>2, <1>3
  <2> QED
    BY <1>2, <1>3, <2>1 DEF Times
<1>4. CASE Len(w) = 2
  <2>1. Len(Tail(w)) = 1
    BY <1>2, <1>4
  <2>2. Tail(w)[1] = w[2]
    BY <1>2, <2>1
  <2>3. \A f : Times(Tail(w), f) = IF w[2] = f THEN 1 ELSE 0
    BY <2>1, <2>2 DEF Times
  <2>4. \A f : Times(w, f) = (IF w[1] = f THEN 1 ELSE 0) + (IF w[2] = f THEN 1 ELSE 0)
    BY <1>4 DEF Times
  <2> QED
    BY SMTT(30), <1>2, <2>1, <2>3, <2>4
<1> QED
  BY <1>3, <1>4

\* fileclose takes one reference of the file in hand; the last one moves the file into ff.
LEMMA fileclose_effect ==
  ASSUME Types, PlaceInv, NEW p \in Procs, fileclose(p), file[proc[p].tmp[1]].ref # 0
  PROVE  /\ UNCHANGED <<pipe, iref, text>> /\ Alone(p) /\ Local(proc'[p], work, DOMAIN text)
         /\ proc[p].at = "fileclose" /\ proc[p].ff = NoFile /\ proc[p].cwd = TRUE
         /\ Len(proc[p].tmp) \in 1 .. 2 /\ proc[p].tmp \in Seq(Files) /\ proc[p].tmp[1] \in Files
         /\ LET f == proc[p].tmp[1] IN
            /\ \A g \in Files : FileType(file'[g], work, DOMAIN text)
            /\ file' = [file EXCEPT ![f] = IF LastRef(f) THEN NoFile ELSE [file[f] EXCEPT !.ref = @ - 1]]
            /\ IF LastRef(f) /\ file[f].type # "NONE"
               THEN /\ Same(proc[p], proc'[p], {"tmp", "ff", "at"}) /\ proc'[p].tmp = Tail(proc[p].tmp)
                    /\ proc'[p].ff = file[f] /\ proc'[p].at = "close_ff"
               ELSE Closes([proc[p] EXCEPT !.tmp = Tail(@)], proc'[p])
<1> DEFINE f == proc[p].tmp[1]  r == [proc[p] EXCEPT !.tmp = Tail(@)]
           s == [r EXCEPT !.ff = file[f], !.at = "close_ff"]
<1>1. At(p, "fileclose")
  BY DEF fileclose
<1>2. /\ Local(proc[p], work, DOMAIN text) /\ DOMAIN proc = Procs /\ DOMAIN proc[p] = ProcFields
      /\ proc[p].at = "fileclose" /\ proc[p].state = "RUNNABLE" /\ proc[p].tmp \in Seq(Files)
  BY <1>1, Runs
<1>3. /\ Len(proc[p].tmp) \in 1 .. 2 /\ proc[p].ff = NoFile /\ proc[p].cwd = TRUE /\ proc[p].pipe = None
      /\ proc[p].next = "exit" \/ proc[p].prog # <<>>
  BY <1>2 DEF Local, Place, Reading, Writing
<1>4. f \in Files /\ f = Head(proc[p].tmp)
  BY <1>2, <1>3
<1>5. /\ Tail(proc[p].tmp) \in Seq(Files) /\ Len(Tail(proc[p].tmp)) <= 1
  BY <1>2, <1>3, OneLess
<1>6. FileType(file[f], work, DOMAIN text) /\ DOMAIN file = Files
  BY <1>4 DEF Types
<1>7. /\ DOMAIN r = ProcFields /\ r.tmp = Tail(proc[p].tmp) /\ \A x \in ProcFields \ {"tmp"} : r[x] = proc[p][x]
  BY <1>2 DEF ProcFields
<1>8. /\ r.state = "RUNNABLE" /\ r.parent = proc[p].parent /\ r.killed = proc[p].killed
      /\ r.chan = proc[p].chan /\ r.cwd = TRUE /\ r.ofile = proc[p].ofile /\ r.at = "fileclose"
      /\ r.left = proc[p].left /\ r.n = proc[p].n
      /\ r.pipe = None /\ r.next = proc[p].next /\ r.prog = proc[p].prog /\ r.ff = NoFile
  BY <1>2, <1>3, <1>7 DEF ProcFields
<1>9. ProcType(r, work, DOMAIN text)
  <2> HIDE DEF r
  <2> QED
    BY <1>2, <1>5, <1>7, <1>8, Fields DEF Local, ProcType, Files, Places
<1>10. file' = [file EXCEPT ![f] = IF LastRef(f) THEN NoFile ELSE [file[f] EXCEPT !.ref = @ - 1]]
  BY <1>4 DEF fileclose
<1>11. \A g \in Files : FileType(file'[g], work, DOMAIN text)
  <2>1. LastRef(f) \/ FileType([file[f] EXCEPT !.ref = @ - 1], work, DOMAIN text)
    <3>1. ASSUME file[f].ref # 0, file[f].ref \in Nat PROVE file[f].ref - 1 \in Nat
      BY <3>1
    <3> QED
      BY <1>6, <3>1, Fields DEF FileType, FileFields
  <2> QED
    BY <1>6, <1>10, <2>1, Fields DEF Types
<1>12. proc' = [proc EXCEPT ![p] = IF LastRef(f) /\ file[f].type # "NONE" THEN s ELSE Closing(r)]
  BY <1>4 DEF fileclose
<1>13. Alone(p) /\ proc'[p] = IF LastRef(f) /\ file[f].type # "NONE" THEN s ELSE Closing(r)
  BY <1>2, <1>12 DEF Alone
<1>14. Closes(r, Closing(r)) /\ Local(Closing(r), work, DOMAIN text)
  <2> HIDE DEF r
  <2>1. Len(r.tmp) <= 1
    BY <1>5, <1>7, Zenon
  <2> QED
    BY <1>3, <1>8, <1>9, <2>1, ClosingEffect DEF Types, WorkType
<1>15. CASE LastRef(f) /\ file[f].type # "NONE"
  <2>1. /\ Same(proc[p], s, {"tmp", "ff", "at"}) /\ s.tmp = Tail(proc[p].tmp)
        /\ s.ff = file[f] /\ s.at = "close_ff"
    BY <1>2 DEF Same, ProcFields
  <2>2. /\ s.state = "RUNNABLE" /\ s.parent = proc[p].parent /\ s.killed = proc[p].killed
        /\ s.chan = proc[p].chan /\ s.cwd = TRUE /\ s.ofile = proc[p].ofile
        /\ s.left = proc[p].left /\ s.n = proc[p].n /\ DOMAIN s = ProcFields
        /\ s.pipe = None /\ s.next = proc[p].next /\ s.prog = proc[p].prog
    BY <1>2, <1>3, <2>1 DEF Same, ProcFields
  <2> HIDE DEF s
  <2>3. ProcType(s, work, DOMAIN text)
    BY <1>2, <1>5, <1>6, <2>1, <2>2 DEF Local, ProcType, Files, Places
  <2>4. Len(s.tmp) <= 1
    BY <1>5, <2>1, Zenon
  <2>5. Place(s, work, DOMAIN text)
    BY <1>3, <1>15, <2>1, <2>2, <2>4 DEF Place, Allocating, Reading, Writing
  <2> QED
    BY <1>2, <1>3, <1>4, <1>10, <1>11, <1>13, <1>15, <2>1, <2>3, <2>5 DEF fileclose, Local
<1>16. CASE ~ (LastRef(f) /\ file[f].type # "NONE")
  BY <1>2, <1>3, <1>4, <1>10, <1>11, <1>13, <1>14, <1>16 DEF fileclose
<1> QED
  BY <1>15, <1>16

\* What p does with the copy in ff leaves it closing.
LEMMA CloseFf ==
  ASSUME Types, PlaceInv, NEW p \in Procs, At(p, "close_ff")
  PROVE  /\ Closes(proc[p], Closing(proc[p])) /\ Local(Closing(proc[p]), work, DOMAIN text)
         /\ DOMAIN proc = Procs /\ proc[p].at = "close_ff" /\ proc[p].state = "RUNNABLE" /\ proc[p].cwd = TRUE
         /\ Len(proc[p].tmp) \in 0 .. 2 /\ FileType(proc[p].ff, work, DOMAIN text)
<1>1. /\ Local(proc[p], work, DOMAIN text) /\ DOMAIN proc = Procs /\ proc[p].state = "RUNNABLE"
      /\ proc[p].at = "close_ff" /\ Len(proc[p].tmp) \in 0 .. 2
  BY Runs
<1>2. /\ ProcType(proc[p], work, DOMAIN text) /\ proc[p].cwd = TRUE /\ proc[p].pipe = None
      /\ Len(proc[p].tmp) <= 1
      /\ proc[p].next = "exit" \/ proc[p].prog # <<>>
  BY <1>1 DEF Local, Place, Reading, Writing
<1>3. work.NOFILE \in Nat /\ FileType(proc[p].ff, work, DOMAIN text)
  BY <1>2 DEF Types, WorkType, ProcType
<1> QED
  BY <1>1, <1>2, <1>3, ClosingEffect

\* fileclose of the last reference to an inode's file gives the inode back.
LEMMA iput_effect ==
  ASSUME Types, PlaceInv, NEW p \in Procs, iput(p)
  PROVE  /\ UNCHANGED <<file, pipe, text>> /\ iref' = iref - 1
         /\ Alone(p) /\ Local(proc'[p], work, DOMAIN text) /\ Closes(proc[p], proc'[p])
         /\ proc[p].at = "close_ff" /\ proc[p].ff.type = "INODE" /\ proc[p].cwd = TRUE
         /\ Len(proc[p].tmp) \in 0 .. 2
<1>1. At(p, "close_ff")
  BY DEF iput
<1>2. Alone(p) /\ proc'[p] = Closing(proc[p])
  BY <1>1, CloseFf DEF iput, Alone
<1> QED
  BY <1>1, <1>2, CloseFf DEF iput

\* pipeclose closes its end, frees the page if the other is closed, and wakes the other
\* side.
LEMMA pipeclose_effect ==
  ASSUME Types, PlaceInv, NEW p \in Procs, pipeclose(p)
  PROVE  /\ UNCHANGED <<file, iref, text>> /\ DOMAIN proc' = Procs
         /\ Local(proc'[p], work, DOMAIN text) /\ Closes(proc[p], proc'[p])
         /\ proc[p].at = "close_ff" /\ proc[p].ff.type = "PIPE" /\ proc[p].cwd = TRUE
         /\ Len(proc[p].tmp) \in 0 .. 2
         /\ LET i == proc[p].ff.pipe  w == proc[p].ff.writable
                closed == [pipe[i] EXCEPT !.writeopen = @ /\ ~ w, !.readopen = @ /\ w] IN
            /\ i \in Pipes /\ w \in BOOLEAN /\ pipe[i].lock = None
            /\ pipe' = [pipe EXCEPT ![i] = IF Gone(closed) THEN NoPipe ELSE closed]
            /\ \A q \in Procs \ {p} : proc'[q] = Awake(IF w THEN NRead(i) ELSE NWrite(i))[q]
<1> DEFINE i == proc[p].ff.pipe  w == proc[p].ff.writable  c == IF w THEN NRead(i) ELSE NWrite(i)
<1>1. At(p, "close_ff") /\ proc[p].ff.type = "PIPE"
  BY DEF pipeclose
<1>2. i \in Pipes /\ w \in BOOLEAN
  BY <1>1, CloseFf DEF FileType, Pipes
<1>3. proc' = [Awake(c) EXCEPT ![p] = Closing(@)]
  BY DEF pipeclose, WokenByClose
<1>4. Awake(c)[p] = proc[p] /\ DOMAIN Awake(c) = Procs
  BY <1>1, Woken1 DEF At
<1>5. proc'[p] = Closing(proc[p]) /\ DOMAIN proc' = Procs /\ \A q \in Procs \ {p} : proc'[q] = Awake(c)[q]
  <2> HIDE DEF c
  <2> QED
    BY <1>3, <1>4
<1> QED
  BY <1>1, <1>2, <1>5, CloseFf DEF pipeclose

\* sys_close takes the file out of its descriptor and has it in hand.
LEMMA sys_close_effect ==
  ASSUME Types, PlaceInv, NEW p \in Procs, sys_close(p)
  PROVE  /\ UNCHANGED <<file, pipe, iref, text>> /\ Alone(p) /\ Local(proc'[p], work, DOMAIN text)
         /\ proc[p].at = "user" /\ proc[p].tmp = <<>> /\ proc[p].ff = NoFile
         /\ \E d \in Fds :
              /\ proc[p].ofile[d] \in Files /\ Same(proc[p], proc'[p], {"ofile", "tmp", "at"})
              /\ proc'[p].ofile = [proc[p].ofile EXCEPT ![d] = None]
              /\ proc'[p].tmp = <<proc[p].ofile[d]>> /\ proc'[p].at = "fileclose"
<1>1. At(p, "user") /\ Busy(proc[p]) /\ proc[p].tmp = <<>> /\ proc[p].ff = NoFile /\ proc[p].pipe = None
  BY InCall DEF sys_close
<1>2. /\ Local(proc[p], work, DOMAIN text) /\ DOMAIN proc = Procs /\ DOMAIN proc[p] = ProcFields
      /\ proc[p].ofile \in [Fds -> Files \cup {None}] /\ proc[p].at = "user"
      /\ proc[p].state = "RUNNABLE"
  BY <1>1, Runs
<1>3. PICK d \in FdsOf(p) :
        proc' = [proc EXCEPT ![p].ofile[d] = None, ![p].tmp = <<proc[p].ofile[d]>>, ![p].at = "fileclose"]
  BY DEF sys_close
<1>4. d \in Fds /\ proc[p].ofile[d] \in Files
  BY Named1
<1> DEFINE s == [proc[p] EXCEPT !.ofile[d] = None, !.tmp = <<proc[p].ofile[d]>>, !.at = "fileclose"]
<1>5. proc'[p] = s /\ Alone(p)
  BY <1>2, <1>3 DEF Alone
<1>6. /\ Same(proc[p], s, {"ofile", "tmp", "at"}) /\ s.ofile = [proc[p].ofile EXCEPT ![d] = None]
      /\ s.tmp = <<proc[p].ofile[d]>> /\ s.at = "fileclose"
  BY <1>2 DEF Same, ProcFields
<1> HIDE DEF s
<1>7. /\ s.tmp \in Seq(1 .. work.NFILE) /\ Len(s.tmp) = 1 /\ 1 \in 1 .. 2
      /\ s.ofile \in [0 .. work.NOFILE - 1 -> 1 .. work.NFILE \cup {None}]
  BY <1>2, <1>4, <1>6 DEF Fds, Files
<1>8. /\ s.ff = NoFile /\ s.cwd = proc[p].cwd /\ s.state = "RUNNABLE" /\ s.pipe = None
      /\ s.left = proc[p].left /\ s.n = proc[p].n /\ s.next = proc[p].next /\ s.prog = proc[p].prog
      /\ s.prog # <<>> /\ DOMAIN s = ProcFields
  BY <1>1, <1>6 DEF Same, ProcFields, Busy
<1>9. ProcType(s, work, DOMAIN text)
  BY <1>2, <1>6, <1>7, <1>8, Fields DEF Local, ProcType, Places
<1>10. Place(s, work, DOMAIN text)
  BY <1>2, <1>6, <1>7, <1>8 DEF Local, Place, Allocating, Reading, Writing
<1> QED
  BY <1>1, <1>2, <1>4, <1>5, <1>6, <1>9, <1>10 DEF sys_close, Local

\* exit starts on the descriptors.
LEMMA exit_effect ==
  ASSUME Types, PlaceInv, NEW p \in Procs, exit(p)
  PROVE  /\ UNCHANGED <<file, pipe, iref, text>> /\ Alone(p) /\ Local(proc'[p], work, DOMAIN text)
         /\ proc[p].at = "user" /\ proc[p].tmp = <<>> /\ proc[p].ff = NoFile /\ proc[p].cwd = TRUE
         /\ Closes(proc[p], proc'[p])
<1> DEFINE r == [proc[p] EXCEPT !.prog = <<>>, !.var = Unused.var, !.got = <<>>, !.pids = <<>>,
                                !.next = "exit"]
<1>1. At(p, "user")
  BY DEF exit
<1>2. /\ Local(proc[p], work, DOMAIN text) /\ DOMAIN proc = Procs /\ DOMAIN proc[p] = ProcFields
      /\ proc[p].at = "user" /\ proc[p].state = "RUNNABLE"
  BY <1>1, Runs
<1>3. proc[p].tmp = <<>> /\ proc[p].ff = NoFile /\ proc[p].cwd = TRUE /\ proc[p].pipe = None
  BY <1>2 DEF Local, Place, Allocating, Reading, Writing
<1>4. proc'[p] = Closing(r) /\ Alone(p)
  BY <1>2 DEF exit, Alone
<1>5. /\ DOMAIN r = ProcFields /\ r.next = "exit" /\ r.prog = <<>>
      /\ \A x \in ProcFields \ {"prog", "var", "got", "pids", "next"} : r[x] = proc[p][x]
  BY <1>2 DEF ProcFields
<1> HIDE DEF r
<1>6. /\ r.state = "RUNNABLE" /\ r.parent = proc[p].parent /\ r.killed = proc[p].killed
      /\ r.chan = proc[p].chan /\ r.cwd = TRUE /\ r.ofile = proc[p].ofile /\ r.at = "user"
      /\ r.left = proc[p].left /\ r.n = proc[p].n
      /\ r.pipe = None /\ r.ff = NoFile /\ r.tmp = <<>>
  BY <1>2, <1>3, <1>5 DEF ProcFields
<1>7. ProgType(<<>>)
  BY DEF ProgType, Sequence
<1>8. ProcType(r, work, DOMAIN text)
  BY <1>2, <1>3, <1>5, <1>6, <1>7 DEF Local, ProcType
<1>9. Len(r.tmp) <= 1 /\ work.NOFILE \in Nat
  BY <1>6 DEF Types, WorkType
<1>10. Closes(r, Closing(r)) /\ Local(Closing(r), work, DOMAIN text)
  BY <1>5, <1>6, <1>8, <1>9, ClosingEffect
<1>11. Closes(proc[p], Closing(r))
  <2> DEFINE s == Closing(r)
  <2>1. Closes(r, s)
    BY <1>10
  <2>2. r.cwd = proc[p].cwd /\ r.state = proc[p].state /\ r.tmp = proc[p].tmp
    BY <1>2, <1>3, <1>6
  <2> HIDE DEF s
  <2> QED
    BY <1>6, <2>1, <2>2 DEF Closes, s
<1> QED
  BY <1>2, <1>3, <1>4, <1>10, <1>11 DEF exit

\* exit gives the current directory back.
LEMMA exit_cwd_effect ==
  ASSUME Types, PlaceInv, NEW p \in Procs, exit_cwd(p)
  PROVE  /\ UNCHANGED <<file, pipe, text>> /\ iref' = iref - 1
         /\ Alone(p) /\ Local(proc'[p], work, DOMAIN text)
         /\ Same(proc[p], proc'[p], {"cwd", "at"}) /\ proc'[p].cwd = FALSE /\ proc'[p].at = "zombie"
         /\ proc[p].at = "exit" /\ proc[p].cwd = TRUE /\ proc[p].tmp = <<>>
<1> DEFINE s == [proc[p] EXCEPT !.cwd = FALSE, !.at = "zombie"]
<1>1. At(p, "exit")
  BY DEF exit_cwd
<1>2. /\ Local(proc[p], work, DOMAIN text) /\ DOMAIN proc = Procs /\ DOMAIN proc[p] = ProcFields
      /\ proc[p].at = "exit" /\ proc[p].state = "RUNNABLE"
  BY <1>1, Runs
<1>3. proc' = [proc EXCEPT ![p] = s]
  BY <1>2 DEF exit_cwd
<1>4. proc'[p] = s /\ Alone(p)
  BY <1>2, <1>3 DEF Alone
<1>5. Same(proc[p], s, {"cwd", "at"}) /\ s.cwd = FALSE /\ s.at = "zombie"
  BY <1>2 DEF Same, ProcFields
<1> HIDE DEF s
<1>6. /\ s.ff = proc[p].ff /\ s.state = "RUNNABLE" /\ s.pipe = proc[p].pipe /\ s.tmp = proc[p].tmp
      /\ s.left = proc[p].left /\ s.n = proc[p].n /\ s.next = proc[p].next /\ s.prog = proc[p].prog
      /\ s.ofile = proc[p].ofile /\ DOMAIN s = ProcFields
  BY <1>2, <1>5 DEF Same, ProcFields
<1>7. ProcType(s, work, DOMAIN text)
  BY <1>2, <1>5, <1>6 DEF Local, ProcType, Places
<1>8. Place(s, work, DOMAIN text) /\ proc[p].cwd = TRUE /\ proc[p].tmp = <<>>
  BY <1>2, <1>5, <1>6 DEF Local, Place, Allocating, Reading, Writing
<1> QED
  BY <1>2, <1>4, <1>5, <1>7, <1>8 DEF exit_cwd, Local

\* What p has allocated is given back: it goes on to close it.
GivesUp(p) == Alone(p) /\ Same(proc[p], proc'[p], {"prog", "at"}) /\ proc'[p].at = "fileclose"

\* A pipealloc that fails closes what it had allocated.
LEMMA GivesUpEffect ==
  ASSUME Types, PlaceInv, NEW p \in Procs, NEW place \in {"pipealloc", "pipealloc_page"}, At(p, place),
         proc' = [proc EXCEPT ![p] = [Failing(@) EXCEPT !.at = "fileclose"]]
  PROVE  GivesUp(p) /\ Local(proc'[p], work, DOMAIN text)
<1> DEFINE s == [Failing(proc[p]) EXCEPT !.at = "fileclose"]
<1>1. /\ Local(proc[p], work, DOMAIN text) /\ DOMAIN proc = Procs /\ DOMAIN proc[p] = ProcFields
      /\ proc[p].at = place /\ proc[p].state = "RUNNABLE" /\ ProgType(proc[p].prog)
  BY Runs DEF Local, ProcType
<1>2. /\ proc[p].prog # <<>> /\ Len(proc[p].tmp) \in 1 .. 2 /\ proc[p].cwd = TRUE /\ proc[p].pipe = None
      /\ proc[p].ff = NoFile /\ proc[p].next = "user"
  <2>1. Len(proc[p].tmp) \in {1, 2} /\ {1, 2} = 1 .. 2
    BY <1>1 DEF Local, Place
  <2>2. /\ proc[p].prog # <<>> /\ proc[p].cwd = TRUE /\ proc[p].pipe = None
        /\ proc[p].ff = NoFile /\ proc[p].next = "user"
    BY <1>1 DEF Local, Place, Allocating, Reading, Writing
  <2> QED
    BY <2>1, <2>2
<1>3. proc'[p] = s /\ Alone(p)
  BY <1>1 DEF Alone
<1>4. /\ DOMAIN Failing(proc[p]) = ProcFields /\ ProgType(Failing(proc[p]).prog) /\ Failing(proc[p]).prog # <<>>
      /\ \A x \in ProcFields : x # "prog" => Failing(proc[p])[x] = proc[p][x]
  BY <1>1, <1>2, FailingKeeps DEF Kept
<1>5. /\ DOMAIN s = ProcFields /\ s.at = "fileclose" /\ \A x \in ProcFields \ {"at"} : s[x] = Failing(proc[p])[x]
  BY <1>4 DEF ProcFields
<1> HIDE DEF s
<1>6. Same(proc[p], s, {"prog", "at"}) /\ ProgType(s.prog) /\ s.prog # <<>>
  BY <1>4, <1>5 DEF Same, ProcFields
<1>7. /\ s.ff = NoFile /\ s.state = "RUNNABLE" /\ s.pipe = None /\ s.tmp = proc[p].tmp
      /\ s.left = proc[p].left /\ s.n = proc[p].n /\ s.next = "user" /\ s.cwd = TRUE
      /\ s.ofile = proc[p].ofile
  BY <1>1, <1>2, <1>6 DEF Same, ProcFields
<1>8. ProcType(s, work, DOMAIN text)
  BY <1>1, <1>5, <1>6, <1>7, Fields DEF Local, ProcType, Places
<1>9. Place(s, work, DOMAIN text)
  BY <1>2, <1>5, <1>6, <1>7 DEF Place, Allocating, Reading, Writing
<1> QED
  BY <1>3, <1>5, <1>6, <1>8, <1>9 DEF GivesUp, Local

\* sys_pipe fails, or has the first file in hand.
LEMMA sys_pipe_effect ==
  ASSUME Types, PlaceInv, NEW p \in Procs, sys_pipe(p)
  PROVE  /\ UNCHANGED <<pipe, iref, text>> /\ proc[p].at = "user" /\ proc[p].tmp = <<>>
         /\ Local(proc'[p], work, DOMAIN text)
         /\ (Quietly(p) /\ UNCHANGED file) \/ Allocated(p, "pipealloc")
<1>1. At(p, "user") /\ Busy(proc[p]) /\ proc[p].tmp = <<>>
  BY InCall DEF sys_pipe
<1>2. Local(proc[p], work, DOMAIN text) /\ proc[p].at = "user"
  BY <1>1, Runs
<1>3. CASE filealloc(p, "pipealloc")
  <2>1. Allocated(p, "pipealloc")
    BY <1>1, <1>3, AllocatedBy
  <2>2. proc'[p].tmp \in Seq(1 .. work.NFILE) /\ Len(proc'[p].tmp) = 1
    BY <1>1, <2>1 DEF Allocated, Files
  <2>3. Local(proc'[p], work, DOMAIN text)
    BY <1>1, <1>2, <2>1, <2>2, LocalAllocated DEF Allocated
  <2> QED
    BY <1>1, <1>2, <2>1, <2>3 DEF sys_pipe
<1>4. CASE proc' = [proc EXCEPT ![p] = Fail(@)] /\ UNCHANGED file
  <2>1. Quietly(p)
    BY <1>1, <1>4, QuietCall, EmptySequence
  <2> QED
    BY <1>1, <1>2, <1>4, <2>1 DEF sys_pipe, Quietly
<1> QED
  BY <1>3, <1>4 DEF sys_pipe

\* pipealloc gives up, or has the second file in hand.
LEMMA pipealloc_effect ==
  ASSUME Types, PlaceInv, NEW p \in Procs, pipealloc(p)
  PROVE  /\ UNCHANGED <<pipe, iref, text>> /\ proc[p].at = "pipealloc" /\ Len(proc[p].tmp) = 1
         /\ Local(proc'[p], work, DOMAIN text)
         /\ (GivesUp(p) /\ UNCHANGED file) \/ Allocated(p, "pipealloc_page")
<1>1. At(p, "pipealloc")
  BY DEF pipealloc
<1>2. /\ Local(proc[p], work, DOMAIN text) /\ proc[p].at = "pipealloc" /\ proc[p].state = "RUNNABLE"
      /\ proc[p].tmp \in Seq(Files)
  BY <1>1, Runs
<1>3. Len(proc[p].tmp) = 1 /\ Busy(proc[p])
  BY <1>2 DEF Local, Place, Busy
<1>4. CASE filealloc(p, "pipealloc_page")
  <2>1. Allocated(p, "pipealloc_page")
    BY <1>1, <1>4, AllocatedBy
  <2>2. proc'[p].tmp \in Seq(1 .. work.NFILE) /\ Len(proc'[p].tmp) = 2
    BY <1>2, <1>3, <2>1 DEF Allocated, Files
  <2>3. Local(proc'[p], work, DOMAIN text)
    BY <1>2, <1>3, <2>1, <2>2, LocalAllocated DEF Allocated
  <2> QED
    BY <1>2, <1>3, <2>1, <2>3 DEF pipealloc
<1>5. CASE proc' = [proc EXCEPT ![p] = [Failing(@) EXCEPT !.at = "fileclose"]] /\ UNCHANGED file
  BY <1>1, <1>2, <1>3, <1>5, GivesUpEffect DEF pipealloc
<1> QED
  BY <1>4, <1>5 DEF pipealloc

\* sys_pipe finds two different free descriptors.
LEMMA TwoFds ==
  ASSUME Types, NEW p \in Procs, ~ (Cardinality(FreeFds(p)) < 2)
  PROVE  LET d == Min(FreeFds(p))  e == Min(FreeFds(p) \ {d}) IN
         d \in Fds /\ e \in Fds /\ d # e /\ proc[p].ofile[d] = None /\ proc[p].ofile[e] = None
<1> DEFINE S == FreeFds(p)
<1>1. S \subseteq Nat /\ IsFiniteSet(S)
  BY Tables, FS_Subset DEF Types, FreeFds
<1>2. Cardinality(S) \in Nat /\ Cardinality(S) >= 2
  BY <1>1, FS_CardinalityType
<1>3. S # {}
  BY <1>2, FS_EmptySet
<1>4. Min(S) \in S
  BY <1>1, <1>3, Least
<1>5. IsFiniteSet(S \ {Min(S)}) /\ Cardinality(S \ {Min(S)}) = Cardinality(S) - 1
  BY <1>1, <1>4, FS_RemoveElement
<1>6. S \ {Min(S)} # {}
  <2>1. Cardinality(S \ {Min(S)}) # 0
    BY <1>2, <1>5
  <2> QED
    BY <2>1, FS_EmptySet
<1>7. Min(S \ {Min(S)}) \in S \ {Min(S)}
  BY <1>1, <1>6, Least
<1> QED
  BY <1>4, <1>7 DEF FreeFds

\* pipealloc gives up, or has a page whose two ends are the two files, under two
\* descriptors or given up.
LEMMA pipealloc_page_effect ==
  ASSUME Types, PlaceInv, NEW p \in Procs, pipealloc_page(p)
  PROVE  /\ UNCHANGED <<iref, text>> /\ Local(proc'[p], work, DOMAIN text) /\ Alone(p)
         /\ proc[p].at = "pipealloc_page" /\ Len(proc[p].tmp) = 2
         /\ LET rf == proc[p].tmp[1]  wf == proc[p].tmp[2] IN
            /\ rf \in Files /\ wf \in Files
            /\ \/ GivesUp(p) /\ UNCHANGED <<file, pipe>>
               \/ /\ \E i \in Pipes :
                       /\ ~ pipe[i].used
                       /\ pipe' = [pipe EXCEPT ![i] = [NoPipe EXCEPT !.used = TRUE, !.readopen = TRUE,
                                                                     !.writeopen = TRUE]]
                       /\ file' = [file EXCEPT
                            ![rf] = [@ EXCEPT !.type = "PIPE", !.pipe = i, !.writable = FALSE],
                            ![wf] = [@ EXCEPT !.type = "PIPE", !.pipe = i, !.writable = TRUE]]
                  /\ \/ GivesUp(p)
                     \/ \E d, e \in Fds :
                          /\ d # e /\ proc[p].ofile[d] = None /\ proc[p].ofile[e] = None
                          /\ Rested(proc[p], proc'[p], [[proc[p].ofile EXCEPT ![d] = rf] EXCEPT ![e] = wf])
<1> DEFINE rf == proc[p].tmp[1]  wf == proc[p].tmp[2]  r == proc[p]
<1>1. At(p, "pipealloc_page")
  BY DEF pipealloc_page
<1>2. /\ Local(r, work, DOMAIN text) /\ r.at = "pipealloc_page" /\ r.state = "RUNNABLE"
      /\ r.tmp \in Seq(Files) /\ DOMAIN proc = Procs /\ r.ofile \in [Fds -> Files \cup {None}]
  BY <1>1, Runs
<1>3. Len(r.tmp) = 2 /\ Busy(r)
  BY <1>2 DEF Local, Place, Busy
<1>4. rf \in Files /\ wf \in Files
  BY <1>2, <1>3
<1>5. ASSUME proc' = [proc EXCEPT ![p] = Abandoned(@)]
      PROVE  GivesUp(p) /\ Alone(p) /\ Local(proc'[p], work, DOMAIN text)
  BY <1>1, <1>5, GivesUpEffect DEF Abandoned, GivesUp
<1>6. CASE FreePages = {}
  BY <1>2, <1>3, <1>4, <1>5, <1>6 DEF pipealloc_page
<1>7. CASE FreePages # {}
  <2> DEFINE i == Min(FreePages)
             d == Min(FreeFds(p))  e == Min(FreeFds(p) \ {d})
             o == [[proc[p].ofile EXCEPT ![d] = rf] EXCEPT ![e] = wf]
             s == [Ret(r) EXCEPT !.ofile[d] = rf, !.ofile[e] = wf,
                    !.var.p0 = IF Free(p) THEN @ ELSE d, !.var.p1 = IF Free(p) THEN @ ELSE e]
  <2>1. i \in Pipes /\ ~ pipe[i].used
    BY <1>7, FreePage
  <2>2. /\ pipe' = [pipe EXCEPT ![i] = [NoPipe EXCEPT !.used = TRUE, !.readopen = TRUE, !.writeopen = TRUE]]
        /\ file' = [file EXCEPT
              ![rf] = [@ EXCEPT !.type = "PIPE", !.pipe = i, !.writable = FALSE],
              ![wf] = [@ EXCEPT !.type = "PIPE", !.pipe = i, !.writable = TRUE]]
    BY <1>7 DEF pipealloc_page
  <2>3. proc' = [proc EXCEPT ![p] = IF Cardinality(FreeFds(p)) < 2 THEN Abandoned(r) ELSE s]
    BY <1>7 DEF pipealloc_page
  <2>4. CASE Cardinality(FreeFds(p)) < 2
    <3>1. GivesUp(p) /\ Alone(p) /\ Local(proc'[p], work, DOMAIN text)
      BY <1>5, <2>3, <2>4
    <3> HIDE DEF i
    <3> QED
      BY <1>2, <1>3, <1>4, <2>1, <2>2, <3>1 DEF pipealloc_page
  <2>5. CASE ~ (Cardinality(FreeFds(p)) < 2)
    <3>1. d \in Fds /\ e \in Fds /\ d # e /\ r.ofile[d] = None /\ r.ofile[e] = None
      BY <2>5, TwoFds
    <3>2. proc' = [proc EXCEPT ![p] = s]
      BY <2>3, <2>5
    <3>3. DOMAIN Ret(r) = ProcFields /\ Ret(r).ofile = r.ofile
      BY <1>2, <1>3, RestedCalls DEF Rested
    <3>4. Same(Ret(r), s, {"ofile", "var", "pids"}) /\ s.ofile = o
      BY <3>3 DEF Same, ProcFields
    <3> HIDE DEF i, d, e
    <3>5. o \in [0 .. work.NOFILE - 1 -> 1 .. work.NFILE \cup {None}]
      BY <1>2, <1>4, <3>1 DEF Fds, Files
    <3>6. Rested(r, s, o) /\ Local(s, work, DOMAIN text)
      <4> HIDE DEF s, o
      <4> QED
        BY <1>2, <1>3, <3>4, <3>5, RestedOpened
    <3>7. proc'[p] = s /\ Alone(p)
      BY <1>2, <3>2 DEF Alone
    <3>8. UNCHANGED <<iref, text>>
      BY DEF pipealloc_page
    <3> HIDE DEF s
    <3> QED
      BY <1>2, <1>3, <1>4, <2>1, <2>2, <3>1, <3>6, <3>7, <3>8
  <2> QED
    BY <2>4, <2>5
<1> QED
  BY <1>6, <1>7

\* The least of two numbers.
LEMMA MinTwo ==
  ASSUME NEW a \in Nat, NEW b \in Nat
  PROVE  Min({a, b}) = IF a <= b THEN a ELSE b
<1>1. Min({a, b}) \in {a, b} /\ Min({a, b}) <= a /\ Min({a, b}) <= b
  BY Least
<1> QED
  BY <1>1

\* A sequence in two parts.
LEMMA TwoParts ==
  ASSUME NEW w, Sequence(w), NEW k \in 0 .. Len(w)
  PROVE  LET v == SubSeq(w, 1, k)  u == SubSeq(w, k + 1, Len(w)) IN
         /\ Sequence(v) /\ Len(v) = k /\ \A j \in 1 .. k : v[j] = w[j]
         /\ Sequence(u) /\ Len(u) = Len(w) - k /\ \A j \in 1 .. Len(w) - k : u[j] = w[k + j]
         /\ u = <<>> <=> k = Len(w)
<1> DEFINE S == {w[j] : j \in 1 .. Len(w)}  v == SubSeq(w, 1, k)  u == SubSeq(w, k + 1, Len(w))
<1>1. w \in Seq(S) /\ Len(w) \in Nat
  BY SeqSequence DEF Sequence
<1>2. \A j \in 1 .. k : w[j] \in S
  OBVIOUS
<1>3. 1 \in Int /\ k \in Int /\ k + 1 \in Int /\ Len(w) \in Int
  BY <1>1
<1>4. /\ v \in Seq(S) /\ Len(v) = IF 1 <= k THEN k - 1 + 1 ELSE 0
      /\ \A j \in 1 .. k - 1 + 1 : v[j] = w[1 + j - 1]
  <2> HIDE DEF S
  <2> QED
    BY <1>2, <1>3, SubSeqProperties
<1>5. \A j \in k + 1 .. Len(w) : w[j] \in S
  BY <1>1
<1>6. /\ u \in Seq(S) /\ Len(u) = IF k + 1 <= Len(w) THEN Len(w) - (k + 1) + 1 ELSE 0
      /\ \A j \in 1 .. Len(w) - (k + 1) + 1 : u[j] = w[k + 1 + j - 1]
  <2> HIDE DEF S
  <2> QED
    BY <1>3, <1>5, SubSeqProperties
<1>7. Sequence(v) /\ Sequence(u)
  BY <1>4, <1>6, SequenceSeq
<1>8. Len(v) = k /\ Len(u) = Len(w) - k
  BY <1>1, <1>4, <1>6
<1>9. \A j \in 1 .. k : v[j] = w[j]
  BY <1>4
<1>10. \A j \in 1 .. Len(w) - k : u[j] = w[k + j]
  BY <1>1, <1>6
<1>11. u = <<>> <=> k = Len(w)
  <2>1. Len(u) = 0 <=> k = Len(w)
    BY <1>1, <1>8
  <2>2. u = <<>> <=> ~ (Len(u) > 0)
    BY <1>7, Parts
  <2>3. Len(u) \in Nat
    BY <1>6
  <2> QED
    BY <2>1, <2>2, <2>3
<1> QED
  BY <1>7, <1>8, <1>9, <1>10, <1>11

----------------------------------------------------------------------------
(* The counters of a pipe.                                                 *)

\* How many bytes are between two counters.
Between(r, w) == (w + UINT - r) % UINT

\* The sizes of a pipe's counters and of its buffer.
LEMMA Uint == UINT \in Nat /\ UINT > 0 /\ PIPESIZE \in Nat /\ PIPESIZE > 0 /\ PIPESIZE < UINT
  BY FilesAssumption

\* A sum of two counters wraps once at most.
LEMMA Wraps ==
  ASSUME NEW x \in Nat, x < 2 * UINT
  PROVE  x % UINT = IF x < UINT THEN x ELSE x - UINT
  BY Uint

\* The bytes between two counters, as uint arithmetic counts them.
LEMMA BetweenIs ==
  ASSUME NEW r \in 0 .. UINT - 1, NEW w \in 0 .. UINT - 1
  PROVE  /\ Between(r, w) \in Nat /\ Between(r, w) < UINT
         /\ Between(r, w) = IF r <= w THEN w - r ELSE w + UINT - r
<1> DEFINE x == w + UINT - r
<1>1. x \in Nat /\ x < 2 * UINT
  BY Uint
<1>2. Between(r, w) = x % UINT
  BY DEF Between
<1>3. x % UINT = IF x < UINT THEN x ELSE x - UINT
  <2> HIDE DEF x
  <2> QED
    BY <1>1, Wraps
<1>4. Between(r, w) = IF x < UINT THEN x ELSE x - UINT
  BY <1>2, <1>3
<1> QED
  BY <1>4, Uint

\* A write of k bytes moves nwrite, a read of k bytes nread.
LEMMA BetweenMoves ==
  ASSUME NEW r \in 0 .. UINT - 1, NEW w \in 0 .. UINT - 1, NEW k \in Nat
  PROVE  /\ (w + k) % UINT \in 0 .. UINT - 1 /\ (r + k) % UINT \in 0 .. UINT - 1
         /\ Between(r, w) + k < UINT => Between(r, (w + k) % UINT) = Between(r, w) + k
         /\ k <= Between(r, w) => Between((r + k) % UINT, w) = Between(r, w) - k
<1>1. (w + k) % UINT \in 0 .. UINT - 1 /\ (r + k) % UINT \in 0 .. UINT - 1
  BY Uint
<1>2. ASSUME Between(r, w) + k < UINT PROVE Between(r, (w + k) % UINT) = Between(r, w) + k
  <2>1. (w + k) % UINT = IF w + k < UINT THEN w + k ELSE (w + k) - UINT
    <3>1. w + k \in Nat /\ w + k < 2 * UINT
      BY <1>2, BetweenIs, Uint
    <3>2. \A x \in Nat : x < 2 * UINT => x % UINT = IF x < UINT THEN x ELSE x - UINT
      BY Wraps
    <3> QED
      BY <3>1, <3>2, Zenon
  <2>2. Between(r, (w + k) % UINT) =
          IF r <= (w + k) % UINT THEN ((w + k) % UINT) - r ELSE ((w + k) % UINT) + UINT - r
    BY <1>1, BetweenIs
  <2>3. Between(r, w) = IF r <= w THEN w - r ELSE w + UINT - r
    BY BetweenIs
  <2> QED
    BY <1>2, <2>1, <2>2, <2>3, Uint
<1>3. ASSUME k <= Between(r, w) PROVE Between((r + k) % UINT, w) = Between(r, w) - k
  <2>1. (r + k) % UINT = IF r + k < UINT THEN r + k ELSE (r + k) - UINT
    <3>1. r + k \in Nat /\ r + k < 2 * UINT
      BY <1>3, BetweenIs, Uint
    <3>2. \A x \in Nat : x < 2 * UINT => x % UINT = IF x < UINT THEN x ELSE x - UINT
      BY Wraps
    <3> QED
      BY <3>1, <3>2, Zenon
  <2>2. Between((r + k) % UINT, w) =
          IF (r + k) % UINT <= w THEN w - ((r + k) % UINT) ELSE w + UINT - ((r + k) % UINT)
    BY <1>1, BetweenIs
  <2>3. Between(r, w) = IF r <= w THEN w - r ELSE w + UINT - r
    BY BetweenIs
  <2> QED
    BY <1>3, <2>1, <2>2, <2>3, Uint
<1> QED
  BY <1>1, <1>2, <1>3

\* A process goes into a pipe that it has an end of.
Enters(p, at) ==
  /\ Alone(p) /\ Same(proc[p], proc'[p], {"at", "pipe", "left", "n"}) /\ proc'[p].at = at
  /\ \E d \in Fds : /\ proc[p].ofile[d] \in Files
                    /\ Has(file[proc[p].ofile[d]], proc'[p].pipe, at = "pipewrite")

\* A process that goes inside a pipe is a well-formed one.
LEMMA LocalEnters ==
  ASSUME NEW W, NEW T, NEW r, NEW s, Local(r, W, T), Busy(r), r.at = "user",
         Same(r, s, {"at", "pipe", "left", "n"}), s.at \in {"piperead", "pipewrite"},
         s.pipe \in 1 .. W.NPIPE, Sequence(s.left), s.n \in Nat
  PROVE  Local(s, W, T)
<1>1. /\ s.ff = r.ff /\ s.cwd = r.cwd /\ s.state = r.state /\ s.ofile = r.ofile
      /\ s.tmp = r.tmp /\ s.next = r.next /\ s.prog = r.prog
      /\ s.parent = r.parent /\ DOMAIN s = ProcFields
  BY DEF Same, ProcFields
<1>2. ProcType(s, W, T)
  BY <1>1 DEF Local, ProcType, Places, Reading, Writing
<1>3. Place(s, W, T)
  BY <1>1 DEF Local, Place, Busy, Allocating, Reading, Writing
<1> QED
  BY <1>2, <1>3 DEF Local

\* sys_write fails, or goes inside the pipe.
LEMMA sys_write_effect ==
  ASSUME Types, PlaceInv, NEW p \in Procs, sys_write(p)
  PROVE  /\ UNCHANGED <<file, pipe, iref, text>> /\ Local(proc'[p], work, DOMAIN text)
         /\ proc[p].at = "user"
         /\ Quietly(p) \/ Enters(p, "pipewrite")
<1>1. At(p, "user") /\ Busy(proc[p]) /\ CallType(Op(p))
  BY InCall DEF sys_write
<1>2. /\ Local(proc[p], work, DOMAIN text) /\ DOMAIN proc = Procs /\ DOMAIN proc[p] = ProcFields
      /\ proc[p].at = "user"
  BY <1>1, Runs
<1>3. PICK d \in FdsOf(p), w \in IF Free(p) THEN Payloads ELSE {Op(p).data} :
        LET f == file[proc[p].ofile[d]] IN
        /\ f.type = "PIPE"
        /\ proc' = IF f.writable
             THEN [proc EXCEPT ![p].at = "pipewrite", ![p].pipe = f.pipe, ![p].left = w]
             ELSE [proc EXCEPT ![p] = Fail(@)]
  BY DEF sys_write
<1> DEFINE f == file[proc[p].ofile[d]]
           s == [proc[p] EXCEPT !.at = "pipewrite", !.pipe = f.pipe, !.left = w]
<1>4. d \in Fds /\ proc[p].ofile[d] \in Files
  BY Named1
<1>5. f.type = "PIPE" /\ f.pipe \in 1 .. work.NPIPE /\ f.writable \in BOOLEAN
  BY <1>3, <1>4 DEF Types, FileType
<1>6. Sequence(w)
  BY <1>1, ProgramsAssumption DEF CallType
<1>7. CASE f.writable
  <2>1. proc' = [proc EXCEPT ![p] = s]
    BY <1>2, <1>3, <1>7
  <2>2. proc'[p] = s /\ Alone(p)
    BY <1>2, <2>1 DEF Alone
  <2>3. /\ Same(proc[p], s, {"at", "pipe", "left", "n"}) /\ s.at = "pipewrite" /\ s.pipe = f.pipe
        /\ s.left = w /\ s.n = proc[p].n
    BY <1>2 DEF Same, ProcFields
  <2>4. Local(s, work, DOMAIN text)
    <3> HIDE DEF s
    <3>1. proc[p].n \in Nat
      BY <1>2 DEF Local, ProcType
    <3> QED
      BY <1>1, <1>2, <1>5, <1>6, <2>3, <3>1, LocalEnters
  <2>5. Has(f, s.pipe, "pipewrite" = "pipewrite")
    BY <1>5, <1>7, <2>3 DEF Has
  <2> HIDE DEF s
  <2> QED
    BY <1>2, <1>4, <2>2, <2>3, <2>4, <2>5 DEF Enters, sys_write
<1>8. CASE ~ f.writable
  BY <1>1, <1>2, <1>3, <1>8, QuietCall, EmptySequence DEF sys_write, Quietly
<1> QED
  BY <1>7, <1>8

\* sys_read fails, or goes inside the pipe.
LEMMA sys_read_effect ==
  ASSUME Types, PlaceInv, NEW p \in Procs, sys_read(p)
  PROVE  /\ UNCHANGED <<file, pipe, iref, text>> /\ Local(proc'[p], work, DOMAIN text)
         /\ proc[p].at = "user"
         /\ Quietly(p) \/ Enters(p, "piperead")
<1>1. At(p, "user") /\ Busy(proc[p]) /\ CallType(Op(p))
  BY InCall DEF sys_read
<1>2. /\ Local(proc[p], work, DOMAIN text) /\ DOMAIN proc = Procs /\ DOMAIN proc[p] = ProcFields
      /\ proc[p].at = "user"
  BY <1>1, Runs
<1>3. PICK d \in FdsOf(p), n \in IF Free(p) THEN Reads ELSE {Op(p).n} :
        LET f == file[proc[p].ofile[d]] IN
        /\ f.type = "PIPE"
        /\ proc' = IF f.writable THEN [proc EXCEPT ![p] = Fail(@)]
             ELSE [proc EXCEPT ![p].at = "piperead", ![p].pipe = f.pipe, ![p].n = n]
  BY DEF sys_read
<1> DEFINE f == file[proc[p].ofile[d]]
           s == [proc[p] EXCEPT !.at = "piperead", !.pipe = f.pipe, !.n = n]
<1>4. d \in Fds /\ proc[p].ofile[d] \in Files
  BY Named1
<1>5. f.type = "PIPE" /\ f.pipe \in 1 .. work.NPIPE /\ f.writable \in BOOLEAN
  BY <1>3, <1>4 DEF Types, FileType
<1>6. n \in Nat
  BY <1>1, ProgramsAssumption DEF CallType
<1>7. CASE ~ f.writable
  <2>1. proc' = [proc EXCEPT ![p] = s]
    BY <1>2, <1>3, <1>7
  <2>2. proc'[p] = s /\ Alone(p)
    BY <1>2, <2>1 DEF Alone
  <2>3. /\ Same(proc[p], s, {"at", "pipe", "left", "n"}) /\ s.at = "piperead" /\ s.pipe = f.pipe
        /\ s.n = n /\ s.left = proc[p].left
    BY <1>2 DEF Same, ProcFields
  <2>4. Local(s, work, DOMAIN text)
    <3> HIDE DEF s
    <3>1. Sequence(proc[p].left)
      BY <1>2 DEF Local, ProcType
    <3> QED
      BY <1>1, <1>2, <1>5, <1>6, <2>3, <3>1, LocalEnters
  <2>5. Has(f, s.pipe, "piperead" = "pipewrite")
    BY <1>5, <1>7, <2>3 DEF Has
  <2> HIDE DEF s
  <2> QED
    BY <1>2, <1>4, <2>2, <2>3, <2>4, <2>5 DEF Enters, sys_read
<1>8. CASE f.writable
  BY <1>1, <1>2, <1>3, <1>8, QuietCall, EmptySequence DEF sys_read, Quietly
<1> QED
  BY <1>7, <1>8

\* The bytes in a pipe.
LEMMA CountIs ==
  ASSUME Types, NEW i \in Pipes
  PROVE  /\ Count(i) = Between(pipe[i].nread, pipe[i].nwrite) /\ Count(i) \in Nat
         /\ pipe[i].nread \in 0 .. UINT - 1 /\ pipe[i].nwrite \in 0 .. UINT - 1
         /\ PipeType(pipe[i]) /\ DOMAIN pipe = Pipes
<1>1. PipeType(pipe[i]) /\ pipe[i].nread \in 0 .. UINT - 1 /\ pipe[i].nwrite \in 0 .. UINT - 1
  BY DEF Types, PipeType
<1>2. Count(i) = Between(pipe[i].nread, pipe[i].nwrite)
  BY DEF Count, Between
<1> QED
  BY <1>1, <1>2, BetweenIs DEF Types

\* x is r with k more bytes written and j more read.
Moved(r, x, k, j) ==
  /\ PipeType(x) /\ x.used = r.used /\ x.readopen = r.readopen /\ x.writeopen = r.writeopen
  /\ x.nwrite = (r.nwrite + k) % UINT /\ x.nread = (r.nread + j) % UINT

\* Adding nothing leaves a counter alone.
LEMMA Still ==
  ASSUME NEW n \in 0 .. UINT - 1
  PROVE  (n + 0) % UINT = n
<1>1. n \in Nat /\ n < 2 * UINT /\ n < UINT
  BY Uint
<1>2. n % UINT = n
  BY <1>1, Wraps
<1> QED
  BY <1>1, <1>2

\* pipewrite's copying moves nwrite by the bytes copied and changes no other counter.
LEMMA FilledMoves ==
  ASSUME NEW r, PipeType(r), NEW v, Sequence(v)
  PROVE  LET x == Filled(r, v) IN
         Moved(r, x, Len(v), 0) /\ x.lock = r.lock /\ x.spoiled = r.spoiled
<1> DEFINE x == Filled(r, v)
           K(j) == {k \in 1 .. Len(v) : (r.nwrite + k - 1) % PIPESIZE = j}
           data == [j \in DOMAIN r.data |-> IF K(j) = {} THEN r.data[j] ELSE v[Max(K(j))]]
<1>1. x = [r EXCEPT !.nwrite = (@ + Len(v)) % UINT, !.data = data]
  BY DEF Filled
<1> HIDE DEF x
<1>2. /\ DOMAIN r = {"used", "nread", "nwrite", "data", "readopen", "writeopen", "lock", "spoiled"}
      /\ DOMAIN NoPipe = DOMAIN r /\ DOMAIN r.data = 0 .. PIPESIZE - 1
      /\ r.nread \in 0 .. UINT - 1 /\ r.nwrite \in 0 .. UINT - 1
  BY Fields DEF PipeType
<1>3. DOMAIN data = 0 .. PIPESIZE - 1
  BY <1>2
<1> HIDE DEF data
<1>4. /\ DOMAIN x = DOMAIN r /\ x.nwrite = (r.nwrite + Len(v)) % UINT /\ x.data = data
      /\ x.nread = r.nread /\ x.used = r.used /\ x.readopen = r.readopen /\ x.writeopen = r.writeopen
      /\ x.lock = r.lock /\ x.spoiled = r.spoiled
  BY <1>1, <1>2
<1>5. x.nwrite \in 0 .. UINT - 1
  <2>1. Len(v) \in Nat
    BY DEF Sequence
  <2> QED
    BY <1>2, <1>4, <2>1, BetweenMoves
<1>6. PipeType(x)
  BY <1>2, <1>3, <1>4, <1>5 DEF PipeType
<1>7. x.nread = (r.nread + 0) % UINT
  BY <1>2, <1>4, Still
<1> QED
  BY <1>4, <1>6, <1>7 DEF Moved, x

\* The others but for those that p wakes are left alone.
Wakes(p, c) == DOMAIN proc' = Procs /\ \A q \in Procs \ {p} : proc'[q] = Awake(c)[q]

\* pipewrite gives up, copies no more than there is room for, and goes to sleep or returns.
LEMMA pipewrite_effect ==
  ASSUME Types, PlaceInv, CountInv, NEW p \in Procs, pipewrite(p)
  PROVE  /\ UNCHANGED <<file, iref, text>> /\ Local(proc'[p], work, DOMAIN text)
         /\ proc[p].at = "pipewrite" /\ proc[p].pipe \in Pipes
         /\ LET i == proc[p].pipe IN
            \E x, v :
              /\ pipe[i].lock = None /\ pipe' = [pipe EXCEPT ![i] = x]
              /\ Sequence(v) /\ Len(v) <= Room(i) /\ Moved(pipe[i], x, Len(v), 0)
              /\ x.data = Filled(pipe[i], v).data
              /\ \/ /\ Quietly(p) /\ x.lock = None /\ x.spoiled = (pipe[i].spoiled \/ proc[p].killed)
                    /\ ~ pipe[i].readopen \/ proc[p].killed
                 \/ /\ Wakes(p, NRead(i)) /\ x.lock = None /\ x.spoiled = pipe[i].spoiled
                    /\ Rested(proc[p], proc'[p], proc[p].ofile)
                 \/ /\ Wakes(p, NRead(i)) /\ x.lock = p /\ x.spoiled = pipe[i].spoiled
                    /\ Same(proc[p], proc'[p], {"left", "at"}) /\ proc'[p].at = "pipewrite_sleep"
                    /\ Len(v) = Room(i) /\ pipe[i].readopen
<1> DEFINE i == proc[p].pipe  r == proc[p]  left == proc[p].left
           k == Min({Room(i), Len(left)})
           v == SubSeq(left, 1, k)
           rest == SubSeq(left, k + 1, Len(left))
<1>1. At(p, "pipewrite")
  BY DEF pipewrite
<1>2. /\ Local(r, work, DOMAIN text) /\ DOMAIN proc = Procs /\ DOMAIN r = ProcFields
      /\ r.at = "pipewrite" /\ r.state = "RUNNABLE"
  BY <1>1, Runs
<1>3. /\ Busy(r) /\ i \in Pipes /\ r.cwd = TRUE /\ r.tmp = <<>> /\ r.ff = NoFile /\ r.next = "user"
  BY <1>2 DEF Local, Place, Busy, Pipes, Allocating, Reading, Writing
<1>4. Sequence(left) /\ ProcType(r, work, DOMAIN text) /\ Len(left) \in Nat
  BY <1>2 DEF Local, ProcType, Sequence
<1>5. Count(i) \in Nat /\ Count(i) <= PIPESIZE /\ PipeType(pipe[i]) /\ DOMAIN pipe = Pipes
  BY <1>3, CountIs DEF CountInv
<1>6. Room(i) \in Nat
  BY <1>5, Uint DEF Room
<1>7. k = IF Room(i) <= Len(left) THEN Room(i) ELSE Len(left)
  BY <1>4, <1>6, MinTwo
<1>8. k \in 0 .. Len(left) /\ k <= Room(i)
  BY <1>4, <1>6, <1>7
<1>9. Sequence(v) /\ Len(v) = k /\ Sequence(rest) /\ (rest = <<>> <=> k = Len(left))
  <2> HIDE DEF k
  <2> QED
    BY <1>4, <1>8, TwoParts
<1>10. rest # <<>> => k = Room(i)
  BY <1>4, <1>6, <1>7, <1>9
<1> DEFINE y == Filled(pipe[i], v)
<1>11. /\ Moved(pipe[i], y, Len(v), 0) /\ y.lock = pipe[i].lock /\ y.spoiled = pipe[i].spoiled
  <2> HIDE DEF v
  <2> QED
    BY <1>5, <1>9, FilledMoves
<1>12. /\ pipe[i].lock = None /\ UNCHANGED <<file, iref, text>>
       /\ IF rest # <<>> /\ (~ pipe[i].readopen \/ proc[p].killed)
          THEN /\ pipe' = [pipe EXCEPT ![i] = [y EXCEPT !.spoiled = @ \/ proc[p].killed]]
               /\ proc' = [proc EXCEPT ![p] = Fail(r)]
          ELSE /\ pipe' = [pipe EXCEPT ![i] = [y EXCEPT !.lock = IF rest = <<>> THEN None ELSE p]]
               /\ proc' = [Awake(NRead(i)) EXCEPT ![p] =
                    IF rest = <<>> THEN Ret(@) ELSE [@ EXCEPT !.left = rest, !.at = "pipewrite_sleep"]]
  BY DEF pipewrite
<1> HIDE DEF y, v, rest, k
<1>13. DOMAIN y = {"used", "nread", "nwrite", "data", "readopen", "writeopen", "lock", "spoiled"}
  BY <1>11, Fields DEF Moved, PipeType
<1>14. Awake(NRead(i)) = [Awake(NRead(i)) EXCEPT ![p] = r] /\ Awake(NRead(i))[p] = r /\ DOMAIN Awake(NRead(i)) = Procs
  <2>1. Awake(NRead(i))[p] = r /\ DOMAIN Awake(NRead(i)) = Procs
    BY <1>2, Woken1
  <2> QED
    BY <2>1 DEF Awake
<1>15. CASE rest # <<>> /\ (~ pipe[i].readopen \/ proc[p].killed)
  <2> DEFINE x == [y EXCEPT !.spoiled = @ \/ proc[p].killed]
  <2>1. /\ Moved(pipe[i], x, Len(v), 0) /\ x.data = y.data /\ x.lock = None
        /\ x.spoiled = (pipe[i].spoiled \/ proc[p].killed)
    BY <1>11, <1>12, <1>13, Fields DEF Moved, PipeType
  <2>2. Quietly(p)
    BY <1>1, <1>3, <1>12, <1>15, QuietCall, EmptySequence
  <2>3. pipe' = [pipe EXCEPT ![i] = x]
    BY <1>12, <1>15
  <2> HIDE DEF x
  <2> QED
    BY <1>2, <1>3, <1>8, <1>9, <1>12, <1>15, <2>1, <2>2, <2>3 DEF Quietly, y
<1>16. CASE ~ (rest # <<>> /\ (~ pipe[i].readopen \/ proc[p].killed)) /\ rest = <<>>
  <2> DEFINE x == [y EXCEPT !.lock = None]
  <2>1. /\ Moved(pipe[i], x, Len(v), 0) /\ x.data = y.data /\ x.lock = None
        /\ x.spoiled = pipe[i].spoiled
    BY <1>11, <1>12, <1>13, Fields DEF Moved, PipeType
  <2>2. pipe' = [pipe EXCEPT ![i] = x] /\ proc' = [Awake(NRead(i)) EXCEPT ![p] = Ret(r)]
    BY <1>12, <1>14, <1>16
  <2>3. Wakes(p, NRead(i)) /\ proc'[p] = Ret(r)
    BY <1>14, <2>2 DEF Wakes
  <2>4. Rested(r, Ret(r), r.ofile) /\ Local(Ret(r), work, DOMAIN text)
    BY <1>2, <1>3, RestedCalls, LocalCalls
  <2> HIDE DEF x
  <2> QED
    BY <1>2, <1>3, <1>8, <1>9, <1>12, <2>1, <2>2, <2>3, <2>4 DEF y
<1>17. CASE ~ (rest # <<>> /\ (~ pipe[i].readopen \/ proc[p].killed)) /\ rest # <<>>
  <2> DEFINE x == [y EXCEPT !.lock = p]  s == [r EXCEPT !.left = rest, !.at = "pipewrite_sleep"]
  <2>1. /\ Moved(pipe[i], x, Len(v), 0) /\ x.data = y.data /\ x.lock = p
        /\ x.spoiled = pipe[i].spoiled
    BY <1>11, <1>12, <1>13, Fields DEF Moved, PipeType
  <2>2. pipe' = [pipe EXCEPT ![i] = x] /\ proc' = [Awake(NRead(i)) EXCEPT ![p] = s]
    BY <1>12, <1>14, <1>17
  <2>3. Wakes(p, NRead(i)) /\ proc'[p] = s
    BY <1>14, <2>2 DEF Wakes
  <2>4. Same(r, s, {"left", "at"}) /\ s.at = "pipewrite_sleep" /\ s.left = rest
    BY <1>2 DEF Same, ProcFields
  <2>5. Local(s, work, DOMAIN text)
    <3> HIDE DEF s
    <3>1. /\ s.ff = NoFile /\ s.cwd = TRUE /\ s.state = "RUNNABLE" /\ s.ofile = r.ofile /\ s.n = r.n
          /\ s.tmp = <<>> /\ s.next = "user" /\ s.prog = r.prog /\ s.prog # <<>> /\ s.pipe = i
          /\ s.parent = r.parent /\ DOMAIN s = ProcFields
      BY <1>2, <1>3, <2>4 DEF Same, ProcFields, Busy
    <3>2. ProcType(s, work, DOMAIN text)
      BY <1>3, <1>4, <1>9, <2>4, <3>1 DEF ProcType, Places, Reading, Writing
    <3>3. Place(s, work, DOMAIN text)
      BY <1>3, <2>4, <3>1 DEF Place, Allocating, Reading, Writing, Pipes
    <3> QED
      BY <3>2, <3>3 DEF Local
  <2>6. Len(v) = Room(i) /\ pipe[i].readopen
    BY <1>9, <1>10, <1>17
  <2> HIDE DEF x, s
  <2> QED
    <3>1. x.data = Filled(pipe[i], v).data
      BY <2>1 DEF y
    <3>2. Same(r, proc'[p], {"left", "at"}) /\ proc'[p].at = "pipewrite_sleep" /\ Local(proc'[p], work, DOMAIN text)
      BY <2>3, <2>4, <2>5
    <3> QED
      BY <1>2, <1>3, <1>8, <1>9, <1>12, <2>1, <2>2, <2>3, <2>6, <3>1, <3>2
<1> QED
  BY <1>15, <1>16, <1>17

\* What a read takes is a sequence of bytes.
LEMMA TakenIs ==
  ASSUME Types, NEW i \in Pipes, NEW n \in Nat
  PROVE  /\ Taken(i, n) \in Nat /\ Taken(i, n) <= Count(i)
         /\ Sequence(SubSeq(Contents(i), 1, Taken(i, n))) /\ Len(SubSeq(Contents(i), 1, Taken(i, n))) = Taken(i, n)
<1>1. Count(i) \in Nat
  BY CountIs
<1>2. Taken(i, n) \in 0 .. Count(i)
  BY <1>1, MinTwo DEF Taken
<1>3. Sequence(Contents(i)) /\ Len(Contents(i)) = Count(i)
  BY <1>1 DEF Contents, Sequence
<1>4. /\ Sequence(SubSeq(Contents(i), 1, Taken(i, n)))
      /\ Len(SubSeq(Contents(i), 1, Taken(i, n))) = Taken(i, n)
  BY <1>2, <1>3, TwoParts
<1> QED
  BY <1>1, <1>2, <1>4

\* piperead gives up or returns, or finds the pipe empty with its write end open and goes
\* to sleep.
LEMMA piperead_effect ==
  ASSUME Types, PlaceInv, NEW p \in Procs, piperead(p)
  PROVE  /\ UNCHANGED <<file, iref, text>> /\ Local(proc'[p], work, DOMAIN text)
         /\ proc[p].at = "piperead" /\ proc[p].pipe \in Pipes
         /\ LET i == proc[p].pipe IN
            /\ pipe[i].lock = None
            /\ \/ Quietly(p) /\ UNCHANGED pipe
               \/ /\ Alone(p) /\ Same(proc[p], proc'[p], {"at"}) /\ proc'[p].at = "piperead_sleep"
                  /\ Count(i) = 0 /\ pipe[i].writeopen
                  /\ pipe' = [pipe EXCEPT ![i].lock = p]
               \/ /\ Wakes(p, NWrite(i)) /\ Rested(proc[p], proc'[p], proc[p].ofile)
                  /\ ~ (Count(i) = 0 /\ pipe[i].writeopen)
                  /\ \E j \in Nat : /\ j <= Count(i)
                                    /\ pipe' = [pipe EXCEPT ![i].nread = (@ + j) % UINT]
<1> DEFINE i == proc[p].pipe  r == proc[p]
<1>1. At(p, "piperead")
  BY DEF piperead
<1>2. /\ Local(r, work, DOMAIN text) /\ DOMAIN proc = Procs /\ DOMAIN r = ProcFields
      /\ r.at = "piperead" /\ r.state = "RUNNABLE"
  BY <1>1, Runs
<1>3. /\ Busy(r) /\ i \in Pipes /\ r.cwd = TRUE /\ r.tmp = <<>> /\ r.ff = NoFile /\ r.next = "user"
  BY <1>2 DEF Local, Place, Busy, Pipes, Allocating, Reading, Writing
<1>4. ProcType(r, work, DOMAIN text) /\ r.n \in Nat
  BY <1>2 DEF Local, ProcType
<1> DEFINE j == Taken(i, r.n)  w == SubSeq(Contents(i), 1, j)
<1>5. j \in Nat /\ j <= Count(i) /\ Sequence(w)
  BY <1>3, <1>4, TakenIs
<1>6. /\ pipe[i].lock = None /\ UNCHANGED <<file, iref, text>>
      /\ IF Count(i) = 0 /\ pipe[i].writeopen
         THEN IF r.killed
              THEN proc' = [proc EXCEPT ![p] = Fail(r)] /\ UNCHANGED pipe
              ELSE /\ proc' = [proc EXCEPT ![p].at = "piperead_sleep"]
                   /\ pipe' = [pipe EXCEPT ![i].lock = p]
         ELSE /\ pipe' = [pipe EXCEPT ![i].nread = (@ + j) % UINT]
              /\ proc' = [Awake(NWrite(i)) EXCEPT ![p] = Read(@, w)]
  BY DEF piperead
<1> HIDE DEF j, w
<1>7. CASE Count(i) = 0 /\ pipe[i].writeopen /\ r.killed
  <2>1. Quietly(p)
    BY <1>1, <1>3, <1>6, <1>7, QuietCall, EmptySequence
  <2> QED
    BY <1>2, <1>3, <1>6, <1>7, <2>1 DEF Quietly
<1>8. CASE Count(i) = 0 /\ pipe[i].writeopen /\ ~ r.killed
  <2> DEFINE s == [r EXCEPT !.at = "piperead_sleep"]
  <2>1. proc' = [proc EXCEPT ![p] = s] /\ pipe' = [pipe EXCEPT ![i].lock = p]
    BY <1>6, <1>8
  <2>2. proc'[p] = s /\ Alone(p)
    BY <1>2, <2>1 DEF Alone
  <2>3. Same(r, s, {"at"}) /\ s.at = "piperead_sleep"
    BY <1>2 DEF Same, ProcFields
  <2> HIDE DEF s
  <2>4. /\ s.ff = NoFile /\ s.cwd = TRUE /\ s.state = "RUNNABLE" /\ s.ofile = r.ofile /\ s.n = r.n
        /\ s.tmp = <<>> /\ s.next = "user" /\ s.prog = r.prog /\ s.prog # <<>> /\ s.pipe = i
        /\ s.parent = r.parent /\ DOMAIN s = ProcFields /\ s.left = r.left
    BY <1>2, <1>3, <2>3 DEF Same, ProcFields, Busy
  <2>5. ProcType(s, work, DOMAIN text)
    BY <1>3, <1>4, <2>3, <2>4 DEF ProcType, Places, Reading, Writing
  <2>6. Place(s, work, DOMAIN text)
    BY <1>3, <2>3, <2>4 DEF Place, Allocating, Reading, Writing, Pipes
  <2>7. Local(s, work, DOMAIN text)
    BY <2>5, <2>6 DEF Local
  <2> QED
    BY <1>2, <1>3, <1>6, <1>8, <2>1, <2>2, <2>3, <2>7
<1>9. CASE ~ (Count(i) = 0 /\ pipe[i].writeopen)
  <2>1. Awake(NWrite(i))[p] = r /\ DOMAIN Awake(NWrite(i)) = Procs
    BY <1>2, Woken1
  <2>2. /\ proc' = [Awake(NWrite(i)) EXCEPT ![p] = Read(r, w)]
        /\ pipe' = [pipe EXCEPT ![i].nread = (@ + j) % UINT]
    BY <1>6, <1>9, <2>1
  <2>3. Wakes(p, NWrite(i)) /\ proc'[p] = Read(r, w)
    BY <2>1, <2>2 DEF Wakes
  <2>4. Rested(r, Read(r, w), r.ofile) /\ Local(Read(r, w), work, DOMAIN text)
    BY <1>2, <1>3, <1>5, RestedCalls, LocalCalls
  <2> QED
    BY <1>2, <1>3, <1>5, <1>6, <1>9, <2>2, <2>3, <2>4
<1> QED
  BY <1>7, <1>8, <1>9

\* sleep releases the lock of the pipe and sleeps on the pipe's channel, in one step.
LEMMA pipe_sleep_effect ==
  ASSUME Types, PlaceInv, NEW p \in Procs, pipe_sleep(p)
  PROVE  /\ UNCHANGED <<file, iref, text>> /\ Local(proc'[p], work, DOMAIN text)
         /\ proc[p].pipe \in Pipes /\ Alone(p) /\ Same(proc[p], proc'[p], {"state", "chan", "at"})
         /\ proc'[p].state = "SLEEPING"
         /\ LET i == proc[p].pipe IN
            /\ pipe' = [pipe EXCEPT ![i].lock = None]
            /\ \/ /\ proc[p].at = "pipewrite_sleep" /\ proc'[p].at = "pipewrite"
                  /\ proc'[p].chan = NWrite(i)
               \/ /\ proc[p].at = "piperead_sleep" /\ proc'[p].at = "piperead"
                  /\ proc'[p].chan = NRead(i)
<1> DEFINE i == proc[p].pipe  r == proc[p]  writes == proc[p].at = "pipewrite_sleep"
           s == [r EXCEPT !.state = "SLEEPING", !.chan = IF writes THEN NWrite(i) ELSE NRead(i),
                          !.at = IF writes THEN "pipewrite" ELSE "piperead"]
<1>1. PICK place \in {"pipewrite_sleep", "piperead_sleep"} : At(p, place)
  BY DEF pipe_sleep
<1>2. /\ Local(r, work, DOMAIN text) /\ DOMAIN proc = Procs /\ DOMAIN r = ProcFields
      /\ r.at = place /\ r.state = "RUNNABLE"
  BY <1>1, Runs
<1>3. /\ Busy(r) /\ i \in Pipes /\ r.cwd = TRUE /\ r.tmp = <<>> /\ r.ff = NoFile /\ r.next = "user"
  BY <1>2 DEF Local, Place, Busy, Pipes, Allocating, Reading, Writing
<1>4. /\ pipe' = [pipe EXCEPT ![i].lock = None] /\ UNCHANGED <<file, iref, text>>
      /\ proc' = [proc EXCEPT ![p] = s]
  BY <1>2 DEF pipe_sleep
<1>5. proc'[p] = s /\ Alone(p)
  BY <1>2, <1>4 DEF Alone
<1>6. /\ Same(r, s, {"state", "chan", "at"}) /\ s.state = "SLEEPING"
      /\ s.chan = IF writes THEN NWrite(i) ELSE NRead(i)
      /\ s.at = IF writes THEN "pipewrite" ELSE "piperead"
  BY <1>2 DEF Same, ProcFields
<1> HIDE DEF s
<1>7. /\ s.ff = NoFile /\ s.cwd = TRUE /\ s.ofile = r.ofile /\ s.n = r.n
      /\ s.tmp = <<>> /\ s.next = "user" /\ s.prog = r.prog /\ s.prog # <<>> /\ s.pipe = i
      /\ s.parent = r.parent /\ DOMAIN s = ProcFields /\ s.left = r.left
  BY <1>2, <1>3, <1>6 DEF Same, ProcFields, Busy
<1>8. ProcType(s, work, DOMAIN text)
  BY <1>2, <1>6, <1>7, Fields DEF Local, ProcType, Places, Reading, Writing
<1>9. Place(s, work, DOMAIN text)
  BY <1>3, <1>6, <1>7 DEF Place, Allocating, Reading, Writing, Pipes
<1> QED
  BY <1>2, <1>3, <1>4, <1>5, <1>6, <1>8, <1>9 DEF Local

\* What is left of a text is a sequence.
LEMMA LaterPart ==
  ASSUME NEW t, Sequence(t), NEW m \in Nat
  PROVE  Sequence(SubSeq(t, m + 1, Len(t)))
<1> DEFINE S == {t[j] : j \in 1 .. Len(t)}
<1>1. m + 1 \in Int /\ Len(t) \in Int
  BY DEF Sequence
<1>2. \A j \in m + 1 .. Len(t) : t[j] \in S
  BY <1>1
<1> HIDE DEF S
<1>3. SubSeq(t, m + 1, Len(t)) \in Seq(S)
  BY <1>1, <1>2, SubSeqProperties
<1> QED
  BY <1>3, SequenceSeq

\* The greatest of two numbers is one.
LEMMA MaxTwo ==
  ASSUME NEW a \in Nat, NEW b \in Nat
  PROVE  Max({a, b}) \in Nat
<1>1. \E x \in {a, b} : \A y \in {a, b} : x >= y
  OBVIOUS
<1>2. Max({a, b}) \in {a, b}
  BY <1>1 DEF Max
<1> QED
  BY <1>2

\* A call on a plain file: all it does to the tables is to move an offset.
LEMMA file_write_effect ==
  ASSUME Types, PlaceInv, NEW p \in Procs, file_write(p)
  PROVE  /\ UNCHANGED <<pipe, iref>> /\ Quietly(p) /\ proc[p].at = "user"
         /\ DOMAIN text' = DOMAIN text /\ \A path \in DOMAIN text' : Sequence(text'[path])
         /\ \/ UNCHANGED file
            \/ \E d \in Fds, k \in Nat : /\ proc[p].ofile[d] \in Files
                                         /\ file' = [file EXCEPT ![proc[p].ofile[d]].off = @ + k]
<1>1. At(p, "user") /\ Busy(proc[p]) /\ CallType(Op(p))
  BY InCall DEF file_write
<1>2. Local(proc[p], work, DOMAIN text) /\ proc[p].at = "user"
  BY <1>1, Runs
<1>3. PICK d \in FdsOf(p) :
       LET n == proc[p].ofile[d]  f == file[n]  w == Op(p).data IN
       /\ f.type = "INODE"
       /\ IF ~ f.writable
          THEN proc' = [proc EXCEPT ![p] = Fail(@)] /\ UNCHANGED <<file, text>>
          ELSE /\ text' = [text EXCEPT ![f.path] =
                    [j \in 1 .. Max({Len(@), f.off + Len(w)}) |->
                       IF j - f.off \in DOMAIN w THEN w[j - f.off] ELSE @[j]]]
               /\ file' = [file EXCEPT ![n].off = @ + Len(w)]
               /\ proc' = [proc EXCEPT ![p] = Ret(@)]
  BY DEF file_write
<1> DEFINE n == proc[p].ofile[d]  f == file[n]  w == Op(p).data
           top == Max({Len(text[f.path]), f.off + Len(w)})
           new == [j \in 1 .. top |-> IF j - f.off \in DOMAIN w THEN w[j - f.off] ELSE text[f.path][j]]
<1>4. d \in Fds /\ n \in Files
  BY Named1
<1>5. f.off \in Nat /\ f.path \in DOMAIN text
  BY <1>3, <1>4 DEF Types, FileType
<1>6. Len(w) \in Nat /\ Len(text[f.path]) \in Nat
  BY <1>1, <1>5 DEF CallType, Sequence, Types
<1>7. UNCHANGED <<pipe, iref>>
  BY DEF file_write
<1>8. CASE ~ f.writable
  <2>1. Quietly(p)
    BY <1>1, <1>3, <1>8, QuietCall, EmptySequence
  <2> QED
    BY <1>2, <1>3, <1>7, <1>8, <2>1 DEF Types
<1>9. CASE f.writable
  <2>1. Quietly(p)
    BY <1>1, <1>3, <1>9, QuietCall, EmptySequence
  <2>2. top \in Nat
    <3>1. \A a, b \in Nat : Max({a, b}) \in Nat
      BY MaxTwo
    <3>2. f.off + Len(w) \in Nat
      BY <1>5, <1>6
    <3> QED
      BY <1>6, <3>1, <3>2, Zenon
  <2>3. Sequence(new)
    <3> HIDE DEF top
    <3>1. Len(new) = top /\ DOMAIN new = 1 .. top
      BY <2>2
    <3> QED
      BY <2>2, <3>1 DEF Sequence
  <2>4. text' = [text EXCEPT ![f.path] = new] /\ file' = [file EXCEPT ![n].off = @ + Len(w)]
    BY <1>3, <1>9
  <2>5. DOMAIN text' = DOMAIN text /\ \A path \in DOMAIN text' : Sequence(text'[path])
    <3> HIDE DEF new
    <3> QED
      BY <1>5, <2>3, <2>4 DEF Types
  <2> HIDE DEF new
  <2> QED
    BY <1>2, <1>4, <1>6, <1>7, <2>1, <2>4, <2>5
<1> QED
  BY <1>8, <1>9

\* A read of a file returns, and may move the offset of the file forward.
LEMMA file_read_effect ==
  ASSUME Types, PlaceInv, NEW p \in Procs, file_read(p)
  PROVE  /\ UNCHANGED <<pipe, iref, text>> /\ Quietly(p) /\ proc[p].at = "user"
         /\ \/ UNCHANGED file
            \/ \E d \in Fds, k \in Nat : /\ proc[p].ofile[d] \in Files
                                         /\ file' = [file EXCEPT ![proc[p].ofile[d]].off = @ + k]
<1>1. At(p, "user") /\ Busy(proc[p]) /\ CallType(Op(p))
  BY InCall DEF file_read
<1>2. Local(proc[p], work, DOMAIN text) /\ proc[p].at = "user"
  BY <1>1, Runs
<1>3. PICK d \in FdsOf(p) :
       LET n == proc[p].ofile[d]  f == file[n]
           rest == SubSeq(text[f.path], f.off + 1, Len(text[f.path]))
           w == SubSeq(rest, 1, Min({Op(p).n, Len(rest)})) IN
       /\ f.type = "INODE"
       /\ IF f.writable /\ f.path # "console"
          THEN proc' = [proc EXCEPT ![p] = Fail(@)] /\ UNCHANGED file
          ELSE /\ file' = [file EXCEPT ![n].off = @ + Len(w)]
               /\ proc' = [proc EXCEPT ![p] = Read(@, w)]
  BY DEF file_read
<1> DEFINE n == proc[p].ofile[d]  f == file[n]  t == text[f.path]
           rest == SubSeq(t, f.off + 1, Len(t))
           w == SubSeq(rest, 1, Min({Op(p).n, Len(rest)}))
<1>4. d \in Fds /\ n \in Files
  BY Named1
<1>5. f.off \in Nat /\ Sequence(t)
  BY <1>3, <1>4 DEF Types, FileType
<1>6. UNCHANGED <<pipe, iref, text>>
  BY DEF file_read
<1>7. Sequence(rest)
  <2> HIDE DEF t
  <2> QED
    BY <1>5, LaterPart
<1>8. Sequence(w) /\ Len(w) \in Nat
  <2> HIDE DEF rest
  <2>1. Op(p).n \in Nat /\ Len(rest) \in Nat
    BY <1>1, <1>7 DEF CallType, Sequence
  <2>2. Min({Op(p).n, Len(rest)}) \in 0 .. Len(rest)
    BY <2>1, MinTwo
  <2> QED
    BY <1>7, <2>2, TwoParts DEF Sequence
<1>9. \/ proc' = [proc EXCEPT ![p] = Fail(@)] /\ UNCHANGED file
      \/ file' = [file EXCEPT ![n].off = @ + Len(w)] /\ proc' = [proc EXCEPT ![p] = Read(@, w)]
  BY <1>3
<1> HIDE DEF w
<1>10. Quietly(p)
  BY <1>1, <1>8, <1>9, QuietCall
<1> QED
  BY <1>2, <1>4, <1>6, <1>8, <1>9, <1>10

----------------------------------------------------------------------------
(* Processes.                                                              *)

\* p has returned; others have perhaps been woken.
Calm(r, s) ==
  /\ DOMAIN s = ProcFields /\ s.state = "RUNNABLE" /\ s.parent = r.parent /\ s.cwd = r.cwd
  /\ Returned(s) /\ s.ofile = r.ofile

\* fork fails, or the child has the parent's descriptors, each file one reference more, and
\* the current directory.
LEMMA fork_effect ==
  ASSUME Types, PlaceInv, NEW p \in Procs, fork(p)
  PROVE  /\ UNCHANGED <<pipe, text>> /\ Local(proc'[p], work, DOMAIN text)
         /\ proc[p].at = "user" /\ proc[p].tmp = <<>> /\ proc[p].ff = NoFile
         /\ \/ Quietly(p) /\ UNCHANGED <<file, iref>>
            \/ \E q \in Procs \ {p} :
                 /\ proc[q].state = "UNUSED" /\ DOMAIN proc' = Procs
                 /\ \A x \in Procs \ {p, q} : proc'[x] = proc[x]
                 /\ Rested(proc[p], proc'[p], proc[p].ofile)
                 /\ Local(proc'[q], work, DOMAIN text)
                 /\ proc'[q].state = "RUNNABLE" /\ proc'[q].parent = p /\ proc'[q].at = "user"
                 /\ proc'[q].ofile = proc[p].ofile /\ proc'[q].tmp = <<>>
                 /\ proc'[q].ff = NoFile /\ proc'[q].cwd = TRUE
                 /\ iref' = iref + 1
                 /\ file' = [f \in Files |-> [file[f] EXCEPT
                               !.ref = @ + Cardinality({d \in Fds : proc[p].ofile[d] = f})]]
<1> DEFINE r == proc[p]  q == Min(Slots)
           s == [Ret(r) EXCEPT !.pids = IF Free(p) THEN @ ELSE Append(@, q)]
           c == [Unused EXCEPT !.state = "RUNNABLE", !.parent = p, !.ofile = r.ofile, !.cwd = TRUE,
                   !.var = r.var, !.prog = IF Free(p) THEN r.prog ELSE Op(p).child]
<1>1. /\ At(p, "user") /\ Busy(r) /\ r.tmp = <<>> /\ r.ff = NoFile /\ CallType(Op(p)) /\ ProgType(r.prog)
  BY InCall DEF fork
<1>2. /\ Local(r, work, DOMAIN text) /\ DOMAIN proc = Procs /\ DOMAIN r = ProcFields
      /\ r.at = "user" /\ r.state = "RUNNABLE" /\ r.ofile \in [Fds -> Files \cup {None}]
  BY <1>1, Runs
<1>3. UNCHANGED <<pipe, text>>
  BY DEF fork
<1>4. CASE Slots = {}
  <2>1. proc' = [proc EXCEPT ![p] = Fail(@)] /\ UNCHANGED <<file, iref>>
    BY <1>4 DEF fork
  <2>2. Quietly(p)
    BY <1>1, <2>1, QuietCall, EmptySequence
  <2> QED
    BY <1>1, <1>2, <1>3, <2>1, <2>2 DEF Quietly
<1>5. CASE Slots # {}
  <2>1. q \in Procs /\ proc[q].state = "UNUSED" /\ q # p
    <3>1. Slots \subseteq Nat
      BY Tables DEF Slots, Types
    <3> QED
      BY <1>2, <1>5, <3>1, Least DEF Slots
  <2>2. /\ proc' = [proc EXCEPT ![q] = c, ![p] = s] /\ iref' = iref + 1
        /\ file' = [f \in Files |-> [file[f] EXCEPT
                      !.ref = @ + Cardinality({d \in Fds : proc[p].ofile[d] = f})]]
    BY <1>5 DEF fork
  <2> HIDE DEF q
  <2>3. proc'[q] = c /\ proc'[p] = s /\ DOMAIN proc' = Procs /\ \A x \in Procs \ {p, q} : proc'[x] = proc[x]
    <3> HIDE DEF c, s
    <3> QED
      BY <1>2, <2>1, <2>2
  <2>4. DOMAIN Ret(r) = ProcFields /\ Ret(r).ofile = r.ofile
    BY <1>1, <1>2, RestedCalls DEF Rested
  <2>5. Same(Ret(r), s, {"ofile", "var", "pids"}) /\ s.ofile = r.ofile
    BY <2>4 DEF Same, ProcFields
  <2>6. Rested(r, s, r.ofile) /\ Local(s, work, DOMAIN text)
    <3> HIDE DEF s
    <3>1. r.ofile \in [0 .. work.NOFILE - 1 -> 1 .. work.NFILE \cup {None}]
      BY <1>2 DEF Fds, Files
    <3> QED
      BY <1>1, <1>2, <2>5, <3>1, RestedOpened
  <2>7. ProgType(IF Free(p) THEN r.prog ELSE Op(p).child)
    BY <1>1, ProgramKnown DEF CallType
  <2>8. /\ DOMAIN c = ProcFields /\ c.state = "RUNNABLE" /\ c.parent = p /\ c.at = "user"
        /\ c.ofile = r.ofile /\ c.tmp = <<>> /\ c.ff = NoFile /\ c.cwd = TRUE /\ c.left = <<>> /\ c.n = 0
        /\ c.pipe = None /\ c.next = "user" /\ c.prog = IF Free(p) THEN r.prog ELSE Op(p).child
    BY Fields DEF Unused
  <2> HIDE DEF c
  <2>9. ProcType(c, work, DOMAIN text)
    BY <1>2, <2>7, <2>8, Fields, EmptySequence DEF ProcType, Places, Fds, Files
  <2>10. Place(c, work, DOMAIN text)
    BY <2>8 DEF Place, Allocating, Reading, Writing
  <2>11. Local(c, work, DOMAIN text)
    BY <2>9, <2>10 DEF Local
  <2> HIDE DEF s
  <2> QED
    BY <1>1, <1>2, <1>3, <2>1, <2>2, <2>3, <2>6, <2>8, <2>11
<1> QED
  BY <1>4, <1>5

\* exit leaves the children to init, wakes the parent or init, and ends.
LEMMA exit_zombie_effect ==
  ASSUME Types, PlaceInv, NEW p \in Procs, exit_zombie(p)
  PROVE  /\ UNCHANGED <<file, pipe, iref, text>> /\ DOMAIN proc' = Procs
         /\ Local(proc'[p], work, DOMAIN text) /\ proc[p].at = "zombie"
         /\ Same(proc[p], proc'[p], {"state"}) /\ proc'[p].state = "ZOMBIE"
         /\ \A q \in Procs \ {p} :
              /\ Touched(proc[q], proc'[q])
              /\ proc'[q].parent = IF proc[q].parent = p THEN initproc ELSE proc[q].parent
              /\ IF q \in Woken(p) /\ proc[q].state = "SLEEPING" /\ proc[q].chan = <<"child", q>>
                 THEN proc'[q].state = "RUNNABLE"
                 ELSE proc'[q].state = proc[q].state /\ proc'[q].chan = proc[q].chan
<1> DEFINE R(q) == IF q \in Woken(p) THEN Awake(<<"child", q>>)[q] ELSE proc[q]
           S(q) == IF q = p THEN [R(q) EXCEPT !.state = "ZOMBIE"]
                   ELSE IF q \in Children(p) THEN [R(q) EXCEPT !.parent = initproc] ELSE R(q)
<1>1. At(p, "zombie")
  BY DEF exit_zombie
<1>2. /\ Local(proc[p], work, DOMAIN text) /\ DOMAIN proc[p] = ProcFields
      /\ proc[p].at = "zombie" /\ proc[p].state = "RUNNABLE"
  BY <1>1, Runs
<1>3. UNCHANGED <<file, pipe, iref, text>> /\ proc' = [q \in Procs |-> S(q)]
  BY DEF exit_zombie
<1>4. DOMAIN proc' = Procs /\ \A q \in Procs : proc'[q] = S(q)
  <2> HIDE DEF S
  <2> QED
    BY <1>3
<1>5. R(p) = proc[p]
  BY <1>2, Woken1
<1>6. Same(proc[p], proc'[p], {"state"}) /\ proc'[p].state = "ZOMBIE"
  <2> HIDE DEF R
  <2> QED
    BY <1>2, <1>4, <1>5 DEF Same, ProcFields
<1>7. Local(proc'[p], work, DOMAIN text)
  <2> DEFINE s == proc'[p]
  <2> HIDE DEF s, R, S
  <2>1. /\ s.at = "zombie" /\ s.ofile = proc[p].ofile /\ s.tmp = proc[p].tmp /\ s.ff = proc[p].ff
        /\ s.cwd = proc[p].cwd /\ s.left = proc[p].left /\ s.n = proc[p].n /\ s.pipe = proc[p].pipe
        /\ s.next = proc[p].next /\ s.prog = proc[p].prog /\ DOMAIN s = ProcFields /\ s.state = "ZOMBIE"
    BY <1>2, <1>6 DEF Same, ProcFields, s
  <2>2. ProcType(s, work, DOMAIN text)
    BY <1>2, <2>1 DEF Local, ProcType
  <2>3. Place(s, work, DOMAIN text)
    BY <1>2, <2>1 DEF Local, Place
  <2> QED
    BY <2>2, <2>3 DEF Local, s
<1>8. ASSUME NEW q \in Procs \ {p}
      PROVE  /\ Touched(proc[q], proc'[q])
             /\ proc'[q].parent = IF proc[q].parent = p THEN initproc ELSE proc[q].parent
             /\ IF q \in Woken(p) /\ proc[q].state = "SLEEPING" /\ proc[q].chan = <<"child", q>>
                THEN proc'[q].state = "RUNNABLE"
                ELSE proc'[q].state = proc[q].state /\ proc'[q].chan = proc[q].chan
  <2>1. DOMAIN proc[q] = ProcFields /\ (proc[q].state = "UNUSED" => proc[q].parent = None) /\ None # p
    BY Tables DEF Types, ProcType, PlaceInv, Place
  <2>2. /\ Touched(proc[q], R(q)) /\ R(q).parent = proc[q].parent
        /\ IF q \in Woken(p) /\ proc[q].state = "SLEEPING" /\ proc[q].chan = <<"child", q>>
           THEN R(q).state = "RUNNABLE"
           ELSE R(q).state = proc[q].state /\ R(q).chan = proc[q].chan
    <3>1. CASE q \in Woken(p) /\ proc[q].state = "SLEEPING" /\ proc[q].chan = <<"child", q>>
      <4>1. R(q) = [proc[q] EXCEPT !.state = "RUNNABLE", !.chan = None]
        BY <3>1, Woken1
      <4> QED
        BY <2>1, <3>1, <4>1 DEF Touched, ProcFields
    <3>2. CASE ~ (q \in Woken(p) /\ proc[q].state = "SLEEPING" /\ proc[q].chan = <<"child", q>>)
      <4>1. R(q) = proc[q]
        BY <3>2, Woken1
      <4> HIDE DEF R
      <4> QED
        BY <2>1, <3>2, <4>1 DEF Touched
    <3> QED
      BY <3>1, <3>2
  <2> HIDE DEF R
  <2>3. proc'[q] = IF proc[q].parent = p THEN [R(q) EXCEPT !.parent = initproc] ELSE R(q)
    BY <1>4 DEF Children
  <2>4. Touched(proc[q], proc'[q])
    BY <2>1, <2>2, <2>3 DEF Touched, ProcFields
  <2>5. /\ proc'[q].parent = IF proc[q].parent = p THEN initproc ELSE proc[q].parent
        /\ proc'[q].state = R(q).state /\ proc'[q].chan = R(q).chan
    BY <2>2, <2>3 DEF Touched, ProcFields
  <2> QED
    BY <2>2, <2>4, <2>5
<1> QED
  BY <1>2, <1>3, <1>4, <1>6, <1>7, <1>8

\* wait begins.
LEMMA sys_wait_effect ==
  ASSUME Types, PlaceInv, NEW p \in Procs, sys_wait(p)
  PROVE  /\ UNCHANGED <<file, pipe, iref, text>> /\ Alone(p) /\ Local(proc'[p], work, DOMAIN text)
         /\ proc[p].at = "user" /\ Same(proc[p], proc'[p], {"at"}) /\ proc'[p].at = "wait"
<1> DEFINE r == proc[p]  s == [r EXCEPT !.at = "wait"]
<1>1. At(p, "user") /\ Busy(r)
  BY InCall DEF sys_wait
<1>2. /\ Local(r, work, DOMAIN text) /\ DOMAIN proc = Procs /\ DOMAIN r = ProcFields
      /\ r.at = "user" /\ r.state = "RUNNABLE"
  BY <1>1, Runs
<1>3. proc'[p] = s /\ Alone(p) /\ UNCHANGED <<file, pipe, iref, text>>
  BY <1>2 DEF sys_wait, Alone
<1>4. Same(r, s, {"at"}) /\ s.at = "wait"
  BY <1>2 DEF Same, ProcFields
<1> HIDE DEF s
<1>5. /\ s.ff = r.ff /\ s.cwd = r.cwd /\ s.state = r.state /\ s.ofile = r.ofile /\ s.n = r.n
      /\ s.tmp = r.tmp /\ s.next = r.next /\ s.prog = r.prog /\ s.pipe = r.pipe
      /\ s.parent = r.parent /\ DOMAIN s = ProcFields /\ s.left = r.left
  BY <1>4 DEF Same, ProcFields
<1>6. ProcType(s, work, DOMAIN text)
  BY <1>2, <1>4, <1>5 DEF Local, ProcType, Places
<1>7. Place(s, work, DOMAIN text)
  BY <1>1, <1>2, <1>4, <1>5 DEF Local, Place, Busy, Allocating, Reading, Writing
<1> QED
  BY <1>2, <1>3, <1>4, <1>6, <1>7 DEF Local

\* An empty slot.
LEMMA LocalUnused ==
  ASSUME WorkType, NEW T
  PROVE  Local(Unused, work, T)
<1>1. /\ Unused.state = "UNUSED" /\ Unused.parent = None /\ Unused.at = "user" /\ Unused.tmp = <<>>
      /\ Unused.ofile = [d \in Fds |-> None] /\ Unused.cwd = FALSE /\ Unused.ff = NoFile
      /\ Unused.left = <<>> /\ Unused.n = 0 /\ Unused.pipe = None /\ Unused.next = "user"
      /\ Unused.prog = <<>> /\ DOMAIN Unused = ProcFields
  BY Fields DEF Unused
<1>2. ProgType(<<>>)
  BY DEF ProgType, Sequence
<1>3. Unused.ofile \in [0 .. work.NOFILE - 1 -> 1 .. work.NFILE \cup {None}]
  BY <1>1 DEF Fds
<1>4. \A d \in 0 .. work.NOFILE - 1 : Unused.ofile[d] = None
  BY <1>1 DEF Fds
<1>5. ProcType(Unused, work, T)
  BY <1>1, <1>2, <1>3, Fields, EmptySequence DEF ProcType, Places
<1>6. Place(Unused, work, T)
  BY <1>1, <1>4 DEF Place, Allocating, Reading, Writing
<1> QED
  BY <1>5, <1>6 DEF Local

\* wait collects a zombie that is its child, fails, or sleeps with children of which none
\* is a zombie.
LEMMA wait_effect ==
  ASSUME Types, PlaceInv, NEW p \in Procs, wait(p)
  PROVE  /\ UNCHANGED <<file, pipe, iref, text>> /\ proc[p].at = "wait"
         /\ Local(proc'[p], work, DOMAIN text)
         /\ \/ \E q \in Procs \ {p} :
                 /\ proc[q].state = "ZOMBIE" /\ proc[q].parent = p /\ DOMAIN proc' = Procs
                 /\ \A x \in Procs \ {p, q} : proc'[x] = proc[x]
                 /\ proc'[q] = Unused /\ Rested(proc[p], proc'[p], proc[p].ofile)
            \/ Quietly(p)
            \/ /\ Children(p) # {} /\ \A q \in Children(p) : proc[q].state # "ZOMBIE"
               /\ Alone(p) /\ Same(proc[p], proc'[p], {"state", "chan"})
               /\ proc'[p].state = "SLEEPING" /\ proc'[p].chan = <<"child", p>>
<1> DEFINE r == proc[p]  Z == {q \in Children(p) : proc[q].state = "ZOMBIE"}
<1>1. At(p, "wait")
  BY DEF wait
<1>2. /\ Local(r, work, DOMAIN text) /\ DOMAIN proc = Procs /\ DOMAIN r = ProcFields
      /\ r.at = "wait" /\ r.state = "RUNNABLE"
  BY <1>1, Runs
<1>3. Busy(r)
  BY <1>2 DEF Local, Place, Busy
<1>4. UNCHANGED <<file, pipe, iref, text>>
  BY DEF wait
<1>5. ASSUME NEW q \in Z, proc' = [proc EXCEPT ![q] = Unused,
               ![p] = IF Op(p).loop = "again" THEN NoArgs(@) ELSE Ret(@)]
      PROVE  /\ q \in Procs \ {p} /\ proc[q].state = "ZOMBIE" /\ proc[q].parent = p /\ DOMAIN proc' = Procs
             /\ \A x \in Procs \ {p, q} : proc'[x] = proc[x]
             /\ proc'[q] = Unused /\ Rested(r, proc'[p], r.ofile) /\ Local(proc'[p], work, DOMAIN text)
  <2>1. q \in Procs /\ proc[q].state = "ZOMBIE" /\ proc[q].parent = p /\ q # p
    BY <1>2 DEF Children
  <2> DEFINE s == IF Op(p).loop = "again" THEN NoArgs(r) ELSE Ret(r)
  <2>2. proc'[p] = s /\ proc'[q] = Unused /\ DOMAIN proc' = Procs /\ \A x \in Procs \ {p, q} : proc'[x] = proc[x]
    BY <1>2, <1>5, <2>1
  <2>3. ProgType(r.prog)
    BY <1>2 DEF Local, ProcType
  <2>4. Kept(r, s) /\ Returned(s) /\ ProgType(s.prog)
    BY <1>2, <1>3, <2>3, NoArgsKeeps, RetKeeps DEF Busy
  <2> HIDE DEF s
  <2>5. Rested(r, s, r.ofile) /\ Local(s, work, DOMAIN text)
    BY <1>2, <1>3, <2>4, LocalReturned DEF Rested, Kept, Busy
  <2> QED
    BY <2>1, <2>2, <2>5
<1>6. CASE \E q \in Z : proc' = [proc EXCEPT ![q] = Unused,
               ![p] = IF Op(p).loop = "again" THEN NoArgs(@) ELSE Ret(@)]
  BY <1>2, <1>4, <1>5, <1>6
<1>7. CASE Z = {} /\ proc' = [proc EXCEPT ![p] = Fail(@)]
  <2>1. Quietly(p)
    BY <1>1, <1>3, <1>7, QuietCall, EmptySequence
  <2> QED
    BY <1>2, <1>4, <2>1 DEF Quietly
<1>8. CASE /\ Z = {} /\ Children(p) # {}
           /\ proc' = [proc EXCEPT ![p].state = "SLEEPING", ![p].chan = <<"child", p>>]
  <2> DEFINE s == [r EXCEPT !.state = "SLEEPING", !.chan = <<"child", p>>]
  <2>1. proc'[p] = s /\ Alone(p)
    BY <1>2, <1>8 DEF Alone
  <2>2. Same(r, s, {"state", "chan"}) /\ s.state = "SLEEPING" /\ s.chan = <<"child", p>>
    BY <1>2 DEF Same, ProcFields
  <2>3. \A q \in Children(p) : proc[q].state # "ZOMBIE"
    BY <1>8
  <2> HIDE DEF s
  <2>4. /\ s.ff = r.ff /\ s.cwd = r.cwd /\ s.ofile = r.ofile /\ s.n = r.n
        /\ s.tmp = r.tmp /\ s.next = r.next /\ s.prog = r.prog /\ s.pipe = r.pipe /\ s.at = "wait"
        /\ s.parent = r.parent /\ DOMAIN s = ProcFields /\ s.left = r.left
    BY <1>2, <2>2 DEF Same, ProcFields
  <2>5. ProcType(s, work, DOMAIN text)
    BY <1>2, <2>2, <2>4 DEF Local, ProcType
  <2>6. Place(s, work, DOMAIN text)
    BY <1>2, <2>2, <2>4 DEF Local, Place, Allocating, Reading, Writing
  <2> QED
    BY <1>2, <1>4, <1>8, <2>1, <2>2, <2>3, <2>5, <2>6 DEF Local
<1> QED
  BY <1>6, <1>7, <1>8 DEF wait

\* kill marks a process and makes it runnable if it slept; it fails or returns.
LEMMA kill_effect ==
  ASSUME Types, PlaceInv, NEW p \in Procs, NEW q \in Procs, kill(p, q)
  PROVE  /\ UNCHANGED <<file, pipe, iref, text>> /\ proc[p].at = "user"
         /\ Local(proc'[p], work, DOMAIN text)
         /\ DOMAIN proc' = Procs /\ Calm(proc[p], proc'[p])
         /\ \A x \in Procs \ {p} : \/ proc'[x] = proc[x]
                                   \/ Touched(proc[x], proc'[x]) /\ proc'[x].state # "SLEEPING"
                                      /\ proc'[x].parent = proc[x].parent
<1> DEFINE r == proc[p]
           K(x) == [proc[x] EXCEPT !.killed = TRUE, !.state = IF @ = "SLEEPING" THEN "RUNNABLE" ELSE @,
                                   !.chan = None]
<1>1. At(p, "user") /\ Busy(r) /\ r.tmp = <<>> /\ r.ff = NoFile
  BY InCall DEF kill
<1>2. /\ Local(r, work, DOMAIN text) /\ DOMAIN proc = Procs /\ DOMAIN r = ProcFields
      /\ r.at = "user" /\ r.state = "RUNNABLE"
  BY <1>1, Runs
<1>3. UNCHANGED <<file, pipe, iref, text>>
  BY DEF kill
<1>4. CASE proc' = [proc EXCEPT ![p] = Fail(@)]
  <2>1. Quietly(p)
    BY <1>1, <1>4, QuietCall, EmptySequence
  <2>2. Calm(r, proc'[p])
    BY <1>2, <2>1 DEF Quietly, Calm, Rested
  <2> QED
    BY <1>2, <1>3, <2>1, <2>2 DEF Quietly, Alone
<1>5. CASE proc' = [[proc EXCEPT ![q].killed = TRUE, ![q].state = IF @ = "SLEEPING" THEN "RUNNABLE" ELSE @,
                          ![q].chan = None] EXCEPT ![p] = Ret(@)]
  <2>1. \A x \in Procs : DOMAIN proc[x] = ProcFields
    BY DEF Types, ProcType
  <2>2. \A x \in Procs : /\ Touched(proc[x], K(x)) /\ K(x).state # "SLEEPING" /\ K(x).parent = proc[x].parent
    BY <2>1 DEF Touched, ProcFields
  <2>3. proc' = [[proc EXCEPT ![q] = K(q)] EXCEPT ![p] = Ret(@)]
    BY <1>2, <1>5, <2>1
  <2>4. /\ DOMAIN proc' = Procs /\ \A x \in Procs \ {p} : proc'[x] = IF x = q THEN K(q) ELSE proc[x]
        /\ proc'[p] = Ret(IF p = q THEN K(p) ELSE r)
    <3> HIDE DEF K
    <3> QED
      BY <1>2, <2>3
  <2> DEFINE s == IF p = q THEN K(p) ELSE r
  <2>5. Touched(r, s) /\ s.state = "RUNNABLE" /\ s.parent = r.parent
    BY <1>2, <2>2 DEF Touched
  <2> HIDE DEF s, K
  <2>6. Local(s, work, DOMAIN text)
    BY <1>2, <2>5, LocalTouched
  <2>7. Busy(s) /\ s.cwd = r.cwd /\ s.ofile = r.ofile
    BY <1>1, <1>2, <2>5 DEF Busy, Touched, ProcFields
  <2>8. Rested(s, Ret(s), s.ofile) /\ Local(Ret(s), work, DOMAIN text)
    BY <2>6, <2>7, RestedCalls, LocalCalls
  <2>9. Calm(r, Ret(s)) /\ proc'[p] = Ret(s)
    BY <2>4, <2>5, <2>7, <2>8 DEF Calm, Rested, s
  <2> QED
    BY <1>2, <1>3, <2>2, <2>4, <2>8, <2>9
<1> QED
  BY <1>4, <1>5 DEF kill
=============================================================================
