---------------------------- MODULE FilesProofs ----------------------------
(***************************************************************************)
(* Every action of Files preserves FilesInv's invariant, for programs and   *)
(* tables of any size; with it, the reference counts are right, each end of *)
(* a pipe that is open is had once, and nobody sleeps without a reason.     *)
(***************************************************************************)
EXTENDS FilesEffects

----------------------------------------------------------------------------
(* Counting.                                                               *)

One(b) == IF b THEN 1 ELSE 0

\* Two sets that differ at most in a.
LEMMA OneMember ==
  ASSUME NEW A, NEW B, IsFiniteSet(A), NEW a, A \ {a} = B \ {a}
  PROVE  /\ IsFiniteSet(B) /\ Cardinality(A) \in Nat /\ Cardinality(B) \in Nat
         /\ Cardinality(B) + One(a \in A) = Cardinality(A) + One(a \in B)
<1> DEFINE R == A \ {a}
<1>1. IsFiniteSet(R) /\ a \notin R /\ (a \in A => A = R \cup {a}) /\ (a \notin A => A = R)
  BY FS_Subset
<1>2. (a \in B => B = R \cup {a}) /\ (a \notin B => B = R)
  OBVIOUS
<1> HIDE DEF R
<1>3. /\ IsFiniteSet(R \cup {a}) /\ Cardinality(R \cup {a}) = Cardinality(R) + 1
      /\ Cardinality(R) \in Nat
  BY <1>1, FS_AddElement, FS_CardinalityType
<1>4. Cardinality(A) = Cardinality(R) + One(a \in A)
  <2>1. CASE a \in A
    BY <1>1, <1>3, <2>1 DEF One
  <2>2. CASE a \notin A
    BY <1>1, <1>3, <2>2 DEF One
  <2> QED
    BY <2>1, <2>2
<1>5. Cardinality(B) = Cardinality(R) + One(a \in B) /\ IsFiniteSet(B)
  <2>1. CASE a \in B
    BY <1>1, <1>2, <1>3, <2>1 DEF One
  <2>2. CASE a \notin B
    BY <1>1, <1>2, <1>3, <2>2 DEF One
  <2> QED
    BY <2>1, <2>2
<1>6. One(a \in A) \in Nat /\ One(a \in B) \in Nat
  BY DEF One
<1> QED
  BY <1>3, <1>4, <1>5, <1>6

\* The references of a record r of process p to file f.
Through(p, o, F, f) == {x \in {p} \X F : o[x[2]] = f}
Held(p, r, F, f) == Cardinality(Through(p, r.ofile, F, f)) + Times(r.tmp, f)

\* Finitely many descriptors of one process refer to a file.
LEMMA ThroughFinite ==
  ASSUME NEW p, NEW o, NEW F, IsFiniteSet(F), NEW f
  PROVE  IsFiniteSet(Through(p, o, F, f)) /\ Cardinality(Through(p, o, F, f)) \in Nat
<1>1. IsFiniteSet({p})
  BY FS_Singleton
<1>2. IsFiniteSet({p} \X F)
  BY <1>1, FS_Product
<1> QED
  BY <1>2, FS_Subset, FS_CardinalityType DEF Through

\* A descriptor is set to g.
LEMMA SetFd ==
  ASSUME NEW p, NEW F, IsFiniteSet(F), NEW o, NEW u, NEW d \in F, NEW f,
         \A x \in F \ {d} : u[x] = o[x]
  PROVE  Cardinality(Through(p, u, F, f)) + One(o[d] = f) =
           Cardinality(Through(p, o, F, f)) + One(u[d] = f)
<1> DEFINE A == Through(p, o, F, f)  B == Through(p, u, F, f)  a == <<p, d>>
<1>1. A \ {a} = B \ {a}
  <2>1. ASSUME NEW x \in {p} \X F, x # a PROVE x[2] \in F \ {d}
    BY <2>1
  <2> QED
    BY <2>1 DEF Through
<1>2. (a \in A <=> o[d] = f) /\ (a \in B <=> u[d] = f)
  BY DEF Through
<1>3. IsFiniteSet(A)
  BY ThroughFinite
<1> HIDE DEF A, B, a
<1>4. Cardinality(B) + One(a \in A) = Cardinality(A) + One(a \in B)
  BY <1>1, <1>3, OneMember
<1>5. One(a \in A) = One(o[d] = f) /\ One(a \in B) = One(u[d] = f)
  BY <1>2 DEF One
<1> QED
  BY <1>4, <1>5 DEF A, B

\* What one process holds of a file is a number.
LEMMA HeldType ==
  ASSUME NEW p, NEW r, NEW F, IsFiniteSet(F), NEW f
  PROVE  Held(p, r, F, f) \in Nat
<1>1. Times(r.tmp, f) \in Nat
  BY DEF Times
<1> QED
  BY <1>1, ThroughFinite DEF Held

\* When only p's descriptors and p's hand change, a file's count changes by what p holds.
LEMMA RecountHeld ==
  ASSUME WorkType, UNCHANGED work, NEW p \in Procs, NEW f,
         Len(proc[p].tmp) \in 0 .. 2, Len(proc'[p].tmp) \in 0 .. 2,
         \A q \in Procs \ {p} : proc'[q].ofile = proc[q].ofile /\ proc'[q].tmp = proc[q].tmp
  PROVE  /\ Cardinality(Descriptors(f))' + Cardinality(InHand(f))' + Held(p, proc[p], Fds, f) =
              Cardinality(Descriptors(f)) + Cardinality(InHand(f)) + Held(p, proc'[p], Fds, f)
         /\ Held(p, proc[p], Fds, f) \in Nat /\ Held(p, proc'[p], Fds, f) \in Nat
         /\ Cardinality(Descriptors(f))' \in Nat /\ Cardinality(InHand(f))' \in Nat
<1>1. Procs' = Procs /\ Fds' = Fds /\ IsFiniteSet(Fds)
  BY Tables DEF Procs, Fds
<1>2. Own(p, f) = Through(p, proc[p].ofile, Fds, f)
  BY DEF Own, Descriptors, Through
<1>3. Own(p, f)' = Through(p, proc'[p].ofile, Fds, f)
  BY <1>1 DEF Own, Descriptors, Through
<1>4. /\ Cardinality(Descriptors(f))' + Cardinality(InHand(f))' =
              Cardinality(Descriptors(f)) + Cardinality(InHand(f))
              + (Cardinality(Own(p, f))' - Cardinality(Own(p, f)))
              + (Times(proc'[p].tmp, f) - Times(proc[p].tmp, f))
      /\ Cardinality(Own(p, f)) \in Nat /\ Cardinality(Own(p, f))' \in Nat
  BY Recount
<1>5. Times(proc[p].tmp, f) \in Nat /\ Times(proc'[p].tmp, f) \in Nat
  BY DEF Times
<1>6. Cardinality(Descriptors(f)) \in Nat /\ Cardinality(InHand(f)) \in Nat
  BY RefsFinite
<1>7. Cardinality(Descriptors(f))' \in Nat /\ Cardinality(InHand(f))' \in Nat
  <2>1. IsFiniteSet(Procs \X Fds) /\ IsFiniteSet(Procs \X (1 .. 2))
    BY Tables, Intervals, FS_Product
  <2>2. Descriptors(f)' \subseteq Procs \X Fds /\ InHand(f)' \subseteq Procs \X (1 .. 2)
    BY <1>1 DEF Descriptors, InHand
  <2>3. IsFiniteSet(Descriptors(f)') /\ IsFiniteSet(InHand(f)')
    BY <2>1, <2>2, FS_Subset
  <2> QED
    BY <2>3, FS_CardinalityType
<1>8. Cardinality(Own(p, f)) = Cardinality(Through(p, proc[p].ofile, Fds, f))
  BY <1>2, Zenon
<1>9. Cardinality(Own(p, f))' = Cardinality(Through(p, proc'[p].ofile, Fds, f))
  BY <1>3, Zenon
<1>10. /\ Held(p, proc[p], Fds, f) = Cardinality(Own(p, f)) + Times(proc[p].tmp, f)
       /\ Held(p, proc'[p], Fds, f) = Cardinality(Own(p, f))' + Times(proc'[p].tmp, f)
  BY <1>8, <1>9, Zenon DEF Held
<1> DEFINE D == Cardinality(Descriptors(f))  H == Cardinality(InHand(f))
           O == Cardinality(Own(p, f))  T == Times(proc[p].tmp, f)  S == Times(proc'[p].tmp, f)
           D1 == Cardinality(Descriptors(f))'  H1 == Cardinality(InHand(f))'
           O1 == Cardinality(Own(p, f))'
           h == Held(p, proc[p], Fds, f)  k == Held(p, proc'[p], Fds, f)
<1>11. /\ D1 + H1 = D + H + (O1 - O) + (S - T) /\ h = O + T /\ k = O1 + S
       /\ D \in Nat /\ H \in Nat /\ O \in Nat /\ D1 \in Nat /\ H1 \in Nat /\ O1 \in Nat
       /\ S \in Nat /\ T \in Nat
  BY <1>4, <1>5, <1>6, <1>7, <1>10
<1> HIDE DEF D, H, O, T, S, D1, H1, O1, h, k
<1>12. D1 + H1 + h = D + H + k /\ h \in Nat /\ k \in Nat
  BY <1>11
<1> QED
  BY <1>11, <1>12 DEF D, H, D1, H1, h, k

----------------------------------------------------------------------------
(* From what a step does to the invariant.                                 *)

\* What a step of another process leaves of r.
Refs(r, s) ==
  /\ s.ofile = r.ofile /\ s.tmp = r.tmp /\ s.ff = r.ff /\ s.cwd = r.cwd
  /\ s.at \in Allocating \cup Reading \cup Writing => s.at = r.at /\ s.pipe = r.pipe
OthersRefs(p) == DOMAIN proc' = Procs /\ \A q \in Procs \ {p} : Refs(proc[q], proc'[q])
Others(p) == /\ DOMAIN proc' = Procs
             /\ \A q \in Procs \ {p} : proc'[q] = proc[q] \/ Touched(proc[q], proc'[q])

\* What others do to a process leaves its references alone.
LEMMA TouchedRefs ==
  ASSUME NEW p, Others(p)
  PROVE  OthersRefs(p)
<1>1. ASSUME NEW q \in Procs \ {p}, Touched(proc[q], proc'[q]) PROVE Refs(proc[q], proc'[q])
  BY <1>1 DEF Touched, ProcFields, Refs
<1>2. ASSUME NEW q \in Procs \ {p}, proc'[q] = proc[q] PROVE Refs(proc[q], proc'[q])
  BY <1>2 DEF Refs
<1> QED
  BY <1>1, <1>2 DEF Others, OthersRefs

\* A step of p alone leaves the others alone.
LEMMA AloneOthers ==
  ASSUME NEW p, Alone(p)
  PROVE  Others(p)
  BY DEF Alone, Others

\* A step of p and a wakeup does no more to the others than wake them.
LEMMA WakesOthers ==
  ASSUME Types, NEW p, NEW c, Wakes(p, c)
  PROVE  Others(p)
<1>1. ASSUME NEW q \in Procs \ {p} PROVE Touched(proc[q], proc'[q])
  BY Woken1 DEF Wakes
<1> QED
  BY <1>1 DEF Wakes, Others

\* Every process stays well-formed if p does.
LEMMA LocalsStep ==
  ASSUME Types, PlaceInv, NEW p \in Procs, Others(p), DOMAIN text \subseteq DOMAIN text',
         Local(proc'[p], work, DOMAIN text')
  PROVE  \A q \in Procs : Local(proc'[q], work, DOMAIN text')
<1>1. ASSUME NEW q \in Procs \ {p} PROVE Local(proc'[q], work, DOMAIN text')
  <2>1. Local(proc[q], work, DOMAIN text)
    BY DEF Types, PlaceInv, Local
  <2>2. Local(proc'[q], work, DOMAIN text)
    BY <2>1, LocalTouched DEF Others
  <2> QED
    BY <2>2, LocalLater
<1> QED
  BY <1>1

\* The type invariant and the places, from the parts of the state.
LEMMA TypesStep ==
  ASSUME WorkType, UNCHANGED work, \A path \in DOMAIN text' : Sequence(text'[path]),
         DOMAIN proc' = Procs, \A q \in Procs : Local(proc'[q], work, DOMAIN text'),
         DOMAIN file' = Files, \A f \in Files : FileType(file'[f], work, DOMAIN text'),
         DOMAIN pipe' = Pipes, \A i \in Pipes : PipeType(pipe'[i])
  PROVE  Types' /\ PlaceInv'
<1>1. Procs' = Procs /\ Files' = Files /\ Pipes' = Pipes /\ WorkType'
  BY DEF Procs, Files, Pipes, WorkType
<1> QED
  BY <1>1 DEF Types, PlaceInv, Local

\* The counts.  g is the one file that may become or cease to be a plain file.
LEMMA RefsStep ==
  ASSUME WorkType, UNCHANGED work, RefsRight, NEW p \in Procs, OthersRefs(p),
         Len(proc[p].tmp) \in 0 .. 2, Len(proc'[p].tmp) \in 0 .. 2,
         \A f \in Files : /\ file'[f].ref \in Nat /\ (file'[f].ref = 0 => file'[f] = NoFile)
                          /\ file'[f].ref + Held(p, proc[p], Fds, f) = file[f].ref + Held(p, proc'[p], Fds, f),
         NEW g \in Files, \A f \in Files \ {g} : file'[f].type = "INODE" <=> file[f].type = "INODE",
         iref' = iref + (One(proc'[p].cwd) + One(file'[g].type = "INODE") + One(proc'[p].ff.type = "INODE"))
                      - (One(proc[p].cwd) + One(file[g].type = "INODE") + One(proc[p].ff.type = "INODE"))
  PROVE  RefsRight'
<1>1. Procs' = Procs /\ Files' = Files
  BY DEF Procs, Files
<1>2. ASSUME NEW f \in Files
      PROVE  /\ file'[f].ref = Cardinality(Descriptors(f))' + Cardinality(InHand(f))'
             /\ file'[f].ref = 0 => file'[f] = NoFile
  <2> DEFINE D == Cardinality(Descriptors(f))  H == Cardinality(InHand(f))
             D1 == Cardinality(Descriptors(f))'  H1 == Cardinality(InHand(f))'
             h == Held(p, proc[p], Fds, f)  k == Held(p, proc'[p], Fds, f)
             a == file[f].ref  b == file'[f].ref
  <2>1. D1 + H1 + h = D + H + k /\ h \in Nat /\ k \in Nat /\ D1 \in Nat /\ H1 \in Nat
    BY RecountHeld DEF OthersRefs, Refs
  <2>2. a = D + H /\ D \in Nat /\ H \in Nat
    BY RefsFinite DEF RefsRight
  <2>3. b \in Nat /\ b + h = a + k
    OBVIOUS
  <2> HIDE DEF D, H, D1, H1, h, k, a, b
  <2>4. b = D1 + H1
    <3>1. \A u, v, w, x, y, z, s, t \in Nat :
            y + t + w = u + v + x /\ z = u + v /\ s + w = z + x => s = y + t
      OBVIOUS
    <3>2. a \in Nat
      BY <2>2
    <3> QED
      BY <2>1, <2>2, <2>3, <3>1, <3>2
  <2> QED
    BY <2>4 DEF D1, H1, b
<1> DEFINE C == {q \in Procs : proc[q].cwd}  C1 == {q \in Procs : proc'[q].cwd}
           I == {f \in Files : file[f].type = "INODE"}  I1 == {f \in Files : file'[f].type = "INODE"}
           F == {q \in Procs : proc[q].ff.type = "INODE"}  F1 == {q \in Procs : proc'[q].ff.type = "INODE"}
<1>3. IsFiniteSet(C) /\ IsFiniteSet(I) /\ IsFiniteSet(F)
  BY Tables, FS_Subset
<1>4. C \ {p} = C1 \ {p} /\ I \ {g} = I1 \ {g} /\ F \ {p} = F1 \ {p}
  BY DEF OthersRefs, Refs
<1>5. /\ p \in C <=> proc[p].cwd
      /\ p \in C1 <=> proc'[p].cwd
      /\ g \in I <=> file[g].type = "INODE"
      /\ g \in I1 <=> file'[g].type = "INODE"
      /\ p \in F <=> proc[p].ff.type = "INODE"
      /\ p \in F1 <=> proc'[p].ff.type = "INODE"
  OBVIOUS
<1>6. iref = Cardinality(C) + Cardinality(I) + Cardinality(F)
  BY DEF RefsRight
<1> HIDE DEF C, C1, I, I1, F, F1
<1>7. /\ One(p \in C) = One(proc[p].cwd) /\ One(p \in C1) = One(proc'[p].cwd)
      /\ One(g \in I) = One(file[g].type = "INODE") /\ One(g \in I1) = One(file'[g].type = "INODE")
      /\ One(p \in F) = One(proc[p].ff.type = "INODE") /\ One(p \in F1) = One(proc'[p].ff.type = "INODE")
  BY <1>5 DEF One
<1>8. /\ Cardinality(C) \in Nat /\ Cardinality(C1) \in Nat
      /\ Cardinality(C1) + One(p \in C) = Cardinality(C) + One(p \in C1)
  BY <1>3, <1>4, OneMember
<1>9. /\ Cardinality(I) \in Nat /\ Cardinality(I1) \in Nat
      /\ Cardinality(I1) + One(g \in I) = Cardinality(I) + One(g \in I1)
  BY <1>3, <1>4, OneMember
<1>10. /\ Cardinality(F) \in Nat /\ Cardinality(F1) \in Nat
       /\ Cardinality(F1) + One(p \in F) = Cardinality(F) + One(p \in F1)
  BY <1>3, <1>4, OneMember
<1>12. iref' = iref + (One(p \in C1) + One(g \in I1) + One(p \in F1))
                    - (One(p \in C) + One(g \in I) + One(p \in F))
  BY <1>7
<1>13. iref' = Cardinality(C1) + Cardinality(I1) + Cardinality(F1)
  <2> DEFINE c == One(p \in C)  c1 == One(p \in C1)  i == One(g \in I)  i1 == One(g \in I1)
             k == One(p \in F)  k1 == One(p \in F1)
             c2 == Cardinality(C)  c3 == Cardinality(C1)  i2 == Cardinality(I)  i3 == Cardinality(I1)
             k2 == Cardinality(F)  k3 == Cardinality(F1)
  <2>1. c \in Nat /\ c1 \in Nat /\ i \in Nat /\ i1 \in Nat /\ k \in Nat /\ k1 \in Nat
    BY DEF One
  <2>2. /\ c2 \in Nat /\ c3 \in Nat /\ i2 \in Nat /\ i3 \in Nat /\ k2 \in Nat /\ k3 \in Nat
        /\ c3 + c = c2 + c1 /\ i3 + i = i2 + i1 /\ k3 + k = k2 + k1
        /\ iref = c2 + i2 + k2 /\ iref' = iref + (c1 + i1 + k1) - (c + i + k)
    BY <1>6, <1>8, <1>9, <1>10, <1>12
  <2> HIDE DEF c, c1, i, i1, k, k1, c2, c3, i2, i3, k2, k3
  <2>3. iref' = c3 + i3 + k3
    BY <2>1, <2>2
  <2> QED
    BY <2>3 DEF c3, i3, k3
<1> QED
  BY <1>1, <1>2, <1>13 DEF RefsRight, C1, I1, F1

\* p has f, in a descriptor or in hand.
HasFile(p, f) == \/ \E d \in Fds : proc[p].ofile[d] = f
                 \/ \E k \in 1 .. 2 : k <= Len(proc[p].tmp) /\ proc[p].tmp[k] = f

\* What somebody is making no other has.
LEMMA NotMine ==
  ASSUME Types, PlaceInv, RefsRight, MineInv, NEW q \in Procs, proc[q].at \in Allocating,
         NEW k \in 1 .. Len(proc[q].tmp)
  PROVE  LET f == proc[q].tmp[k] IN
         /\ f \in Files /\ file[f].ref = 1 /\ file[f].type = "NONE"
         /\ \A d \in Fds, p \in Procs : proc[p].ofile[d] # f
         /\ \A p \in Procs, j \in 1 .. 2 : j <= Len(proc[p].tmp) /\ proc[p].tmp[j] = f => p = q /\ j = k
<1> DEFINE f == proc[q].tmp[k]
<1>1. proc[q].tmp \in Seq(Files) /\ Len(proc[q].tmp) \in Nat
  BY DEF Types, ProcType, Files
<1>2. f \in Files /\ file[f].ref = 1 /\ file[f].type = "NONE"
  BY <1>1 DEF MineInv
<1>3. k \in 1 .. 2 /\ k <= Len(proc[q].tmp)
  <2>1. Len(proc[q].tmp) \in {1, 2}
    BY DEF PlaceInv, Place, Allocating
  <2>2. CASE Len(proc[q].tmp) = 1
    BY <2>2
  <2>3. CASE Len(proc[q].tmp) = 2
    BY <2>3
  <2> QED
    BY <2>1, <2>2, <2>3
<1> HIDE DEF f
<1>4. <<q, k>> \in InHand(f)
  BY <1>3, InInHand DEF f
<1>5. Descriptors(f) = {} /\ \A x \in InHand(f) : x = <<q, k>>
  BY <1>2, <1>4, Referred DEF Types
<1>6. \A d \in Fds, p \in Procs : proc[p].ofile[d] # f
  BY <1>5, InDescriptors
<1>7. ASSUME NEW p \in Procs, NEW j \in 1 .. 2, j <= Len(proc[p].tmp), proc[p].tmp[j] = f
      PROVE  p = q /\ j = k
  <2>1. <<p, j>> \in InHand(f)
    BY <1>7, InInHand
  <2>2. <<p, j>> = <<q, k>>
    BY <1>5, <2>1
  <2> QED
    BY <2>2
<1> QED
  BY <1>2, <1>6, <1>7 DEF f

\* Files that are being made stay their makers', whatever p does to its own.
LEMMA MineStep ==
  ASSUME Types, PlaceInv, RefsRight, MineInv, UNCHANGED work, NEW p \in Procs, OthersRefs(p),
         \A f \in Files : \/ file'[f].ref = file[f].ref /\ file'[f].type = file[f].type
                          \/ file[f].ref = 0 \/ HasFile(p, f),
         proc'[p].at \in Allocating =>
           \A k \in 1 .. Len(proc'[p].tmp) :
             file'[proc'[p].tmp[k]].ref = 1 /\ file'[proc'[p].tmp[k]].type = "NONE"
  PROVE  MineInv'
<1>1. Procs' = Procs
  BY DEF Procs
<1>2. ASSUME NEW q \in Procs \ {p}, proc'[q].at \in Allocating, NEW k \in 1 .. Len(proc'[q].tmp)
      PROVE  file'[proc'[q].tmp[k]].ref = 1 /\ file'[proc'[q].tmp[k]].type = "NONE"
  <2>1. proc[q].at \in Allocating /\ proc'[q].tmp = proc[q].tmp
    BY <1>2 DEF OthersRefs, Refs
  <2> DEFINE f == proc[q].tmp[k]
  <2>2. /\ f \in Files /\ file[f].ref = 1 /\ file[f].type = "NONE"
        /\ \A d \in Fds : proc[p].ofile[d] # f
        /\ \A j \in 1 .. 2 : ~ (j <= Len(proc[p].tmp) /\ proc[p].tmp[j] = f)
    BY <2>1, <1>2, NotMine
  <2>3. ~ HasFile(p, f)
    BY <2>2 DEF HasFile
  <2> QED
    BY <2>1, <2>2, <2>3
<1> QED
  BY <1>1, <1>2 DEF MineInv

----------------------------------------------------------------------------
(* The ends of pipes.                                                      *)

\* Who is in Ends.
LEMMA InEnds ==
  ASSUME NEW i, NEW w, NEW x
  PROVE  x \in Ends(i, w) <=>
           \/ \E f \in Files : x = <<"file", f>> /\ Has(file[f], i, w)
           \/ \E q \in Procs : x = <<"proc", q>> /\ Has(proc[q].ff, i, w)
  BY DEF Ends, Has

\* A step after which everybody has what he had.
LEMMA EndsStep ==
  ASSUME UNCHANGED work, EndInv,
         \A f \in Files, i \in Pipes, w \in BOOLEAN : Has(file'[f], i, w) <=> Has(file[f], i, w),
         \A q \in Procs, i \in Pipes, w \in BOOLEAN : Has(proc'[q].ff, i, w) <=> Has(proc[q].ff, i, w),
         \A i \in Pipes : /\ pipe'[i].used = pipe[i].used /\ pipe'[i].readopen = pipe[i].readopen
                          /\ pipe'[i].writeopen = pipe[i].writeopen
  PROVE  EndInv'
<1>1. Procs' = Procs /\ Files' = Files /\ Pipes' = Pipes
  BY DEF Procs, Files, Pipes
<1>2. ASSUME NEW i \in Pipes, NEW w \in BOOLEAN PROVE Ends(i, w)' = Ends(i, w)
  BY <1>1 DEF Ends, Has
<1>3. ASSUME NEW i \in Pipes
      PROVE  Ends(i, TRUE)' = Ends(i, TRUE) /\ Ends(i, FALSE)' = Ends(i, FALSE)
  BY <1>2
<1> SUFFICES ASSUME NEW i \in Pipes
             PROVE  /\ \A w \in BOOLEAN : \A x, y \in Ends(i, w)' : x = y
                    /\ pipe'[i].readopen <=> Ends(i, FALSE)' # {}
                    /\ pipe'[i].writeopen <=> Ends(i, TRUE)' # {}
                    /\ pipe'[i].used <=> Ends(i, TRUE)' \cup Ends(i, FALSE)' # {}
  BY <1>1 DEF EndInv
<1>4. ASSUME NEW w \in BOOLEAN PROVE \A x, y \in Ends(i, w)' : x = y
  <2>1. \A x, y \in Ends(i, w) : x = y
    BY DEF EndInv
  <2>2. Ends(i, w)' = Ends(i, w)
    BY <1>2
  <2> QED
    BY <2>1, <2>2
<1> QED
  BY <1>3, <1>4 DEF EndInv

\* Who is inside a pipe has an end of it, so that end is open.
LEMMA InsideOpen ==
  ASSUME Types, PlaceInv, EndInv, InsideInv, NEW q \in Procs, proc[q].at \in Reading \cup Writing
  PROVE  LET i == proc[q].pipe  w == proc[q].at \in Writing IN
         /\ i \in Pipes /\ pipe[i].used
         /\ IF w THEN pipe[i].writeopen ELSE pipe[i].readopen
         /\ \E f \in Files : <<"file", f>> \in Ends(i, w)
<1> DEFINE i == proc[q].pipe  w == proc[q].at \in Writing
<1>1. i \in Pipes /\ w \in BOOLEAN
  BY DEF PlaceInv, Place, Pipes
<1>2. PICK d \in Fds : proc[q].ofile[d] # None /\ Has(file[proc[q].ofile[d]], i, w)
  BY DEF InsideInv
<1>3. proc[q].ofile[d] \in Files
  BY <1>2 DEF Types, ProcType, Fds, Files
<1>4. <<"file", proc[q].ofile[d]>> \in Ends(i, w)
  BY <1>2, <1>3, InEnds
<1>5. Ends(i, w) # {}
  BY <1>4
<1>6. /\ Ends(i, TRUE) # {} => pipe[i].writeopen /\ pipe[i].used
      /\ Ends(i, FALSE) # {} => pipe[i].readopen /\ pipe[i].used
  BY <1>1 DEF EndInv
<1>7. CASE w
  BY <1>1, <1>3, <1>4, <1>5, <1>6, <1>7
<1>8. CASE ~ w
  BY <1>1, <1>3, <1>4, <1>5, <1>6, <1>8
<1> QED
  BY <1>7, <1>8

\* An end stays with those who are inside.
LEMMA InsideStep ==
  ASSUME Types, PlaceInv, UNCHANGED work, InsideInv, NEW p \in Procs, OthersRefs(p),
         \A f \in Files, i \in Pipes, w \in BOOLEAN :
           Descriptors(f) # {} /\ Has(file[f], i, w) => Has(file'[f], i, w),
         proc'[p].at \in Reading \cup Writing =>
           \E d \in Fds : /\ proc'[p].ofile[d] # None
                          /\ Has(file'[proc'[p].ofile[d]], proc'[p].pipe, proc'[p].at \in Writing)
  PROVE  InsideInv'
<1>1. Procs' = Procs /\ Fds' = Fds
  BY DEF Procs, Fds
<1>2. ASSUME NEW q \in Procs, q # p, proc'[q].at \in Reading \cup Writing
      PROVE  \E d \in Fds : /\ proc'[q].ofile[d] # None
                            /\ Has(file'[proc'[q].ofile[d]], proc'[q].pipe, proc'[q].at \in Writing)
  <2>1. proc'[q].at = proc[q].at /\ proc'[q].pipe = proc[q].pipe /\ proc'[q].ofile = proc[q].ofile
    BY <1>2 DEF OthersRefs, Refs
  <2>2. PICK d \in Fds : /\ proc[q].ofile[d] # None
                         /\ Has(file[proc[q].ofile[d]], proc[q].pipe, proc[q].at \in Writing)
    BY <1>2, <2>1 DEF InsideInv
  <2>3. proc[q].ofile[d] \in Files
    BY <2>2 DEF Types, ProcType, Fds, Files
  <2>7. proc[q].pipe \in Pipes
    BY <1>2, <2>1 DEF PlaceInv, Place, Pipes
  <2>4. Descriptors(proc[q].ofile[d]) # {}
    BY InDescriptors
  <2>5. (proc[q].at \in Writing) \in BOOLEAN
    OBVIOUS
  <2>6. Has(file'[proc[q].ofile[d]], proc[q].pipe, proc[q].at \in Writing)
    BY <2>2, <2>3, <2>4, <2>5, <2>7
  <2> QED
    BY <2>1, <2>2, <2>6
<1> QED
  BY <1>1, <1>2 DEF InsideInv

----------------------------------------------------------------------------
(* Sleepers.                                                               *)

Dozing == {"piperead_sleep", "pipewrite_sleep"}

LockOf(q) == LET i == proc[q].pipe IN
  /\ proc[q].at = "piperead_sleep" => pipe[i].lock = q /\ pipe[i].writeopen /\ Count(i) = 0
  /\ proc[q].at = "pipewrite_sleep" => pipe[i].lock = q /\ pipe[i].readopen /\ Count(i) = PIPESIZE
ChanOf(q) == proc[q].state = "SLEEPING" =>
  /\ proc[q].at = "piperead" => proc[q].chan = NRead(proc[q].pipe)
  /\ proc[q].at = "pipewrite" => proc[q].chan = NWrite(proc[q].pipe)
  /\ proc[q].at = "wait" => proc[q].chan = <<"child", q>>
ReaderWaits(q, i) == proc[q].state = "SLEEPING" /\ proc[q].chan = NRead(i) =>
  pipe[i].writeopen /\ (Count(i) = 0 \/ pipe[i].spoiled)
WriterWaits(q, i) == proc[q].state = "SLEEPING" /\ proc[q].chan = NWrite(i) =>
  pipe[i].readopen /\ Count(i) = PIPESIZE
PipeWait(q) == \A i \in Pipes : ReaderWaits(q, i) /\ WriterWaits(q, i)
ChildWait(q) == proc[q].state = "SLEEPING" /\ proc[q].chan = <<"child", q>> =>
  /\ Children(q) # {}
  /\ \A c \in Children(q) : proc[c].state # "ZOMBIE"
Sleeps(q) == LockOf(q) /\ ChanOf(q) /\ PipeWait(q)

\* The invariants of the sleepers, one process at a time.
LEMMA SleepParts ==
  /\ SleepInv <=> \A q \in Procs : LockOf(q) /\ ChanOf(q)
  /\ SleepersWait <=> \A q \in Procs : PipeWait(q) /\ ChildWait(q)
<1>1. SleepInv <=> \A q \in Procs : LockOf(q) /\ ChanOf(q)
  BY DEF SleepInv, LockOf, ChanOf
<1>2. SleepersWait <=> \A q \in Procs : PipeWait(q) /\ ChildWait(q)
  BY DEF SleepersWait, PipeWait, ReaderWaits, WriterWaits, ChildWait
<1> QED
  BY <1>1, <1>2

\* On what a process sleeps tells where it is.
LEMMA SleepsOn ==
  ASSUME Types, PlaceInv, NEW q \in Procs, ChanOf(q), proc[q].state = "SLEEPING"
  PROVE  /\ \A i \in Pipes : proc[q].chan = NRead(i) => proc[q].at = "piperead" /\ proc[q].pipe = i
         /\ \A i \in Pipes : proc[q].chan = NWrite(i) => proc[q].at = "pipewrite" /\ proc[q].pipe = i
<1>1. proc[q].at \in {"piperead", "pipewrite", "wait"}
  BY DEF PlaceInv, Place
<1>2. \A i, j : NRead(i) # NWrite(j) /\ NRead(i) # <<"child", j>> /\ NWrite(i) # <<"child", j>>
                /\ (NRead(i) = NRead(j) => i = j) /\ (NWrite(i) = NWrite(j) => i = j)
  BY DEF NRead, NWrite
<1> QED
  BY <1>1, <1>2 DEF ChanOf

\* q stays where it is, asleep or not.
Stays(r, s) == /\ s.state = "SLEEPING" => r.state = "SLEEPING" /\ s.chan = r.chan
               /\ s.at = r.at /\ s.pipe = r.pipe

\* q is somewhere else, and awake.
Wakeful(s) == s.state # "SLEEPING" /\ s.at \notin Dozing

\* A sleeper sleeps on for as good a reason when the pipes stay as they are.
LEMMA SleepsKept ==
  ASSUME UNCHANGED <<work, pipe>>, NEW q \in Procs,
         Wakeful(proc'[q]) \/ (Stays(proc[q], proc'[q]) /\ Sleeps(q))
  PROVE  Sleeps(q)'
<1>1. Pipes' = Pipes /\ \A i : Count(i)' = Count(i)
  BY DEF Pipes, Count
<1>2. CASE Wakeful(proc'[q])
  BY <1>2 DEF Wakeful, Dozing, Sleeps, LockOf, ChanOf, PipeWait, ReaderWaits, WriterWaits
<1>3. CASE Stays(proc[q], proc'[q]) /\ Sleeps(q)
  <2>1. LockOf(q)'
    BY <1>1, <1>3 DEF Stays, Sleeps, LockOf
  <2>2. ChanOf(q)'
    BY <1>3 DEF Stays, Sleeps, ChanOf
  <2>3. PipeWait(q)'
    BY <1>1, <1>3 DEF Stays, Sleeps, PipeWait, ReaderWaits, WriterWaits
  <2> QED
    BY <2>1, <2>2, <2>3 DEF Sleeps
<1> QED
  BY <1>2, <1>3

\* One pipe is changed, and q is not between its test and sleep in it.
LEMMA PipeSleeps ==
  ASSUME Types, UNCHANGED work, NEW i \in Pipes, NEW x, pipe' = [pipe EXCEPT ![i] = x],
         NEW q \in Procs, Sleeps(q), Stays(proc[q], proc'[q]),
         ~ (proc[q].at \in Dozing /\ proc[q].pipe = i), ReaderWaits(q, i)', WriterWaits(q, i)'
  PROVE  Sleeps(q)'
<1>1. Pipes' = Pipes /\ DOMAIN pipe = Pipes
  BY DEF Pipes, Types
<1>2. ASSUME NEW j \in Pipes, j # i PROVE pipe'[j] = pipe[j] /\ Count(j)' = Count(j)
  BY <1>1, <1>2 DEF Count
<1>3. ASSUME proc[q].at \in Dozing PROVE proc[q].pipe # i /\ pipe'[proc[q].pipe] = pipe[proc[q].pipe]
  BY <1>1, <1>3
<1>4. LockOf(q)'
  <2>1. CASE proc[q].at \in Dozing
    <3>1. Count(proc[q].pipe)' = Count(proc[q].pipe)
      BY <1>3, <2>1 DEF Count, Stays
    <3> QED
      BY <1>3, <2>1, <3>1 DEF Stays, Sleeps, LockOf
  <2>2. CASE proc[q].at \notin Dozing
    BY <2>2 DEF Stays, LockOf, Dozing
  <2> QED
    BY <2>1, <2>2
<1>5. ChanOf(q)'
  BY DEF Stays, Sleeps, ChanOf
<1>6. ASSUME NEW j \in Pipes PROVE ReaderWaits(q, j)' /\ WriterWaits(q, j)'
  <2>1. CASE j = i
    BY <2>1
  <2>2. CASE j # i
    BY <1>2, <2>2 DEF Stays, Sleeps, PipeWait, ReaderWaits, WriterWaits
  <2> QED
    BY <2>1, <2>2
<1> QED
  BY <1>1, <1>4, <1>5, <1>6 DEF Sleeps, PipeWait

\* Nobody else is between his test and sleep in a pipe whose lock is free, or p's.
LEMMA OneDozes ==
  ASSUME Types, PlaceInv, NEW i \in Pipes, NEW p \in Procs \cup {None}, pipe[i].lock = p,
         NEW q \in Procs, q # p, Sleeps(q)
  PROVE  ~ (proc[q].at \in Dozing /\ proc[q].pipe = i)
  BY DEF Dozing, Sleeps, LockOf

\* The family of q.
Kin(r, s) == s.parent = r.parent /\ (s.state = "ZOMBIE" => r.state = "ZOMBIE")

\* A parent sleeps on for as good a reason when no child of it ends.
LEMMA FamilyKept ==
  ASSUME UNCHANGED work, NEW q \in Procs, ChildWait(q),
         proc'[q].state = "SLEEPING" => proc[q].state = "SLEEPING" /\ proc'[q].chan = proc[q].chan,
         \A c \in Procs : /\ proc'[c].parent = q <=> proc[c].parent = q
                          /\ proc[c].parent = q /\ proc'[c].state = "ZOMBIE" => proc[c].state = "ZOMBIE"
  PROVE  ChildWait(q)'
<1>1. Procs' = Procs
  BY DEF Procs
<1>2. Children(q)' = Children(q)
  BY <1>1 DEF Children
<1> QED
  BY <1>2 DEF ChildWait, Children

\* A step with which nobody falls asleep, and that leaves the pipes alone.
LEMMA SleepStep ==
  ASSUME UNCHANGED <<work, pipe>>, SleepInv, SleepersWait, DOMAIN proc' = Procs,
         \A q \in Procs : /\ proc'[q].state # "SLEEPING" \/ Stays(proc[q], proc'[q])
                          /\ Wakeful(proc'[q]) \/ Stays(proc[q], proc'[q])
                          /\ Kin(proc[q], proc'[q])
  PROVE  SleepInv' /\ SleepersWait'
<1>1. Procs' = Procs
  BY DEF Procs
<1>2. ASSUME NEW q \in Procs PROVE Sleeps(q)'
  BY SleepsKept, SleepParts DEF Sleeps
<1>3. ASSUME NEW q \in Procs PROVE ChildWait(q)'
  <2>1. ChildWait(q)
    BY SleepParts
  <2> QED
    BY <2>1, FamilyKept DEF Stays, Kin
<1> QED
  BY <1>1, <1>2, <1>3 DEF SleepInv, SleepersWait, Sleeps, LockOf, ChanOf, PipeWait, ReaderWaits, WriterWaits, ChildWait

\* A step of p alone changes nothing about the others' sleep or parents.
LEMMA AloneKin ==
  ASSUME NEW p, Alone(p)
  PROVE  /\ DOMAIN proc' = Procs
         /\ \A q \in Procs \ {p} : Stays(proc[q], proc'[q]) /\ Kin(proc[q], proc'[q])
  BY DEF Alone, Stays, Kin

\* A step of p and a wakeup: whoever still sleeps is on another channel.
LEMMA WakesKin ==
  ASSUME Types, NEW p, NEW c, Wakes(p, c)
  PROVE  /\ DOMAIN proc' = Procs
         /\ \A q \in Procs \ {p} : /\ Stays(proc[q], proc'[q]) /\ Kin(proc[q], proc'[q])
                                   /\ ~ (proc'[q].state = "SLEEPING" /\ proc'[q].chan = c)
<1>1. ASSUME NEW q \in Procs \ {p}
      PROVE  /\ Stays(proc[q], proc'[q]) /\ Kin(proc[q], proc'[q])
             /\ ~ (proc'[q].state = "SLEEPING" /\ proc'[q].chan = c)
  <2>1. DOMAIN proc[q] = ProcFields
    BY DEF Types, ProcType
  <2>2. proc'[q] = IF proc[q].state = "SLEEPING" /\ proc[q].chan = c
                   THEN [proc[q] EXCEPT !.state = "RUNNABLE", !.chan = None] ELSE proc[q]
    <3>1. proc'[q] = Awake(c)[q] /\ q \in Procs
      BY DEF Wakes
    <3> QED
      BY <3>1, Woken1
  <2>3. CASE proc[q].state = "SLEEPING" /\ proc[q].chan = c
    BY <2>1, <2>2, <2>3 DEF Stays, Kin, ProcFields
  <2>4. CASE ~ (proc[q].state = "SLEEPING" /\ proc[q].chan = c)
    BY <2>2, <2>4 DEF Stays, Kin
  <2> QED
    BY <2>3, <2>4
<1> QED
  BY <1>1 DEF Wakes

\* A change of one pipe by p, who is not asleep after it.
LEMMA PipeStep ==
  ASSUME Types, PlaceInv, SleepInv, SleepersWait, UNCHANGED work,
         NEW p \in Procs, NEW i \in Pipes, NEW x, pipe' = [pipe EXCEPT ![i] = x],
         DOMAIN proc' = Procs,
         \A q \in Procs \ {p} : /\ Stays(proc[q], proc'[q]) /\ Kin(proc[q], proc'[q])
                                /\ ~ (proc[q].at \in Dozing /\ proc[q].pipe = i)
                                /\ ReaderWaits(q, i)' /\ WriterWaits(q, i)',
         Kin(proc[p], proc'[p]), Sleeps(p)', ChildWait(p)'
  PROVE  SleepInv' /\ SleepersWait'
<1>1. Procs' = Procs
  BY DEF Procs
<1>2. ASSUME NEW q \in Procs, q # p PROVE Sleeps(q)' /\ ChildWait(q)'
  <2>1. Sleeps(q) /\ ChildWait(q)
    BY SleepParts DEF Sleeps
  <2>2. Sleeps(q)'
    BY <1>2, <2>1, PipeSleeps
  <2>3. ChildWait(q)'
    BY <1>2, <2>1, FamilyKept DEF Stays, Kin
  <2> QED
    BY <2>2, <2>3
<1> QED
  BY <1>1, <1>2 DEF SleepInv, SleepersWait, Sleeps, LockOf, ChanOf, PipeWait, ReaderWaits, WriterWaits, ChildWait

----------------------------------------------------------------------------
(* Steps that change no reference.                                         *)

\* The file is the same but for its offset.
SameFile(r, s) == /\ s.ref = r.ref /\ s.type = r.type /\ s.pipe = r.pipe /\ s.writable = r.writable
                  /\ s.ref = 0 => s = NoFile
SamePipe(r, s) == s.used = r.used /\ s.readopen = r.readopen /\ s.writeopen = r.writeopen

\* p keeps what it has, and enters a pipe only with an end of it.
Steady(p) ==
  /\ OthersRefs(p)
  /\ proc'[p].ofile = proc[p].ofile /\ proc'[p].tmp = proc[p].tmp /\ proc'[p].ff = proc[p].ff
  /\ proc'[p].cwd = proc[p].cwd
  /\ proc'[p].at \in Allocating => proc[p].at \in Allocating
  /\ proc'[p].at \in Reading \cup Writing =>
       \E d \in Fds : /\ proc[p].ofile[d] # None
                      /\ Has(file[proc[p].ofile[d]], proc'[p].pipe, proc'[p].at \in Writing)

\* A step of p that moves no file and opens and closes no end keeps the counts and the
\* ends.
LEMMA SteadyStep ==
  ASSUME Types, PlaceInv, MineInv, RefsRight, EndInv, InsideInv, UNCHANGED <<work, iref>>,
         NEW p \in Procs, Len(proc[p].tmp) \in 0 .. 2, Steady(p),
         \A f \in Files : SameFile(file[f], file'[f]),
         \A i \in Pipes : SamePipe(pipe[i], pipe'[i])
  PROVE  RefsRight' /\ MineInv' /\ EndInv' /\ InsideInv'
<1>1. RefsRight'
  <2>1. 1 \in Files
    BY Tables DEF Types
  <2>2. ASSUME NEW f \in Files
        PROVE  /\ file'[f].ref \in Nat /\ (file'[f].ref = 0 => file'[f] = NoFile)
               /\ file'[f].ref + Held(p, proc[p], Fds, f) = file[f].ref + Held(p, proc'[p], Fds, f)
               /\ file'[f].type = "INODE" <=> file[f].type = "INODE"
    BY DEF SameFile, Types, FileType, Held, Steady
  <2>3. iref' = iref + (One(proc'[p].cwd) + One(file'[1].type = "INODE") + One(proc'[p].ff.type = "INODE"))
                     - (One(proc[p].cwd) + One(file[1].type = "INODE") + One(proc[p].ff.type = "INODE"))
    <3>1. /\ proc'[p].cwd = proc[p].cwd /\ proc'[p].ff = proc[p].ff /\ file'[1].type = file[1].type
      BY <2>1 DEF Steady, SameFile
    <3>2. iref \in Nat
      <4>1. /\ IsFiniteSet({q \in Procs : proc[q].cwd}) /\ IsFiniteSet({f \in Files : file[f].type = "INODE"})
            /\ IsFiniteSet({q \in Procs : proc[q].ff.type = "INODE"})
        BY Tables, FS_Subset DEF Types
      <4>2. /\ Cardinality({q \in Procs : proc[q].cwd}) \in Nat
            /\ Cardinality({f \in Files : file[f].type = "INODE"}) \in Nat
            /\ Cardinality({q \in Procs : proc[q].ff.type = "INODE"}) \in Nat
        BY <4>1, FS_CardinalityType
      <4> QED
        BY <4>2 DEF RefsRight
    <3> DEFINE a == One(proc[p].cwd) + One(file[1].type = "INODE") + One(proc[p].ff.type = "INODE")
    <3>3. a \in Nat
      BY DEF One
    <3>4. One(proc'[p].cwd) + One(file'[1].type = "INODE") + One(proc'[p].ff.type = "INODE") = a
      BY <3>1
    <3> HIDE DEF a
    <3>5. iref' = iref + a - a
      BY <3>2, <3>3
    <3> QED
      BY <3>4, <3>5 DEF a
  <2>4. Len(proc'[p].tmp) \in 0 .. 2 /\ OthersRefs(p) /\ WorkType
    BY DEF Steady, Types
  <2> QED
    BY <2>1, <2>2, <2>3, <2>4, RefsStep
<1>2. MineInv'
  <2>1. proc'[p].at \in Allocating =>
           \A k \in 1 .. Len(proc'[p].tmp) :
             file'[proc'[p].tmp[k]].ref = 1 /\ file'[proc'[p].tmp[k]].type = "NONE"
    <3> SUFFICES ASSUME proc'[p].at \in Allocating, NEW k \in 1 .. Len(proc'[p].tmp)
                 PROVE  file'[proc'[p].tmp[k]].ref = 1 /\ file'[proc'[p].tmp[k]].type = "NONE"
      OBVIOUS
    <3>1. proc[p].at \in Allocating /\ proc'[p].tmp = proc[p].tmp
      BY DEF Steady
    <3>2. /\ proc[p].tmp[k] \in Files /\ file[proc[p].tmp[k]].ref = 1 /\ file[proc[p].tmp[k]].type = "NONE"
      BY <3>1, NotMine
    <3> QED
      BY <3>1, <3>2 DEF SameFile
  <2> QED
    BY <2>1, MineStep DEF Steady, SameFile
<1>3. EndInv'
  <2>1. ASSUME NEW q \in Procs PROVE proc'[q].ff = proc[q].ff
    BY DEF Steady, OthersRefs, Refs
  <2> QED
    BY <2>1, EndsStep DEF SameFile, SamePipe, Has
<1>4. InsideInv'
  <2>1. \A f \in Files, i \in Pipes, w \in BOOLEAN : Has(file[f], i, w) <=> Has(file'[f], i, w)
    BY DEF SameFile, Has
  <2>2. ASSUME proc'[p].at \in Reading \cup Writing
        PROVE  \E d \in Fds : /\ proc'[p].ofile[d] # None
                              /\ Has(file'[proc'[p].ofile[d]], proc'[p].pipe, proc'[p].at \in Writing)
    <3>1. PICK d \in Fds : /\ proc[p].ofile[d] # None
                           /\ Has(file[proc[p].ofile[d]], proc'[p].pipe, proc'[p].at \in Writing)
      BY <2>2 DEF Steady
    <3>2. proc[p].ofile[d] \in Files /\ proc'[p].ofile = proc[p].ofile
      BY <3>1 DEF Steady, Types, ProcType, Fds, Files
    <3>3. SameFile(file[proc[p].ofile[d]], file'[proc[p].ofile[d]])
      BY <3>2
    <3> QED
      BY <3>1, <3>2, <3>3 DEF SameFile, Has
  <2> QED
    BY <2>1, <2>2, InsideStep DEF Steady
<1> QED
  BY <1>1, <1>2, <1>3, <1>4

\* An offset moves.
LEMMA OffsetMoves ==
  ASSUME Types, RefsRight, NEW T, DOMAIN text \subseteq T,
         \/ UNCHANGED file
         \/ \E q \in Procs, d \in Fds, k \in Nat :
              proc[q].ofile[d] \in Files /\ file' = [file EXCEPT ![proc[q].ofile[d]].off = @ + k]
  PROVE  /\ DOMAIN file' = Files
         /\ \A f \in Files : FileType(file'[f], work, T) /\ SameFile(file[f], file'[f])
<1>1. DOMAIN file = Files /\ \A f \in Files : FileType(file[f], work, T) /\ SameFile(file[f], file[f])
  BY DEF Types, FileType, SameFile, RefsRight
<1>2. CASE UNCHANGED file
  BY <1>1, <1>2
<1>3. ASSUME NEW q \in Procs, NEW d \in Fds, NEW k \in Nat, proc[q].ofile[d] \in Files,
             file' = [file EXCEPT ![proc[q].ofile[d]].off = @ + k]
      PROVE  /\ DOMAIN file' = Files
             /\ \A f \in Files : FileType(file'[f], work, T) /\ SameFile(file[f], file'[f])
  <2> DEFINE g == proc[q].ofile[d]
  <2>1. <<q, d>> \in Descriptors(g)
    BY InDescriptors
  <2>2. file[g].ref >= 1
    BY <1>3, <2>1, Referred DEF Types
  <2>3. DOMAIN file' = Files /\ file'[g] = [file[g] EXCEPT !.off = @ + k] /\ \A f \in Files \ {g} : file'[f] = file[f]
    BY <1>1, <1>3
  <2> HIDE DEF g
  <2>4. DOMAIN file[g] = FileFields /\ file[g].off \in Nat
    BY <1>1, <1>3, Fields DEF FileType, g
  <2>5. file'[g].off \in Nat /\ DOMAIN file'[g] = FileFields /\ \A x \in FileFields \ {"off"} : file'[g][x] = file[g][x]
    BY <2>3, <2>4 DEF FileFields
  <2>6. FileType(file'[g], work, T) /\ SameFile(file[g], file'[g])
    <3>1. FileType(file[g], work, T) /\ g \in Files
      BY <1>1, <1>3 DEF g
    <3>2. /\ file'[g].ref = file[g].ref /\ file'[g].type = file[g].type /\ file'[g].pipe = file[g].pipe
          /\ file'[g].writable = file[g].writable /\ file'[g].path = file[g].path
      BY <2>5 DEF FileFields
    <3>3. FileType(file'[g], work, T)
      BY <2>5, <3>1, <3>2, Fields DEF FileType
    <3> QED
      BY <2>2, <3>1, <3>2, <3>3 DEF SameFile, FileType
  <2> QED
    BY <1>1, <2>3, <2>6
<1> QED
  BY <1>2, <1>3

\* Counts stay as they are with the counters.
LEMMA CountStep ==
  ASSUME UNCHANGED <<work, pipe>>, CountInv
  PROVE  CountInv'
  BY DEF CountInv, Count, Pipes

\* Nobody's references change, and nobody falls asleep.
LEMMA CalmStep ==
  ASSUME IInv, UNCHANGED <<work, pipe, iref>>, NEW p \in Procs, Len(proc[p].tmp) \in 0 .. 2,
         Steady(p), Others(p), \A q \in Procs \ {p} : proc'[q].state = "SLEEPING" => Stays(proc[q], proc'[q]),
         \A q \in Procs \ {p} : Wakeful(proc'[q]) \/ Stays(proc[q], proc'[q]),
         \A q \in Procs \ {p} : Kin(proc[q], proc'[q]),
         Local(proc'[p], work, DOMAIN text'), Wakeful(proc'[p]), Kin(proc[p], proc'[p]),
         DOMAIN text \subseteq DOMAIN text', \A path \in DOMAIN text' : Sequence(text'[path]),
         DOMAIN file' = Files, \A f \in Files : FileType(file'[f], work, DOMAIN text') /\ SameFile(file[f], file'[f])
  PROVE  IInv'
<1>1. WorkType /\ Types /\ PlaceInv /\ DOMAIN proc' = Procs
  BY DEF IInv, Types, Others
<1>2. \A i \in Pipes : SamePipe(pipe[i], pipe'[i])
  BY DEF SamePipe
<1>3. RefsRight' /\ MineInv' /\ EndInv' /\ InsideInv'
  BY <1>2, SteadyStep DEF IInv
<1>4. Types' /\ PlaceInv'
  <2>1. \A q \in Procs : Local(proc'[q], work, DOMAIN text')
    BY <1>1, LocalsStep
  <2>2. DOMAIN pipe' = Pipes /\ \A i \in Pipes : PipeType(pipe'[i])
    BY <1>1 DEF Types
  <2> QED
    BY <1>1, <2>1, <2>2, TypesStep
<1>5. CountInv'
  BY CountStep DEF IInv
<1>6. SleepInv' /\ SleepersWait'
  <2>1. \A q \in Procs : /\ proc'[q].state # "SLEEPING" \/ Stays(proc[q], proc'[q])
                         /\ Wakeful(proc'[q]) \/ Stays(proc[q], proc'[q])
                         /\ Kin(proc[q], proc'[q])
    BY DEF Wakeful
  <2> QED
    BY <1>1, <2>1, SleepStep DEF IInv
<1> QED
  BY <1>3, <1>4, <1>5, <1>6 DEF IInv

\* p, which has nothing in hand, returns from a call.
LEMMA CalmSteady ==
  ASSUME Types, PlaceInv, NEW p \in Procs, proc[p].state = "RUNNABLE", Others(p),
         proc[p].at \notin Allocating \cup {"fileclose", "close_ff"}, Calm(proc[p], proc'[p])
  PROVE  Steady(p) /\ Wakeful(proc'[p]) /\ Kin(proc[p], proc'[p]) /\ Len(proc[p].tmp) \in 0 .. 2
<1>1. proc[p].tmp = <<>> /\ proc[p].ff = NoFile
  BY DEF PlaceInv, Place, Allocating
<1>2. OthersRefs(p)
  BY TouchedRefs
<1>3. Len(proc[p].tmp) \in 0 .. 2
  BY <1>1
<1>4. proc'[p].at = "user" /\ proc'[p].tmp = <<>> /\ proc'[p].ff = NoFile /\ proc'[p].ofile = proc[p].ofile
      /\ proc'[p].cwd = proc[p].cwd /\ proc'[p].state = "RUNNABLE" /\ proc'[p].parent = proc[p].parent
  BY DEF Calm, Returned
<1> QED
  BY <1>1, <1>2, <1>3, <1>4 DEF Steady, Wakeful, Kin, Allocating, Reading, Writing, Dozing

\* A step in which only p's call returns is a calm one.
LEMMA QuietCalm ==
  ASSUME NEW p, Quietly(p), proc[p].state = "RUNNABLE"
  PROVE  Others(p) /\ Calm(proc[p], proc'[p]) /\ Local(proc'[p], work, DOMAIN text)
  BY AloneOthers DEF Quietly, Rested, Calm

\* A step in which only p's call returns preserves the invariant.
LEMMA QuietStep ==
  ASSUME IInv, UNCHANGED <<work, pipe, iref>>, NEW p \in Procs, proc[p].state = "RUNNABLE",
         proc[p].at \notin Allocating \cup {"fileclose", "close_ff"}, Quietly(p),
         DOMAIN text \subseteq DOMAIN text', \A path \in DOMAIN text' : Sequence(text'[path]),
         \/ UNCHANGED file
         \/ \E q \in Procs, d \in Fds, k \in Nat :
              proc[q].ofile[d] \in Files /\ file' = [file EXCEPT ![proc[q].ofile[d]].off = @ + k]
  PROVE  IInv'
<1>1. Types /\ PlaceInv /\ RefsRight
  BY DEF IInv
<1>2. Steady(p) /\ Wakeful(proc'[p]) /\ Kin(proc[p], proc'[p]) /\ Len(proc[p].tmp) \in 0 .. 2 /\ Others(p)
  BY <1>1, QuietCalm, CalmSteady
<1>3. Local(proc'[p], work, DOMAIN text')
  BY QuietCalm, LocalLater
<1>4. /\ DOMAIN file' = Files
      /\ \A f \in Files : FileType(file'[f], work, DOMAIN text') /\ SameFile(file[f], file'[f])
  BY <1>1, OffsetMoves
<1>5. \A q \in Procs \ {p} : Stays(proc[q], proc'[q]) /\ Kin(proc[q], proc'[q])
  BY AloneKin DEF Quietly
<1> QED
  BY <1>2, <1>3, <1>4, <1>5, CalmStep

\* The files' contents as they were.
LEMMA TextSame ==
  ASSUME Types, UNCHANGED text
  PROVE  DOMAIN text \subseteq DOMAIN text' /\ \A path \in DOMAIN text' : Sequence(text'[path])
  BY DEF Types

\* The file table as it was.
LEMMA FileSame ==
  ASSUME Types, RefsRight, UNCHANGED file, DOMAIN text \subseteq DOMAIN text'
  PROVE  /\ DOMAIN file' = Files
         /\ \A f \in Files : FileType(file'[f], work, DOMAIN text') /\ SameFile(file[f], file'[f])
  BY OffsetMoves

\* In a system call p runs, in user mode.
LEMMA CallRuns ==
  ASSUME IInv, NEW p \in Procs, NEW op, Calling(p, op)
  PROVE  /\ proc[p].state = "RUNNABLE" /\ proc[p].at = "user"
         /\ proc[p].at \notin Allocating \cup {"fileclose", "close_ff"}
<1>1. At(p, "user")
  BY InCall DEF IInv
<1> QED
  BY <1>1 DEF At, Allocating

\* A call with a bad descriptor preserves the invariant.
LEMMA argfd_fails_step ==
  ASSUME IInv, UNCHANGED work, NEW p \in Procs, argfd_fails(p)
  PROVE  IInv'
<1>1. Quietly(p) /\ UNCHANGED <<file, pipe, iref, text>>
  BY argfd_fails_effect DEF IInv
<1>2. proc[p].state = "RUNNABLE" /\ proc[p].at \notin Allocating \cup {"fileclose", "close_ff"}
  BY CallRuns DEF argfd_fails
<1> QED
  BY <1>1, <1>2, TextSame, QuietStep DEF IInv

\* A write to a file preserves the invariant.
LEMMA file_write_step ==
  ASSUME IInv, UNCHANGED work, NEW p \in Procs, file_write(p)
  PROVE  IInv'
<1>1. proc[p].state = "RUNNABLE" /\ proc[p].at \notin Allocating \cup {"fileclose", "close_ff"}
  BY CallRuns DEF file_write
<1>2. /\ UNCHANGED <<pipe, iref>> /\ Quietly(p)
      /\ DOMAIN text' = DOMAIN text /\ \A path \in DOMAIN text' : Sequence(text'[path])
      /\ \/ UNCHANGED file
         \/ \E d \in Fds, k \in Nat : /\ proc[p].ofile[d] \in Files
                                      /\ file' = [file EXCEPT ![proc[p].ofile[d]].off = @ + k]
  BY file_write_effect DEF IInv
<1> QED
  BY <1>1, <1>2, QuietStep

\* A read of a file preserves the invariant: only the offset moves.
LEMMA file_read_step ==
  ASSUME IInv, UNCHANGED work, NEW p \in Procs, file_read(p)
  PROVE  IInv'
<1>1. proc[p].state = "RUNNABLE" /\ proc[p].at \notin Allocating \cup {"fileclose", "close_ff"}
  BY CallRuns DEF file_read
<1>2. /\ UNCHANGED <<pipe, iref, text>> /\ Quietly(p)
      /\ \/ UNCHANGED file
         \/ \E d \in Fds, k \in Nat : /\ proc[p].ofile[d] \in Files
                                      /\ file' = [file EXCEPT ![proc[p].ofile[d]].off = @ + k]
  BY file_read_effect DEF IInv
<1> QED
  BY <1>1, <1>2, TextSame, QuietStep DEF IInv

\* A call that needs something gives up, or goes on.
LEMMA EntersStep ==
  ASSUME IInv, UNCHANGED <<work, file, pipe, iref, text>>, NEW p \in Procs,
         proc[p].state = "RUNNABLE", proc[p].at = "user", NEW at \in {"pipewrite", "piperead"},
         Enters(p, at), Local(proc'[p], work, DOMAIN text)
  PROVE  IInv'
<1>1. Types /\ PlaceInv /\ RefsRight
  BY DEF IInv
<1>2. /\ proc'[p].ofile = proc[p].ofile /\ proc'[p].tmp = proc[p].tmp /\ proc'[p].ff = proc[p].ff
      /\ proc'[p].cwd = proc[p].cwd /\ proc'[p].state = "RUNNABLE" /\ proc'[p].parent = proc[p].parent
      /\ proc'[p].at = at
  BY DEF Enters, Same, ProcFields
<1>3. Others(p) /\ OthersRefs(p)
  BY AloneOthers, TouchedRefs DEF Enters
<1>4. proc[p].tmp = <<>> /\ Len(proc[p].tmp) \in 0 .. 2
  BY <1>1 DEF PlaceInv, Place, Allocating
<1>5. Steady(p)
  <2>1. PICK d \in Fds : proc[p].ofile[d] \in Files /\ Has(file[proc[p].ofile[d]], proc'[p].pipe, at = "pipewrite")
    BY DEF Enters
  <2>2. proc[p].ofile[d] # None
    BY <1>1, <2>1, Tables DEF Types
  <2>3. (at \in Writing) = (at = "pipewrite") /\ at \notin Allocating
    BY DEF Writing, Allocating
  <2> QED
    BY <1>2, <1>3, <2>1, <2>2, <2>3 DEF Steady
<1>6. Wakeful(proc'[p]) /\ Kin(proc[p], proc'[p])
  BY <1>2 DEF Wakeful, Dozing, Kin
<1>7. \A q \in Procs \ {p} : Stays(proc[q], proc'[q]) /\ Kin(proc[q], proc'[q])
  BY AloneKin DEF Enters
<1> QED
  BY <1>1, <1>3, <1>4, <1>5, <1>6, <1>7, TextSame, FileSame, CalmStep

\* Entering a pipe to write preserves the invariant: the caller has the write end.
LEMMA sys_write_step ==
  ASSUME IInv, UNCHANGED work, NEW p \in Procs, sys_write(p)
  PROVE  IInv'
<1>1. /\ proc[p].state = "RUNNABLE" /\ proc[p].at = "user"
      /\ proc[p].at \notin Allocating \cup {"fileclose", "close_ff"}
  BY CallRuns DEF sys_write
<1>2. /\ UNCHANGED <<file, pipe, iref, text>> /\ Local(proc'[p], work, DOMAIN text)
      /\ Quietly(p) \/ Enters(p, "pipewrite")
  BY sys_write_effect DEF IInv
<1> QED
  BY <1>1, <1>2, TextSame, QuietStep, EntersStep DEF IInv

\* Entering a pipe to read preserves the invariant: the caller has the read end.
LEMMA sys_read_step ==
  ASSUME IInv, UNCHANGED work, NEW p \in Procs, sys_read(p)
  PROVE  IInv'
<1>1. /\ proc[p].state = "RUNNABLE" /\ proc[p].at = "user"
      /\ proc[p].at \notin Allocating \cup {"fileclose", "close_ff"}
  BY CallRuns DEF sys_read
<1>2. /\ UNCHANGED <<file, pipe, iref, text>> /\ Local(proc'[p], work, DOMAIN text)
      /\ Quietly(p) \/ Enters(p, "piperead")
  BY sys_read_effect DEF IInv
<1> QED
  BY <1>1, <1>2, TextSame, QuietStep, EntersStep DEF IInv

\* Beginning to wait preserves the invariant.
LEMMA sys_wait_step ==
  ASSUME IInv, UNCHANGED work, NEW p \in Procs, sys_wait(p)
  PROVE  IInv'
<1>1. /\ proc[p].state = "RUNNABLE" /\ proc[p].at = "user"
  BY CallRuns DEF sys_wait
<1>2. /\ UNCHANGED <<file, pipe, iref, text>> /\ Alone(p) /\ Local(proc'[p], work, DOMAIN text)
      /\ Same(proc[p], proc'[p], {"at"}) /\ proc'[p].at = "wait"
  BY sys_wait_effect DEF IInv
<1>3. /\ proc'[p].ofile = proc[p].ofile /\ proc'[p].tmp = proc[p].tmp /\ proc'[p].ff = proc[p].ff
      /\ proc'[p].cwd = proc[p].cwd /\ proc'[p].state = "RUNNABLE" /\ proc'[p].parent = proc[p].parent
  BY <1>1, <1>2 DEF Same, ProcFields
<1>4. Others(p) /\ OthersRefs(p)
  BY <1>2, AloneOthers, TouchedRefs
<1>5. proc[p].tmp = <<>> /\ Len(proc[p].tmp) \in 0 .. 2
  BY <1>1 DEF IInv, PlaceInv, Place, Allocating
<1>6. Steady(p) /\ Wakeful(proc'[p]) /\ Kin(proc[p], proc'[p])
  BY <1>2, <1>3, <1>4 DEF Steady, Wakeful, Kin, Allocating, Reading, Writing, Dozing
<1>7. \A q \in Procs \ {p} : Stays(proc[q], proc'[q]) /\ Kin(proc[q], proc'[q])
  BY <1>2, AloneKin
<1> QED
  BY <1>2, <1>4, <1>5, <1>6, <1>7, TextSame, FileSame, CalmStep DEF IInv

\* kill preserves the invariant: whom it wakes no longer sleeps.
LEMMA kill_step ==
  ASSUME IInv, UNCHANGED work, NEW p \in Procs, NEW q \in Procs, kill(p, q)
  PROVE  IInv'
<1>1. /\ proc[p].state = "RUNNABLE" /\ proc[p].at \notin Allocating \cup {"fileclose", "close_ff"}
  BY CallRuns DEF kill
<1>2. /\ UNCHANGED <<file, pipe, iref, text>> /\ Local(proc'[p], work, DOMAIN text)
      /\ DOMAIN proc' = Procs /\ Calm(proc[p], proc'[p])
      /\ \A x \in Procs \ {p} : \/ proc'[x] = proc[x]
                                \/ Touched(proc[x], proc'[x]) /\ proc'[x].state # "SLEEPING"
                                   /\ proc'[x].parent = proc[x].parent
  BY kill_effect DEF IInv
<1>3. Others(p)
  BY <1>2 DEF Others
<1>4. Steady(p) /\ Wakeful(proc'[p]) /\ Kin(proc[p], proc'[p]) /\ Len(proc[p].tmp) \in 0 .. 2
  BY <1>1, <1>2, <1>3, CalmSteady DEF IInv
<1>5. ASSUME NEW x \in Procs \ {p} PROVE Stays(proc[x], proc'[x]) /\ Kin(proc[x], proc'[x])
  <2>1. CASE proc'[x] = proc[x]
    BY <2>1 DEF Stays, Kin
  <2>2. CASE Touched(proc[x], proc'[x]) /\ proc'[x].state # "SLEEPING" /\ proc'[x].parent = proc[x].parent
    BY <2>2 DEF Stays, Kin, Touched, ProcFields
  <2> QED
    BY <1>2, <2>1, <2>2
<1> QED
  BY <1>2, <1>3, <1>4, <1>5, TextSame, FileSame, CalmStep DEF IInv

----------------------------------------------------------------------------
(* The loops of pipes and of wait.                                         *)

\* A step that moves no file keeps types, places, counts and ends.
LEMMA SteadyTypes ==
  ASSUME IInv, UNCHANGED <<work, file, iref, text>>, NEW p \in Procs, Len(proc[p].tmp) \in 0 .. 2,
         Steady(p), \A q \in Procs : Local(proc'[q], work, DOMAIN text),
         DOMAIN pipe' = Pipes, \A i \in Pipes : PipeType(pipe'[i]) /\ SamePipe(pipe[i], pipe'[i])
  PROVE  Types' /\ PlaceInv' /\ RefsRight' /\ MineInv' /\ EndInv' /\ InsideInv'
<1>1. Types /\ WorkType /\ RefsRight
  BY DEF IInv, Types
<1>2. /\ DOMAIN text \subseteq DOMAIN text' /\ \A path \in DOMAIN text' : Sequence(text'[path])
      /\ DOMAIN file' = Files /\ \A f \in Files : FileType(file'[f], work, DOMAIN text') /\ SameFile(file[f], file'[f])
  BY <1>1, TextSame, FileSame
<1>3. DOMAIN proc' = Procs
  BY DEF Steady, OthersRefs
<1>4. Types' /\ PlaceInv'
  BY <1>1, <1>2, <1>3, TypesStep
<1> QED
  BY <1>2, <1>4, SteadyStep DEF IInv

\* p has nothing in hand, goes on inside its pipe or returns.
LEMMA LoopSteady ==
  ASSUME IInv, NEW p \in Procs, OthersRefs(p), proc[p].at \in Reading \cup Writing \cup {"wait", "zombie"},
         proc'[p].ofile = proc[p].ofile, proc'[p].tmp = <<>>, proc'[p].ff = NoFile, proc'[p].cwd = proc[p].cwd,
         \/ proc'[p].at \in {"user", "wait", "zombie"}
         \/ /\ proc'[p].pipe = proc[p].pipe
            /\ \/ proc'[p].at \in Reading /\ proc[p].at \in Reading
               \/ proc'[p].at \in Writing /\ proc[p].at \in Writing
  PROVE  Steady(p) /\ Len(proc[p].tmp) \in 0 .. 2
<1>1. proc[p].tmp = <<>> /\ proc[p].ff = NoFile
  BY DEF IInv, PlaceInv, Place, Allocating, Reading, Writing
<1>2. Len(proc[p].tmp) \in 0 .. 2
  BY <1>1
<1>3. proc'[p].at \notin Allocating
  BY DEF Allocating, Reading, Writing
<1>4. ASSUME proc'[p].at \in Reading \cup Writing
      PROVE  \E d \in Fds : /\ proc[p].ofile[d] # None
                            /\ Has(file[proc[p].ofile[d]], proc'[p].pipe, proc'[p].at \in Writing)
  <2>1. /\ proc'[p].pipe = proc[p].pipe /\ (proc'[p].at \in Writing) = (proc[p].at \in Writing)
        /\ proc[p].at \in Reading \cup Writing
    BY <1>4 DEF Reading, Writing
  <2> QED
    BY <2>1 DEF IInv, InsideInv
<1> QED
  BY <1>1, <1>2, <1>3, <1>4 DEF Steady

\* wait preserves the invariant: the zombie it frees has no descriptor and no child asleep
\* on it, and whoever sleeps has no zombie.
LEMMA wait_step ==
  ASSUME IInv, UNCHANGED work, NEW p \in Procs, wait(p)
  PROVE  IInv'
<1>1. Types /\ PlaceInv /\ proc[p].state = "RUNNABLE" /\ proc[p].at = "wait"
  BY DEF IInv, wait, At
<1>2. UNCHANGED <<file, pipe, iref, text>> /\ Local(proc'[p], work, DOMAIN text)
  BY <1>1, wait_effect
<1>3. CASE Quietly(p)
  BY <1>1, <1>2, <1>3, TextSame, QuietStep DEF IInv, Allocating
<1>4. Types /\ DOMAIN pipe' = Pipes /\ \A i \in Pipes : PipeType(pipe'[i]) /\ SamePipe(pipe[i], pipe'[i])
  BY <1>1, <1>2 DEF Types, SamePipe
<1>5. proc[p].tmp = <<>> /\ proc[p].ff = NoFile
  BY <1>1 DEF PlaceInv, Place, Allocating
<1>6. ASSUME NEW q \in Procs \ {p}, proc[q].state = "ZOMBIE", proc[q].parent = p, DOMAIN proc' = Procs,
             \A x \in Procs \ {p, q} : proc'[x] = proc[x],
             proc'[q] = Unused, Rested(proc[p], proc'[p], proc[p].ofile)
      PROVE  IInv'
  <2>1. \A x \in Procs : Local(proc'[x], work, DOMAIN text)
    BY <1>1, <1>2, <1>6, LocalUnused DEF Types, PlaceInv, Local
  <2>2. Refs(proc[q], Unused)
    <3>1. /\ proc[q].at = "zombie" /\ proc[q].tmp = <<>> /\ proc[q].ff = NoFile
          /\ \A d \in 0 .. work.NOFILE - 1 : proc[q].ofile[d] = None
          /\ proc[q].cwd = FALSE /\ proc[q].ofile \in [0 .. work.NOFILE - 1 -> 1 .. work.NFILE \cup {None}]
      BY <1>1, <1>6 DEF PlaceInv, Place, Allocating, Types, ProcType
    <3>2. proc[q].ofile = [d \in Fds |-> None]
      BY <3>1 DEF Fds
    <3>3. /\ Unused.ofile = [d \in Fds |-> None] /\ Unused.tmp = <<>> /\ Unused.ff = NoFile /\ Unused.cwd = FALSE
          /\ Unused.at = "user"
      BY DEF Unused
    <3> QED
      BY <3>1, <3>2, <3>3 DEF Refs, Allocating, Reading, Writing
  <2>3. OthersRefs(p)
    <3>1. \A x \in Procs \ {p, q} : Refs(proc[x], proc'[x])
      BY <1>6 DEF Refs
    <3> QED
      BY <1>6, <2>2, <3>1 DEF OthersRefs
  <2>4. /\ proc'[p].at = "user" /\ proc'[p].tmp = <<>> /\ proc'[p].ff = NoFile /\ proc'[p].ofile = proc[p].ofile
        /\ proc'[p].cwd = proc[p].cwd /\ proc'[p].state = "RUNNABLE" /\ proc'[p].parent = proc[p].parent
    BY <1>1, <1>6 DEF Rested, Returned
  <2>5. Steady(p) /\ Len(proc[p].tmp) \in 0 .. 2
    BY <1>1, <2>3, <2>4, LoopSteady
  <2>6. Types' /\ PlaceInv' /\ RefsRight' /\ MineInv' /\ EndInv' /\ InsideInv'
    BY <1>2, <1>4, <2>1, <2>5, SteadyTypes
  <2>7. \A x \in Procs : Sleeps(x)'
    <3>1. Wakeful(proc'[p]) /\ Wakeful(proc'[q])
      BY <1>6, <2>4 DEF Wakeful, Dozing, Unused
    <3>2. \A x \in Procs \ {p, q} : Stays(proc[x], proc'[x])
      BY <1>6 DEF Stays
    <3> QED
      BY <1>2, <3>1, <3>2, SleepsKept, SleepParts DEF IInv, Sleeps
  <2>8. ASSUME NEW x \in Procs PROVE ChildWait(x)'
    <3>1. CASE x \in {p, q}
      BY <1>6, <2>4, <3>1 DEF ChildWait, Unused
    <3>2. CASE x \notin {p, q}
      <4>1. ChildWait(x) /\ None \notin Procs
        BY <1>1, SleepParts, Tables DEF IInv, Types
      <4>2. ASSUME NEW c \in Procs
            PROVE  /\ proc'[c].parent = x <=> proc[c].parent = x
                   /\ proc[c].parent = x /\ proc'[c].state = "ZOMBIE" => proc[c].state = "ZOMBIE"
        <5>1. proc'[q].parent = None
          BY <1>6 DEF Unused
        <5> QED
          BY <1>6, <2>4, <3>2, <4>1, <5>1
      <4> QED
        BY <1>6, <3>2, <4>1, <4>2, FamilyKept
    <3> QED
      BY <3>1, <3>2
  <2>9. SleepInv' /\ SleepersWait'
    <3>1. Procs' = Procs
      BY DEF Procs
    <3> QED
      BY <2>7, <2>8, <3>1 DEF SleepInv, SleepersWait, Sleeps, LockOf, ChanOf, PipeWait, ReaderWaits, WriterWaits, ChildWait
  <2> QED
    BY <1>2, <2>6, <2>9, CountStep DEF IInv
<1>7. ASSUME Children(p) # {}, \A q \in Children(p) : proc[q].state # "ZOMBIE",
             Alone(p), Same(proc[p], proc'[p], {"state", "chan"}),
             proc'[p].state = "SLEEPING", proc'[p].chan = <<"child", p>>
      PROVE  IInv'
  <2>1. Others(p) /\ OthersRefs(p)
    BY <1>7, AloneOthers, TouchedRefs
  <2>2. \A x \in Procs : Local(proc'[x], work, DOMAIN text)
    BY <1>1, <1>2, <2>1, LocalsStep DEF Types
  <2>3. /\ proc'[p].ofile = proc[p].ofile /\ proc'[p].tmp = proc[p].tmp /\ proc'[p].ff = proc[p].ff
        /\ proc'[p].cwd = proc[p].cwd /\ proc'[p].at = "wait" /\ proc'[p].parent = proc[p].parent
        /\ proc'[p].pipe = proc[p].pipe
    BY <1>1, <1>7 DEF Same, ProcFields
  <2>4. Steady(p) /\ Len(proc[p].tmp) \in 0 .. 2
    BY <1>1, <1>5, <2>1, <2>3, LoopSteady
  <2>5. Types' /\ PlaceInv' /\ RefsRight' /\ MineInv' /\ EndInv' /\ InsideInv'
    BY <1>2, <1>4, <2>2, <2>4, SteadyTypes
  <2>6. \A i, j : NRead(i) # <<"child", j>> /\ NWrite(i) # <<"child", j>>
    BY DEF NRead, NWrite
  <2>7. Sleeps(p)'
    BY <1>7, <2>3, <2>6 DEF Sleeps, LockOf, ChanOf, PipeWait, ReaderWaits, WriterWaits
  <2>8. \A x \in Procs \ {p} : Sleeps(x)' /\ Stays(proc[x], proc'[x]) /\ Kin(proc[x], proc'[x])
    BY <1>2, <1>7, AloneKin, SleepsKept, SleepParts DEF IInv, Sleeps
  <2>9. ChildWait(p)'
    <3>1. Procs' = Procs
      BY DEF Procs
    <3>2. Children(p)' = Children(p)
      BY <2>3, <2>8, <3>1 DEF Children, Kin
    <3>3. \A c \in Children(p) : proc'[c].state # "ZOMBIE"
      BY <1>7, <2>8 DEF Children, Kin
    <3> QED
      BY <1>7, <3>2, <3>3 DEF ChildWait
  <2>10. ASSUME NEW x \in Procs, x # p PROVE ChildWait(x)'
    <3>1. ChildWait(x)
      BY SleepParts DEF IInv
    <3> QED
      BY <1>7, <2>3, <2>8, <2>10, <3>1, FamilyKept DEF Stays, Kin
  <2>11. SleepInv' /\ SleepersWait'
    <3>1. Procs' = Procs
      BY DEF Procs
    <3> QED
      BY <2>7, <2>8, <2>9, <2>10, <3>1 DEF SleepInv, SleepersWait, Sleeps, LockOf, ChanOf, PipeWait, ReaderWaits, WriterWaits, ChildWait
  <2> QED
    BY <1>2, <2>5, <2>11, CountStep DEF IInv
<1> QED
  BY <1>1, <1>3, <1>6, <1>7, wait_effect

\* Becoming a zombie preserves the invariant: the parent, and init if it inherits a zombie,
\* are awake afterwards.
LEMMA exit_zombie_step ==
  ASSUME IInv, UNCHANGED work, NEW p \in Procs, exit_zombie(p)
  PROVE  IInv'
<1>1. Types /\ PlaceInv /\ WorkType /\ None \notin Procs
  BY Tables DEF IInv, Types
<1>2. /\ UNCHANGED <<file, pipe, iref, text>> /\ DOMAIN proc' = Procs
      /\ Local(proc'[p], work, DOMAIN text) /\ proc[p].at = "zombie"
      /\ Same(proc[p], proc'[p], {"state"}) /\ proc'[p].state = "ZOMBIE"
      /\ \A q \in Procs \ {p} :
           /\ Touched(proc[q], proc'[q])
           /\ proc'[q].parent = IF proc[q].parent = p THEN initproc ELSE proc[q].parent
           /\ IF q \in Woken(p) /\ proc[q].state = "SLEEPING" /\ proc[q].chan = <<"child", q>>
              THEN proc'[q].state = "RUNNABLE"
              ELSE proc'[q].state = proc[q].state /\ proc'[q].chan = proc[q].chan
  BY <1>1, exit_zombie_effect
<1>3. Others(p) /\ OthersRefs(p)
  BY <1>2, TouchedRefs DEF Others
<1>4. \A q \in Procs : Local(proc'[q], work, DOMAIN text)
  BY <1>1, <1>2, <1>3, LocalsStep DEF Types
<1>5. DOMAIN pipe' = Pipes /\ \A i \in Pipes : PipeType(pipe'[i]) /\ SamePipe(pipe[i], pipe'[i])
  BY <1>1, <1>2 DEF Types, SamePipe
<1>6. /\ proc'[p].ofile = proc[p].ofile /\ proc'[p].tmp = proc[p].tmp /\ proc'[p].ff = proc[p].ff
      /\ proc'[p].cwd = proc[p].cwd /\ proc'[p].at = "zombie" /\ proc'[p].parent = proc[p].parent
      /\ proc[p].tmp = <<>> /\ proc[p].ff = NoFile
  BY <1>1, <1>2 DEF Same, ProcFields, PlaceInv, Place, Allocating
<1>7. Steady(p) /\ Len(proc[p].tmp) \in 0 .. 2
  BY <1>2, <1>3, <1>6, LoopSteady
<1>8. Types' /\ PlaceInv' /\ RefsRight' /\ MineInv' /\ EndInv' /\ InsideInv'
  BY <1>2, <1>4, <1>5, <1>7, SteadyTypes
<1>9. ASSUME NEW q \in Procs, q # p
      PROVE  /\ Stays(proc[q], proc'[q])
             /\ proc'[q].state = "SLEEPING" /\ proc'[q].chan = <<"child", q>> => q \notin Woken(p)
  <2>1. proc'[q].at = proc[q].at /\ proc'[q].pipe = proc[q].pipe
    BY <1>2, <1>9 DEF Touched, ProcFields
  <2>2. CASE q \in Woken(p) /\ proc[q].state = "SLEEPING" /\ proc[q].chan = <<"child", q>>
    BY <1>2, <1>9, <2>1, <2>2 DEF Stays
  <2>3. CASE ~ (q \in Woken(p) /\ proc[q].state = "SLEEPING" /\ proc[q].chan = <<"child", q>>)
    BY <1>2, <1>9, <2>1, <2>3 DEF Stays
  <2> QED
    BY <2>2, <2>3
<1>10. Wakeful(proc'[p])
  BY <1>2, <1>6 DEF Wakeful, Dozing
<1>11. ASSUME NEW q \in Procs PROVE Sleeps(q)'
  BY <1>2, <1>9, <1>10, SleepsKept, SleepParts DEF IInv, Sleeps
<1>12. ASSUME NEW q \in Procs PROVE ChildWait(q)'
  <2>1. CASE q = p
    BY <1>2, <2>1 DEF ChildWait
  <2>2. CASE q # p
    <3> SUFFICES ASSUME proc'[q].state = "SLEEPING", proc'[q].chan = <<"child", q>>
                 PROVE  /\ Children(q)' # {}
                        /\ \A c \in Children(q)' : proc'[c].state # "ZOMBIE"
      BY DEF ChildWait
    <3>1. /\ q \notin Woken(p) /\ Children(q) # {} /\ \A c \in Children(q) : proc[c].state # "ZOMBIE"
      <4>1. ChildWait(q)
        BY SleepParts DEF IInv
      <4> QED
        BY <1>9, <2>2, <4>1 DEF ChildWait, Stays
    <3>2. Procs' = Procs /\ Children(q)' = {c \in Procs : proc'[c].parent = q}
      BY DEF Procs, Children
    <3>3. proc[p].parent # q
      BY <3>1 DEF Woken
    <3>4. PICK c \in Children(q) : TRUE
      BY <3>1
    <3>5. c \in Procs /\ c # p /\ proc[c].parent = q /\ proc'[c].parent = q
      BY <1>2, <2>2, <3>3, <3>4 DEF Children
    <3>6. ASSUME NEW b \in Procs, proc'[b].parent = q PROVE proc'[b].state # "ZOMBIE"
      <4>1. b # p
        BY <1>6, <3>3, <3>6
      <4>2. proc'[b].state = "ZOMBIE" => proc[b].state = "ZOMBIE"
        BY <1>2, <4>1 DEF Touched
      <4>3. CASE proc[b].parent = p
        <5>1. q = initproc
          BY <1>2, <3>6, <4>1, <4>3
        <5> QED
          BY <3>1, <4>2, <4>3, <5>1 DEF Woken, Children
      <4>4. CASE proc[b].parent # p
        <5>1. proc[b].parent = q
          BY <1>2, <3>6, <4>1, <4>4
        <5> QED
          BY <3>1, <4>2, <5>1 DEF Children
      <4> QED
        BY <4>3, <4>4
    <3> QED
      BY <3>2, <3>5, <3>6
  <2> QED
    BY <2>1, <2>2
<1>13. SleepInv' /\ SleepersWait'
  <2>1. Procs' = Procs
    BY DEF Procs
  <2> QED
    BY <1>11, <1>12, <2>1 DEF SleepInv, SleepersWait, Sleeps, LockOf, ChanOf, PipeWait, ReaderWaits, WriterWaits, ChildWait
<1> QED
  BY <1>2, <1>8, <1>13, CountStep DEF IInv

\* Going to sleep in a pipe preserves the invariant: the lock has kept the reason true.
LEMMA pipe_sleep_step ==
  ASSUME IInv, UNCHANGED work, NEW p \in Procs, pipe_sleep(p)
  PROVE  IInv'
<1>1. Types /\ PlaceInv /\ DOMAIN pipe = Pipes
  BY DEF IInv, Types
<1>2. PICK i \in Pipes :
      /\ UNCHANGED <<file, iref, text>> /\ Local(proc'[p], work, DOMAIN text)
      /\ i = proc[p].pipe /\ Alone(p) /\ Same(proc[p], proc'[p], {"state", "chan", "at"})
      /\ proc'[p].state = "SLEEPING"
      /\ pipe' = [pipe EXCEPT ![i].lock = None]
      /\ \/ /\ proc[p].at = "pipewrite_sleep" /\ proc'[p].at = "pipewrite"
            /\ proc'[p].chan = NWrite(i)
         \/ /\ proc[p].at = "piperead_sleep" /\ proc'[p].at = "piperead"
            /\ proc'[p].chan = NRead(i)
  BY <1>1, pipe_sleep_effect
<1>3. /\ proc'[p].ofile = proc[p].ofile /\ proc'[p].tmp = proc[p].tmp /\ proc'[p].ff = proc[p].ff
      /\ proc'[p].cwd = proc[p].cwd /\ proc'[p].parent = proc[p].parent /\ proc'[p].pipe = i
      /\ proc[p].tmp = <<>> /\ proc[p].ff = NoFile
  BY <1>1, <1>2 DEF Same, ProcFields, PlaceInv, Place, Allocating
<1>4. Others(p) /\ OthersRefs(p)
  BY <1>2, AloneOthers, TouchedRefs
<1>5. Steady(p) /\ Len(proc[p].tmp) \in 0 .. 2
  <2>1. /\ proc[p].at \in Reading \cup Writing
        /\ \/ proc'[p].at \in Reading /\ proc[p].at \in Reading
           \/ proc'[p].at \in Writing /\ proc[p].at \in Writing
    BY <1>2 DEF Reading, Writing
  <2> QED
    BY <1>2, <1>3, <1>4, <2>1, LoopSteady
<1>6. \A q \in Procs : Local(proc'[q], work, DOMAIN text)
  BY <1>1, <1>2, <1>4, LocalsStep DEF Types
<1> DEFINE x == [pipe[i] EXCEPT !.lock = None]
<1>7. /\ pipe' = [pipe EXCEPT ![i] = x] /\ PipeType(pipe[i])
      /\ \A j \in Pipes \ {i} : pipe'[j] = pipe[j]
  BY <1>1, <1>2 DEF Types
<1>8. /\ PipeType(x) /\ SamePipe(pipe[i], x) /\ x.nread = pipe[i].nread /\ x.nwrite = pipe[i].nwrite
      /\ x.spoiled = pipe[i].spoiled /\ pipe'[i] = x
  BY <1>1, <1>2, <1>7, Fields DEF PipeType, SamePipe
<1> HIDE DEF x
<1>9. DOMAIN pipe' = Pipes /\ \A j \in Pipes : PipeType(pipe'[j]) /\ SamePipe(pipe[j], pipe'[j])
  BY <1>1, <1>7, <1>8 DEF Types, SamePipe
<1>10. Types' /\ PlaceInv' /\ RefsRight' /\ MineInv' /\ EndInv' /\ InsideInv'
  BY <1>2, <1>5, <1>6, <1>9, SteadyTypes
<1>11. Count(i)' = Count(i) /\ \A j \in Pipes \ {i} : Count(j)' = Count(j)
  BY <1>2, <1>7, <1>8 DEF Count
<1>12. CountInv'
  <2>1. Pipes' = Pipes
    BY DEF Pipes
  <2> QED
    BY <1>11, <2>1 DEF IInv, CountInv
<1>13. Sleeps(p) /\ pipe[i].lock = p /\ ReaderWaits(p, i)' /\ WriterWaits(p, i)' /\ ChanOf(p)' /\ LockOf(p)'
  <2>1. Sleeps(p)
    BY SleepParts DEF IInv, Sleeps
  <2>2. NRead(i) # NWrite(i)
    BY DEF NRead, NWrite
  <2>3. CASE proc[p].at = "pipewrite_sleep"
    <3>1. pipe[i].lock = p /\ pipe[i].readopen /\ Count(i) = PIPESIZE
      BY <1>2, <2>1, <2>3 DEF Sleeps, LockOf
    <3>2. proc'[p].at = "pipewrite" /\ proc'[p].chan = NWrite(i)
      BY <1>2, <2>3
    <3> QED
      BY <1>3, <1>8, <1>11, <2>1, <2>2, <3>1, <3>2 DEF SamePipe, ReaderWaits, WriterWaits, ChanOf, LockOf
  <2>4. CASE proc[p].at = "piperead_sleep"
    <3>1. pipe[i].lock = p /\ pipe[i].writeopen /\ Count(i) = 0
      BY <1>2, <2>1, <2>4 DEF Sleeps, LockOf
    <3>2. proc'[p].at = "piperead" /\ proc'[p].chan = NRead(i)
      BY <1>2, <2>4
    <3> QED
      BY <1>3, <1>8, <1>11, <2>1, <2>2, <3>1, <3>2 DEF SamePipe, ReaderWaits, WriterWaits, ChanOf, LockOf
  <2> QED
    BY <1>2, <2>3, <2>4
<1>14. Sleeps(p)' /\ ChildWait(p)'
  <2>1. \A j \in Pipes : ReaderWaits(p, j)' /\ WriterWaits(p, j)'
    <3>1. proc'[p].chan \in {NRead(i), NWrite(i)}
      BY <1>2
    <3>2. \A j \in Pipes : j # i => proc'[p].chan # NRead(j) /\ proc'[p].chan # NWrite(j)
      BY <3>1 DEF NRead, NWrite
    <3> QED
      BY <1>13, <3>2 DEF ReaderWaits, WriterWaits
  <2>2. Pipes' = Pipes
    BY DEF Pipes
  <2>3. proc'[p].chan # <<"child", p>>
    BY <1>2 DEF NRead, NWrite
  <2> QED
    BY <1>13, <2>1, <2>2, <2>3 DEF Sleeps, PipeWait, ChildWait
<1>15. SleepInv' /\ SleepersWait'
  <2>1. ASSUME NEW q \in Procs \ {p}
        PROVE  /\ Stays(proc[q], proc'[q]) /\ Kin(proc[q], proc'[q])
               /\ ~ (proc[q].at \in Dozing /\ proc[q].pipe = i)
               /\ ReaderWaits(q, i)' /\ WriterWaits(q, i)'
    <3>1. Stays(proc[q], proc'[q]) /\ Kin(proc[q], proc'[q])
      BY <1>2, AloneKin
    <3>2. Sleeps(q)
      BY SleepParts DEF IInv, Sleeps
    <3>3. ~ (proc[q].at \in Dozing /\ proc[q].pipe = i)
      BY <1>1, <1>2, <1>13, <3>2, OneDozes
    <3>4. ReaderWaits(q, i)' /\ WriterWaits(q, i)'
      BY <1>2, <1>8, <1>11, <3>1, <3>2 DEF SamePipe, Stays, Sleeps, PipeWait, ReaderWaits, WriterWaits
    <3> QED
      BY <3>1, <3>3, <3>4
  <2>2. Kin(proc[p], proc'[p]) /\ DOMAIN proc' = Procs
    BY <1>2, <1>3 DEF Kin, Alone
  <2> QED
    BY ZenonT(30), <1>1, <1>2, <1>7, <1>14, <2>1, <2>2, PipeStep DEF IInv
<1> QED
  BY <1>10, <1>12, <1>15 DEF IInv

\* What the counters of a pipe say after a move.
LEMMA CountMoves ==
  ASSUME Types, NEW i \in Pipes, NEW x, pipe' = [pipe EXCEPT ![i] = x], NEW k \in Nat, NEW j \in Nat,
         Moved(pipe[i], x, k, j)
  PROVE  /\ j = 0 /\ Count(i) + k < UINT => Count(i)' = Count(i) + k
         /\ k = 0 /\ j <= Count(i) => Count(i)' = Count(i) - j
         /\ \A m \in Pipes \ {i} : Count(m)' = Count(m)
<1>1. /\ Count(i) = Between(pipe[i].nread, pipe[i].nwrite) /\ Count(i) \in Nat
      /\ pipe[i].nread \in 0 .. UINT - 1 /\ pipe[i].nwrite \in 0 .. UINT - 1
      /\ DOMAIN pipe = Pipes
  BY CountIs
<1>2. pipe'[i] = x /\ \A m \in Pipes \ {i} : pipe'[m] = pipe[m]
  BY <1>1
<1>3. Count(i)' = Between((pipe[i].nread + j) % UINT, (pipe[i].nwrite + k) % UINT)
  BY <1>2 DEF Count, Between, Moved
<1>4. (pipe[i].nread + 0) % UINT = pipe[i].nread /\ (pipe[i].nwrite + 0) % UINT = pipe[i].nwrite
  BY <1>1, Still
<1>5. ASSUME j = 0, Count(i) + k < UINT PROVE Count(i)' = Count(i) + k
  <2>1. Count(i)' = Between(pipe[i].nread, (pipe[i].nwrite + k) % UINT)
    BY <1>3, <1>4, <1>5
  <2>2. Between(pipe[i].nread, pipe[i].nwrite) + k < UINT =>
          Between(pipe[i].nread, (pipe[i].nwrite + k) % UINT) = Between(pipe[i].nread, pipe[i].nwrite) + k
    BY <1>1, BetweenMoves
  <2> QED
    BY <1>1, <1>5, <2>1, <2>2
<1>6. ASSUME k = 0, j <= Count(i) PROVE Count(i)' = Count(i) - j
  <2>1. Count(i)' = Between((pipe[i].nread + j) % UINT, pipe[i].nwrite)
    BY <1>3, <1>4, <1>6
  <2>2. j <= Between(pipe[i].nread, pipe[i].nwrite) =>
          Between((pipe[i].nread + j) % UINT, pipe[i].nwrite) = Between(pipe[i].nread, pipe[i].nwrite) - j
    BY <1>1, BetweenMoves
  <2> QED
    BY <1>1, <1>6, <2>1, <2>2
<1> QED
  BY <1>2, <1>5, <1>6 DEF Count

\* One turn of the loop of pipewrite or piperead.
LEMMA LoopStep ==
  ASSUME IInv, UNCHANGED <<work, file, iref, text>>, NEW p \in Procs, Len(proc[p].tmp) \in 0 .. 2,
         Steady(p), Others(p), Local(proc'[p], work, DOMAIN text),
         NEW i \in Pipes, NEW x, pipe' = [pipe EXCEPT ![i] = x], PipeType(x), SamePipe(pipe[i], x),
         pipe[i].lock = None, Count(i)' <= PIPESIZE, \A m \in Pipes \ {i} : Count(m)' = Count(m),
         \A q \in Procs \ {p} : /\ Stays(proc[q], proc'[q]) /\ Kin(proc[q], proc'[q])
                                /\ ReaderWaits(q, i)' /\ WriterWaits(q, i)',
         Kin(proc[p], proc'[p]), proc'[p].state = "RUNNABLE", LockOf(p)'
  PROVE  IInv'
<1>1. Types /\ PlaceInv /\ DOMAIN pipe = Pipes /\ Procs' = Procs /\ Pipes' = Pipes /\ DOMAIN proc' = Procs
  BY DEF IInv, Types, Procs, Pipes, Others
<1>2. /\ DOMAIN pipe' = Pipes /\ pipe'[i] = x /\ \A m \in Pipes \ {i} : pipe'[m] = pipe[m]
      /\ \A m \in Pipes : PipeType(pipe'[m]) /\ SamePipe(pipe[m], pipe'[m])
  BY <1>1 DEF Types, SamePipe
<1>3. \A q \in Procs : Local(proc'[q], work, DOMAIN text)
  BY <1>1, LocalsStep DEF Types
<1>4. Types' /\ PlaceInv' /\ RefsRight' /\ MineInv' /\ EndInv' /\ InsideInv'
  BY <1>2, <1>3, SteadyTypes
<1>5. CountInv'
  BY <1>1 DEF IInv, CountInv
<1>6. SleepInv' /\ SleepersWait'
  <2>1. \A q \in Procs \ {p} : ~ (proc[q].at \in Dozing /\ proc[q].pipe = i)
    BY <1>1, OneDozes, SleepParts, Tables DEF IInv, Sleeps, Types
  <2>2. Sleeps(p)' /\ ChildWait(p)'
    BY <1>1 DEF Sleeps, ChanOf, PipeWait, ReaderWaits, WriterWaits, ChildWait
  <2> QED
    BY <1>1, <2>1, <2>2, PipeStep DEF IInv
<1> QED
  BY <1>4, <1>5, <1>6 DEF IInv

\* p leaves its loop, or waits in it.
LEMMA LeavesSteady ==
  ASSUME IInv, NEW p \in Procs, Others(p), proc[p].at \in {"pipewrite", "piperead"}, proc[p].state = "RUNNABLE",
         \/ Rested(proc[p], proc'[p], proc[p].ofile)
         \/ /\ Same(proc[p], proc'[p], {"left", "at"})
            /\ \/ proc[p].at = "pipewrite" /\ proc'[p].at = "pipewrite_sleep"
               \/ proc[p].at = "piperead" /\ proc'[p].at = "piperead_sleep"
  PROVE  /\ Steady(p) /\ Len(proc[p].tmp) \in 0 .. 2
         /\ Kin(proc[p], proc'[p]) /\ proc'[p].state = "RUNNABLE"
<1>1. OthersRefs(p)
  BY TouchedRefs
<1>2. proc[p].tmp = <<>> /\ proc[p].ff = NoFile
  BY DEF IInv, PlaceInv, Place, Allocating
<1>3. CASE Rested(proc[p], proc'[p], proc[p].ofile)
  <2>1. /\ proc'[p].at = "user" /\ proc'[p].tmp = <<>> /\ proc'[p].ff = NoFile /\ proc'[p].ofile = proc[p].ofile
        /\ proc'[p].cwd = proc[p].cwd /\ proc'[p].state = "RUNNABLE" /\ proc'[p].parent = proc[p].parent
    BY <1>3 DEF Rested, Returned
  <2> QED
    BY <1>1, <2>1, LoopSteady DEF Reading, Writing, Kin
<1>4. ASSUME Same(proc[p], proc'[p], {"left", "at"}),
             \/ proc[p].at = "pipewrite" /\ proc'[p].at = "pipewrite_sleep"
             \/ proc[p].at = "piperead" /\ proc'[p].at = "piperead_sleep"
      PROVE  /\ Steady(p) /\ Len(proc[p].tmp) \in 0 .. 2
             /\ Kin(proc[p], proc'[p]) /\ proc'[p].state = "RUNNABLE"
  <2>1. /\ proc'[p].tmp = <<>> /\ proc'[p].ff = NoFile /\ proc'[p].ofile = proc[p].ofile /\ proc'[p].pipe = proc[p].pipe
        /\ proc'[p].cwd = proc[p].cwd /\ proc'[p].state = "RUNNABLE" /\ proc'[p].parent = proc[p].parent
    BY <1>2, <1>4 DEF Same, ProcFields
  <2> QED
    BY <1>1, <1>4, <2>1, LoopSteady DEF Reading, Writing, Kin
<1> QED
  BY <1>3, <1>4

\* pipewrite preserves the invariant: it copies no more than there is room for and wakes
\* the readers.
LEMMA pipewrite_step ==
  ASSUME IInv, UNCHANGED work, NEW p \in Procs, pipewrite(p)
  PROVE  IInv'
<1>1. Types /\ PlaceInv /\ EndInv /\ InsideInv /\ DOMAIN pipe = Pipes /\ CountInv
      /\ proc[p].at = "pipewrite" /\ proc[p].state = "RUNNABLE"
  BY DEF IInv, Types, pipewrite, At
<1>0. PICK i \in Pipes : \E x, v :
        /\ UNCHANGED <<file, iref, text>> /\ Local(proc'[p], work, DOMAIN text)
        /\ i = proc[p].pipe
        /\ pipe[i].lock = None /\ pipe' = [pipe EXCEPT ![i] = x]
        /\ Sequence(v) /\ Len(v) <= Room(i) /\ Moved(pipe[i], x, Len(v), 0)
        /\ \/ /\ Quietly(p) /\ x.lock = None /\ x.spoiled = (pipe[i].spoiled \/ proc[p].killed)
              /\ ~ pipe[i].readopen \/ proc[p].killed
           \/ /\ Wakes(p, NRead(i)) /\ x.lock = None /\ x.spoiled = pipe[i].spoiled
              /\ Rested(proc[p], proc'[p], proc[p].ofile)
           \/ /\ Wakes(p, NRead(i)) /\ x.lock = p /\ x.spoiled = pipe[i].spoiled
              /\ Same(proc[p], proc'[p], {"left", "at"}) /\ proc'[p].at = "pipewrite_sleep"
              /\ Len(v) = Room(i) /\ pipe[i].readopen
  BY <1>1, pipewrite_effect
<1>2. PICK x, v :
        /\ UNCHANGED <<file, iref, text>> /\ Local(proc'[p], work, DOMAIN text)
        /\ i = proc[p].pipe
        /\ pipe[i].lock = None /\ pipe' = [pipe EXCEPT ![i] = x]
        /\ Sequence(v) /\ Len(v) <= Room(i) /\ Moved(pipe[i], x, Len(v), 0)
        /\ \/ /\ Quietly(p) /\ x.lock = None /\ x.spoiled = (pipe[i].spoiled \/ proc[p].killed)
              /\ ~ pipe[i].readopen \/ proc[p].killed
           \/ /\ Wakes(p, NRead(i)) /\ x.lock = None /\ x.spoiled = pipe[i].spoiled
              /\ Rested(proc[p], proc'[p], proc[p].ofile)
           \/ /\ Wakes(p, NRead(i)) /\ x.lock = p /\ x.spoiled = pipe[i].spoiled
              /\ Same(proc[p], proc'[p], {"left", "at"}) /\ proc'[p].at = "pipewrite_sleep"
              /\ Len(v) = Room(i) /\ pipe[i].readopen
  BY <1>0
<1>3. /\ Count(i)' = Count(i) + Len(v) /\ Count(i)' <= PIPESIZE /\ Len(v) \in Nat /\ Count(i) \in Nat
      /\ Count(i) = PIPESIZE => Count(i)' = PIPESIZE
      /\ Len(v) = Room(i) => Count(i)' = PIPESIZE
      /\ \A m \in Pipes \ {i} : Count(m)' = Count(m)
  <2>1. Count(i) \in Nat /\ Count(i) <= PIPESIZE /\ Len(v) \in Nat /\ Len(v) <= PIPESIZE - Count(i)
    BY <1>1, <1>2, CountIs DEF CountInv, Sequence, Room
  <2>2. Count(i) + Len(v) < UINT
    BY <2>1, Uint
  <2>3. Count(i)' = Count(i) + Len(v) /\ \A m \in Pipes \ {i} : Count(m)' = Count(m)
    BY <1>1, <1>2, <2>1, <2>2, CountMoves
  <2> QED
    BY <2>1, <2>3, Uint DEF Room
<1>4. PipeType(x) /\ SamePipe(pipe[i], x) /\ pipe'[i] = x /\ x.writeopen = pipe[i].writeopen
      /\ x.readopen = pipe[i].readopen
  BY <1>1, <1>2 DEF Moved, SamePipe
<1>5. ASSUME NEW q \in Procs, proc[q].state = "SLEEPING", proc[q].chan = NRead(i) PROVE pipe[i].readopen
  <2>1. ChanOf(q)
    BY SleepParts DEF IInv
  <2>2. proc[q].at = "piperead" /\ proc[q].pipe = i
    BY <1>1, <1>5, <2>1, SleepsOn
  <2> QED
    BY <1>1, <2>2, InsideOpen DEF Reading, Writing
<1>6. ASSUME NEW q \in Procs \ {p}, Stays(proc[q], proc'[q]) PROVE WriterWaits(q, i)'
  <2>1. WriterWaits(q, i)
    BY SleepParts DEF IInv, PipeWait
  <2> QED
    BY <1>3, <1>4, <1>6, <2>1 DEF WriterWaits, Stays
<1>7. CASE Quietly(p) /\ x.spoiled = (pipe[i].spoiled \/ proc[p].killed) /\ (~ pipe[i].readopen \/ proc[p].killed)
  <2>1. Others(p) /\ Rested(proc[p], proc'[p], proc[p].ofile) /\ Alone(p)
    BY <1>7, AloneOthers DEF Quietly
  <2>2. Steady(p) /\ Len(proc[p].tmp) \in 0 .. 2 /\ Kin(proc[p], proc'[p]) /\ proc'[p].state = "RUNNABLE"
    BY <1>1, <2>1, LeavesSteady
  <2>3. LockOf(p)'
    BY <2>1 DEF LockOf, Rested, Returned
  <2>4. ASSUME NEW q \in Procs \ {p}
        PROVE  Stays(proc[q], proc'[q]) /\ Kin(proc[q], proc'[q]) /\ ReaderWaits(q, i)' /\ WriterWaits(q, i)'
    <3>1. Stays(proc[q], proc'[q]) /\ Kin(proc[q], proc'[q])
      BY <2>1, AloneKin
    <3>2. ReaderWaits(q, i)
      BY SleepParts DEF IInv, PipeWait
    <3>3. ReaderWaits(q, i)'
      BY <1>4, <1>5, <1>7, <3>1, <3>2 DEF ReaderWaits, Stays
    <3> QED
      BY <1>6, <3>1, <3>3
  <2> QED
    BY <1>2, <1>3, <1>4, <2>1, <2>2, <2>3, <2>4, LoopStep
<1>8. ASSUME Wakes(p, NRead(i)),
             Rested(proc[p], proc'[p], proc[p].ofile) \/
             (/\ Same(proc[p], proc'[p], {"left", "at"}) /\ proc'[p].at = "pipewrite_sleep" /\ x.lock = p
              /\ Len(v) = Room(i) /\ pipe[i].readopen)
      PROVE  IInv'
  <2>1. Others(p)
    BY <1>1, <1>8, WakesOthers
  <2>2. Steady(p) /\ Len(proc[p].tmp) \in 0 .. 2 /\ Kin(proc[p], proc'[p]) /\ proc'[p].state = "RUNNABLE"
    BY <1>1, <1>8, <2>1, LeavesSteady
  <2>3. LockOf(p)'
    <3>1. CASE Rested(proc[p], proc'[p], proc[p].ofile)
      BY <3>1 DEF LockOf, Rested, Returned
    <3>2. CASE /\ Same(proc[p], proc'[p], {"left", "at"}) /\ proc'[p].at = "pipewrite_sleep" /\ x.lock = p
               /\ Len(v) = Room(i) /\ pipe[i].readopen
      <4>1. proc'[p].pipe = i
        BY <1>2, <3>2 DEF Same, ProcFields
      <4> QED
        BY <1>3, <1>4, <3>2, <4>1 DEF LockOf
    <3> QED
      BY <1>8, <3>1, <3>2
  <2>4. ASSUME NEW q \in Procs \ {p}
        PROVE  Stays(proc[q], proc'[q]) /\ Kin(proc[q], proc'[q]) /\ ReaderWaits(q, i)' /\ WriterWaits(q, i)'
    <3>1. /\ Stays(proc[q], proc'[q]) /\ Kin(proc[q], proc'[q])
          /\ ~ (proc'[q].state = "SLEEPING" /\ proc'[q].chan = NRead(i))
      BY <1>1, <1>8, WakesKin
    <3>2. ReaderWaits(q, i)'
      BY <3>1 DEF ReaderWaits, NRead
    <3> QED
      BY <1>6, <3>1, <3>2
  <2> QED
    BY <1>2, <1>3, <1>4, <2>1, <2>2, <2>3, <2>4, LoopStep
<1> QED
  BY <1>2, <1>7, <1>8

\* piperead preserves the invariant: it takes bytes away and wakes the writers.
LEMMA piperead_step ==
  ASSUME IInv, UNCHANGED work, NEW p \in Procs, piperead(p)
  PROVE  IInv'
<1>1. Types /\ PlaceInv /\ DOMAIN pipe = Pipes /\ CountInv
      /\ proc[p].at = "piperead" /\ proc[p].state = "RUNNABLE"
  BY DEF IInv, Types, piperead, At
<1>2. PICK i \in Pipes :
        /\ UNCHANGED <<file, iref, text>> /\ Local(proc'[p], work, DOMAIN text)
        /\ i = proc[p].pipe /\ pipe[i].lock = None
        /\ \/ Quietly(p) /\ UNCHANGED pipe
           \/ /\ Alone(p) /\ Same(proc[p], proc'[p], {"at"}) /\ proc'[p].at = "piperead_sleep"
              /\ Count(i) = 0 /\ pipe[i].writeopen
              /\ pipe' = [pipe EXCEPT ![i].lock = p]
           \/ /\ Wakes(p, NWrite(i)) /\ Rested(proc[p], proc'[p], proc[p].ofile)
              /\ ~ (Count(i) = 0 /\ pipe[i].writeopen)
              /\ \E j \in Nat : /\ j <= Count(i)
                                /\ pipe' = [pipe EXCEPT ![i].nread = (@ + j) % UINT]
  BY <1>1, piperead_effect
<1>3. Count(i) \in Nat /\ Count(i) <= PIPESIZE /\ PipeType(pipe[i])
      /\ pipe[i].nread \in 0 .. UINT - 1 /\ pipe[i].nwrite \in 0 .. UINT - 1
  BY <1>1, CountIs DEF CountInv
<1>4. CASE Quietly(p) /\ UNCHANGED pipe
  BY <1>1, <1>2, <1>4, TextSame, QuietStep DEF IInv, Allocating
<1>5. ASSUME Alone(p), Same(proc[p], proc'[p], {"at"}), proc'[p].at = "piperead_sleep",
             Count(i) = 0, pipe[i].writeopen, pipe' = [pipe EXCEPT ![i].lock = p]
      PROVE  IInv'
  <2> DEFINE x == [pipe[i] EXCEPT !.lock = p]
  <2>1. Others(p)
    BY <1>5, AloneOthers
  <2>2. Steady(p) /\ Len(proc[p].tmp) \in 0 .. 2 /\ Kin(proc[p], proc'[p]) /\ proc'[p].state = "RUNNABLE"
    <3>1. Same(proc[p], proc'[p], {"left", "at"})
      BY <1>5 DEF Same
    <3> QED
      BY <1>1, <1>5, <2>1, <3>1, LeavesSteady
  <2>3. /\ PipeType(x) /\ SamePipe(pipe[i], x) /\ x.nread = pipe[i].nread /\ x.nwrite = pipe[i].nwrite
        /\ x.spoiled = pipe[i].spoiled /\ x.lock = p
    BY <1>3, Fields DEF PipeType, SamePipe
  <2>4. pipe' = [pipe EXCEPT ![i] = x]
    BY <1>5
  <2> HIDE DEF x
  <2>5. pipe'[i] = x /\ \A m \in Pipes \ {i} : pipe'[m] = pipe[m]
    BY <1>1, <2>4
  <2>6. Count(i)' = 0 /\ Count(i)' <= PIPESIZE /\ \A m \in Pipes \ {i} : Count(m)' = Count(m)
    BY <1>3, <1>5, <2>3, <2>5 DEF Count
  <2>7. LockOf(p)'
    <3>1. proc'[p].pipe = i
      BY <1>2, <1>5 DEF Same, ProcFields
    <3> QED
      BY <1>5, <2>3, <2>5, <2>6, <3>1 DEF LockOf, SamePipe
  <2>8. ASSUME NEW q \in Procs \ {p}
        PROVE  Stays(proc[q], proc'[q]) /\ Kin(proc[q], proc'[q]) /\ ReaderWaits(q, i)' /\ WriterWaits(q, i)'
    <3>1. Stays(proc[q], proc'[q]) /\ Kin(proc[q], proc'[q])
      BY <1>5, AloneKin
    <3>2. ReaderWaits(q, i) /\ WriterWaits(q, i)
      BY SleepParts DEF IInv, PipeWait
    <3> QED
      BY <1>5, <2>3, <2>5, <2>6, <3>1, <3>2 DEF ReaderWaits, WriterWaits, Stays, SamePipe
  <2> QED
    BY <1>2, <2>1, <2>2, <2>3, <2>4, <2>6, <2>7, <2>8, LoopStep
<1>6. ASSUME Wakes(p, NWrite(i)), Rested(proc[p], proc'[p], proc[p].ofile), NEW j \in Nat, j <= Count(i),
             pipe' = [pipe EXCEPT ![i].nread = (@ + j) % UINT]
      PROVE  IInv'
  <2> DEFINE x == [pipe[i] EXCEPT !.nread = (@ + j) % UINT]
  <2>1. Others(p)
    BY <1>1, <1>6, WakesOthers
  <2>2. Steady(p) /\ Len(proc[p].tmp) \in 0 .. 2 /\ Kin(proc[p], proc'[p]) /\ proc'[p].state = "RUNNABLE"
    BY <1>1, <1>6, <2>1, LeavesSteady
  <2>3. (pipe[i].nread + j) % UINT \in 0 .. UINT - 1 /\ (pipe[i].nwrite + 0) % UINT = pipe[i].nwrite
    BY <1>3, <1>6, BetweenMoves, Still
  <2>4. /\ PipeType(x) /\ SamePipe(pipe[i], x) /\ x.spoiled = pipe[i].spoiled
        /\ x.nread = (pipe[i].nread + j) % UINT /\ x.nwrite = pipe[i].nwrite
    BY <1>3, <2>3, Fields DEF PipeType, SamePipe
  <2>5. Moved(pipe[i], x, 0, j)
    BY <2>3, <2>4 DEF Moved, SamePipe
  <2>6. pipe' = [pipe EXCEPT ![i] = x]
    BY <1>6
  <2> HIDE DEF x
  <2>7. Count(i)' = Count(i) - j /\ \A m \in Pipes \ {i} : Count(m)' = Count(m)
    <3>1. 0 \in Nat
      OBVIOUS
    <3>2. /\ 0 = 0 /\ j <= Count(i) => Count(i)' = Count(i) - j
          /\ \A m \in Pipes \ {i} : Count(m)' = Count(m)
      BY <1>1, <2>5, <2>6, <3>1, CountMoves, Zenon
    <3> QED
      BY <1>6, <3>2
  <2>8. pipe'[i] = x /\ Count(i)' <= PIPESIZE /\ (Count(i) = 0 => Count(i)' = 0)
    BY <1>1, <1>3, <1>6, <2>6, <2>7, Uint
  <2>9. LockOf(p)'
    BY <1>6 DEF LockOf, Rested, Returned
  <2>10. ASSUME NEW q \in Procs \ {p}
        PROVE  Stays(proc[q], proc'[q]) /\ Kin(proc[q], proc'[q]) /\ ReaderWaits(q, i)' /\ WriterWaits(q, i)'
    <3>1. /\ Stays(proc[q], proc'[q]) /\ Kin(proc[q], proc'[q])
          /\ ~ (proc'[q].state = "SLEEPING" /\ proc'[q].chan = NWrite(i))
      BY <1>1, <1>6, WakesKin
    <3>2. WriterWaits(q, i)'
      BY <3>1 DEF WriterWaits, NWrite
    <3>3. ReaderWaits(q, i)
      BY SleepParts DEF IInv, PipeWait
    <3>4. ReaderWaits(q, i)'
      BY <2>4, <2>8, <3>1, <3>3 DEF ReaderWaits, Stays, SamePipe
    <3> QED
      BY <3>1, <3>2, <3>4
  <2> QED
    BY <1>2, <2>1, <2>2, <2>4, <2>6, <2>7, <2>8, <2>9, <2>10, LoopStep
<1> QED
  BY <1>2, <1>4, <1>5, <1>6

----------------------------------------------------------------------------
(* Steps that change references.                                           *)

\* What One counts.
LEMMA OneIs == /\ \A b : b => One(b) = 1
               /\ \A b : ~ b => One(b) = 0
               /\ \A b : One(b) \in Nat
  BY DEF One

\* The references to inodes are a number.
LEMMA IrefNat ==
  ASSUME Types, RefsRight
  PROVE  iref \in Nat
<1>1. /\ IsFiniteSet({q \in Procs : proc[q].cwd}) /\ IsFiniteSet({f \in Files : file[f].type = "INODE"})
      /\ IsFiniteSet({q \in Procs : proc[q].ff.type = "INODE"})
  BY Tables, FS_Subset DEF Types
<1>2. /\ Cardinality({q \in Procs : proc[q].cwd}) \in Nat
      /\ Cardinality({f \in Files : file[f].type = "INODE"}) \in Nat
      /\ Cardinality({q \in Procs : proc[q].ff.type = "INODE"}) \in Nat
  BY <1>1, FS_CardinalityType
<1> QED
  BY <1>2 DEF RefsRight

\* The references to plain files, of p and of file g.
Inodes(r, f) == One(r.cwd) + One(f.type = "INODE") + One(r.ff.type = "INODE")

\* A file's references to an inode are a number.
LEMMA InodesNat ==
  ASSUME NEW r, NEW f
  PROVE  Inodes(r, f) \in Nat
  BY DEF Inodes, One

\* The references of r and of s, which has another thing in one descriptor.
LEMMA HeldFd ==
  ASSUME NEW p, NEW F, IsFiniteSet(F), NEW r, NEW s, NEW d \in F, NEW f,
         \A x \in F \ {d} : s.ofile[x] = r.ofile[x]
  PROVE  Held(p, s, F, f) + (IF r.ofile[d] = f THEN 1 ELSE 0) + Times(r.tmp, f) =
           Held(p, r, F, f) + (IF s.ofile[d] = f THEN 1 ELSE 0) + Times(s.tmp, f)
<1>1. Cardinality(Through(p, s.ofile, F, f)) + One(r.ofile[d] = f) =
        Cardinality(Through(p, r.ofile, F, f)) + One(s.ofile[d] = f)
  BY SetFd
<1> DEFINE a == Cardinality(Through(p, s.ofile, F, f))  b == Cardinality(Through(p, r.ofile, F, f))
           x == IF r.ofile[d] = f THEN 1 ELSE 0  y == IF s.ofile[d] = f THEN 1 ELSE 0  u == Times(r.tmp, f)  v == Times(s.tmp, f)
<1>2. a \in Nat /\ b \in Nat /\ x \in Nat /\ y \in Nat /\ u \in Nat /\ v \in Nat
  BY ThroughFinite DEF Times
<1>3. Held(p, s, F, f) = a + v /\ Held(p, r, F, f) = b + u
  BY DEF Held
<1> HIDE DEF a, b, x, y, u, v
<1>4. a + x = b + y
  BY <1>1 DEF a, b, x, y, One
<1>5. Held(p, s, F, f) + x + u = Held(p, r, F, f) + y + v
  BY <1>2, <1>3, <1>4
<1> QED
  BY <1>5 DEF x, y, u, v

\* The references of r and of s, which has other files in hand.
LEMMA HeldTmp ==
  ASSUME NEW p, NEW F, IsFiniteSet(F), NEW r, NEW s, s.ofile = r.ofile, NEW f
  PROVE  Held(p, s, F, f) + Times(r.tmp, f) = Held(p, r, F, f) + Times(s.tmp, f)
<1> DEFINE a == Cardinality(Through(p, r.ofile, F, f))  u == Times(r.tmp, f)  v == Times(s.tmp, f)
<1>1. a \in Nat /\ u \in Nat /\ v \in Nat
  BY ThroughFinite DEF Times
<1>2. Held(p, s, F, f) = a + v /\ Held(p, r, F, f) = a + u
  BY DEF Held
<1> HIDE DEF a, u, v
<1>3. Held(p, s, F, f) + u = Held(p, r, F, f) + v
  BY <1>1, <1>2
<1> QED
  BY <1>3 DEF u, v

\* Nothing is in an empty hand.
LEMMA TimesNone == \A f : Times(<<>>, f) = 0
  BY DEF Times

\* A hand of one file.
LEMMA TimesOne == \A g, f : Times(<<g>>, f) = (IF g = f THEN 1 ELSE 0) /\ Len(<<g>>) = 1
<1> SUFFICES ASSUME NEW g, NEW f PROVE Times(<<g>>, f) = (IF g = f THEN 1 ELSE 0) /\ Len(<<g>>) = 1
  OBVIOUS
<1>1. Len(<<g>>) = 1 /\ <<g>>[1] = g
  OBVIOUS
<1> QED
  BY <1>1 DEF Times

\* A hand with one file more.
LEMMA TimesAppended ==
  ASSUME NEW S, NEW w \in Seq(S), Len(w) <= 1, NEW g \in S, NEW f
  PROVE  /\ Times(Append(w, g), f) = Times(w, f) + (IF g = f THEN 1 ELSE 0)
         /\ Len(Append(w, g)) \in 0 .. 2 /\ Len(Append(w, g)) = Len(w) + 1 /\ Append(w, g) \in Seq(S)
         /\ Append(w, g)[Len(w) + 1] = g /\ \A k \in 1 .. Len(w) : Append(w, g)[k] = w[k]
<1>1. Len(w) \in Nat
  OBVIOUS
<1>2. CASE Len(w) = 0
  BY <1>2 DEF Times
<1>3. CASE Len(w) = 1
  BY <1>3 DEF Times
<1>4. Len(w) = 0 \/ Len(w) = 1
  <2>1. \A n \in Nat : n <= 1 => n = 0 \/ n = 1
    OBVIOUS
  <2> QED
    BY <1>1, <2>1, Zenon
<1> QED
  BY <1>2, <1>3, <1>4

\* Whoever goes on closing files has as many references as before.
LEMMA ClosesHeld ==
  ASSUME NEW p, NEW F, IsFiniteSet(F), NEW r, NEW s, DOMAIN r.ofile = F, Closes(r, s), NEW f,
         f # None, Len(r.tmp) \in 0 .. 2
  PROVE  Held(p, s, F, f) = Held(p, r, F, f) /\ Len(s.tmp) \in 0 .. 2
<1>1. CASE s.tmp = r.tmp /\ s.ofile = r.ofile
  BY <1>1 DEF Held
<1>2. ASSUME r.tmp = <<>>, NEW d \in F, r.ofile[d] # None,
             s.tmp = <<r.ofile[d]>>, s.ofile = [r.ofile EXCEPT ![d] = None]
      PROVE  Held(p, s, F, f) = Held(p, r, F, f) /\ Len(s.tmp) \in 0 .. 2
  <2>1. Held(p, s, F, f) + (IF r.ofile[d] = f THEN 1 ELSE 0) + Times(r.tmp, f) =
          Held(p, r, F, f) + (IF s.ofile[d] = f THEN 1 ELSE 0) + Times(s.tmp, f)
    BY <1>2, HeldFd
  <2>2. Times(<<>>, f) = 0 /\ Times(<<r.ofile[d]>>, f) = (IF r.ofile[d] = f THEN 1 ELSE 0)
        /\ Len(<<r.ofile[d]>>) = 1
    BY TimesNone, TimesOne
  <2>3. Held(p, s, F, f) \in Nat /\ Held(p, r, F, f) \in Nat
    BY HeldType
  <2> QED
    BY <1>2, <2>1, <2>2, <2>3
<1> QED
  BY <1>1, <1>2 DEF Closes

\* The rest of the invariant, where the pipes do not change and nobody falls asleep.
LEMMA FileStep ==
  ASSUME IInv, UNCHANGED <<work, pipe>>, NEW p \in Procs, Alone(p), Local(proc'[p], work, DOMAIN text'),
         DOMAIN text \subseteq DOMAIN text', \A path \in DOMAIN text' : Sequence(text'[path]),
         DOMAIN file' = Files, \A f \in Files : FileType(file'[f], work, DOMAIN text'),
         Wakeful(proc'[p]), Kin(proc[p], proc'[p]),
         RefsRight', MineInv', EndInv', InsideInv'
  PROVE  IInv'
<1>1. WorkType /\ Types /\ PlaceInv /\ Others(p) /\ DOMAIN proc' = Procs
  BY AloneOthers DEF IInv, Types, Alone
<1>2. Types' /\ PlaceInv'
  <2>1. \A q \in Procs : Local(proc'[q], work, DOMAIN text')
    BY <1>1, LocalsStep
  <2>2. DOMAIN pipe' = Pipes /\ \A i \in Pipes : PipeType(pipe'[i])
    BY <1>1 DEF Types
  <2> QED
    BY <1>1, <2>1, <2>2, TypesStep
<1>3. SleepInv' /\ SleepersWait'
  <2>1. \A q \in Procs : /\ proc'[q].state # "SLEEPING" \/ Stays(proc[q], proc'[q])
                         /\ Wakeful(proc'[q]) \/ Stays(proc[q], proc'[q])
                         /\ Kin(proc[q], proc'[q])
    BY AloneKin DEF Wakeful
  <2> QED
    BY <1>1, <2>1, SleepStep DEF IInv
<1> QED
  BY <1>2, <1>3, CountStep DEF IInv

\* Nobody's end changes.
LEMMA SameEnds ==
  ASSUME IInv, UNCHANGED <<work, pipe>>, NEW p \in Procs, Alone(p),
         proc'[p].at \notin Reading \cup Writing,
         \A f \in Files, i \in Pipes, w \in BOOLEAN : Has(file'[f], i, w) <=> Has(file[f], i, w),
         \A i \in Pipes, w \in BOOLEAN : Has(proc'[p].ff, i, w) <=> Has(proc[p].ff, i, w)
  PROVE  EndInv' /\ InsideInv'
<1>1. OthersRefs(p)
  BY AloneOthers, TouchedRefs
<1>2. EndInv'
  <2>1. \A q \in Procs, i \in Pipes, w \in BOOLEAN : Has(proc'[q].ff, i, w) <=> Has(proc[q].ff, i, w)
    BY DEF Alone
  <2> QED
    BY <2>1, EndsStep DEF IInv
<1>3. InsideInv'
  BY <1>1, InsideStep DEF IInv
<1> QED
  BY <1>2, <1>3

\* The descriptors of a process and the files they lead to.
LEMMA DescriptorsOf ==
  ASSUME Types, NEW p \in Procs
  PROVE  /\ proc[p].ofile \in [Fds -> Files \cup {None}] /\ DOMAIN proc[p].ofile = Fds
         /\ IsFiniteSet(Fds) /\ None \notin Files /\ WorkType /\ DOMAIN file = Files
         /\ \A f \in Files : FileType(file[f], work, DOMAIN text) /\ file[f].ref \in Nat
  BY Tables DEF Types, ProcType, FileType, Fds, Files

\* One file is changed.
LEMMA OneFile ==
  ASSUME Types, DOMAIN text \subseteq DOMAIN text', NEW f \in Files, NEW g, FileType(g, work, DOMAIN text'),
         file' = [file EXCEPT ![f] = g]
  PROVE  /\ DOMAIN file' = Files /\ file'[f] = g /\ \A h \in Files \ {f} : file'[h] = file[h]
         /\ \A h \in Files : FileType(file'[h], work, DOMAIN text')
<1>1. DOMAIN file = Files /\ \A h \in Files : FileType(file[h], work, DOMAIN text)
  BY DEF Types
<1>2. DOMAIN file' = Files /\ file'[f] = g /\ \A h \in Files \ {f} : file'[h] = file[h]
  BY <1>1
<1>3. ASSUME NEW h \in Files PROVE FileType(file[h], work, DOMAIN text')
  BY <1>1 DEF FileType
<1> QED
  BY <1>2, <1>3

\* sys_dup preserves the invariant: one descriptor and one reference more.
LEMMA sys_dup_step ==
  ASSUME IInv, UNCHANGED work, NEW p \in Procs, sys_dup(p)
  PROVE  IInv'
<1>1. /\ proc[p].state = "RUNNABLE" /\ proc[p].at \notin Allocating \cup {"fileclose", "close_ff"}
  BY CallRuns DEF sys_dup
<1>2. Types /\ PlaceInv /\ RefsRight /\ MineInv
  BY DEF IInv
<1>3. UNCHANGED <<pipe, iref, text>> /\ proc[p].tmp = <<>> /\ proc[p].ff = NoFile
  BY <1>2, sys_dup_effect
<1>4. CASE Quietly(p) /\ UNCHANGED file
  BY <1>1, <1>2, <1>3, <1>4, TextSame, QuietStep
<1>5. ASSUME NEW d \in Fds, NEW e \in Fds, NEW f \in Files, f = proc[p].ofile[d], proc[p].ofile[e] = None,
             Alone(p), Local(proc'[p], work, DOMAIN text),
             Rested(proc[p], proc'[p], [proc[p].ofile EXCEPT ![e] = f]),
             file' = [file EXCEPT ![f].ref = @ + 1]
      PROVE  IInv'
  <2>1. /\ IsFiniteSet(Fds) /\ None \notin Files /\ WorkType /\ DOMAIN file = Files
        /\ \A h \in Files : FileType(file[h], work, DOMAIN text) /\ file[h].ref \in Nat
        /\ DOMAIN proc[p].ofile = Fds
    BY <1>2, DescriptorsOf
  <2>2. OthersRefs(p)
    BY <1>5, AloneOthers, TouchedRefs
  <2>3. /\ proc'[p].at = "user" /\ proc'[p].tmp = <<>> /\ proc'[p].ff = NoFile /\ proc'[p].cwd = proc[p].cwd
        /\ proc'[p].state = "RUNNABLE" /\ proc'[p].parent = proc[p].parent
        /\ proc'[p].ofile[e] = f /\ \A x \in Fds \ {e} : proc'[p].ofile[x] = proc[p].ofile[x]
    BY <1>1, <1>5, <2>1 DEF Rested, Returned
  <2> DEFINE g == [file[f] EXCEPT !.ref = @ + 1]
  <2>4. /\ g.ref = file[f].ref + 1 /\ g.type = file[f].type /\ g.pipe = file[f].pipe /\ g.writable = file[f].writable
        /\ FileType(g, work, DOMAIN text)
    <3>1. DOMAIN file[f] = FileFields
      BY <2>1, Fields DEF FileType
    <3>2. /\ g.ref = file[f].ref + 1 /\ DOMAIN g = FileFields /\ \A x \in FileFields \ {"ref"} : g[x] = file[f][x]
      BY <3>1 DEF FileFields
    <3> HIDE DEF g
    <3>3. /\ g.type = file[f].type /\ g.pipe = file[f].pipe /\ g.writable = file[f].writable
          /\ g.path = file[f].path /\ g.off = file[f].off
      BY <3>2 DEF FileFields
    <3>4. FileType(file[f], work, DOMAIN text) /\ DOMAIN NoFile = FileFields
      BY <2>1, Fields
    <3> QED
      BY <3>2, <3>3, <3>4 DEF FileType
  <2>5. file' = [file EXCEPT ![f] = g]
    BY <1>5
  <2> HIDE DEF g
  <2>6. /\ DOMAIN file' = Files /\ file'[f] = g /\ \A h \in Files \ {f} : file'[h] = file[h]
        /\ \A h \in Files : FileType(file'[h], work, DOMAIN text')
    BY <1>2, <1>3, <2>4, <2>5, OneFile
  <2>7. RefsRight'
    <3>1. ASSUME NEW h \in Files
          PROVE  /\ file'[h].ref \in Nat /\ (file'[h].ref = 0 => file'[h] = NoFile)
                 /\ file'[h].ref + Held(p, proc[p], Fds, h) = file[h].ref + Held(p, proc'[p], Fds, h)
                 /\ file'[h].type = file[h].type
      <4>1. Held(p, proc'[p], Fds, h) + (IF proc[p].ofile[e] = h THEN 1 ELSE 0) + Times(proc[p].tmp, h) =
              Held(p, proc[p], Fds, h) + (IF proc'[p].ofile[e] = h THEN 1 ELSE 0) + Times(proc'[p].tmp, h)
        BY <2>1, <2>3, HeldFd
      <4>2. Times(<<>>, h) = 0 /\ proc[p].ofile[e] # h
        BY <1>5, <2>1, TimesNone
      <4>3. Held(p, proc'[p], Fds, h) = Held(p, proc[p], Fds, h) + (IF f = h THEN 1 ELSE 0)
            /\ Held(p, proc'[p], Fds, h) \in Nat /\ Held(p, proc[p], Fds, h) \in Nat
        BY <1>3, <2>1, <2>3, <4>1, <4>2, HeldType
      <4>4. CASE h = f
        BY <2>1, <2>4, <2>6, <4>3, <4>4
      <4>5. CASE h # f
        BY <1>2, <2>1, <2>6, <4>3, <4>5 DEF RefsRight
      <4> QED
        BY <4>4, <4>5
    <3>2. iref' = iref + (One(proc'[p].cwd) + One(file'[f].type = "INODE") + One(proc'[p].ff.type = "INODE"))
                       - (One(proc[p].cwd) + One(file[f].type = "INODE") + One(proc[p].ff.type = "INODE"))
      <4>1. /\ Inodes(proc'[p], file'[f]) = Inodes(proc[p], file[f]) /\ Inodes(proc[p], file[f]) \in Nat
            /\ iref \in Nat /\ iref' = iref
        BY <1>2, <1>3, <2>3, <3>1, IrefNat, InodesNat DEF Inodes
      <4>2. iref' = iref + Inodes(proc'[p], file'[f]) - Inodes(proc[p], file[f])
        BY <4>1
      <4> QED
        BY <4>2 DEF Inodes
    <3>3. Len(proc[p].tmp) \in 0 .. 2 /\ Len(proc'[p].tmp) \in 0 .. 2
      BY <1>3, <2>3
    <3> QED
      BY <1>2, <2>1, <2>2, <3>1, <3>2, <3>3, RefsStep
  <2>8. MineInv'
    <3>1. HasFile(p, f)
      BY <1>5 DEF HasFile
    <3>2. proc'[p].at \notin Allocating
      BY <2>3 DEF Allocating
    <3> QED
      BY <1>2, <2>2, <2>6, <3>1, <3>2, MineStep
  <2>9. EndInv' /\ InsideInv'
    <3>1. \A h \in Files, i \in Pipes, w \in BOOLEAN : Has(file'[h], i, w) <=> Has(file[h], i, w)
      BY <2>4, <2>6 DEF Has
    <3>2. proc'[p].at \notin Reading \cup Writing
      BY <2>3 DEF Reading, Writing
    <3> QED
      BY <1>3, <1>5, <2>3, <3>1, <3>2, SameEnds
  <2>10. Wakeful(proc'[p]) /\ Kin(proc[p], proc'[p])
    BY <2>3 DEF Wakeful, Dozing, Kin
  <2> QED
    BY <1>2, <1>3, <1>5, <2>6, <2>7, <2>8, <2>9, <2>10, TextSame, FileStep
<1> QED
  BY <1>2, <1>4, <1>5, sys_dup_effect

\* The counts, where one file is changed.
LEMMA OneRefs ==
  ASSUME Types, RefsRight, UNCHANGED work, NEW p \in Procs, OthersRefs(p),
         Len(proc[p].tmp) \in 0 .. 2, Len(proc'[p].tmp) \in 0 .. 2,
         NEW f \in Files, \A h \in Files \ {f} : file'[h] = file[h],
         \A h \in Files \ {f} : Held(p, proc'[p], Fds, h) = Held(p, proc[p], Fds, h),
         file'[f].ref \in Nat, file'[f].ref = 0 => file'[f] = NoFile,
         file'[f].ref + Held(p, proc[p], Fds, f) = file[f].ref + Held(p, proc'[p], Fds, f),
         iref' = iref + Inodes(proc'[p], file'[f]) - Inodes(proc[p], file[f])
  PROVE  RefsRight'
<1>1. /\ IsFiniteSet(Fds) /\ WorkType /\ \A h \in Files : file[h].ref \in Nat
  BY DescriptorsOf
<1>2. ASSUME NEW h \in Files
      PROVE  /\ file'[h].ref \in Nat /\ (file'[h].ref = 0 => file'[h] = NoFile)
             /\ file'[h].ref + Held(p, proc[p], Fds, h) = file[h].ref + Held(p, proc'[p], Fds, h)
  <2>1. CASE h = f
    BY <2>1
  <2>2. CASE h # f
    BY <1>1, <2>2 DEF RefsRight
  <2> QED
    BY <2>1, <2>2
<1>3. iref' = iref + (One(proc'[p].cwd) + One(file'[f].type = "INODE") + One(proc'[p].ff.type = "INODE"))
                   - (One(proc[p].cwd) + One(file[f].type = "INODE") + One(proc[p].ff.type = "INODE"))
  BY DEF Inodes
<1>4. \A h \in Files \ {f} : file'[h].type = "INODE" <=> file[h].type = "INODE"
  OBVIOUS
<1> QED
  BY <1>1, <1>2, <1>3, <1>4, RefsStep

\* iref, where the number of references to plain files stays the same.
LEMMA SameInodes ==
  ASSUME Types, RefsRight, UNCHANGED iref, NEW p \in Procs, NEW f \in Files,
         Inodes(proc'[p], file'[f]) = Inodes(proc[p], file[f])
  PROVE  iref' = iref + Inodes(proc'[p], file'[f]) - Inodes(proc[p], file[f])
<1>1. iref \in Nat /\ Inodes(proc[p], file[f]) \in Nat
  BY IrefNat, InodesNat
<1> DEFINE a == Inodes(proc[p], file[f])
<1>2. iref' = iref + a - a
  <2> HIDE DEF a
  <2>1. a \in Nat
    BY <1>1 DEF a
  <2> QED
    BY <1>1, <2>1
<1> QED
  BY <1>2

\* A filealloc that succeeds preserves the invariant: the file was free, so nobody else has
\* it.
LEMMA AllocStep ==
  ASSUME IInv, UNCHANGED <<work, pipe, iref>>, NEW p \in Procs, NEW at \in Allocating, Allocated(p, at),
         proc[p].state = "RUNNABLE", (proc[p].at = "user" /\ proc[p].tmp = <<>>) \/ proc[p].at = "pipealloc",
         Local(proc'[p], work, DOMAIN text'),
         DOMAIN text \subseteq DOMAIN text', \A path \in DOMAIN text' : Sequence(text'[path])
  PROVE  IInv'
<1>1. Types /\ PlaceInv /\ RefsRight /\ MineInv
  BY DEF IInv
<1>2. PICK f \in Files : /\ file[f].ref = 0 /\ file' = [file EXCEPT ![f].ref = 1]
                         /\ proc'[p].tmp = Append(proc[p].tmp, f)
  BY DEF Allocated
<1>3. Alone(p) /\ Others(p) /\ OthersRefs(p)
  BY AloneOthers, TouchedRefs DEF Allocated
<1>4. /\ proc'[p].ofile = proc[p].ofile /\ proc'[p].ff = proc[p].ff /\ proc'[p].cwd = proc[p].cwd
      /\ proc'[p].state = "RUNNABLE" /\ proc'[p].parent = proc[p].parent /\ proc'[p].at = at
      /\ proc[p].ff = NoFile
  BY <1>1 DEF Allocated, Same, ProcFields, PlaceInv, Place
<1>5. proc[p].tmp \in Seq(Files) /\ Len(proc[p].tmp) \in Nat /\ Len(proc[p].tmp) <= 1
  <2>1. proc[p].tmp \in Seq(Files)
    BY <1>1 DEF Types, ProcType, Files
  <2>2. proc[p].tmp = <<>> \/ Len(proc[p].tmp) = 1
    BY <1>1 DEF PlaceInv, Place
  <2>3. CASE proc[p].tmp = <<>>
    BY <2>1, <2>3
  <2>4. CASE Len(proc[p].tmp) = 1
    BY <2>1, <2>4
  <2> QED
    BY <2>2, <2>3, <2>4
<1>6. /\ \A h : Times(proc'[p].tmp, h) = Times(proc[p].tmp, h) + (IF f = h THEN 1 ELSE 0)
      /\ Len(proc'[p].tmp) \in 0 .. 2 /\ Len(proc'[p].tmp) = Len(proc[p].tmp) + 1
      /\ proc'[p].tmp[Len(proc[p].tmp) + 1] = f /\ \A k \in 1 .. Len(proc[p].tmp) : proc'[p].tmp[k] = proc[p].tmp[k]
  BY <1>2, <1>5, TimesAppended
<1>7. Len(proc[p].tmp) \in 0 .. 2
  <2>1. \A n \in Nat : n <= 1 => n \in 0 .. 2
    OBVIOUS
  <2> QED
    BY <1>5, <2>1, Zenon
<1> DEFINE g == [file[f] EXCEPT !.ref = 1]
<1>8. /\ file[f].type = "NONE" /\ g.ref = 1 /\ g.type = "NONE" /\ FileType(g, work, DOMAIN text')
  <2>1. file[f] = NoFile
    BY <1>1, <1>2 DEF RefsRight
  <2>3. file[f].type = "NONE"
    <3>1. NoFile.type = "NONE"
      BY DEF NoFile
    <3> QED
      BY <2>1, <3>1
  <2>2. g = [NoFile EXCEPT !.ref = 1]
    BY <2>1
  <2> HIDE DEF g
  <2> QED
    BY <2>2, <2>3 DEF FileType, NoFile
<1>9. file' = [file EXCEPT ![f] = g]
  BY <1>2
<1> HIDE DEF g
<1>10. /\ DOMAIN file' = Files /\ file'[f] = g /\ \A h \in Files \ {f} : file'[h] = file[h]
       /\ \A h \in Files : FileType(file'[h], work, DOMAIN text')
  BY <1>1, <1>8, <1>9, OneFile
<1>11. RefsRight'
  <2>1. IsFiniteSet(Fds)
    BY <1>1, DescriptorsOf
  <2>2. ASSUME NEW h \in Files
        PROVE  Held(p, proc'[p], Fds, h) = Held(p, proc[p], Fds, h) + (IF f = h THEN 1 ELSE 0)
               /\ Held(p, proc[p], Fds, h) \in Nat
    <3>1. Held(p, proc'[p], Fds, h) + Times(proc[p].tmp, h) = Held(p, proc[p], Fds, h) + Times(proc'[p].tmp, h)
      BY <1>4, <2>1, HeldTmp
    <3>2. Held(p, proc'[p], Fds, h) \in Nat /\ Held(p, proc[p], Fds, h) \in Nat
      BY <2>1, HeldType
    <3>3. Times(proc[p].tmp, h) \in Nat
      BY DEF Times
    <3> QED
      BY <1>6, <3>1, <3>2, <3>3
  <2>3. Inodes(proc'[p], file'[f]) = Inodes(proc[p], file[f])
    BY <1>4, <1>8, <1>10 DEF Inodes
  <2>4. iref' = iref + Inodes(proc'[p], file'[f]) - Inodes(proc[p], file[f])
    BY <1>1, <2>3, SameInodes
  <2>5. /\ file'[f].ref \in Nat /\ (file'[f].ref = 0 => file'[f] = NoFile)
        /\ file'[f].ref + Held(p, proc[p], Fds, f) = file[f].ref + Held(p, proc'[p], Fds, f)
    BY <1>2, <1>8, <1>10, <2>2
  <2>6. \A h \in Files \ {f} : Held(p, proc'[p], Fds, h) = Held(p, proc[p], Fds, h)
    BY <2>2
  <2>7. /\ Len(proc'[p].tmp) \in 0 .. 2 /\ \A h \in Files \ {f} : file'[h] = file[h]
        /\ UNCHANGED work
    BY <1>6, <1>10
  <2> QED
    BY <1>1, <1>3, <1>7, <2>4, <2>5, <2>6, <2>7, OneRefs
<1>12. MineInv'
  <2>1. ASSUME NEW k \in 1 .. Len(proc'[p].tmp)
        PROVE  file'[proc'[p].tmp[k]].ref = 1 /\ file'[proc'[p].tmp[k]].type = "NONE"
    <3>1. CASE k = Len(proc[p].tmp) + 1
      BY <1>6, <1>8, <1>10, <3>1
    <3>2. CASE k \in 1 .. Len(proc[p].tmp)
      <4>1. proc[p].tmp # <<>>
        BY <3>2
      <4>2. proc[p].at \in Allocating
        BY <4>1 DEF Allocating
      <4>3. proc[p].tmp[k] \in Files /\ file[proc[p].tmp[k]].ref = 1 /\ file[proc[p].tmp[k]].type = "NONE"
        BY <1>1, <3>2, <4>2, NotMine
      <4>4. proc[p].tmp[k] # f
        BY <1>2, <4>3
      <4> QED
        BY <1>6, <1>10, <3>2, <4>3, <4>4
    <3> QED
      BY <1>5, <1>6, <3>1, <3>2
  <2>2. \A h \in Files : \/ file'[h].ref = file[h].ref /\ file'[h].type = file[h].type
                         \/ file[h].ref = 0
    BY <1>2, <1>10
  <2> QED
    BY <1>1, <1>3, <2>1, <2>2, MineStep
<1>13. EndInv' /\ InsideInv'
  <2>1. \A h \in Files, i \in Pipes, w \in BOOLEAN : Has(file'[h], i, w) <=> Has(file[h], i, w)
    BY <1>8, <1>10 DEF Has
  <2>2. proc'[p].at \notin Reading \cup Writing
    BY <1>4 DEF Reading, Writing, Allocating
  <2> QED
    BY <1>3, <1>4, <2>1, <2>2, SameEnds
<1>14. Wakeful(proc'[p]) /\ Kin(proc[p], proc'[p])
  BY <1>4 DEF Wakeful, Dozing, Kin, Allocating
<1> QED
  BY <1>3, <1>10, <1>11, <1>12, <1>13, <1>14, FileStep

\* A pipealloc that gives up preserves the invariant.
LEMMA GivesUpStep ==
  ASSUME IInv, UNCHANGED <<work, file, pipe, iref, text>>, NEW p \in Procs, GivesUp(p),
         proc[p].state = "RUNNABLE", Len(proc[p].tmp) \in 0 .. 2, Local(proc'[p], work, DOMAIN text)
  PROVE  IInv'
<1>1. Others(p) /\ OthersRefs(p)
  BY AloneOthers, TouchedRefs DEF GivesUp
<1>2. /\ proc'[p].ofile = proc[p].ofile /\ proc'[p].ff = proc[p].ff /\ proc'[p].cwd = proc[p].cwd
      /\ proc'[p].tmp = proc[p].tmp
      /\ proc'[p].state = "RUNNABLE" /\ proc'[p].parent = proc[p].parent /\ proc'[p].at = "fileclose"
  BY DEF GivesUp, Same, ProcFields
<1>3. Steady(p) /\ Wakeful(proc'[p]) /\ Kin(proc[p], proc'[p])
  BY <1>1, <1>2 DEF Steady, Wakeful, Kin, Dozing, Allocating, Reading, Writing
<1>4. \A q \in Procs \ {p} : Stays(proc[q], proc'[q]) /\ Kin(proc[q], proc'[q])
  BY AloneKin DEF GivesUp
<1> QED
  BY <1>1, <1>3, <1>4, TextSame, FileSame, CalmStep DEF IInv

\* sys_open's first part preserves the invariant.
LEMMA sys_open_step ==
  ASSUME IInv, UNCHANGED work, NEW p \in Procs, sys_open(p)
  PROVE  IInv'
<1>1. /\ proc[p].state = "RUNNABLE" /\ proc[p].at \notin Allocating \cup {"fileclose", "close_ff"}
  BY CallRuns DEF sys_open
<1>2. /\ UNCHANGED <<pipe, iref>> /\ proc[p].at = "user" /\ proc[p].tmp = <<>>
      /\ DOMAIN text \subseteq DOMAIN text' /\ \A path \in DOMAIN text' : Sequence(text'[path])
      /\ Local(proc'[p], work, DOMAIN text')
      /\ \/ Quietly(p) /\ UNCHANGED file
         \/ Allocated(p, "open")
  BY sys_open_effect DEF IInv
<1>3. CASE Quietly(p) /\ UNCHANGED file
  BY <1>1, <1>2, <1>3, QuietStep
<1>4. CASE Allocated(p, "open")
  <2>1. "open" \in Allocating
    BY DEF Allocating
  <2> QED
    BY <1>1, <1>2, <1>4, <2>1, AllocStep
<1> QED
  BY <1>2, <1>3, <1>4

\* sys_pipe's first part preserves the invariant.
LEMMA sys_pipe_step ==
  ASSUME IInv, UNCHANGED work, NEW p \in Procs, sys_pipe(p)
  PROVE  IInv'
<1>1. /\ proc[p].state = "RUNNABLE" /\ proc[p].at \notin Allocating \cup {"fileclose", "close_ff"}
  BY CallRuns DEF sys_pipe
<1>2. /\ UNCHANGED <<pipe, iref, text>> /\ proc[p].at = "user" /\ proc[p].tmp = <<>>
      /\ Local(proc'[p], work, DOMAIN text')
      /\ \/ Quietly(p) /\ UNCHANGED file
         \/ Allocated(p, "pipealloc")
  BY sys_pipe_effect DEF IInv
<1>3. CASE Quietly(p) /\ UNCHANGED file
  BY <1>1, <1>2, <1>3, TextSame, QuietStep DEF IInv
<1>4. CASE Allocated(p, "pipealloc")
  <2>1. "pipealloc" \in Allocating
    BY DEF Allocating
  <2> QED
    BY <1>1, <1>2, <1>4, <2>1, TextSame, AllocStep DEF IInv
<1> QED
  BY <1>2, <1>3, <1>4

\* pipealloc's second file preserves the invariant.
LEMMA pipealloc_step ==
  ASSUME IInv, UNCHANGED work, NEW p \in Procs, pipealloc(p)
  PROVE  IInv'
<1>1. proc[p].state = "RUNNABLE"
  BY DEF pipealloc, At
<1>2. /\ UNCHANGED <<pipe, iref, text>> /\ proc[p].at = "pipealloc" /\ Len(proc[p].tmp) = 1
      /\ Local(proc'[p], work, DOMAIN text')
      /\ \/ GivesUp(p) /\ UNCHANGED file
         \/ Allocated(p, "pipealloc_page")
  BY pipealloc_effect DEF IInv
<1>3. CASE GivesUp(p) /\ UNCHANGED file
  BY <1>1, <1>2, <1>3, GivesUpStep
<1>4. CASE Allocated(p, "pipealloc_page")
  <2>1. "pipealloc_page" \in Allocating
    BY DEF Allocating
  <2> QED
    BY <1>1, <1>2, <1>4, <2>1, TextSame, AllocStep DEF IInv
<1> QED
  BY <1>2, <1>3, <1>4

\* open gives its file a descriptor, or gives it back.
LEMMA sys_open_fd_step ==
  ASSUME IInv, UNCHANGED work, NEW p \in Procs, sys_open_fd(p)
  PROVE  IInv'
<1>1. Types /\ PlaceInv /\ RefsRight /\ MineInv /\ proc[p].state = "RUNNABLE"
  BY DEF IInv, sys_open_fd, At
<1>2. PICK f \in Files : f = proc[p].tmp[1] /\
        /\ UNCHANGED <<pipe, text>> /\ Alone(p) /\ Local(proc'[p], work, DOMAIN text)
        /\ proc[p].at = "open" /\ Len(proc[p].tmp) = 1 /\ proc[p].ff = NoFile
        /\ \/ /\ Rested(proc[p], proc'[p], proc[p].ofile)
              /\ file' = [file EXCEPT ![f] = NoFile] /\ UNCHANGED iref
           \/ \E d \in Fds : \E g :
                /\ proc[p].ofile[d] = None
                /\ Rested(proc[p], proc'[p], [proc[p].ofile EXCEPT ![d] = f])
                /\ g.type = "INODE" /\ g.ref = file[f].ref /\ FileType(g, work, DOMAIN text)
                /\ file' = [file EXCEPT ![f] = g] /\ iref' = iref + 1
  BY <1>1, sys_open_fd_effect
<1>3. file[f].ref = 1 /\ file[f].type = "NONE" /\ proc[p].at \in Allocating
  <2>1. proc[p].at \in Allocating /\ 1 \in 1 .. Len(proc[p].tmp)
    BY <1>2 DEF Allocating
  <2> QED
    BY <1>1, <1>2, <2>1, NotMine
<1>4. /\ IsFiniteSet(Fds) /\ None \notin Files /\ WorkType /\ DOMAIN file = Files /\ DOMAIN proc[p].ofile = Fds
  BY <1>1, DescriptorsOf
<1>5. OthersRefs(p) /\ HasFile(p, f)
  <2>1. HasFile(p, f)
    <3>1. 1 \in 1 .. 2 /\ 1 <= Len(proc[p].tmp)
      BY <1>2
    <3> QED
      BY <1>2, <3>1 DEF HasFile
  <2> QED
    BY <1>2, <2>1, AloneOthers, TouchedRefs
<1>6. \A h : Times(proc[p].tmp, h) = (IF f = h THEN 1 ELSE 0) /\ Times(<<>>, h) = 0
  BY <1>2, TimesNone DEF Times
<1>7. ASSUME NEW g, file' = [file EXCEPT ![f] = g], FileType(g, work, DOMAIN text), g.type # "PIPE",
             g.ref = 0 => g = NoFile, NEW o, Rested(proc[p], proc'[p], o), RefsRight'
      PROVE  IInv'
  <2>1. /\ DOMAIN file' = Files /\ file'[f] = g /\ \A h \in Files \ {f} : file'[h] = file[h]
        /\ \A h \in Files : FileType(file'[h], work, DOMAIN text')
    BY <1>1, <1>2, <1>7, OneFile
  <2>2. /\ proc'[p].at = "user" /\ proc'[p].ff = NoFile /\ proc'[p].state = "RUNNABLE"
        /\ proc'[p].parent = proc[p].parent
    BY <1>1, <1>7 DEF Rested, Returned
  <2>3. MineInv'
    <3>1. proc'[p].at \notin Allocating
      BY <2>2 DEF Allocating
    <3> QED
      BY <1>1, <1>5, <2>1, <3>1, MineStep
  <2>4. EndInv' /\ InsideInv'
    <3>1. \A h \in Files, i \in Pipes, w \in BOOLEAN : Has(file'[h], i, w) <=> Has(file[h], i, w)
      BY <1>3, <1>7, <2>1 DEF Has
    <3>2. proc'[p].at \notin Reading \cup Writing
      BY <2>2 DEF Reading, Writing
    <3> QED
      BY <1>2, <2>2, <3>1, <3>2, SameEnds
  <2>5. Wakeful(proc'[p]) /\ Kin(proc[p], proc'[p])
    BY <2>2 DEF Wakeful, Dozing, Kin
  <2> QED
    BY <1>1, <1>2, <1>7, <2>1, <2>3, <2>4, <2>5, TextSame, FileStep
<1>8. ASSUME Rested(proc[p], proc'[p], proc[p].ofile), file' = [file EXCEPT ![f] = NoFile], UNCHANGED iref
      PROVE  IInv'
  <2>1. /\ proc'[p].tmp = <<>> /\ proc'[p].ofile = proc[p].ofile /\ proc'[p].ff = NoFile
        /\ proc'[p].cwd = proc[p].cwd
    BY <1>8 DEF Rested, Returned
  <2>2. ASSUME NEW h \in Files
        PROVE  /\ Held(p, proc[p], Fds, h) = Held(p, proc'[p], Fds, h) + (IF f = h THEN 1 ELSE 0)
               /\ Held(p, proc'[p], Fds, h) \in Nat
    <3>1. Held(p, proc'[p], Fds, h) + Times(proc[p].tmp, h) = Held(p, proc[p], Fds, h) + Times(proc'[p].tmp, h)
      BY <1>4, <2>1, HeldTmp
    <3>2. Held(p, proc'[p], Fds, h) \in Nat /\ Held(p, proc[p], Fds, h) \in Nat
      BY <1>4, HeldType
    <3> QED
      BY <1>6, <2>1, <3>1, <3>2
  <2>3. /\ FileType(NoFile, work, DOMAIN text) /\ NoFile.type = "NONE" /\ NoFile.ref = 0
        /\ file'[f] = NoFile /\ \A h \in Files \ {f} : file'[h] = file[h]
    BY <1>4, <1>8, Fields DEF NoFile
  <2>4. Inodes(proc'[p], file'[f]) = Inodes(proc[p], file[f])
    BY <1>2, <1>3, <2>1, <2>3 DEF Inodes
  <2>5. iref' = iref + Inodes(proc'[p], file'[f]) - Inodes(proc[p], file[f])
    BY <1>1, <1>8, <2>4, SameInodes
  <2>6. RefsRight'
    <3>1. /\ file'[f].ref \in Nat /\ (file'[f].ref = 0 => file'[f] = NoFile)
          /\ file'[f].ref + Held(p, proc[p], Fds, f) = file[f].ref + Held(p, proc'[p], Fds, f)
          /\ \A h \in Files \ {f} : Held(p, proc'[p], Fds, h) = Held(p, proc[p], Fds, h)
      BY <1>3, <2>2, <2>3
    <3>2. Len(proc[p].tmp) \in 0 .. 2 /\ Len(proc'[p].tmp) \in 0 .. 2
      BY <1>2, <2>1
    <3> QED
      BY <1>1, <1>5, <2>3, <2>5, <3>1, <3>2, OneRefs
  <2>7. NoFile.type # "PIPE"
    BY <2>3
  <2> QED
    BY <1>7, <1>8, <2>3, <2>6, <2>7
<1>9. ASSUME NEW d \in Fds, NEW g, proc[p].ofile[d] = None,
             Rested(proc[p], proc'[p], [proc[p].ofile EXCEPT ![d] = f]),
             g.type = "INODE", g.ref = file[f].ref, FileType(g, work, DOMAIN text),
             file' = [file EXCEPT ![f] = g], iref' = iref + 1
      PROVE  IInv'
  <2>1. /\ proc'[p].tmp = <<>> /\ proc'[p].ff = NoFile /\ proc'[p].cwd = proc[p].cwd
        /\ proc'[p].ofile[d] = f /\ \A x \in Fds \ {d} : proc'[p].ofile[x] = proc[p].ofile[x]
    BY <1>4, <1>9 DEF Rested, Returned
  <2>2. ASSUME NEW h \in Files
        PROVE  /\ Held(p, proc'[p], Fds, h) = Held(p, proc[p], Fds, h)
               /\ Held(p, proc'[p], Fds, h) \in Nat
    <3>1. Held(p, proc'[p], Fds, h) + (IF proc[p].ofile[d] = h THEN 1 ELSE 0) + Times(proc[p].tmp, h) =
            Held(p, proc[p], Fds, h) + (IF proc'[p].ofile[d] = h THEN 1 ELSE 0) + Times(proc'[p].tmp, h)
      BY <1>4, <2>1, HeldFd
    <3>2. Held(p, proc'[p], Fds, h) \in Nat /\ Held(p, proc[p], Fds, h) \in Nat
      BY <1>4, HeldType
    <3>3. proc[p].ofile[d] # h
      BY <1>4, <1>9
    <3> QED
      BY <1>6, <2>1, <3>1, <3>2, <3>3
  <2>3. file'[f] = g /\ \A h \in Files \ {f} : file'[h] = file[h]
    BY <1>4, <1>9
  <2>4. iref' = iref + Inodes(proc'[p], file'[f]) - Inodes(proc[p], file[f])
    <3>1. /\ One(file'[f].type = "INODE") = 1 /\ One(file[f].type = "INODE") = 0
          /\ proc'[p].ff.type = proc[p].ff.type
      BY <1>2, <1>3, <1>9, <2>1, <2>3 DEF One
    <3> DEFINE a == One(proc[p].cwd)  b == One(proc[p].ff.type = "INODE")
    <3>2. Inodes(proc'[p], file'[f]) = a + 1 + b /\ Inodes(proc[p], file[f]) = a + 0 + b
      BY <2>1, <3>1 DEF Inodes
    <3>3. a \in Nat /\ b \in Nat /\ iref \in Nat
      BY <1>1, IrefNat DEF One
    <3> HIDE DEF a, b
    <3> QED
      BY <1>9, <3>2, <3>3
  <2>5. RefsRight'
    <3>1. /\ file'[f].ref \in Nat /\ (file'[f].ref = 0 => file'[f] = NoFile)
          /\ file'[f].ref + Held(p, proc[p], Fds, f) = file[f].ref + Held(p, proc'[p], Fds, f)
          /\ \A h \in Files \ {f} : Held(p, proc'[p], Fds, h) = Held(p, proc[p], Fds, h)
      BY <1>3, <1>9, <2>2, <2>3
    <3>2. Len(proc[p].tmp) \in 0 .. 2 /\ Len(proc'[p].tmp) \in 0 .. 2
      BY <1>2, <2>1
    <3> QED
      BY <1>1, <1>5, <2>3, <2>4, <3>1, <3>2, OneRefs
  <2>6. g.type # "PIPE" /\ (g.ref = 0 => g = NoFile)
    BY <1>3, <1>9
  <2> DEFINE o == [proc[p].ofile EXCEPT ![d] = f]
  <2>7. Rested(proc[p], proc'[p], o)
    BY <1>9
  <2> HIDE DEF o
  <2> QED
    BY <1>7, <1>9, <2>5, <2>6, <2>7
<1> QED
  BY <1>2, <1>8, <1>9

\* With the last reference an end goes from the file to the copy that is closed.
LEMMA EndsMoved ==
  ASSUME Types, EndInv, UNCHANGED <<work, pipe>>, NEW p \in Procs, NEW f \in Files, Alone(p),
         \A h \in Files \ {f} : file'[h] = file[h], file'[f].type = "NONE",
         proc[p].ff.type = "NONE", proc'[p].ff = file[f]
  PROVE  EndInv'
<1>1. Procs' = Procs /\ Files' = Files /\ Pipes' = Pipes
  BY DEF Procs, Files, Pipes
<1>2. ASSUME NEW i \in Pipes, NEW w \in BOOLEAN
      PROVE  /\ Ends(i, w)' # {} <=> Ends(i, w) # {}
             /\ \A x, y : x \in Ends(i, w)' /\ y \in Ends(i, w)' => x = y
  <2>1. \A x, y : x \in Ends(i, w) /\ y \in Ends(i, w) => x = y
    BY DEF EndInv
  <2>2. \A x : x \in Ends(i, w)' <=>
                 \/ \E h \in Files : x = <<"file", h>> /\ Has(file'[h], i, w)
                 \/ \E q \in Procs : x = <<"proc", q>> /\ Has(proc'[q].ff, i, w)
    BY <1>1 DEF Ends, Has
  <2>3. \A q \in Procs \ {p} : proc'[q].ff = proc[q].ff
    BY DEF Alone
  <2>4. ~ Has(file'[f], i, w) /\ ~ Has(proc[p].ff, i, w) /\ (Has(proc'[p].ff, i, w) <=> Has(file[f], i, w))
    BY DEF Has
  <2>5. CASE Has(file[f], i, w)
    <3>1. <<"file", f>> \in Ends(i, w)
      BY <2>5, InEnds
    <3>2. \A h \in Files \ {f} : ~ Has(file[h], i, w)
      <4>1. ASSUME NEW h \in Files \ {f}, Has(file[h], i, w) PROVE FALSE
        <5>1. <<"file", h>> \in Ends(i, w)
          BY <4>1, InEnds
        <5>2. <<"file", h>> = <<"file", f>>
          BY <2>1, <3>1, <5>1
        <5> QED
          BY <5>2
      <4> QED
        BY <4>1
    <3>3. \A q \in Procs : ~ Has(proc[q].ff, i, w)
      <4>1. ASSUME NEW q \in Procs, Has(proc[q].ff, i, w) PROVE FALSE
        <5>1. <<"proc", q>> \in Ends(i, w)
          BY <4>1, InEnds
        <5>2. <<"proc", q>> = <<"file", f>>
          BY <2>1, <3>1, <5>1
        <5> QED
          BY <5>2
      <4> QED
        BY <4>1
    <3>4. \A x : x \in Ends(i, w)' <=> x = <<"proc", p>>
      BY <2>2, <2>3, <2>4, <2>5, <3>2, <3>3
    <3>5. <<"proc", p>> \in Ends(i, w)'
      BY <3>4
    <3>6. Ends(i, w) # {} /\ Ends(i, w)' # {}
      BY <3>1, <3>5
    <3>7. ASSUME NEW x, NEW y, x \in Ends(i, w)', y \in Ends(i, w)' PROVE x = y
      <4>1. x = <<"proc", p>> /\ y = <<"proc", p>>
        BY <3>4, <3>7
      <4> QED
        BY <4>1
    <3> QED
      BY <3>6, <3>7
  <2>6. CASE ~ Has(file[f], i, w)
    <3>1. \A x : x \in Ends(i, w)' <=> x \in Ends(i, w)
      BY <2>2, <2>3, <2>4, <2>6, InEnds
    <3> QED
      BY <2>1, <3>1
  <2> QED
    BY <2>5, <2>6
<1> SUFFICES ASSUME NEW i \in Pipes
             PROVE  /\ \A w \in BOOLEAN : \A x, y \in Ends(i, w)' : x = y
                    /\ pipe'[i].readopen <=> Ends(i, FALSE)' # {}
                    /\ pipe'[i].writeopen <=> Ends(i, TRUE)' # {}
                    /\ pipe'[i].used <=> Ends(i, TRUE)' \cup Ends(i, FALSE)' # {}
  BY <1>1 DEF EndInv
<1>3. ASSUME NEW w \in BOOLEAN PROVE \A x, y \in Ends(i, w)' : x = y
  BY <1>2
<1>4. (Ends(i, TRUE)' # {} <=> Ends(i, TRUE) # {}) /\ (Ends(i, FALSE)' # {} <=> Ends(i, FALSE) # {})
  BY <1>2
<1>5. /\ pipe[i].readopen <=> Ends(i, FALSE) # {}
      /\ pipe[i].writeopen <=> Ends(i, TRUE) # {}
      /\ pipe[i].used <=> Ends(i, TRUE) \cup Ends(i, FALSE) # {}
  BY DEF EndInv
<1> QED
  BY <1>3, <1>4, <1>5

\* fileclose preserves the invariant: the last reference moves the end into ff, any other
\* leaves it.
LEMMA fileclose_step ==
  ASSUME IInv, UNCHANGED work, NEW p \in Procs, fileclose(p)
  PROVE  IInv'
<1>1. Types /\ PlaceInv /\ RefsRight /\ MineInv /\ EndInv /\ proc[p].state = "RUNNABLE" /\ proc[p].at = "fileclose"
  BY DEF IInv, fileclose, At
<1>2. Len(proc[p].tmp) \in 1 .. 2 /\ proc[p].tmp \in Seq(Files)
  BY <1>1 DEF PlaceInv, Place, Types, ProcType, Files
<1>3. proc[p].tmp[1] \in Files /\ 1 <= Len(proc[p].tmp) /\ Len(proc[p].tmp) \in 0 .. 2
  <2>1. CASE Len(proc[p].tmp) = 1
    BY <1>2, <2>1
  <2>2. CASE Len(proc[p].tmp) = 2
    BY <1>2, <2>2
  <2> QED
    BY <1>2, <2>1, <2>2
<1>4. InHand(proc[p].tmp[1]) # {} /\ file[proc[p].tmp[1]].ref >= 1
  <2>1. <<p, 1>> \in InHand(proc[p].tmp[1])
    BY <1>3, InInHand
  <2>2. WorkType
    BY <1>1 DEF Types
  <2> QED
    BY <1>1, <1>3, <2>1, <2>2, Referred
<1>5. PICK f \in Files : f = proc[p].tmp[1] /\
         /\ UNCHANGED <<pipe, iref, text>> /\ Alone(p) /\ Local(proc'[p], work, DOMAIN text)
         /\ proc[p].ff = NoFile /\ proc[p].cwd = TRUE
         /\ \A g \in Files : FileType(file'[g], work, DOMAIN text)
         /\ file' = [file EXCEPT ![f] = IF LastRef(f) THEN NoFile ELSE [file[f] EXCEPT !.ref = @ - 1]]
         /\ IF LastRef(f) /\ file[f].type # "NONE"
            THEN /\ Same(proc[p], proc'[p], {"tmp", "ff", "at"}) /\ proc'[p].tmp = Tail(proc[p].tmp)
                 /\ proc'[p].ff = file[f] /\ proc'[p].at = "close_ff"
            ELSE Closes([proc[p] EXCEPT !.tmp = Tail(@)], proc'[p])
  <2>1. file[proc[p].tmp[1]].ref # 0
    <3>1. file[proc[p].tmp[1]].ref \in Nat
      BY <1>1, <1>3, DescriptorsOf
    <3> QED
      BY <1>4, <3>1
  <2> QED
    BY <1>1, <1>3, <2>1, fileclose_effect
<1>6. /\ IsFiniteSet(Fds) /\ None \notin Files /\ WorkType /\ DOMAIN file = Files /\ DOMAIN proc[p].ofile = Fds
      /\ FileType(file[f], work, DOMAIN text) /\ file[f].ref \in Nat /\ file[f].ref >= 1 /\ DOMAIN proc[p] = ProcFields
  BY <1>1, <1>4, <1>5, DescriptorsOf DEF Types, ProcType
<1> DEFINE t == [proc[p] EXCEPT !.tmp = Tail(@)]
<1>7. /\ t.tmp = Tail(proc[p].tmp) /\ t.ofile = proc[p].ofile /\ t.state = proc[p].state /\ t.parent = proc[p].parent
      /\ t.cwd = proc[p].cwd
  BY <1>6 DEF ProcFields
<1>8. /\ Len(t.tmp) \in 0 .. 2
      /\ \A h : Times(proc[p].tmp, h) = Times(t.tmp, h) + (IF f = h THEN 1 ELSE 0)
  BY <1>2, <1>5, <1>7, OneLess
<1>9. IF LastRef(f) /\ file[f].type # "NONE"
      THEN /\ Same(proc[p], proc'[p], {"tmp", "ff", "at"}) /\ proc'[p].tmp = t.tmp
           /\ proc'[p].ff = file[f] /\ proc'[p].at = "close_ff"
      ELSE Closes(t, proc'[p])
  BY <1>5, <1>7
<1> HIDE DEF t
<1>10. /\ proc'[p].cwd = proc[p].cwd /\ proc'[p].state = "RUNNABLE" /\ proc'[p].parent = proc[p].parent
       /\ proc'[p].at \in {"close_ff", "fileclose", "user", "exit"}
       /\ Len(proc'[p].tmp) \in 0 .. 2
       /\ \A h \in Files : Held(p, proc'[p], Fds, h) = Held(p, t, Fds, h)
  <2>1. CASE LastRef(f) /\ file[f].type # "NONE"
    <3>1. /\ proc'[p].ofile = t.ofile /\ proc'[p].tmp = t.tmp
          /\ proc'[p].cwd = proc[p].cwd /\ proc'[p].state = "RUNNABLE" /\ proc'[p].parent = proc[p].parent
      BY <1>1, <1>7, <1>9, <2>1 DEF Same, ProcFields
    <3> QED
      BY <1>8, <1>9, <2>1, <3>1 DEF Held
  <2>2. CASE ~ (LastRef(f) /\ file[f].type # "NONE")
    <3>1. Closes(t, proc'[p])
      BY <1>9, <2>2
    <3>2. ASSUME NEW h \in Files
          PROVE  Held(p, proc'[p], Fds, h) = Held(p, t, Fds, h) /\ Len(proc'[p].tmp) \in 0 .. 2
      <4>1. h # None /\ DOMAIN t.ofile = Fds
        BY <1>6, <1>7
      <4> QED
        BY <1>6, <1>8, <3>1, <4>1, ClosesHeld
    <3> QED
      BY <1>1, <1>5, <1>7, <3>1, <3>2 DEF Closes
  <2> QED
    BY <2>1, <2>2
<1>11. ASSUME NEW h \in Files
       PROVE  /\ Held(p, proc[p], Fds, h) = Held(p, proc'[p], Fds, h) + (IF f = h THEN 1 ELSE 0)
              /\ Held(p, proc'[p], Fds, h) \in Nat
  <2>1. Held(p, t, Fds, h) + Times(proc[p].tmp, h) = Held(p, proc[p], Fds, h) + Times(t.tmp, h)
    BY <1>6, <1>7, HeldTmp
  <2>2. Held(p, t, Fds, h) \in Nat /\ Held(p, proc[p], Fds, h) \in Nat
    BY <1>6, HeldType
  <2>3. Times(t.tmp, h) \in Nat
    BY DEF Times
  <2> QED
    BY <1>8, <1>10, <2>1, <2>2, <2>3
<1>12. /\ DOMAIN file' = Files /\ \A h \in Files \ {f} : file'[h] = file[h]
       /\ LastRef(f) => file'[f] = NoFile /\ file'[f].type = "NONE" /\ file'[f].ref = 0 /\ file[f].ref = 1
       /\ ~ LastRef(f) => /\ file'[f].ref = file[f].ref - 1 /\ file[f].ref # 1
                          /\ file'[f].type = file[f].type
                          /\ file'[f].pipe = file[f].pipe /\ file'[f].writable = file[f].writable
  <2>1. NoFile.type = "NONE" /\ NoFile.ref = 0
    BY DEF NoFile
  <2>2. DOMAIN file[f] = FileFields
    BY <1>6, Fields DEF FileType
  <2>3. /\ DOMAIN file' = Files /\ \A h \in Files \ {f} : file'[h] = file[h]
        /\ file'[f] = IF LastRef(f) THEN NoFile ELSE [file[f] EXCEPT !.ref = @ - 1]
    BY <1>5, <1>6
  <2> QED
    BY <2>1, <2>2, <2>3 DEF LastRef, FileFields
<1>13. OthersRefs(p) /\ HasFile(p, f)
  <2>1. HasFile(p, f)
    BY <1>3, <1>5 DEF HasFile
  <2> QED
    BY <1>5, <2>1, AloneOthers, TouchedRefs
<1>14. RefsRight'
  <2>1. Inodes(proc'[p], file'[f]) = Inodes(proc[p], file[f])
    <3>1. NoFile.type = "NONE"
      BY DEF NoFile
    <3>2. CASE LastRef(f) /\ file[f].type # "NONE"
      BY <1>5, <1>9, <1>10, <1>12, <3>1, <3>2 DEF Inodes, One
    <3>3. CASE ~ (LastRef(f) /\ file[f].type # "NONE")
      <4>1. proc'[p].ff = NoFile /\ file'[f].type = file[f].type
        BY <1>9, <1>12, <3>3 DEF Closes
      <4> QED
        BY <1>5, <1>10, <4>1 DEF Inodes
    <3> QED
      BY <3>2, <3>3
  <2>2. iref' = iref + Inodes(proc'[p], file'[f]) - Inodes(proc[p], file[f])
    BY <1>1, <1>5, <2>1, SameInodes
  <2>3. /\ file'[f].ref \in Nat /\ (file'[f].ref = 0 => file'[f] = NoFile)
        /\ file'[f].ref + Held(p, proc[p], Fds, f) = file[f].ref + Held(p, proc'[p], Fds, f)
        /\ \A h \in Files \ {f} : Held(p, proc'[p], Fds, h) = Held(p, proc[p], Fds, h)
    BY <1>6, <1>11, <1>12
  <2>4. \A h \in Files \ {f} : file'[h] = file[h]
    BY <1>12
  <2> QED
    BY <1>1, <1>3, <1>10, <1>13, <2>2, <2>3, <2>4, OneRefs
<1>15. MineInv'
  <2>1. proc'[p].at \notin Allocating
    BY <1>10 DEF Allocating
  <2> QED
    BY <1>1, <1>12, <1>13, <2>1, MineStep
<1>16. EndInv' /\ InsideInv'
  <2>1. proc'[p].at \notin Reading \cup Writing
    BY <1>10 DEF Reading, Writing
  <2>2. NoFile.type = "NONE"
    BY DEF NoFile
  <2>3. CASE LastRef(f) /\ file[f].type # "NONE"
    <3>1. EndInv'
      BY <1>1, <1>5, <1>9, <1>12, <2>2, <2>3, EndsMoved
    <3>2. Descriptors(f) = {}
      BY <1>1, <1>4, <1>5, <1>6, <1>12, <2>3, Referred
    <3>3. \A h \in Files, i \in Pipes, w \in BOOLEAN : Descriptors(h) # {} /\ Has(file[h], i, w) => Has(file'[h], i, w)
      BY <1>12, <3>2
    <3> QED
      BY <1>1, <1>13, <2>1, <3>1, <3>3, InsideStep DEF IInv
  <2>4. CASE ~ (LastRef(f) /\ file[f].type # "NONE")
    <3>1. proc'[p].ff = proc[p].ff
      BY <1>5, <1>9, <2>4 DEF Closes
    <3>2. \A h \in Files, i \in Pipes, w \in BOOLEAN : Has(file'[h], i, w) <=> Has(file[h], i, w)
      BY <1>12, <2>4 DEF Has
    <3> QED
      BY <1>5, <2>1, <3>1, <3>2, SameEnds
  <2> QED
    BY <2>3, <2>4
<1>17. Wakeful(proc'[p]) /\ Kin(proc[p], proc'[p])
  BY <1>10 DEF Wakeful, Dozing, Kin
<1> QED
  BY <1>1, <1>5, <1>12, <1>14, <1>15, <1>16, <1>17, TextSame, FileStep

\* The counts, where no file is changed.  Without a descriptor there is only a cwd and the
\* copy that is closed.
Rest(r) == One(r.cwd) + One(r.ff.type = "INODE")

\* The counts stay right when no file changes, nor what p holds of any.
LEMMA FixedRefs ==
  ASSUME Types, RefsRight, UNCHANGED <<work, file>>, NEW p \in Procs, OthersRefs(p),
         Len(proc[p].tmp) \in 0 .. 2, Len(proc'[p].tmp) \in 0 .. 2,
         \A h \in Files : Held(p, proc'[p], Fds, h) = Held(p, proc[p], Fds, h),
         iref' = iref + Rest(proc'[p]) - Rest(proc[p])
  PROVE  RefsRight'
<1>1. PICK f \in Files : TRUE
  BY DescriptorsOf, Tables
<1>2. file[f].ref \in Nat /\ IsFiniteSet(Fds)
  BY DescriptorsOf
<1>3. Held(p, proc[p], Fds, f) \in Nat /\ Held(p, proc'[p], Fds, f) = Held(p, proc[p], Fds, f)
  BY <1>2, HeldType
<1>4. iref' = iref + Inodes(proc'[p], file'[f]) - Inodes(proc[p], file[f])
  <2> DEFINE a == One(proc[p].cwd)  b == One(proc[p].ff.type = "INODE")
             c == One(proc'[p].cwd)  d == One(proc'[p].ff.type = "INODE")
             e == One(file[f].type = "INODE")
  <2>1. Inodes(proc[p], file[f]) = a + e + b /\ Inodes(proc'[p], file'[f]) = c + e + d
        /\ Rest(proc[p]) = a + b /\ Rest(proc'[p]) = c + d
    BY DEF Inodes, Rest
  <2>2. a \in Nat /\ b \in Nat /\ c \in Nat /\ d \in Nat /\ e \in Nat /\ iref \in Nat
    BY IrefNat DEF One
  <2> HIDE DEF a, b, c, d, e
  <2> QED
    BY <2>1, <2>2
<1>5. file'[f].ref \in Nat /\ (file'[f].ref = 0 => file'[f] = NoFile)
  BY <1>2 DEF RefsRight
<1> QED
  BY <1>2, <1>3, <1>4, <1>5, OneRefs

\* Nothing but the references that p holds itself.
LEMMA FixedStep ==
  ASSUME IInv, UNCHANGED <<work, file, pipe, text>>, NEW p \in Procs, Alone(p),
         Local(proc'[p], work, DOMAIN text), proc'[p].state = "RUNNABLE", proc'[p].parent = proc[p].parent,
         proc'[p].at \in {"fileclose", "user", "exit", "zombie"},
         proc'[p].ff.type # "PIPE", proc[p].ff.type # "PIPE",
         Len(proc[p].tmp) \in 0 .. 2, Len(proc'[p].tmp) \in 0 .. 2,
         \A h \in Files : Held(p, proc'[p], Fds, h) = Held(p, proc[p], Fds, h),
         iref' = iref + Rest(proc'[p]) - Rest(proc[p])
  PROVE  IInv'
<1>1. Types /\ PlaceInv /\ RefsRight /\ MineInv
  BY DEF IInv
<1>2. OthersRefs(p)
  BY AloneOthers, TouchedRefs
<1>3. RefsRight'
  BY <1>1, <1>2, FixedRefs
<1>4. MineInv'
  <2>1. proc'[p].at \notin Allocating
    BY DEF Allocating
  <2> QED
    BY <1>1, <1>2, <2>1, MineStep
<1>5. EndInv' /\ InsideInv'
  <2>1. proc'[p].at \notin Reading \cup Writing
    BY DEF Reading, Writing
  <2>2. \A i \in Pipes, w \in BOOLEAN : Has(proc'[p].ff, i, w) <=> Has(proc[p].ff, i, w)
    BY DEF Has
  <2> QED
    BY <2>1, <2>2, SameEnds
<1>6. Wakeful(proc'[p]) /\ Kin(proc[p], proc'[p])
  BY DEF Wakeful, Dozing, Kin
<1>7. DOMAIN text \subseteq DOMAIN text' /\ \A path \in DOMAIN text' : Sequence(text'[path])
  BY <1>1, TextSame
<1>8. DOMAIN file' = Files /\ \A f \in Files : FileType(file'[f], work, DOMAIN text')
  BY <1>1, <1>7, FileSame
<1> QED
  BY <1>3, <1>4, <1>5, <1>6, <1>7, <1>8, FileStep

\* Moving files from the descriptors to the hand changes no count.
LEMMA ClosesAll ==
  ASSUME Types, NEW p \in Procs, Closes(proc[p], proc'[p]), Len(proc[p].tmp) \in 0 .. 2
  PROVE  /\ Len(proc'[p].tmp) \in 0 .. 2
         /\ \A h \in Files : Held(p, proc'[p], Fds, h) = Held(p, proc[p], Fds, h)
<1>1. /\ IsFiniteSet(Fds) /\ None \notin Files /\ DOMAIN proc[p].ofile = Fds /\ WorkType
  BY DescriptorsOf
<1>2. ASSUME NEW h, h # None
      PROVE  /\ Held(p, proc'[p], Fds, h) = Held(p, proc[p], Fds, h) /\ Len(proc'[p].tmp) \in 0 .. 2
  BY SMTT(30), <1>1, <1>2, ClosesHeld
<1>3. 1 \in Files
  BY <1>1, Tables
<1> QED
  BY <1>1, <1>2, <1>3

\* Giving back an inode preserves the invariant.
LEMMA iput_step ==
  ASSUME IInv, UNCHANGED work, NEW p \in Procs, iput(p)
  PROVE  IInv'
<1>1. Types /\ PlaceInv /\ RefsRight /\ proc[p].state = "RUNNABLE"
  BY DEF IInv, iput, At
<1>2. /\ UNCHANGED <<file, pipe, text>> /\ iref' = iref - 1
      /\ Alone(p) /\ Local(proc'[p], work, DOMAIN text) /\ Closes(proc[p], proc'[p])
      /\ proc[p].at = "close_ff" /\ proc[p].ff.type = "INODE" /\ proc[p].cwd = TRUE
      /\ Len(proc[p].tmp) \in 0 .. 2
  BY <1>1, iput_effect
<1>3. /\ Len(proc'[p].tmp) \in 0 .. 2
      /\ \A h \in Files : Held(p, proc'[p], Fds, h) = Held(p, proc[p], Fds, h)
  BY <1>1, <1>2, ClosesAll
<1>4. /\ proc'[p].state = "RUNNABLE" /\ proc'[p].parent = proc[p].parent
      /\ proc'[p].at \in {"fileclose", "user", "exit", "zombie"}
      /\ proc'[p].ff = NoFile /\ proc'[p].cwd = proc[p].cwd /\ NoFile.type = "NONE"
  BY <1>1, <1>2 DEF Closes, NoFile
<1>5. iref' = iref + Rest(proc'[p]) - Rest(proc[p])
  <2>1. Rest(proc'[p]) = 1 /\ Rest(proc[p]) = 2
    BY <1>2, <1>4 DEF Rest, One
  <2>2. iref \in Nat
    BY <1>1, IrefNat
  <2> QED
    BY <1>2, <2>1, <2>2
<1>6. proc'[p].ff.type # "PIPE" /\ proc[p].ff.type # "PIPE"
  BY <1>2, <1>4
<1> QED
  BY <1>2, <1>3, <1>4, <1>5, <1>6, FixedStep

\* sys_close preserves the invariant: the reference moves from the descriptor to the hand.
LEMMA sys_close_step ==
  ASSUME IInv, UNCHANGED work, NEW p \in Procs, sys_close(p)
  PROVE  IInv'
<1>1. Types /\ PlaceInv /\ RefsRight /\ proc[p].state = "RUNNABLE"
  BY CallRuns DEF IInv, sys_close
<1>2. PICK d \in Fds :
        /\ UNCHANGED <<file, pipe, iref, text>> /\ Alone(p) /\ Local(proc'[p], work, DOMAIN text)
        /\ proc[p].at = "user" /\ proc[p].tmp = <<>> /\ proc[p].ff = NoFile
        /\ proc[p].ofile[d] \in Files /\ Same(proc[p], proc'[p], {"ofile", "tmp", "at"})
        /\ proc'[p].ofile = [proc[p].ofile EXCEPT ![d] = None]
        /\ proc'[p].tmp = <<proc[p].ofile[d]>> /\ proc'[p].at = "fileclose"
  BY <1>1, sys_close_effect
<1>3. /\ IsFiniteSet(Fds) /\ None \notin Files /\ DOMAIN proc[p].ofile = Fds
  BY <1>1, DescriptorsOf
<1>4. /\ proc'[p].ofile[d] = None /\ \A x \in Fds \ {d} : proc'[p].ofile[x] = proc[p].ofile[x]
  BY <1>2, <1>3
<1>5. \A h : Times(proc[p].tmp, h) = 0 /\ Times(proc'[p].tmp, h) = (IF proc[p].ofile[d] = h THEN 1 ELSE 0)
  BY <1>2, TimesNone, TimesOne
<1>6. ASSUME NEW h \in Files
      PROVE  Held(p, proc'[p], Fds, h) = Held(p, proc[p], Fds, h)
  <2>1. Held(p, proc'[p], Fds, h) + (IF proc[p].ofile[d] = h THEN 1 ELSE 0) + Times(proc[p].tmp, h) =
          Held(p, proc[p], Fds, h) + (IF proc'[p].ofile[d] = h THEN 1 ELSE 0) + Times(proc'[p].tmp, h)
    BY <1>3, <1>4, HeldFd
  <2>2. Held(p, proc'[p], Fds, h) \in Nat /\ Held(p, proc[p], Fds, h) \in Nat
    BY <1>3, HeldType
  <2>3. proc'[p].ofile[d] # h
    BY <1>3, <1>4
  <2> QED
    BY <1>5, <2>1, <2>2, <2>3
<1>7. /\ proc'[p].state = "RUNNABLE" /\ proc'[p].parent = proc[p].parent
      /\ proc'[p].ff = NoFile /\ proc'[p].cwd = proc[p].cwd /\ NoFile.type = "NONE"
  BY <1>1, <1>2 DEF Same, ProcFields, NoFile
<1>8. iref' = iref + Rest(proc'[p]) - Rest(proc[p])
  <2>1. Rest(proc'[p]) = Rest(proc[p]) /\ Rest(proc[p]) \in Nat /\ iref \in Nat
    BY <1>1, <1>2, <1>7, IrefNat DEF Rest, One
  <2> QED
    BY <1>2, <2>1
<1>9. proc'[p].ff.type # "PIPE" /\ proc[p].ff.type # "PIPE"
  BY <1>2, <1>7
<1>10. Len(proc[p].tmp) \in 0 .. 2 /\ Len(proc'[p].tmp) \in 0 .. 2
  BY <1>2, TimesOne
<1> QED
  BY <1>2, <1>6, <1>7, <1>8, <1>9, <1>10, FixedStep

\* exit's beginning preserves the invariant.
LEMMA exit_step ==
  ASSUME IInv, UNCHANGED work, NEW p \in Procs, exit(p)
  PROVE  IInv'
<1>1. Types /\ PlaceInv /\ RefsRight /\ proc[p].state = "RUNNABLE"
  BY DEF IInv, exit, At
<1>2. /\ UNCHANGED <<file, pipe, iref, text>> /\ Alone(p) /\ Local(proc'[p], work, DOMAIN text)
      /\ proc[p].at = "user" /\ proc[p].tmp = <<>> /\ proc[p].ff = NoFile /\ proc[p].cwd = TRUE
      /\ Closes(proc[p], proc'[p])
  BY <1>1, exit_effect
<1>3. Len(proc[p].tmp) \in 0 .. 2
  BY <1>2
<1>4. /\ Len(proc'[p].tmp) \in 0 .. 2
      /\ \A h \in Files : Held(p, proc'[p], Fds, h) = Held(p, proc[p], Fds, h)
  BY <1>1, <1>2, <1>3, ClosesAll
<1>5. /\ proc'[p].state = "RUNNABLE" /\ proc'[p].parent = proc[p].parent
      /\ proc'[p].at \in {"fileclose", "user", "exit", "zombie"}
      /\ proc'[p].ff = NoFile /\ proc'[p].cwd = proc[p].cwd /\ NoFile.type = "NONE"
  BY <1>1, <1>2 DEF Closes, NoFile
<1>6. iref' = iref + Rest(proc'[p]) - Rest(proc[p])
  <2>1. Rest(proc'[p]) = Rest(proc[p]) /\ Rest(proc[p]) \in Nat /\ iref \in Nat
    BY <1>1, <1>2, <1>5, IrefNat DEF Rest, One
  <2> QED
    BY <1>2, <2>1
<1>7. proc'[p].ff.type # "PIPE" /\ proc[p].ff.type # "PIPE"
  BY <1>2, <1>5
<1> QED
  BY <1>2, <1>3, <1>4, <1>5, <1>6, <1>7, FixedStep

\* Giving back the current directory preserves the invariant.
LEMMA exit_cwd_step ==
  ASSUME IInv, UNCHANGED work, NEW p \in Procs, exit_cwd(p)
  PROVE  IInv'
<1>1. Types /\ PlaceInv /\ RefsRight /\ proc[p].state = "RUNNABLE"
  BY DEF IInv, exit_cwd, At
<1>2. /\ UNCHANGED <<file, pipe, text>> /\ iref' = iref - 1
      /\ Alone(p) /\ Local(proc'[p], work, DOMAIN text)
      /\ Same(proc[p], proc'[p], {"cwd", "at"}) /\ proc'[p].cwd = FALSE /\ proc'[p].at = "zombie"
      /\ proc[p].at = "exit" /\ proc[p].cwd = TRUE /\ proc[p].tmp = <<>>
  BY <1>1, exit_cwd_effect
<1>3. /\ proc'[p].state = "RUNNABLE" /\ proc'[p].parent = proc[p].parent
      /\ proc'[p].ofile = proc[p].ofile /\ proc'[p].tmp = proc[p].tmp /\ proc'[p].ff = proc[p].ff
  BY <1>1, <1>2 DEF Same, ProcFields
<1>4. proc[p].ff = NoFile /\ NoFile.type = "NONE"
  BY <1>1, <1>2 DEF PlaceInv, Place, NoFile
<1>5. /\ Len(proc[p].tmp) \in 0 .. 2 /\ Len(proc'[p].tmp) \in 0 .. 2
      /\ \A h \in Files : Held(p, proc'[p], Fds, h) = Held(p, proc[p], Fds, h)
  BY <1>2, <1>3 DEF Held
<1>6. iref' = iref + Rest(proc'[p]) - Rest(proc[p])
  <2>1. Rest(proc'[p]) = 0 /\ Rest(proc[p]) = 1 /\ iref \in Nat
    BY <1>1, <1>2, <1>3, <1>4, IrefNat DEF Rest, One
  <2> QED
    BY <1>2, <2>1
<1>7. proc'[p].ff.type # "PIPE" /\ proc[p].ff.type # "PIPE"
  BY <1>3, <1>4
<1> QED
  BY <1>2, <1>3, <1>5, <1>6, <1>7, FixedStep

\* One pipe is made or has an end closed; the others may be woken.
LEMMA PipeChange ==
  ASSUME IInv, UNCHANGED <<work, text>>, NEW p \in Procs, Others(p), Local(proc'[p], work, DOMAIN text),
         DOMAIN file' = Files, \A f \in Files : FileType(file'[f], work, DOMAIN text),
         NEW i \in Pipes, NEW x, pipe' = [pipe EXCEPT ![i] = x], PipeType(x),
         pipe[i].lock = None \/ ~ pipe[i].used, Count(i)' <= PIPESIZE,
         \A q \in Procs \ {p} : /\ Stays(proc[q], proc'[q]) /\ Kin(proc[q], proc'[q])
                                /\ ReaderWaits(q, i)' /\ WriterWaits(q, i)',
         Kin(proc[p], proc'[p]), proc'[p].state = "RUNNABLE", proc'[p].at \notin Dozing,
         RefsRight', MineInv', EndInv', InsideInv'
  PROVE  IInv'
<1>1. /\ Types /\ PlaceInv /\ WorkType /\ EndInv /\ InsideInv /\ DOMAIN pipe = Pipes
      /\ Procs' = Procs /\ Pipes' = Pipes /\ DOMAIN proc' = Procs
  BY DEF IInv, Types, Procs, Pipes, Others
<1>2. /\ DOMAIN pipe' = Pipes /\ pipe'[i] = x /\ \A m \in Pipes \ {i} : pipe'[m] = pipe[m]
      /\ \A m \in Pipes : PipeType(pipe'[m])
  BY <1>1 DEF Types
<1>3. Types' /\ PlaceInv'
  <2>1. DOMAIN text \subseteq DOMAIN text' /\ \A path \in DOMAIN text' : Sequence(text'[path])
    BY <1>1, TextSame
  <2>2. \A q \in Procs : Local(proc'[q], work, DOMAIN text')
    BY <1>1, <2>1, LocalsStep
  <2>3. \A f \in Files : FileType(file'[f], work, DOMAIN text')
    OBVIOUS
  <2> QED
    BY <1>1, <1>2, <2>1, <2>2, <2>3, TypesStep
<1>4. CountInv'
  <2>1. \A m \in Pipes : Count(m) <= PIPESIZE
    BY DEF IInv, CountInv
  <2>2. \A m \in Pipes \ {i} : Count(m)' = Count(m)
    BY <1>2 DEF Count
  <2> QED
    BY <1>1, <2>1, <2>2 DEF CountInv
<1>5. SleepInv' /\ SleepersWait'
  <2>1. ASSUME NEW q \in Procs \ {p} PROVE ~ (proc[q].at \in Dozing /\ proc[q].pipe = i)
    <3>1. CASE pipe[i].lock = None
      BY <1>1, <3>1, OneDozes, SleepParts, Tables DEF IInv, Sleeps
    <3>2. CASE ~ pipe[i].used
      <4>1. proc[q].at \in Dozing => proc[q].at \in Reading \cup Writing
        BY DEF Dozing, Reading, Writing
      <4> QED
        BY <1>1, <3>2, <4>1, InsideOpen
    <3> QED
      BY <3>1, <3>2
  <2>2. Sleeps(p)' /\ ChildWait(p)'
    BY <1>1 DEF Sleeps, LockOf, ChanOf, PipeWait, ReaderWaits, WriterWaits, ChildWait, Dozing
  <2> QED
    BY <1>1, <2>1, <2>2, PipeStep DEF IInv
<1> QED
  BY <1>3, <1>4, <1>5 DEF IInv

\* Who sleeps in a pipe has an end of it, that no other process is closing.
LEMMA SleeperHas ==
  ASSUME IInv, NEW q \in Procs, NEW i \in Pipes, proc[q].state = "SLEEPING", NEW w \in BOOLEAN,
         proc[q].chan = IF w THEN NWrite(i) ELSE NRead(i)
  PROVE  pipe[i].used /\ \A p \in Procs : ~ Has(proc[p].ff, i, w)
<1>1. Types /\ PlaceInv /\ EndInv /\ InsideInv
  BY DEF IInv
<1>2. ChanOf(q)
  BY SleepParts DEF IInv
<1>3. proc[q].pipe = i /\ proc[q].at = (IF w THEN "pipewrite" ELSE "piperead")
  BY <1>1, <1>2, SleepsOn
<1>4. proc[q].at \in Reading \cup Writing /\ (proc[q].at \in Writing <=> w)
  BY <1>3 DEF Reading, Writing
<1>5. PICK f \in Files : <<"file", f>> \in Ends(i, w)
  BY <1>1, <1>3, <1>4, InsideOpen
<1>6. pipe[i].used
  BY <1>1, <1>3, <1>4, InsideOpen
<1>7. ASSUME NEW p \in Procs, Has(proc[p].ff, i, w) PROVE FALSE
  <2>1. <<"proc", p>> \in Ends(i, w)
    BY <1>7, InEnds
  <2>2. <<"proc", p>> = <<"file", f>>
    BY <1>1, <1>5, <2>1 DEF EndInv
  <2> QED
    BY <2>2
<1> QED
  BY <1>6, <1>7

\* pipeclose preserves the invariant: the end had one owner, and the other side is awake
\* afterwards.
LEMMA pipeclose_step ==
  ASSUME IInv, UNCHANGED work, NEW p \in Procs, pipeclose(p)
  PROVE  IInv'
<1>1. Types /\ PlaceInv /\ RefsRight /\ MineInv /\ EndInv /\ DOMAIN pipe = Pipes /\ proc[p].state = "RUNNABLE"
  BY DEF IInv, Types, pipeclose, At
<1>0. PICK i \in Pipes, w \in BOOLEAN : \E x :
        /\ UNCHANGED <<file, iref, text>> /\ DOMAIN proc' = Procs
        /\ Local(proc'[p], work, DOMAIN text) /\ Closes(proc[p], proc'[p])
        /\ proc[p].at = "close_ff" /\ Has(proc[p].ff, i, w) /\ proc[p].cwd = TRUE
        /\ Len(proc[p].tmp) \in 0 .. 2 /\ pipe[i].lock = None
        /\ x = [pipe[i] EXCEPT !.writeopen = @ /\ ~ w, !.readopen = @ /\ w]
        /\ pipe' = [pipe EXCEPT ![i] = IF Gone(x) THEN NoPipe ELSE x]
        /\ \A q \in Procs \ {p} : proc'[q] = Awake(IF w THEN NRead(i) ELSE NWrite(i))[q]
  <2> DEFINE j == proc[p].ff.pipe  v == proc[p].ff.writable
             y == [pipe[j] EXCEPT !.writeopen = @ /\ ~ v, !.readopen = @ /\ v]
  <2>1. /\ UNCHANGED <<file, iref, text>> /\ DOMAIN proc' = Procs
        /\ Local(proc'[p], work, DOMAIN text) /\ Closes(proc[p], proc'[p])
        /\ proc[p].at = "close_ff" /\ Has(proc[p].ff, j, v) /\ proc[p].cwd = TRUE
        /\ Len(proc[p].tmp) \in 0 .. 2 /\ pipe[j].lock = None
        /\ y = [pipe[j] EXCEPT !.writeopen = @ /\ ~ v, !.readopen = @ /\ v]
        /\ pipe' = [pipe EXCEPT ![j] = IF Gone(y) THEN NoPipe ELSE y]
        /\ \A q \in Procs \ {p} : proc'[q] = Awake(IF v THEN NRead(j) ELSE NWrite(j))[q]
        /\ j \in Pipes /\ v \in BOOLEAN
    BY <1>1, pipeclose_effect DEF Has
  <2> HIDE DEF y, j, v
  <2> QED
    BY <2>1
<1>2. PICK x :
        /\ UNCHANGED <<file, iref, text>> /\ DOMAIN proc' = Procs
        /\ Local(proc'[p], work, DOMAIN text) /\ Closes(proc[p], proc'[p])
        /\ proc[p].at = "close_ff" /\ Has(proc[p].ff, i, w) /\ proc[p].cwd = TRUE
        /\ Len(proc[p].tmp) \in 0 .. 2 /\ pipe[i].lock = None
        /\ x = [pipe[i] EXCEPT !.writeopen = @ /\ ~ w, !.readopen = @ /\ w]
        /\ pipe' = [pipe EXCEPT ![i] = IF Gone(x) THEN NoPipe ELSE x]
        /\ \A q \in Procs \ {p} : proc'[q] = Awake(IF w THEN NRead(i) ELSE NWrite(i))[q]
  BY <1>0
<1>3. PICK c : c = (IF w THEN NRead(i) ELSE NWrite(i)) /\ Wakes(p, c)
  BY <1>2 DEF Wakes
<1>4. Others(p) /\ OthersRefs(p)
  BY <1>1, <1>3, WakesOthers, TouchedRefs
<1>5. /\ Len(proc'[p].tmp) \in 0 .. 2
      /\ \A h \in Files : Held(p, proc'[p], Fds, h) = Held(p, proc[p], Fds, h)
  BY <1>1, <1>2, ClosesAll
<1>6. /\ proc'[p].state = "RUNNABLE" /\ proc'[p].parent = proc[p].parent
      /\ proc'[p].at \in {"fileclose", "user", "exit"}
      /\ proc'[p].ff = NoFile /\ proc'[p].cwd = proc[p].cwd /\ NoFile.type = "NONE"
      /\ proc[p].ff.type = "PIPE"
  BY <1>1, <1>2 DEF Closes, NoFile, Has
<1>7. RefsRight'
  <2>1. Rest(proc'[p]) = Rest(proc[p]) /\ Rest(proc[p]) \in Nat /\ iref \in Nat
    BY <1>1, <1>2, <1>6, IrefNat DEF Rest, One
  <2>2. iref' = iref + Rest(proc'[p]) - Rest(proc[p])
    BY <1>2, <2>1
  <2> QED
    BY <1>1, <1>2, <1>4, <1>5, <2>2, FixedRefs
<1>8. MineInv'
  <2>1. proc'[p].at \notin Allocating
    BY <1>6 DEF Allocating
  <2> QED
    BY <1>1, <1>2, <1>4, <2>1, MineStep
<1>9. InsideInv'
  <2>1. proc'[p].at \notin Reading \cup Writing
    BY <1>6 DEF Reading, Writing
  <2>2. \A f \in Files, m \in Pipes, v \in BOOLEAN : Has(file[f], m, v) => Has(file'[f], m, v)
    BY <1>2
  <2> QED
    BY <1>1, <1>4, <2>1, <2>2, InsideStep DEF IInv
<1>10. /\ pipe'[i] = (IF Gone(x) THEN NoPipe ELSE x) /\ \A m \in Pipes \ {i} : pipe'[m] = pipe[m]
       /\ x.used = pipe[i].used /\ x.writeopen = (pipe[i].writeopen /\ ~ w)
       /\ x.readopen = (pipe[i].readopen /\ w)
       /\ x.nread = pipe[i].nread /\ x.nwrite = pipe[i].nwrite /\ PipeType(x)
  <2>1. PipeType(pipe[i]) /\ DOMAIN pipe[i] = DOMAIN NoPipe
    BY <1>1 DEF Types, PipeType
  <2>2. DOMAIN pipe[i] = {"used", "nread", "nwrite", "data", "readopen", "writeopen", "lock", "spoiled"}
    BY <2>1, Fields
  <2>3. /\ DOMAIN x = DOMAIN pipe[i] /\ x.data = pipe[i].data /\ x.used = pipe[i].used
        /\ x.writeopen = (pipe[i].writeopen /\ ~ w) /\ x.readopen = (pipe[i].readopen /\ w)
        /\ x.nread = pipe[i].nread /\ x.nwrite = pipe[i].nwrite
    BY <1>2, <2>2
  <2>4. PipeType(x)
    BY <2>1, <2>3 DEF PipeType
  <2> QED
    BY <1>1, <1>2, <2>3, <2>4
<1>11. NoPipe.used = FALSE /\ NoPipe.readopen = FALSE /\ NoPipe.writeopen = FALSE /\ PipeType(NoPipe)
       /\ NoPipe.nread = 0 /\ NoPipe.nwrite = 0
  BY Uint DEF NoPipe, PipeType
<1>12. EndInv'
  <2>1. Procs' = Procs /\ Files' = Files /\ Pipes' = Pipes
    BY DEF Procs, Files, Pipes
  <2>2. \A q \in Procs \ {p} : proc'[q].ff = proc[q].ff
    BY <1>4 DEF OthersRefs, Refs
  <2>3. ASSUME NEW m \in Pipes, NEW v \in BOOLEAN
        PROVE  \A y : y \in Ends(m, v)' <=> y \in Ends(m, v) /\ ~ (m = i /\ v = w)
    <3>1. \A y : y \in Ends(m, v)' <=>
             \/ \E h \in Files : y = <<"file", h>> /\ Has(file[h], m, v)
             \/ \E q \in Procs : y = <<"proc", q>> /\ Has(proc'[q].ff, m, v)
      BY <1>2, <2>1 DEF Ends, Has
    <3>2. ~ Has(proc'[p].ff, m, v) /\ (Has(proc[p].ff, m, v) <=> m = i /\ v = w)
      BY <1>2, <1>6 DEF Has
    <3>3. ASSUME NEW q \in Procs PROVE Has(proc'[q].ff, m, v) <=> Has(proc[q].ff, m, v) /\ q # p
      BY <2>2, <3>2
    <3>4. CASE m = i /\ v = w
      <4>1. <<"proc", p>> \in Ends(m, v)
        BY <3>2, <3>4, InEnds
      <4>2. \A y : y \in Ends(m, v) => y = <<"proc", p>>
        BY <1>1, <4>1 DEF EndInv
      <4>3. \A h \in Files : ~ Has(file[h], m, v)
        <5>1. ASSUME NEW h \in Files, Has(file[h], m, v) PROVE FALSE
          <6>1. <<"file", h>> = <<"proc", p>>
            BY <4>2, <5>1, InEnds
          <6> QED
            BY <6>1
        <5> QED
          BY <5>1
      <4>4. \A q \in Procs : ~ Has(proc'[q].ff, m, v)
        <5>1. ASSUME NEW q \in Procs, Has(proc'[q].ff, m, v) PROVE FALSE
          <6>1. <<"proc", q>> = <<"proc", p>>
            BY <3>3, <4>2, <5>1, InEnds
          <6> QED
            BY <3>3, <5>1, <6>1
        <5> QED
          BY <5>1
      <4> QED
        BY <3>1, <3>4, <4>3, <4>4
    <3>5. CASE ~ (m = i /\ v = w)
      <4>1. \A q \in Procs : Has(proc'[q].ff, m, v) <=> Has(proc[q].ff, m, v)
        BY <3>2, <3>3, <3>5
      <4> QED
        BY <3>1, <3>5, <4>1, InEnds
    <3> QED
      BY <3>4, <3>5
  <2> SUFFICES ASSUME NEW m \in Pipes
               PROVE  /\ \A v \in BOOLEAN : \A y, z \in Ends(m, v)' : y = z
                      /\ pipe'[m].readopen <=> Ends(m, FALSE)' # {}
                      /\ pipe'[m].writeopen <=> Ends(m, TRUE)' # {}
                      /\ pipe'[m].used <=> Ends(m, TRUE)' \cup Ends(m, FALSE)' # {}
    BY <2>1 DEF EndInv
  <2>4. /\ pipe[m].readopen <=> Ends(m, FALSE) # {}
        /\ pipe[m].writeopen <=> Ends(m, TRUE) # {}
        /\ pipe[m].used <=> Ends(m, TRUE) \cup Ends(m, FALSE) # {}
        /\ \A v \in BOOLEAN : \A y, z \in Ends(m, v) : y = z
    BY <1>1 DEF EndInv
  <2>5. ASSUME NEW v \in BOOLEAN PROVE \A y, z \in Ends(m, v)' : y = z
    <3>1. \A y : y \in Ends(m, v)' => y \in Ends(m, v)
      BY <2>3
    <3>2. \A y, z : y \in Ends(m, v) /\ z \in Ends(m, v) => y = z
      BY <2>4
    <3> QED
      BY <3>1, <3>2
  <2>6. /\ Ends(m, FALSE)' # {} <=> Ends(m, FALSE) # {} /\ ~ (m = i /\ ~ w)
        /\ Ends(m, TRUE)' # {} <=> Ends(m, TRUE) # {} /\ ~ (m = i /\ w)
    <3>1. FALSE \in BOOLEAN /\ TRUE \in BOOLEAN
      OBVIOUS
    <3>2. \A y : y \in Ends(m, FALSE)' <=> y \in Ends(m, FALSE) /\ ~ (m = i /\ FALSE = w)
      BY <2>3, <3>1
    <3>3. \A y : y \in Ends(m, TRUE)' <=> y \in Ends(m, TRUE) /\ ~ (m = i /\ TRUE = w)
      BY <2>3, <3>1
    <3> QED
      BY <3>2, <3>3
  <2>7. CASE m # i
    BY <1>10, <2>4, <2>5, <2>6, <2>7
  <2>8. CASE m = i
    <3>1. CASE Gone(x)
      BY <1>10, <1>11, <2>4, <2>5, <2>6, <2>8, <3>1 DEF Gone
    <3>2. CASE ~ Gone(x)
      BY <1>10, <2>4, <2>5, <2>6, <2>8, <3>2 DEF Gone
    <3> QED
      BY <3>1, <3>2
  <2> QED
    BY <2>7, <2>8
<1> DEFINE y == IF Gone(x) THEN NoPipe ELSE x
<1>13. PipeType(y) /\ pipe' = [pipe EXCEPT ![i] = y] /\ (~ Gone(x) => y = x) /\ (Gone(x) => y = NoPipe)
  BY <1>2, <1>10, <1>11
<1> HIDE DEF y
<1>14. Count(i)' <= PIPESIZE /\ (~ Gone(x) => Count(i)' = Count(i))
  <2>1. CASE Gone(x)
    <3>1. Count(i)' = Between(0, 0)
      BY <1>10, <1>11, <2>1 DEF Count, Between
    <3>2. 0 \in 0 .. UINT - 1
      BY Uint
    <3>3. Between(0, 0) = 0
      BY <3>2, BetweenIs
    <3> QED
      BY <2>1, <3>1, <3>3, Uint
  <2>2. CASE ~ Gone(x)
    <3>1. Count(i)' = Count(i)
      BY <1>10, <2>2 DEF Count
    <3> QED
      BY <2>2, <3>1 DEF IInv, CountInv
  <2> QED
    BY <2>1, <2>2
<1>15. \A q \in Procs \ {p} : /\ Stays(proc[q], proc'[q]) /\ Kin(proc[q], proc'[q])
                              /\ ~ (proc'[q].state = "SLEEPING" /\ proc'[q].chan = c)
  BY <1>1, <1>3, WakesKin
<1>16. ASSUME NEW q \in Procs \ {p} PROVE ReaderWaits(q, i)' /\ WriterWaits(q, i)'
  <2>1. ~ (proc'[q].state = "SLEEPING" /\ proc'[q].chan = NRead(i))
    <3>1. ASSUME proc'[q].state = "SLEEPING", proc'[q].chan = NRead(i) PROVE FALSE
      <4>1. proc[q].state = "SLEEPING" /\ proc[q].chan = NRead(i)
        BY <1>15, <3>1 DEF Stays
      <4>2. ~ w
        BY <1>3, <1>15, <3>1
      <4>3. Has(proc[p].ff, i, FALSE)
        BY <1>2, <4>2
      <4> QED
        BY <4>1, <4>3, SleeperHas
    <3> QED
      BY <3>1
  <2>2. ~ (proc'[q].state = "SLEEPING" /\ proc'[q].chan = NWrite(i))
    <3>1. ASSUME proc'[q].state = "SLEEPING", proc'[q].chan = NWrite(i) PROVE FALSE
      <4>1. proc[q].state = "SLEEPING" /\ proc[q].chan = NWrite(i)
        BY <1>15, <3>1 DEF Stays
      <4>2. w
        BY <1>3, <1>15, <3>1
      <4>3. Has(proc[p].ff, i, TRUE)
        BY <1>2, <4>2
      <4> QED
        BY <4>1, <4>3, SleeperHas
    <3> QED
      BY <3>1
  <2> QED
    BY <2>1, <2>2 DEF ReaderWaits, WriterWaits
<1>17. Kin(proc[p], proc'[p]) /\ proc'[p].at \notin Dozing
  BY <1>6 DEF Kin, Dozing
<1>18. DOMAIN file' = Files /\ \A f \in Files : FileType(file'[f], work, DOMAIN text)
  BY <1>1, <1>2 DEF Types
<1> QED
  BY <1>2, <1>4, <1>6, <1>7, <1>8, <1>9, <1>12, <1>13, <1>14, <1>15, <1>16, <1>17, <1>18, PipeChange

\* p puts two files it has in hand into two descriptors.
LEMMA HeldTwo ==
  ASSUME NEW p, NEW F, IsFiniteSet(F), NEW r, NEW s, NEW d \in F, NEW e \in F, d # e, NEW a, NEW b,
         DOMAIN r.ofile = F, r.ofile[d] = None, r.ofile[e] = None, r.tmp = <<a, b>>, s.tmp = <<>>,
         s.ofile = [[r.ofile EXCEPT ![d] = a] EXCEPT ![e] = b], NEW f, f # None
  PROVE  Held(p, s, F, f) = Held(p, r, F, f)
<1> DEFINE m == [ofile |-> [r.ofile EXCEPT ![d] = a], tmp |-> <<b>>]
<1>1. /\ m.tmp = <<b>> /\ m.ofile[d] = a /\ m.ofile[e] = None
      /\ \A x \in F \ {d} : m.ofile[x] = r.ofile[x]
      /\ \A x \in F \ {e} : s.ofile[x] = m.ofile[x]
      /\ s.ofile[e] = b
  OBVIOUS
<1> HIDE DEF m
<1>2. Held(p, m, F, f) + (IF r.ofile[d] = f THEN 1 ELSE 0) + Times(r.tmp, f) =
        Held(p, r, F, f) + (IF m.ofile[d] = f THEN 1 ELSE 0) + Times(m.tmp, f)
  BY <1>1, HeldFd
<1>3. Held(p, s, F, f) + (IF m.ofile[e] = f THEN 1 ELSE 0) + Times(m.tmp, f) =
        Held(p, m, F, f) + (IF s.ofile[e] = f THEN 1 ELSE 0) + Times(s.tmp, f)
  BY <1>1, HeldFd
<1>4. Held(p, s, F, f) \in Nat /\ Held(p, m, F, f) \in Nat /\ Held(p, r, F, f) \in Nat
  BY HeldType
<1>5. /\ Times(s.tmp, f) = 0 /\ Times(m.tmp, f) = (IF b = f THEN 1 ELSE 0)
      /\ Times(r.tmp, f) = (IF a = f THEN 1 ELSE 0) + (IF b = f THEN 1 ELSE 0)
  <2>1. Times(<<a, b>>, f) = (IF a = f THEN 1 ELSE 0) + (IF b = f THEN 1 ELSE 0)
    <3>1. Len(<<a, b>>) = 2 /\ <<a, b>>[1] = a /\ <<a, b>>[2] = b
      OBVIOUS
    <3> QED
      BY <3>1 DEF Times
  <2> QED
    BY <1>1, <2>1, TimesNone, TimesOne
<1> QED
  BY <1>1, <1>2, <1>3, <1>4, <1>5

\* A page becomes a pipe, with an end for each of the two files p has made.
LEMMA PipeMade ==
  ASSUME IInv, UNCHANGED <<work, iref, text>>, NEW p \in Procs, Alone(p), Local(proc'[p], work, DOMAIN text),
         proc[p].at = "pipealloc_page", Len(proc[p].tmp) = 2, proc[p].state = "RUNNABLE",
         NEW i \in Pipes, ~ pipe[i].used,
         pipe' = [pipe EXCEPT ![i] = [NoPipe EXCEPT !.used = TRUE, !.readopen = TRUE, !.writeopen = TRUE]],
         NEW rf \in Files, NEW wf \in Files, rf = proc[p].tmp[1], wf = proc[p].tmp[2],
         file' = [file EXCEPT ![rf] = [@ EXCEPT !.type = "PIPE", !.pipe = i, !.writable = FALSE],
                              ![wf] = [@ EXCEPT !.type = "PIPE", !.pipe = i, !.writable = TRUE]],
         proc'[p].state = "RUNNABLE", proc'[p].parent = proc[p].parent, proc'[p].cwd = proc[p].cwd,
         proc'[p].ff = NoFile, proc'[p].at \in {"user", "fileclose"}, Len(proc'[p].tmp) \in 0 .. 2,
         \A h \in Files : Held(p, proc'[p], Fds, h) = Held(p, proc[p], Fds, h)
  PROVE  IInv'
<1>1. /\ Types /\ PlaceInv /\ RefsRight /\ MineInv /\ EndInv /\ InsideInv /\ DOMAIN pipe = Pipes /\ WorkType
      /\ DOMAIN file = Files
  BY DEF IInv, Types
<1>2. OthersRefs(p) /\ Others(p)
  BY AloneOthers, TouchedRefs
<1>3. /\ file[rf].ref = 1 /\ file[rf].type = "NONE" /\ file[wf].ref = 1 /\ file[wf].type = "NONE" /\ rf # wf
  <2>1. proc[p].at \in Allocating /\ 1 \in 1 .. Len(proc[p].tmp) /\ 2 \in 1 .. Len(proc[p].tmp)
    BY DEF Allocating
  <2>2. 1 \in 1 .. 2 /\ 1 <= Len(proc[p].tmp)
    BY <2>1
  <2>3. /\ file[rf].ref = 1 /\ file[rf].type = "NONE"
    BY <1>1, <2>1, NotMine
  <2>4. /\ file[wf].ref = 1 /\ file[wf].type = "NONE"
        /\ proc[p].tmp[1] = wf => 1 = 2
    BY <1>1, <2>1, <2>2, NotMine
  <2> QED
    BY <2>3, <2>4
<1>4. HasFile(p, rf) /\ HasFile(p, wf)
  <2>1. 1 \in 1 .. 2 /\ 2 \in 1 .. 2 /\ 1 <= Len(proc[p].tmp) /\ 2 <= Len(proc[p].tmp)
    OBVIOUS
  <2> QED
    BY <2>1 DEF HasFile
<1>5. proc[p].ff = NoFile
  BY <1>1 DEF PlaceInv, Place
<1> DEFINE fr == [file[rf] EXCEPT !.type = "PIPE", !.pipe = i, !.writable = FALSE]
           fw == [file[wf] EXCEPT !.type = "PIPE", !.pipe = i, !.writable = TRUE]
<1>6. /\ fr.type = "PIPE" /\ fr.pipe = i /\ fr.writable = FALSE /\ fr.ref = file[rf].ref
      /\ fr.off = file[rf].off /\ DOMAIN fr = DOMAIN NoFile
      /\ fw.type = "PIPE" /\ fw.pipe = i /\ fw.writable = TRUE /\ fw.ref = file[wf].ref
      /\ fw.off = file[wf].off /\ DOMAIN fw = DOMAIN NoFile
  <2>1. DOMAIN file[rf] = FileFields /\ DOMAIN file[wf] = FileFields
    BY <1>1, Fields DEF Types, FileType
  <2> QED
    BY <2>1, Fields DEF FileFields
<1>7. /\ DOMAIN file' = Files /\ file'[rf] = fr /\ file'[wf] = fw
      /\ \A h \in Files \ {rf, wf} : file'[h] = file[h]
  BY <1>1, <1>3
<1> HIDE DEF fr, fw
<1>8. FileType(fr, work, DOMAIN text) /\ FileType(fw, work, DOMAIN text)
  <2>1. file[rf].off \in Nat /\ file[rf].ref \in Nat /\ file[wf].off \in Nat /\ file[wf].ref \in Nat
    BY <1>1 DEF Types, FileType
  <2> QED
    BY <1>6, <2>1 DEF FileType, Pipes
<1>9. \A h \in Files : FileType(file'[h], work, DOMAIN text)
  BY <1>1, <1>7, <1>8 DEF Types
<1>10. ASSUME NEW h \in Files
       PROVE  /\ file'[h].ref = file[h].ref /\ (file'[h].type = "INODE" <=> file[h].type = "INODE")
              /\ file'[h].ref \in Nat /\ (file'[h].ref = 0 => file'[h] = NoFile)
  <2>1. file[h].ref \in Nat
    BY <1>1 DEF Types, FileType
  <2>2. CASE h \in {rf, wf}
    <3>1. /\ file'[h].ref = file[h].ref /\ file[h].ref = 1
          /\ file'[h].type = "PIPE" /\ file[h].type = "NONE"
      <4>1. CASE h = rf
        BY <1>3, <1>6, <1>7, <4>1
      <4>2. CASE h = wf
        BY <1>3, <1>6, <1>7, <4>2
      <4> QED
        BY <2>2, <4>1, <4>2
    <3> QED
      BY <3>1
  <2>3. CASE h \notin {rf, wf}
    BY <1>1, <1>7, <2>1, <2>3 DEF RefsRight
  <2> QED
    BY <2>2, <2>3
<1>11. RefsRight'
  <2>1. iref' = iref + (One(proc'[p].cwd) + One(file'[rf].type = "INODE") + One(proc'[p].ff.type = "INODE"))
                     - (One(proc[p].cwd) + One(file[rf].type = "INODE") + One(proc[p].ff.type = "INODE"))
    <3>1. Inodes(proc'[p], file'[rf]) = Inodes(proc[p], file[rf])
      <4>1. One(file'[rf].type = "INODE") = 0 /\ One(file[rf].type = "INODE") = 0
        BY <1>3, <1>6, <1>7 DEF One
      <4> QED
        BY <1>5, <4>1 DEF Inodes
    <3>2. iref' = iref + Inodes(proc'[p], file'[rf]) - Inodes(proc[p], file[rf])
      BY <1>1, <3>1, SameInodes
    <3> QED
      BY <3>2 DEF Inodes
  <2>2. ASSUME NEW h \in Files
        PROVE  /\ file'[h].ref \in Nat /\ (file'[h].ref = 0 => file'[h] = NoFile)
               /\ file'[h].ref + Held(p, proc[p], Fds, h) = file[h].ref + Held(p, proc'[p], Fds, h)
    BY <1>10
  <2>3. \A h \in Files \ {rf} : file'[h].type = "INODE" <=> file[h].type = "INODE"
    BY <1>10
  <2>4. Len(proc[p].tmp) \in 0 .. 2
    OBVIOUS
  <2> QED
    BY ZenonT(30), <1>1, <1>2, <2>1, <2>2, <2>3, <2>4, RefsStep
<1>12. MineInv'
  <2>1. proc'[p].at \notin Allocating
    BY DEF Allocating
  <2>2. \A f \in Files : \/ file'[f].ref = file[f].ref /\ file'[f].type = file[f].type
                         \/ file[f].ref = 0 \/ HasFile(p, f)
    BY <1>4, <1>7
  <2> QED
    BY <1>1, <1>2, <2>1, <2>2, MineStep
<1>13. InsideInv'
  <2>1. proc'[p].at \notin Reading \cup Writing
    BY DEF Reading, Writing
  <2>2. \A f \in Files, m \in Pipes, v \in BOOLEAN : Has(file[f], m, v) => Has(file'[f], m, v)
    BY <1>3, <1>7 DEF Has
  <2> QED
    BY <1>1, <1>2, <2>1, <2>2, InsideStep
<1> DEFINE x == [NoPipe EXCEPT !.used = TRUE, !.readopen = TRUE, !.writeopen = TRUE]
<1>14. /\ PipeType(x) /\ x.nread = 0 /\ x.nwrite = 0 /\ x.used = TRUE /\ x.readopen = TRUE /\ x.writeopen = TRUE
  BY Uint DEF NoPipe, PipeType
<1>15. /\ pipe' = [pipe EXCEPT ![i] = x] /\ pipe'[i] = x /\ \A m \in Pipes \ {i} : pipe'[m] = pipe[m]
  BY <1>1
<1> HIDE DEF x
<1>16. EndInv'
  <2>1. Procs' = Procs /\ Files' = Files /\ Pipes' = Pipes
    BY DEF Procs, Files, Pipes
  <2>2. \A q \in Procs : proc'[q].ff = proc[q].ff
    BY <1>5 DEF Alone
  <2>3. ASSUME NEW m \in Pipes, NEW v \in BOOLEAN
        PROVE  \A y : y \in Ends(m, v)' <=>
                 y \in Ends(m, v) \/ (m = i /\ y = <<"file", IF v THEN wf ELSE rf>>)
    <3>1. \A y : y \in Ends(m, v)' <=>
             \/ \E h \in Files : y = <<"file", h>> /\ Has(file'[h], m, v)
             \/ \E q \in Procs : y = <<"proc", q>> /\ Has(proc[q].ff, m, v)
      BY <2>1, <2>2 DEF Ends, Has
    <3>2. ASSUME NEW h \in Files
          PROVE  Has(file'[h], m, v) <=> Has(file[h], m, v) \/ (m = i /\ h = (IF v THEN wf ELSE rf))
      <4>1. CASE h = rf
        BY ZenonT(30), <1>3, <1>6, <1>7, <4>1 DEF Has
      <4>2. CASE h = wf
        BY ZenonT(30), <1>3, <1>6, <1>7, <4>2 DEF Has
      <4>3. CASE h \notin {rf, wf}
        BY <1>7, <4>3
      <4> QED
        BY <4>1, <4>2, <4>3
    <3>3. \A y : y \in Ends(m, v) <=>
             \/ \E h \in Files : y = <<"file", h>> /\ Has(file[h], m, v)
             \/ \E q \in Procs : y = <<"proc", q>> /\ Has(proc[q].ff, m, v)
      BY InEnds
    <3>4. PICK g \in Files : g = (IF v THEN wf ELSE rf)
      OBVIOUS
    <3>5. \A h \in Files : Has(file'[h], m, v) <=> Has(file[h], m, v) \/ (m = i /\ h = g)
      BY <3>2, <3>4
    <3>6. ASSUME NEW y, y \in Ends(m, v)' PROVE y \in Ends(m, v) \/ (m = i /\ y = <<"file", g>>)
      <4>1. ASSUME NEW h \in Files, y = <<"file", h>>, Has(file'[h], m, v)
            PROVE  y \in Ends(m, v) \/ (m = i /\ y = <<"file", g>>)
        <5>1. Has(file[h], m, v) \/ (m = i /\ h = g)
          BY <3>5, <4>1
        <5> QED
          BY <3>3, <4>1, <5>1
      <4>2. ASSUME NEW q \in Procs, y = <<"proc", q>>, Has(proc[q].ff, m, v)
            PROVE  y \in Ends(m, v)
        BY <3>3, <4>2
      <4> QED
        BY <3>1, <3>6, <4>1, <4>2
    <3>7. ASSUME NEW y, y \in Ends(m, v) \/ (m = i /\ y = <<"file", g>>) PROVE y \in Ends(m, v)'
      BY <3>1, <3>3, <3>5, <3>7
    <3> QED
      BY <3>4, <3>6, <3>7
  <2> SUFFICES ASSUME NEW m \in Pipes
               PROVE  /\ \A v \in BOOLEAN : \A y, z \in Ends(m, v)' : y = z
                      /\ pipe'[m].readopen <=> Ends(m, FALSE)' # {}
                      /\ pipe'[m].writeopen <=> Ends(m, TRUE)' # {}
                      /\ pipe'[m].used <=> Ends(m, TRUE)' \cup Ends(m, FALSE)' # {}
    BY <2>1 DEF EndInv
  <2>4. /\ pipe[m].readopen <=> Ends(m, FALSE) # {}
        /\ pipe[m].writeopen <=> Ends(m, TRUE) # {}
        /\ pipe[m].used <=> Ends(m, TRUE) \cup Ends(m, FALSE) # {}
        /\ \A v \in BOOLEAN : \A y, z \in Ends(m, v) : y = z
    BY <1>1 DEF EndInv
  <2>5. CASE m # i
    <3>1. ASSUME NEW v \in BOOLEAN PROVE \A y : y \in Ends(m, v)' <=> y \in Ends(m, v)
      BY <2>3, <2>5
    <3>2. ASSUME NEW v \in BOOLEAN PROVE \A y, z \in Ends(m, v)' : y = z
      <4>1. \A y, z : y \in Ends(m, v) /\ z \in Ends(m, v) => y = z
        BY <2>4
      <4> QED
        BY <3>1, <4>1
    <3>3. \A y : y \in Ends(m, FALSE)' <=> y \in Ends(m, FALSE)
      BY <3>1
    <3>4. \A y : y \in Ends(m, TRUE)' <=> y \in Ends(m, TRUE)
      BY <3>1
    <3>5. (Ends(m, FALSE)' # {} <=> Ends(m, FALSE) # {}) /\ (Ends(m, TRUE)' # {} <=> Ends(m, TRUE) # {})
      BY <3>3, <3>4
    <3> QED
      BY <1>15, <2>4, <2>5, <3>2, <3>5
  <2>6. CASE m = i
    <3>1. Ends(m, TRUE) = {} /\ Ends(m, FALSE) = {}
      BY <2>4, <2>6
    <3>2. ASSUME NEW v \in BOOLEAN PROVE \A y : y \in Ends(m, v)' <=> y = <<"file", IF v THEN wf ELSE rf>>
      <4>1. Ends(m, v) = {}
        BY <3>1
      <4> QED
        BY <2>3, <2>6, <4>1
    <3>3. ASSUME NEW v \in BOOLEAN PROVE \A y, z \in Ends(m, v)' : y = z
      BY <3>2
    <3>4. ASSUME NEW v \in BOOLEAN PROVE Ends(m, v)' # {}
      BY <3>2
    <3>5. Ends(m, TRUE)' # {} /\ Ends(m, FALSE)' # {}
      BY <3>4
    <3> QED
      BY <1>14, <1>15, <2>6, <3>3, <3>5
  <2> QED
    BY <2>5, <2>6
<1>17. Count(i)' <= PIPESIZE
  <2>1. Count(i)' = Between(0, 0)
    BY <1>14, <1>15 DEF Count, Between
  <2>2. 0 \in 0 .. UINT - 1
    BY Uint
  <2>3. Between(0, 0) = 0
    BY <2>2, BetweenIs
  <2> QED
    BY <2>1, <2>3, Uint
<1>18. ASSUME NEW q \in Procs \ {p} PROVE ReaderWaits(q, i)' /\ WriterWaits(q, i)'
  <2>1. proc'[q] = proc[q]
    BY DEF Alone
  <2>2. proc[q].state = "SLEEPING" => proc[q].chan # NRead(i) /\ proc[q].chan # NWrite(i)
    <3>1. ASSUME proc[q].state = "SLEEPING", proc[q].chan = NRead(i) PROVE FALSE
      BY <3>1, SleeperHas
    <3>2. ASSUME proc[q].state = "SLEEPING", proc[q].chan = NWrite(i) PROVE FALSE
      BY <3>2, SleeperHas
    <3> QED
      BY <3>1, <3>2
  <2> QED
    BY <2>1, <2>2 DEF ReaderWaits, WriterWaits, NRead, NWrite
<1>19. \A q \in Procs \ {p} : Stays(proc[q], proc'[q]) /\ Kin(proc[q], proc'[q])
  BY AloneKin
<1>20. Kin(proc[p], proc'[p]) /\ proc'[p].at \notin Dozing
  BY DEF Kin, Dozing
<1> QED
  BY <1>2, <1>7, <1>9, <1>11, <1>12, <1>13, <1>14, <1>15, <1>16, <1>17, <1>18, <1>19, <1>20, PipeChange

\* A pipe that is made preserves the invariant: a page no end leads to, with the two ends
\* of its own.
LEMMA pipealloc_page_step ==
  ASSUME IInv, UNCHANGED work, NEW p \in Procs, pipealloc_page(p)
  PROVE  IInv'
<1>1. Types /\ PlaceInv /\ proc[p].state = "RUNNABLE"
  BY DEF IInv, pipealloc_page, At
<1>2. PICK rf \in Files, wf \in Files :
        /\ UNCHANGED <<iref, text>> /\ Local(proc'[p], work, DOMAIN text) /\ Alone(p)
        /\ proc[p].at = "pipealloc_page" /\ Len(proc[p].tmp) = 2
        /\ rf = proc[p].tmp[1] /\ wf = proc[p].tmp[2]
        /\ \/ GivesUp(p) /\ UNCHANGED <<file, pipe>>
           \/ /\ \E i \in Pipes :
                   /\ ~ pipe[i].used
                   /\ pipe' = [pipe EXCEPT ![i] = [NoPipe EXCEPT !.used = TRUE, !.readopen = TRUE,
                                                                 !.writeopen = TRUE]]
                   /\ file' = [file EXCEPT
                        ![rf] = [@ EXCEPT !.type = "PIPE", !.pipe = i, !.writable = FALSE],
                        ![wf] = [@ EXCEPT !.type = "PIPE", !.pipe = i, !.writable = TRUE]]
              /\ \/ GivesUp(p)
                 \/ \E d, e \in Fds :
                      /\ d # e /\ proc[p].ofile[d] = None /\ proc[p].ofile[e] = None
                      /\ Rested(proc[p], proc'[p], [[proc[p].ofile EXCEPT ![d] = rf] EXCEPT ![e] = wf])
  BY <1>1, pipealloc_page_effect
<1>3. /\ IsFiniteSet(Fds) /\ None \notin Files /\ DOMAIN proc[p].ofile = Fds /\ Len(proc[p].tmp) \in 0 .. 2
      /\ proc[p].ff = NoFile
  <2>1. proc[p].ff = NoFile
    BY <1>1, <1>2 DEF PlaceInv, Place
  <2>2. Len(proc[p].tmp) \in 0 .. 2
    <3>1. 2 \in 0 .. 2
      OBVIOUS
    <3> QED
      BY <1>2, <3>1, Zenon
  <2> QED
    BY <1>1, <2>1, <2>2, DescriptorsOf
<1>4. CASE GivesUp(p) /\ UNCHANGED <<file, pipe>>
  BY <1>1, <1>2, <1>3, <1>4, GivesUpStep
<1>5. ASSUME GivesUp(p) PROVE /\ proc'[p].state = "RUNNABLE" /\ proc'[p].parent = proc[p].parent
                              /\ proc'[p].cwd = proc[p].cwd /\ proc'[p].ff = NoFile
                              /\ proc'[p].at \in {"user", "fileclose"} /\ Len(proc'[p].tmp) \in 0 .. 2
                              /\ \A h \in Files : Held(p, proc'[p], Fds, h) = Held(p, proc[p], Fds, h)
  <2>1. /\ proc'[p].state = "RUNNABLE" /\ proc'[p].parent = proc[p].parent /\ proc'[p].at = "fileclose"
        /\ proc'[p].cwd = proc[p].cwd /\ proc'[p].ff = proc[p].ff /\ proc'[p].tmp = proc[p].tmp
        /\ proc'[p].ofile = proc[p].ofile
    BY <1>1, <1>5 DEF GivesUp, Same, ProcFields
  <2> QED
    BY <1>3, <2>1 DEF Held
<1>6. ASSUME NEW d \in Fds, NEW e \in Fds, d # e, proc[p].ofile[d] = None, proc[p].ofile[e] = None,
             Rested(proc[p], proc'[p], [[proc[p].ofile EXCEPT ![d] = rf] EXCEPT ![e] = wf])
      PROVE  /\ proc'[p].state = "RUNNABLE" /\ proc'[p].parent = proc[p].parent
             /\ proc'[p].cwd = proc[p].cwd /\ proc'[p].ff = NoFile
             /\ proc'[p].at \in {"user", "fileclose"} /\ Len(proc'[p].tmp) \in 0 .. 2
             /\ \A h \in Files : Held(p, proc'[p], Fds, h) = Held(p, proc[p], Fds, h)
  <2>1. /\ proc'[p].state = "RUNNABLE" /\ proc'[p].parent = proc[p].parent /\ proc'[p].at = "user"
        /\ proc'[p].cwd = proc[p].cwd /\ proc'[p].ff = NoFile /\ proc'[p].tmp = <<>>
        /\ proc'[p].ofile = [[proc[p].ofile EXCEPT ![d] = rf] EXCEPT ![e] = wf]
    BY <1>1, <1>6 DEF Rested, Returned
  <2>2. proc[p].tmp = <<rf, wf>>
    <3>1. proc[p].tmp \in Seq(Files)
      BY <1>1 DEF Types, ProcType, Files
    <3>2. \A w \in Seq(Files) : Len(w) = 2 => w = <<w[1], w[2]>>
      OBVIOUS
    <3> QED
      BY <1>2, <3>1, <3>2
  <2>3. ASSUME NEW h \in Files PROVE Held(p, proc'[p], Fds, h) = Held(p, proc[p], Fds, h)
    <3>1. h # None
      BY <1>3
    <3> QED
      BY <1>3, <1>6, <2>1, <2>2, <3>1, HeldTwo
  <2>4. Len(proc'[p].tmp) \in 0 .. 2
    BY <2>1
  <2> QED
    BY <2>1, <2>3, <2>4
<1>7. ASSUME NEW i \in Pipes, ~ pipe[i].used,
        pipe' = [pipe EXCEPT ![i] = [NoPipe EXCEPT !.used = TRUE, !.readopen = TRUE, !.writeopen = TRUE]],
        file' = [file EXCEPT ![rf] = [@ EXCEPT !.type = "PIPE", !.pipe = i, !.writable = FALSE],
                             ![wf] = [@ EXCEPT !.type = "PIPE", !.pipe = i, !.writable = TRUE]],
        /\ proc'[p].state = "RUNNABLE" /\ proc'[p].parent = proc[p].parent
        /\ proc'[p].cwd = proc[p].cwd /\ proc'[p].ff = NoFile
        /\ proc'[p].at \in {"user", "fileclose"} /\ Len(proc'[p].tmp) \in 0 .. 2
        /\ \A h \in Files : Held(p, proc'[p], Fds, h) = Held(p, proc[p], Fds, h)
      PROVE  IInv'
  BY <1>1, <1>2, <1>7, PipeMade
<1> QED
  BY <1>2, <1>4, <1>5, <1>6, <1>7

\* The references of a process with nothing in hand are its descriptors.
Uses(o, F, f) == {d \in F : o[d] = f}

\* With nothing in hand a process holds a file as often as its descriptors say.
LEMMA HeldFds ==
  ASSUME NEW p, NEW F, IsFiniteSet(F), NEW r, r.tmp = <<>>, NEW f
  PROVE  /\ Held(p, r, F, f) = Cardinality(Uses(r.ofile, F, f))
         /\ Cardinality(Uses(r.ofile, F, f)) \in Nat
<1> DEFINE S == Uses(r.ofile, F, f)
           T == Through(p, r.ofile, F, f)
           b == [d \in S |-> <<p, d>>]
<1>1. IsFiniteSet(S) /\ Cardinality(S) \in Nat
  BY FS_Subset, FS_CardinalityType DEF Uses
<1>2. b \in Bijection(S, T)
  <2>1. b \in [S -> T]
    BY DEF Through, Uses
  <2>2. \A x, y \in S : b[x] = b[y] => x = y
    OBVIOUS
  <2>3. \A t \in T : \E x \in S : b[x] = t
    BY DEF Through, Uses
  <2> QED
    BY <2>1, <2>2, <2>3 DEF Bijection, Injection, Surjection, IsInjective
<1>3. ExistsBijection(S, T)
  BY <1>2 DEF ExistsBijection
<1>4. Cardinality(T) = Cardinality(S)
  BY <1>1, <1>3, FS_Bijection
<1>5. Times(r.tmp, f) = 0
  BY TimesNone
<1>6. Held(p, r, F, f) = Cardinality(S)
  BY <1>1, <1>4, <1>5 DEF Held
<1> QED
  BY <1>1, <1>6

\* A file that no descriptor refers to is used by none.
LEMMA UsesNone ==
  ASSUME NEW F, NEW o, NEW f, \A d \in F : o[d] # f
  PROVE  Cardinality(Uses(o, F, f)) = 0
<1>1. Uses(o, F, f) = {}
  BY DEF Uses
<1> QED
  BY <1>1, FS_EmptySet

\* Child q of p.
ForkedChild(p, q) ==
  /\ proc[q].state = "UNUSED" /\ DOMAIN proc' = Procs
  /\ \A x \in Procs \ {p, q} : proc'[x] = proc[x]
  /\ Rested(proc[p], proc'[p], proc[p].ofile)
  /\ Local(proc'[q], work, DOMAIN text)
  /\ proc'[q].state = "RUNNABLE" /\ proc'[q].parent = p /\ proc'[q].at = "user"
  /\ proc'[q].ofile = proc[p].ofile /\ proc'[q].tmp = <<>>
  /\ proc'[q].ff = NoFile /\ proc'[q].cwd = TRUE
  /\ iref' = iref + 1
  /\ file' = [f \in Files |-> [file[f] EXCEPT
                !.ref = @ + Cardinality({d \in Fds : proc[p].ofile[d] = f})]]

\* A fork that succeeds preserves the invariant: each file gains what the child holds.
LEMMA ForkStep ==
  ASSUME IInv, UNCHANGED <<work, pipe, text>>, NEW p \in Procs, NEW q \in Procs, p # q,
         proc[p].state = "RUNNABLE", proc[p].at = "user", proc[p].tmp = <<>>, proc[p].ff = NoFile,
         Local(proc'[p], work, DOMAIN text), ForkedChild(p, q)
  PROVE  IInv'
<1>1. /\ Types /\ PlaceInv /\ WorkType /\ RefsRight /\ MineInv /\ EndInv /\ InsideInv
      /\ DOMAIN proc' = Procs /\ Procs' = Procs /\ None \notin Procs /\ DOMAIN pipe = Pipes
  BY Tables DEF IInv, Types, ForkedChild, Procs
<1>2. /\ IsFiniteSet(Fds) /\ None \notin Files /\ \A f \in Files : file[f].ref \in Nat
  BY <1>1, DescriptorsOf
<1>3. /\ proc[q].parent = None /\ \A d \in Fds : proc[q].ofile[d] = None
      /\ proc[q].tmp = <<>> /\ proc[q].ff = NoFile /\ ~ proc[q].cwd
  BY <1>1 DEF PlaceInv, Place, ForkedChild, Allocating, Fds
<1>4. /\ proc'[p].ofile = proc[p].ofile /\ proc'[p].tmp = <<>> /\ proc'[p].ff = NoFile
      /\ proc'[p].cwd = proc[p].cwd /\ proc'[p].at = "user" /\ proc'[p].state = "RUNNABLE"
      /\ proc'[p].parent = proc[p].parent
  BY DEF ForkedChild, Rested, Returned
<1>5. /\ proc'[q].ofile = proc[p].ofile /\ proc'[q].tmp = <<>> /\ proc'[q].ff = NoFile
      /\ proc'[q].cwd = TRUE /\ proc'[q].at = "user" /\ proc'[q].state = "RUNNABLE" /\ proc'[q].parent = p
  BY DEF ForkedChild
<1>6. \A x \in Procs \ {p, q} : proc'[x] = proc[x]
  BY DEF ForkedChild
<1>7. OthersRefs(q)
  <2>1. Refs(proc[p], proc'[p])
    BY <1>4 DEF Refs, Allocating, Reading, Writing
  <2>2. \A x \in Procs \ {p, q} : Refs(proc[x], proc'[x])
    BY <1>6 DEF Refs
  <2> QED
    BY <1>1, <2>1, <2>2 DEF OthersRefs
<1> DEFINE more(f) == Cardinality(Uses(proc[p].ofile, Fds, f))
<1>8. ASSUME NEW f \in Files
      PROVE  /\ Held(q, proc'[q], Fds, f) = more(f) /\ Held(q, proc[q], Fds, f) = 0
             /\ more(f) \in Nat /\ ((\A d \in Fds : proc[p].ofile[d] # f) => more(f) = 0)
  <2>1. f # None
    BY <1>2
  <2>2. /\ Held(q, proc'[q], Fds, f) = Cardinality(Uses(proc'[q].ofile, Fds, f))
        /\ Cardinality(Uses(proc'[q].ofile, Fds, f)) \in Nat
    BY <1>2, <1>5, HeldFds
  <2>3. Held(q, proc[q], Fds, f) = Cardinality(Uses(proc[q].ofile, Fds, f))
    BY <1>2, <1>3, HeldFds
  <2>4. \A d \in Fds : proc[q].ofile[d] # f
    BY <1>3, <2>1
  <2>5. Cardinality(Uses(proc[q].ofile, Fds, f)) = 0
    BY <2>4, UsesNone
  <2>6. (\A d \in Fds : proc[p].ofile[d] # f) => more(f) = 0
    BY UsesNone
  <2> QED
    BY <1>5, <2>2, <2>3, <2>5, <2>6
<1>9. DOMAIN file' = Files /\ \A f \in Files : file'[f] = [file[f] EXCEPT !.ref = @ + more(f)]
  BY DEF ForkedChild, Uses
<1> HIDE DEF more
<1>10. ASSUME NEW f \in Files
       PROVE  /\ file'[f].ref = file[f].ref + more(f) /\ file'[f].type = file[f].type
              /\ file'[f].pipe = file[f].pipe /\ file'[f].writable = file[f].writable
              /\ FileType(file'[f], work, DOMAIN text)
              /\ file'[f].ref \in Nat /\ (file'[f].ref = 0 => file'[f] = NoFile)
  <2>1. FileType(file[f], work, DOMAIN text) /\ file[f].ref \in Nat /\ more(f) \in Nat
    BY <1>1, <1>2, <1>8 DEF Types
  <2>2. DOMAIN file[f] = FileFields
    BY <2>1, Fields DEF FileType
  <2>3. /\ file'[f].ref = file[f].ref + more(f) /\ DOMAIN file'[f] = DOMAIN file[f]
        /\ \A x \in FileFields \ {"ref"} : file'[f][x] = file[f][x]
    BY <1>9, <2>2 DEF FileFields
  <2>4. /\ file'[f].type = file[f].type /\ file'[f].pipe = file[f].pipe /\ file'[f].path = file[f].path
        /\ file'[f].writable = file[f].writable /\ file'[f].off = file[f].off
    BY <2>3 DEF FileFields
  <2>5. file'[f].ref \in Nat
    BY <2>1, <2>3
  <2>6. FileType(file'[f], work, DOMAIN text)
    BY <2>1, <2>3, <2>4, <2>5 DEF FileType
  <2>7. ASSUME file'[f].ref = 0 PROVE file'[f] = NoFile
    <3>1. file[f].ref = 0 /\ more(f) = 0
      BY <2>1, <2>3, <2>7
    <3>2. file[f] = NoFile
      BY <1>1, <3>1 DEF RefsRight
    <3>3. file'[f] = [NoFile EXCEPT !.ref = 0]
      <4>1. file'[f] = [NoFile EXCEPT !.ref = 0 + 0]
        BY <1>9, <3>1, <3>2
      <4>2. 0 + 0 = 0
        OBVIOUS
      <4> QED
        BY <4>1, <4>2, Zenon
    <3> QED
      BY <3>3 DEF NoFile
  <2> QED
    BY <2>3, <2>4, <2>5, <2>6, <2>7
<1>11. RefsRight'
  <2>1. PICK g \in Files : TRUE
    BY <1>1, Tables
  <2>2. ASSUME NEW f \in Files
        PROVE  /\ file'[f].ref \in Nat /\ (file'[f].ref = 0 => file'[f] = NoFile)
               /\ file'[f].ref + Held(q, proc[q], Fds, f) = file[f].ref + Held(q, proc'[q], Fds, f)
    <3>1. file[f].ref \in Nat /\ more(f) \in Nat
      BY <1>2, <1>8
    <3> QED
      BY <1>8, <1>10, <3>1
  <2>3. \A f \in Files \ {g} : file'[f].type = "INODE" <=> file[f].type = "INODE"
    BY <1>10
  <2>4. iref' = iref + (One(proc'[q].cwd) + One(file'[g].type = "INODE") + One(proc'[q].ff.type = "INODE"))
                     - (One(proc[q].cwd) + One(file[g].type = "INODE") + One(proc[q].ff.type = "INODE"))
    <3> DEFINE e == One(file[g].type = "INODE")
    <3>1. /\ One(proc'[q].cwd) = 1 /\ One(proc[q].cwd) = 0
          /\ One(proc'[q].ff.type = "INODE") = 0 /\ One(proc[q].ff.type = "INODE") = 0
      <4>1. NoFile.type = "NONE"
        BY DEF NoFile
      <4> QED
        BY <1>3, <1>5, <4>1 DEF One
    <3>2. One(file'[g].type = "INODE") = e
      BY <1>10
    <3>3. e \in Nat /\ iref \in Nat /\ iref' = iref + 1
      BY <1>1, IrefNat DEF One, ForkedChild
    <3> HIDE DEF e
    <3>4. iref' = iref + (1 + e + 0) - (0 + e + 0)
      BY <3>3
    <3> QED
      BY <3>1, <3>2, <3>4 DEF e
  <2>5. Len(proc[q].tmp) \in 0 .. 2 /\ Len(proc'[q].tmp) \in 0 .. 2
    BY <1>3, <1>5
  <2> QED
    BY <1>1, <1>7, <2>2, <2>3, <2>4, <2>5, RefsStep
<1>12. MineInv'
  <2>1. ASSUME NEW x \in Procs, proc'[x].at \in Allocating, NEW k \in 1 .. Len(proc'[x].tmp)
        PROVE  file'[proc'[x].tmp[k]].ref = 1 /\ file'[proc'[x].tmp[k]].type = "NONE"
    <3>1. x \notin {p, q}
      BY <1>4, <1>5, <2>1 DEF Allocating
    <3>2. proc'[x] = proc[x]
      BY <1>6, <3>1
    <3>3. k \in 1 .. Len(proc[x].tmp) /\ proc[x].at \in Allocating
      BY <2>1, <3>2
    <3>4. PICK f \in Files : /\ f = proc[x].tmp[k] /\ file[f].ref = 1 /\ file[f].type = "NONE"
                             /\ \A d \in Fds : proc[p].ofile[d] # f
      BY <1>1, <3>3, NotMine
    <3>5. more(f) = 0
      BY <1>8, <3>4
    <3>6. file'[f].ref = 1 + 0 /\ file'[f].type = "NONE"
      BY <1>10, <3>4, <3>5
    <3> QED
      BY <3>2, <3>4, <3>6
  <2> QED
    BY <1>1, <2>1 DEF MineInv
<1>13. \A f \in Files, m \in Pipes, v \in BOOLEAN : Has(file'[f], m, v) <=> Has(file[f], m, v)
  BY <1>10 DEF Has
<1>14. EndInv'
  <2>1. ASSUME NEW x \in Procs PROVE proc'[x].ff = proc[x].ff
    BY <1>3, <1>4, <1>5, <1>6
  <2>2. \A x \in Procs, m \in Pipes, v \in BOOLEAN : Has(proc'[x].ff, m, v) <=> Has(proc[x].ff, m, v)
    BY <2>1
  <2> QED
    BY <1>1, <1>13, <2>2, EndsStep
<1>15. InsideInv'
  <2>1. proc'[q].at \notin Reading \cup Writing
    BY <1>5 DEF Reading, Writing
  <2> QED
    BY <1>1, <1>7, <1>13, <2>1, InsideStep
<1>16. Types' /\ PlaceInv'
  <2>1. DOMAIN text \subseteq DOMAIN text' /\ \A path \in DOMAIN text' : Sequence(text'[path])
    BY <1>1, TextSame
  <2>2. ASSUME NEW x \in Procs PROVE Local(proc'[x], work, DOMAIN text')
    <3>1. CASE x \in {p, q}
      BY <3>1 DEF ForkedChild
    <3>2. CASE x \notin {p, q}
      BY <1>1, <1>6, <3>2 DEF Types, PlaceInv, Local
    <3> QED
      BY <3>1, <3>2
  <2>3. \A f \in Files : FileType(file'[f], work, DOMAIN text')
    BY <1>10
  <2>4. DOMAIN pipe' = Pipes /\ \A m \in Pipes : PipeType(pipe'[m])
    BY <1>1 DEF Types
  <2> QED
    BY <1>1, <1>9, <2>1, <2>2, <2>3, <2>4, TypesStep
<1>17. SleepInv' /\ SleepersWait'
  <2>1. ASSUME NEW x \in Procs PROVE Sleeps(x)'
    <3>1. Sleeps(x)
      BY SleepParts DEF Sleeps, IInv
    <3>2. Wakeful(proc'[x]) \/ Stays(proc[x], proc'[x])
      <4>1. CASE x \in {p, q}
        BY <1>4, <1>5, <4>1 DEF Wakeful, Dozing
      <4>2. CASE x \notin {p, q}
        BY <1>6, <4>2 DEF Stays
      <4> QED
        BY <4>1, <4>2
    <3> QED
      BY <3>1, <3>2, SleepsKept
  <2>2. ASSUME NEW x \in Procs PROVE ChildWait(x)'
    <3>1. ChildWait(x)
      BY SleepParts DEF IInv
    <3>2. CASE x \in {p, q}
      BY <1>4, <1>5, <3>2 DEF ChildWait
    <3>3. CASE x \notin {p, q}
      <4>1. ASSUME NEW c \in Procs
            PROVE  /\ proc'[c].parent = x <=> proc[c].parent = x
                   /\ proc[c].parent = x /\ proc'[c].state = "ZOMBIE" => proc[c].state = "ZOMBIE"
        BY <1>1, <1>3, <1>4, <1>5, <1>6, <3>3
      <4>2. proc'[x] = proc[x]
        BY <1>6, <3>3
      <4> QED
        BY <3>1, <4>1, <4>2, FamilyKept
    <3> QED
      BY <3>2, <3>3
  <2> QED
    BY <1>1, <2>1, <2>2 DEF SleepInv, SleepersWait, Sleeps, LockOf, ChanOf, PipeWait, ReaderWaits, WriterWaits, ChildWait
<1> QED
  BY <1>11, <1>12, <1>14, <1>15, <1>16, <1>17, CountStep DEF IInv

\* fork preserves the invariant.
LEMMA fork_step ==
  ASSUME IInv, UNCHANGED work, NEW p \in Procs, fork(p)
  PROVE  IInv'
<1>1. Types /\ PlaceInv /\ proc[p].state = "RUNNABLE" /\ proc[p].at \notin Allocating \cup {"fileclose", "close_ff"}
  BY CallRuns DEF IInv, fork
<1>2. /\ UNCHANGED <<pipe, text>> /\ Local(proc'[p], work, DOMAIN text)
      /\ proc[p].at = "user" /\ proc[p].tmp = <<>> /\ proc[p].ff = NoFile
      /\ \/ Quietly(p) /\ UNCHANGED <<file, iref>>
         \/ \E q \in Procs \ {p} : ForkedChild(p, q)
  BY <1>1, fork_effect DEF ForkedChild
<1>3. CASE Quietly(p) /\ UNCHANGED <<file, iref>>
  BY <1>1, <1>2, <1>3, TextSame, QuietStep
<1>4. ASSUME NEW q \in Procs \ {p}, ForkedChild(p, q) PROVE IInv'
  BY <1>1, <1>2, <1>4, ForkStep
<1> QED
  BY <1>2, <1>3, <1>4

----------------------------------------------------------------------------
(* The invariant.                                                          *)

\* The slots, files and pipes of an empty machine, and the first process.
LEMMA InitParts ==
  ASSUME Init
  PROVE  /\ WorkType /\ DOMAIN proc = Procs /\ DOMAIN file = Files /\ DOMAIN pipe = Pipes
         /\ \A path \in DOMAIN text : Sequence(text[path])
         /\ \A i \in Pipes : pipe[i] = NoPipe
         /\ \A p \in Procs \ {initproc} : proc[p] = Unused
         /\ LET r == proc[initproc] IN
            /\ DOMAIN r = ProcFields /\ r.state = "RUNNABLE" /\ r.parent = None /\ r.killed = FALSE
            /\ r.cwd = TRUE /\ r.at = "user" /\ r.tmp = <<>> /\ r.ff = NoFile /\ r.left = <<>> /\ r.n = 0
            /\ r.pipe = None /\ r.next = "user" /\ ProgType(r.prog)
         /\ \/ /\ proc[initproc].ofile = [d \in Fds |-> None] /\ iref = 1
               /\ \A f \in Files : file[f] = NoFile
            \/ /\ proc[initproc].ofile = [d \in Fds |-> IF d < 3 THEN 1 ELSE None] /\ iref = 2
               /\ {0, 1, 2} \subseteq Fds /\ "console" \in DOMAIN text
               /\ \A f \in Files \ {1} : file[f] = NoFile
               /\ file[1] = [NoFile EXCEPT !.ref = 3, !.type = "INODE", !.writable = TRUE, !.path = "console"]
<1>1. PICK w \in DOMAIN Sizes : work = Sizes[w]
  BY DEF Init
<1>2. /\ work.name = w /\ w \in DOMAIN Main /\ {work.NPROC, work.NFILE, work.NPIPE} \subseteq Nat \ {0}
      /\ work.NOFILE \in Nat /\ (work.known => work.NOFILE >= 3)
  BY <1>1, FilesAssumption
<1>3. WorkType
  BY <1>2 DEF WorkType
<1>4. initproc \in Procs /\ 1 \in Files
  BY <1>3, Tables
<1>5. ProgType(Main[work.name])
  BY <1>2, ProgramsAssumption, ProgramKnown
<1>6. proc = [p \in Procs |-> IF p = initproc
               THEN [Unused EXCEPT !.state = "RUNNABLE", !.cwd = TRUE, !.prog = Main[work.name],
                      !.ofile = [d \in Fds |-> IF work.known /\ d < 3 THEN 1 ELSE None]] ELSE Unused]
  BY DEF Init
<1>7. DOMAIN Unused = ProcFields
  BY Fields
<1> DEFINE r == [Unused EXCEPT !.state = "RUNNABLE", !.cwd = TRUE, !.prog = Main[work.name],
                      !.ofile = [d \in Fds |-> IF work.known /\ d < 3 THEN 1 ELSE None]]
<1>8. proc[initproc] = r /\ DOMAIN proc = Procs /\ \A p \in Procs \ {initproc} : proc[p] = Unused
  BY <1>4, <1>6
<1>9. /\ DOMAIN r = ProcFields /\ r.state = "RUNNABLE" /\ r.cwd = TRUE /\ r.prog = Main[work.name]
      /\ r.ofile = [d \in Fds |-> IF work.known /\ d < 3 THEN 1 ELSE None]
      /\ \A x \in ProcFields \ {"state", "cwd", "prog", "ofile"} : r[x] = Unused[x]
  BY <1>7 DEF ProcFields
<1> HIDE DEF r
<1>10. /\ Unused.parent = None /\ Unused.killed = FALSE /\ Unused.at = "user" /\ Unused.tmp = <<>>
       /\ Unused.ff = NoFile /\ Unused.left = <<>> /\ Unused.n = 0 /\ Unused.pipe = None /\ Unused.next = "user"
  BY DEF Unused
<1>11. /\ r.parent = None /\ r.killed = FALSE /\ r.at = "user" /\ r.tmp = <<>> /\ r.ff = NoFile
       /\ r.left = <<>> /\ r.n = 0 /\ r.pipe = None /\ r.next = "user"
  BY <1>9, <1>10 DEF ProcFields
<1>12. DOMAIN file = Files /\ DOMAIN pipe = Pipes /\ \A i \in Pipes : pipe[i] = NoPipe
  BY DEF Init
<1>13. \A path \in DOMAIN text : Sequence(text[path])
  BY EmptySequence DEF Init
<1>14. CASE ~ work.known
  <2>1. r.ofile = [d \in Fds |-> None]
    BY <1>9, <1>14
  <2>2. iref = 1 /\ \A f \in Files : file[f] = NoFile
    BY <1>14 DEF Init
  <2> QED
    BY <1>3, <1>5, <1>8, <1>9, <1>11, <1>12, <1>13, <2>1, <2>2
<1>15. CASE work.known
  <2>1. r.ofile = [d \in Fds |-> IF d < 3 THEN 1 ELSE None]
    BY <1>9, <1>15
  <2>2. {0, 1, 2} \subseteq Fds
    BY <1>2, <1>15 DEF Fds
  <2>3. /\ iref = 2 /\ "console" \in DOMAIN text /\ \A f \in Files \ {1} : file[f] = NoFile
        /\ file[1] = [NoFile EXCEPT !.ref = 3, !.type = "INODE", !.writable = TRUE, !.path = "console"]
    BY <1>4, <1>15 DEF Init
  <2> QED
    BY <1>3, <1>5, <1>8, <1>9, <1>11, <1>12, <1>13, <2>1, <2>2, <2>3
<1> QED
  BY <1>14, <1>15

\* The first process has the console three times, or nothing.
LEMMA InitRefs ==
  ASSUME Init
  PROVE  RefsRight
<1>1. WorkType /\ DOMAIN proc = Procs /\ \A p \in Procs \ {initproc} : proc[p] = Unused
  BY InitParts
<1>2. /\ proc[initproc].tmp = <<>> /\ proc[initproc].cwd = TRUE /\ proc[initproc].ff = NoFile
  BY InitParts
<1>3. /\ IsFiniteSet(Files) /\ initproc \in Procs /\ 1 \in Files /\ None \notin Files
      /\ IsFiniteSet(Fds)
  BY <1>1, Tables
<1>4. /\ Unused.ofile = [d \in Fds |-> None] /\ Unused.tmp = <<>> /\ Unused.cwd = FALSE /\ Unused.ff = NoFile
      /\ NoFile.type = "NONE" /\ NoFile.ref = 0
  BY DEF Unused, NoFile
<1>5. ASSUME NEW f PROVE Cardinality(InHand(f)) = 0
  <2>1. \A p \in Procs : proc[p].tmp = <<>>
    BY <1>1, <1>2, <1>4
  <2>2. InHand(f) = {}
    BY <2>1 DEF InHand
  <2> QED
    BY <2>2, FS_EmptySet
<1>6. ASSUME NEW f \in Files PROVE Descriptors(f) = {x \in {initproc} \X Fds : proc[initproc].ofile[x[2]] = f}
  <2>1. \A p \in Procs \ {initproc}, d \in Fds : proc[p].ofile[d] # f
    BY <1>1, <1>3, <1>4
  <2> QED
    BY <1>3, <2>1 DEF Descriptors
<1>7. {p \in Procs : proc[p].cwd} = {initproc}
  BY <1>1, <1>2, <1>3, <1>4
<1>8. {p \in Procs : proc[p].ff.type = "INODE"} = {}
  BY <1>1, <1>2, <1>4
<1>9. Cardinality({p \in Procs : proc[p].cwd}) = 1 /\ Cardinality({p \in Procs : proc[p].ff.type = "INODE"}) = 0
  BY <1>7, <1>8, FS_Singleton, FS_EmptySet
<1>10. CASE /\ proc[initproc].ofile = [d \in Fds |-> None] /\ iref = 1
            /\ \A f \in Files : file[f] = NoFile
  <2>1. ASSUME NEW f \in Files PROVE Cardinality(Descriptors(f)) = 0
    <3>1. Descriptors(f) = {}
      BY <1>3, <1>6, <1>10
    <3> QED
      BY <3>1, FS_EmptySet
  <2>2. {f \in Files : file[f].type = "INODE"} = {}
    BY <1>4, <1>10
  <2>3. Cardinality({f \in Files : file[f].type = "INODE"}) = 0
    BY <2>2, FS_EmptySet
  <2>4. \A f \in Files : file[f].ref = 0 /\ file[f] = NoFile
    BY <1>4, <1>10
  <2> QED
    BY <1>5, <1>9, <1>10, <2>1, <2>3, <2>4 DEF RefsRight
<1>11. CASE /\ proc[initproc].ofile = [d \in Fds |-> IF d < 3 THEN 1 ELSE None] /\ iref = 2
            /\ {0, 1, 2} \subseteq Fds
            /\ \A f \in Files \ {1} : file[f] = NoFile
            /\ file[1] = [NoFile EXCEPT !.ref = 3, !.type = "INODE", !.writable = TRUE, !.path = "console"]
  <2>1. ASSUME NEW f \in Files, f # 1 PROVE Cardinality(Descriptors(f)) = 0
    <3>1. Descriptors(f) = {}
      BY <1>3, <1>6, <1>11, <2>1
    <3> QED
      BY <3>1, FS_EmptySet
  <2>2. Cardinality(Descriptors(1)) = 3
    <3>1. \A d \in Fds : d < 3 <=> d \in {0, 1, 2}
      BY <1>1 DEF Fds, WorkType
    <3>2. Descriptors(1) = {<<initproc, 0>>, <<initproc, 1>>} \cup {<<initproc, 2>>}
      BY <1>3, <1>6, <1>11, <3>1
    <3>3. {<<initproc, 0>>, <<initproc, 1>>} = {<<initproc, 0>>} \cup {<<initproc, 1>>}
      OBVIOUS
    <3>4. IsFiniteSet({<<initproc, 0>>}) /\ Cardinality({<<initproc, 0>>}) = 1
      BY FS_Singleton
    <3> DEFINE a == {<<initproc, 0>>}  b == <<initproc, 1>>
    <3>5. <<initproc, 1>> \notin {<<initproc, 0>>}
      OBVIOUS
    <3>6. /\ IsFiniteSet({<<initproc, 0>>, <<initproc, 1>>})
          /\ Cardinality({<<initproc, 0>>, <<initproc, 1>>}) = 1 + 1
      <4>1. IsFiniteSet(a \cup {b}) /\ Cardinality(a \cup {b}) = Cardinality(a) + 1
        <5>1. IsFiniteSet(a) /\ b \notin a
          BY <3>4, <3>5
        <5> HIDE DEF a, b
        <5> QED
          BY <5>1, FS_AddElement
      <4> QED
        BY <3>3, <3>4, <4>1
    <3>7. <<initproc, 2>> \notin {<<initproc, 0>>, <<initproc, 1>>}
      OBVIOUS
    <3>8. Cardinality(Descriptors(1)) = 1 + 1 + 1
      BY <3>2, <3>6, <3>7, FS_AddElement
    <3> QED
      BY <3>8
  <2>3. file[1].type = "INODE" /\ file[1].ref = 3
    BY <1>11 DEF NoFile
  <2>4. {f \in Files : file[f].type = "INODE"} = {1}
    BY SMTT(30), <1>3, <1>4, <1>11, <2>3
  <2>5. Cardinality({f \in Files : file[f].type = "INODE"}) = 1
    BY <2>4, FS_Singleton
  <2>6. ASSUME NEW f \in Files
        PROVE  /\ file[f].ref = Cardinality(Descriptors(f)) + Cardinality(InHand(f))
               /\ file[f].ref = 0 => file[f] = NoFile
    <3>1. CASE f = 1
      BY <1>5, <2>2, <2>3, <3>1
    <3>2. CASE f # 1
      BY <1>4, <1>5, <1>11, <2>1, <3>2
    <3> QED
      BY <3>1, <3>2
  <2> QED
    BY <1>9, <1>11, <2>5, <2>6 DEF RefsRight
<1> QED
  BY <1>10, <1>11, InitParts

\* The first state is of the right type.
LEMMA InitTypes ==
  ASSUME Init
  PROVE  Types /\ PlaceInv
<1>1. /\ WorkType /\ DOMAIN proc = Procs /\ DOMAIN file = Files /\ DOMAIN pipe = Pipes
      /\ \A path \in DOMAIN text : Sequence(text[path])
      /\ \A i \in Pipes : pipe[i] = NoPipe
      /\ \A p \in Procs \ {initproc} : proc[p] = Unused
  BY InitParts
<1>2. 1 \in Files /\ Files = 1 .. work.NFILE /\ Fds = 0 .. work.NOFILE - 1
  BY <1>1, Tables DEF Files, Fds
<1>3. /\ FileType(NoFile, work, DOMAIN text) /\ NoFile.type = "NONE" /\ DOMAIN NoFile = FileFields
      /\ NoFile.off = 0
  BY Fields DEF NoFile
<1>4. ASSUME NEW f \in Files PROVE FileType(file[f], work, DOMAIN text)
  <2>1. CASE file[f] = NoFile
    BY <1>3, <2>1
  <2>2. CASE /\ file[f] = [NoFile EXCEPT !.ref = 3, !.type = "INODE", !.writable = TRUE, !.path = "console"]
             /\ "console" \in DOMAIN text
    <3>1. /\ file[f].ref = 3 /\ file[f].type = "INODE" /\ file[f].path = "console" /\ file[f].off = 0
          /\ DOMAIN file[f] = DOMAIN NoFile
      BY <1>3, <2>2 DEF FileFields
    <3> QED
      BY <2>2, <3>1 DEF FileType
  <2> QED
    BY <2>1, <2>2, InitParts
<1>5. \A i \in Pipes : PipeType(pipe[i])
  <2>1. PipeType(NoPipe)
    BY Uint DEF PipeType, NoPipe
  <2> QED
    BY <1>1, <2>1
<1>6. Local(proc[initproc], work, DOMAIN text)
  <2> DEFINE r == proc[initproc]
  <2>1. /\ DOMAIN r = ProcFields /\ r.state = "RUNNABLE" /\ r.parent = None /\ r.killed = FALSE
        /\ r.cwd = TRUE /\ r.at = "user" /\ r.tmp = <<>> /\ r.ff = NoFile /\ r.left = <<>> /\ r.n = 0
        /\ r.pipe = None /\ r.next = "user" /\ ProgType(r.prog)
    BY InitParts
  <2>2. r.ofile \in [Fds -> Files \cup {None}]
    <3>1. CASE r.ofile = [d \in Fds |-> None]
      BY <3>1
    <3>2. CASE r.ofile = [d \in Fds |-> IF d < 3 THEN 1 ELSE None]
      BY <1>2, <3>2
    <3> QED
      BY <3>1, <3>2, InitParts
  <2> HIDE DEF r
  <2>3. <<>> \in Seq(1 .. work.NFILE) /\ Sequence(<<>>)
    BY EmptySequence
  <2>4. ProcType(r, work, DOMAIN text)
    BY <1>2, <1>3, <2>1, <2>2, <2>3 DEF ProcType, Places
  <2>5. Place(r, work, DOMAIN text)
    BY <2>1, <1>3 DEF Place, Allocating, Reading, Writing
  <2> QED
    BY <2>4, <2>5 DEF Local, r
<1>7. Local(Unused, work, DOMAIN text)
  BY <1>1, LocalUnused
<1>8. ASSUME NEW p \in Procs PROVE Local(proc[p], work, DOMAIN text)
  <2>1. CASE p = initproc
    BY <1>6, <2>1
  <2>2. CASE p # initproc
    <3>1. proc[p] = Unused
      BY <1>1, <2>2
    <3> QED
      BY <1>7, <3>1
  <2> QED
    BY <2>1, <2>2
<1> QED
  BY <1>1, <1>4, <1>5, <1>8 DEF Types, PlaceInv, Local

\* The invariant holds in the first state.
LEMMA InitHolds ==
  ASSUME Init
  PROVE  IInv
<1>1. Types /\ PlaceInv /\ RefsRight
  BY InitTypes, InitRefs
<1>2. ASSUME NEW p \in Procs PROVE proc[p].at = "user" /\ proc[p].state # "SLEEPING" /\ proc[p].ff = NoFile
  <2>1. Unused.at = "user" /\ Unused.state = "UNUSED" /\ Unused.ff = NoFile
    BY DEF Unused
  <2>2. proc[initproc].at = "user" /\ proc[initproc].state = "RUNNABLE" /\ proc[initproc].ff = NoFile
    BY InitParts
  <2>3. p # initproc => proc[p] = Unused
    BY InitParts
  <2> QED
    BY <2>1, <2>2, <2>3
<1>3. MineInv
  BY <1>2 DEF MineInv, Allocating
<1>4. \A i \in Pipes : pipe[i] = NoPipe
  BY InitParts
<1>5. EndInv
  <2>0. NoFile.type = "NONE"
    BY DEF NoFile
  <2>1. ASSUME NEW f \in Files PROVE file[f].type # "PIPE"
    <3>1. CASE file[f] = NoFile
      BY <2>0, <3>1
    <3>2. CASE file[f] = [NoFile EXCEPT !.ref = 3, !.type = "INODE", !.writable = TRUE, !.path = "console"]
      <4>1. file[f].type = "INODE"
        BY <3>2, Fields DEF FileFields
      <4> QED
        BY <4>1
    <3> QED
      BY <3>1, <3>2, InitParts
  <2>2. \A p \in Procs : proc[p].ff.type # "PIPE"
    BY <1>2, <2>0
  <2>3. ASSUME NEW i \in Pipes, NEW w PROVE Ends(i, w) = {}
    BY <2>1, <2>2 DEF Ends
  <2>4. NoPipe.used = FALSE /\ NoPipe.readopen = FALSE /\ NoPipe.writeopen = FALSE
    BY DEF NoPipe
  <2> QED
    BY <1>4, <2>3, <2>4 DEF EndInv
<1>6. InsideInv
  BY <1>2 DEF InsideInv, Reading, Writing
<1>7. CountInv
  <2>1. ASSUME NEW i \in Pipes PROVE Count(i) <= PIPESIZE
    <3>1. NoPipe.nread = 0 /\ NoPipe.nwrite = 0
      BY DEF NoPipe
    <3>2. Count(i) = Between(0, 0)
      BY <1>4, <3>1 DEF Count, Between
    <3>3. 0 \in 0 .. UINT - 1
      BY Uint
    <3>4. Between(0, 0) = 0
      BY <3>3, BetweenIs
    <3> QED
      BY <3>2, <3>4, Uint
  <2> QED
    BY <2>1 DEF CountInv
<1>8. SleepInv /\ SleepersWait
  BY <1>2 DEF SleepInv, SleepersWait
<1> QED
  BY <1>1, <1>3, <1>5, <1>6, <1>7, <1>8 DEF IInv

\* Each action keeps the invariant.
LEMMA ProcessStep ==
  ASSUME IInv, UNCHANGED work, NEW p \in Procs, step(p)
  PROVE  IInv'
BY fileclose_step, iput_step, sys_open_fd_step, pipealloc_step, pipealloc_page_step, pipewrite_step,
   piperead_step, pipe_sleep_step, pipeclose_step, exit_cwd_step, exit_zombie_step, wait_step DEF step

\* Every call preserves the invariant.
LEMMA CallStep ==
  ASSUME IInv, UNCHANGED work, NEW p \in Procs, call(p)
  PROVE  IInv'
BY argfd_fails_step, sys_dup_step, sys_open_step, sys_close_step, sys_pipe_step, sys_read_step,
   sys_write_step, file_read_step, file_write_step, fork_step, exit_step, sys_wait_step, kill_step DEF call

\* A step that changes nothing preserves the invariant.
LEMMA StutterStep ==
  ASSUME IInv, UNCHANGED vars
  PROVE  IInv'
<1>1. /\ UNCHANGED <<proc, file, pipe, iref, text, calls, work>>
      /\ Procs' = Procs /\ Fds' = Fds /\ Files' = Files /\ Pipes' = Pipes
  BY DEF vars, Procs, Fds, Files, Pipes
<1>2. Types' /\ PlaceInv' /\ MineInv'
  BY <1>1 DEF IInv, Types, WorkType, PlaceInv, MineInv
<1>3. RefsRight'
  BY <1>1 DEF IInv, RefsRight, Descriptors, InHand
<1>4. EndInv' /\ InsideInv'
  BY <1>1 DEF IInv, EndInv, InsideInv, Ends
<1>5. CountInv' /\ SleepInv' /\ SleepersWait'
  BY <1>1 DEF IInv, CountInv, SleepInv, SleepersWait, Count, Children
<1> QED
  BY <1>2, <1>3, <1>4, <1>5 DEF IInv

\* The invariant holds for every workload, whatever the programs and the sizes of the
\* tables: types, counts, ends, sleepers and what each place in the code takes for granted.
THEOREM FilesInvariant == Spec => []IInv
<1>1. Init => IInv
  BY InitHolds
<1>2. IInv /\ [Next]_vars => IInv'
  <2> SUFFICES ASSUME IInv, [Next]_vars PROVE IInv'
    OBVIOUS
  <2>1. CASE UNCHANGED vars
    BY <2>1, StutterStep
  <2>2. CASE Next
    BY <2>2, ProcessStep, CallStep DEF Next
  <2> QED
    BY <2>1, <2>2
<1> QED
  BY <1>1, <1>2, PTL DEF Spec

\* Every reference count of the file table and of the inode is the number of those who
\* refer to it, in the middle of a dup, fork, open, pipe, close or exit too.
THEOREM FilesRefsRight == Spec => []RefsRight
<1>1. IInv => RefsRight
  BY DEF IInv
<1> QED
  BY <1>1, FilesInvariant, PTL

\* A set has one element if it is not empty and any two of its elements are equal.
LEMMA OneElement ==
  ASSUME NEW S, \A x, y \in S : x = y
  PROVE  Cardinality(S) = 1 <=> S # {}
<1>1. CASE S = {}
  BY <1>1, FS_EmptySet
<1>2. CASE S # {}
  <2>1. PICK x : x \in S
    BY <1>2
  <2>2. S = {x}
    BY <2>1
  <2> QED
    BY <2>2, FS_Singleton
<1> QED
  BY <1>1, <1>2

\* A pipe lives as long as one of its ends, each end is had by one file or by the process
\* that closes it, nobody is left inside a pipe that is freed, and no byte is overwritten.
THEOREM FilesPipeEnds == Spec => []PipeEnds
<1>1. IInv => PipeEnds
  <2> SUFFICES ASSUME IInv, NEW i \in Pipes
               PROVE  /\ pipe[i].readopen <=> Cardinality(Ends(i, FALSE)) = 1
                      /\ pipe[i].writeopen <=> Cardinality(Ends(i, TRUE)) = 1
                      /\ pipe[i].used <=> Ends(i, TRUE) \cup Ends(i, FALSE) # {}
                      /\ \A p \in Procs : proc[p].pipe = i =>
                           IF proc[p].at \in {"piperead", "piperead_sleep"}
                           THEN pipe[i].readopen ELSE pipe[i].writeopen
                      /\ Count(i) <= PIPESIZE
    BY DEF PipeEnds
  <2>1. /\ Types /\ PlaceInv /\ EndInv /\ InsideInv /\ None \notin Pipes
    BY Tables DEF IInv, Types
  <2>2. /\ \A w \in BOOLEAN : \A x, y \in Ends(i, w) : x = y
        /\ pipe[i].readopen <=> Ends(i, FALSE) # {}
        /\ pipe[i].writeopen <=> Ends(i, TRUE) # {}
        /\ pipe[i].used <=> Ends(i, TRUE) \cup Ends(i, FALSE) # {}
    BY <2>1 DEF EndInv
  <2>3. (Cardinality(Ends(i, FALSE)) = 1 <=> Ends(i, FALSE) # {})
        /\ (Cardinality(Ends(i, TRUE)) = 1 <=> Ends(i, TRUE) # {})
    BY <2>2, OneElement
  <2>4. ASSUME NEW p \in Procs, proc[p].pipe = i
        PROVE  IF proc[p].at \in {"piperead", "piperead_sleep"}
               THEN pipe[i].readopen ELSE pipe[i].writeopen
    <3>1. proc[p].at \in Reading \cup Writing
      BY <2>1, <2>4 DEF PlaceInv, Place
    <3>2. IF proc[p].at \in Writing THEN pipe[i].writeopen ELSE pipe[i].readopen
      BY <2>1, <2>4, <3>1, InsideOpen
    <3> QED
      BY <3>1, <3>2 DEF Reading, Writing
  <2>5. Count(i) <= PIPESIZE
    BY DEF IInv, CountInv
  <2> QED
    BY <2>2, <2>3, <2>4, <2>5
<1> QED
  BY <1>1, FilesInvariant, PTL

\* No wakeup is lost: whoever sleeps in a pipe or in wait has what he waits for still to
\* come, though kill comes between the test and the sleep.
THEOREM FilesSleepersWait == Spec => []SleepersWait
<1>1. IInv => SleepersWait
  BY DEF IInv
<1> QED
  BY <1>1, FilesInvariant, PTL
=============================================================================
